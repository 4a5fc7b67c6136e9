-------------------------- MODULE CommitGraphProofs --------------------------
(***************************************************************************)
(* For any history, any number of fetches and pushes and any crashes: a    *)
(* record never gets ahead of its commit or of its parents' records, every *)
(* generation written is exact when those found were, and a rebuild leaves *)
(* exact and durable records below every ref whatever it found.            *)
(***************************************************************************)
EXTENDS CommitGraph, InductionLemmas, SequenceTheorems, TLAPS

(* The store *)

IsRecord(i, c) == queue[i].type = "record" /\ queue[i].commit = c

\* Commit c, or its record, is found if the first n writes survive.
HasObject(n, c) ==
    c \in durObjs \/ \E i \in 1..n : queue[i].type = "object" /\ queue[i].commit = c
HasRecord(n, c) == durGraph[c] # 0 \/ \E i \in 1..n : IsRecord(i, c)

Grounded(n) ==
    \A c \in Commits : HasRecord(n, c) =>
        HasObject(n, c) /\ \A d \in ParentSet(c) : HasRecord(n, d)

\* What is read is the last write of each record, or else the durable one.
Overlaid(c) ==
    \/ graph[c] = durGraph[c] /\ \A i \in 1..Len(queue) : ~IsRecord(i, c)
    \/ \E i \in 1..Len(queue) :
          /\ IsRecord(i, c) /\ queue[i].generation = graph[c]
          /\ \A j \in (i + 1)..Len(queue) : ~IsRecord(j, c)

StoreInv ==
    /\ \A n \in 0..Len(queue) : Grounded(n)
    /\ \A c \in Commits : c \in objs <=> HasObject(Len(queue), c)
    /\ \A c \in Commits : Overlaid(c)
    /\ \A i \in 1..Len(queue) : queue[i].type = "record" => queue[i].generation # 0

(* The actors *)

Calls == {"lookup", "read", "parse", "put"}

\* A backfill or rebuild: what it resolved has a record, and it writes one
\* only when the commit is there and its parents are resolved.
BackfillInv(a) ==
    /\ pc[a] \in {"parse", "put"} => stack[a] # <<>>
    /\ pc[a] = "put" => Top(a) \in objs /\ \A d \in ParentSet(Top(a)) : gens[a][d] # 0
    /\ \A c \in Commits : gens[a][c] # 0 => graph[c] # 0
    /\ pc[a] \in {"read", "parse", "put"} /\ result[a] # 0 => graph[target[a]] # 0
    /\ pc[a] = "idle" => result[a] = 0

\* A push: its commits are put before their records, and the parents it has
\* asked for have one.
PushInv(p) ==
    /\ todo[p] # 0 /\ (pc[p] = "idle" => todo[p] = 1)
    /\ pc[p] \in Calls => /\ todo[p] <= Len(New[p]) /\ asked[p] < Len(Parents[Current(p)])
                          /\ target[p] = Parents[Current(p)][asked[p] + 1]
    /\ pc[p] \notin Calls \cup {"extend"} => asked[p] = 0
    /\ asked[p] # 0 => todo[p] <= Len(New[p]) /\ asked[p] <= Len(Parents[Current(p)])
    /\ \A j \in 1..asked[p] : graph[Parents[Current(p)][j]] # 0
    /\ pc[p] = "put_object" => todo[p] <= Len(New[p])
    /\ \A i \in 1..Len(New[p]) :
          \/ pc[p] \in {"object", "put_object"} /\ i < todo[p]
          \/ pc[p] \in Calls \cup {"extend", "flush"}
          => New[p][i] \in objs

ActorInv == (\A a \in Actors : BackfillInv(a)) /\ (\A p \in Pushes : PushInv(p))

GraphInv == GraphTypeOK /\ StoreInv /\ ActorInv

(* The generations, given exact ones at the start *)

RecordedExact == \A c \in Commits : Recorded[c] \in {0, Generation[c]}

AskedGenerations(p) == {0} \cup {Generation[Parents[Current(p)][j]] : j \in 1..asked[p]}

ActorExact(a) ==
    /\ \A c \in Commits : gens[a][c] \in {0, Generation[c]}
    /\ pc[a] \in {"read", "parse", "put"} => result[a] \in {0, Generation[target[a]]}
    /\ a \in Pushes => best[a] \in AskedGenerations(a) /\ \A g \in AskedGenerations(a) : best[a] >= g

ExactInv == GenerationsExact /\ \A a \in Actors : ActorExact(a)

(* The rebuild *)

\* It runs alone, what it resolved is exact in the graph, parents included,
\* and at the end it waits for all that is queued.
RebuildInv ==
    /\ pc[Rebuilder] \notin {"object", "put_object", "extend", "lookup"}
    /\ pc[Rebuilder] \in Running => Offline
    /\ pc[Rebuilder] \notin Running => gens[Rebuilder] = NoRecords
    /\ \A c \in Commits : gens[Rebuilder][c] # 0 =>
          /\ gens[Rebuilder][c] = Generation[c] /\ graph[c] = Generation[c]
          /\ \A d \in ParentSet(c) : gens[Rebuilder][d] # 0
    /\ pc[Rebuilder] = "flush" =>
          owed[Rebuilder] = Len(queue) /\ \A c \in tips : gens[Rebuilder][c] # 0

-----------------------------------------------------------------------------
(* The operators *)

\* The commits parse_commit leaves to resolve are commits, and when none is
\* left every one has its generation.
LEMMA UnresolvedFacts ==
    ASSUME NEW s \in Seq(Commits), NEW g \in [Commits -> Nat]
    PROVE  /\ Unresolved(s, g) \in Seq(Commits)
           /\ Unresolved(s, g) = <<>> => \A i \in 1..Len(s) : g[s[i]] # 0
<1> DEFINE L == Len(s)
           Add(n, t) == IF n < L /\ g[s[n + 1]] = 0 THEN Append(t, s[n + 1]) ELSE t
           D == [x \in Nat \X Seq(Commits) |-> Add(x[1], x[2])]
<1>0. L \in Nat
  OBVIOUS
<1>01. \A k \in 1..L : s[k] \in Commits
  OBVIOUS
<1> HIDE DEF L
<1>1. ASSUME NEW n \in Nat, NEW t \in Seq(Commits) PROVE Add(n, t) \in Seq(Commits)
  <2>1. CASE n < L
    <3>1. s[n + 1] \in Commits
      BY <2>1, <1>0, <1>01
    <3> QED BY <3>1
  <2>2. CASE ~(n < L)
    BY <2>2
  <2> QED BY <2>1, <2>2
<1>2. D \in [Nat \X Seq(Commits) -> Seq(Commits)]
  <2>1. ASSUME NEW x \in Nat \X Seq(Commits) PROVE Add(x[1], x[2]) \in Seq(Commits)
    <3> HIDE DEF Add
    <3>1. x[1] \in Nat /\ x[2] \in Seq(Commits)
      OBVIOUS
    <3> QED BY <1>1, <3>1
  <2> HIDE DEF Add
  <2> QED BY <2>1
<1>3. <<>> \in Seq(Commits)
  OBVIOUS
<1> HIDE DEF D
<1>4. PICK f \in [Nat -> Seq(Commits)] : f[0] = <<>> /\ \A n \in Nat : f[n + 1] = D[<<n, f[n]>>]
  <2>1. PICK f : Iterates(f, Seq(Commits), <<>>, D)
    BY <1>2, <1>3, Recursion
  <2> QED BY <2>1 DEF Iterates
<1>5. ASSUME NEW n \in Nat PROVE f[n + 1] = Add(n, f[n])
  BY <1>4 DEF D
<1> DEFINE keep[n \in 0..Len(s)] ==
            IF n = 0 THEN <<>>
            ELSE IF g[s[n]] = 0 THEN Append(keep[n - 1], s[n])
            ELSE keep[n - 1]
<1> DEFINE h == [n \in 0..L |-> f[n]]
           Step(k, n) == IF n = 0 THEN <<>>
                         ELSE IF g[s[n]] = 0 THEN Append(k[n - 1], s[n])
                         ELSE k[n - 1]
<1>6. h = [n \in 0..L |-> Step(h, n)]
  <2>1. ASSUME NEW n \in 0..L PROVE h[n] = Step(h, n)
    <3>1. CASE n = 0
      BY <1>4, <3>1
    <3>2. CASE n # 0
      <4>1. n - 1 \in Nat /\ n - 1 < L /\ n - 1 + 1 = n /\ n - 1 \in 0..L
        BY <1>0, <3>2
      <4>2. f[n] = IF g[s[n]] = 0 THEN Append(f[n - 1], s[n]) ELSE f[n - 1]
        BY <4>1, <1>5
      <4> QED BY <4>1, <4>2, <3>2
    <3> QED BY <3>1, <3>2
  <2> HIDE DEF Step
  <2> QED BY <2>1
<1>61. keep = [n \in 0..L |-> Step(keep, n)]
  BY <1>6 DEF L
<1>62. Unresolved(s, g) = keep[L]
  BY DEF Unresolved, L
<1> HIDE DEF keep
<1>7. PICK u : /\ Unresolved(s, g) = u[L]
               /\ u = [n \in 0..L |-> Step(u, n)]
  BY <1>61, <1>62
<1>8. \A n \in 0..L : u[n] = Step(u, n)
  BY <1>7
<1> DEFINE Kept(n) == n <= L => u[n] \in Seq(Commits)
                                /\ (u[n] = <<>> => \A i \in 1..n : g[s[i]] # 0)
           U == {n \in Nat : Kept(n)}
<1>9. Kept(0)
  <2>1. 0 \in 0..L /\ 1..0 = {}
    BY <1>0
  <2>2. u[0] = <<>> /\ <<>> \in Seq(Commits)
    BY <2>1, <1>8
  <2> QED BY <2>1, <2>2
<1>10. ASSUME NEW n \in Nat, Kept(n) PROVE Kept(n + 1)
  <2> SUFFICES ASSUME n + 1 <= L
               PROVE  /\ u[n + 1] \in Seq(Commits)
                      /\ u[n + 1] = <<>> => \A i \in 1..(n + 1) : g[s[i]] # 0
    OBVIOUS
  <2>0. n <= L /\ n + 1 \in 1..L
    BY <1>0
  <2>1. u[n] \in Seq(Commits)
    BY <2>0, <1>10
  <2>12. s[n + 1] \in Commits
    BY <2>0, <1>01
  <2>11. u[n] = <<>> => \A i \in 1..n : g[s[i]] # 0
    BY <2>0, <1>10
  <2>2. u[n + 1] = IF g[s[n + 1]] = 0 THEN Append(u[n], s[n + 1]) ELSE u[n]
    BY <1>0, <1>8
  <2>3. CASE g[s[n + 1]] = 0
    <3>1. u[n + 1] = Append(u[n], s[n + 1])
      BY <2>2, <2>3
    <3>2. u[n + 1] \in Seq(Commits) /\ Len(u[n + 1]) = Len(u[n]) + 1
      BY <3>1, <2>1, <2>12
    <3>3. Len(u[n]) \in Nat
      BY <2>1, SMTT(40), ZenonT(40)
    <3>4. u[n + 1] # <<>>
      <4>1. Len(u[n + 1]) # 0
        BY <3>2, <3>3, SMTT(40), ZenonT(40)
      <4> QED BY <4>1
    <3> QED BY <3>2, <3>4
  <2>4. CASE g[s[n + 1]] # 0
    <3>1. u[n + 1] = u[n]
      BY <2>2, <2>4
    <3>2. \A i \in 1..(n + 1) : i \in 1..n \/ i = n + 1
      OBVIOUS
    <3> QED BY <2>1, <2>11, <3>1, <3>2, <2>4
  <2> QED BY <2>3, <2>4
<1>11. U = Nat
  <2>1. 0 \in U /\ \A n \in U : n + 1 \in U
    <3> HIDE DEF Kept
    <3> QED BY <1>9, <1>10
  <2> HIDE DEF U
  <2> QED BY <2>1, Induction DEF U
<1>12. Kept(L)
  <2> HIDE DEF Kept
  <2> QED BY <1>0, <1>11
<1>13. L = Len(s) /\ L <= L
  BY <1>0 DEF L
<1> QED BY <1>7, <1>12, <1>13

\* The highest of the parents' generations, from 0 for a root.
LEMMA MaxOverParents ==
    ASSUME NEW c \in Commits, NEW f \in [Commits -> Nat]
    PROVE  LET S == {0} \cup {f[d] : d \in ParentSet(c)}
           IN  Max(S) \in Nat /\ Max(S) \in S /\ \A y \in S : Max(S) >= y
<1> DEFINE S == {0} \cup {f[d] : d \in ParentSet(c)}
<1>1. Parents[c] \in Seq(Commits)
  BY CommitAssumption
<1>2. DOMAIN Parents[c] = 1..Len(Parents[c]) /\ Len(Parents[c]) \in Nat
  BY <1>1
<1>3. IsFiniteSet(DOMAIN Parents[c])
  BY <1>2, FS_Interval
<1>4. S \in SUBSET Nat
  BY <1>1, <1>2 DEF ParentSet
<1> DEFINE h == [i \in DOMAIN Parents[c] |-> f[Parents[c][i]]]
<1>5. IsFiniteSet({h[i] : i \in DOMAIN Parents[c]})
  <2>1. h = [i \in DOMAIN Parents[c] |-> h[i]]
    OBVIOUS
  <2> HIDE DEF h
  <2> QED BY <1>3, <2>1, FiniteImage
<1>6. S = {0} \cup {h[i] : i \in DOMAIN Parents[c]}
  BY DEF ParentSet
<1>7. IsFiniteSet(S)
  BY <1>5, <1>6, FS_Singleton, FS_Union
<1> HIDE DEF S
<1>8. 0 \in S
  BY DEF S
<1>9. Max(S) \in S /\ \A y \in S : Max(S) >= y
  BY <1>4, <1>7, <1>8, MaxNat
<1>10. Max(S) \in Nat
  BY <1>9, <1>4
<1> QED BY <1>9, <1>10 DEF S

LEMMA ParentsTyped ==
    ASSUME NEW c \in Commits
    PROVE  /\ Parents[c] \in Seq(Commits) /\ Generation[c] \in Nat /\ Generation[c] # 0
           /\ ParentSet(c) = {Parents[c][i] : i \in 1..Len(Parents[c])}
           /\ ParentSet(c) \subseteq Commits
<1>1. Generation \in [Commits -> Nat] /\ Parents[c] \in Seq(Commits)
  BY CommitAssumption
<1>2. Generation[c] = 1 + Max({0} \cup {Generation[d] : d \in ParentSet(c)})
  BY CommitAssumption
<1>3. Max({0} \cup {Generation[d] : d \in ParentSet(c)}) \in Nat
  BY <1>1, MaxOverParents
<1>4. ParentSet(c) = {Parents[c][i] : i \in 1..Len(Parents[c])}
  BY <1>1 DEF ParentSet
<1> QED BY <1>1, <1>2, <1>3, <1>4

\* A generation computed from exact ones is exact.
LEMMA ExactFromParents ==
    ASSUME NEW c \in Commits, NEW f \in [Commits -> Nat],
           \A d \in ParentSet(c) : f[d] = Generation[d]
    PROVE  1 + Max({0} \cup {f[d] : d \in ParentSet(c)}) = Generation[c]
<1>1. {0} \cup {f[d] : d \in ParentSet(c)} = {0} \cup {Generation[d] : d \in ParentSet(c)}
  OBVIOUS
<1>2. Generation[c] = 1 + Max({0} \cup {Generation[d] : d \in ParentSet(c)})
  BY CommitAssumption
<1> QED BY <1>1, <1>2

\* max of two numbers.
LEMMA MaxOfTwo ==
    ASSUME NEW x \in Nat, NEW y \in Nat
    PROVE  Max({x, y}) = IF x >= y THEN x ELSE y
<1>1. {x, y} \in SUBSET Nat /\ {x, y} # {}
  OBVIOUS
<1>2. IsFiniteSet({x, y})
  <2>1. {x, y} = {x} \cup {y}
    OBVIOUS
  <2>2. IsFiniteSet({x}) /\ IsFiniteSet({y})
    BY FS_Singleton
  <2> QED BY <2>1, <2>2, FS_Union
<1>3. Max({x, y}) \in {x, y} /\ \A z \in {x, y} : Max({x, y}) >= z
  BY <1>1, <1>2, MaxNat
<1> QED BY <1>3

-----------------------------------------------------------------------------
(* The store *)

\* Objects and records are only lost in a crash.
Monotone == objs \subseteq objs' /\ \A c \in Commits : graph[c] # 0 => graph'[c] # 0

\* What is read is found in the durable part or in the queue.
LEMMA ReadIsSomewhere ==
    ASSUME GraphTypeOK, StoreInv, NEW c \in Commits
    PROVE  graph[c] # 0 <=> HasRecord(Len(queue), c)
<1>1. Overlaid(c) /\ \A i \in 1..Len(queue) : queue[i].type = "record" => queue[i].generation # 0
  BY DEF StoreInv
<1>2. Len(queue) \in Nat
  BY DEF GraphTypeOK
<1> QED BY <1>1, <1>2 DEF Overlaid, HasRecord, IsRecord

LEMMA QueueTyped ==
    ASSUME GraphTypeOK
    PROVE  /\ Len(queue) \in Nat
           /\ \A i \in 1..Len(queue) :
                 /\ queue[i].commit \in Commits
                 /\ queue[i] \in ObjectWrites \/ queue[i] \in RecordWrites
                 /\ queue[i].type = "object" <=> queue[i] \in ObjectWrites
                 /\ queue[i].type = "record" <=> queue[i] \in RecordWrites
                 /\ queue[i].type \in {"object", "record"}
<1>1. queue \in Seq(ObjectWrites \cup RecordWrites)
  BY DEF GraphTypeOK
<1>2. Len(queue) \in Nat /\ \A i \in 1..Len(queue) : queue[i] \in ObjectWrites \cup RecordWrites
  BY <1>1
<1> QED BY <1>2 DEF ObjectWrites, RecordWrites

\* put_commit_graph of a commit that is there and whose parents have records.
LEMMA StorePutsRecord ==
    ASSUME GraphTypeOK, StoreInv, NEW c \in Commits, NEW g \in Nat, g # 0,
           c \in objs, \A d \in ParentSet(c) : graph[d] # 0,
           PutCommitGraph(c, g), UNCHANGED <<durObjs, durGraph, objs>>
    PROVE  StoreInv' /\ Monotone
<1> DEFINE L == Len(queue)
<1>1. L \in Nat /\ queue \in Seq(ObjectWrites \cup RecordWrites)
  BY DEF GraphTypeOK
<1>2. /\ queue' = Append(queue, RecordWrite(c, g)) /\ graph' = [graph EXCEPT ![c] = g]
      /\ durObjs' = durObjs /\ durGraph' = durGraph /\ objs' = objs
      /\ graph \in [Commits -> Nat]
  BY DEF PutCommitGraph, GraphTypeOK
<1>3. /\ Len(queue') = L + 1 /\ queue'[L + 1] = RecordWrite(c, g)
      /\ \A i \in 1..L : queue'[i] = queue[i]
  BY <1>1, <1>2
<1>4. /\ queue'[L + 1].type = "record" /\ queue'[L + 1].commit = c
      /\ queue'[L + 1].generation = g
  BY <1>3 DEF RecordWrite
<1> HIDE DEF L
<1>6. ASSUME NEW n \in 0..L, NEW d \in Commits
      PROVE  (HasRecord(n, d)' <=> HasRecord(n, d)) /\ (HasObject(n, d)' <=> HasObject(n, d))
  <2>1. \A i \in 1..n : queue'[i] = queue[i]
    BY <1>1, <1>3
  <2> QED BY <2>1, <1>2 DEF HasRecord, HasObject, IsRecord
<1>7. ASSUME NEW n, n = L + 1, NEW d \in Commits
      PROVE  /\ HasRecord(n, d)' <=> (HasRecord(L, d) \/ d = c)
             /\ HasObject(n, d)' <=> HasObject(L, d)
  <2>1. 1..n = 1..L \cup {L + 1}
    BY <1>1, <1>7
  <2> QED BY <2>1, <1>2, <1>3, <1>4 DEF HasRecord, HasObject, IsRecord
<1>8. ASSUME NEW n \in 0..(L + 1) PROVE Grounded(n)'
  <2>1. CASE n \in 0..L
    <3>1. Grounded(n)
      BY <2>1 DEF StoreInv, L
    <3> QED BY <3>1, <2>1, <1>6, ParentsTyped DEF Grounded
  <2>2. CASE n = L + 1
    <3>1. Grounded(L) /\ HasObject(L, c) /\ \A d \in ParentSet(c) : HasRecord(L, d)
      <4>1. \A d \in ParentSet(c) : d \in Commits
        BY ParentsTyped
      <4> QED BY <1>1, <4>1, ReadIsSomewhere DEF StoreInv, L
    <3> QED BY <3>1, <2>2, <1>7, ParentsTyped DEF Grounded
  <2> QED BY <2>1, <2>2, <1>1
<1>9. ASSUME NEW d \in Commits PROVE Overlaid(d)'
  <2>1. CASE d = c
    <3>2. L + 1 \in 1..(L + 1) /\ (L + 1 + 1)..(L + 1) = {}
      BY <1>1
    <3> QED BY <1>3, <1>4, <1>2, <2>1, <3>2 DEF Overlaid, IsRecord
  <2>2. CASE d # c
    <3>1. Overlaid(d) /\ graph'[d] = graph[d] /\ durGraph'[d] = durGraph[d]
      BY <1>2, <2>2 DEF StoreInv
    <3>2. \A i \in 1..L : IsRecord(i, d)' <=> IsRecord(i, d)
      BY <1>3 DEF IsRecord
    <3>3. ~(queue'[L + 1].commit = d)
      BY <1>4, <2>2
    <3>4. CASE graph[d] = durGraph[d] /\ \A i \in 1..L : ~IsRecord(i, d)
      BY <3>1, <3>2, <3>3, <3>4, <1>1, <1>3 DEF Overlaid, IsRecord
    <3>5. ASSUME NEW i \in 1..L, IsRecord(i, d), queue[i].generation = graph[d],
                 \A j \in (i + 1)..L : ~IsRecord(j, d)
          PROVE  Overlaid(d)'
      <4>1. i \in 1..(L + 1) /\ queue'[i] = queue[i]
        BY <1>1, <1>3
      <4>2. \A j \in (i + 1)..(L + 1) : ~(queue'[j].type = "record" /\ queue'[j].commit = d)
        <5> SUFFICES ASSUME NEW j \in (i + 1)..(L + 1)
                     PROVE  ~(queue'[j].type = "record" /\ queue'[j].commit = d)
          OBVIOUS
        <5>1. CASE j = L + 1
          BY <5>1, <3>3
        <5>2. CASE j # L + 1
          <6>1. j \in (i + 1)..L /\ j \in 1..L
            BY <5>2, <1>1
          <6> QED BY <6>1, <3>5, <1>3 DEF IsRecord
        <5> QED BY <5>1, <5>2
      <4> QED BY <4>1, <4>2, <3>1, <3>5, <1>3 DEF Overlaid, IsRecord
    <3> QED BY <3>1, <3>4, <3>5 DEF Overlaid, L
  <2> QED BY <2>1, <2>2
<1>10. ASSUME NEW i \in 1..(L + 1), queue'[i].type = "record" PROVE queue'[i].generation # 0
  <2>1. CASE i = L + 1
    BY <2>1, <1>4
  <2>2. CASE i # L + 1
    <3>1. i \in 1..L
      BY <2>2, <1>1
    <3> QED BY <3>1, <1>3, <1>10 DEF StoreInv, L
  <2> QED BY <2>1, <2>2
<1>11. ASSUME NEW d \in Commits PROVE d \in objs' <=> HasObject(Len(queue), d)'
  <2>1. PICK n : n = L + 1
    OBVIOUS
  <2>2. HasObject(n, d)' <=> HasObject(Len(queue), d)'
    BY <2>1, <1>3 DEF HasObject
  <2>3. HasObject(n, d)' <=> HasObject(L, d)
    BY <2>1, <1>7
  <2>4. d \in objs <=> HasObject(L, d)
    BY DEF StoreInv, L
  <2> QED BY <2>2, <2>3, <2>4, <1>2
<1>12. Monotone
  BY <1>2 DEF Monotone
<1> QED BY <1>3, <1>8, <1>9, <1>10, <1>11, <1>12 DEF StoreInv

\* ObjectDb::put of a new commit.
LEMMA StorePutsObject ==
    ASSUME GraphTypeOK, StoreInv, NEW c \in Commits,
           queue' = Append(queue, ObjectWrite(c)), objs' = objs \cup {c},
           UNCHANGED <<durObjs, durGraph, graph>>
    PROVE  StoreInv' /\ Monotone
<1> DEFINE L == Len(queue)
<1>1. L \in Nat /\ queue \in Seq(ObjectWrites \cup RecordWrites)
  BY DEF GraphTypeOK
<1>2. durObjs' = durObjs /\ durGraph' = durGraph /\ graph' = graph
  OBVIOUS
<1>3. /\ Len(queue') = L + 1 /\ queue'[L + 1] = ObjectWrite(c)
      /\ \A i \in 1..L : queue'[i] = queue[i]
  BY <1>1
<1>4. queue'[L + 1].type = "object" /\ queue'[L + 1].commit = c
  BY <1>3 DEF ObjectWrite
<1> HIDE DEF L
<1>5. \A i \in 1..(L + 1) : i \in 1..L \/ i = L + 1
  BY <1>1
<1>6. ASSUME NEW n \in 0..L, NEW d \in Commits
      PROVE  (HasRecord(n, d)' <=> HasRecord(n, d)) /\ (HasObject(n, d)' <=> HasObject(n, d))
  <2>1. \A i \in 1..n : queue'[i] = queue[i]
    BY <1>1, <1>3
  <2> QED BY <2>1, <1>2 DEF HasRecord, HasObject, IsRecord
<1>7. ASSUME NEW n, n = L + 1, NEW d \in Commits
      PROVE  /\ HasRecord(n, d)' <=> HasRecord(L, d)
             /\ HasObject(n, d)' <=> (HasObject(L, d) \/ d = c)
  <2>1. 1..n = 1..L \cup {L + 1}
    BY <1>1, <1>7
  <2> QED BY <2>1, <1>2, <1>3, <1>4 DEF HasRecord, HasObject, IsRecord
<1>8. ASSUME NEW n \in 0..(L + 1) PROVE Grounded(n)'
  <2>1. CASE n \in 0..L
    <3>1. Grounded(n)
      BY <2>1 DEF StoreInv, L
    <3> QED BY <3>1, <2>1, <1>6, ParentsTyped DEF Grounded
  <2>2. CASE n = L + 1
    <3>1. Grounded(L)
      BY <1>1 DEF StoreInv, L
    <3> QED BY <3>1, <2>2, <1>7, ParentsTyped DEF Grounded
  <2> QED BY <2>1, <2>2, <1>1
<1>9. ASSUME NEW d \in Commits PROVE Overlaid(d)'
  <2>1. Overlaid(d)
    BY DEF StoreInv
  <2>2. CASE graph[d] = durGraph[d] /\ \A i \in 1..L : ~IsRecord(i, d)
    BY <2>2, <1>2, <1>3, <1>4, <1>5 DEF Overlaid, IsRecord
  <2>3. ASSUME NEW i \in 1..L, IsRecord(i, d), queue[i].generation = graph[d],
               \A j \in (i + 1)..L : ~IsRecord(j, d)
        PROVE  Overlaid(d)'
    <3>1. i \in 1..(L + 1) /\ queue'[i] = queue[i]
      BY <1>1, <1>3
    <3>2. \A j \in (i + 1)..(L + 1) : ~(queue'[j].type = "record" /\ queue'[j].commit = d)
      <4> SUFFICES ASSUME NEW j \in (i + 1)..(L + 1)
                   PROVE  ~(queue'[j].type = "record" /\ queue'[j].commit = d)
        OBVIOUS
      <4>1. CASE j = L + 1
        BY <4>1, <1>4
      <4>2. CASE j # L + 1
        <5>1. j \in (i + 1)..L /\ j \in 1..L
          BY <4>2, <1>1
        <5> QED BY <5>1, <2>3, <1>3 DEF IsRecord
      <4> QED BY <4>1, <4>2
    <3> QED BY <3>1, <3>2, <2>3, <1>2, <1>3 DEF Overlaid, IsRecord
  <2> QED BY <2>1, <2>2, <2>3 DEF Overlaid, L
<1>10. ASSUME NEW i \in 1..(L + 1), queue'[i].type = "record" PROVE queue'[i].generation # 0
  <2>1. i \in 1..L
    BY <1>4, <1>5, <1>10
  <2> QED BY <2>1, <1>3, <1>10 DEF StoreInv, L
<1>11. ASSUME NEW d \in Commits PROVE d \in objs' <=> HasObject(Len(queue), d)'
  <2>1. PICK n : n = L + 1
    OBVIOUS
  <2>2. HasObject(n, d)' <=> HasObject(Len(queue), d)'
    BY <2>1, <1>3 DEF HasObject
  <2>3. HasObject(n, d)' <=> (HasObject(L, d) \/ d = c)
    BY <2>1, <1>7
  <2>4. d \in objs <=> HasObject(L, d)
    BY DEF StoreInv, L
  <2> QED BY <2>2, <2>3, <2>4
<1>12. Monotone
  BY <1>2 DEF Monotone
<1> QED BY <1>3, <1>8, <1>9, <1>10, <1>11, <1>12 DEF StoreInv

\* The flush task persists the oldest write.
LEMMA StoreFlushes ==
    ASSUME GraphTypeOK, StoreInv, WalFlush
    PROVE  StoreInv' /\ Monotone
<1> DEFINE L == Len(queue)
           e == queue[1]
<1>1. /\ queue \in Seq(ObjectWrites \cup RecordWrites) /\ queue # <<>>
      /\ durGraph \in [Commits -> Nat]
  BY DEF GraphTypeOK, WalFlush
<1>2. L \in Nat /\ L >= 1 /\ Head(queue) = e /\ 1 \in 1..L
  BY <1>1
<1>3. Len(queue') = L - 1 /\ \A i \in 1..(L - 1) : queue'[i] = queue[i + 1]
  <2>1. queue' = Tail(queue)
    BY DEF WalFlush
  <2> QED BY <1>1, <2>1
<1>4. /\ e.commit \in Commits /\ e.type \in {"object", "record"}
      /\ e.type = "record" => e.generation \in Nat /\ e.generation # 0
  <2>1. e \in ObjectWrites \/ e \in RecordWrites
    BY <1>2, QueueTyped
  <2>2. e.type = "record" => e.generation # 0
    BY <1>2 DEF StoreInv
  <2> QED BY <2>1, <2>2 DEF ObjectWrites, RecordWrites
<1>5. /\ durObjs' = IF e.type = "object" THEN durObjs \cup {e.commit} ELSE durObjs
      /\ durGraph' = IF e.type = "object" THEN durGraph
                     ELSE [durGraph EXCEPT ![e.commit] = e.generation]
      /\ objs' = objs /\ graph' = graph
  BY <1>2 DEF WalFlush
<1> HIDE DEF L, e
<1>6. ASSUME NEW n \in Nat, n <= L - 1, NEW m, m = n + 1, NEW d \in Commits
      PROVE  (HasRecord(n, d)' <=> HasRecord(m, d)) /\ (HasObject(n, d)' <=> HasObject(m, d))
  <2>1. \A i \in 1..n : i + 1 \in 1..m /\ queue'[i] = queue[i + 1]
    BY <1>2, <1>3, <1>6
  <2>2. \A i \in 1..m : i = 1 \/ (i - 1 \in 1..n /\ (i - 1) + 1 = i)
    BY <1>6
  <2>3. 1 \in 1..m /\ queue[1] = e
    BY <1>6 DEF e
  <2>4. (\E i \in 1..n : queue'[i].type = "record" /\ queue'[i].commit = d) <=>
        (\E i \in 1..m : i # 1 /\ queue[i].type = "record" /\ queue[i].commit = d)
    <3>1. ASSUME NEW i \in 1..n, queue'[i].type = "record", queue'[i].commit = d
          PROVE  \E k \in 1..m : k # 1 /\ queue[k].type = "record" /\ queue[k].commit = d
      <4>1. i + 1 # 1
        OBVIOUS
      <4> QED BY <3>1, <2>1, <4>1
    <3>2. ASSUME NEW i \in 1..m, i # 1, queue[i].type = "record", queue[i].commit = d
          PROVE  \E k \in 1..n : queue'[k].type = "record" /\ queue'[k].commit = d
      <4>1. i - 1 \in 1..n /\ queue'[i - 1] = queue[i]
        BY <2>1, <2>2, <3>2
      <4> QED BY <4>1, <3>2
    <3> QED BY <3>1, <3>2
  <2>5. (\E i \in 1..n : queue'[i].type = "object" /\ queue'[i].commit = d) <=>
        (\E i \in 1..m : i # 1 /\ queue[i].type = "object" /\ queue[i].commit = d)
    <3>1. ASSUME NEW i \in 1..n, queue'[i].type = "object", queue'[i].commit = d
          PROVE  \E k \in 1..m : k # 1 /\ queue[k].type = "object" /\ queue[k].commit = d
      <4>1. i + 1 # 1
        OBVIOUS
      <4> QED BY <3>1, <2>1, <4>1
    <3>2. ASSUME NEW i \in 1..m, i # 1, queue[i].type = "object", queue[i].commit = d
          PROVE  \E k \in 1..n : queue'[k].type = "object" /\ queue'[k].commit = d
      <4>1. i - 1 \in 1..n /\ queue'[i - 1] = queue[i]
        BY <2>1, <2>2, <3>2
      <4> QED BY <4>1, <3>2
    <3> QED BY <3>1, <3>2
  <2>6. durGraph'[d] # 0 <=> (durGraph[d] # 0 \/ (e.type = "record" /\ e.commit = d))
    <3>1. CASE e.type = "object"
      BY <3>1, <1>5
    <3>2. CASE e.type = "record"
      BY <3>2, <1>1, <1>4, <1>5
    <3> QED BY <3>1, <3>2, <1>4
  <2>7. d \in durObjs' <=> (d \in durObjs \/ (e.type = "object" /\ e.commit = d))
    BY <1>4, <1>5
  <2>8. HasRecord(n, d)' <=> HasRecord(m, d)
    BY <2>3, <2>4, <2>6 DEF HasRecord, IsRecord
  <2>9. HasObject(n, d)' <=> HasObject(m, d)
    BY <2>3, <2>5, <2>7 DEF HasObject
  <2> QED BY <2>8, <2>9
<1>7. ASSUME NEW n \in 0..(L - 1) PROVE Grounded(n)'
  <2>1. PICK m : m = n + 1
    OBVIOUS
  <2>2. m \in 0..L /\ n \in Nat /\ n <= L - 1
    BY <1>2, <2>1
  <2>3. Grounded(m)
    BY <2>2 DEF StoreInv, L
  <2>4. \A d \in Commits : (HasRecord(n, d)' <=> HasRecord(m, d)) /\ (HasObject(n, d)' <=> HasObject(m, d))
    BY <1>6, <2>1, <2>2
  <2> QED BY <2>3, <2>4, ParentsTyped DEF Grounded
<1>8. ASSUME NEW d \in Commits PROVE d \in objs' <=> HasObject(Len(queue), d)'
  <2>1. PICK n : n = L - 1
    OBVIOUS
  <2>2. n \in Nat /\ n <= L - 1 /\ L = n + 1
    BY <1>2, <2>1
  <2>3. HasObject(n, d)' <=> HasObject(Len(queue), d)'
    BY <2>1, <1>3 DEF HasObject
  <2>4. HasObject(n, d)' <=> HasObject(L, d)
    BY <2>2, <1>6
  <2>5. d \in objs <=> HasObject(L, d)
    BY DEF StoreInv, L
  <2> QED BY <2>3, <2>4, <2>5, <1>5
<1>9. ASSUME NEW d \in Commits PROVE Overlaid(d)'
  <2>1. Overlaid(d) /\ graph'[d] = graph[d]
    BY <1>5 DEF StoreInv
  <2>2. CASE graph[d] = durGraph[d] /\ \A i \in 1..L : ~IsRecord(i, d)
    <3>1. durGraph'[d] = durGraph[d]
      <4>1. ~(e.type = "record" /\ e.commit = d)
        BY <2>2, <1>2 DEF IsRecord, e
      <4> QED BY <4>1, <1>1, <1>4, <1>5
    <3>2. \A i \in 1..(L - 1) : ~(queue'[i].type = "record" /\ queue'[i].commit = d)
      <4>1. \A i \in 1..(L - 1) : i + 1 \in 1..L
        BY <1>2
      <4> QED BY <4>1, <2>2, <1>3 DEF IsRecord
    <3> QED BY <2>1, <2>2, <3>1, <3>2, <1>3 DEF Overlaid, IsRecord
  <2>3. ASSUME NEW i \in 1..L, IsRecord(i, d), queue[i].generation = graph[d],
               \A j \in (i + 1)..L : ~IsRecord(j, d)
        PROVE  Overlaid(d)'
    <3>1. \A j \in i..(L - 1) : ~(queue'[j].type = "record" /\ queue'[j].commit = d)
      <4>1. \A j \in i..(L - 1) : j + 1 \in (i + 1)..L /\ j \in 1..(L - 1)
        BY <1>2
      <4> QED BY <4>1, <2>3, <1>3 DEF IsRecord
    <3>2. CASE i = 1
      <4>1. durGraph'[d] = graph'[d]
        <5>1. e.type = "record" /\ e.commit = d /\ e.generation = graph[d]
          BY <3>2, <2>3 DEF IsRecord, e
        <5> QED BY <5>1, <1>1, <1>5, <2>1
      <4> QED BY <3>1, <3>2, <4>1, <1>3 DEF Overlaid, IsRecord
    <3>3. CASE i # 1
      <4>1. PICK k : k = i - 1
        OBVIOUS
      <4>2. k \in 1..(L - 1) /\ queue'[k] = queue[i] /\ k + 1 = i
        BY <1>2, <1>3, <3>3, <4>1
      <4> QED BY <4>2, <3>1, <2>1, <2>3, <1>3 DEF Overlaid, IsRecord
    <3> QED BY <3>2, <3>3
  <2> QED BY <2>1, <2>2, <2>3 DEF Overlaid, L
<1>10. ASSUME NEW i \in 1..(L - 1), queue'[i].type = "record" PROVE queue'[i].generation # 0
  <2>1. i + 1 \in 1..L
    BY <1>2
  <2> QED BY <2>1, <1>3, <1>10 DEF StoreInv, L
<1>11. Monotone
  BY <1>5 DEF Monotone
<1> QED BY <1>3, <1>7, <1>8, <1>9, <1>10, <1>11 DEF StoreInv

\* A restart reads what was durable.
LEMMA StoreRestarts ==
    ASSUME GraphTypeOK, StoreInv, Crash
    PROVE  StoreInv'
<1>1. /\ objs' = durObjs /\ graph' = durGraph /\ queue' = <<>>
      /\ durObjs' = durObjs /\ durGraph' = durGraph
  BY DEF Crash
<1>2. Len(queue') = 0 /\ 0 \in 0..Len(queue) /\ 1..0 = {}
  <2>1. Len(queue) \in Nat
    BY QueueTyped
  <2> QED BY <1>1, <2>1
<1>3. Grounded(0)
  BY <1>2 DEF StoreInv
<1>4. \A c \in Commits : (HasRecord(0, c)' <=> HasRecord(0, c)) /\ (HasObject(0, c)' <=> HasObject(0, c))
  BY <1>1, <1>2 DEF HasRecord, HasObject
<1>5. Grounded(0)'
  BY <1>3, <1>4, ParentsTyped DEF Grounded
<1>6. \A n \in 0..Len(queue') : n = 0
  BY <1>2
<1>7. \A c \in Commits : c \in objs' <=> HasObject(Len(queue), c)'
  BY <1>1, <1>2 DEF HasObject
<1>8. \A c \in Commits : Overlaid(c)'
  BY <1>1, <1>2 DEF Overlaid
<1> QED BY <1>2, <1>5, <1>6, <1>7, <1>8 DEF StoreInv

\* A step that only reads.
LEMMA StoreIsRead ==
    ASSUME StoreInv, UNCHANGED <<durObjs, durGraph, queue, objs, graph>>
    PROVE  StoreInv' /\ Monotone
BY DEF StoreInv, Grounded, HasRecord, HasObject, IsRecord, Overlaid, Monotone

-----------------------------------------------------------------------------
(* The actors *)

\* The locals of actor q are untouched.
Same(q) ==
    /\ pc'[q] = pc[q] /\ todo'[q] = todo[q] /\ asked'[q] = asked[q] /\ best'[q] = best[q]
    /\ target'[q] = target[q] /\ stack'[q] = stack[q] /\ gens'[q] = gens[q]
    /\ result'[q] = result[q]

LEMMA Roles ==
    /\ Walkers \subseteq Actors /\ Pushes \subseteq Actors /\ Rebuilder \in Actors
    /\ Rebuilder \notin Pushes /\ Rebuilder \notin Walkers
    /\ \A w \in Walkers : w \notin Pushes
BY PushAssumption DEF Actors

LEMMA PushTyped ==
    ASSUME NEW p \in Pushes
    PROVE  New[p] \in Seq(Commits) /\ \A i \in 1..Len(New[p]) : New[p][i] \in Commits
<1>1. New[p] \in Seq(Commits)
  BY PushAssumption
<1> QED BY <1>1

\* A step of another actor disturbs nothing a call relies on.
LEMMA Bystander ==
    ASSUME GraphTypeOK, Monotone, NEW q \in Actors, Same(q), BackfillInv(q)
    PROVE  BackfillInv(q)'
<1>1. target[q] \in Commits
  BY DEF GraphTypeOK
<1>2. pc[q] = "put" => Top(q)' = Top(q)
  BY DEF Same, Top
<1>3. pc'[q] = "put" => Top(q)' \in objs' /\ \A d \in ParentSet(Top(q))' : gens'[q][d] # 0
  BY <1>2 DEF BackfillInv, Monotone, Same, ParentSet
<1>4. /\ pc'[q] \in {"parse", "put"} => stack'[q] # <<>>
      /\ \A c \in Commits : gens'[q][c] # 0 => graph'[c] # 0
      /\ pc'[q] \in {"read", "parse", "put"} /\ result'[q] # 0 => graph'[target'[q]] # 0
      /\ pc'[q] = "idle" => result'[q] = 0
  BY <1>1 DEF BackfillInv, Monotone, Same
<1> QED BY <1>3, <1>4 DEF BackfillInv

LEMMA BystandingPush ==
    ASSUME GraphTypeOK, Monotone, NEW p \in Pushes, Same(p), PushInv(p)
    PROVE  PushInv(p)'
<1>1. Current(p)' = Current(p)
  BY DEF Same, Current
<1>2. todo[p] \in Nat /\ asked[p] \in Nat /\ Len(New[p]) \in Nat
  <2>1. p \in Actors /\ New[p] \in Seq(Commits)
    BY PushTyped, Roles
  <2> QED BY <2>1 DEF GraphTypeOK
<1>3. ASSUME NEW j \in 1..asked[p] PROVE graph'[Parents[Current(p)][j]] # 0
  <2>1. /\ todo[p] \in 1..Len(New[p]) /\ asked[p] <= Len(Parents[Current(p)])
        /\ graph[Parents[Current(p)][j]] # 0
    BY <1>2 DEF PushInv
  <2>2. Current(p) \in Commits
    BY <2>1, PushTyped DEF Current
  <2>3. Parents[Current(p)][j] \in Commits
    <3>1. Parents[Current(p)] \in Seq(Commits)
      BY <2>2, ParentsTyped
    <3>2. j \in 1..Len(Parents[Current(p)])
      BY <1>2, <2>1, <3>1
    <3> QED BY <3>1, <3>2
  <2> QED BY <2>1, <2>3 DEF Monotone
<1>4. asked'[p] = asked[p] /\ todo'[p] = todo[p] /\ pc'[p] = pc[p] /\ target'[p] = target[p]
  BY DEF Same
<1> QED BY <1>1, <1>3, <1>4 DEF PushInv, Monotone

LEMMA OwnStep ==
    ASSUME GraphTypeOK, ActorInv, Monotone, NEW a \in Actors,
           \A q \in Actors \ {a} : Same(q),
           BackfillInv(a)', a \in Pushes => PushInv(a)'
    PROVE  ActorInv'
BY Bystander, BystandingPush, Roles DEF ActorInv

\* What the actors' part of the types says of a step.
Locals ==
    /\ pc \in [Actors -> Running \cup Ended \cup {"idle"}]
    /\ todo \in [Actors -> Nat] /\ asked \in [Actors -> Nat] /\ best \in [Actors -> Nat]
    /\ target \in [Actors -> Commits] /\ stack \in [Actors -> Seq(Commits)]
    /\ gens \in [Actors -> [Commits -> Nat]] /\ result \in [Actors -> Nat]
    /\ owed \in [Actors -> Nat]

\* A step that leaves the store alone.
Reads == UNCHANGED <<disk, queue, objs, graph>>

LEMMA ReadingStep ==
    ASSUME GraphInv, Reads, NEW a \in Actors, Locals', tips' \subseteq Commits,
           \A q \in Actors \ {a} : Same(q),
           BackfillInv(a)', a \in Pushes => PushInv(a)'
    PROVE  GraphInv'
<1>1. StoreInv' /\ Monotone
  BY StoreIsRead DEF GraphInv, Reads, disk
<1>2. ActorInv'
  BY <1>1, OwnStep DEF GraphInv
<1>3. GraphTypeOK'
  BY DEF GraphInv, GraphTypeOK, Locals, Reads, disk
<1> QED BY <1>1, <1>2, <1>3 DEF GraphInv

LEMMA SomeCommit == Anywhere \in Commits /\ NoRecords \in [Commits -> Nat]
BY CommitAssumption DEF Anywhere, NoRecords

\* An actor that returns or is dropped.
LEMMA LeaveFacts ==
    ASSUME GraphTypeOK, NEW a \in Actors, NEW l \in Ended, Leave(a, l)
    PROVE  /\ Locals' /\ \A q \in Actors \ {a} : Same(q)
           /\ pc'[a] = l /\ todo'[a] = 1 /\ asked'[a] = 0 /\ best'[a] = 0
           /\ target'[a] = Anywhere /\ stack'[a] = <<>> /\ gens'[a] = NoRecords
           /\ result'[a] = 0 /\ owed'[a] = 0
           /\ BackfillInv(a)' /\ (a \in Pushes => PushInv(a)')
<1>1. Locals'
  <2>1. Locals /\ <<>> \in Seq(Commits)
    BY SMTT(40), ZenonT(40) DEF GraphTypeOK, Locals
  <2>2. pc' \in [Actors -> Running \cup Ended \cup {"idle"}]
    BY <2>1 DEF Locals, Leave, Goto
  <2>3. /\ todo' \in [Actors -> Nat] /\ asked' \in [Actors -> Nat] /\ best' \in [Actors -> Nat]
        /\ result' \in [Actors -> Nat] /\ owed' \in [Actors -> Nat]
    BY <2>1 DEF Locals, Leave
  <2>4. /\ target' \in [Actors -> Commits] /\ stack' \in [Actors -> Seq(Commits)]
        /\ gens' \in [Actors -> [Commits -> Nat]]
    BY <2>1, SomeCommit DEF Locals, Leave
  <2> QED BY <2>2, <2>3, <2>4 DEF Locals
<1>2. \A q \in Actors \ {a} : Same(q)
  BY DEF GraphTypeOK, Leave, Goto, Same
<1>3. /\ pc'[a] = l /\ todo'[a] = 1 /\ asked'[a] = 0 /\ best'[a] = 0
      /\ target'[a] = Anywhere /\ stack'[a] = <<>> /\ gens'[a] = NoRecords
      /\ result'[a] = 0 /\ owed'[a] = 0
  BY DEF GraphTypeOK, Leave, Goto
<1>4. BackfillInv(a)'
  BY <1>3 DEF BackfillInv, Ended, NoRecords
<1>5. PushInv(a)'
  BY <1>3 DEF PushInv, Ended, Calls
<1> QED BY <1>1, <1>2, <1>3, <1>4, <1>5

LEMMA LeavingStep ==
    ASSUME GraphInv, Reads, NEW a \in Actors, NEW l \in Ended, Leave(a, l), tips' \subseteq Commits
    PROVE  GraphInv'
BY LeaveFacts, ReadingStep DEF GraphInv

\* A call that returns a generation it found in the graph.
LEMMA ReturningStep ==
    ASSUME GraphInv, Reads, UNCHANGED tips, NEW a \in Actors, NEW g \in Nat, pc[a] \in Calls,
           Return(a, g), graph[target[a]] # 0
    PROVE  GraphInv'
<1>0. tips' \subseteq Commits
  BY DEF GraphInv, GraphTypeOK
<1>1. CASE a \notin Pushes
  BY <1>0, <1>1, LeavingStep DEF Return, Ended
<1>2. CASE a \in Pushes
  <2>1. /\ Goto(a, "extend") /\ best' = [best EXCEPT ![a] = Max({@, g})]
        /\ asked' = [asked EXCEPT ![a] = @ + 1]
        /\ UNCHANGED <<todo, target, stack, gens, result, owed>>
    BY <1>2 DEF Return, walk
  <2>2. best[a] \in Nat /\ asked[a] \in Nat /\ todo[a] \in Nat
    BY DEF GraphInv, GraphTypeOK
  <2>3. Max({best[a], g}) \in Nat
    BY <2>2, MaxOfTwo
  <2>4. Locals'
    BY SMTT(30), <2>1, <2>3 DEF GraphInv, GraphTypeOK, Locals, Goto, Running
  <2>5. \A q \in Actors \ {a} : Same(q)
    BY <2>1 DEF GraphInv, GraphTypeOK, Goto, Same
  <2>6. /\ pc'[a] = "extend" /\ asked'[a] = asked[a] + 1 /\ todo'[a] = todo[a]
        /\ gens'[a] = gens[a] /\ graph' = graph /\ objs' = objs
    BY <2>1 DEF GraphInv, GraphTypeOK, Goto, Reads
  <2>7. BackfillInv(a) /\ PushInv(a)
    BY <1>2 DEF GraphInv, ActorInv
  <2>8. BackfillInv(a)'
    BY <2>6, <2>7 DEF BackfillInv
  <2>9. Current(a)' = Current(a)
    BY <2>6 DEF Current
  <2>10. /\ todo[a] <= Len(New[a]) /\ asked[a] < Len(Parents[Current(a)])
         /\ target[a] = Parents[Current(a)][asked[a] + 1]
    BY <2>7 DEF PushInv
  <2>11. Current(a) \in Commits /\ Len(Parents[Current(a)]) \in Nat
    <3>1. todo[a] \in 1..Len(New[a])
      BY <2>2, <2>7, <2>10, PushTyped, <1>2 DEF PushInv
    <3>2. Current(a) \in Commits
      BY <3>1, <1>2, PushTyped DEF Current
    <3> QED BY <3>2, ParentsTyped
  <2>12. \A j \in 1..asked'[a] : graph'[Parents[Current(a)][j]] # 0
    <3> SUFFICES ASSUME NEW j \in 1..asked'[a] PROVE graph'[Parents[Current(a)][j]] # 0
      OBVIOUS
    <3>1. CASE j = asked[a] + 1
      BY <3>1, <2>6, <2>10
    <3>2. CASE j # asked[a] + 1
      <4>1. j \in 1..asked[a]
        BY <3>2, <2>2, <2>6
      <4> QED BY <4>1, <2>6, <2>7 DEF PushInv
    <3> QED BY <3>1, <3>2
  <2>13. \A i \in 1..Len(New[a]) : New[a][i] \in objs'
    BY <2>6, <2>7 DEF PushInv
  <2>14. PushInv(a)'
    <3>1. asked'[a] <= Len(Parents[Current(a)]) /\ todo'[a] # 0 /\ todo'[a] <= Len(New[a])
      BY <2>2, <2>6, <2>7, <2>10, <2>11 DEF PushInv
    <3> QED BY <3>1, <2>6, <2>9, <2>12, <2>13 DEF PushInv, Calls
  <2> QED BY <1>0, <2>4, <2>5, <2>8, <2>14, ReadingStep
<1> QED BY <1>1, <1>2

\* A backfill that stays within its call, and writes nothing: the push that
\* made it is where it was.
LEMMA WithinCall ==
    ASSUME GraphInv, Reads, UNCHANGED <<tips, todo, asked, best, target>>, NEW a \in Actors,
           a \in Pushes => pc[a] \in Calls /\ pc'[a] \in Calls,
           Locals', \A q \in Actors \ {a} : Same(q), BackfillInv(a)'
    PROVE  GraphInv'
<1>0. tips' \subseteq Commits
  BY DEF GraphInv, GraphTypeOK
<1>1. ASSUME a \in Pushes PROVE PushInv(a)'
  <2>1. PushInv(a)
    BY <1>1 DEF GraphInv, ActorInv
  <2>2. Current(a)' = Current(a) /\ graph' = graph /\ objs' = objs
    BY DEF Current, Reads
  <2> QED BY <1>1, <2>1, <2>2 DEF PushInv, Calls
<1> QED BY <1>0, <1>1, ReadingStep

\* Only a push that calls get_commit_info, a fetch or the rebuild backfills.
LEMMA TopTyped ==
    ASSUME GraphTypeOK, NEW a \in Actors, stack[a] # <<>>
    PROVE  /\ Top(a) \in Commits /\ Len(stack[a]) \in Nat /\ Len(stack[a]) >= 1
           /\ SubSeq(stack[a], 1, Len(stack[a]) - 1) \in Seq(Commits)
<1>1. stack[a] \in Seq(Commits)
  BY DEF GraphTypeOK
<1>2. Len(stack[a]) \in Nat /\ Len(stack[a]) >= 1
  BY <1>1
<1>3. Top(a) \in Commits
  BY <1>1, <1>2 DEF Top
<1>4. SubSeq(stack[a], 1, Len(stack[a]) - 1) \in Seq(Commits)
  <2>1. \A i \in 1..(Len(stack[a]) - 1) : stack[a][i] \in Commits
    BY <1>1, <1>2
  <2> QED BY <1>1, <1>2, <2>1
<1> QED BY <1>2, <1>3, <1>4

LEMMA LookupMissStep ==
    ASSUME GraphInv, NEW a \in Actors, LookupMiss(a)
    PROVE  GraphInv'
<1>1. GraphTypeOK /\ target[a] \in Commits /\ <<target[a]>> \in Seq(Commits)
  BY DEF GraphInv, GraphTypeOK
<1>2. Locals'
  BY <1>1, SomeCommit DEF LookupMiss, GraphTypeOK, Locals, Goto, push, Running
<1>3. \A q \in Actors \ {a} : Same(q)
  BY <1>1 DEF LookupMiss, GraphTypeOK, Goto, Same, push
<1>4. pc'[a] = "read" /\ gens'[a] = NoRecords /\ result'[a] = 0
  BY <1>1 DEF LookupMiss, GraphTypeOK, Goto
<1>5. BackfillInv(a)'
  BY <1>4 DEF BackfillInv, NoRecords
<1> QED BY <1>2, <1>3, <1>4, <1>5, WithinCall DEF LookupMiss, Reads, push, Calls

LEMMA ResolvedStep ==
    ASSUME GraphInv, NEW a \in Actors, Resolved(a)
    PROVE  GraphInv'
<1>1. GraphTypeOK /\ SubSeq(stack[a], 1, Len(stack[a]) - 1) \in Seq(Commits)
  BY TopTyped DEF GraphInv, Resolved
<1>2. Locals'
  BY <1>1 DEF Resolved, Pop, GraphTypeOK, Locals, push
<1>3. \A q \in Actors \ {a} : Same(q)
  BY <1>1 DEF Resolved, Pop, GraphTypeOK, Same, push
<1>4. /\ pc'[a] = "read" /\ gens'[a] = gens[a] /\ result'[a] = result[a]
      /\ target'[a] = target[a] /\ graph' = graph /\ pc[a] = "read"
  BY <1>1 DEF Resolved
<1>5. BackfillInv(a)
  BY DEF GraphInv, ActorInv
<1>6. BackfillInv(a)'
  BY <1>4, <1>5 DEF BackfillInv
<1> QED BY <1>2, <1>3, <1>4, <1>6, WithinCall DEF Resolved, Reads, push, Calls

LEMMA ReadHitStep ==
    ASSUME GraphInv, NEW a \in Actors, ReadHit(a)
    PROVE  GraphInv'
<1>1. /\ GraphTypeOK /\ Top(a) \in Commits
      /\ SubSeq(stack[a], 1, Len(stack[a]) - 1) \in Seq(Commits)
  BY TopTyped DEF GraphInv, ReadHit
<1>2. gens[a] \in [Commits -> Nat] /\ graph[Top(a)] \in Nat /\ graph[Top(a)] # 0
  BY <1>1 DEF GraphTypeOK, ReadHit
<1>3. gens'[a] = [gens[a] EXCEPT ![Top(a)] = graph[Top(a)]]
  BY <1>1 DEF ReadHit, GraphTypeOK
<1>4. gens' \in [Actors -> [Commits -> Nat]] /\ stack' \in [Actors -> Seq(Commits)]
  BY <1>1, <1>2 DEF ReadHit, Pop, GraphTypeOK
<1>5. Locals'
  BY <1>1, <1>4 DEF ReadHit, GraphTypeOK, Locals, push
<1>6. \A q \in Actors \ {a} : Same(q)
  BY <1>1 DEF ReadHit, Pop, GraphTypeOK, Same, push
<1>7. /\ pc'[a] = "read" /\ pc[a] = "read" /\ result'[a] = result[a]
      /\ target'[a] = target[a] /\ graph' = graph
  BY <1>1 DEF ReadHit
<1>8. BackfillInv(a)
  BY DEF GraphInv, ActorInv
<1>9. BackfillInv(a)'
  BY <1>1, <1>2, <1>3, <1>7, <1>8 DEF BackfillInv
<1> QED BY <1>5, <1>6, <1>7, <1>9, WithinCall DEF ReadHit, Reads, push, Calls

LEMMA ReadMissStep ==
    ASSUME GraphInv, NEW a \in Actors, ReadMiss(a)
    PROVE  GraphInv'
<1>1. GraphTypeOK
  BY DEF GraphInv
<1>2. Locals'
  BY <1>1 DEF ReadMiss, Goto, GraphTypeOK, Locals, push, walk, Running
<1>3. \A q \in Actors \ {a} : Same(q)
  BY <1>1 DEF ReadMiss, Goto, GraphTypeOK, Same, push, walk
<1>4. /\ pc'[a] = "parse" /\ pc[a] = "read" /\ result'[a] = result[a] /\ stack[a] # <<>>
      /\ target'[a] = target[a] /\ graph' = graph /\ gens'[a] = gens[a] /\ stack'[a] = stack[a]
  BY <1>1 DEF ReadMiss, Goto, GraphTypeOK, walk
<1>5. BackfillInv(a)
  BY DEF GraphInv, ActorInv
<1>6. BackfillInv(a)'
  BY <1>4, <1>5 DEF BackfillInv
<1> QED BY <1>2, <1>3, <1>4, <1>6, WithinCall DEF ReadMiss, Reads, push, walk, Calls

LEMMA ParseStep ==
    ASSUME GraphInv, NEW a \in Actors, Parse(a)
    PROVE  GraphInv'
<1>0. /\ GraphTypeOK /\ BackfillInv(a) /\ pc[a] = "parse" /\ stack[a] # <<>>
      /\ tips' \subseteq Commits /\ UNCHANGED tips /\ Reads
  BY DEF GraphInv, ActorInv, Parse, BackfillInv, GraphTypeOK, Reads
<1>1. CASE Top(a) \notin objs
  BY <1>0, <1>1, LeavingStep DEF Parse, Ended
<1>2. CASE Top(a) \in objs
  <2>1. /\ Goto(a, IF Missing(a) = <<>> THEN "put" ELSE "read")
        /\ stack' = [stack EXCEPT ![a] = @ \o Missing(a)]
        /\ UNCHANGED <<todo, asked, best, target, gens, result, owed>>
    BY <1>2 DEF Parse, push
  <2>2. /\ Top(a) \in Commits /\ Parents[Top(a)] \in Seq(Commits) /\ gens[a] \in [Commits -> Nat]
        /\ ParentSet(Top(a)) = {Parents[Top(a)][i] : i \in 1..Len(Parents[Top(a)])}
    BY <1>0, TopTyped, ParentsTyped DEF GraphTypeOK
  <2>3. /\ Missing(a) \in Seq(Commits)
        /\ Missing(a) = <<>> => \A i \in 1..Len(Parents[Top(a)]) : gens[a][Parents[Top(a)][i]] # 0
    BY <2>2, UnresolvedFacts DEF Missing
  <2>4. stack[a] \in Seq(Commits) /\ stack[a] \o Missing(a) \in Seq(Commits)
    BY <1>0, <2>3 DEF GraphTypeOK
  <2>5. Locals'
    BY <1>0, <2>1, <2>4 DEF Goto, GraphTypeOK, Locals, Running
  <2>6. \A q \in Actors \ {a} : Same(q)
    BY <1>0, <2>1 DEF Goto, GraphTypeOK, Same
  <2>7. /\ pc'[a] = IF Missing(a) = <<>> THEN "put" ELSE "read"
        /\ stack'[a] = stack[a] \o Missing(a)
        /\ gens'[a] = gens[a] /\ target'[a] = target[a] /\ result'[a] = result[a]
        /\ graph' = graph /\ objs' = objs
    BY <1>0, <2>1 DEF Goto, GraphTypeOK, Reads
  <2>8. CASE Missing(a) = <<>>
    <3>1. stack'[a] = stack[a]
      BY <2>4, <2>7, <2>8
    <3>2. Top(a)' = Top(a)
      BY <3>1 DEF Top
    <3>3. \A d \in ParentSet(Top(a)) : gens'[a][d] # 0
      BY <2>2, <2>3, <2>7, <2>8
    <3>4. BackfillInv(a)'
      BY <1>0, <1>2, <3>1, <3>2, <3>3, <2>7 DEF BackfillInv, ParentSet
    <3>5. pc[a] \in Calls /\ pc'[a] \in Calls
      BY <1>0, <2>7, <2>8 DEF Calls
    <3> QED BY <1>0, <2>1, <2>5, <2>6, <3>4, <3>5, WithinCall
  <2>9. CASE Missing(a) # <<>>
    <3>1. pc'[a] = "read"
      BY <2>7, <2>9
    <3>2. BackfillInv(a)'
      BY <1>0, <3>1, <2>7 DEF BackfillInv
    <3>3. pc[a] \in Calls /\ pc'[a] \in Calls
      BY <1>0, <3>1 DEF Calls
    <3> QED BY <1>0, <2>1, <2>5, <2>6, <3>2, <3>3, WithinCall
  <2> QED BY <2>8, <2>9
<1> QED BY <1>1, <1>2

\* A step that writes a record of a commit that may have one.
LEMMA RecordingStep ==
    ASSUME GraphInv, NEW a \in Actors, NEW c \in Commits, NEW g \in Nat, g # 0,
           c \in objs, \A d \in ParentSet(c) : graph[d] # 0,
           PutCommitGraph(c, g), UNCHANGED <<disk, objs, tips>>,
           Locals', \A q \in Actors \ {a} : Same(q),
           BackfillInv(a)', a \in Pushes => PushInv(a)'
    PROVE  GraphInv'
<1>1. StoreInv' /\ Monotone
  BY StorePutsRecord DEF GraphInv, disk
<1>2. ActorInv'
  BY <1>1, OwnStep DEF GraphInv
<1>3. RecordWrite(c, g) \in ObjectWrites \cup RecordWrites
  BY DEF RecordWrite, RecordWrites
<1>4. queue' \in Seq(ObjectWrites \cup RecordWrites) /\ graph' \in [Commits -> Nat]
  BY <1>3 DEF PutCommitGraph, GraphInv, GraphTypeOK
<1>5. GraphTypeOK'
  BY <1>4 DEF GraphInv, GraphTypeOK, Locals, disk
<1> QED BY <1>1, <1>2, <1>5 DEF GraphInv

\* backfill_commit_info writes the record of the top of its stack.
LEMMA PutRecordStep ==
    ASSUME GraphInv, NEW a \in Actors, PutRecord(a)
    PROVE  GraphInv'
<1> DEFINE c == Top(a)
           g == 1 + Max({0} \cup {gens[a][d] : d \in ParentSet(c)})
<1>0. /\ GraphTypeOK /\ BackfillInv(a) /\ pc[a] = "put" /\ stack[a] # <<>>
      /\ c \in objs /\ \A d \in ParentSet(c) : gens[a][d] # 0
  BY DEF GraphInv, ActorInv, PutRecord, BackfillInv
<1>1. /\ c \in Commits /\ gens[a] \in [Commits -> Nat] /\ ParentSet(c) \subseteq Commits
      /\ SubSeq(stack[a], 1, Len(stack[a]) - 1) \in Seq(Commits)
  BY <1>0, TopTyped, ParentsTyped DEF GraphTypeOK
<1>2. g \in Nat /\ g # 0
  <2>1. Max({0} \cup {gens[a][d] : d \in ParentSet(c)}) \in Nat
    BY <1>1, MaxOverParents
  <2> QED BY <2>1
<1>3. /\ PutCommitGraph(c, g) /\ gens' = [gens EXCEPT ![a][c] = g]
      /\ result' = [result EXCEPT ![a] = IF a # Rebuilder /\ c = target[a] THEN g ELSE @]
      /\ Pop(a) /\ Goto(a, "read")
      /\ UNCHANGED <<disk, objs, tips, todo, asked, best, target, owed>>
  BY DEF PutRecord, push
<1> HIDE DEF c, g
<1>4. \A d \in ParentSet(c) : graph[d] # 0
  BY <1>0, <1>1 DEF BackfillInv
<1>5. Locals'
  <2>1. gens' \in [Actors -> [Commits -> Nat]]
    BY <1>0, <1>1, <1>2, <1>3 DEF GraphTypeOK
  <2>2. stack' \in [Actors -> Seq(Commits)] /\ result' \in [Actors -> Nat]
    BY <1>0, <1>1, <1>2, <1>3 DEF GraphTypeOK, Pop
  <2> QED BY <1>0, <1>3, <2>1, <2>2 DEF GraphTypeOK, Locals, Goto, Running
<1>6. \A q \in Actors \ {a} : Same(q)
  BY <1>0, <1>3 DEF GraphTypeOK, Same, Pop, Goto
<1>7. /\ pc'[a] = "read" /\ gens'[a] = [gens[a] EXCEPT ![c] = g] /\ target'[a] = target[a]
      /\ result'[a] = IF a # Rebuilder /\ c = target[a] THEN g ELSE result[a]
      /\ todo'[a] = todo[a] /\ asked'[a] = asked[a] /\ target[a] \in Commits
      /\ objs' = objs
  BY <1>0, <1>3 DEF GraphTypeOK, Goto
<1>8. graph' = [graph EXCEPT ![c] = g] /\ graph \in [Commits -> Nat]
  BY <1>0, <1>3 DEF PutCommitGraph, GraphTypeOK
<1>9. BackfillInv(a)'
  <2>1. \A d \in Commits : gens'[a][d] # 0 => graph'[d] # 0
    BY <1>0, <1>1, <1>2, <1>7, <1>8 DEF BackfillInv
  <2>2. result'[a] # 0 => graph'[target'[a]] # 0
    BY <1>0, <1>1, <1>2, <1>7, <1>8 DEF BackfillInv
  <2> QED BY <1>7, <2>1, <2>2 DEF BackfillInv
<1>10. ASSUME a \in Pushes PROVE PushInv(a)'
  <2>1. PushInv(a)
    BY <1>10 DEF GraphInv, ActorInv
  <2>2. Current(a)' = Current(a)
    BY <1>7 DEF Current
  <2>3. \A d : graph[d] # 0 /\ d \in Commits => graph'[d] # 0
    BY <1>2, <1>8
  <2>4. ASSUME NEW j \in 1..asked[a] PROVE graph'[Parents[Current(a)][j]] # 0
    <3>1. /\ todo[a] # 0 /\ todo[a] <= Len(New[a]) /\ todo[a] \in Nat /\ asked[a] \in Nat
          /\ asked[a] < Len(Parents[Current(a)]) /\ graph[Parents[Current(a)][j]] # 0
      BY <1>0, <2>1 DEF PushInv, Calls, GraphTypeOK
    <3>2. New[a] \in Seq(Commits) /\ todo[a] \in 1..Len(New[a])
      BY <3>1, <1>10, PushTyped
    <3>3. Current(a) \in Commits
      BY <3>2 DEF Current
    <3>4. Parents[Current(a)] \in Seq(Commits)
      BY <3>3, ParentsTyped
    <3>5. j \in 1..Len(Parents[Current(a)])
      BY <3>1, <3>4
    <3>6. Parents[Current(a)][j] \in Commits
      BY <3>4, <3>5
    <3> QED BY <3>1, <3>6, <2>3
  <2> QED BY <1>0, <1>7, <2>1, <2>2, <2>4 DEF PushInv, Calls
<1> QED BY <1>1, <1>0, <1>2, <1>3, <1>4, <1>5, <1>6, <1>9, <1>10, RecordingStep

LEMMA GetCommitInfoStep ==
    ASSUME GraphInv, NEW a \in Actors, GetCommitInfo(a)
    PROVE  GraphInv'
<1>0. GraphTypeOK /\ BackfillInv(a) /\ tips \subseteq Commits
  BY DEF GraphInv, ActorInv, GraphTypeOK
<1>1. CASE LookupHit(a)
  <2>1. graph[target[a]] \in Nat /\ graph[target[a]] # 0 /\ pc[a] \in Calls
    BY <1>0, <1>1 DEF LookupHit, GraphTypeOK, Calls
  <2> QED BY <1>1, <2>1, ReturningStep DEF LookupHit, Reads
<1>2. CASE BackfillDone(a)
  <2>1. result[a] \in Nat /\ graph[target[a]] # 0 /\ pc[a] \in Calls
    BY <1>0, <1>2 DEF BackfillDone, GraphTypeOK, Calls, BackfillInv
  <2> QED BY <1>2, <2>1, ReturningStep DEF BackfillDone, Reads
<1>3. CASE BackfillMissing(a)
  BY <1>0, <1>3, LeavingStep DEF BackfillMissing, Reads, Ended
<1> QED BY <1>1, <1>2, <1>3, LookupMissStep, ResolvedStep, ReadHitStep, ReadMissStep, ParseStep,
           PutRecordStep DEF GetCommitInfo

LEMMA FailStep ==
    ASSUME GraphInv, NEW a \in Actors, Fail(a)
    PROVE  GraphInv'
<1>1. tips \subseteq Commits
  BY DEF GraphInv, GraphTypeOK
<1> QED BY <1>1, LeavingStep DEF Fail, Reads, Ended

LEMMA StartWalkStep ==
    ASSUME GraphInv, NEW w \in Walkers, StartWalk(w)
    PROVE  GraphInv'
<1>0. w \in Actors /\ w \notin Pushes /\ GraphTypeOK /\ BackfillInv(w)
  BY Roles DEF GraphInv, ActorInv
<1>1. PICK c \in Commits : Call(w, c)
  BY <1>0 DEF StartWalk, GraphTypeOK
<1>2. Locals'
  BY <1>0, <1>1 DEF StartWalk, Call, Goto, GraphTypeOK, Locals, push, Running
<1>3. \A q \in Actors \ {w} : Same(q)
  BY <1>0, <1>1 DEF StartWalk, Call, Goto, GraphTypeOK, Same, push
<1>4. pc'[w] = "lookup" /\ gens'[w] = gens[w] /\ graph' = graph
  BY <1>0, <1>1 DEF StartWalk, Call, Goto, GraphTypeOK
<1>5. BackfillInv(w)'
  BY <1>0, <1>4 DEF BackfillInv
<1>6. Reads /\ tips' \subseteq Commits
  BY <1>0 DEF StartWalk, Reads, GraphTypeOK
<1> QED BY <1>0, <1>2, <1>3, <1>5, <1>6, ReadingStep

(* The pushes *)

LEMMA CurrentTyped ==
    ASSUME GraphInv, NEW p \in Pushes, todo[p] <= Len(New[p])
    PROVE  /\ todo[p] \in 1..Len(New[p]) /\ Current(p) \in Commits
           /\ Parents[Current(p)] \in Seq(Commits) /\ Len(Parents[Current(p)]) \in Nat
           /\ ParentSet(Current(p)) = {Parents[Current(p)][i] : i \in 1..Len(Parents[Current(p)])}
<1>1. todo[p] \in Nat /\ todo[p] # 0 /\ New[p] \in Seq(Commits)
  BY Roles, PushTyped DEF GraphInv, GraphTypeOK, ActorInv, PushInv
<1>2. todo[p] \in 1..Len(New[p])
  BY <1>1
<1>3. Current(p) \in Commits
  BY <1>2, PushTyped DEF Current
<1> QED BY <1>2, <1>3, ParentsTyped

LEMMA InvOfPush ==
    ASSUME GraphInv, NEW p \in Pushes
    PROVE  /\ GraphTypeOK /\ StoreInv /\ BackfillInv(p) /\ PushInv(p)
           /\ todo[p] \in Nat /\ asked[p] \in Nat /\ best[p] \in Nat
<1>1. p \in Actors /\ GraphTypeOK /\ StoreInv /\ BackfillInv(p) /\ PushInv(p)
  BY Roles DEF GraphInv, ActorInv
<1>2. todo[p] \in Nat /\ asked[p] \in Nat /\ best[p] \in Nat
  BY <1>1 DEF GraphTypeOK
<1> QED BY <1>1, <1>2

LEMMA StartPushStep ==
    ASSUME GraphInv, NEW p \in Pushes, StartPush(p)
    PROVE  GraphInv'
<1>0. p \in Actors /\ GraphTypeOK /\ BackfillInv(p) /\ PushInv(p)
  BY Roles DEF GraphInv, ActorInv
<1>1. Locals'
  BY <1>0 DEF StartPush, Goto, GraphTypeOK, Locals, push, walk, Running
<1>2. \A q \in Actors \ {p} : Same(q)
  BY <1>0 DEF StartPush, Goto, GraphTypeOK, Same, push, walk
<1>3. /\ pc'[p] = "object" /\ pc[p] = "idle" /\ gens'[p] = gens[p] /\ graph' = graph
      /\ objs' = objs /\ todo' = todo /\ asked' = asked
  BY <1>0 DEF StartPush, Goto, GraphTypeOK, push, walk
<1>4. BackfillInv(p)'
  BY <1>0, <1>3 DEF BackfillInv
<1>5. Reads /\ tips' \subseteq Commits
  BY <1>0 DEF StartPush, Reads, GraphTypeOK
<1>6. PushInv(p)'
  <2>1. asked[p] = 0
    BY <1>0, <1>3 DEF PushInv, Calls
  <2>2. todo'[p] = 1 /\ \A i \in 1..Len(New[p]) : ~(i < 1)
    BY <1>0, <1>3 DEF PushInv
  <2> QED BY <1>3, <2>1, <2>2 DEF PushInv, Calls
<1> QED BY <1>0, <1>1, <1>2, <1>4, <1>5, <1>6, ReadingStep

LEMMA ObjectExistsStep ==
    ASSUME GraphInv, NEW p \in Pushes, ObjectExists(p)
    PROVE  GraphInv'
<1>0. p \in Actors /\ GraphTypeOK /\ BackfillInv(p) /\ PushInv(p) /\ todo[p] \in Nat
  BY Roles, InvOfPush
<1>1. Locals'
  <2>1. todo' \in [Actors -> Nat]
    BY <1>0, SMTT(40), ZenonT(40) DEF ObjectExists, GraphTypeOK
  <2> QED BY <1>0, <2>1 DEF ObjectExists, GraphTypeOK, Locals, walk
<1>2. \A q \in Actors \ {p} : Same(q)
  BY <1>0 DEF ObjectExists, GraphTypeOK, Same, walk
<1>3. /\ pc'[p] = "object" /\ pc[p] = "object" /\ gens'[p] = gens[p] /\ graph' = graph
      /\ objs' = objs /\ todo'[p] = todo[p] + 1 /\ asked'[p] = asked[p]
      /\ New[p][todo[p]] \in objs
  BY <1>0 DEF ObjectExists, GraphTypeOK, walk, Current
<1>4. BackfillInv(p)'
  BY <1>0, <1>3 DEF BackfillInv
<1>5. Reads /\ tips' \subseteq Commits
  BY <1>0 DEF ObjectExists, Reads, GraphTypeOK
<1>6. asked[p] = 0
  BY <1>0, <1>3 DEF PushInv, Calls
<1>7. \A i \in 1..Len(New[p]) : i < todo'[p] => New[p][i] \in objs'
  <2>1. \A i \in 1..Len(New[p]) : i < todo[p] + 1 => i < todo[p] \/ i = todo[p]
    BY <1>0
  <2> QED BY <2>1, <1>0, <1>3 DEF PushInv
<1>8. todo'[p] # 0
  BY <1>0, <1>3
<1>9. PushInv(p)'
  BY <1>3, <1>6, <1>7, <1>8 DEF PushInv, Calls
<1> QED BY <1>0, <1>1, <1>2, <1>4, <1>5, <1>9, ReadingStep

LEMMA ObjectAbsentStep ==
    ASSUME GraphInv, NEW p \in Pushes, ObjectAbsent(p)
    PROVE  GraphInv'
<1>0. p \in Actors /\ GraphTypeOK /\ BackfillInv(p) /\ PushInv(p)
  BY Roles DEF GraphInv, ActorInv
<1>1. Locals'
  BY <1>0 DEF ObjectAbsent, Goto, GraphTypeOK, Locals, push, walk, Running
<1>2. \A q \in Actors \ {p} : Same(q)
  BY <1>0 DEF ObjectAbsent, Goto, GraphTypeOK, Same, push, walk
<1>3. /\ pc'[p] = "put_object" /\ pc[p] = "object" /\ gens'[p] = gens[p] /\ graph' = graph
      /\ objs' = objs /\ todo' = todo /\ asked' = asked /\ todo[p] <= Len(New[p])
  BY <1>0 DEF ObjectAbsent, Goto, GraphTypeOK, push, walk
<1>4. BackfillInv(p)'
  BY <1>0, <1>3 DEF BackfillInv
<1>5. Reads /\ tips' \subseteq Commits
  BY <1>0 DEF ObjectAbsent, Reads, GraphTypeOK
<1>6. asked[p] = 0
  BY <1>0, <1>3 DEF PushInv, Calls
<1>7. PushInv(p)'
  BY <1>0, <1>3, <1>6 DEF PushInv, Calls
<1> QED BY <1>0, <1>1, <1>2, <1>4, <1>5, <1>7, ReadingStep

LEMMA PutObjectStep ==
    ASSUME GraphInv, NEW p \in Pushes, PutObject(p)
    PROVE  GraphInv'
<1>0. /\ p \in Actors /\ GraphTypeOK /\ BackfillInv(p) /\ PushInv(p) /\ todo[p] \in Nat
      /\ pc[p] = "put_object" /\ StoreInv
  BY Roles, InvOfPush DEF PutObject
<1>1. Current(p) \in Commits
  BY <1>0, CurrentTyped DEF PushInv
<1>2. Locals'
  <2>1. todo' \in [Actors -> Nat]
    BY <1>0 DEF PutObject, GraphTypeOK
  <2> QED BY <1>0, <2>1 DEF PutObject, Goto, GraphTypeOK, Locals, walk, Running
<1>3. \A q \in Actors \ {p} : Same(q)
  BY <1>0 DEF PutObject, Goto, GraphTypeOK, Same, walk
<1>4. /\ pc'[p] = "object" /\ gens'[p] = gens[p] /\ graph' = graph
      /\ objs' = objs \cup {New[p][todo[p]]} /\ todo'[p] = todo[p] + 1 /\ asked'[p] = asked[p]
  BY <1>0 DEF PutObject, Goto, GraphTypeOK, walk, Current
<1>5. BackfillInv(p)'
  BY <1>0, <1>4 DEF BackfillInv
<1>6. asked[p] = 0
  BY <1>0 DEF PushInv, Calls
<1>7. \A i \in 1..Len(New[p]) : i < todo'[p] => New[p][i] \in objs'
  <2>1. \A i \in 1..Len(New[p]) : i < todo[p] + 1 => i < todo[p] \/ i = todo[p]
    BY <1>0
  <2> QED BY <2>1, <1>0, <1>4 DEF PushInv
<1>8. todo'[p] # 0
  BY <1>0, <1>4
<1>9. PushInv(p)'
  BY <1>4, <1>6, <1>7, <1>8 DEF PushInv, Calls
<1>10. StoreInv' /\ Monotone
  BY <1>0, <1>1, StorePutsObject DEF PutObject, disk
<1>11. ActorInv'
  BY <1>0, <1>3, <1>5, <1>9, <1>10, OwnStep DEF GraphInv
<1>12. queue' \in Seq(ObjectWrites \cup RecordWrites) /\ objs' \subseteq Commits
  <2>1. ObjectWrite(Current(p)) \in ObjectWrites \cup RecordWrites
    BY <1>1 DEF ObjectWrite, ObjectWrites
  <2> QED BY <1>0, <1>1, <2>1 DEF PutObject, GraphTypeOK
<1>13. GraphTypeOK'
  BY <1>0, <1>2, <1>12 DEF GraphTypeOK, Locals, PutObject, disk
<1> QED BY <1>10, <1>11, <1>13 DEF GraphInv

LEMMA ObjectsDoneStep ==
    ASSUME GraphInv, NEW p \in Pushes, ObjectsDone(p)
    PROVE  GraphInv'
<1>0. p \in Actors /\ GraphTypeOK /\ BackfillInv(p) /\ PushInv(p) /\ todo[p] \in Nat
  BY Roles, InvOfPush
<1>1. Locals'
  BY <1>0 DEF ObjectsDone, Goto, GraphTypeOK, Locals, walk, Running
<1>2. \A q \in Actors \ {p} : Same(q)
  BY <1>0 DEF ObjectsDone, Goto, GraphTypeOK, Same, walk
<1>3. /\ pc'[p] = "extend" /\ pc[p] = "object" /\ gens'[p] = gens[p] /\ graph' = graph
      /\ objs' = objs /\ todo'[p] = 1 /\ asked'[p] = asked[p] /\ todo[p] > Len(New[p])
  BY <1>0 DEF ObjectsDone, Goto, GraphTypeOK, walk
<1>4. BackfillInv(p)'
  BY <1>0, <1>3 DEF BackfillInv
<1>5. Reads /\ tips' \subseteq Commits
  BY <1>0 DEF ObjectsDone, Reads, GraphTypeOK
<1>6. asked[p] = 0
  BY <1>0, <1>3 DEF PushInv, Calls
<1>7. \A i \in 1..Len(New[p]) : New[p][i] \in objs'
  <2>1. Len(New[p]) \in Nat
    <3>1. New[p] \in Seq(Commits)
      BY PushTyped
    <3> QED BY <3>1
  <2>2. \A i \in 1..Len(New[p]) : i < todo[p]
    BY <1>0, <1>3, <2>1
  <2> QED BY <2>2, <1>0, <1>3 DEF PushInv
<1>8. PushInv(p)'
  BY <1>3, <1>6, <1>7 DEF PushInv, Calls
<1> QED BY <1>0, <1>1, <1>2, <1>4, <1>5, <1>8, ReadingStep

LEMMA AskParentStep ==
    ASSUME GraphInv, NEW p \in Pushes, AskParent(p)
    PROVE  GraphInv'
<1>0. p \in Actors /\ GraphTypeOK /\ BackfillInv(p) /\ PushInv(p) /\ asked[p] \in Nat
  BY Roles, InvOfPush
<1>1. /\ pc[p] = "extend" /\ todo[p] <= Len(New[p]) /\ asked[p] < Len(Parents[Current(p)])
      /\ Call(p, Parents[Current(p)][asked[p] + 1])
      /\ UNCHANGED <<disk, queue, objs, graph, tips, todo, asked, best, stack, gens, result, owed>>
  BY DEF AskParent, push
<1>2. Parents[Current(p)][asked[p] + 1] \in Commits
  <2>1. Parents[Current(p)] \in Seq(Commits) /\ asked[p] + 1 \in 1..Len(Parents[Current(p)])
    BY <1>0, <1>1, CurrentTyped
  <2> QED BY <2>1
<1>3. Locals'
  BY <1>0, <1>1, <1>2 DEF Call, Goto, GraphTypeOK, Locals, Running
<1>4. \A q \in Actors \ {p} : Same(q)
  BY <1>0, <1>1 DEF Call, Goto, GraphTypeOK, Same
<1>5. /\ pc'[p] = "lookup" /\ target'[p] = Parents[Current(p)][asked[p] + 1]
      /\ gens'[p] = gens[p] /\ graph' = graph /\ objs' = objs /\ todo' = todo /\ asked' = asked
  BY <1>0, <1>1 DEF Call, Goto, GraphTypeOK
<1>6. BackfillInv(p)'
  BY <1>0, <1>5 DEF BackfillInv
<1>7. Current(p)' = Current(p)
  BY <1>5 DEF Current
<1>8. PushInv(p)'
  BY <1>0, <1>1, <1>5, <1>7 DEF PushInv, Calls
<1>9. Reads /\ tips' \subseteq Commits
  BY <1>0, <1>1 DEF Reads, GraphTypeOK
<1> QED BY <1>0, <1>3, <1>4, <1>6, <1>8, <1>9, ReadingStep

LEMMA ExtendStep ==
    ASSUME GraphInv, NEW p \in Pushes, Extend(p)
    PROVE  GraphInv'
<1>0. /\ p \in Actors /\ GraphTypeOK /\ BackfillInv(p) /\ PushInv(p) /\ todo[p] \in Nat
      /\ best[p] \in Nat
  BY Roles, InvOfPush
<1>1. /\ pc[p] = "extend" /\ todo[p] <= Len(New[p]) /\ asked[p] = Len(Parents[Current(p)])
      /\ PutCommitGraph(Current(p), best[p] + 1)
      /\ UNCHANGED <<disk, objs, tips, pc, target, stack, gens, result, owed>>
  BY DEF Extend, walk
<1>2. /\ todo[p] \in 1..Len(New[p]) /\ Current(p) \in Commits
      /\ ParentSet(Current(p)) = {Parents[Current(p)][i] : i \in 1..Len(Parents[Current(p)])}
  BY <1>1, CurrentTyped
<1>3. \A d \in ParentSet(Current(p)) : graph[d] # 0
  BY <1>0, <1>1, <1>2 DEF PushInv
<1>4. Current(p) \in objs
  BY <1>0, <1>1, <1>2 DEF PushInv, Current
<1>5. Locals'
  <2>1. todo' \in [Actors -> Nat] /\ asked' \in [Actors -> Nat] /\ best' \in [Actors -> Nat]
    BY SMTT(30), <1>0 DEF Extend, GraphTypeOK
  <2> QED BY <1>0, <1>1, <2>1 DEF GraphTypeOK, Locals
<1>6. \A q \in Actors \ {p} : Same(q)
  BY <1>0, <1>1 DEF Extend, GraphTypeOK, Same
<1>7. pc'[p] = "extend" /\ todo'[p] = todo[p] + 1 /\ asked'[p] = 0 /\ gens'[p] = gens[p]
  BY <1>0, <1>1 DEF Extend, GraphTypeOK
<1>8. graph' = [graph EXCEPT ![Current(p)] = best[p] + 1] /\ graph \in [Commits -> Nat]
  BY <1>0, <1>1 DEF PutCommitGraph, GraphTypeOK
<1>9. BackfillInv(p)'
  <2>1. \A c \in Commits : graph[c] # 0 => graph'[c] # 0
    BY <1>0, <1>8
  <2> QED BY <1>0, <1>7, <2>1 DEF BackfillInv
<1>10. PushInv(p)'
  <2>1. todo'[p] # 0 /\ objs' = objs
    BY <1>0, <1>1, <1>7
  <2> QED BY <1>0, <1>1, <1>7, <2>1 DEF PushInv, Calls
<1>11. best[p] + 1 \in Nat /\ best[p] + 1 # 0
  BY <1>0
<1> QED BY <1>0, <1>1, <1>2, <1>3, <1>4, <1>5, <1>6, <1>9, <1>10, <1>11, RecordingStep

LEMMA ExtendDoneStep ==
    ASSUME GraphInv, NEW p \in Pushes, ExtendDone(p)
    PROVE  GraphInv'
<1>0. /\ p \in Actors /\ GraphTypeOK /\ BackfillInv(p) /\ PushInv(p) /\ todo[p] \in Nat
      /\ Len(queue) \in Nat
  BY Roles, InvOfPush, QueueTyped
<1>1. Locals'
  BY <1>0 DEF ExtendDone, Goto, GraphTypeOK, Locals, push, walk, Running
<1>2. \A q \in Actors \ {p} : Same(q)
  BY <1>0 DEF ExtendDone, Goto, GraphTypeOK, Same, push, walk
<1>3. /\ pc'[p] = "flush" /\ pc[p] = "extend" /\ gens'[p] = gens[p] /\ graph' = graph
      /\ objs' = objs /\ todo' = todo /\ asked' = asked /\ todo[p] > Len(New[p])
  BY <1>0 DEF ExtendDone, Goto, GraphTypeOK, push, walk
<1>4. BackfillInv(p)'
  BY <1>0, <1>3 DEF BackfillInv
<1>5. Reads /\ tips' \subseteq Commits
  BY <1>0 DEF ExtendDone, Reads, GraphTypeOK
<1>6. asked[p] = 0
  <2>1. New[p] \in Seq(Commits)
    BY PushTyped
  <2>2. ~(todo[p] <= Len(New[p]))
    BY <1>0, <1>3, <2>1
  <2> QED BY <1>0, <2>2 DEF PushInv
<1>7. PushInv(p)'
  BY <1>0, <1>3, <1>6 DEF PushInv, Calls
<1> QED BY <1>0, <1>1, <1>2, <1>4, <1>5, <1>7, ReadingStep

LEMMA PushDoneStep ==
    ASSUME GraphInv, NEW p \in Pushes, PushDone(p)
    PROVE  GraphInv'
<1>0. p \in Actors /\ tips \subseteq Commits /\ New[p] \in Seq(Commits)
  BY Roles, PushTyped DEF GraphInv, GraphTypeOK
<1>1. tips' \subseteq Commits
  <2>1. \A i \in DOMAIN New[p] : New[p][i] \in Commits
    BY <1>0
  <2> QED BY <1>0, <2>1 DEF PushDone
<1> QED BY <1>0, <1>1, LeavingStep DEF PushDone, Reads, Ended

(* The rebuild, the flush task, a crash *)

LEMMA RebuildStep ==
    ASSUME GraphInv, StartRebuild \/ Rebuild
    PROVE  GraphInv'
<1>0. /\ GraphTypeOK /\ BackfillInv(Rebuilder) /\ Len(queue) \in Nat
      /\ Rebuilder \in Actors /\ Rebuilder \notin Pushes
  BY Roles, QueueTyped DEF GraphInv, ActorInv
<1>00. tips \subseteq Commits /\ Locals
  BY <1>0 DEF GraphTypeOK, Locals
<1>1. CASE StartRebuild
  <2>1. Locals' /\ \A q \in Actors \ {Rebuilder} : Same(q)
    BY <1>1, <1>0 DEF StartRebuild, Goto, GraphTypeOK, Locals, push, walk, Running, Same
  <2>2. /\ pc'[Rebuilder] = "read" /\ pc[Rebuilder] = "idle" /\ graph' = graph
        /\ gens' = gens /\ result' = result /\ Reads /\ tips' = tips
    BY <1>1, <1>0 DEF StartRebuild, Goto, GraphTypeOK, walk, Reads
  <2>3. BackfillInv(Rebuilder)'
    BY <1>0, <2>2 DEF BackfillInv
  <2> QED BY <1>0, <1>00, <2>1, <2>2, <2>3, ReadingStep
<1>2. CASE NextRoot
  <2>1. PICK c \in Commits : stack' = [stack EXCEPT ![Rebuilder] = <<c>>]
    BY <1>2, <1>00 DEF NextRoot
  <2>2. stack' \in [Actors -> Seq(Commits)]
    <3>1. <<c>> \in Seq(Commits)
      OBVIOUS
    <3> QED BY <2>1, <3>1, <1>00 DEF Locals
  <2>3. Locals' /\ \A q \in Actors \ {Rebuilder} : Same(q)
    BY <1>2, <1>00, <2>1, <2>2 DEF NextRoot, Locals, push, Same
  <2>4. /\ pc'[Rebuilder] = "read" /\ pc[Rebuilder] = "read" /\ graph' = graph /\ target' = target
        /\ gens' = gens /\ result' = result /\ Reads /\ tips' = tips
    BY <1>2 DEF NextRoot, Reads
  <2>5. BackfillInv(Rebuilder)'
    BY <1>0, <2>4 DEF BackfillInv
  <2> QED BY <1>0, <1>00, <2>3, <2>4, <2>5, ReadingStep
<1>3. CASE RootsDone
  <2>1. Locals' /\ \A q \in Actors \ {Rebuilder} : Same(q)
    BY <1>3, <1>0, <1>00 DEF RootsDone, Goto, Locals, push, walk, Running, Same
  <2>2. /\ pc'[Rebuilder] = "flush" /\ graph' = graph /\ gens' = gens /\ Reads /\ tips' = tips
    BY <1>3, <1>0, <1>00 DEF RootsDone, Goto, Locals, walk, Reads
  <2>3. BackfillInv(Rebuilder)'
    BY <1>0, <2>2 DEF BackfillInv
  <2> QED BY <1>0, <1>00, <2>1, <2>2, <2>3, ReadingStep
<1>4. CASE RebuildDone
  BY <1>4, <1>0, <1>00, LeavingStep DEF RebuildDone, Reads, Ended
<1> QED BY <1>1, <1>2, <1>3, <1>4 DEF Rebuild

LEMMA WalFlushStep ==
    ASSUME GraphInv, WalFlush
    PROVE  GraphInv'
<1>0. GraphTypeOK /\ StoreInv /\ queue # <<>>
  BY DEF GraphInv, WalFlush
<1>1. StoreInv' /\ Monotone
  BY <1>0, StoreFlushes
<1>2. \A q \in Actors : Same(q)
  BY DEF WalFlush, push, walk, Same
<1>3. ActorInv'
  BY <1>0, <1>1, <1>2, Bystander, BystandingPush, Roles DEF GraphInv, ActorInv
<1>4. /\ Head(queue) \in ObjectWrites \cup RecordWrites
      /\ queue' \in Seq(ObjectWrites \cup RecordWrites)
  BY <1>0 DEF GraphTypeOK, WalFlush
<1>5. durObjs' \subseteq Commits /\ durGraph' \in [Commits -> Nat]
  BY <1>0, <1>4 DEF WalFlush, GraphTypeOK, ObjectWrites, RecordWrites
<1>6. owed' \in [Actors -> Nat]
  <2>1. owed' = [a \in Actors |-> IF owed[a] > 0 THEN owed[a] - 1 ELSE 0] /\ owed \in [Actors -> Nat]
    BY <1>0 DEF WalFlush, GraphTypeOK
  <2> QED BY <2>1
<1>7. UNCHANGED <<objs, graph, tips, pc, todo, asked, best, target, stack, gens, result, crashes>>
  BY DEF WalFlush, push, walk
<1>8. GraphTypeOK'
  BY <1>0, <1>4, <1>5, <1>6, <1>7 DEF GraphTypeOK
<1> QED BY <1>1, <1>3, <1>8 DEF GraphInv

LEMMA CrashStep ==
    ASSUME GraphInv, Crash
    PROVE  GraphInv'
<1>0. GraphTypeOK /\ StoreInv
  BY DEF GraphInv
<1>1. StoreInv'
  BY <1>0, StoreRestarts
<1>2. Locals'
  <2>1. <<>> \in Seq(Commits)
    OBVIOUS
  <2>2. pc' \in [Actors -> Running \cup Ended \cup {"idle"}]
    BY <1>0 DEF Crash, GraphTypeOK, Ended
  <2> QED BY <2>1, <2>2, SomeCommit DEF Crash, Locals
<1>3. GraphTypeOK'
  <2>1. queue' \in Seq(ObjectWrites \cup RecordWrites)
    BY DEF Crash
  <2> QED BY <1>0, <1>2, <2>1 DEF Crash, GraphTypeOK, Locals
<1>4. ASSUME NEW a \in Actors
      PROVE  /\ pc'[a] \notin Running /\ todo'[a] = 1 /\ asked'[a] = 0 /\ gens'[a] = NoRecords
             /\ result'[a] = 0
  BY DEF Crash, Running
<1>5. ASSUME NEW a \in Actors PROVE BackfillInv(a)'
  BY <1>4 DEF BackfillInv, NoRecords, Running
<1>6. ASSUME NEW p \in Pushes PROVE PushInv(p)'
  <2>1. p \in Actors
    BY Roles
  <2> QED BY <1>4, <2>1 DEF PushInv, Running, Calls
<1> QED BY <1>1, <1>3, <1>5, <1>6 DEF GraphInv, ActorInv

LEMMA GraphInit == Init => GraphInv
<1> SUFFICES ASSUME Init PROVE GraphInv
  OBVIOUS
<1>1. /\ durObjs = Stored /\ objs = Stored /\ durGraph = Recorded /\ graph = Recorded
      /\ queue = <<>> /\ Len(queue) = 0 /\ 1..0 = {} /\ 0..0 = {0}
  BY DEF Init
<1>2. GraphTypeOK
  <2>1. queue \in Seq(ObjectWrites \cup RecordWrites) /\ <<>> \in Seq(Commits)
    BY <1>1
  <2>2. pc \in [Actors -> Running \cup Ended \cup {"idle"}]
    BY DEF Init
  <2> QED BY <1>1, <2>1, <2>2, SomeCommit, StartAssumption DEF GraphTypeOK, Init
<1>3. StoreInv
  <2>1. Grounded(0)
    <3>1. \A c \in Commits : HasRecord(0, c) <=> Recorded[c] # 0
      BY <1>1 DEF HasRecord
    <3>2. \A c \in Commits : HasObject(0, c) <=> c \in Stored
      BY <1>1 DEF HasObject
    <3>3. \A c \in Commits : Recorded[c] # 0 => c \in Stored /\ \A d \in ParentSet(c) : Recorded[d] # 0
      BY StartAssumption
    <3> QED BY <3>1, <3>2, <3>3, ParentsTyped DEF Grounded
  <2>2. \A c \in Commits : c \in objs <=> HasObject(Len(queue), c)
    BY <1>1 DEF HasObject
  <2>3. \A c \in Commits : Overlaid(c)
    BY <1>1 DEF Overlaid
  <2> QED BY <1>1, <2>1, <2>2, <2>3 DEF StoreInv
<1>4. ASSUME NEW a \in Actors
      PROVE  pc[a] = "idle" /\ todo[a] = 1 /\ asked[a] = 0 /\ gens[a] = NoRecords /\ result[a] = 0
  BY DEF Init
<1>5. ASSUME NEW a \in Actors PROVE BackfillInv(a)
  BY <1>4 DEF BackfillInv, NoRecords
<1>6. ASSUME NEW p \in Pushes PROVE PushInv(p)
  <2>1. p \in Actors
    BY Roles
  <2> QED BY <1>4, <2>1 DEF PushInv, Calls
<1> QED BY <1>2, <1>3, <1>5, <1>6 DEF GraphInv, ActorInv

LEMMA GraphStep ==
    ASSUME GraphInv, Next
    PROVE  GraphInv'
<1>1. ASSUME NEW p \in Pushes, PromoteCommits(p) PROVE GraphInv'
  BY <1>1, ObjectExistsStep, ObjectAbsentStep, PutObjectStep, ObjectsDoneStep, AskParentStep,
     ExtendStep, ExtendDoneStep, PushDoneStep DEF PromoteCommits
<1> QED BY <1>1, GetCommitInfoStep, FailStep, StartWalkStep, StartPushStep, RebuildStep,
           WalFlushStep, CrashStep DEF Next

LEMMA GraphStutters ==
    ASSUME GraphInv, UNCHANGED vars
    PROVE  GraphInv'
<1>1. StoreInv'
  BY StoreIsRead DEF GraphInv, vars, disk
<1>2. GraphTypeOK'
  BY DEF GraphInv, GraphTypeOK, vars, disk, push, walk
<1>3. (\A q \in Actors : Same(q)) /\ Monotone
  BY DEF vars, push, walk, Same, Monotone
<1>4. ActorInv'
  BY <1>3, Bystander, BystandingPush, Roles DEF GraphInv, ActorInv
<1> QED BY <1>1, <1>2, <1>4 DEF GraphInv

\* The store and the actors agree, whatever the history, the actors' order
\* and the crashes.
THEOREM GraphInvariant == Spec => []GraphInv
<1>1. GraphInv /\ [Next]_vars => GraphInv'
  BY GraphStep, GraphStutters
<1> QED BY <1>1, GraphInit, PTL DEF Spec

\* The types of every variable of module CommitGraph.
THEOREM GraphTypeCorrect == Spec => []GraphTypeOK
<1>1. GraphInv => GraphTypeOK
  BY DEF GraphInv
<1> QED BY <1>1, GraphInvariant, PTL

\* Whatever a crash leaves of the relaxed writes of put_commit_graph, a record
\* has its commit and the records of its parents.
THEOREM RecordsAreGrounded == Spec => []RecordsGrounded
<1>1. GraphInv => RecordsGrounded
  <2> SUFFICES ASSUME GraphInv, NEW n \in 0..Len(queue), NEW c \in RecordedAt(n)
               PROVE  c \in ObjectsAt(n) /\ ParentSet(c) \subseteq RecordedAt(n)
    BY DEF RecordsGrounded
  <2>0. GraphTypeOK /\ Grounded(n) /\ Len(queue) \in Nat
    BY QueueTyped DEF GraphInv, StoreInv
  <2>1. \A d \in Commits : d \in RecordedAt(n) <=> HasRecord(n, d)
    BY DEF RecordedAt, HasRecord, IsRecord
  <2>2. ASSUME NEW d \in Commits, HasObject(n, d) PROVE d \in ObjectsAt(n)
    <3>1. CASE d \in durObjs
      BY <3>1 DEF ObjectsAt
    <3>2. ASSUME NEW i \in 1..n, queue[i].type = "object", queue[i].commit = d
          PROVE  d \in ObjectsAt(n)
      <4>1. i \in 1..Len(queue)
        BY <2>0
      <4>2. queue[i] \in ObjectWrites
        BY <4>1, <3>2, <2>0, QueueTyped
      <4>3. queue[i] = ObjectWrite(d)
        BY <4>2, <3>2 DEF ObjectWrites, ObjectWrite
      <4> QED BY <4>3 DEF ObjectsAt
    <3> QED BY <2>2, <3>1, <3>2 DEF HasObject
  <2>3. c \in Commits
    BY DEF RecordedAt
  <2> QED BY <2>0, <2>1, <2>2, <2>3, ParentsTyped DEF Grounded
<1> QED BY <1>1, GraphInvariant, PTL

-----------------------------------------------------------------------------
(* Exact generations *)

LEMMA OthersKeepTheirLocals ==
    ASSUME GraphTypeOK, NEW a \in Actors,
           \/ GetCommitInfo(a) \/ Fail(a) \/ StartWalk(a)
           \/ StartPush(a) \/ PromoteCommits(a)
           \/ a = Rebuilder /\ (StartRebuild \/ Rebuild)
    PROVE  \A q \in Actors \ {a} : Same(q)
<1> USE DEF GraphTypeOK, Same, Goto, Leave, push, walk
<1>1. ASSUME NEW g, Return(a, g) PROVE \A q \in Actors \ {a} : Same(q)
  <2>1. CASE a \in Pushes
    BY <1>1, <2>1 DEF Return
  <2>2. CASE a \notin Pushes
    BY <1>1, <2>2 DEF Return
  <2> QED BY <2>1, <2>2
<1>11. CASE LookupHit(a) \/ BackfillDone(a)
  <2> HIDE DEF GraphTypeOK, Same, Goto, Leave, push, walk
  <2> QED BY <1>1, <1>11 DEF LookupHit, BackfillDone
<1>2. CASE LookupMiss(a) \/ Resolved(a) \/ ReadHit(a) \/ ReadMiss(a)
  <2>1. CASE LookupMiss(a)
    BY <2>1 DEF LookupMiss
  <2>2. CASE Resolved(a)
    BY <2>2 DEF Resolved, Pop
  <2>3. CASE ReadHit(a)
    BY <2>3 DEF ReadHit, Pop
  <2>4. CASE ReadMiss(a)
    BY <2>4 DEF ReadMiss
  <2> QED BY <1>2, <2>1, <2>2, <2>3, <2>4
<1>3. CASE Parse(a)
  <2>1. CASE Top(a) \notin objs
    BY <1>3, <2>1 DEF Parse
  <2>2. CASE Top(a) \in objs
    BY <1>3, <2>2 DEF Parse
  <2> QED BY <2>1, <2>2
<1>4. CASE PutRecord(a)
  BY <1>4 DEF PutRecord, Pop
<1>5. CASE BackfillMissing(a) \/ Fail(a)
  BY <1>5 DEF BackfillMissing, Fail
<1>6. CASE StartWalk(a) \/ StartPush(a)
  BY <1>6 DEF StartWalk, StartPush, Call
<1>7. CASE ObjectExists(a) \/ ObjectAbsent(a) \/ PutObject(a) \/ ObjectsDone(a)
  BY <1>7 DEF ObjectExists, ObjectAbsent, PutObject, ObjectsDone
<1>8. CASE AskParent(a) \/ Extend(a) \/ ExtendDone(a) \/ PushDone(a)
  BY <1>8 DEF AskParent, Call, Extend, ExtendDone, PushDone
<1>9. CASE a = Rebuilder /\ (StartRebuild \/ NextRoot \/ RootsDone \/ RebuildDone)
  BY <1>9 DEF StartRebuild, NextRoot, RootsDone, RebuildDone
<1> QED BY <1>11, <1>2, <1>3, <1>4, <1>5, <1>6, <1>7, <1>8, <1>9
        DEF GetCommitInfo, PromoteCommits, Rebuild

\* The part of ActorExact about what a push has asked.
BestExact(p) == best[p] \in AskedGenerations(p) /\ \A g \in AskedGenerations(p) : best[p] >= g

LEMMA NothingAsked ==
    ASSUME NEW p, asked[p] = 0
    PROVE  AskedGenerations(p) = {0}
<1>1. 1..0 = {}
  OBVIOUS
<1> QED BY <1>1 DEF AskedGenerations

LEMMA NothingAskedNext ==
    ASSUME NEW p, asked'[p] = 0, best'[p] = 0
    PROVE  BestExact(p)'
<1>1. 1..0 = {}
  OBVIOUS
<1>2. AskedGenerations(p)' = {0}
  BY <1>1 DEF AskedGenerations
<1> QED BY <1>2 DEF BestExact

LEMMA BestKept ==
    ASSUME NEW p, BestExact(p), asked'[p] = asked[p], best'[p] = best[p],
           todo'[p] = todo[p] \/ asked[p] = 0
    PROVE  BestExact(p)'
<1>1. CASE todo'[p] = todo[p]
  BY <1>1 DEF BestExact, AskedGenerations, Current
<1>2. CASE asked[p] = 0
  <2>1. best[p] = 0
    BY <1>2, NothingAsked DEF BestExact
  <2> QED BY <1>2, <2>1, NothingAskedNext
<1> QED BY <1>1, <1>2

\* A parent's generation is taken into the maximum.
LEMMA BestTaken ==
    ASSUME GraphInv, NEW p \in Pushes, pc[p] \in Calls, BestExact(p), NEW g \in Nat,
           g = Generation[target[p]],
           asked'[p] = asked[p] + 1, best'[p] = Max({best[p], g}), todo'[p] = todo[p]
    PROVE  BestExact(p)'
<1>1. /\ todo[p] <= Len(New[p]) /\ target[p] = Parents[Current(p)][asked[p] + 1]
      /\ asked[p] \in Nat /\ best[p] \in Nat
  BY InvOfPush DEF PushInv
<1>2. Current(p)' = Current(p)
  BY DEF Current
<1>3. 1..asked'[p] = 1..asked[p] \cup {asked[p] + 1}
  BY <1>1
<1>4. AskedGenerations(p)' = AskedGenerations(p) \cup {g}
  BY <1>1, <1>2, <1>3 DEF AskedGenerations
<1>5. AskedGenerations(p) \subseteq Nat
  <2>1. ASSUME NEW j \in 1..asked[p] PROVE Generation[Parents[Current(p)][j]] \in Nat
    <3>1. asked[p] <= Len(Parents[Current(p)]) /\ Current(p) \in Commits
      BY <1>1, <2>1, InvOfPush, CurrentTyped DEF PushInv
    <3>2. Parents[Current(p)] \in Seq(Commits)
      BY <3>1, ParentsTyped
    <3>3. j \in 1..Len(Parents[Current(p)])
      BY <1>1, <3>1, <3>2
    <3>4. Parents[Current(p)][j] \in Commits
      BY <3>2, <3>3
    <3> QED BY <3>4, ParentsTyped
  <2> QED BY <2>1 DEF AskedGenerations
<1>6. best'[p] = IF best[p] >= g THEN best[p] ELSE g
  BY <1>1, MaxOfTwo
<1>7. best'[p] \in AskedGenerations(p)'
  BY <1>4, <1>6 DEF BestExact
<1>8. \A y \in AskedGenerations(p) \cup {g} : best'[p] >= y
  BY <1>1, <1>5, <1>6 DEF BestExact
<1> QED BY <1>4, <1>7, <1>8 DEF BestExact

LEMMA ExactOwnStep ==
    ASSUME ExactInv, NEW a \in Actors, \A q \in Actors \ {a} : Same(q),
           GenerationsExact', ActorExact(a)'
    PROVE  ExactInv'
<1>1. ASSUME NEW q \in Actors, q # a PROVE ActorExact(q)'
  <2>1. Same(q) /\ ActorExact(q)
    BY <1>1 DEF ExactInv
  <2>2. AskedGenerations(q)' = AskedGenerations(q)
    BY <2>1 DEF Same, AskedGenerations, Current
  <2> QED BY <2>1, <2>2 DEF Same, ActorExact
<1> QED BY <1>1 DEF ExactInv

LEMMA ReadsExact ==
    ASSUME GenerationsExact, Reads
    PROVE  GenerationsExact'
BY DEF GenerationsExact, Reads, disk

LEMMA WritesExact ==
    ASSUME GraphTypeOK, GenerationsExact, NEW c \in Commits, NEW g, g = Generation[c],
           PutCommitGraph(c, g), UNCHANGED disk
    PROVE  GenerationsExact'
<1>1. queue \in Seq(ObjectWrites \cup RecordWrites) /\ graph \in [Commits -> Nat]
  BY DEF GraphTypeOK
<1>2. RecordWrite(c, g) \in ObjectWrites \cup RecordWrites
  BY ParentsTyped DEF RecordWrite, RecordWrites
<1>3. /\ queue' = Append(queue, RecordWrite(c, g)) /\ graph' = [graph EXCEPT ![c] = g]
      /\ durGraph' = durGraph
  BY DEF PutCommitGraph, disk
<1>4. \A d \in Commits : graph'[d] \in {0, Generation[d]} /\ durGraph'[d] \in {0, Generation[d]}
  BY <1>1, <1>3 DEF GenerationsExact
<1>5. ASSUME NEW i \in DOMAIN queue', queue'[i].type = "record"
      PROVE  queue'[i].generation = Generation[queue'[i].commit]
  <2>1. i \in 1..Len(queue) \/ i = Len(queue) + 1
    BY <1>1, <1>2, <1>3
  <2>2. CASE i \in 1..Len(queue)
    <3>1. queue'[i] = queue[i] /\ i \in DOMAIN queue
      BY <2>2, <1>1, <1>2, <1>3
    <3> QED BY <3>1, <1>5 DEF GenerationsExact
  <2>3. CASE i = Len(queue) + 1
    <3>1. queue'[i] = RecordWrite(c, g)
      BY <2>3, <1>1, <1>2, <1>3
    <3> QED BY <3>1 DEF RecordWrite
  <2> QED BY <2>1, <2>2, <2>3
<1> QED BY <1>4, <1>5 DEF GenerationsExact

LEMMA LeavesExact ==
    ASSUME GraphInv, ExactInv, NEW a \in Actors, NEW l \in Ended, Leave(a, l), Reads
    PROVE  ExactInv'
<1>1. /\ \A q \in Actors \ {a} : Same(q)
      /\ pc'[a] = l /\ asked'[a] = 0 /\ best'[a] = 0 /\ gens'[a] = NoRecords
  BY LeaveFacts DEF GraphInv
<1>2. BestExact(a)'
  BY <1>1, NothingAskedNext
<1>3. ActorExact(a)'
  BY <1>1, <1>2 DEF ActorExact, BestExact, NoRecords, Ended
<1>4. GenerationsExact'
  BY ReadsExact DEF ExactInv
<1> QED BY <1>1, <1>3, <1>4, ExactOwnStep

\* A step within a call that keeps what the push has asked.
LEMMA CallExact ==
    ASSUME GraphInv, ExactInv, NEW a \in Actors, \A q \in Actors \ {a} : Same(q),
           GenerationsExact',
           asked'[a] = asked[a], best'[a] = best[a],
           todo'[a] = todo[a] \/ (a \in Pushes => asked[a] = 0),
           \A c \in Commits : gens'[a][c] \in {0, Generation[c]},
           pc'[a] \in {"read", "parse", "put"} => result'[a] \in {0, Generation[target'[a]]}
    PROVE  ExactInv'
<1>1. ActorExact(a)
  BY DEF ExactInv
<1>2. ASSUME a \in Pushes PROVE BestExact(a)'
  BY <1>1, <1>2, BestKept DEF ActorExact, BestExact
<1>3. ActorExact(a)'
  BY <1>2 DEF ActorExact, BestExact
<1> QED BY <1>3, ExactOwnStep

LEMMA ReturnsExact ==
    ASSUME GraphInv, ExactInv, NEW a \in Actors, NEW g \in Nat, pc[a] \in Calls, Reads,
           Return(a, g), g = Generation[target[a]]
    PROVE  ExactInv'
<1>0. GraphTypeOK /\ ActorExact(a) /\ GenerationsExact
  BY DEF GraphInv, ExactInv
<1>1. CASE a \notin Pushes
  BY <1>1, LeavesExact DEF Return, Ended
<1>2. CASE a \in Pushes
  <2>1. /\ Goto(a, "extend") /\ best' = [best EXCEPT ![a] = Max({@, g})]
        /\ asked' = [asked EXCEPT ![a] = @ + 1]
        /\ UNCHANGED <<todo, target, stack, gens, result, owed>>
    BY <1>2 DEF Return, walk
  <2>2. /\ pc'[a] = "extend" /\ asked'[a] = asked[a] + 1 /\ best'[a] = Max({best[a], g})
        /\ todo'[a] = todo[a] /\ gens'[a] = gens[a]
    BY <1>0, <2>1 DEF GraphTypeOK, Goto
  <2>3. \A q \in Actors \ {a} : Same(q)
    BY <1>0, <2>1 DEF GraphTypeOK, Goto, Same
  <2>4. BestExact(a)'
    BY <1>0, <1>2, <2>2, BestTaken DEF ActorExact, BestExact
  <2>5. ActorExact(a)'
    BY <1>0, <2>2, <2>4 DEF ActorExact, BestExact
  <2> QED BY <1>0, <2>3, <2>5, ReadsExact, ExactOwnStep
<1> QED BY <1>1, <1>2

LEMMA GetCommitInfoExact ==
    ASSUME GraphInv, ExactInv, NEW a \in Actors, GetCommitInfo(a)
    PROVE  ExactInv'
<1>0. GraphTypeOK /\ ActorExact(a) /\ GenerationsExact /\ BackfillInv(a)
  BY DEF GraphInv, ExactInv, ActorInv
<1>00. \A q \in Actors \ {a} : Same(q)
  BY <1>0, OthersKeepTheirLocals
<1>01. target[a] \in Commits /\ gens[a] \in [Commits -> Nat]
  BY <1>0 DEF GraphTypeOK
<1>1. CASE LookupHit(a)
  <2>1. graph[target[a]] \in Nat /\ pc[a] \in Calls /\ Reads
    BY <1>0, <1>1 DEF LookupHit, GraphTypeOK, Calls, Reads
  <2>2. graph[target[a]] = Generation[target[a]]
    BY <1>0, <1>1, <1>01 DEF LookupHit, GenerationsExact
  <2> QED BY <1>1, <2>1, <2>2, ReturnsExact DEF LookupHit
<1>2. CASE LookupMiss(a)
  <2>1. /\ gens'[a] = NoRecords /\ result'[a] = 0 /\ asked' = asked /\ best' = best
        /\ todo' = todo /\ Reads
    BY <1>0, <1>2 DEF LookupMiss, GraphTypeOK, push, Reads
  <2> QED BY <1>0, <1>00, <2>1, ReadsExact, CallExact DEF NoRecords
<1>3. CASE Resolved(a)
  <2>1. /\ gens' = gens /\ result' = result /\ asked' = asked /\ best' = best /\ todo' = todo
        /\ target' = target /\ pc' = pc /\ Reads
    BY <1>3 DEF Resolved, push, Reads
  <2> QED BY <1>0, <1>00, <2>1, ReadsExact, CallExact DEF ActorExact
<1>4. CASE ReadHit(a)
  <2>1. /\ result' = result /\ asked' = asked /\ best' = best /\ todo' = todo
        /\ target' = target /\ pc' = pc /\ Reads /\ Top(a) \in Commits
        /\ graph[Top(a)] # 0
    BY <1>0, <1>4, TopTyped DEF ReadHit, push, Reads
  <2>2. gens'[a] = [gens[a] EXCEPT ![Top(a)] = graph[Top(a)]]
    BY <1>0, <1>4 DEF ReadHit, GraphTypeOK
  <2>3. graph[Top(a)] = Generation[Top(a)]
    BY <1>0, <2>1 DEF GenerationsExact
  <2>4. \A c \in Commits : gens'[a][c] \in {0, Generation[c]}
    BY <1>0, <1>01, <2>1, <2>2, <2>3 DEF ActorExact
  <2> QED BY <1>0, <1>00, <2>1, <2>4, ReadsExact, CallExact DEF ActorExact
<1>5. CASE ReadMiss(a)
  <2>1. /\ gens' = gens /\ result' = result /\ asked' = asked /\ best' = best /\ todo' = todo
        /\ target' = target /\ pc[a] = "read" /\ Reads
    BY <1>5 DEF ReadMiss, push, walk, Reads
  <2> QED BY <1>0, <1>00, <2>1, ReadsExact, CallExact DEF ActorExact
<1>6. CASE Parse(a)
  <2>1. Reads /\ pc[a] = "parse"
    BY <1>6 DEF Parse, Reads
  <2>2. CASE Top(a) \notin objs
    BY <1>6, <2>1, <2>2, LeavesExact DEF Parse, Ended
  <2>3. CASE Top(a) \in objs
    <3>1. /\ gens' = gens /\ result' = result /\ asked' = asked /\ best' = best /\ todo' = todo
          /\ target' = target
      BY <1>6, <2>3 DEF Parse, push
    <3> QED BY <1>0, <1>00, <2>1, <3>1, ReadsExact, CallExact DEF ActorExact
  <2> QED BY <2>2, <2>3
<1>7. CASE PutRecord(a)
  <2> DEFINE c == Top(a)
             g == 1 + Max({0} \cup {gens[a][d] : d \in ParentSet(c)})
  <2>1. /\ pc[a] = "put" /\ stack[a] # <<>> /\ \A d \in ParentSet(c) : gens[a][d] # 0
    BY <1>0, <1>7 DEF PutRecord, BackfillInv
  <2>2. c \in Commits /\ ParentSet(c) \subseteq Commits
    BY <1>0, <2>1, TopTyped, ParentsTyped
  <2>3. \A d \in ParentSet(c) : gens[a][d] = Generation[d]
    BY <1>0, <2>1, <2>2 DEF ActorExact
  <2>4. g = Generation[c]
    BY <1>01, <2>2, <2>3, ExactFromParents
  <2>5. /\ PutCommitGraph(c, g) /\ gens' = [gens EXCEPT ![a][c] = g]
        /\ result' = [result EXCEPT ![a] = IF a # Rebuilder /\ c = target[a] THEN g ELSE @]
        /\ UNCHANGED <<disk, objs, tips, todo, asked, best, target, owed>>
    BY <1>7 DEF PutRecord, push
  <2> HIDE DEF c, g
  <2>6. GenerationsExact'
    BY <1>0, <2>2, <2>4, <2>5, WritesExact
  <2>7. /\ gens'[a] = [gens[a] EXCEPT ![c] = g]
        /\ result'[a] = IF a # Rebuilder /\ c = target[a] THEN g ELSE result[a]
    BY <1>0, <2>5 DEF GraphTypeOK
  <2>8. \A d \in Commits : gens'[a][d] \in {0, Generation[d]}
    BY <1>0, <1>01, <2>2, <2>4, <2>7 DEF ActorExact
  <2>9. result'[a] \in {0, Generation[target'[a]]}
    BY <1>0, <2>1, <2>4, <2>5, <2>7 DEF ActorExact
  <2> QED BY <1>00, <2>5, <2>6, <2>8, <2>9, CallExact
<1>8. CASE BackfillDone(a)
  <2>1. result[a] \in Nat /\ pc[a] \in Calls /\ Reads /\ result[a] = Generation[target[a]]
    BY <1>0, <1>8 DEF BackfillDone, GraphTypeOK, Calls, Reads, ActorExact
  <2> QED BY <1>8, <2>1, ReturnsExact DEF BackfillDone
<1>9. CASE BackfillMissing(a)
  BY <1>9, LeavesExact DEF BackfillMissing, Ended, Reads
<1> QED BY <1>1, <1>2, <1>3, <1>4, <1>5, <1>6, <1>7, <1>8, <1>9 DEF GetCommitInfo

\* The highest parent generation, plus one, is the commit's.
LEMMA BestIsMax ==
    ASSUME GraphInv, NEW p \in Pushes, todo[p] <= Len(New[p]),
           asked[p] = Len(Parents[Current(p)]), BestExact(p)
    PROVE  best[p] + 1 = Generation[Current(p)]
<1> DEFINE c == Current(p)
           S == {0} \cup {Generation[d] : d \in ParentSet(c)}
<1>1. /\ c \in Commits /\ Generation \in [Commits -> Nat]
      /\ ParentSet(c) = {Parents[c][i] : i \in 1..Len(Parents[c])}
      /\ ParentSet(c) \subseteq Commits
  BY CurrentTyped, CommitAssumption, ParentsTyped
<1>2. Max(S) \in Nat /\ Max(S) \in S /\ \A y \in S : Max(S) >= y
  BY <1>1, MaxOverParents
<1>3. AskedGenerations(p) = S
  BY <1>1 DEF AskedGenerations
<1>4. S \subseteq Nat
  BY <1>1
<1>5. best[p] \in S /\ \A y \in S : best[p] >= y
  BY <1>3 DEF BestExact
<1>6. Generation[c] = 1 + Max(S)
  BY <1>1, CommitAssumption
<1> HIDE DEF S, c
<1>7. best[p] = Max(S)
  <2>1. PICK m : m = Max(S)
    OBVIOUS
  <2>2. m \in Nat /\ best[p] \in Nat /\ m >= best[p] /\ best[p] >= m
    BY <1>2, <1>4, <1>5, <2>1
  <2> QED BY <2>1, <2>2
<1> QED BY <1>2, <1>6, <1>7 DEF c

LEMMA PushExact ==
    ASSUME GraphInv, ExactInv, NEW p \in Pushes, StartPush(p) \/ PromoteCommits(p)
    PROVE  ExactInv'
<1>0. GraphTypeOK /\ ActorExact(p) /\ GenerationsExact /\ PushInv(p) /\ p \in Actors
  BY Roles DEF GraphInv, ExactInv, ActorInv
<1>00. \A q \in Actors \ {p} : Same(q)
  BY <1>0, OthersKeepTheirLocals
<1>1. CASE StartPush(p) \/ ObjectAbsent(p) \/ ExtendDone(p)
  <2>1. /\ gens' = gens /\ asked' = asked /\ best' = best /\ todo' = todo /\ Reads
        /\ pc'[p] \notin {"read", "parse", "put"}
    BY <1>0, <1>1 DEF StartPush, ObjectAbsent, ExtendDone, Goto, push, walk, Reads, GraphTypeOK
  <2> QED BY <1>0, <1>00, <2>1, ReadsExact, CallExact DEF ActorExact
<1>2. CASE ObjectExists(p) \/ ObjectsDone(p)
  <2>1. /\ gens' = gens /\ asked' = asked /\ best' = best /\ Reads /\ pc[p] = "object"
        /\ pc'[p] \notin {"read", "parse", "put"}
    BY <1>0, <1>2 DEF ObjectExists, ObjectsDone, Goto, walk, Reads, GraphTypeOK
  <2>2. asked[p] = 0
    BY <1>0, <2>1 DEF PushInv, Calls
  <2> QED BY <1>0, <1>00, <2>1, <2>2, ReadsExact, CallExact DEF ActorExact
<1>3. CASE PutObject(p)
  <2>1. /\ gens' = gens /\ asked' = asked /\ best' = best /\ pc[p] = "put_object"
        /\ pc'[p] \notin {"read", "parse", "put"}
        /\ queue' = Append(queue, ObjectWrite(Current(p))) /\ graph' = graph /\ durGraph' = durGraph
    BY <1>0, <1>3 DEF PutObject, Goto, walk, disk, GraphTypeOK
  <2>2. asked[p] = 0 /\ Current(p) \in Commits
    BY <1>0, <2>1, CurrentTyped DEF PushInv, Calls
  <2>3. GenerationsExact'
    <3>1. /\ queue \in Seq(ObjectWrites \cup RecordWrites)
          /\ ObjectWrite(Current(p)) \in ObjectWrites \cup RecordWrites
      BY <1>0, <2>2 DEF GraphTypeOK, ObjectWrite, ObjectWrites
    <3>2. ASSUME NEW i \in DOMAIN queue', queue'[i].type = "record"
          PROVE  queue'[i].generation = Generation[queue'[i].commit]
      <4>1. i \in 1..Len(queue) \/ i = Len(queue) + 1
        BY <2>1, <3>1
      <4>2. i # Len(queue) + 1
        <5>1. queue'[Len(queue) + 1] = ObjectWrite(Current(p))
          BY <2>1, <3>1
        <5> QED BY <5>1, <3>2 DEF ObjectWrite
      <4>3. queue'[i] = queue[i] /\ i \in DOMAIN queue
        BY <4>1, <4>2, <2>1, <3>1
      <4> QED BY <4>3, <3>2, <1>0 DEF GenerationsExact
    <3> QED BY <1>0, <2>1, <3>2 DEF GenerationsExact
  <2> QED BY <1>0, <1>00, <2>1, <2>2, <2>3, CallExact DEF ActorExact
<1>4. CASE AskParent(p)
  <2>1. /\ gens' = gens /\ asked' = asked /\ best' = best /\ todo' = todo /\ Reads
        /\ pc'[p] \notin {"read", "parse", "put"}
    BY <1>0, <1>4 DEF AskParent, Call, Goto, push, Reads, GraphTypeOK
  <2> QED BY <1>0, <1>00, <2>1, ReadsExact, CallExact DEF ActorExact
<1>5. CASE Extend(p)
  <2>1. /\ todo[p] <= Len(New[p]) /\ asked[p] = Len(Parents[Current(p)])
        /\ PutCommitGraph(Current(p), best[p] + 1) /\ UNCHANGED disk
    BY <1>5 DEF Extend
  <2>2. best[p] + 1 = Generation[Current(p)] /\ Current(p) \in Commits
    BY <1>0, <2>1, BestIsMax, CurrentTyped DEF ActorExact, BestExact
  <2>3. GenerationsExact'
    BY <1>0, <2>1, <2>2, WritesExact
  <2>4. asked'[p] = 0 /\ best'[p] = 0 /\ gens' = gens /\ pc'[p] = "extend"
    BY <1>0, <1>5 DEF Extend, GraphTypeOK, walk
  <2>5. BestExact(p)'
    BY <2>4, NothingAskedNext
  <2>6. ActorExact(p)'
    BY <1>0, <2>4, <2>5 DEF ActorExact, BestExact
  <2> QED BY <1>0, <1>00, <2>3, <2>6, ExactOwnStep
<1>6. CASE PushDone(p)
  BY <1>0, <1>6, LeavesExact DEF PushDone, Ended, Reads
<1> QED BY <1>1, <1>2, <1>3, <1>4, <1>5, <1>6 DEF PromoteCommits

LEMMA OthersExact ==
    ASSUME GraphInv, ExactInv,
           \/ \E a \in Actors : Fail(a)
           \/ \E w \in Walkers : StartWalk(w)
           \/ StartRebuild \/ Rebuild
    PROVE  ExactInv'
<1>0. GraphTypeOK /\ GenerationsExact /\ Rebuilder \in Actors
  BY Roles DEF GraphInv, ExactInv
<1>1. ASSUME NEW a \in Actors, Fail(a) PROVE ExactInv'
  BY <1>1, LeavesExact DEF Fail, Ended, Reads
<1>2. ASSUME NEW w \in Walkers, StartWalk(w) PROVE ExactInv'
  <2>1. w \in Actors /\ w \notin Pushes /\ ActorExact(w)
    BY Roles DEF ExactInv
  <2>2. \A q \in Actors \ {w} : Same(q)
    BY <1>0, <1>2, <2>1, OthersKeepTheirLocals
  <2>3. /\ gens' = gens /\ asked' = asked /\ best' = best /\ todo' = todo /\ Reads
        /\ pc'[w] \notin {"read", "parse", "put"}
    BY <1>0, <1>2, <2>1 DEF StartWalk, Call, Goto, push, Reads, GraphTypeOK
  <2> QED BY <1>0, <2>1, <2>2, <2>3, ReadsExact, CallExact DEF ActorExact
<1>3. CASE StartRebuild \/ NextRoot \/ RootsDone
  <2>1. \A q \in Actors \ {Rebuilder} : Same(q)
    BY <1>0, <1>3, OthersKeepTheirLocals DEF Rebuild
  <2>2. ActorExact(Rebuilder) /\ BackfillInv(Rebuilder)
    BY <1>0 DEF ExactInv, GraphInv, ActorInv
  <2>3. /\ gens' = gens /\ asked' = asked /\ best' = best /\ todo' = todo /\ Reads
        /\ result' = result /\ target' = target
        /\ pc[Rebuilder] \in {"idle", "read"}
    BY <1>3 DEF StartRebuild, NextRoot, RootsDone, push, walk, Reads
  <2>4. result[Rebuilder] \in {0, Generation[target[Rebuilder]]}
    BY <2>2, <2>3 DEF ActorExact, BackfillInv
  <2> QED BY <1>0, <2>1, <2>2, <2>3, <2>4, ReadsExact, CallExact DEF ActorExact
<1>4. CASE RebuildDone
  BY <1>0, <1>4, LeavesExact DEF RebuildDone, Ended, Reads
<1> QED BY <1>1, <1>2, <1>3, <1>4 DEF Rebuild

LEMMA StoreExact ==
    ASSUME GraphInv, ExactInv, WalFlush \/ Crash
    PROVE  ExactInv'
<1>0. GraphTypeOK /\ GenerationsExact
  BY DEF GraphInv, ExactInv
<1>1. CASE WalFlush
  <2>1. queue \in Seq(ObjectWrites \cup RecordWrites) /\ queue # <<>> /\ queue' = Tail(queue)
    BY <1>0, <1>1 DEF GraphTypeOK, WalFlush
  <2>2. /\ 1 \in DOMAIN queue /\ Head(queue) = queue[1] /\ graph' = graph
        /\ queue[1] \in ObjectWrites \cup RecordWrites
        /\ durGraph \in [Commits -> Nat]
    BY <1>0, <1>1, <2>1 DEF WalFlush, GraphTypeOK
  <2>3. \A i \in DOMAIN queue' : queue'[i] = queue[i + 1] /\ i + 1 \in DOMAIN queue
    BY <2>1
  <2>4. \A c \in Commits : durGraph'[c] \in {0, Generation[c]}
    <3>1. CASE queue[1].type = "object"
      BY <1>0, <1>1, <2>2, <3>1 DEF WalFlush, GenerationsExact
    <3>2. CASE queue[1].type # "object"
      <4>1. queue[1] \in RecordWrites
        BY <2>2, <3>2 DEF ObjectWrites
      <4>2. queue[1].generation = Generation[queue[1].commit]
        BY <4>1, <1>0, <2>2 DEF RecordWrites, GenerationsExact
      <4> QED BY <1>0, <1>1, <2>2, <3>2, <4>2 DEF WalFlush, GenerationsExact
    <3> QED BY <3>1, <3>2
  <2>5. GenerationsExact'
    BY <1>0, <2>2, <2>3, <2>4 DEF GenerationsExact
  <2>6. \A q \in Actors : Same(q)
    BY <1>1 DEF WalFlush, push, walk, Same
  <2>7. ASSUME NEW q \in Actors PROVE ActorExact(q)'
    <3>1. ActorExact(q) /\ Same(q)
      BY <2>6 DEF ExactInv
    <3>2. AskedGenerations(q)' = AskedGenerations(q)
      BY <3>1 DEF Same, AskedGenerations, Current
    <3> QED BY <3>1, <3>2 DEF Same, ActorExact
  <2> QED BY <2>5, <2>7 DEF ExactInv
<1>2. CASE Crash
  <2>1. GenerationsExact'
    BY <1>0, <1>2 DEF Crash, GenerationsExact
  <2>2. ASSUME NEW q \in Actors PROVE ActorExact(q)'
    <3>1. asked'[q] = 0 /\ best'[q] = 0 /\ gens'[q] = NoRecords /\ pc'[q] \notin Running
      BY <1>2 DEF Crash, Running
    <3>2. BestExact(q)'
      BY <3>1, NothingAskedNext
    <3> QED BY <3>1, <3>2 DEF ActorExact, BestExact, NoRecords, Running
  <2> QED BY <2>1, <2>2 DEF ExactInv
<1> QED BY <1>1, <1>2

LEMMA ExactInit ==
    ASSUME RecordedExact, Init
    PROVE  ExactInv
<1>1. GenerationsExact
  BY DEF Init, RecordedExact, GenerationsExact
<1>2. ASSUME NEW a \in Actors PROVE ActorExact(a)
  <2>1. asked[a] = 0 /\ best[a] = 0 /\ gens[a] = NoRecords /\ pc[a] = "idle"
    BY DEF Init
  <2>2. AskedGenerations(a) = {0}
    BY <2>1, NothingAsked
  <2> QED BY <2>1, <2>2 DEF ActorExact, NoRecords
<1> QED BY <1>1, <1>2 DEF ExactInv

\* walk.rs: "generations are always 1 + max(parent generations)": pushes,
\* backfills and a rebuild, however they interleave and crash, write no other
\* generation, if none was there at the start.
THEOREM GenerationsStayExact == RecordedExact => (Spec => []GenerationsExact)
<1>1. GraphInv /\ ExactInv /\ [Next]_vars => ExactInv'
  <2> SUFFICES ASSUME GraphInv, ExactInv, [Next]_vars PROVE ExactInv'
    OBVIOUS
  <2>1. CASE UNCHANGED vars
    <3>1. GenerationsExact'
      BY <2>1 DEF ExactInv, GenerationsExact, vars, disk
    <3>2. ASSUME NEW q \in Actors PROVE ActorExact(q)'
      BY <2>1 DEF ExactInv, ActorExact, AskedGenerations, Current, vars, push, walk
    <3> QED BY <3>1, <3>2 DEF ExactInv
  <2>2. CASE Next
    BY <2>2, GetCommitInfoExact, PushExact, OthersExact, StoreExact DEF Next
  <2> QED BY <2>1, <2>2
<1>2. RecordedExact /\ Init => ExactInv
  BY ExactInit
<1>3. ExactInv => GenerationsExact
  BY DEF ExactInv
<1> QED BY <1>1, <1>2, <1>3, GraphInvariant, PTL DEF Spec

-----------------------------------------------------------------------------
(* The rebuild *)

LEMMA NotRebuilding ==
    ASSUME RebuildInv, Same(Rebuilder), pc[Rebuilder] \notin Running
    PROVE  RebuildInv'
<1>1. pc'[Rebuilder] \notin Running /\ gens'[Rebuilder] = NoRecords
  BY DEF RebuildInv, Same
<1> QED BY <1>1 DEF RebuildInv, Running, NoRecords

\* Nobody else moves while the rebuild runs.
LEMMA RebuildIsAlone ==
    ASSUME RebuildInv, NEW a \in Actors, a # Rebuilder,
           GetCommitInfo(a) \/ Fail(a) \/ StartWalk(a) \/ StartPush(a) \/ PromoteCommits(a)
    PROVE  pc[Rebuilder] \notin Running
<1>1. CASE StartWalk(a) \/ StartPush(a)
  BY <1>1 DEF StartWalk, StartPush, Online
<1>2. CASE GetCommitInfo(a) \/ Fail(a) \/ PromoteCommits(a)
  <2>1. pc[a] \in Running
    <3>1. CASE GetCommitInfo(a)
      BY <3>1 DEF GetCommitInfo, LookupHit, LookupMiss, Resolved, ReadHit, ReadMiss, Parse, PutRecord,
                  BackfillDone, BackfillMissing, Running
    <3>2. CASE PromoteCommits(a)
      BY <3>2 DEF PromoteCommits, ObjectExists, ObjectAbsent, PutObject, ObjectsDone, AskParent,
                  Extend, ExtendDone, PushDone, Running
    <3> QED BY <1>2, <3>1, <3>2 DEF Fail
  <2> QED BY <2>1 DEF RebuildInv, Offline
<1> QED BY <1>1, <1>2

\* What a step of the rebuild itself keeps.
LEMMA RebuildOwnStep ==
    ASSUME GraphTypeOK, RebuildInv, pc[Rebuilder] \in Running \/ Offline,
           \A q \in Actors \ {Rebuilder} : Same(q),
           pc'[Rebuilder] \notin {"object", "put_object", "extend", "lookup"},
           pc'[Rebuilder] \notin Running => gens'[Rebuilder] = NoRecords,
           \A c \in Commits : gens'[Rebuilder][c] # 0 =>
              /\ gens'[Rebuilder][c] = Generation[c] /\ graph'[c] = Generation[c]
              /\ \A d \in ParentSet(c) : gens'[Rebuilder][d] # 0,
           pc'[Rebuilder] = "flush" =>
              owed'[Rebuilder] = Len(queue') /\ \A c \in tips' : gens'[Rebuilder][c] # 0
    PROVE  RebuildInv'
<1>1. Offline
  BY DEF RebuildInv
<1>2. Offline'
  BY <1>1 DEF Offline, Same
<1> QED BY <1>2 DEF RebuildInv, ParentSet

LEMMA RebuildReadsOrLeaves ==
    ASSUME GraphInv, RebuildInv,
           \/ Resolved(Rebuilder) \/ ReadMiss(Rebuilder) \/ Parse(Rebuilder) \/ Fail(Rebuilder)
           \/ StartRebuild \/ Rebuild
    PROVE  RebuildInv'
<1> DEFINE R == Rebuilder
<1>0. GraphTypeOK /\ R \in Actors /\ Len(queue) \in Nat
  BY Roles, QueueTyped DEF GraphInv
<1>1. \A q \in Actors \ {R} : Same(q)
  BY <1>0, OthersKeepTheirLocals DEF GetCommitInfo
<1>2. graph' = graph /\ queue' = queue /\ tips' = tips
  BY DEF Resolved, ReadMiss, Parse, Fail, StartRebuild, Rebuild, NextRoot, RootsDone, RebuildDone
<1>3. pc[R] \in Running \/ Offline
  BY DEF Resolved, ReadMiss, Parse, Fail, StartRebuild, Rebuild, NextRoot, RootsDone, RebuildDone, Running
<1>4. ASSUME NEW l \in Ended, Leave(R, l) PROVE RebuildInv'
  <2>1. pc'[R] = l /\ gens'[R] = NoRecords
    BY <1>0, <1>4, LeaveFacts
  <2> QED BY <1>0, <1>1, <1>3, <2>1, RebuildOwnStep DEF Ended, NoRecords
<1>5. ASSUME gens'[R] = gens[R], pc'[R] \in {"read", "parse", "put"} PROVE RebuildInv'
  BY <1>0, <1>1, <1>2, <1>3, <1>5, RebuildOwnStep DEF RebuildInv, Running
<1>6. CASE Resolved(R) \/ ReadMiss(R) \/ StartRebuild \/ NextRoot
  <2>1. gens'[R] = gens[R] /\ pc'[R] \in {"read", "parse", "put"}
    BY <1>0, <1>6 DEF Resolved, ReadMiss, StartRebuild, NextRoot, Goto, walk, GraphTypeOK
  <2> QED BY <2>1, <1>5
<1>7. CASE Parse(R)
  <2>1. CASE Top(R) \notin objs
    BY <1>4, <1>7, <2>1 DEF Parse, Ended
  <2>2. CASE Top(R) \in objs
    <3>1. gens'[R] = gens[R] /\ pc'[R] \in {"read", "parse", "put"}
      BY <1>0, <1>7, <2>2 DEF Parse, Goto, GraphTypeOK
    <3> QED BY <3>1, <1>5
  <2> QED BY <2>1, <2>2
<1>8. CASE Fail(R) \/ RebuildDone
  BY <1>4, <1>8 DEF Fail, RebuildDone, Ended
<1>9. CASE RootsDone
  <2>1. /\ pc'[R] = "flush" /\ owed'[R] = Len(queue) /\ gens' = gens
        /\ \A c \in tips : gens[R][c] # 0
    BY <1>0, <1>9 DEF RootsDone, Goto, walk, GraphTypeOK
  <2> QED BY <1>0, <1>1, <1>2, <1>3, <2>1, RebuildOwnStep DEF RebuildInv, Running
<1> QED BY <1>6, <1>7, <1>8, <1>9 DEF Rebuild

LEMMA RebuildWrites ==
    ASSUME GraphInv, RebuildInv, PutRecord(Rebuilder)
    PROVE  RebuildInv'
<1> DEFINE R == Rebuilder
           c == Top(R)
           g == 1 + Max({0} \cup {gens[R][d] : d \in ParentSet(c)})
<1>0. GraphTypeOK /\ R \in Actors /\ BackfillInv(R)
  BY Roles DEF GraphInv, ActorInv
<1>1. \A q \in Actors \ {R} : Same(q)
  BY <1>0, OthersKeepTheirLocals DEF GetCommitInfo
<1>2. pc[R] = "put" /\ stack[R] # <<>> /\ \A d \in ParentSet(c) : gens[R][d] # 0
  BY <1>0 DEF PutRecord, BackfillInv
<1>3. c \in Commits /\ ParentSet(c) \subseteq Commits /\ gens[R] \in [Commits -> Nat]
  BY <1>0, <1>2, TopTyped, ParentsTyped DEF GraphTypeOK
<1>4. \A d \in ParentSet(c) : gens[R][d] = Generation[d]
  BY <1>2, <1>3 DEF RebuildInv
<1>5. g = Generation[c]
  BY <1>3, <1>4, ExactFromParents
<1>6. PutCommitGraph(c, g) /\ gens' = [gens EXCEPT ![R][c] = g] /\ Goto(R, "read")
  BY DEF PutRecord
<1> HIDE DEF c, g
<1>7. /\ graph' = [graph EXCEPT ![c] = g] /\ graph \in [Commits -> Nat]
      /\ gens'[R] = [gens[R] EXCEPT ![c] = g] /\ pc'[R] = "read"
  BY <1>0, <1>6 DEF PutCommitGraph, GraphTypeOK, Goto
<1>8. Generation[c] # 0 /\ \A d \in Commits : ParentSet(d) \subseteq Commits
  BY <1>3, ParentsTyped
<1>9. ASSUME NEW d \in Commits, gens'[R][d] # 0
      PROVE  /\ gens'[R][d] = Generation[d] /\ graph'[d] = Generation[d]
             /\ \A e \in ParentSet(d) : gens'[R][e] # 0
  <2>1. \A e \in Commits : gens[R][e] # 0 => gens'[R][e] # 0
    BY <1>3, <1>5, <1>7, <1>8
  <2>2. CASE d = c
    BY <2>1, <2>2, <1>2, <1>3, <1>5, <1>7
  <2>3. CASE d # c
    <3>1. gens[R][d] # 0 /\ gens'[R][d] = gens[R][d] /\ graph'[d] = graph[d]
      BY <2>3, <1>3, <1>7, <1>9
    <3>2. /\ gens[R][d] = Generation[d] /\ graph[d] = Generation[d]
          /\ \A e \in ParentSet(d) : gens[R][e] # 0
      BY <3>1 DEF RebuildInv
    <3> QED BY <3>1, <3>2, <2>1, <1>8
  <2> QED BY <2>2, <2>3
<1> QED BY <1>0, <1>1, <1>2, <1>7, <1>9, RebuildOwnStep DEF Running

LEMMA RebuildInvStep ==
    ASSUME GraphInv, RebuildInv, Next
    PROVE  RebuildInv'
<1> DEFINE R == Rebuilder
<1>0. GraphTypeOK /\ R \in Actors /\ R \notin Pushes /\ R \notin Walkers
  BY Roles DEF GraphInv
<1>1. ASSUME NEW a \in Actors, a # R,
             GetCommitInfo(a) \/ Fail(a) \/ StartWalk(a) \/ StartPush(a) \/ PromoteCommits(a)
      PROVE  RebuildInv'
  <2>1. pc[R] \notin Running
    BY <1>1, RebuildIsAlone
  <2>2. Same(R)
    BY <1>0, <1>1, OthersKeepTheirLocals
  <2> QED BY <2>1, <2>2, NotRebuilding
<1>2. CASE GetCommitInfo(R) \/ Fail(R)
  <2>1. ~LookupHit(R) /\ ~LookupMiss(R) /\ ~ReadHit(R) /\ ~BackfillDone(R) /\ ~BackfillMissing(R)
    BY DEF LookupHit, LookupMiss, ReadHit, BackfillDone, BackfillMissing, RebuildInv
  <2> QED BY <1>2, <2>1, RebuildReadsOrLeaves, RebuildWrites DEF GetCommitInfo
<1>3. CASE WalFlush
  <2>1. UNCHANGED <<graph, tips, pc, gens>>
    BY <1>3 DEF WalFlush, walk
  <2>2. ASSUME pc[R] = "flush", owed[R] = Len(queue) PROVE owed'[R] = Len(queue')
    <3>1. queue \in Seq(ObjectWrites \cup RecordWrites) /\ queue # <<>> /\ queue' = Tail(queue)
      BY <1>0, <1>3 DEF GraphTypeOK, WalFlush
    <3>2. Len(queue) \in Nat /\ Len(queue) > 0 /\ Len(queue') = Len(queue) - 1
      BY <3>1
    <3>3. owed'[R] = IF owed[R] > 0 THEN owed[R] - 1 ELSE 0
      BY <1>0, <1>3 DEF WalFlush
    <3> QED BY <2>2, <3>2, <3>3
  <2>3. Offline' = Offline
    BY <2>1 DEF Offline
  <2> QED BY <2>1, <2>2, <2>3 DEF RebuildInv, ParentSet
<1>4. CASE Crash
  <2>1. pc'[R] \notin Running /\ gens'[R] = NoRecords
    BY <1>0, <1>4 DEF Crash, Running
  <2> QED BY <2>1 DEF RebuildInv, Running, NoRecords
<1>5. ASSUME NEW a \in Actors, GetCommitInfo(a) \/ Fail(a) PROVE RebuildInv'
  BY <1>1, <1>2, <1>5
<1>6. ASSUME NEW w \in Walkers, StartWalk(w) PROVE RebuildInv'
  <2>1. w \in Actors /\ w # R
    BY <1>0, Roles
  <2> QED BY <1>1, <1>6, <2>1
<1>7. ASSUME NEW p \in Pushes, StartPush(p) \/ PromoteCommits(p) PROVE RebuildInv'
  <2>1. p \in Actors /\ p # R
    BY <1>0, Roles
  <2> QED BY <1>1, <1>7, <2>1
<1> QED BY <1>3, <1>4, <1>5, <1>6, <1>7, RebuildReadsOrLeaves DEF Next

LEMMA RebuildInvariant == Spec => []RebuildInv
<1>1. Init => RebuildInv
  <2> SUFFICES ASSUME Init PROVE RebuildInv
    OBVIOUS
  <2>1. pc[Rebuilder] = "idle" /\ gens[Rebuilder] = NoRecords
    BY Roles DEF Init
  <2> QED BY <2>1 DEF RebuildInv, Running, NoRecords
<1>2. GraphInv /\ RebuildInv /\ [Next]_vars => RebuildInv'
  <2> SUFFICES ASSUME GraphInv, RebuildInv, [Next]_vars PROVE RebuildInv'
    OBVIOUS
  <2>1. CASE UNCHANGED vars
    <3>1. UNCHANGED <<graph, tips, pc, gens, owed, queue>>
      BY <2>1 DEF vars, walk
    <3>2. Offline' = Offline
      BY <3>1 DEF Offline
    <3> QED BY <3>1, <3>2 DEF RebuildInv, ParentSet
  <2> QED BY <2>1, RebuildInvStep
<1> QED BY <1>1, <1>2, GraphInvariant, PTL DEF Spec

\* walk.rs: "a rebuild also corrects a record that had gone stale or been
\* corrupted": when rebuild_commit_graph is done, the record of every commit
\* below a ref is exact and durable, whatever records it found.
THEOREM RebuildLeavesExact == Spec => RebuildCorrects
<1> DEFINE R == Rebuilder
           Corrected == pc[R] = "flush" /\ pc'[R] = "done" =>
                           \A c \in Ancestry(tips) : durGraph[c] = Generation[c]
<1>1. GraphInv /\ RebuildInv /\ [Next]_vars => [Corrected]_vars
  <2> SUFFICES ASSUME GraphInv, RebuildInv, Next, pc[R] = "flush", pc'[R] = "done",
                      NEW c \in Ancestry(tips)
               PROVE  durGraph[c] = Generation[c]
    OBVIOUS
  <2>0. GraphTypeOK /\ StoreInv /\ R \in Actors /\ R \notin Pushes /\ R \notin Walkers
    BY Roles DEF GraphInv
  <2>1. owed[R] = 0
    <3>1. ASSUME NEW a \in Actors, a # R,
                 GetCommitInfo(a) \/ Fail(a) \/ StartWalk(a) \/ StartPush(a) \/ PromoteCommits(a)
          PROVE  FALSE
      BY <3>1, RebuildIsAlone DEF Running
    <3>2. ~GetCommitInfo(R)
      BY DEF GetCommitInfo, LookupHit, LookupMiss, Resolved, ReadHit, ReadMiss, Parse, PutRecord,
             BackfillDone, BackfillMissing
    <3>3. ~Fail(R)
      BY <2>0 DEF Fail, Leave, Goto, GraphTypeOK
    <3>4. ~WalFlush /\ ~Crash
      BY <2>0 DEF WalFlush, Crash, Running
    <3>5. ~StartRebuild /\ ~NextRoot /\ ~RootsDone
      BY DEF StartRebuild, NextRoot, RootsDone
    <3>6. ASSUME NEW w \in Walkers, StartWalk(w) PROVE FALSE
      <4>1. w \in Actors /\ w # R
        BY <2>0, Roles
      <4> QED BY <3>1, <3>6, <4>1
    <3>7. ASSUME NEW p \in Pushes, StartPush(p) \/ PromoteCommits(p) PROVE FALSE
      <4>1. p \in Actors /\ p # R
        BY <2>0, Roles
      <4> QED BY <3>1, <3>7, <4>1
    <3>8. RebuildDone
      BY <3>1, <3>2, <3>3, <3>4, <3>5, <3>6, <3>7 DEF Next, Rebuild
    <3> QED BY <3>8 DEF RebuildDone
  <2>2. Len(queue) = 0
    BY <2>1 DEF RebuildInv
  <2>3. c \in Commits
    BY DEF Ancestry
  <2>4. graph[c] = durGraph[c]
    <3>1. 1..0 = {}
      OBVIOUS
    <3> QED BY <2>0, <2>2, <2>3, <3>1 DEF StoreInv, Overlaid
  <2>5. graph[c] = Generation[c]
    <3> DEFINE A == {d \in Commits : gens[R][d] # 0}
    <3>1. tips \subseteq A
      BY <2>0 DEF RebuildInv, GraphTypeOK
    <3>2. \A d \in A : ParentSet(d) \subseteq A
      BY ParentsTyped DEF RebuildInv
    <3>3. c \in A
      BY <3>1, <3>2 DEF Ancestry
    <3> QED BY <3>3 DEF RebuildInv
  <2> QED BY <2>4, <2>5
<1>2. (Spec => []GraphInv) /\ (Spec => []RebuildInv)
  BY GraphInvariant, RebuildInvariant
<1>3. Spec => [][Corrected]_vars
  BY <1>1, <1>2, PTL DEF Spec
<1> QED BY <1>3 DEF RebuildCorrects

=============================================================================
