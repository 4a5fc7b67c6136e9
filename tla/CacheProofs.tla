----------------------------- MODULE CacheProofs -----------------------------
(***************************************************************************)
(* The part cache, for any callers, files, sizes and limits: single flight *)
(* keeps one function per key, the evictor's book stays true however       *)
(* writers, readers, the evictor and the scanner overlap, and reads        *)
(* through the cache return what the inner store would.                    *)
(***************************************************************************)
EXTENDS SingleFlight, PartCache, CachedStore, InductionLemmas, SequenceTheorems

-----------------------------------------------------------------------------
(* Single flight *)

\* The inductive part: OneFlight follows from it.
SFInv == SFTypeOK /\ GuardsMapped /\ NoLeak

\* The initial map is empty and nobody holds a cell.
LEMMA InitEstablishes == SFInit => SFInv
BY DEF SFInit, SFInv, SFTypeOK, GuardsMapped, NoLeak, Holders

\* Joining or opening a flight gives the caller the cell the map has for
\* its key, and a fresh cell is nobody else's (SingleFlight::call).
LEMMA CallPreserves ==
    ASSUME SFInv, NEW c \in Callers, NEW k \in Keys, Call(c, k)
    PROVE  SFInv'
<1> USE SingleFlightAssumption
<1>1. SFTypeOK'
  BY DEF SFInv, SFTypeOK, Call, Join, Open
<1>2. CASE Join(c, k)
  <2>1. guard' = [guard EXCEPT ![c] = inFlight[k]] /\ inFlight' = inFlight /\ inFlight[k] # NoCell
    BY <1>2 DEF Join
  <2>2. key' = [key EXCEPT ![c] = k] /\ pc' = [pc EXCEPT ![c] = "joined"] /\ pc[c] = "idle"
    BY DEF Call
  <2>3. GuardsMapped'
    BY <2>1, <2>2 DEF SFInv, SFTypeOK, GuardsMapped
  <2>4. NoLeak'
    BY <2>1, <2>2 DEF SFInv, SFTypeOK, GuardsMapped, NoLeak, Holders
  <2> QED BY <1>1, <2>3, <2>4 DEF SFInv
<1>3. CASE Open(c, k)
  <2>1. PICK x \in Cells :
          /\ Holders(x) = {} /\ x \notin InMap
          /\ inFlight' = [inFlight EXCEPT ![k] = x]
          /\ guard' = [guard EXCEPT ![c] = x]
    BY <1>3 DEF Open
  <2>2. key' = [key EXCEPT ![c] = k] /\ pc' = [pc EXCEPT ![c] = "joined"] /\ pc[c] = "idle"
        /\ inFlight[k] = NoCell
    BY <1>3 DEF Call, Open
  <2>3. x # NoCell /\ \A j \in Keys : inFlight[j] # x
    BY <2>1 DEF InMap
  <2>4. GuardsMapped'
    BY <2>1, <2>2, <2>3 DEF SFInv, SFTypeOK, GuardsMapped
  <2>5. NoLeak'
    BY <2>1, <2>2, <2>3 DEF SFInv, SFTypeOK, GuardsMapped, NoLeak, Holders
  <2> QED BY <1>1, <2>4, <2>5 DEF SFInv
<1> QED BY <1>2, <1>3 DEF Call

\* Waiting, running and being cancelled leave the map and the guards alone.
LEMMA WaitPreserves ==
    ASSUME SFInv, NEW c \in Callers,
           Await(c) \/ Succeed(c) \/ Fail(c) \/ Wake(c) \/ Cancel(c)
    PROVE  SFInv'
<1>1. /\ inFlight' = inFlight /\ key' = key /\ guard' = guard
      /\ pc[c] # "idle"
      /\ \E v \in {"waiting", "value", "error"} : pc' = [pc EXCEPT ![c] = v]
  BY DEF Await, Succeed, Fail, Wake, Cancel, Running
<1> QED BY <1>1 DEF SFInv, SFTypeOK, GuardsMapped, NoLeak, Holders

\* EntryGuard::drop removes the entry only when no other caller uses it.
LEMMA DropPreserves ==
    ASSUME SFInv, NEW c \in Callers, Drop(c)
    PROVE  SFInv'
<1> DEFINE k == key[c]
<1>1. /\ guard' = [guard EXCEPT ![c] = NoCell] /\ pc' = [pc EXCEPT ![c] = "idle"]
      /\ key' = key /\ guard[c] # NoCell /\ guard[c] = inFlight[k] /\ k \in Keys
  BY DEF SFInv, SFTypeOK, GuardsMapped, Drop
<1>2. SFTypeOK'
  BY <1>1 DEF SFInv, SFTypeOK, Drop
<1>3. CASE LastReference(c)
  <2>1. inFlight' = [inFlight EXCEPT ![k] = NoCell]
    BY <1>1, <1>3 DEF Drop
  <2>2. \A d \in Callers \ {c} : guard[d] # inFlight[k]
    BY <1>3 DEF LastReference, Holders
  <2>3. GuardsMapped'
    BY <1>1, <2>1, <2>2 DEF SFInv, SFTypeOK, GuardsMapped
  <2>4. NoLeak'
    <3> SUFFICES ASSUME NEW j \in Keys, inFlight'[j] # NoCell PROVE Holders(inFlight[j])' # {}
      BY DEF NoLeak, Holders
    <3>1. j # k /\ inFlight'[j] = inFlight[j] /\ inFlight[j] # inFlight[k]
      BY <1>1, <2>1 DEF SFInv, SFTypeOK, GuardsMapped
    <3>2. PICK d \in Callers : guard[d] = inFlight[j]
      BY <3>1 DEF SFInv, NoLeak, Holders
    <3>3. d # c /\ guard'[d] = inFlight'[j]
      BY <1>1, <3>1, <3>2 DEF SFInv, SFTypeOK
    <3> QED BY <3>3 DEF Holders
  <2> QED BY <1>2, <2>3, <2>4 DEF SFInv
<1>4. CASE ~LastReference(c)
  <2>1. inFlight' = inFlight
    BY <1>4 DEF Drop
  <2>2. PICK e \in Callers : e # c /\ guard[e] = inFlight[k]
    BY <1>4 DEF LastReference, Holders
  <2>3. GuardsMapped'
    BY <1>1, <2>1 DEF SFInv, SFTypeOK, GuardsMapped
  <2>4. NoLeak'
    <3> SUFFICES ASSUME NEW j \in Keys, inFlight'[j] # NoCell PROVE Holders(inFlight[j])' # {}
      BY DEF NoLeak, Holders
    <3>1. PICK d \in Callers : guard[d] = inFlight[j]
      BY <2>1 DEF SFInv, NoLeak, Holders
    <3>2. \E d1 \in Callers : d1 # c /\ guard[d1] = inFlight[j]
      BY <1>1, <2>2, <3>1
    <3> QED BY <1>1, <2>1, <3>2 DEF Holders, SFInv, SFTypeOK
  <2> QED BY <1>2, <2>3, <2>4 DEF SFInv
<1> QED BY <1>3, <1>4

LEMMA StepPreserves == SFInv /\ [SFNext]_sfVars => SFInv'
<1> SUFFICES ASSUME SFInv, [SFNext]_sfVars PROVE SFInv'
  OBVIOUS
<1>1. CASE UNCHANGED sfVars
  BY <1>1 DEF sfVars, SFInv, SFTypeOK, GuardsMapped, NoLeak, Holders
<1>2. CASE SFNext
  <2>1. PICK c \in Callers :
          \/ \E k \in Keys : Call(c, k)
          \/ Await(c) \/ Succeed(c) \/ Fail(c) \/ Wake(c) \/ Cancel(c) \/ Drop(c)
    BY <1>2 DEF SFNext
  <2> QED BY <2>1, CallPreserves, WaitPreserves, DropPreserves
<1> QED BY <1>1, <1>2

\* A running caller is the first in the turn of its key's only cell.
LEMMA OnlyOneRuns == SFInv => OneFlight
<1> SUFFICES ASSUME SFInv, NEW c \in Callers, NEW d \in Callers,
                    Running(c), Running(d), key[c] = key[d]
             PROVE  c = d
  BY DEF OneFlight
<1>1. guard[c] = inFlight[key[c]] /\ guard[d] = inFlight[key[d]]
  BY DEF SFInv, GuardsMapped, Running
<1> QED BY <1>1 DEF Running

\* For any number of callers, keys and cells, whatever callers fail, leave or
\* are cancelled: at most one function runs per key, every caller is on the
\* cell its key has, and the map of SingleFlight never keeps a dead entry.
THEOREM FlightsStayExclusive == SFSpec => []SingleFlightInv
<1>1. SFInv => SingleFlightInv
  BY OnlyOneRuns DEF SFInv, SingleFlightInv
<1> QED BY <1>1, InitEstablishes, StepPreserves, PTL DEF SFSpec

-----------------------------------------------------------------------------
(* The evictor's book: swap_remove *)

\* keys lists the files of D once each and index says where.
Indexed(k, ix, D) ==
    /\ k \in Seq(AllFiles) /\ ix \in [D -> Nat] /\ Len(k) = Cardinality(D)
    /\ \A f \in D : ix[f] \in 1..Len(k) /\ k[ix[f]] = f
    /\ \A i \in 1..Len(k) : k[i] \in D /\ ix[k[i]] = i

\* remove_entry keeps the two in step.
LEMMA SwapKeepsIndexed ==
    ASSUME NEW b, NEW D \in SUBSET AllFiles, IsFiniteSet(D), Indexed(b.keys, b.index, D), NEW f \in D
    PROVE  Indexed(SwapRemove(b, f).keys, SwapRemove(b, f).index, D \ {f})
<1> DEFINE k == b.keys
           ix == b.index
           i == ix[f]
           n == Len(k)
           K == IF i = n THEN k ELSE [k EXCEPT ![i] = k[n]]
           k2 == SubSeq(K, 1, n - 1)
           ix2 == [g \in DOMAIN ix \ {f} |-> IF g = k[n] THEN i ELSE ix[g]]
<1>1. /\ k \in Seq(AllFiles) /\ ix \in [D -> Nat] /\ n = Cardinality(D)
      /\ \A g \in D : ix[g] \in 1..n /\ k[ix[g]] = g
      /\ \A j \in 1..n : k[j] \in D /\ ix[k[j]] = j
  BY DEF Indexed
<1>2. SwapRemove(b, f).keys = k2 /\ SwapRemove(b, f).index = ix2
  BY DEF SwapRemove
<1> HIDE DEF k, ix
<1>3. n \in Nat /\ i \in 1..n /\ n - 1 \in Nat /\ Cardinality(D \ {f}) = n - 1
  BY <1>1, FS_RemoveElement, FS_CardinalityType
<1>4. K \in Seq(AllFiles) /\ Len(K) = n /\ \A j \in 1..(n - 1) : K[j] = IF j = i THEN k[n] ELSE k[j]
  BY <1>1, <1>3
<1> HIDE DEF K
<1>5. k2 \in Seq(AllFiles) /\ Len(k2) = n - 1 /\ \A j \in 1..(n - 1) : k2[j] = K[j]
  BY <1>3, <1>4
<1>6. \A j \in 1..(n - 1) : k2[j] = IF j = i THEN k[n] ELSE k[j]
  BY <1>4, <1>5
<1>7. /\ ix2 \in [D \ {f} -> Nat]
      /\ \A g \in D \ {f} : ix2[g] = IF g = k[n] THEN i ELSE ix[g]
  BY <1>1, <1>3
<1> HIDE DEF k2, ix2, n, i
<1>8. ASSUME NEW g \in D \ {f} PROVE ix2[g] \in 1..(n - 1) /\ k2[ix2[g]] = g
  <2>1. ix[g] \in 1..n /\ ix[g] # i /\ k[ix[g]] = g /\ k[i] = f
    BY <1>1 DEF i
  <2>2. CASE g = k[n]
    <3>1. ix[g] = n /\ i # n
      BY <1>1, <1>3, <2>1, <2>2
    <3> QED BY <1>3, <1>6, <1>7, <2>2, <3>1
  <2>3. CASE g # k[n]
    <3>1. ix[g] # n
      BY <2>1, <2>3
    <3> QED BY <1>3, <1>6, <1>7, <2>1, <2>3, <3>1
  <2> QED BY <2>2, <2>3
<1>9. ASSUME NEW j \in 1..(n - 1) PROVE k2[j] \in D \ {f} /\ ix2[k2[j]] = j
  <2>1. j \in 1..n /\ n \in 1..n /\ j # n /\ k[j] \in D /\ ix[k[j]] = j /\ k[n] \in D /\ ix[k[n]] = n
    BY <1>1, <1>3
  <2>2. CASE j = i
    <3>1. k[n] # f
      BY <2>1, <2>2 DEF i
    <3> QED BY <1>6, <1>7, <2>1, <2>2, <3>1
  <2>3. CASE j # i
    <3>1. k[j] # f /\ k[j] # k[n]
      BY <2>1, <2>3 DEF i
    <3> QED BY <1>6, <1>7, <2>1, <2>3, <3>1
  <2> QED BY <2>2, <2>3
<1> QED BY <1>2, <1>3, <1>5, <1>7, <1>8, <1>9 DEF Indexed

\* The loop that takes one file after the other off the book.
Removing(it, b, q) ==
    it = [s \in SUBSET DOMAIN q |-> IF s = {} THEN b ELSE SwapRemove(it[s \ {Max(s)}], q[Max(s)])]

LEMMA LoopExists ==
    ASSUME NEW q \in Seq(AllFiles), NEW b
    PROVE  \E it : Removing(it, b, q)
<1> DEFINE S == DOMAIN q
           Line(f, s) == IF s = {} THEN b ELSE SwapRemove(f[s \ {Max(s)}], q[Max(s)])
           Upto(n) == \E f : \A s \in SUBSET S : Cardinality(s) <= n => f[s] = Line(f, s)
           T == {n \in Nat : Upto(n)}
<1>a. S = 1..Len(q) /\ Len(q) \in Nat
  OBVIOUS
<1>b. IsFiniteSet(S)
  BY <1>a, FS_Interval
<1> HIDE DEF S
<1>0. \A s \in SUBSET S : /\ IsFiniteSet(s) /\ Cardinality(s) \in Nat /\ Cardinality(s) <= Cardinality(S)
                          /\ (Cardinality(s) = 0 <=> s = {})
  BY <1>b, FS_Subset, FS_CardinalityType, FS_EmptySet
<1>c. \A s \in SUBSET S : s # {} => Cardinality(s \ {Max(s)}) = Cardinality(s) - 1
  <2> SUFFICES ASSUME NEW s \in SUBSET S, s # {} PROVE Cardinality(s \ {Max(s)}) = Cardinality(s) - 1
    OBVIOUS
  <2>1. IsFiniteSet(s) /\ s \in SUBSET Nat
    BY <1>0, <1>a
  <2>2. Max(s) \in s
    BY <2>1, MaxNat
  <2> QED BY <2>1, <2>2, FS_RemoveElement
<1>1. Upto(0)
  <2> DEFINE f == [s \in SUBSET S |-> b]
  <2>1. \A s \in SUBSET S : Cardinality(s) <= 0 => s = {} /\ f[s] = b
    BY <1>0
  <2>2. \A s \in SUBSET S : Cardinality(s) <= 0 => f[s] = Line(f, s)
    BY <2>1
  <2> HIDE DEF f, Line
  <2> QED BY <2>2
<1>2. ASSUME NEW n \in Nat, Upto(n) PROVE Upto(n + 1)
  <2>1. PICK f : \A s \in SUBSET S : Cardinality(s) <= n => f[s] = Line(f, s)
    <3> HIDE DEF Line
    <3> QED BY <1>2
  <2> DEFINE h == [s \in SUBSET S |-> Line(f, s)]
  <2>2. ASSUME NEW s \in SUBSET S, Cardinality(s) <= n + 1 PROVE h[s] = Line(h, s)
    <3>1. h[s] = Line(f, s)
      <4> HIDE DEF Line
      <4> QED OBVIOUS
    <3>2. CASE s = {}
      BY <3>1, <3>2
    <3>3. CASE s # {}
      <4> DEFINE t == s \ {Max(s)}
      <4>1. t \in SUBSET S /\ Cardinality(t) <= n
        BY <1>0, <1>c, <2>2, <3>3
      <4>2. h[t] = Line(f, t) /\ f[t] = Line(f, t)
        <5> HIDE DEF Line, t
        <5> QED BY <2>1, <4>1
      <4> HIDE DEF h
      <4> QED BY <3>1, <3>3, <4>2
    <3> QED BY <3>2, <3>3
  <2> HIDE DEF h, Line
  <2> QED BY <2>2
<1>3. T = Nat
  <2>1. 0 \in T /\ \A n \in T : n + 1 \in T
    <3> HIDE DEF Upto
    <3> QED BY <1>1, <1>2
  <2> HIDE DEF T
  <2> QED BY <2>1, Induction DEF T
<1>4. Upto(Cardinality(S))
  <2>1. Cardinality(S) \in Nat
    BY <1>0
  <2> HIDE DEF Upto
  <2> QED BY <1>3, <2>1
<1>5. PICK f : \A s \in SUBSET S : f[s] = Line(f, s)
  <2> HIDE DEF Line
  <2> QED BY <1>0, <1>4
<1> DEFINE h == [s \in SUBSET S |-> f[s]]
<1>6. h = [s \in SUBSET S |-> Line(h, s)]
  <2>1. ASSUME NEW s \in SUBSET S PROVE h[s] = Line(h, s)
    <3>1. h[s] = Line(f, s)
      <4> HIDE DEF Line
      <4> QED BY <1>5
    <3>2. s \ {Max(s)} \in SUBSET S /\ h[s \ {Max(s)}] = f[s \ {Max(s)}]
      OBVIOUS
    <3> HIDE DEF h
    <3> QED BY <3>1, <3>2
  <2>2. h = [s \in SUBSET S |-> h[s]]
    OBVIOUS
  <2> HIDE DEF h, Line
  <2> QED BY <2>1, <2>2
<1> HIDE DEF h
<1> QED BY <1>6 DEF Removing, S

\* remove_entries: the book without the files of S.
LEMMA RemovalKeepsIndexed ==
    ASSUME NEW k, NEW ix, NEW D \in SUBSET AllFiles, IsFiniteSet(D), Indexed(k, ix, D), NEW S \in SUBSET D,
           NEW b, b = FoldLeft(SwapRemove, [keys |-> k, index |-> ix], SetToSeq(S))
    PROVE  Indexed(b.keys, b.index, D \ S)
<1> DEFINE q == SetToSeq(S)
           base == [keys |-> k, index |-> ix]
           n == Len(q)
<1>1. IsFiniteSet(S) /\ q \in Seq(S) /\ IsInjective(q) /\ ToSet(q) = S /\ q \in Seq(AllFiles)
  <2>1. IsFiniteSet(S)
    BY FS_Subset
  <2>2. q \in Seq(S) /\ IsInjective(q) /\ ToSet(q) = S
    BY <2>1, ListedSet
  <2> QED BY <2>1, <2>2, SeqMonotonic
<1>2. b = FoldLeft(SwapRemove, base, q)
  OBVIOUS
<1> HIDE DEF q, base
<1> DEFINE Line(f, s) == IF s = {} THEN base ELSE SwapRemove(f[s \ {Max(s)}], q[Max(s)])
           it[s \in SUBSET DOMAIN q] == IF s = {} THEN base ELSE SwapRemove(it[s \ {Max(s)}], q[Max(s)])
<1>3. \E f : f = [s \in SUBSET DOMAIN q |-> Line(f, s)]
  <2>1. \E f : Removing(f, base, q)
    BY <1>1, LoopExists
  <2> QED BY <2>1 DEF Removing
<1>4. it = [s \in SUBSET DOMAIN q |-> Line(it, s)]
  BY <1>3
<1>5. b = it[DOMAIN q]
  BY <1>2 DEF FoldLeft, MapThenFoldSet
<1> HIDE DEF it
<1>6. \A s \in SUBSET DOMAIN q : it[s] = IF s = {} THEN base ELSE SwapRemove(it[s \ {Max(s)}], q[Max(s)])
  <2>1. \A s \in SUBSET DOMAIN q : it[s] = Line(it, s)
    <3> HIDE DEF Line
    <3> QED BY <1>4
  <2> QED BY <2>1
<1>7. DOMAIN q = 1..n /\ n \in Nat
  BY <1>1
<1> DEFINE Rest(m) == D \ {q[j] : j \in 1..m}
           Good(m) == m <= n => Indexed(it[1..m].keys, it[1..m].index, Rest(m))
           T == {m \in Nat : Good(m)}
<1>8. Good(0)
  <2>0. 1..0 = {}
    OBVIOUS
  <2>1. 1..0 \in SUBSET DOMAIN q /\ Rest(0) = D
    BY <2>0
  <2>2. it[1..0] = base
    BY <1>6, <2>0, <2>1
  <2>3. base.keys = k /\ base.index = ix
    BY DEF base
  <2> HIDE DEF Rest
  <2> QED BY <2>1, <2>2, <2>3
<1>9. ASSUME NEW m \in Nat, Good(m) PROVE Good(m + 1)
  <2> SUFFICES ASSUME m + 1 <= n PROVE Indexed(it[1..(m + 1)].keys, it[1..(m + 1)].index, Rest(m + 1))
    OBVIOUS
  <2> DEFINE s == 1..(m + 1)
  <2>1. s \in SUBSET DOMAIN q /\ s # {} /\ s \ {m + 1} = 1..m /\ s \in SUBSET Nat /\ m + 1 \in s
    <3>1. m + 1 \in s /\ s \ {m + 1} = 1..m /\ s \in SUBSET Nat
      OBVIOUS
    <3>2. \A j \in s : j \in 1..n
      BY <1>7
    <3> QED BY <1>7, <3>1, <3>2
  <2>2. IsFiniteSet(s)
    BY FS_Interval
  <2>3. Max(s) = m + 1
    <3>1. Max(s) \in s /\ \A y \in s : Max(s) >= y
      BY <2>1, <2>2, MaxNat
    <3> QED BY <3>1
  <2>4. it[s] = SwapRemove(it[1..m], q[m + 1])
    <3> HIDE DEF s
    <3> QED BY <1>6, <2>1, <2>3
  <2>5. Indexed(it[1..m].keys, it[1..m].index, Rest(m))
    <3>1. m <= n
      BY <1>7
    <3> HIDE DEF Rest
    <3> QED BY <1>9, <3>1
  <2>6. q[m + 1] \in Rest(m)
    <3>1. m + 1 \in DOMAIN q /\ q[m + 1] \in D
      BY <1>1, <1>7
    <3>2. \A j \in 1..m : j \in DOMAIN q /\ q[j] # q[m + 1]
      BY <1>1, <1>7 DEF IsInjective
    <3> QED BY <3>1, <3>2
  <2>7. Rest(m) \in SUBSET AllFiles /\ Rest(m + 1) = Rest(m) \ {q[m + 1]}
    <3>1. 1..(m + 1) = (1..m) \cup {m + 1}
      OBVIOUS
    <3>2. {q[j] : j \in 1..(m + 1)} = {q[j] : j \in 1..m} \cup {q[m + 1]}
      BY <3>1
    <3> QED BY <3>2
  <2>8. IsFiniteSet(Rest(m))
    BY FS_Subset
  <2> HIDE DEF Rest
  <2>9. Indexed(SwapRemove(it[1..m], q[m + 1]).keys, SwapRemove(it[1..m], q[m + 1]).index, Rest(m) \ {q[m + 1]})
    BY <2>5, <2>6, <2>7, <2>8, SwapKeepsIndexed
  <2> QED BY <2>4, <2>7, <2>9
<1>10. T = Nat
  <2>1. 0 \in T /\ \A m \in T : m + 1 \in T
    <3> HIDE DEF Good
    <3> QED BY <1>8, <1>9
  <2> HIDE DEF T
  <2> QED BY <2>1, Induction DEF T
<1>11. Good(n)
  <2> HIDE DEF Good
  <2> QED BY <1>7, <1>10
<1>12. Rest(n) = D \ S
  BY <1>1, <1>7 DEF ToSet
<1>13. Indexed(it[1..n].keys, it[1..n].index, Rest(n))
  <2> HIDE DEF Rest
  <2> QED BY <1>7, <1>11
<1> HIDE DEF Rest
<1> QED BY <1>5, <1>7, <1>12, <1>13

-----------------------------------------------------------------------------
(* The evictor: the inductive invariant *)

FileJobs == [path : AllFiles, access : {"write", "read", "scan"}, size : Nat]
Jobs     == FileJobs \cup [path : Dirs, access : {"delete"}, size : {0}]
Tasks    == [does : {"idle", "track", "pick", "remove", "invalidate", "forget", "delete", "drop", "untrack"},
             work : Jobs \cup {<<>>}, later : SUBSET AllFiles,
             targets : Seq(AllFiles), deleted : SUBSET AllFiles, failed : BOOLEAN]

\* The folder, the open handles, the calls under way and the queue.
Inodes     == AllFiles \cup {NoFile}
WriteCalls == [path : Files, at : {"begun", "tmp", "renamed", "lost", "done"}]
ReadCalls  == [path : Files \cup {NoFile}, at : {"idle", "open", "push", "got"}, inode : Inodes, seen : SUBSET Inodes]

WritesOK == DOMAIN writes \in SUBSET TmpFiles /\ writes \in [DOMAIN writes -> WriteCalls]

ReadsOK ==
    /\ reading \in [PartReaders -> ReadCalls]
    /\ \A r \in PartReaders : reading[r].at # "idle" => reading[r].path \in Files

FolderInv ==
    /\ disk \in [AllFiles -> Inodes] /\ handle \in [Files -> Inodes] /\ WritesOK /\ ReadsOK
    /\ started \in BOOLEAN /\ scanned \in BOOLEAN /\ load \in DOMAIN CacheLoads
    /\ queue \in Seq(Jobs) /\ Len(queue) <= QueueCap
    /\ scan \in SUBSET AllFiles

BookInv ==
    /\ Booked \in SUBSET AllFiles /\ size \in [Booked -> Nat]
    /\ Indexed(keys, index, Booked)
    /\ lru \in SUBSET (Booked \X Booked)
    /\ \A f, g \in Booked : f # g => (<<f, g>> \in lru <=> <<g, f>> \notin lru)
    /\ bytes = Total(size, Booked)

\* track_lock is held by the task that evicts.
TaskInv ==
    /\ agent \in [Agents -> Tasks] /\ lock \in Agents \cup {"free"}
    /\ \A a \in Agents :
          /\ agent[a].does = "track" => agent[a].work \in FileJobs /\ agent[a].targets = <<>>
          /\ agent[a].does \in {"track", "pick"} => agent[a].deleted = {} /\ ~agent[a].failed
          /\ agent[a].does \in {"pick", "remove", "invalidate"} <=> lock = a
          /\ agent[a].does \in {"invalidate", "drop"} => agent[a].targets # <<>>
          /\ agent[a].does = "invalidate" => Head(agent[a].targets) \in agent[a].deleted

\* With the files of P gone the booked size is down.
Enough(P) == bytes - Total(size, P) <= TargetBytes \/ Cardinality(Booked \ P) < 2

\* While it holds the lock, what it picked or removed is booked, and without
\* failures it will be enough.
EvictInv ==
    \A a \in Agents : lock = a =>
        /\ Picked(a) \cup agent[a].deleted \subseteq Booked
        /\ agent[a].does \in {"remove", "invalidate"} /\ ~agent[a].failed => Enough(Picked(a) \cup agent[a].deleted)

\* The entry whose write made the evictor evict is older only than those the
\* scanner booked meanwhile, and is picked only against one of them.
NewInv ==
    lock = "evictor" =>
        LET e == agent["evictor"]
            p == e.work.path
        IN  /\ p \in Booked
            /\ \A g \in Booked \ {p} : <<p, g>> \in lru => g \in e.later
            /\ p \in Picked("evictor") => \E g \in e.later : <<p, g>> \in lru

CacheInv == FolderInv /\ BookInv /\ TaskInv /\ EvictInv /\ NewInv

LEMMA FiniteBook == ASSUME BookInv PROVE IsFiniteSet(Booked) /\ \A f \in Booked : size[f] \in Nat
  BY PartCacheAssumption, FS_Subset DEF BookInv

LEMMA FreshTask ==
    /\ Idle \in Tasks /\ Idle.does = "idle" /\ Idle.later = {} /\ Idle.targets = <<>>
    /\ Idle.deleted = {} /\ ~Idle.failed
<1>1. <<>> \in Seq(AllFiles)
  OBVIOUS
<1> QED BY <1>1 DEF Idle, Tasks

\* What the tasks rely on does not change when book, lock and tasks do not.
LEMMA BookFrame ==
    ASSUME CacheInv, UNCHANGED book, FolderInv', UNCHANGED <<lock, agent>>
    PROVE  CacheInv'
<1>1. UNCHANGED <<size, index, keys, lru, bytes>> /\ Booked' = Booked
  BY DEF book, Booked
<1>2. BookInv' /\ TaskInv'
  BY <1>1 DEF CacheInv, BookInv, TaskInv
<1>3. EvictInv' /\ NewInv'
  BY <1>1 DEF CacheInv, EvictInv, NewInv, Picked, Enough
<1> QED BY <1>2, <1>3 DEF CacheInv

LEMMA CacheInit == PCInit => CacheInv
<1> SUFFICES ASSUME PCInit PROVE CacheInv
  OBVIOUS
<1> USE DEF PCInit
<1>1. Booked = {} /\ Empty = [f \in {} |-> 0]
  BY DEF Booked, Empty
<1>2. FolderInv
  <2>1. PICK found \in CacheLoads[load].found : disk = [f \in AllFiles |-> IF f \in found THEN f ELSE NoFile]
    OBVIOUS
  <2>2. disk \in [AllFiles -> Inodes] /\ handle \in [Files -> Inodes]
    BY <2>1 DEF Inodes
  <2>3. queue \in Seq(Jobs) /\ Len(queue) <= QueueCap
    BY PartCacheAssumption
  <2>4. WritesOK /\ ReadsOK
    BY DEF WritesOK, ReadsOK, Empty, NoRead, ReadCalls, Inodes
  <2> QED BY <2>2, <2>3, <2>4 DEF FolderInv
<1>3. BookInv
  <2>1. Total(size, {}) = 0
    BY FS_EmptySet, TotalFacts
  <2>2. Indexed(keys, index, Booked)
    BY <1>1, FS_EmptySet DEF Indexed
  <2> QED BY <1>1, <2>1, <2>2 DEF BookInv
<1>4. TaskInv
  BY FreshTask DEF TaskInv, Agents
<1> QED BY <1>2, <1>3, <1>4 DEF CacheInv, EvictInv, NewInv, Agents

-----------------------------------------------------------------------------
(* Writers, readers and deletes *)

\* What is reported is a job, and the queue keeps its bound.
LEMMA ReportKeeps ==
    ASSUME FolderInv, NEW w \in Jobs, Report(w)
    PROVE  queue' \in Seq(Jobs) /\ Len(queue') <= QueueCap
<1>1. queue \in Seq(Jobs) /\ Len(queue) <= QueueCap /\ QueueCap \in Nat
  BY PartCacheAssumption DEF FolderInv
<1>2. CASE started
  BY <1>1, <1>2 DEF Report
<1>3. CASE ~started
  BY <1>1, <1>3 DEF Report
<1> QED BY <1>2, <1>3

\* The states of a write.
LEMMA WriteAtKeeps ==
    ASSUME WritesOK, NEW t \in DOMAIN writes, NEW s \in {"begun", "tmp", "renamed", "lost", "done"}, WriteAt(t, s)
    PROVE  /\ WritesOK' /\ DOMAIN writes' = DOMAIN writes /\ writes'[t].at = s
           /\ writes'[t].path = writes[t].path /\ \A u \in DOMAIN writes : u # t => writes'[u] = writes[u]
<1>1. writes[t] \in WriteCalls /\ writes' = [writes EXCEPT ![t] = [writes[t] EXCEPT !.at = s]]
  BY DEF WritesOK, WriteAt
<1>2. [writes[t] EXCEPT !.at = s] \in WriteCalls /\ [writes[t] EXCEPT !.at = s].at = s
      /\ [writes[t] EXCEPT !.at = s].path = writes[t].path
  BY <1>1 DEF WriteCalls
<1> DEFINE w == [writes[t] EXCEPT !.at = s]
<1>3. DOMAIN writes' = DOMAIN writes /\ writes'[t] = w /\ \A u \in DOMAIN writes : u # t => writes'[u] = writes[u]
  BY <1>1 DEF WritesOK
<1>4. w \in WriteCalls /\ w.at = s /\ w.path = writes[t].path
  BY <1>2
<1> HIDE DEF w
<1>5. writes' \in [DOMAIN writes -> WriteCalls]
  BY <1>1, <1>3, <1>4 DEF WritesOK, w
<1> QED BY <1>3, <1>4, <1>5 DEF WritesOK

LEMMA WritingKeeps == ASSUME CacheInv, NEW t \in DOMAIN writes, Writing(t) PROVE CacheInv'
<1>0. FolderInv /\ WritesOK /\ t \in AllFiles /\ t \in Inodes /\ NoFile \in Inodes
      /\ writes[t].path \in Files /\ writes[t].path \in AllFiles
  BY DEF CacheInv, FolderInv, WritesOK, WriteCalls, AllFiles, Inodes
<1>1. UNCHANGED book /\ UNCHANGED <<lock, agent>> /\ UNCHANGED <<started, queue, scan, scanned, load>>
  BY DEF Writing, CreateTmp, Rename, WriteFails, DropCaller, EndWrite, tasks, counts
<1>2. PICK s \in {"begun", "tmp", "renamed", "lost", "done"} : WriteAt(t, s)
  BY DEF Writing, CreateTmp, Rename, WriteFails, DropCaller, EndWrite
<1>3. WritesOK'
  BY <1>0, <1>2, WriteAtKeeps
<1>4. ReadsOK'
  <2>1. CASE UNCHANGED reading
    BY <1>0, <2>1 DEF FolderInv, ReadsOK
  <2>2. CASE Rename(t)
    <3> DEFINE p == writes[t].path
               i == disk[t]
    <3>1. /\ i \in Inodes
          /\ reading' = [r \in PartReaders |->
                IF reading[r].path = p THEN [reading[r] EXCEPT !.seen = @ \cup {i}] ELSE reading[r]]
      BY <1>0, <2>2 DEF Rename, Observe, FolderInv
    <3> HIDE DEF p, i
    <3>2. ASSUME NEW r \in PartReaders
          PROVE  reading'[r] \in ReadCalls /\ reading'[r].at = reading[r].at /\ reading'[r].path = reading[r].path
      <4>1. reading[r] \in ReadCalls
        BY <1>0 DEF FolderInv, ReadsOK
      <4>2. CASE reading[r].path = p
        <5>1. reading'[r] = [reading[r] EXCEPT !.seen = reading[r].seen \cup {i}]
          BY <3>1, <4>2
        <5>2. reading[r].seen \cup {i} \in SUBSET Inodes
          BY <3>1, <4>1 DEF ReadCalls
        <5> QED BY <4>1, <5>1, <5>2 DEF ReadCalls
      <4>3. CASE reading[r].path # p
        BY <3>1, <4>1, <4>3
      <4> QED BY <4>2, <4>3
    <3>3. reading' \in [PartReaders -> ReadCalls]
      BY <3>1, <3>2
    <3> QED BY <1>0, <3>2, <3>3 DEF FolderInv, ReadsOK
  <2> QED BY <2>1, <2>2 DEF Writing, CreateTmp, WriteFails, DropCaller, EndWrite
<1>5. disk' \in [AllFiles -> Inodes] /\ handle' \in [Files -> Inodes]
  <2>1. CASE UNCHANGED disk
    BY <1>0, <2>1 DEF FolderInv, Writing, CreateTmp, Rename, WriteFails, DropCaller, EndWrite, Invalidate
  <2>2. CASE CreateTmp(t) \/ Rename(t)
    BY <1>0, <2>2 DEF FolderInv, CreateTmp, Rename
  <2> QED BY <2>1, <2>2 DEF Writing, WriteFails, DropCaller, EndWrite
<1>6. FolderInv'
  BY <1>0, <1>1, <1>3, <1>4, <1>5 DEF FolderInv
<1> QED BY <1>1, <1>6, BookFrame

LEMMA CallsKeep ==
    ASSUME CacheInv, NEW f \in CacheLoads[load].files, BeginWrite(f) \/ \E r \in PartReaders : BeginRead(r, f)
    PROVE  CacheInv'
<1>0. FolderInv /\ f \in Files /\ f \in AllFiles /\ SizeOf[f] \in Nat /\ NoFile \in Inodes
  <2>1. FolderInv
    BY DEF CacheInv
  <2>2. CacheLoads[load].files \subseteq Files
    BY <2>1, PartCacheAssumption DEF FolderInv
  <2> QED BY <2>1, <2>2, PartCacheAssumption DEF AllFiles, Inodes
<1>1. CASE BeginWrite(f)
  <2>1. Work(f, "write", SizeOf[f]) \in Jobs
    BY <1>0 DEF Work, Jobs, FileJobs
  <2>2. queue' \in Seq(Jobs) /\ Len(queue') <= QueueCap
    BY <1>0, <1>1, <2>1, ReportKeeps DEF BeginWrite
  <2>3. PICK new \in TmpFiles :
            writes' = [t \in DOMAIN writes \cup {new} |->
                         IF t = new THEN [path |-> f, at |-> "begun"] ELSE writes[t]]
    <3>1. \E t \in TmpFiles : t \notin DOMAIN writes
      BY <1>1 DEF BeginWrite
    <3>2. (CHOOSE t \in TmpFiles : t \notin DOMAIN writes) \in TmpFiles
      BY <3>1
    <3> QED BY <1>1, <3>2 DEF BeginWrite
  <2>4. WritesOK'
    <3>1. [path |-> f, at |-> "begun"] \in WriteCalls
      BY <1>0 DEF WriteCalls
    <3> QED BY <1>0, <2>3, <3>1 DEF FolderInv, WritesOK
  <2>5. FolderInv'
    BY <1>0, <1>1, <2>2, <2>4 DEF BeginWrite, tasks, FolderInv, ReadsOK
  <2> QED BY <1>1, <2>5, BookFrame DEF BeginWrite, tasks
<1>2. ASSUME NEW r \in PartReaders, BeginRead(r, f) PROVE CacheInv'
  <2>1. disk[f] \in Inodes /\ handle[f] \in Inodes
    BY <1>0 DEF FolderInv
  <2>2. PICK s \in {"open", "got"}, i \in Inodes :
            reading' = [reading EXCEPT ![r] = [path |-> f, at |-> s, inode |-> i, seen |-> {disk[f]}]]
    BY <1>0, <1>2, <2>1 DEF BeginRead
  <2>3. ReadsOK'
    <3>1. [path |-> f, at |-> s, inode |-> i, seen |-> {disk[f]}] \in ReadCalls
      BY <1>0, <2>1 DEF ReadCalls
    <3> QED BY <1>0, <2>2, <3>1 DEF FolderInv, ReadsOK
  <2>4. handle' \in [Files -> Inodes]
    BY <1>0, <1>2 DEF BeginRead, FolderInv
  <2>5. FolderInv'
    BY <1>0, <1>2, <2>3, <2>4 DEF BeginRead, tasks, FolderInv, WritesOK
  <2> QED BY <1>2, <2>5, BookFrame DEF BeginRead, tasks
<1> QED BY <1>1, <1>2

LEMMA ReadingKeeps ==
    ASSUME CacheInv, NEW r \in PartReaders, OpenFile(r) \/ PushHandle(r) \/ FinishRead(r)
    PROVE  CacheInv'
<1>0. FolderInv /\ reading[r] \in ReadCalls /\ NoRead \in ReadCalls /\ NoFile \in Inodes
  BY DEF CacheInv, FolderInv, ReadsOK, NoRead, ReadCalls, Inodes
<1>1. reading[r].path \in Files /\ reading[r].path \in AllFiles /\ PartBytes \in Nat
      /\ ReportedSize(reading[r].path) \in Nat
  BY <1>0, PartCacheAssumption
     DEF FolderInv, ReadsOK, OpenFile, PushHandle, FinishRead, AllFiles, ReportedSize
<1>2. CASE OpenFile(r)
  <2>1. WritesOK'
    <3>1. CASE UNCHANGED writes
      BY <1>0, <3>1 DEF FolderInv, WritesOK
    <3>2. CASE writes' = [t \in DOMAIN writes |->
                            IF writes[t].path = reading[r].path /\ writes[t].at = "lost"
                            THEN [writes[t] EXCEPT !.at = "done"] ELSE writes[t]]
      <4>1. \A t \in DOMAIN writes : writes[t] \in WriteCalls /\ [writes[t] EXCEPT !.at = "done"] \in WriteCalls
        BY <1>0 DEF FolderInv, WritesOK, WriteCalls
      <4> QED BY <1>0, <3>2, <4>1 DEF FolderInv, WritesOK
    <3> QED BY <1>2, <3>1, <3>2 DEF OpenFile
  <2>2. ReadsOK'
    <3>1. PICK job \in ReadCalls : reading' = [reading EXCEPT ![r] = job] /\ (job.at # "idle" => job.path \in Files)
      <4>1. CASE reading' = [reading EXCEPT ![r] = NoRead]
        BY <1>0, <4>1 DEF NoRead
      <4>2. CASE reading' = [reading EXCEPT ![r].at = "push", ![r].inode = disk[reading[r].path]]
        <5> DEFINE i == disk[reading[r].path]
                   job == [reading[r] EXCEPT !.at = "push", !.inode = i]
        <5>1. i \in Inodes
          BY <1>0, <1>1 DEF FolderInv
        <5> HIDE DEF i
        <5>2. job \in ReadCalls /\ job.path = reading[r].path
          BY <1>0, <5>1 DEF ReadCalls
        <5>3. reading' = [reading EXCEPT ![r] = job]
          BY <1>0, <4>2 DEF FolderInv, ReadsOK, i
        <5> QED BY <1>1, <5>2, <5>3
      <4> QED BY <1>2, <4>1, <4>2 DEF OpenFile
    <3> QED BY <1>0, <3>1 DEF FolderInv, ReadsOK
  <2>3. FolderInv'
    BY <1>0, <1>2, <2>1, <2>2 DEF OpenFile, tasks, counts, FolderInv
  <2> QED BY <1>2, <2>3, BookFrame DEF OpenFile, tasks
<1>3. CASE PushHandle(r)
  <2>1. handle' \in [Files -> Inodes]
    <3>1. reading[r].inode \in Inodes
      BY <1>0 DEF ReadCalls
    <3>2. PICK out : handle' = [f \in Files |-> IF f = reading[r].path THEN reading[r].inode
                                                ELSE IF f \in out THEN NoFile ELSE handle[f]]
      BY <1>3 DEF PushHandle
    <3> QED BY <1>0, <3>1, <3>2 DEF FolderInv
  <2>2. ReadsOK'
    <3> DEFINE job == [reading[r] EXCEPT !.at = "got"]
    <3>1. job \in ReadCalls /\ job.path = reading[r].path
      BY <1>0 DEF ReadCalls
    <3>2. reading' = [reading EXCEPT ![r] = job]
      BY <1>0, <1>3 DEF PushHandle, FolderInv, ReadsOK
    <3> HIDE DEF job
    <3> QED BY <1>0, <1>1, <3>1, <3>2 DEF FolderInv, ReadsOK
  <2>3. FolderInv'
    BY <1>0, <1>3, <2>1, <2>2 DEF PushHandle, tasks, counts, FolderInv, WritesOK
  <2> QED BY <1>3, <2>3, BookFrame DEF PushHandle, tasks
<1>4. CASE FinishRead(r)
  <2>1. Work(reading[r].path, "read", ReportedSize(reading[r].path)) \in Jobs
    BY <1>1 DEF Work, Jobs, FileJobs
  <2>2. queue' \in Seq(Jobs) /\ Len(queue') <= QueueCap
    <3>1. CASE Report(Work(reading[r].path, "read", ReportedSize(reading[r].path)))
      BY <1>0, <2>1, <3>1, ReportKeeps
    <3>2. CASE UNCHANGED queue
      BY <1>0, <3>2 DEF FolderInv
    <3> QED BY <1>4, <3>1, <3>2 DEF FinishRead
  <2>3. ReadsOK'
    BY <1>0, <1>4 DEF FinishRead, FolderInv, ReadsOK, NoRead
  <2>4. FolderInv'
    BY <1>0, <1>4, <2>2, <2>3 DEF FinishRead, tasks, counts, FolderInv, WritesOK
  <2> QED BY <1>4, <2>4, BookFrame DEF FinishRead, tasks
<1> QED BY <1>2, <1>3, <1>4

LEMMA DeleteKeeps == ASSUME CacheInv, NEW d \in Dirs, Delete(d) PROVE CacheInv'
<1>1. [path |-> d, access |-> "delete", size |-> 0] \in Jobs
  BY DEF Jobs
<1>2. queue' \in Seq(Jobs) /\ Len(queue') <= QueueCap
  BY <1>1, ReportKeeps DEF Delete, CacheInv
<1>3. FolderInv'
  BY <1>2 DEF CacheInv, Delete, folder, tasks, FolderInv, WritesOK, ReadsOK
<1> QED BY <1>3, BookFrame DEF Delete, tasks

-----------------------------------------------------------------------------
(* The book *)

LEMMA EmptyList == ToSet(<<>>) = {}
<1>1. DOMAIN <<>> = {}
  OBVIOUS
<1>2. {<<>>[i] : i \in DOMAIN <<>>} = {}
  BY <1>1
<1> QED BY <1>2 DEF ToSet

\* The files of a list, and of its rest.
LEMMA TailSet ==
    ASSUME NEW t \in Seq(AllFiles), t # <<>>
    PROVE  /\ Tail(t) \in Seq(AllFiles) /\ Head(t) \in AllFiles /\ ToSet(t) = {Head(t)} \cup ToSet(Tail(t))
<1>1. Len(t) \in Nat \ {0} /\ DOMAIN t = 1..Len(t) /\ Tail(t) \in Seq(AllFiles)
      /\ DOMAIN Tail(t) = 1..(Len(t) - 1) /\ \A i \in 1..(Len(t) - 1) : Tail(t)[i] = t[i + 1]
  OBVIOUS
<1>2. Head(t) = t[1] /\ 1 \in DOMAIN t /\ t[1] \in AllFiles
  BY <1>1
<1>3. ASSUME NEW x \in ToSet(t) PROVE x \in {Head(t)} \cup ToSet(Tail(t))
  <2>1. PICK i \in DOMAIN t : t[i] = x
    BY DEF ToSet
  <2>2. CASE i = 1
    BY <1>2, <2>1, <2>2
  <2>3. CASE i # 1
    <3>1. i - 1 \in DOMAIN Tail(t) /\ Tail(t)[i - 1] = t[i]
      BY <1>1, <2>3
    <3> QED BY <2>1, <3>1 DEF ToSet
  <2> QED BY <2>2, <2>3
<1>4. ASSUME NEW x \in ToSet(Tail(t)) PROVE x \in ToSet(t)
  <2>1. PICK i \in DOMAIN Tail(t) : Tail(t)[i] = x
    BY DEF ToSet
  <2>2. i + 1 \in DOMAIN t /\ t[i + 1] = x
    BY <1>1, <2>1
  <2> QED BY <2>2 DEF ToSet
<1>5. Head(t) \in ToSet(t)
  BY <1>2 DEF ToSet
<1> QED BY <1>1, <1>2, <1>3, <1>4, <1>5

LEMMA AppendSet ==
    ASSUME NEW t \in Seq(AllFiles), NEW x \in AllFiles
    PROVE  Append(t, x) \in Seq(AllFiles) /\ ToSet(Append(t, x)) = ToSet(t) \cup {x}
<1>1. /\ Append(t, x) \in Seq(AllFiles) /\ DOMAIN Append(t, x) = DOMAIN t \cup {Len(t) + 1}
      /\ Append(t, x)[Len(t) + 1] = x /\ \A i \in DOMAIN t : Append(t, x)[i] = t[i]
  OBVIOUS
<1> HIDE DEF ToSet
<1>2. ToSet(Append(t, x)) \subseteq ToSet(t) \cup {x}
  BY <1>1 DEF ToSet
<1>3. ToSet(t) \cup {x} \subseteq ToSet(Append(t, x))
  BY <1>1 DEF ToSet
<1> QED BY <1>1, <1>2, <1>3

\* CacheState::remove_entries: the rest stays indexed, and the total drops by
\* what the removed files were booked with.
LEMMA RemoveAllKeeps ==
    ASSUME BookInv, NEW s, RemoveAll(s)
    PROVE  BookInv' /\ Booked' = Booked \ s /\ bytes' = bytes - Total(size, s \cap Booked)
<1> DEFINE S == s \cap Booked
           b == FoldLeft(SwapRemove, [keys |-> keys, index |-> index], SetToSeq(S))
<1>0. IsFiniteSet(Booked) /\ (\A f \in Booked : size[f] \in Nat) /\ Booked \in SUBSET AllFiles
  BY FiniteBook DEF BookInv
<1>1. /\ keys' = b.keys /\ index' = b.index /\ size' = [f \in DOMAIN b.index |-> size[f]]
      /\ lru' = Without(s) /\ bytes' = bytes - Total(size, ToSet(SetToSeq(S)))
  BY DEF RemoveAll, Total
<1>2. S \in SUBSET Booked /\ Booked \ S = Booked \ s /\ IsFiniteSet(S)
  BY <1>0, FS_Subset
<1>3. ToSet(SetToSeq(S)) = S
  BY <1>2, ListedSet
<1> HIDE DEF S
<1>4. Indexed(b.keys, b.index, Booked \ S)
  <2>1. Indexed(keys, index, Booked)
    BY DEF BookInv
  <2>2. \A v : v = b => Indexed(v.keys, v.index, Booked \ S)
    BY <1>0, <1>2, <2>1, RemovalKeepsIndexed
  <2> HIDE DEF b
  <2> QED BY <2>2
<1> HIDE DEF b
<1>5. DOMAIN b.index = Booked \ s
  BY <1>2, <1>4 DEF Indexed
<1>6. Booked' = Booked \ s /\ size' = [f \in Booked \ s |-> size[f]]
  BY <1>1, <1>5 DEF Booked
<1>7. Indexed(keys, index, Booked)'
  BY <1>1, <1>2, <1>4, <1>6 DEF Indexed
<1>8. bytes' = Total(size', Booked')
  <2>1. Total(size, Booked) = Total(size, S) + Total(size, Booked \ S)
    BY <1>0, <1>2, TotalSplit
  <2>2. IsFiniteSet(Booked \ S) /\ (\A x \in Booked \ S : size[x] \in Nat) /\ IsFiniteSet(S)
        /\ (\A x \in S : size[x] \in Nat)
    BY <1>0, <1>2, FS_Subset
  <2>3. Total(size', Booked \ S) = Total(size, Booked \ S) /\ Total(size, Booked \ S) \in Nat
    <3>1. \A x \in Booked \ S : size'[x] = size[x]
      BY <1>2, <1>6
    <3> QED BY <2>2, <3>1, TotalFacts
  <2>4. Total(size, S) \in Nat
    BY <2>2, TotalFacts
  <2>5. bytes' = Total(size, Booked) - Total(size, S)
    BY <1>1, <1>3 DEF BookInv
  <2>6. bytes' = Total(size', Booked \ S)
    BY <2>1, <2>3, <2>4, <2>5
  <2> QED BY <1>2, <1>6, <2>6
<1>9. lru' \in SUBSET (Booked' \X Booked')
      /\ \A f, g \in Booked' : f # g => (<<f, g>> \in lru' <=> <<g, f>> \notin lru')
  BY <1>1, <1>6 DEF BookInv, Without
<1>10. size' \in [Booked' -> Nat] /\ Booked' \in SUBSET AllFiles
  BY <1>0, <1>6
<1>11. bytes' = bytes - Total(size, s \cap Booked)
  BY <1>1, <1>3 DEF S
<1>12. BookInv'
  BY <1>7, <1>8, <1>9, <1>10 DEF BookInv
<1> QED BY <1>6, <1>11, <1>12

\* An entry not yet on the book is appended.
LEMMA InsertKeeps ==
    ASSUME BookInv, NEW f \in AllFiles \ Booked, NEW n \in Nat, Insert(f, n)
    PROVE  /\ Booked' = Booked \cup {f} /\ size' \in [Booked' -> Nat]
           /\ Indexed(keys, index, Booked)' /\ bytes' = Total(size', Booked')
<1>0. IsFiniteSet(Booked) /\ (\A g \in Booked : size[g] \in Nat) /\ Booked \in SUBSET AllFiles
  BY FiniteBook DEF BookInv
<1>1. /\ size' = [g \in Booked \cup {f} |-> IF g = f THEN n ELSE size[g]]
      /\ index' = [g \in Booked \cup {f} |-> IF g = f THEN Len(keys) + 1 ELSE index[g]]
      /\ keys' = Append(keys, f) /\ bytes' = bytes + n
  BY DEF Insert
<1>2. Booked' = Booked \cup {f}
  BY <1>1 DEF Booked
<1>3. size' \in [Booked' -> Nat]
  BY <1>0, <1>1, <1>2
<1>4. IsFiniteSet(Booked \cup {f}) /\ Cardinality(Booked \cup {f}) = Cardinality(Booked) + 1
  BY <1>0, FS_AddElement
<1>5. Indexed(keys, index, Booked)'
  <2>1. /\ keys \in Seq(AllFiles) /\ index \in [Booked -> Nat] /\ Len(keys) = Cardinality(Booked)
        /\ \A g \in Booked : index[g] \in 1..Len(keys) /\ keys[index[g]] = g
        /\ \A i \in 1..Len(keys) : keys[i] \in Booked /\ index[keys[i]] = i
    BY DEF BookInv, Indexed
  <2>2. /\ keys' \in Seq(AllFiles) /\ Len(keys') = Len(keys) + 1 /\ Len(keys) \in Nat
        /\ keys'[Len(keys) + 1] = f /\ \A i \in 1..Len(keys) : keys'[i] = keys[i]
    <3>1. keys' = Append(keys, f) /\ keys \in Seq(AllFiles) /\ Len(keys) \in Nat
      BY <1>1, <2>1
    <3> QED BY <3>1, AppendProperties
  <2>3. index' \in [Booked' -> Nat] /\ index'[f] = Len(keys) + 1 /\ \A g \in Booked : index'[g] = index[g]
    BY <1>1, <1>2, <2>1, <2>2
  <2>4. Len(keys') = Cardinality(Booked')
    BY <1>2, <1>4, <2>1, <2>2
  <2>5. ASSUME NEW g \in Booked' PROVE index'[g] \in 1..Len(keys') /\ keys'[index'[g]] = g
    BY <1>2, <2>1, <2>2, <2>3
  <2>6. ASSUME NEW i \in 1..Len(keys') PROVE keys'[i] \in Booked' /\ index'[keys'[i]] = i
    <3>1. CASE i = Len(keys) + 1
      BY <1>2, <2>2, <2>3, <3>1
    <3>2. CASE i # Len(keys) + 1
      <4>1. i \in 1..Len(keys)
        BY <2>2, <3>2
      <4> QED BY <1>2, <2>1, <2>2, <2>3, <4>1
    <3> QED BY <3>1, <3>2
  <2> QED BY <2>2, <2>3, <2>4, <2>5, <2>6 DEF Indexed
<1>6. bytes' = Total(size', Booked')
  <2>1. IsFiniteSet(Booked') /\ \A x \in Booked' : size'[x] \in Nat
    BY <1>2, <1>3, <1>4
  <2>2. f \in Booked' /\ Booked' \ {f} = Booked /\ size'[f] = n /\ \A x \in Booked : size'[x] = size[x]
    BY <1>1, <1>2
  <2>3. Total(size', Booked') = Total(size', Booked' \ {f}) + size'[f]
    BY <2>1, <2>2, TotalFacts
  <2>4. Total(size', Booked) = Total(size, Booked)
    BY <1>0, <2>2, TotalFacts
  <2> QED BY <1>1, <2>2, <2>3, <2>4 DEF BookInv
<1> QED BY <1>2, <1>3, <1>5, <1>6

-----------------------------------------------------------------------------
(* The background tasks *)

\* The scanner leaves all of the evictor's job but the files booked before it.
LEMMA OvertakenKeeps ==
    ASSUME TaskInv, NEW a \in Agents, NEW f \in AllFiles
    PROVE  /\ Overtaken(f, a) \in [Agents -> Tasks] /\ Overtaken(f, a)[a] = agent[a]
           /\ \A b \in Agents : /\ Overtaken(f, a)[b].does = agent[b].does
                               /\ Overtaken(f, a)[b].work = agent[b].work
                               /\ Overtaken(f, a)[b].targets = agent[b].targets
                               /\ Overtaken(f, a)[b].deleted = agent[b].deleted
                               /\ Overtaken(f, a)[b].failed = agent[b].failed
<1>1. agent \in [Agents -> Tasks] /\ "evictor" \in Agents
  BY DEF TaskInv, Agents
<1>2. CASE a = "scanner" /\ agent["evictor"].does = "track"
  <2> DEFINE e == [agent["evictor"] EXCEPT !.later = agent["evictor"].later \cup {f}]
  <2>1. agent["evictor"].later \cup {f} \in SUBSET AllFiles /\ agent["evictor"] \in Tasks
    BY <1>1 DEF Tasks
  <2>2. /\ e \in Tasks /\ e.does = agent["evictor"].does /\ e.work = agent["evictor"].work
        /\ e.targets = agent["evictor"].targets /\ e.deleted = agent["evictor"].deleted
        /\ e.failed = agent["evictor"].failed
    BY <2>1 DEF Tasks
  <2>3. Overtaken(f, a) = [agent EXCEPT !["evictor"] = e]
    BY <1>1, <1>2 DEF Overtaken
  <2> HIDE DEF e
  <2> QED BY <1>1, <1>2, <2>2, <2>3
<1>3. CASE ~(a = "scanner" /\ agent["evictor"].does = "track")
  <2>1. Overtaken(f, a) = agent
    BY <1>3 DEF Overtaken
  <2> QED BY <1>1, <2>1
<1> QED BY <1>2, <1>3

\* track_entry_accessed.
LEMMA TrackKeeps == ASSUME CacheInv, NEW a \in Agents, Track(a) PROVE CacheInv'
<1> DEFINE w == agent[a].work
           f == agent[a].work.path
<1>0. FolderInv /\ BookInv /\ TaskInv
  BY DEF CacheInv
<1>1. /\ agent[a].does = "track" /\ lock = "free" /\ lru' \in Touched(f, a)
      /\ UNCHANGED <<folder, started, queue, scan, scanned, counts>>
  BY DEF Track
<1>2. w \in FileJobs /\ f \in AllFiles /\ w.size \in Nat /\ agent[a].targets = <<>>
      /\ agent[a].deleted = {} /\ ~agent[a].failed /\ agent[a] \in Tasks
  BY <1>0, <1>1 DEF TaskInv, FileJobs
<1>3. FolderInv'
  BY <1>0, <1>1 DEF folder, FolderInv, WritesOK, ReadsOK, counts
<1>4. /\ Booked' = Booked \cup {f} /\ size' \in [Booked' -> Nat]
      /\ Indexed(keys, index, Booked)' /\ bytes' = Total(size', Booked')
  <2>1. CASE f \in Booked
    <3>1. UNCHANGED <<size, index, keys, bytes>> /\ Booked' = Booked
      BY <2>1 DEF Track, Booked
    <3> QED BY <1>0, <2>1, <3>1 DEF BookInv
  <2>2. CASE f \notin Booked
    <3>1. Insert(f, w.size)
      BY <2>2 DEF Track
    <3>2. f \in AllFiles \ Booked /\ w.size \in Nat
      BY <1>2, <2>2
    <3> HIDE DEF w, f
    <3> QED BY <1>0, <3>1, <3>2, InsertKeeps
  <2> QED BY <2>1, <2>2
<1> HIDE DEF f, w
<1> DEFINE others == Booked \ {f}
<1>5. PICK s \in SUBSET others :
          /\ lru' = Without({f}) \cup (s \X {f}) \cup ({f} \X (others \ s))
          /\ a = "evictor" => others \ s \subseteq agent[a].later
  BY <1>1 DEF Touched
<1>6. /\ lru' \in SUBSET (Booked' \X Booked')
      /\ \A g, h \in Booked' : g # h => (<<g, h>> \in lru' <=> <<h, g>> \notin lru')
  <2>1. \A p \in lru : p \in Booked \X Booked
    BY <1>0 DEF BookInv
  <2>2. ASSUME NEW g \in Booked', NEW h \in Booked'
        PROVE  <<g, h>> \in lru' <=> \/ <<g, h>> \in lru /\ g # f /\ h # f
                                     \/ g \in s /\ h = f
                                     \/ g = f /\ h \in others \ s
    BY <1>5 DEF Without
  <2>3. lru' \in SUBSET (Booked' \X Booked')
    BY <1>4, <1>5, <2>1 DEF Without
  <2>4. ASSUME NEW g \in Booked', NEW h \in Booked', g # h PROVE <<g, h>> \in lru' <=> <<h, g>> \notin lru'
    <3>1. g \in others \cup {f} /\ h \in others \cup {f} /\ f \notin others
      BY <1>4
    <3>2. g # f /\ h # f => (<<g, h>> \in lru <=> <<h, g>> \notin lru)
      BY <1>0, <2>4, <3>1 DEF BookInv
    <3> QED BY <2>2, <2>4, <3>1, <3>2
  <2> QED BY <2>3, <2>4
<1>7. BookInv'
  BY <1>0, <1>2, <1>4, <1>6 DEF BookInv, f
<1> DEFINE known == Overtaken(f, a)
<1>10. /\ known \in [Agents -> Tasks] /\ known[a] = agent[a]
       /\ \A b \in Agents : /\ known[b].does = agent[b].does /\ known[b].work = agent[b].work
                           /\ known[b].targets = agent[b].targets
                           /\ known[b].deleted = agent[b].deleted /\ known[b].failed = agent[b].failed
  BY <1>0, <1>2, OvertakenKeeps
<1>11. CASE Over(bytes') /\ w.access # "read"
  <2>1. lock' = a /\ agent' = [known EXCEPT ![a].does = "pick"]
    BY <1>11 DEF Track, w, f
  <2> HIDE DEF known
  <2>3. /\ agent'[a] \in Tasks /\ agent'[a].does = "pick" /\ agent'[a].targets = <<>>
        /\ agent'[a].deleted = {} /\ agent'[a].work = agent[a].work /\ ~agent'[a].failed
        /\ agent'[a].later = agent[a].later
    BY <1>2, <1>10, <2>1 DEF Tasks
  <2>2. TaskInv'
    <3>1. agent' \in [Agents -> Tasks] /\ \A b \in Agents : b # a => agent'[b] = known[b]
      BY <1>10, <2>1, <2>3
    <3>2. \A b \in Agents : agent[b].does \notin {"pick", "remove", "invalidate"}
      BY <1>0, <1>1 DEF TaskInv, Agents
    <3>3. ASSUME NEW b \in Agents, b # a
          PROVE  /\ agent'[b].does = agent[b].does /\ agent'[b].work = agent[b].work
                 /\ agent'[b].targets = agent[b].targets
                 /\ agent'[b].deleted = agent[b].deleted /\ agent'[b].failed = agent[b].failed
      BY <1>10, <3>1, <3>3
    <3> QED BY <1>0, <2>1, <2>3, <3>1, <3>2, <3>3 DEF TaskInv
  <2>4. Picked(a)' = {}
    BY <2>3, EmptyList DEF Picked
  <2>5. EvictInv'
    BY <2>1, <2>3, <2>4 DEF EvictInv
  <2>6. NewInv'
    <3> SUFFICES ASSUME a = "evictor" PROVE NewInv'
      BY <2>1 DEF NewInv
    <3>1. /\ agent'["evictor"].work.path = f /\ Picked("evictor")' = {}
          /\ agent'["evictor"].later = agent["evictor"].later
      BY <2>3, <2>4 DEF f
    <3>2. \A g \in Booked' \ {f} : <<f, g>> \in lru' => g \in agent["evictor"].later
      BY <1>4, <1>5 DEF Without
    <3> QED BY <1>4, <3>1, <3>2 DEF NewInv
  <2> QED BY <1>3, <1>7, <2>2, <2>5, <2>6 DEF CacheInv
<1>12. CASE ~(Over(bytes') /\ w.access # "read")
  <2>1. lock' = lock /\ agent' = [known EXCEPT ![a] = Idle]
    BY <1>12 DEF Track, w, f
  <2> HIDE DEF known
  <2>2. TaskInv'
    <3>1. agent' \in [Agents -> Tasks] /\ agent'[a] = Idle /\ \A b \in Agents : b # a => agent'[b] = known[b]
      BY <1>10, <2>1, FreshTask
    <3>2. ASSUME NEW b \in Agents, b # a
          PROVE  /\ agent'[b].does = agent[b].does /\ agent'[b].work = agent[b].work
                 /\ agent'[b].targets = agent[b].targets
                 /\ agent'[b].deleted = agent[b].deleted /\ agent'[b].failed = agent[b].failed
      BY <1>10, <3>1, <3>2
    <3>3. /\ agent'[a].does \notin {"track", "pick", "remove", "invalidate", "drop"}
          /\ lock' = lock /\ lock # a
      BY <1>0, <1>1, <2>1, <3>1, FreshTask DEF TaskInv
    <3> HIDE DEF w, f
    <3> QED BY <1>0, <3>1, <3>2, <3>3, SMTT(60) DEF TaskInv
  <2>3. EvictInv' /\ NewInv'
    BY <1>1, <2>1 DEF EvictInv, NewInv, Agents
  <2> QED BY <1>3, <1>7, <2>2, <2>3 DEF CacheInv
<1> QED BY <1>11, <1>12

\* The holder of the lock picks, removes and ends.
LEMMA PickKeeps == ASSUME CacheInv, NEW a \in Agents, Pick(a) \/ Picks(a) PROVE CacheInv'
<1>0. FolderInv /\ BookInv /\ TaskInv /\ EvictInv /\ NewInv
  BY DEF CacheInv
<1>1. /\ agent[a].does = "pick" /\ UNCHANGED book /\ UNCHANGED lock
      /\ UNCHANGED <<folder, started, queue, scan, scanned, counts>>
  BY DEF Pick, Picks
<1>2. UNCHANGED <<size, index, keys, lru, bytes>> /\ Booked' = Booked
  BY <1>1 DEF book, Booked
<1>3. FolderInv' /\ BookInv'
  BY <1>0, <1>1, <1>2 DEF folder, FolderInv, WritesOK, ReadsOK, counts, BookInv
<1>4. lock = a /\ agent[a].deleted = {} /\ ~agent[a].failed /\ Picked(a) \subseteq Booked /\ agent[a] \in Tasks
  BY <1>0, <1>1 DEF TaskInv, EvictInv
<1>5. CASE Pick(a)
  <2>1. PICK f \in Booked \ Picked(a), g \in Booked \ Picked(a) :
            f # g /\ agent' = [agent EXCEPT ![a].targets = Append(@, Older(f, g))]
    BY <1>5 DEF Pick
  <2> DEFINE o == Older(f, g)
  <2>2. o \in Booked \ Picked(a) /\ o \in AllFiles
    BY <1>0 DEF Older, BookInv
  <2>3. agent'[a] = [agent[a] EXCEPT !.targets = Append(@, o)]
    BY <1>0, <2>1 DEF TaskInv
  <2>4. /\ agent[a].targets \in Seq(AllFiles)
        /\ Append(agent[a].targets, o) \in Seq(AllFiles)
        /\ ToSet(Append(agent[a].targets, o)) = ToSet(agent[a].targets) \cup {o}
    BY <1>4, <2>2, AppendSet DEF Tasks
  <2> HIDE DEF o
  <2>5. /\ agent'[a] \in Tasks /\ agent'[a].does = "pick" /\ agent'[a].deleted = {} /\ ~agent'[a].failed
        /\ agent'[a].work = agent[a].work /\ agent'[a].targets = Append(agent[a].targets, o)
        /\ agent'[a].later = agent[a].later
    BY <1>1, <1>4, <2>3, <2>4 DEF Tasks
  <2>6. Picked(a)' = Picked(a) \cup {o}
    BY <2>4, <2>5 DEF Picked
  <2>7. agent' \in [Agents -> Tasks] /\ \A b \in Agents : b # a => agent'[b] = agent[b]
    BY <1>0, <2>1, <2>5 DEF TaskInv
  <2>8. TaskInv'
    BY <1>0, <1>1, <1>4, <2>5, <2>7 DEF TaskInv
  <2>9. EvictInv'
    <3> SUFFICES ASSUME NEW b \in Agents, lock' = b
                 PROVE  /\ Picked(b)' \cup agent'[b].deleted \subseteq Booked'
                        /\ agent'[b].does \in {"remove", "invalidate"} /\ ~agent'[b].failed =>
                              Enough(Picked(b) \cup agent[b].deleted)'
      BY DEF EvictInv
    <3>1. b = a
      BY <1>1, <1>4
    <3> QED BY <1>2, <1>4, <2>2, <2>5, <2>6, <3>1
  <2>10. NewInv'
    <3> SUFFICES ASSUME a = "evictor" PROVE NewInv'
      BY <1>1, <1>4 DEF NewInv
    <3> DEFINE p == agent["evictor"].work.path
               e == agent["evictor"].later
    <3>1. /\ p \in Booked /\ \A h \in Booked \ {p} : <<p, h>> \in lru => h \in e
          /\ p \in Picked("evictor") => \E h \in e : <<p, h>> \in lru
      BY <1>0, <1>4 DEF NewInv
    <3>2. agent'["evictor"].work.path = p /\ agent'["evictor"].later = e
      BY <2>5
    <3> HIDE DEF p, e
    <3>3. ASSUME o = p PROVE \E h \in e : <<p, h>> \in lru
      <4>1. CASE <<f, g>> \in lru
        <5>1. o = f /\ g \in Booked \ {p}
          BY <2>1, <3>3, <4>1 DEF o, Older
        <5> QED BY <3>1, <3>3, <4>1, <5>1
      <4>2. CASE <<f, g>> \notin lru
        <5>1. o = g /\ f \in Booked \ {p} /\ <<g, f>> \in lru
          BY <1>0, <2>1, <3>3, <4>2 DEF o, Older, BookInv
        <5> QED BY <3>1, <3>3, <5>1
      <4> QED BY <4>1, <4>2
    <3>4. p \in Picked("evictor")' => \E h \in e : <<p, h>> \in lru
      BY <2>6, <3>1, <3>3
    <3> QED BY <1>2, <3>1, <3>2, <3>4 DEF NewInv
  <2> QED BY <1>3, <2>8, <2>9, <2>10 DEF CacheInv
<1>6. CASE Picks(a)
  <2>1. agent' = [agent EXCEPT ![a].does = "remove"] /\ PickDone(a)
    BY <1>6 DEF Picks
  <2>2. agent'[a] = [agent[a] EXCEPT !.does = "remove"]
    BY <1>0, <2>1 DEF TaskInv
  <2>3. /\ agent'[a] \in Tasks /\ agent'[a].does = "remove" /\ agent'[a].deleted = {} /\ ~agent'[a].failed
        /\ agent'[a].work = agent[a].work /\ agent'[a].targets = agent[a].targets
        /\ agent'[a].later = agent[a].later
    BY <1>4, <2>2 DEF Tasks
  <2>4. agent' \in [Agents -> Tasks] /\ \A b \in Agents : b # a => agent'[b] = agent[b]
    BY <1>0, <2>1, <2>3 DEF TaskInv
  <2>5. TaskInv'
    BY <1>0, <1>1, <1>4, <2>3, <2>4 DEF TaskInv
  <2>6. Picked(a)' = Picked(a) /\ Picked(a) \cup {} = Picked(a)
    BY <2>3 DEF Picked
  <2>7. Enough(Picked(a))
    BY <2>1 DEF PickDone, Left, Enough, Total
  <2>8. Enough(Picked(a) \cup agent[a].deleted)'
    <3>1. (Picked(a) \cup agent[a].deleted)' = Picked(a)
      BY <2>3, <2>6
    <3> QED BY <1>2, <2>7, <3>1 DEF Enough
  <2>9. EvictInv'
    <3> SUFFICES ASSUME NEW b \in Agents, lock' = b
                 PROVE  /\ Picked(b)' \cup agent'[b].deleted \subseteq Booked'
                        /\ agent'[b].does \in {"remove", "invalidate"} /\ ~agent'[b].failed =>
                              Enough(Picked(b) \cup agent[b].deleted)'
      BY DEF EvictInv
    <3>1. b = a
      BY <1>1, <1>4
    <3> QED BY <1>2, <1>4, <2>3, <2>6, <2>8, <3>1
  <2>10. NewInv'
    BY <1>0, <1>1, <1>2, <1>4, <2>3, <2>6 DEF NewInv
  <2> QED BY <1>3, <2>5, <2>9, <2>10 DEF CacheInv
<1> QED BY <1>5, <1>6

\* A file is removed, and in a later step its handle: nothing of the book moves.
LEMMA RemoveFileKeeps ==
    ASSUME CacheInv, NEW a \in Agents, RemoveFile(a) \/ InvalidateRemoved(a)
    PROVE  CacheInv'
<1> DEFINE t == agent[a].targets
           f == Head(t)
           gone == agent[a].deleted \cup {f}
<1>0. FolderInv /\ BookInv /\ TaskInv /\ EvictInv /\ NewInv
  BY DEF CacheInv
<1>1. /\ agent[a].does \in {"remove", "invalidate"} /\ t # <<>> /\ UNCHANGED book /\ UNCHANGED lock
      /\ UNCHANGED <<writes, reading, started, queue, scan, scanned, counts>>
  BY <1>0 DEF RemoveFile, InvalidateRemoved, TaskInv
<1>2. UNCHANGED <<size, index, keys, lru, bytes>> /\ Booked' = Booked
  BY <1>1 DEF book, Booked
<1>3. lock = a /\ agent[a] \in Tasks /\ Picked(a) \cup agent[a].deleted \subseteq Booked
  BY <1>0, <1>1 DEF TaskInv, EvictInv
<1>4. /\ t \in Seq(AllFiles) /\ f \in AllFiles /\ Tail(t) \in Seq(AllFiles) /\ Picked(a) = {f} \cup ToSet(Tail(t))
      /\ gone \in SUBSET AllFiles
  BY <1>1, <1>3, TailSet DEF Tasks, Picked
<1>5. \/ /\ agent[a].does = "remove"
         /\ agent' = [agent EXCEPT ![a].does = "invalidate", ![a].deleted = @ \cup {f}]
      \/ /\ agent[a].does = "remove"
         /\ agent' = [agent EXCEPT ![a].targets = Tail(@), ![a].failed = TRUE]
      \/ /\ agent[a].does = "invalidate" /\ f \in agent[a].deleted
         /\ agent' = [agent EXCEPT ![a].does = "remove", ![a].targets = Tail(@)]
  BY <1>0 DEF RemoveFile, InvalidateRemoved, TaskInv
<1>6. FolderInv'
  <2>1. disk' \in [AllFiles -> Inodes] /\ handle' \in [Files -> Inodes]
    BY <1>0 DEF RemoveFile, InvalidateRemoved, Unlink, Invalidate, FolderInv, Inodes
  <2> QED BY <1>0, <1>1, <2>1 DEF FolderInv, WritesOK, ReadsOK, counts
<1> HIDE DEF f, gone
<1>7. BookInv'
  BY <1>0, <1>2 DEF BookInv
<1> DEFINE kept == /\ agent'[a] \in Tasks /\ agent'[a].work = agent[a].work /\ agent'[a].later = agent[a].later
                   /\ agent' \in [Agents -> Tasks] /\ \A b \in Agents : b # a => agent'[b] = agent[b]
<1>8. /\ kept
      /\ \/ /\ agent'[a].does = "invalidate" /\ agent'[a].targets = t /\ agent'[a].deleted = gone
            /\ agent'[a].failed = agent[a].failed
         \/ /\ agent'[a].does = "remove" /\ agent'[a].targets = Tail(t) /\ agent'[a].deleted = agent[a].deleted
            /\ (agent'[a].failed \/ (f \in agent[a].deleted /\ agent'[a].failed = agent[a].failed))
  <2>1. CASE agent[a].does = "remove" /\ agent' = [agent EXCEPT ![a].does = "invalidate", ![a].deleted = @ \cup {f}]
    <3>1. agent'[a] = [agent[a] EXCEPT !.does = "invalidate", !.deleted = gone]
      BY <1>0, <2>1 DEF TaskInv, gone
    <3>2. /\ agent'[a] \in Tasks /\ agent'[a].does = "invalidate" /\ agent'[a].work = agent[a].work
          /\ agent'[a].targets = t /\ agent'[a].deleted = gone /\ agent'[a].later = agent[a].later
          /\ agent'[a].failed = agent[a].failed
      BY <1>3, <1>4, <3>1 DEF Tasks
    <3> QED BY <1>0, <2>1, <3>2 DEF TaskInv
  <2>2. CASE agent[a].does = "remove" /\ agent' = [agent EXCEPT ![a].targets = Tail(@), ![a].failed = TRUE]
    <3>0. agent \in [Agents -> Tasks]
      BY <1>0 DEF TaskInv
    <3> DEFINE rest == [agent[a] EXCEPT !.targets = Tail(t)]
    <3>1. agent'[a] = [rest EXCEPT !.failed = TRUE]
      <4> DEFINE one  == [agent EXCEPT ![a] = rest]
      <4>1. agent' = [one EXCEPT ![a] = [one[a] EXCEPT !.failed = TRUE]]
        BY <2>2, <3>0
      <4>2. one[a] = rest /\ one \in [Agents -> {one[b] : b \in Agents}]
        BY <3>0
      <4> HIDE DEF one, rest
      <4> QED BY <4>1, <4>2
    <3>3. /\ rest \in Tasks /\ rest.does = "remove" /\ rest.work = agent[a].work /\ rest.targets = Tail(t)
          /\ rest.deleted = agent[a].deleted /\ rest.later = agent[a].later
      BY <1>3, <1>4, <2>2 DEF Tasks
    <3> HIDE DEF rest
    <3>2. /\ agent'[a] \in Tasks /\ agent'[a].does = "remove" /\ agent'[a].work = agent[a].work
          /\ agent'[a].targets = Tail(t) /\ agent'[a].deleted = agent[a].deleted /\ agent'[a].failed
          /\ agent'[a].later = agent[a].later
      BY <3>1, <3>3 DEF Tasks
    <3> QED BY <1>0, <2>2, <3>2 DEF TaskInv
  <2>3. CASE f \in agent[a].deleted /\ agent' = [agent EXCEPT ![a].does = "remove", ![a].targets = Tail(@)]
    <3>1. agent'[a] = [agent[a] EXCEPT !.does = "remove", !.targets = Tail(t)]
      BY <1>0, <2>3 DEF TaskInv
    <3>2. /\ agent'[a] \in Tasks /\ agent'[a].does = "remove" /\ agent'[a].work = agent[a].work
          /\ agent'[a].targets = Tail(t) /\ agent'[a].deleted = agent[a].deleted
          /\ agent'[a].failed = agent[a].failed /\ agent'[a].later = agent[a].later
      BY <1>3, <1>4, <3>1 DEF Tasks
    <3> QED BY <1>0, <2>3, <3>2 DEF TaskInv
  <2> QED BY <1>5, <2>1, <2>2, <2>3
<1>9. TaskInv'
  <2>1. agent'[a].does \in {"remove", "invalidate"} /\ lock' = a
    BY <1>1, <1>3, <1>8
  <2>2. agent'[a].does = "invalidate" => agent'[a].targets = t /\ f \in agent'[a].deleted
    BY <1>8 DEF gone
  <2> QED BY <1>0, <1>1, <1>3, <1>8, <2>1, <2>2 DEF TaskInv, f
<1> HIDE DEF t
<1>10. Picked(a)' \subseteq Picked(a)
  BY <1>4, <1>8 DEF Picked, t
<1>11. EvictInv'
  <2>1. (Picked(a) \cup agent[a].deleted)' \subseteq Booked'
    BY <1>2, <1>3, <1>4, <1>8, <1>10 DEF gone
  <2>2. ASSUME ~agent'[a].failed PROVE Enough(Picked(a) \cup agent[a].deleted)'
    <3>0. Picked(a)' = Picked(a) \/ Picked(a)' = ToSet(Tail(t))
      BY <1>8 DEF Picked, t
    <3>1. (Picked(a) \cup agent[a].deleted)' = Picked(a) \cup agent[a].deleted /\ ~agent[a].failed
      <4>1. CASE agent'[a].does = "invalidate"
        <5>1. Picked(a)' = Picked(a) /\ agent'[a].deleted = gone
          BY <1>8, <4>1 DEF Picked, t
        <5> QED BY <1>4, <1>8, <2>2, <4>1, <5>1 DEF gone
      <4>2. CASE agent'[a].does # "invalidate"
        <5>1. Picked(a)' = ToSet(Tail(t)) /\ agent'[a].deleted = agent[a].deleted /\ f \in agent[a].deleted
              /\ ~agent[a].failed
          BY <1>8, <2>2, <4>2 DEF Picked
        <5> QED BY <1>4, <5>1
      <4> QED BY <4>1, <4>2
    <3>2. Enough(Picked(a) \cup agent[a].deleted)
      BY <1>0, <1>1, <1>3, <3>1 DEF EvictInv
    <3> QED BY <1>2, <3>1, <3>2 DEF Enough
  <2> QED BY <1>1, <1>3, <2>1, <2>2 DEF EvictInv
<1>12. NewInv'
  <2> SUFFICES ASSUME a = "evictor" PROVE NewInv'
    BY <1>1, <1>3 DEF NewInv
  <2>1. agent'["evictor"].work = agent["evictor"].work /\ agent'["evictor"].later = agent["evictor"].later
    BY <1>8
  <2> QED BY <1>0, <1>2, <1>3, <1>10, <2>1 DEF NewInv
<1> QED BY <1>6, <1>7, <1>9, <1>11, <1>12 DEF CacheInv

\* The end of an eviction, or of a delete, updates the book.
LEMMA BookKeeps ==
    ASSUME CacheInv, NEW a \in Agents, EndEviction(a) \/ (a = "evictor" /\ Untrack)
    PROVE  CacheInv'
<1>0. FolderInv /\ BookInv /\ TaskInv /\ EvictInv /\ NewInv
  BY DEF CacheInv
<1>1. /\ RemoveAll(agent[a].deleted) /\ lock' = "free" /\ agent' = [agent EXCEPT ![a] = Idle]
      /\ UNCHANGED <<folder, started, queue, scan, scanned, counts>>
      /\ lock \in {a, "free"}
  BY <1>0 DEF EndEviction, Untrack, TaskInv
<1>2. BookInv'
  BY <1>0, <1>1, RemoveAllKeeps
<1>3. FolderInv'
  BY <1>0, <1>1 DEF folder, FolderInv, WritesOK, ReadsOK, counts
<1>4. TaskInv'
  <2>1. agent' \in [Agents -> Tasks] /\ agent'[a] = Idle /\ \A b \in Agents : b # a => agent'[b] = agent[b]
    BY <1>0, <1>1, FreshTask DEF TaskInv
  <2>2. \A b \in Agents : b # "free"
    BY DEF Agents
  <2> QED BY <1>0, <1>1, <2>1, <2>2, FreshTask DEF TaskInv
<1>5. EvictInv' /\ NewInv'
  BY <1>1 DEF EvictInv, NewInv, Agents
<1> QED BY <1>2, <1>3, <1>4, <1>5 DEF CacheInv

\* A task that does not hold the lock takes up a job or drops it.
LEMMA JobFrame ==
    ASSUME CacheInv, NEW a \in Agents, NEW job \in Tasks, FolderInv', UNCHANGED book, UNCHANGED lock, lock # a,
           agent' = [agent EXCEPT ![a] = job], job.does \notin {"pick", "remove", "invalidate"},
           job.does = "drop" => job.targets # <<>>,
           job.does = "track" =>
              job.work \in FileJobs /\ job.targets = <<>> /\ job.deleted = {} /\ ~job.failed
    PROVE  CacheInv'
<1>0. BookInv /\ TaskInv /\ EvictInv /\ NewInv
  BY DEF CacheInv
<1>1. UNCHANGED <<size, index, keys, lru, bytes>> /\ Booked' = Booked
  BY DEF book, Booked
<1>2. agent' \in [Agents -> Tasks] /\ agent'[a] = job /\ \A b \in Agents : b # a => agent'[b] = agent[b]
  BY <1>0 DEF TaskInv
<1>3. BookInv'
  BY <1>0, <1>1 DEF BookInv
<1>4. TaskInv'
  BY <1>0, <1>2 DEF TaskInv
<1>5. EvictInv'
  <2> SUFFICES ASSUME NEW b \in Agents, lock' = b
               PROVE  /\ Picked(b)' \cup agent'[b].deleted \subseteq Booked'
                      /\ agent'[b].does \in {"remove", "invalidate"} /\ ~agent'[b].failed =>
                            Enough(Picked(b) \cup agent[b].deleted)'
    BY DEF EvictInv
  <2>1. lock = b /\ agent'[b] = agent[b]
    BY <1>2
  <2>2. Picked(b)' = Picked(b)
    BY <2>1 DEF Picked
  <2>3. Enough(Picked(b) \cup agent[b].deleted)' <=> Enough(Picked(b) \cup agent[b].deleted)
    BY <1>1, <2>1, <2>2 DEF Enough
  <2>4. /\ Picked(b) \cup agent[b].deleted \subseteq Booked
        /\ agent[b].does \in {"remove", "invalidate"} /\ ~agent[b].failed =>
              Enough(Picked(b) \cup agent[b].deleted)
    BY <1>0, <2>1 DEF EvictInv
  <2>5. (Picked(b) \cup agent[b].deleted)' \subseteq Booked'
    BY <1>1, <2>1, <2>2, <2>4
  <2> QED BY <2>1, <2>3, <2>4, <2>5
<1>6. NewInv'
  <2> SUFFICES ASSUME lock' = "evictor" PROVE NewInv'
    BY DEF NewInv
  <2>1. lock = "evictor" /\ agent'["evictor"] = agent["evictor"]
    BY <1>2 DEF Agents
  <2>2. Picked("evictor")' = Picked("evictor")
    BY <2>1 DEF Picked
  <2> QED BY <1>0, <1>1, <2>1, <2>2 DEF NewInv
<1> QED BY <1>3, <1>4, <1>5, <1>6 DEF CacheInv

LEMMA EvictorKeeps == ASSUME CacheInv, Start \/ Receive \/ DeleteCacheEntry PROVE CacheInv'
<1>0. FolderInv /\ TaskInv /\ "evictor" \in Agents /\ agent["evictor"] \in Tasks
  BY DEF CacheInv, TaskInv, Agents
<1>1. CASE Start
  <2>1. FolderInv'
    BY <1>0, <1>1 DEF Start, folder, tasks, counts, FolderInv, WritesOK, ReadsOK
  <2> QED BY <1>1, <2>1, BookFrame DEF Start, tasks
<1>2. CASE Receive
  <2> DEFINE d == IF Head(queue).access = "delete" THEN "forget" ELSE "track"
             job == [Idle EXCEPT !.work = Head(queue), !.does = d]
  <2>1. Head(queue) \in Jobs /\ queue' \in Seq(Jobs) /\ Len(queue') <= QueueCap
    BY <1>0, <1>2, PartCacheAssumption DEF Receive, FolderInv
  <2>2. FolderInv'
    BY <1>0, <1>2, <2>1 DEF Receive, folder, counts, FolderInv, WritesOK, ReadsOK
  <2>3. d \in {"forget", "track"} /\ (d = "track" => Head(queue) \in FileJobs)
    BY <2>1 DEF Jobs
  <2> HIDE DEF d
  <2>4. /\ job \in Tasks /\ job.does = d /\ job.work = Head(queue) /\ job.targets = <<>>
        /\ job.deleted = {} /\ ~job.failed
    BY <2>1, <2>3, FreshTask DEF Tasks, Idle
  <2>5. agent' = [agent EXCEPT !["evictor"] = job] /\ UNCHANGED book /\ UNCHANGED lock
    BY <1>2 DEF Receive, d
  <2>6. lock # "evictor"
    BY <1>0, <1>2 DEF Receive, TaskInv
  <2> HIDE DEF job
  <2> QED BY <1>0, <2>2, <2>3, <2>4, <2>5, <2>6, JobFrame
<1>3. CASE DeleteCacheEntry
  <2> DEFINE e == agent["evictor"]
  <2>0. /\ UNCHANGED book /\ UNCHANGED lock /\ UNCHANGED <<writes, reading, started, queue, scan, scanned, counts>>
        /\ e.does \in {"forget", "delete", "drop"} /\ lock # "evictor"
    BY <1>0, <1>3 DEF DeleteCacheEntry, ListEntry, DeleteFile, DropHandle, EndDelete, folder, TaskInv
  <2>1. FolderInv'
    <3>1. disk' \in [AllFiles -> Inodes] /\ handle' \in [Files -> Inodes]
      BY <1>0, <1>3
         DEF DeleteCacheEntry, ListEntry, DeleteFile, DropHandle, EndDelete, folder, Unlink, Invalidate,
             FolderInv, Inodes
    <3> QED BY <1>0, <2>0, <3>1 DEF FolderInv, WritesOK, ReadsOK, counts
  <2>2. \E job \in Tasks : /\ agent' = [agent EXCEPT !["evictor"] = job]
                           /\ job.does \in {"idle", "delete", "drop", "untrack"}
                           /\ job.does = "drop" => job.targets # <<>>
    <3>1. CASE ListEntry
      <4>1. PICK s : s = {f \in OnDisk : FolderOf(f) = e.work.path}
        OBVIOUS
      <4>2. SetToSeq(s) \in Seq(AllFiles)
        <5>1. s \in SUBSET AllFiles /\ IsFiniteSet(s)
          BY <4>1, PartCacheAssumption, FS_Subset DEF OnDisk
        <5>2. SetToSeq(s) \in Seq(s)
          BY <5>1, ListedSet
        <5> QED BY <5>1, <5>2, SeqMonotonic
      <4> DEFINE job == [e EXCEPT !.does = "delete", !.targets = SetToSeq(s)]
      <4>3. job \in Tasks /\ job.does = "delete"
        BY <1>0, <4>2 DEF Tasks
      <4>4. agent' = [agent EXCEPT !["evictor"] = job]
        BY <1>0, <3>1, <4>1 DEF ListEntry, TaskInv
      <4> QED BY <4>3, <4>4
    <3>2. CASE DeleteFile
      <4>1. PICK s \in SUBSET AllFiles :
                agent' = [agent EXCEPT !["evictor"] = [e EXCEPT !.does = "drop", !.deleted = s]]
        <5>1. e.deleted \in SUBSET AllFiles /\ e.deleted \cup {Head(e.targets)} \in SUBSET AllFiles
          BY <1>0, <3>2, TailSet DEF Tasks, DeleteFile
        <5>2. CASE agent' = [agent EXCEPT !["evictor"].does = "drop", !["evictor"].deleted = @ \cup {Head(e.targets)}]
          BY <1>0, <5>1, <5>2 DEF TaskInv
        <5>3. CASE agent' = [agent EXCEPT !["evictor"].does = "drop"]
          <6>1. [e EXCEPT !.does = "drop"] = [e EXCEPT !.does = "drop", !.deleted = e.deleted]
            BY <1>0 DEF Tasks
          <6> QED BY <1>0, <5>1, <5>3, <6>1 DEF TaskInv
        <5> QED BY <3>2, <5>2, <5>3 DEF DeleteFile
      <4> DEFINE job == [e EXCEPT !.does = "drop", !.deleted = s]
      <4>2. job \in Tasks /\ job.does = "drop" /\ job.targets = e.targets /\ e.targets # <<>>
        BY <1>0, <3>2, <4>1 DEF Tasks, DeleteFile
      <4> QED BY <4>1, <4>2
    <3>3. CASE DropHandle
      <4> DEFINE job == [e EXCEPT !.does = "delete", !.targets = Tail(e.targets)]
      <4>1. Tail(e.targets) \in Seq(AllFiles)
        BY <1>0, <3>3, TailSet DEF Tasks, DropHandle, TaskInv
      <4>2. job \in Tasks /\ job.does = "delete"
        BY <1>0, <4>1 DEF Tasks
      <4>3. agent' = [agent EXCEPT !["evictor"] = job]
        BY <1>0, <3>3 DEF DropHandle, TaskInv
      <4> QED BY <4>2, <4>3
    <3>4. CASE EndDelete
      <4> DEFINE job == IF e.deleted = {} THEN Idle ELSE [e EXCEPT !.does = "untrack"]
      <4>1. job \in Tasks /\ job.does \in {"idle", "untrack"}
        BY <1>0, FreshTask DEF Tasks
      <4>2. agent' = [agent EXCEPT !["evictor"] = job]
        BY <1>0, <3>4 DEF EndDelete, TaskInv
      <4> QED BY <4>1, <4>2
    <3> QED BY <1>3, <3>1, <3>2, <3>3, <3>4 DEF DeleteCacheEntry
  <2>3. PICK job \in Tasks : /\ agent' = [agent EXCEPT !["evictor"] = job]
                             /\ job.does \in {"idle", "delete", "drop", "untrack"}
                             /\ job.does = "drop" => job.targets # <<>>
    BY <2>2
  <2> HIDE DEF e
  <2> QED BY <1>0, <2>0, <2>1, <2>3, JobFrame
<1> QED BY <1>1, <1>2, <1>3

LEMMA ScannerKeeps == ASSUME CacheInv, Scan \/ \E f \in AllFiles : Visit(f) PROVE CacheInv'
<1>0. FolderInv /\ TaskInv /\ "scanner" \in Agents
  BY DEF CacheInv, Agents
<1>1. CASE Scan
  <2>1. FolderInv'
    BY <1>0, <1>1 DEF Scan, folder, counts, FolderInv, WritesOK, ReadsOK, OnDisk
  <2> QED BY <1>1, <2>1, BookFrame DEF Scan
<1>2. ASSUME NEW f \in AllFiles, Visit(f) PROVE CacheInv'
  <2>1. FolderInv' /\ UNCHANGED book /\ UNCHANGED lock
    BY <1>0, <1>2 DEF Visit, folder, counts, FolderInv, WritesOK, ReadsOK
  <2>2. CASE f \notin OnDisk
    BY <1>2, <2>1, <2>2, BookFrame DEF Visit
  <2>3. CASE f \in OnDisk
    <3> DEFINE job == [Idle EXCEPT !.does = "track", !.work = Work(f, "scan", SizeOf[f])]
    <3>1. agent' = [agent EXCEPT !["scanner"] = job]
      BY <1>2, <2>3 DEF Visit
    <3>2. Work(f, "scan", SizeOf[f]) \in FileJobs
      BY PartCacheAssumption DEF Work, FileJobs
    <3>3. /\ job \in Tasks /\ job.does = "track" /\ job.work \in FileJobs /\ job.targets = <<>>
          /\ job.deleted = {} /\ ~job.failed
      BY <3>2, FreshTask DEF Tasks, Idle, Jobs
    <3>4. lock # "scanner"
      BY <1>0, <1>2 DEF Visit, TaskInv
    <3> HIDE DEF job
    <3> QED BY <1>0, <2>1, <3>1, <3>3, <3>4, JobFrame
  <2> QED BY <2>2, <2>3
<1> QED BY <1>1, <1>2

\* A restart keeps the files and forgets the rest.
LEMMA RestartKeeps == ASSUME CacheInv, Restart PROVE CacheInv'
<1>1. FolderInv'
  <2>1. FolderInv
    BY DEF CacheInv
  <2>2. disk' \in [AllFiles -> Inodes] /\ handle' \in [Files -> Inodes] /\ ReadsOK'
    BY <2>1 DEF Restart, FolderInv, Inodes, ReadsOK, ReadCalls, NoRead
  <2>3. queue' \in Seq(Jobs) /\ Len(queue') <= QueueCap
    BY PartCacheAssumption DEF Restart
  <2>4. WritesOK'
    <3>1. \A t \in DOMAIN writes : [writes[t] EXCEPT !.at = "done"] \in WriteCalls
      BY <2>1 DEF FolderInv, WritesOK, WriteCalls
    <3> QED BY <2>1, <3>1 DEF Restart, FolderInv, WritesOK
  <2> QED BY <2>1, <2>2, <2>3, <2>4 DEF Restart, FolderInv
<1>2. size' = Empty /\ index' = Empty /\ keys' = <<>> /\ lru' = {} /\ bytes' = 0 /\ Booked' = {}
  BY DEF Restart, Empty, Booked
<1>3. BookInv'
  <2>1. Total(size', {}) = 0
    BY FS_EmptySet, TotalFacts
  <2>2. Indexed(keys, index, Booked)'
    BY <1>2, FS_EmptySet DEF Indexed, Empty
  <2> QED BY <1>2, <2>1, <2>2 DEF BookInv, Empty
<1>4. TaskInv'
  BY FreshTask DEF Restart, TaskInv, Agents
<1>5. EvictInv' /\ NewInv'
  BY DEF Restart, EvictInv, NewInv, Agents
<1> QED BY <1>1, <1>3, <1>4, <1>5 DEF CacheInv

LEMMA CacheStep == CacheInv /\ [PCNext]_pcVars => CacheInv'
<1> SUFFICES ASSUME CacheInv, [PCNext]_pcVars PROVE CacheInv'
  OBVIOUS
<1>1. CASE UNCHANGED pcVars
  <2>1. FolderInv'
    BY <1>1 DEF pcVars, folder, tasks, counts, CacheInv, FolderInv, WritesOK, ReadsOK
  <2> QED BY <1>1, <2>1, BookFrame DEF pcVars, tasks
<1>2. CASE \E f \in CacheLoads[load].files : BeginWrite(f) \/ \E r \in PartReaders : BeginRead(r, f)
  BY <1>2, CallsKeep
<1>9. CASE \E t \in DOMAIN writes : Writing(t)
  BY <1>9, WritingKeeps
<1>10. CASE Opening \/ \E r \in PartReaders : FinishRead(r)
  BY <1>10, ReadingKeeps DEF Opening
<1>3. CASE \E d \in Dirs : Delete(d)
  BY <1>3, DeleteKeeps
<1>4. ASSUME NEW a \in Agents, EvictStep(a) PROVE CacheInv'
  BY <1>4, PickKeeps, RemoveFileKeeps, BookKeeps DEF EvictStep
<1>5. "evictor" \in Agents /\ "scanner" \in Agents
  BY DEF Agents
<1>6. CASE EvictorTask
  BY <1>4, <1>5, <1>6, EvictorKeeps DEF EvictorTask
<1>7. CASE ScannerTask
  BY <1>4, <1>5, <1>7, ScannerKeeps DEF ScannerTask
<1>8. CASE EvictorBooks \/ ScannerBooks
  BY <1>5, <1>8, BookKeeps, TrackKeeps DEF EvictorBooks, ScannerBooks
<1> QED BY <1>1, <1>2, <1>3, <1>6, <1>7, <1>8, <1>9, <1>10, RestartKeeps DEF PCNext

-----------------------------------------------------------------------------
(* The evictor: theorems *)

\* The inductive invariant of the cache folder, the book and its two tasks.
THEOREM CacheInvariant == PCSpec => []CacheInv
  BY CacheInit, CacheStep, PTL DEF PCSpec

\* FsCacheEvictor: the total is the sum of the booked sizes, keys and key_index
\* agree, and the entry whose write started an eviction is picked by it only
\* against one that the scanner booked later.
THEOREM BookStaysTrue == PCSpec => []EvictorInv
<1>1. CacheInv => EvictorInv
  <2> SUFFICES ASSUME CacheInv PROVE EvictorInv
    OBVIOUS
  <2>0. FolderInv /\ BookInv /\ TaskInv /\ NewInv
    BY DEF CacheInv
  <2>1. SizeIsBooked
    BY <2>0 DEF BookInv, SizeIsBooked, Total
  <2>2. KeysIndexed /\ DOMAIN index = Booked
    BY <2>0 DEF BookInv, Indexed, KeysIndexed
  <2>3. NewEntrySurvives
    BY <2>0 DEF TaskInv, NewInv, NewEntrySurvives, Agents
  <2>4. bytes \in Nat
    BY <2>0, FiniteBook, TotalFacts DEF BookInv
  <2>5. \A f, g \in Booked : f # g => (<<f, g>> \in lru) # (<<g, f>> \in lru)
    BY <2>0 DEF BookInv
  <2>6. \A a \in Agents : 
            agent[a].does \in {"idle", "track", "pick", "remove", "invalidate", "forget", "delete", "drop", "untrack"}
    BY <2>0 DEF TaskInv, Tasks
  <2>8. /\ disk \in [AllFiles -> AllFiles \cup {NoFile}] /\ handle \in [Files -> AllFiles \cup {NoFile}]
        /\ DOMAIN writes \subseteq TmpFiles
        /\ \A t \in DOMAIN writes : writes[t] \in [path : Files, at : {"begun", "tmp", "renamed", "lost", "done"}]
        /\ \A r \in PartReaders : reading[r].at \in {"idle", "open", "push", "got"}
    BY <2>0 DEF FolderInv, WritesOK, ReadsOK, WriteCalls, ReadCalls, Inodes
  <2>7. PCTypeOK
    BY <2>0, <2>2, <2>4, <2>5, <2>6, <2>8 DEF PCTypeOK, FolderInv, BookInv, TaskInv
  <2> QED BY <2>1, <2>2, <2>3, <2>7 DEF EvictorInv
<1> QED BY <1>1, CacheInvariant, PTL

-----------------------------------------------------------------------------
(* Reads and cached handles *)

\* An inode has one name, and a temporary name that is not yet a file's is no
\* inode anybody knows.
Unused(i) ==
    /\ \A f \in AllFiles : disk[f] # i
    /\ \A f \in Files : handle[f] # i
    /\ \A r \in PartReaders : reading[r].inode # i

Uncreated(t) == t \in DOMAIN writes => writes[t].at = "begun"

NamesInv ==
    /\ \A f, g \in AllFiles : disk[f] # NoFile /\ disk[f] = disk[g] => f = g
    /\ \A t \in TmpFiles : Uncreated(t) => Unused(t)

\* An inode i that was opened at the path f is still there in the folder d, or
\* it has no link left and the handle of f is due to be dropped.
KeptAt(d, f, i, due) == i = NoFile \/ d[f] = i \/ (due /\ \A g \in AllFiles : d[g] # i)

HandlesInv == \A f \in Files : KeptAt(disk, f, handle[f], DropDue(f))

\* The mutex has one holder; its path has no handle, and what it opened is
\* there or due to be dropped: the invalidation waits for the mutex.
HasMutex(r) == reading[r].at \in {"open", "push"}

OpeningInv ==
    /\ \A r, q \in PartReaders : HasMutex(r) /\ HasMutex(q) => r = q
    /\ \A r \in PartReaders, f \in Files : reading[r].path = f =>
          /\ HasMutex(r) => handle[f] = NoFile
          /\ reading[r].at = "push" => KeptAt(disk, f, reading[r].inode, DropDue(f))

\* A read has seen every file at its path since it began.
SeenInv ==
    \A r \in PartReaders :
        /\ reading[r].at \in {"push", "got"} => reading[r].inode \in reading[r].seen
        /\ reading[r].at # "idle" => disk[reading[r].path] \in reading[r].seen \cup {NoFile}

ReadInv == NamesInv /\ HandlesInv /\ OpeningInv /\ SeenInv

LEMMA ReadFacts ==
    ASSUME CacheInv
    PROVE  /\ disk \in [AllFiles -> Inodes] /\ handle \in [Files -> Inodes] /\ DOMAIN writes \in SUBSET TmpFiles
           /\ \A t \in DOMAIN writes : writes[t] \in WriteCalls
           /\ reading \in [PartReaders -> ReadCalls]
           /\ \A r \in PartReaders : reading[r].at # "idle" => reading[r].path \in Files
           /\ Files \subseteq AllFiles /\ TmpFiles \subseteq AllFiles /\ Files \cap TmpFiles = {}
           /\ NoFile \notin AllFiles
<1>1. FolderInv
  BY DEF CacheInv
<1> QED BY <1>1, PartCacheAssumption DEF FolderInv, WritesOK, ReadsOK, AllFiles

LEMMA ReadsBegin == PCInit => ReadInv
<1> SUFFICES ASSUME PCInit PROVE ReadInv
  OBVIOUS
<1>1. PICK found \in CacheLoads[load].found : disk = [f \in AllFiles |-> IF f \in found THEN f ELSE NoFile]
  BY DEF PCInit
<1>2. /\ handle = [f \in Files |-> NoFile] /\ reading = [r \in PartReaders |-> NoRead]
      /\ \A f \in AllFiles : disk[f] = NoFile \/ disk[f] = f
  BY <1>1 DEF PCInit
<1>3. \A t \in TmpFiles : t \in AllFiles /\ t \notin Files /\ t # NoFile
  BY PartCacheAssumption DEF AllFiles
<1>4. \A f \in AllFiles : disk[f] \in Files \cup {NoFile}
  <2>1. found \subseteq Files
    BY <1>1, PartCacheAssumption DEF PCInit
  <2> QED BY <1>1, <2>1
<1>5. NamesInv
  BY <1>2, <1>3, <1>4 DEF NamesInv, Unused, NoRead
<1> QED BY <1>2, <1>5 DEF ReadInv, HandlesInv, OpeningInv, SeenInv, HasMutex, KeptAt, NoRead

\* What is due stays due while those who will drop it go on with it.
LEMMA DueKept ==
    ASSUME NEW f, DropDue(f),
           \A t \in DOMAIN writes : writes[t].path = f /\ writes[t].at \in {"renamed", "lost"} =>
              t \in DOMAIN writes' /\ writes'[t].path = f /\ writes'[t].at \in {"renamed", "lost"},
           \A a \in Agents : agent[a].does \in {"invalidate", "drop"} /\ Head(agent[a].targets) = f =>
              agent'[a].does \in {"invalidate", "drop"} /\ agent'[a].targets = agent[a].targets
    PROVE  DropDue(f)'
<1>1. CASE \E t \in DOMAIN writes : writes[t].path = f /\ writes[t].at \in {"renamed", "lost"}
  BY <1>1 DEF DropDue
<1>2. CASE \E a \in Agents : agent[a].does \in {"invalidate", "drop"} /\ Head(agent[a].targets) = f
  BY <1>2 DEF DropDue
<1> QED BY <1>1, <1>2 DEF DropDue

\* The folder moves, the readers and the handles do not: no link is made to an
\* inode that is open, and who takes a file from its path is to drop its handle.
LEMMA FolderMoves ==
    ASSUME CacheInv, ReadInv, NamesInv', UNCHANGED handle,
           \A r \in PartReaders : /\ reading'[r].at = reading[r].at /\ reading'[r].path = reading[r].path
                                  /\ reading'[r].inode = reading[r].inode
                                  /\ reading[r].seen \subseteq reading'[r].seen,
           \A r \in PartReaders : reading[r].at # "idle" =>
              disk'[reading[r].path] \in {disk[reading[r].path], NoFile} \cup reading'[r].seen,
           \A g \in AllFiles : disk'[g] = NoFile \/ (\E h \in AllFiles : disk[h] = disk'[g]) \/ Unused(disk'[g]),
           \A f \in Files : DropDue(f) => DropDue(f)',
           \A f \in Files : disk[f] # NoFile =>
              disk'[f] = disk[f] \/ (DropDue(f)' /\ \A g \in AllFiles : disk'[g] # disk[f])
    PROVE  ReadInv'
<1> USE ReadFacts
<1>2. ASSUME NEW f \in Files, KeptAt(disk, f, handle[f], DropDue(f))
      PROVE  KeptAt(disk', f, handle[f], DropDue(f)')
  <2>1. \A g \in AllFiles : handle[f] # NoFile /\ disk'[g] = handle[f] => \E h \in AllFiles : disk[h] = handle[f]
    BY DEF Unused
  <2>2. f \in AllFiles /\ (DropDue(f) => DropDue(f)')
    OBVIOUS
  <2>3. handle[f] # NoFile /\ disk[f] = handle[f] =>
            disk'[f] = handle[f] \/ (DropDue(f)' /\ \A g \in AllFiles : disk'[g] # handle[f])
    OBVIOUS
  <2> QED BY <1>2, <2>1, <2>2, <2>3 DEF KeptAt
<1>3. HandlesInv'
  BY <1>2 DEF ReadInv, HandlesInv
<1>4. ASSUME NEW r \in PartReaders, NEW f \in Files, KeptAt(disk, f, reading[r].inode, DropDue(f))
      PROVE  KeptAt(disk', f, reading[r].inode, DropDue(f)')
  <2>1. \A g \in AllFiles : reading[r].inode # NoFile /\ disk'[g] = reading[r].inode =>
            \E h \in AllFiles : disk[h] = reading[r].inode
    BY DEF Unused
  <2>2. f \in AllFiles /\ (DropDue(f) => DropDue(f)')
    OBVIOUS
  <2>3. reading[r].inode # NoFile /\ disk[f] = reading[r].inode =>
            disk'[f] = reading[r].inode \/ (DropDue(f)' /\ \A g \in AllFiles : disk'[g] # reading[r].inode)
    OBVIOUS
  <2> QED BY <1>4, <2>1, <2>2, <2>3 DEF KeptAt
<1>5. OpeningInv'
  BY <1>4 DEF ReadInv, OpeningInv, HasMutex
<1>6. SeenInv'
  BY DEF ReadInv, SeenInv
<1> QED BY <1>3, <1>5, <1>6 DEF ReadInv

\* Nothing of it moves.
LEMMA FolderFrame ==
    ASSUME CacheInv, ReadInv, UNCHANGED folder,
           \A a \in Agents : agent[a].does \in {"invalidate", "drop"} =>
              agent'[a].does \in {"invalidate", "drop"} /\ agent'[a].targets = agent[a].targets
    PROVE  ReadInv'
<1>1. UNCHANGED <<disk, handle, writes, reading>>
  BY DEF folder
<1>2. NamesInv'
  BY <1>1 DEF ReadInv, NamesInv, Unused, Uncreated
<1>3. \A f \in Files : DropDue(f) => DropDue(f)'
  BY <1>1, DueKept
<1> QED BY <1>1, <1>2, <1>3, FolderMoves

\* atomic_write, up to the invalidation.
LEMMA WritesKeepReads ==
    ASSUME CacheInv, ReadInv, NEW t \in DOMAIN writes, CreateTmp(t) \/ Rename(t) \/ WriteFails(t) \/ DropCaller(t)
    PROVE  ReadInv'
<1> USE ReadFacts
<1>1. UNCHANGED handle /\ UNCHANGED agent
  BY DEF CreateTmp, Rename, WriteFails, DropCaller, tasks
<1>2. PICK s \in {"tmp", "renamed", "lost", "done"} :
          WriteAt(t, s) /\ (writes[t].at \in {"renamed", "lost"} => s = "lost")
  BY DEF CreateTmp, Rename, WriteFails, DropCaller
<1>3. /\ DOMAIN writes' = DOMAIN writes /\ writes'[t].at = s
      /\ \A u \in DOMAIN writes : writes'[u].path = writes[u].path
      /\ \A u \in DOMAIN writes : u # t => writes'[u] = writes[u]
  <2>1. WritesOK
    BY DEF CacheInv, FolderInv
  <2> QED BY <1>2, <2>1, WriteAtKeeps
<1>4. \A f \in Files : DropDue(f) => DropDue(f)'
  BY <1>1, <1>2, <1>3, DueKept
<1>5. \A u \in TmpFiles : Uncreated(u)' => Uncreated(u) /\ u # t
  BY <1>2, <1>3 DEF Uncreated
<1>6. CASE UNCHANGED <<disk, reading>>
  <2>1. NamesInv'
    BY <1>1, <1>5, <1>6 DEF ReadInv, NamesInv, Unused
  <2> QED BY <1>1, <1>4, <1>6, <2>1, FolderMoves
<1>7. CASE CreateTmp(t)
  <2>1. /\ disk' = [disk EXCEPT ![t] = t] /\ UNCHANGED reading /\ t \in TmpFiles /\ Uncreated(t) /\ Unused(t)
    BY <1>7 DEF CreateTmp, ReadInv, NamesInv, Uncreated
  <2>2. NamesInv'
    BY <1>1, <1>5, <2>1 DEF ReadInv, NamesInv, Unused
  <2>3. \A f \in Files : disk'[f] = disk[f]
    BY <2>1
  <2>4. \A g \in AllFiles : disk'[g] = NoFile \/ (\E h \in AllFiles : disk[h] = disk'[g]) \/ Unused(disk'[g])
    <3>1. \A g \in AllFiles : disk'[g] = t \/ disk'[g] = disk[g]
      BY <2>1
    <3> QED BY <2>1, <3>1
  <2> QED BY <1>1, <1>4, <2>1, <2>2, <2>3, <2>4, FolderMoves
<1>8. CASE Rename(t)
  <2> DEFINE p == writes[t].path
             i == disk[t]
  <2>1. /\ p \in Files /\ i # NoFile /\ disk' = [disk EXCEPT ![p] = i, ![t] = NoFile] /\ t \in TmpFiles
        /\ reading' = [r \in PartReaders |->
              IF reading[r].path = p THEN [reading[r] EXCEPT !.seen = @ \cup {i}] ELSE reading[r]]
        /\ s = "renamed"
    BY <1>2, <1>3, <1>8 DEF Rename, Observe, WriteCalls, OnDisk, WriteAt
  <2>2. \A f \in AllFiles : disk'[f] = IF f = t THEN NoFile ELSE IF f = p THEN i ELSE disk[f]
    BY <2>1
  <2>3. \A r \in PartReaders : /\ reading'[r].at = reading[r].at /\ reading'[r].path = reading[r].path
                               /\ reading'[r].inode = reading[r].inode /\ reading[r].seen \subseteq reading'[r].seen
                               /\ reading[r].path = p => i \in reading'[r].seen
    <3> SUFFICES ASSUME NEW r \in PartReaders
                 PROVE  /\ reading'[r].at = reading[r].at /\ reading'[r].path = reading[r].path
                        /\ reading'[r].inode = reading[r].inode /\ reading[r].seen \subseteq reading'[r].seen
                        /\ reading[r].path = p => i \in reading'[r].seen
      OBVIOUS
    <3>1. reading[r] \in ReadCalls
      OBVIOUS
    <3>2. CASE reading[r].path = p
      <4>1. reading'[r] = [reading[r] EXCEPT !.seen = reading[r].seen \cup {i}]
        BY <2>1, <3>2
      <4> HIDE DEF p, i
      <4> QED BY <3>1, <4>1 DEF ReadCalls
    <3>3. CASE reading[r].path # p
      BY <2>1, <3>3
    <3> QED BY <3>2, <3>3
  <2>4. \A f \in Files : f = p => DropDue(f)'
    <3>1. writes'[t].path = p /\ writes'[t].at = "renamed" /\ t \in DOMAIN writes'
      BY <1>3, <2>1
    <3> HIDE DEF p
    <3> QED BY <3>1 DEF DropDue
  <2> HIDE DEF p, i
  <2>5. \A f, g \in AllFiles : disk[f] # NoFile /\ disk[f] = disk[g] => f = g
    BY DEF ReadInv, NamesInv
  <2>6. NamesInv'
    <3>1. ASSUME NEW f \in AllFiles, NEW g \in AllFiles, disk'[f] # NoFile, disk'[f] = disk'[g] PROVE f = g
      BY <2>2, <2>5, <3>1 DEF i
    <3>2. ASSUME NEW u \in TmpFiles, Uncreated(u)' PROVE Unused(u)'
      <4>1. Unused(u) /\ u # NoFile
        BY <1>5, <3>2 DEF ReadInv, NamesInv
      <4>2. \A f \in AllFiles : disk'[f] # u
        BY <2>2, <4>1 DEF Unused, i
      <4> QED BY <1>1, <2>3, <4>1, <4>2 DEF Unused
    <3> QED BY <3>1, <3>2 DEF NamesInv
  <2>7. \A r \in PartReaders : reading[r].at # "idle" =>
            disk'[reading[r].path] \in {disk[reading[r].path], NoFile} \cup reading'[r].seen
    BY <2>2, <2>3
  <2>8. \A g \in AllFiles : disk'[g] = NoFile \/ \E h \in AllFiles : disk[h] = disk'[g]
    BY <2>2 DEF i
  <2>9. \A f \in Files : disk[f] # NoFile =>
            disk'[f] = disk[f] \/ (DropDue(f)' /\ \A g \in AllFiles : disk'[g] # disk[f])
    <3> SUFFICES ASSUME NEW f \in Files, disk[f] # NoFile, disk'[f] # disk[f]
                 PROVE  DropDue(f)' /\ \A g \in AllFiles : disk'[g] # disk[f]
      OBVIOUS
    <3>1. f = p /\ f # t
      BY <2>1, <2>2
    <3> QED BY <2>2, <2>4, <2>5, <3>1 DEF i
  <2> QED BY <1>1, <1>4, <2>3, <2>6, <2>7, <2>8, <2>9, FolderMoves
<1> QED BY <1>6, <1>7, <1>8 DEF WriteFails, DropCaller

\* A new write takes a temporary name nobody used.
LEMMA BeginWriteKeepsReads == ASSUME CacheInv, ReadInv, NEW f \in Files, BeginWrite(f) PROVE ReadInv'
<1> USE ReadFacts
<1>1. UNCHANGED <<disk, handle, reading, agent>>
  BY DEF BeginWrite, tasks
<1>2. PICK new \in TmpFiles : new \notin DOMAIN writes /\
          writes' = [t \in DOMAIN writes \cup {new} |->
                       IF t = new THEN [path |-> f, at |-> "begun"] ELSE writes[t]]
  <2>1. \E t \in TmpFiles : t \notin DOMAIN writes
    BY DEF BeginWrite
  <2> QED BY <2>1 DEF BeginWrite
<1>3. \A t \in DOMAIN writes : t \in DOMAIN writes' /\ writes'[t] = writes[t]
  BY <1>2
<1>4. NamesInv'
  <2>1. \A t \in TmpFiles : Uncreated(t)' => Uncreated(t)
    BY <1>3 DEF Uncreated
  <2> QED BY <1>1, <2>1 DEF ReadInv, NamesInv, Unused
<1>5. \A g \in Files : DropDue(g) => DropDue(g)'
  BY <1>1, <1>3, DueKept
<1> QED BY <1>1, <1>4, <1>5, FolderMoves

\* Somebody drops the handle of p, which nobody is opening.
LEMMA DropKeepsReads ==
    ASSUME CacheInv, ReadInv, NEW p \in AllFiles, Invalidate(p), UNCHANGED <<disk, reading>>,
           \A t \in TmpFiles : Uncreated(t)' => Uncreated(t),
           \A f \in Files : f # p /\ DropDue(f) => DropDue(f)'
    PROVE  ReadInv'
<1> USE ReadFacts
<1>1. /\ handle' = [g \in Files |-> IF g = p THEN NoFile ELSE handle[g]]
      /\ \A r \in PartReaders : ~HasMutex(r)
  BY DEF Invalidate, CacheFree, HasMutex
<1>2. NamesInv'
  BY <1>1 DEF ReadInv, NamesInv, Unused
<1>3. HandlesInv'
  <2> SUFFICES ASSUME NEW f \in Files PROVE KeptAt(disk, f, handle'[f], DropDue(f)')
    BY DEF HandlesInv
  <2>1. CASE f = p
    BY <1>1, <2>1 DEF KeptAt
  <2>2. CASE f # p
    BY <1>1, <2>2 DEF ReadInv, HandlesInv, KeptAt
  <2> QED BY <2>1, <2>2
<1>4. OpeningInv' /\ SeenInv'
  BY <1>1 DEF ReadInv, OpeningInv, SeenInv, HasMutex
<1> QED BY <1>2, <1>3, <1>4 DEF ReadInv

\* get_or_open finds a handle of the file at the path, or pops a stale one.
LEMMA BeginReadKeepsReads ==
    ASSUME CacheInv, ReadInv, NEW r \in PartReaders, NEW f \in Files, BeginRead(r, f)
    PROVE  ReadInv'
<1> USE ReadFacts
<1>1. /\ UNCHANGED <<disk, writes, agent>> /\ f \in AllFiles
      /\ \A q \in PartReaders : ~HasMutex(q)
      /\ \A g \in Files : DropDue(g)' <=> DropDue(g)
  BY DEF BeginRead, tasks, CacheFree, HasMutex, DropDue
<1>2. PICK s \in {"open", "got"}, i \in Inodes :
          /\ reading' = [reading EXCEPT ![r] = [path |-> f, at |-> s, inode |-> i, seen |-> {disk[f]}]]
          /\ s = "got" => i # NoFile /\ i = handle[f] /\ Linked(i) /\ UNCHANGED handle
          /\ s = "open" => i = NoFile /\ handle' = [handle EXCEPT ![f] = NoFile]
  <2>1. CASE IsValid(f)
    <3>1. handle[f] \in Inodes
      OBVIOUS
    <3> QED BY <2>1, <3>1 DEF BeginRead, IsValid
  <2>2. CASE ~IsValid(f)
    BY <2>2 DEF BeginRead, Inodes
  <2> QED BY <2>1, <2>2
<1>3. /\ reading'[r].path = f /\ reading'[r].at = s /\ reading'[r].inode = i /\ reading'[r].seen = {disk[f]}
      /\ \A q \in PartReaders : q # r => reading'[q] = reading[q]
      /\ \A g \in Files : handle'[g] = handle[g] \/ (g = f /\ handle'[g] = NoFile)
      /\ s = "open" => handle'[f] = NoFile
      /\ i = NoFile \/ i = handle[f]
  BY <1>2
<1>4. NamesInv'
  BY <1>1, <1>3 DEF ReadInv, NamesInv, Unused, Uncreated
<1>5. HandlesInv'
  BY <1>1, <1>3 DEF ReadInv, HandlesInv, KeptAt
<1>6. OpeningInv'
  BY <1>1, <1>3 DEF ReadInv, OpeningInv, HasMutex
<1>7. SeenInv'
  <2>1. s = "got" => disk[f] = i
    BY <1>2 DEF ReadInv, HandlesInv, KeptAt, Linked
  <2> QED BY <1>1, <1>3, <2>1 DEF ReadInv, SeenInv
<1> QED BY <1>4, <1>5, <1>6, <1>7 DEF ReadInv

\* The file at the path is opened, under the mutex; then its handle is cached.
LEMMA OpenKeepsReads ==
    ASSUME CacheInv, ReadInv, NEW r \in PartReaders, OpenFile(r) \/ PushHandle(r)
    PROVE  ReadInv'
<1> USE ReadFacts
<1> DEFINE f == reading[r].path
<1>1. /\ UNCHANGED <<disk, agent>> /\ HasMutex(r) /\ f \in Files /\ f \in AllFiles /\ handle[f] = NoFile
      /\ \A q \in PartReaders : HasMutex(q) => q = r
  BY DEF OpenFile, PushHandle, tasks, HasMutex, ReadInv, OpeningInv
<1>2. CASE OpenFile(r)
  <2>1. UNCHANGED handle
    BY <1>2 DEF OpenFile
  <2>2. /\ DOMAIN writes' = DOMAIN writes
        /\ \A t \in DOMAIN writes :
              /\ writes'[t].path = writes[t].path
              /\ \/ writes'[t].at = writes[t].at
                 \/ writes[t].path = f /\ writes[t].at = "lost" /\ writes'[t].at = "done"
    <3>1. CASE UNCHANGED writes
      BY <3>1
    <3>2. CASE writes' = [t \in DOMAIN writes |->
                            IF writes[t].path = f /\ writes[t].at = "lost"
                            THEN [writes[t] EXCEPT !.at = "done"] ELSE writes[t]]
      <4> SUFFICES ASSUME NEW t \in DOMAIN writes
                   PROVE  /\ writes'[t].path = writes[t].path
                          /\ \/ writes'[t].at = writes[t].at
                             \/ writes[t].path = f /\ writes[t].at = "lost" /\ writes'[t].at = "done"
        BY <3>2
      <4>1. writes[t] \in WriteCalls
        OBVIOUS
      <4> HIDE DEF f
      <4>2. CASE writes[t].path = f /\ writes[t].at = "lost"
        <5>1. writes'[t] = [writes[t] EXCEPT !.at = "done"]
          BY <3>2, <4>2
        <5> QED BY <4>1, <4>2, <5>1 DEF WriteCalls
      <4>3. CASE ~(writes[t].path = f /\ writes[t].at = "lost")
        BY <3>2, <4>3
      <4> QED BY <4>2, <4>3
    <3> QED BY <1>2, <3>1, <3>2 DEF OpenFile
  <2>3. \A g \in Files : g # f /\ DropDue(g) => DropDue(g)'
    BY <1>1, <2>2, DueKept
  <2>4. PICK job \in ReadCalls :
            /\ reading' = [reading EXCEPT ![r] = job]
            /\ \/ job = NoRead
               \/ /\ disk[f] # NoFile /\ job.path = f /\ job.at = "push" /\ job.inode = disk[f]
                  /\ job.seen = reading[r].seen
    <3>1. CASE reading' = [reading EXCEPT ![r] = NoRead]
      <4>1. NoRead \in ReadCalls
        BY DEF NoRead, ReadCalls, Inodes
      <4> QED BY <3>1, <4>1
    <3>2. CASE f \in OnDisk /\ reading' = [reading EXCEPT ![r].at = "push", ![r].inode = disk[f]]
      <4> DEFINE i == disk[f]
                 job == [reading[r] EXCEPT !.at = "push", !.inode = i]
      <4>1. i \in Inodes /\ reading[r] \in ReadCalls /\ i # NoFile
        BY <1>1, <3>2 DEF OnDisk
      <4> HIDE DEF i
      <4>2. job \in ReadCalls /\ job.path = f /\ job.at = "push" /\ job.inode = i /\ job.seen = reading[r].seen
        BY <4>1 DEF ReadCalls
      <4>3. reading' = [reading EXCEPT ![r] = job]
        BY <3>2 DEF i
      <4> QED BY <4>1, <4>2, <4>3 DEF i
    <3> QED BY <1>2, <3>1, <3>2 DEF OpenFile
  <2>5. reading'[r] = job /\ \A q \in PartReaders : q # r => reading'[q] = reading[q]
    BY <2>4
  <2>6. NoRead.path = NoFile /\ NoRead.at = "idle" /\ NoRead.inode = NoFile
    BY DEF NoRead
  <2> HIDE DEF f
  <2>7. NamesInv'
    <3>1. \A t \in TmpFiles : Uncreated(t)' => Uncreated(t)
      BY <2>2 DEF Uncreated
    <3>2. job.inode = NoFile \/ job.inode = disk[f]
      BY <2>4, <2>6
    <3> QED BY <1>1, <2>1, <2>5, <3>1, <3>2 DEF ReadInv, NamesInv, Unused
  <2>8. HandlesInv'
    <3> SUFFICES ASSUME NEW g \in Files PROVE KeptAt(disk, g, handle[g], DropDue(g)')
      BY <1>1, <2>1 DEF HandlesInv
    <3> QED BY <1>1, <2>3 DEF ReadInv, HandlesInv, KeptAt
  <2>9. OpeningInv'
    <3>1. \A q \in PartReaders : HasMutex(q)' => q = r
      BY <1>1, <2>5 DEF HasMutex
    <3>2. job.at = "push" => job.path = f /\ job.inode = disk[f]
      BY <2>4, <2>6
    <3>3. HasMutex(r)' => job.at = "push"
      BY <2>4, <2>5, <2>6 DEF HasMutex
    <3>4. ASSUME NEW q \in PartReaders, NEW g \in Files, reading'[q].path = g, HasMutex(q)'
          PROVE  handle'[g] = NoFile /\ KeptAt(disk', g, reading'[q].inode, DropDue(g)')
      <4>1. q = r /\ g = f /\ reading'[q].inode = disk[g]
        BY <2>5, <3>1, <3>2, <3>3, <3>4
      <4> QED BY <1>1, <2>1, <4>1 DEF KeptAt
    <3>5. \A q \in PartReaders : reading'[q].at = "push" => HasMutex(q)'
      BY DEF HasMutex
    <3> QED BY <3>1, <3>4, <3>5 DEF OpeningInv
  <2>10. SeenInv'
    <3>1. reading[r].at # "idle" /\ (reading[r].at # "idle" => disk[f] \in reading[r].seen \cup {NoFile})
      BY <1>1 DEF ReadInv, SeenInv, HasMutex, f
    <3> QED BY <1>1, <2>4, <2>5, <2>6, <3>1 DEF ReadInv, SeenInv
  <2> QED BY <2>7, <2>8, <2>9, <2>10 DEF ReadInv
<1>3. CASE PushHandle(r)
  <2> DEFINE i == reading[r].inode
             job == [reading[r] EXCEPT !.at = "got"]
  <2>1. UNCHANGED writes /\ reading[r].at = "push" /\ KeptAt(disk, f, i, DropDue(f))
    BY <1>1, <1>3 DEF PushHandle, ReadInv, OpeningInv
  <2>2. \A g \in Files : DropDue(g)' <=> DropDue(g)
    BY <1>1, <2>1 DEF DropDue
  <2>3. /\ handle'[f] = i
        /\ \A g \in Files : g # f => handle'[g] = handle[g] \/ handle'[g] = NoFile
    BY <1>1, <1>3 DEF PushHandle
  <2>4. job.path = f /\ job.at = "got" /\ job.inode = i /\ job.seen = reading[r].seen
    <3>1. reading[r] \in ReadCalls
      OBVIOUS
    <3> QED BY <3>1 DEF ReadCalls
  <2>5. reading'[r] = job /\ \A q \in PartReaders : q # r => reading'[q] = reading[q]
    <3>1. reading' = [reading EXCEPT ![r] = job]
      BY <1>3 DEF PushHandle
    <3> QED BY <3>1
  <2> HIDE DEF job
  <2>6. NamesInv'
    BY <1>1, <2>1, <2>3, <2>4, <2>5 DEF ReadInv, NamesInv, Unused, Uncreated
  <2>7. HandlesInv'
    <3> SUFFICES ASSUME NEW g \in Files PROVE KeptAt(disk, g, handle'[g], DropDue(g)')
      BY <1>1 DEF HandlesInv
    <3>1. CASE g = f
      BY <2>1, <2>2, <2>3, <3>1 DEF KeptAt
    <3>2. CASE g # f
      BY <2>2, <2>3, <3>2 DEF ReadInv, HandlesInv, KeptAt
    <3> QED BY <3>1, <3>2
  <2>8. OpeningInv'
    <3>1. \A q \in PartReaders : ~HasMutex(q)' /\ reading'[q].at # "push"
      BY <1>1, <2>4, <2>5 DEF HasMutex
    <3> QED BY <3>1 DEF OpeningInv
  <2>9. SeenInv'
    BY <1>1, <2>1, <2>4, <2>5 DEF ReadInv, SeenInv
  <2> QED BY <2>6, <2>7, <2>8, <2>9 DEF ReadInv
<1> QED BY <1>2, <1>3

LEMMA FinishKeepsReads == ASSUME CacheInv, ReadInv, NEW r \in PartReaders, FinishRead(r) PROVE ReadInv'
<1> USE ReadFacts
<1>1. /\ UNCHANGED <<disk, handle, writes, agent>> /\ reading' = [reading EXCEPT ![r] = NoRead]
      /\ \A f \in Files : DropDue(f)' <=> DropDue(f)
  BY DEF FinishRead, tasks, DropDue
<1>2. /\ reading'[r] = NoRead /\ NoRead.at = "idle" /\ NoRead.inode = NoFile
      /\ \A q \in PartReaders : q # r => reading'[q] = reading[q]
  BY <1>1 DEF NoRead
<1>3. NamesInv' /\ HandlesInv'
  BY <1>1, <1>2 DEF ReadInv, NamesInv, HandlesInv, Unused, Uncreated, KeptAt
<1>4. OpeningInv'
  BY <1>1, <1>2 DEF ReadInv, OpeningInv, HasMutex, KeptAt
<1>5. SeenInv'
  BY <1>1, <1>2 DEF ReadInv, SeenInv
<1> QED BY <1>3, <1>4, <1>5 DEF ReadInv

\* The invalidations of a write, of an eviction and of a delete.
LEMMA InvalidationsKeepReads ==
    ASSUME CacheInv, ReadInv,
           \/ \E t \in DOMAIN writes : EndWrite(t)
           \/ DropHandle
           \/ \E a \in Agents : InvalidateRemoved(a)
    PROVE  ReadInv'
<1> USE ReadFacts
<1>0. TaskInv
  BY DEF CacheInv
<1>1. ASSUME NEW t \in DOMAIN writes, EndWrite(t) PROVE ReadInv'
  <2>0. WritesOK
    BY DEF CacheInv, FolderInv
  <2>1. /\ Invalidate(writes[t].path) /\ UNCHANGED <<disk, reading, agent>> /\ WriteAt(t, "done")
        /\ writes[t].path \in AllFiles
    BY <1>1 DEF EndWrite, tasks, WriteCalls
  <2>2. /\ DOMAIN writes' = DOMAIN writes /\ writes'[t].at = "done" /\ writes'[t].path = writes[t].path
        /\ \A u \in DOMAIN writes : u # t => writes'[u] = writes[u]
    BY <2>0, <2>1, WriteAtKeeps
  <2>3. \A u \in TmpFiles : Uncreated(u)' => Uncreated(u)
    BY <2>2 DEF Uncreated
  <2>4. \A f \in Files : f # writes[t].path /\ DropDue(f) => DropDue(f)'
    BY <2>1, <2>2, DueKept
  <2> QED BY <2>1, <2>3, <2>4, DropKeepsReads
<1>2. ASSUME NEW a \in Agents, InvalidateRemoved(a) \/ (a = "evictor" /\ DropHandle) PROVE ReadInv'
  <2> DEFINE p == Head(agent[a].targets)
  <2>1. /\ Invalidate(p) /\ UNCHANGED <<disk, reading, writes>> /\ agent[a].does \in {"invalidate", "drop"}
        /\ \A b \in Agents : b # a => agent'[b] = agent[b]
    BY <1>0, <1>2 DEF InvalidateRemoved, DropHandle, TaskInv
  <2>2. p \in AllFiles
    <3>1. agent[a].targets \in Seq(AllFiles) /\ agent[a].targets # <<>>
      BY <1>0, <2>1 DEF TaskInv, Tasks
    <3> QED BY <3>1, TailSet
  <2>3. \A u \in TmpFiles : Uncreated(u)' => Uncreated(u)
    BY <2>1 DEF Uncreated
  <2>4. \A f \in Files : f # p /\ DropDue(f) => DropDue(f)'
    BY <2>1, DueKept
  <2> HIDE DEF p
  <2> QED BY <2>1, <2>2, <2>3, <2>4, DropKeepsReads
<1>3. "evictor" \in Agents
  BY DEF Agents
<1> QED BY <1>1, <1>2, <1>3

\* A file is removed by somebody who goes on to drop its handle, or is not.
LEMMA RemovalsKeepReads ==
    ASSUME CacheInv, ReadInv, DeleteFile \/ \E a \in Agents : RemoveFile(a)
    PROVE  ReadInv'
<1> USE ReadFacts
<1>0. TaskInv /\ "evictor" \in Agents
  BY DEF CacheInv, Agents
<1>1. ASSUME NEW a \in Agents, RemoveFile(a) \/ (a = "evictor" /\ DeleteFile) PROVE ReadInv'
  <2> DEFINE p == Head(agent[a].targets)
  <2>1. /\ UNCHANGED <<handle, writes, reading>> /\ agent[a].does \in {"remove", "delete"} /\ agent[a].targets # <<>>
        /\ \A b \in Agents : b # a => agent'[b] = agent[b]
        /\ \/ UNCHANGED disk
           \/ Unlink(p) /\ agent'[a].does \in {"invalidate", "drop"} /\ agent'[a].targets = agent[a].targets
    <3>1. agent \in [Agents -> Tasks] /\ agent[a] \in Tasks
      BY <1>0 DEF TaskInv
    <3>2. CASE RemoveFile(a)
      BY <3>1, <3>2 DEF RemoveFile, Tasks
    <3>3. CASE a = "evictor" /\ DeleteFile
      BY <3>1, <3>3 DEF DeleteFile, Tasks
    <3> QED BY <1>1, <3>2, <3>3
  <2>2. \A f \in Files : DropDue(f) => DropDue(f)'
    BY <2>1, DueKept
  <2>3. p \in AllFiles
    <3>1. agent[a].targets \in Seq(AllFiles)
      BY <1>0 DEF TaskInv, Tasks
    <3> QED BY <2>1, <3>1, TailSet
  <2>4. CASE UNCHANGED disk
    <3>1. NamesInv'
      BY <2>1, <2>4 DEF ReadInv, NamesInv, Unused, Uncreated
    <3> QED BY <2>1, <2>2, <2>4, <3>1, FolderMoves
  <2>5. CASE Unlink(p) /\ agent'[a].does \in {"invalidate", "drop"} /\ agent'[a].targets = agent[a].targets
    <3>1. \A f \in AllFiles : disk'[f] = IF f = p THEN NoFile ELSE disk[f]
      BY <2>3, <2>5 DEF Unlink
    <3>2. \A f \in Files : f = p => DropDue(f)'
      BY <2>5 DEF DropDue
    <3> HIDE DEF p
    <3>3. \A f, g \in AllFiles : disk[f] # NoFile /\ disk[f] = disk[g] => f = g
      BY DEF ReadInv, NamesInv
    <3>4. NamesInv'
      <4>1. \A f, g \in AllFiles : disk'[f] # NoFile /\ disk'[f] = disk'[g] => f = g
        BY <3>1, <3>3
      <4>2. ASSUME NEW t \in TmpFiles, Uncreated(t)' PROVE Unused(t)'
        <5>1. Unused(t) /\ t # NoFile
          BY <2>1, <4>2 DEF ReadInv, NamesInv, Uncreated
        <5> QED BY <2>1, <3>1, <5>1 DEF Unused
      <4> QED BY <4>1, <4>2 DEF NamesInv
    <3>5. \A r \in PartReaders : reading[r].at # "idle" =>
              disk'[reading[r].path] \in {disk[reading[r].path], NoFile} \cup reading'[r].seen
      BY <3>1
    <3>6. \A g \in AllFiles : disk'[g] = NoFile \/ \E h \in AllFiles : disk[h] = disk'[g]
      BY <3>1
    <3>7. \A f \in Files : disk[f] # NoFile =>
              disk'[f] = disk[f] \/ (DropDue(f)' /\ \A g \in AllFiles : disk'[g] # disk[f])
      BY <3>1, <3>2, <3>3
    <3> QED BY <2>1, <2>2, <3>4, <3>5, <3>6, <3>7, FolderMoves
  <2> QED BY <2>1, <2>4, <2>5
<1> QED BY <1>0, <1>1

\* What the tasks do with their book concerns no reader.
LEMMA TasksKeepReads ==
    ASSUME CacheInv, ReadInv,
           \/ Start \/ Receive \/ ListEntry \/ EndDelete \/ Untrack \/ Scan
           \/ \E d \in Dirs : Delete(d)
           \/ \E f \in AllFiles : Visit(f)
           \/ \E a \in Agents : Track(a) \/ Pick(a) \/ Picks(a) \/ EndEviction(a)
    PROVE  ReadInv'
<1>0. TaskInv /\ agent \in [Agents -> Tasks] /\ "evictor" \in Agents /\ "scanner" \in Agents
  BY DEF CacheInv, TaskInv, Agents
<1>1. CASE Start \/ Scan \/ \E d \in Dirs : Delete(d)
  <2>1. UNCHANGED folder /\ UNCHANGED agent
    BY <1>1 DEF Start, Scan, Delete, tasks
  <2> QED BY <2>1, FolderFrame
<1>2. CASE Receive \/ ListEntry \/ EndDelete \/ Untrack
  <2>1. /\ UNCHANGED folder /\ agent["evictor"].does \notin {"invalidate", "drop"}
        /\ \A b \in Agents : b # "evictor" => agent'[b] = agent[b]
    BY <1>0, <1>2 DEF Receive, ListEntry, EndDelete, Untrack
  <2> QED BY <2>1, FolderFrame
<1>3. CASE \E f \in AllFiles : Visit(f)
  <2>1. /\ UNCHANGED folder /\ agent["scanner"].does \notin {"invalidate", "drop"}
        /\ \A b \in Agents : b # "scanner" => agent'[b] = agent[b]
    BY <1>0, <1>3 DEF Visit
  <2> QED BY <2>1, FolderFrame
<1>4. ASSUME NEW a \in Agents, Track(a) \/ Pick(a) \/ Picks(a) \/ EndEviction(a) PROVE ReadInv'
  <2>1. UNCHANGED folder /\ agent[a].does \notin {"invalidate", "drop"}
    BY <1>4 DEF Track, Pick, Picks, EndEviction
  <2>2. ASSUME NEW b \in Agents, b # a PROVE agent'[b].does = agent[b].does /\ agent'[b].targets = agent[b].targets
    <3>1. CASE Track(a)
      <4> DEFINE f == agent[a].work.path
      <4>1. f \in AllFiles
        BY <1>0, <3>1 DEF Track, TaskInv, FileJobs
      <4>2. agent'[b] = Overtaken(f, a)[b]
        <5>1. Overtaken(f, a) \in [Agents -> Tasks]
          BY <1>0, <4>1, OvertakenKeeps
        <5> QED BY <2>2, <3>1, <5>1 DEF Track
      <4> QED BY <1>0, <4>1, <4>2, OvertakenKeeps
    <3>2. CASE Pick(a) \/ Picks(a) \/ EndEviction(a)
      BY <1>0, <2>2, <3>2 DEF Pick, Picks, EndEviction
    <3> QED BY <1>4, <3>1, <3>2
  <2>3. \A b \in Agents : agent[b].does \in {"invalidate", "drop"} => b # a
    BY <2>1
  <2> QED BY <2>1, <2>2, <2>3, FolderFrame
<1> QED BY <1>1, <1>2, <1>3, <1>4

LEMMA RestartKeepsReads == ASSUME CacheInv, ReadInv, Restart PROVE ReadInv'
<1> USE ReadFacts
<1>1. /\ UNCHANGED disk /\ handle' = [f \in Files |-> NoFile] /\ reading' = [r \in PartReaders |-> NoRead]
      /\ DOMAIN writes' = DOMAIN writes
      /\ \A t \in DOMAIN writes : writes'[t] = [writes[t] EXCEPT !.at = "done"]
  BY DEF Restart
<1>2. \A t \in TmpFiles : Uncreated(t)' => Uncreated(t)
  <2>1. \A t \in DOMAIN writes : writes'[t].at = "done"
    BY <1>1 DEF WriteCalls
  <2> QED BY <1>1, <2>1 DEF Uncreated
<1>3. NoRead.at = "idle" /\ NoRead.inode = NoFile
  BY DEF NoRead
<1>4. NamesInv'
  BY <1>1, <1>2, <1>3 DEF ReadInv, NamesInv, Unused
<1>5. HandlesInv' /\ OpeningInv' /\ SeenInv'
  BY <1>1, <1>3 DEF HandlesInv, OpeningInv, SeenInv, HasMutex, KeptAt
<1> QED BY <1>4, <1>5 DEF ReadInv

LEMMA ReadStep == CacheInv /\ ReadInv /\ [PCNext]_pcVars => ReadInv'
<1> SUFFICES ASSUME CacheInv, ReadInv, [PCNext]_pcVars PROVE ReadInv'
  OBVIOUS
<1>0. "evictor" \in Agents /\ "scanner" \in Agents /\ \A f \in CacheLoads[load].files : f \in Files
  BY PartCacheAssumption DEF Agents, CacheInv, FolderInv
<1>1. CASE UNCHANGED pcVars
  BY <1>1, FolderFrame DEF pcVars, tasks
<1>2. CASE \E f \in CacheLoads[load].files : BeginWrite(f) \/ \E r \in PartReaders : BeginRead(r, f)
  BY <1>0, <1>2, BeginWriteKeepsReads, BeginReadKeepsReads
<1>3. CASE \E t \in DOMAIN writes : Writing(t)
  BY <1>3, WritesKeepReads, InvalidationsKeepReads DEF Writing
<1>4. CASE Opening \/ \E r \in PartReaders : FinishRead(r)
  BY <1>4, OpenKeepsReads, FinishKeepsReads DEF Opening
<1>5. CASE \E d \in Dirs : Delete(d)
  BY <1>5, TasksKeepReads
<1>6. CASE EvictorTask \/ ScannerTask
  BY <1>0, <1>6, TasksKeepReads, RemovalsKeepReads, InvalidationsKeepReads
     DEF EvictorTask, ScannerTask, DeleteCacheEntry, EvictStep
<1>7. CASE EvictorBooks \/ ScannerBooks
  BY <1>0, <1>7, TasksKeepReads DEF EvictorBooks, ScannerBooks
<1> QED BY <1>1, <1>2, <1>3, <1>4, <1>5, <1>6, <1>7, RestartKeepsReads DEF PCNext

\* FileHandleCache: however writers, readers, evictions, deletes and restarts
\* of one path overlap, a read is of a file that was at its path meanwhile, and
\* a handle of a file with no link left is due to be dropped.
THEOREM ReadsUseLiveFiles == PCSpec => []HandlesKeepUp
<1>1. CacheInv /\ ReadInv => HandlesKeepUp
  <2> SUFFICES ASSUME CacheInv, ReadInv PROVE HandlesKeepUp
    OBVIOUS
  <2>1. ReadsAreCurrent
    BY DEF ReadInv, SeenInv, ReadsAreCurrent
  <2>2. StaleHandlesGo
    <3>1. \A f \in Files : f \in AllFiles
      BY ReadFacts
    <3> QED BY <3>1 DEF ReadInv, HandlesInv, KeptAt, StaleHandlesGo, Linked
  <2> QED BY <2>1, <2>2 DEF HandlesKeepUp
<1>2. PCInit => ReadInv
  BY ReadsBegin
<1> QED BY <1>1, <1>2, CacheInvariant, ReadStep, PTL DEF PCSpec

\* evict_to_target_size: an eviction in which every removal succeeds ends at
\* the target size or with a single entry, whatever was reported meanwhile.
THEOREM EvictionsReachTarget == PCSpec => EvictionReachesTarget
<1>1. ASSUME CacheInv, NEW a \in Agents, EndEviction(a), ~agent[a].failed
      PROVE  bytes' <= TargetBytes \/ Cardinality(DOMAIN size') < 2
  <2>0. BookInv /\ TaskInv /\ EvictInv
    BY <1>1 DEF CacheInv
  <2>1. agent[a].does = "remove" /\ agent[a].targets = <<>> /\ RemoveAll(agent[a].deleted) /\ lock = a
    BY <1>1, <2>0 DEF EndEviction, TaskInv
  <2>2. Picked(a) = {}
    BY <2>1, EmptyList DEF Picked
  <2> DEFINE P == agent[a].deleted
  <2>3. P \subseteq Booked /\ Enough(P)
    <3>1. Picked(a) \cup P = P
      BY <2>2
    <3> QED BY <1>1, <2>0, <2>1, <3>1 DEF EvictInv
  <2>4. Booked' = Booked \ P /\ bytes' = bytes - Total(size, P \cap Booked) /\ P \cap Booked = P
    BY <2>0, <2>1, <2>3, RemoveAllKeeps
  <2> QED BY <2>3, <2>4 DEF Enough, Booked
<1>2. CacheInv /\ [PCNext]_pcVars =>
          [\A a \in Agents : EndEviction(a) /\ ~agent[a].failed =>
              bytes' <= TargetBytes \/ Cardinality(DOMAIN size') < 2]_pcVars
  BY <1>1
<1> QED BY <1>2, CacheInvariant, PTL DEF PCSpec, EvictionReachesTarget

-----------------------------------------------------------------------------
(* CachedObjectStore: rounding to parts *)

\* Multiples of the part size: the provers see them only through the lemmas.
Mul(q) == q * PartSize

LEMMA DivMod ==
    ASSUME NEW a \in Nat
    PROVE  /\ a \div PartSize \in Nat /\ a % PartSize \in 0..(PartSize - 1)
           /\ a = Mul(a \div PartSize) + (a % PartSize)
<1>0. PartSize \in Int /\ PartSize > 0 /\ PartSize \in Nat
  BY CachedStoreAssumption
<1>1. a \div PartSize \in Int
  BY <1>0
<1>2. a % PartSize \in 0..(PartSize - 1)
  BY <1>0
<1>3. a = PartSize * (a \div PartSize) + (a % PartSize)
  BY <1>0
<1>4. a \div PartSize \in Nat
  BY <1>0, <1>1, <1>2, <1>3
<1>5. \A x \in Int : PartSize * x = x * PartSize
  BY <1>0
<1> QED BY <1>1, <1>2, <1>3, <1>4, <1>5 DEF Mul

LEMMA MulFacts ==
    ASSUME NEW q \in Nat
    PROVE  /\ Mul(q) \in Nat /\ Mul(q + 1) = Mul(q) + PartSize /\ Mul(0) = 0
           /\ q # 0 => Mul(q - 1) = Mul(q) - PartSize
  BY CachedStoreAssumption DEF Mul

LEMMA MulMonotone ==
    ASSUME NEW p \in Nat, NEW q \in Nat, p < q
    PROVE  Mul(p) + PartSize <= Mul(q)
  BY CachedStoreAssumption DEF Mul

LEMMA MulDifference ==
    ASSUME NEW p \in Nat, NEW q \in Nat, p <= q
    PROVE  Mul(q - p) = Mul(q) - Mul(p)
  BY CachedStoreAssumption DEF Mul

LEMMA DivModUnique ==
    ASSUME NEW q \in Nat, NEW r \in 0..(PartSize - 1)
    PROVE  /\ (Mul(q) + r) \div PartSize = q /\ (Mul(q) + r) % PartSize = r
<1>1. Mul(q) + r \in Nat
  BY MulFacts, CachedStoreAssumption
<1> DEFINE a == Mul(q) + r  d == a \div PartSize
<1>2. d \in Nat /\ a % PartSize \in 0..(PartSize - 1) /\ a = Mul(d) + (a % PartSize)
  BY <1>1, DivMod
<1>3. PartSize \in Nat /\ a = Mul(q) + r
  BY CachedStoreAssumption
<1>4. ~(d < q)
  <2> SUFFICES ASSUME d < q PROVE FALSE
    OBVIOUS
  <2>1. Mul(d) + PartSize <= Mul(q)
    BY <1>2, MulMonotone
  <2>2. Mul(d) \in Nat /\ Mul(q) \in Nat
    BY <1>2, MulFacts
  <2> HIDE DEF d
  <2> QED BY <2>1, <2>2, <1>2, <1>3
<1>5. ~(q < d)
  <2> SUFFICES ASSUME q < d PROVE FALSE
    OBVIOUS
  <2>1. Mul(q) + PartSize <= Mul(d)
    BY <1>2, MulMonotone
  <2>2. Mul(d) \in Nat /\ Mul(q) \in Nat
    BY <1>2, MulFacts
  <2> HIDE DEF d
  <2> QED BY <2>1, <2>2, <1>2, <1>3
<1>6. d = q
  <2> HIDE DEF d, a
  <2> QED BY <1>2, <1>4, <1>5
<1>7. Mul(q) \in Nat
  BY MulFacts
<1> QED BY <1>2, <1>3, <1>6, <1>7

\* The number of parts of n bytes.
Ceil(n) == (n + PartSize - 1) \div PartSize

LEMMA CeilFacts ==
    ASSUME NEW n \in Nat
    PROVE  /\ Ceil(n) \in Nat /\ RoundedUp(n) = Mul(Ceil(n))
           /\ n <= Mul(Ceil(n)) /\ Mul(Ceil(n)) < n + PartSize
           /\ n % PartSize = 0 => Ceil(n) = n \div PartSize /\ Mul(Ceil(n)) = n
           /\ n % PartSize # 0 => Ceil(n) = (n \div PartSize) + 1 /\ Mul(n \div PartSize) < n
<1> DEFINE P == PartSize  q == n \div P  x == n % P
<1>0. P \in Nat /\ P > 0
  BY CachedStoreAssumption
<1>1. q \in Nat /\ x \in 0..(P - 1) /\ n = Mul(q) + x
  BY DivMod
<1>2. Mul(q) \in Nat /\ Mul(q + 1) = Mul(q) + P
  BY <1>1, MulFacts
<1>3. RoundedUp(n) = Mul(Ceil(n))
  BY DEF RoundedUp, Ceil, Mul
<1>4. CASE x = 0
  <2>1. n + P - 1 = Mul(q) + (P - 1) /\ P - 1 \in 0..(PartSize - 1)
    <3> HIDE DEF x, q
    <3> QED BY <1>0, <1>1, <1>2, <1>4
  <2>2. Ceil(n) = q
    BY <1>1, <2>1, DivModUnique DEF Ceil
  <2>3. Mul(Ceil(n)) = n
    <3> HIDE DEF x, q
    <3> QED BY <1>1, <1>2, <1>4, <2>2
  <2> QED BY <1>0, <1>1, <1>3, <1>4, <2>2, <2>3
<1>5. CASE x # 0
  <2>1. n + P - 1 = Mul(q + 1) + (x - 1) /\ x - 1 \in 0..(PartSize - 1)
    <3> HIDE DEF x, q
    <3> QED BY <1>0, <1>1, <1>2, <1>5
  <2>2. q + 1 \in Nat
    BY <1>1
  <2>3. Ceil(n) = q + 1
    BY <2>1, <2>2, DivModUnique DEF Ceil
  <2>4. n <= Mul(q + 1) /\ Mul(q + 1) < n + P /\ Mul(q) < n
    <3> HIDE DEF x, q
    <3> QED BY <1>0, <1>1, <1>2, <1>5
  <2> QED BY <1>3, <1>5, <2>2, <2>3, <2>4
<1> QED BY <1>4, <1>5

-----------------------------------------------------------------------------
(* CachedObjectStore: bytes *)

LEMMA BytesSeq ==
    ASSUME NEW s \in Nat, NEW e \in Nat, s <= e
    PROVE  /\ Bytes(s, e) \in Seq(Nat) /\ Len(Bytes(s, e)) = e - s
           /\ \A i \in 1..(e - s) : Bytes(s, e)[i] = s + i - 1
<1>1. e - s \in Nat
  OBVIOUS
<1> QED BY <1>1 DEF Bytes

LEMMA BytesSlice ==
    ASSUME NEW a \in Nat, NEW b \in Nat, a <= b,
           NEW x \in Nat, NEW y \in Nat, x <= y, y <= b - a
    PROVE  Slice(Bytes(a, b), x, y) = Bytes(a + x, a + y)
<1> DEFINE t == SubSeq(Bytes(a, b), x + 1, y)
<1>1. Bytes(a, b) \in Seq(Nat) /\ Len(Bytes(a, b)) = b - a /\ \A i \in 1..(b - a) : Bytes(a, b)[i] = a + i - 1
  BY BytesSeq
<1>2. t = [i \in 1..(y - x) |-> Bytes(a, b)[x + i]]
  BY <1>1
<1>3. Bytes(a + x, a + y) = [i \in 1..(y - x) |-> a + x + i - 1]
  BY DEF Bytes
<1>4. \A i \in 1..(y - x) : Bytes(a, b)[x + i] = a + x + i - 1
  BY <1>1
<1> QED BY <1>2, <1>3, <1>4 DEF Slice

LEMMA BytesConcat ==
    ASSUME NEW s \in Nat, NEW m \in Nat, NEW e \in Nat, s <= m, m <= e
    PROVE  Bytes(s, m) \o Bytes(m, e) = Bytes(s, e)
<1> DEFINE l == Bytes(s, m)  r == Bytes(m, e)
<1>1. /\ l \in Seq(Nat) /\ Len(l) = m - s /\ \A i \in 1..(m - s) : l[i] = s + i - 1
      /\ r \in Seq(Nat) /\ Len(r) = e - m /\ \A i \in 1..(e - m) : r[i] = m + i - 1
  BY BytesSeq
<1> HIDE DEF l, r
<1>2. /\ l \o r \in Seq(Nat) /\ Len(l \o r) = Len(l) + Len(r)
      /\ \A i \in 1..(Len(l) + Len(r)) : (l \o r)[i] = IF i <= Len(l) THEN l[i] ELSE r[i - Len(l)]
  BY <1>1, ConcatProperties
<1>3. Len(l) + Len(r) = e - s
  BY <1>1
<1>4. \A i \in 1..(e - s) : (l \o r)[i] = s + i - 1
  BY <1>1, <1>2, <1>3
<1>5. Bytes(s, e) \in Seq(Nat) /\ Len(Bytes(s, e)) = e - s /\ \A i \in 1..(e - s) : Bytes(s, e)[i] = s + i - 1
  BY BytesSeq
<1>6. l \o r = Bytes(s, e)
  BY <1>2, <1>3, <1>4, <1>5, SeqEqual
<1> QED BY <1>6 DEF l, r

LEMMA BytesReal ==
    ASSUME NEW s \in Nat, NEW e \in Nat, s < e
    PROVE  Bytes(s, e) # NoBytes
<1>0. s <= e /\ 1 \in 1..(e - s)
  OBVIOUS
<1>1. Bytes(s, e)[1] = s
  <2>1. \A i \in 1..(e - s) : Bytes(s, e)[i] = s + i - 1
    BY <1>0, BytesSeq
  <2> QED BY <1>0, <2>1
<1>2. NoBytes[1] = -1
  BY DEF NoBytes
<1> QED BY <1>1, <1>2

-----------------------------------------------------------------------------
(* CachedObjectStore: ranges *)

LEMMA RangeKinds ==
    ASSUME NEW q \in Ranges
    PROVE  \/ q = NoRange
           \/ \E s, e \in 0..(Word - 1) : q = Bounded(s, e)
           \/ \E s \in 0..(Word - 1) : q = Offset(s)
           \/ \E n \in 0..(Word - 1) : q = Suffix(n)
  BY DEF Ranges

LEMMA SizeFacts ==
    ASSUME NEW n \in Sizes
    PROVE  n \in Nat /\ n + PartSize <= Word /\ Word \in Nat /\ PartSize \in Nat /\ PartSize > 0
  BY CachedStoreAssumption

\* canonicalize_range reads a range as the inner store does, and what it
\* accepts lies in the object.
LEMMA SpanFacts ==
    ASSUME NEW q \in Ranges, NEW n \in Sizes
    PROVE  /\ CanonicalizeRange(q, n) = InnerRange(q, n)
           /\ InnerRange(q, n) # Invalid =>
                \E s, e \in Nat : /\ InnerRange(q, n) = <<s, e>> /\ e <= n
                                  /\ s < e \/ (s = n /\ e = n)
<1>0. n \in Nat /\ Word \in Nat
  BY SizeFacts
<1>1. CASE q = NoRange
  BY <1>0, <1>1 DEF NoRange, CanonicalizeRange, InnerRange
<1>2. ASSUME NEW s \in 0..(Word - 1), NEW e \in 0..(Word - 1), q = Bounded(s, e)
      PROVE  /\ CanonicalizeRange(q, n) = InnerRange(q, n)
             /\ InnerRange(q, n) # Invalid =>
                 /\ InnerRange(q, n) = <<s, Least(e, n)>> /\ Least(e, n) \in Nat
                 /\ Least(e, n) <= n /\ s < Least(e, n)
  BY <1>0, <1>2 DEF Bounded, CanonicalizeRange, InnerRange, Least
<1>3. ASSUME NEW s \in 0..(Word - 1), q = Offset(s)
      PROVE  /\ CanonicalizeRange(q, n) = InnerRange(q, n)
             /\ InnerRange(q, n) # Invalid => InnerRange(q, n) = <<s, n>> /\ s < n
  BY <1>0, <1>3 DEF Offset, CanonicalizeRange, InnerRange
<1>4. ASSUME NEW l \in 0..(Word - 1), q = Suffix(l)
      PROVE  /\ CanonicalizeRange(q, n) = InnerRange(q, n)
             /\ InnerRange(q, n) = <<Greatest(n - l, 0), n>>
             /\ Greatest(n - l, 0) \in Nat /\ Greatest(n - l, 0) <= n
  BY <1>0, <1>4 DEF Suffix, CanonicalizeRange, InnerRange, Greatest
<1> QED BY <1>0, <1>1, <1>2, <1>3, <1>4, RangeKinds

LEMMA WordMod ==
    ASSUME NEW n \in Nat, Word \in Nat, Word > 0
    PROVE  n % Word \in 0..(Word - 1) /\ (n < Word => n % Word = n)
  OBVIOUS

\* What the prefetch asks for: a valid request is covered, and the assertions
\* of save_get_result refuse only suffixes of objects that end inside a part
\* and ranges whose end wraps around.
LEMMA PrefetchFacts ==
    ASSUME NEW q \in Ranges, NEW n \in Sizes
    PROVE  LET a == InnerRange(AlignGetRange(q), n)
               w == InnerRange(q, n)
           IN  /\ a = Invalid /\ Fits(q) => w = Invalid
               /\ a # Invalid =>
                    /\ \E s, e \in Nat : a = <<s, e>> /\ s <= e /\ e <= n
                    /\ a[1] % PartSize # 0 => (q.kind = "suffix" /\ n % PartSize # 0) \/ ~Fits(q)
                    /\ a[2] % PartSize # 0 /\ a[2] # n => ~Fits(q)
                    /\ Fits(q) /\ w # Invalid => a[1] <= w[1] /\ w[2] <= a[2]
<1> DEFINE P == PartSize
           Goal(a, w) ==
               /\ a = Invalid /\ Fits(q) => w = Invalid
               /\ a # Invalid =>
                    /\ \E s, e \in Nat : a = <<s, e>> /\ s <= e /\ e <= n
                    /\ a[1] % P # 0 => (q.kind = "suffix" /\ n % P # 0) \/ ~Fits(q)
                    /\ a[2] % P # 0 /\ a[2] # n => ~Fits(q)
                    /\ Fits(q) /\ w # Invalid => a[1] <= w[1] /\ w[2] <= a[2]
<1>0. n \in Nat /\ Word \in Nat /\ P \in Nat /\ P > 0 /\ n + P <= Word
  BY SizeFacts
<1>m. \A c \in Nat : Mul(c) \in Nat /\ Mul(c) % P = 0
  <2> TAKE c \in Nat
  <2>1. Mul(c) \in Nat
    BY MulFacts
  <2>2. (Mul(c) + 0) % P = 0
    BY <1>0, DivModUnique
  <2> QED BY <2>1, <2>2
<1>d. ASSUME NEW s \in Nat
      PROVE  s - (s % P) \in Nat /\ s - (s % P) <= s /\ (s - (s % P)) % P = 0
  <2>1. s \div P \in Nat /\ s % P \in 0..(P - 1) /\ s = Mul(s \div P) + (s % P)
    BY DivMod
  <2>2. s - (s % P) = Mul(s \div P)
    BY <1>0, <1>m, <2>1
  <2> QED BY <1>0, <1>m, <2>1, <2>2
<1>r. ASSUME NEW e \in Nat
      PROVE  /\ RoundedUp(e) \in Nat /\ e <= RoundedUp(e) /\ RoundedUp(e) % P = 0
             /\ RoundedUp(e) % Word \in Nat
             /\ RoundedUp(e) < Word => RoundedUp(e) % Word = RoundedUp(e)
  <2>1. Ceil(e) \in Nat /\ RoundedUp(e) = Mul(Ceil(e)) /\ e <= Mul(Ceil(e))
    BY CeilFacts
  <2>2. RoundedUp(e) \in Nat /\ RoundedUp(e) % P = 0
    BY <1>m, <2>1
  <2> QED BY <1>0, <2>1, <2>2, WordMod
<1>1. CASE q = NoRange
  <2>1. AlignGetRange(q) = q /\ InnerRange(q, n) = <<0, n>>
    BY <1>1 DEF NoRange, AlignGetRange, InnerRange
  <2>2. 0 % P = 0
    BY <1>0
  <2> QED BY <1>0, <2>1, <2>2 DEF Invalid
<1>2. ASSUME NEW s \in 0..(Word - 1), NEW e \in 0..(Word - 1), q = Bounded(s, e)
      PROVE  Goal(InnerRange(AlignGetRange(q), n), InnerRange(q, n))
  <2> DEFINE b == s - (s % P)  c == RoundedUp(e) % Word
  <2>1. b \in Nat /\ b <= s /\ b % P = 0
    BY <1>d
  <2>2. c \in Nat /\ (Fits(q) => e <= c /\ c % P = 0)
    BY <1>0, <1>2, <1>r DEF Fits, Bounded
  <2>3. AlignGetRange(q) = Bounded(b, c)
    BY <1>2 DEF AlignGetRange, Bounded, AlignRange
  <2> HIDE DEF b, c
  <2>4. InnerRange(AlignGetRange(q), n) = IF c <= b \/ b >= n THEN Invalid ELSE <<b, Least(c, n)>>
    BY <2>3 DEF InnerRange, Bounded
  <2>5. InnerRange(q, n) = IF e <= s \/ s >= n THEN Invalid ELSE <<s, Least(e, n)>>
    BY <1>2 DEF InnerRange, Bounded
  <2>6. <<b, Least(c, n)>> # Invalid /\ <<s, Least(e, n)>> # Invalid
    BY <2>1 DEF Invalid
  <2>7. Least(c, n) \in Nat /\ Least(c, n) <= n /\ Least(c, n) \in {c, n}
        /\ (b < n /\ b < c => b <= Least(c, n)) /\ (e <= c => Least(e, n) <= Least(c, n))
    BY <1>0, <2>1, <2>2 DEF Least
  <2>8. Fits(q) /\ ~(e <= s \/ s >= n) => ~(c <= b \/ b >= n)
    BY <1>0, <2>1, <2>2
  <2> QED BY <1>0, <2>1, <2>2, <2>4, <2>5, <2>6, <2>7, <2>8
<1>3. ASSUME NEW s \in 0..(Word - 1), q = Offset(s)
      PROVE  Goal(InnerRange(AlignGetRange(q), n), InnerRange(q, n))
  <2> DEFINE b == s - (s % P)
  <2>1. b \in Nat /\ b <= s /\ b % P = 0
    BY <1>d
  <2>2. AlignGetRange(q) = Offset(b)
    BY <1>3 DEF AlignGetRange, Offset
  <2> HIDE DEF b
  <2>3. InnerRange(AlignGetRange(q), n) = IF b >= n THEN Invalid ELSE <<b, n>>
    BY <2>2 DEF InnerRange, Offset
  <2>4. InnerRange(q, n) = IF s >= n THEN Invalid ELSE <<s, n>>
    BY <1>3 DEF InnerRange, Offset
  <2>5. <<b, n>> # Invalid
    BY <2>1 DEF Invalid
  <2> QED BY <1>0, <2>1, <2>3, <2>4, <2>5
<1>4. ASSUME NEW l \in 0..(Word - 1), q = Suffix(l)
      PROVE  Goal(InnerRange(AlignGetRange(q), n), InnerRange(q, n))
  <2> DEFINE c == RoundedUp(l) % Word  b == Greatest(n - c, 0)
  <2>1. c \in Nat /\ (Fits(q) => l <= c)
    BY <1>0, <1>4, <1>r DEF Fits, Suffix
  <2>2. AlignGetRange(q) = Suffix(c)
    BY <1>4 DEF AlignGetRange, Suffix, AlignRange
  <2>3. InnerRange(AlignGetRange(q), n) = <<b, n>>
    BY <2>2 DEF InnerRange, Suffix
  <2>4. InnerRange(q, n) = <<Greatest(n - l, 0), n>>
    BY <1>4 DEF InnerRange, Suffix
  <2>5. Fits(q) /\ n % P = 0 => b % P = 0
    <3> SUFFICES ASSUME Fits(q), n % P = 0, n - c > 0 PROVE (n - c) % P = 0
      <4>1. 0 % P = 0
        BY <1>0
      <4> QED BY <1>0, <2>1, <4>1 DEF Greatest
    <3> DEFINE d == Ceil(l)  k == n \div P
    <3>1. d \in Nat /\ c = Mul(d)
      BY <1>0, <1>4, <1>r, CeilFacts DEF Fits, Suffix
    <3>2. k \in Nat /\ n = Mul(k)
      <4>1. k \in Nat /\ n = Mul(k) + (n % P)
        BY <1>0, DivMod
      <4> HIDE DEF k
      <4> QED BY <1>m, <4>1
    <3> HIDE DEF c, d, k
    <3>3. ~(k < d)
      <4> SUFFICES ASSUME k < d PROVE FALSE
        OBVIOUS
      <4>1. Mul(k) + P <= Mul(d)
        BY <3>1, <3>2, MulMonotone
      <4> QED BY <1>0, <3>1, <3>2, <4>1
    <3>4. n - c = Mul(k - d) /\ k - d \in Nat
      BY <3>1, <3>2, <3>3, MulDifference
    <3> QED BY <1>m, <3>4
  <2>6. q.kind = "suffix"
    BY <1>4 DEF Suffix
  <2> HIDE DEF c
  <2>7. b \in Nat /\ b <= n /\ (l <= c => b <= Greatest(n - l, 0))
    BY <1>0, <2>1 DEF Greatest
  <2> HIDE DEF b
  <2>8. <<b, n>> # Invalid
    BY <2>7 DEF Invalid
  <2> QED BY <1>0, <2>1, <2>3, <2>4, <2>5, <2>6, <2>7, <2>8
<1> HIDE DEF Goal
<1>5. Goal(InnerRange(AlignGetRange(q), n), InnerRange(q, n))
  BY <1>1, <1>2, <1>3, <1>4, RangeKinds DEF Goal
<1> QED BY <1>5 DEF Goal

-----------------------------------------------------------------------------
(* CachedObjectStore: parts *)

LEMMA PartIdFacts ==
    ASSUME Word \in Nat, Word > 0
    PROVE  /\ PartIds \subseteq Nat
           /\ \A p \in Nat : Mul(p) < Word => p \in PartIds
<1> DEFINE k == (Word - 1) \div PartSize
<1>0. PartSize \in Nat
  BY CachedStoreAssumption
<1>1. k \in Nat /\ (Word - 1) % PartSize \in 0..(PartSize - 1) /\ Word - 1 = Mul(k) + ((Word - 1) % PartSize)
  BY DivMod
<1>2. PartIds = 0..k
  BY DEF PartIds
<1> HIDE DEF k
<1>3. ASSUME NEW p \in Nat, Mul(p) < Word PROVE ~(k < p)
  <2> SUFFICES ASSUME k < p PROVE FALSE
    OBVIOUS
  <2>1. Mul(k) + PartSize <= Mul(p)
    BY <1>1, MulMonotone
  <2>2. Mul(k) \in Nat /\ Mul(p) \in Nat
    BY <1>1, MulFacts
  <2> QED BY <1>0, <1>1, <1>3, <2>1, <2>2
<1> QED BY <1>1, <1>2, <1>3

Wants == [id : PartIds, start : Nat, end : Nat]

LEMMA WantFacts ==
    ASSUME NEW t \in Seq(Wants), NEW i \in 1..Len(t)
    PROVE  t[i] \in Wants /\ t[i].id \in PartIds /\ t[i].start \in Nat /\ t[i].end \in Nat
<1>1. t[i] \in Wants
  BY ElementOfSeq
<1> QED BY <1>1 DEF Wants

\* The wants of t follow each other from byte pos to byte e.
Covers(t, pos, e) ==
    /\ t \in Seq(Wants)
    /\ t = <<>> => pos = e
    /\ t # <<>> => Mul(t[1].id) + t[1].start = pos
    /\ \A i \in 1..Len(t) :
          /\ t[i].start <= t[i].end /\ t[i].end <= PartSize
          /\ Mul(t[i].id) < e /\ Mul(t[i].id) + t[i].end <= e
          /\ Mul(t[i].id) + t[i].end = IF i = Len(t) THEN e ELSE Mul(t[i + 1].id) + t[i + 1].start

\* split_range_into_parts covers the range, with parts that meet it.
LEMMA SplitCovers ==
    ASSUME NEW n \in Sizes, NEW s \in Nat, NEW e \in Nat, s <= e, e <= n
    PROVE  LET t == SplitRangeIntoParts(<<s, e>>)
           IN  /\ Covers(t, s, e)
               /\ \A i \in 1..Len(t) : s < Mul(t[i].id) + PartSize
<1> DEFINE P == PartSize
           f == s \div P  x == s % P
           c == Ceil(e)   y == e % P
           N == c - f
           Want(i) == [id |-> f + i - 1, start |-> IF i = 1 THEN x ELSE 0,
                       end |-> IF i = N /\ y # 0 THEN y ELSE P]
           t == SplitRangeIntoParts(<<s, e>>)
<1>0. n \in Nat /\ Word \in Nat /\ P \in Nat /\ P > 0 /\ n + P <= Word
  BY SizeFacts
<1>1. f \in Nat /\ x \in 0..(P - 1) /\ s = Mul(f) + x
  BY DivMod
<1>2. /\ c \in Nat /\ e <= Mul(c) /\ Mul(c) < e + P /\ RoundedUp(e) = Mul(c)
      /\ y = 0 => Mul(c) = e
  BY CeilFacts
<1>3. y \in 0..(P - 1) /\ (y # 0 => c >= 1 /\ e = Mul(c - 1) + y)
  <2>1. e \div P \in Nat /\ y \in 0..(P - 1) /\ e = Mul(e \div P) + y
    BY DivMod
  <2>2. y # 0 => c = (e \div P) + 1
    BY CeilFacts
  <2>3. y # 0 => c - 1 = e \div P /\ c >= 1
    <3> HIDE DEF c, y
    <3> QED BY <2>1, <2>2
  <2> QED BY <2>1, <2>3
<1>4. Mul(f) \in Nat /\ Mul(c) \in Nat
  BY <1>1, <1>2, MulFacts
<1> HIDE DEF f, x, c, y
<1>5. f <= c
  <2> SUFFICES ASSUME c < f PROVE FALSE
    BY <1>1, <1>2
  <2>1. Mul(c) + P <= Mul(f)
    BY <1>1, <1>2, MulMonotone
  <2> QED BY <1>0, <1>1, <1>2, <1>4, <2>1
<1>6. t = [i \in 1..N |-> Want(i)]
  <2>1. AlignRange(s, e) = <<Mul(f), Mul(c)>>
    <3>1. Mul(c) % Word = Mul(c)
      BY <1>0, <1>2, <1>4, WordMod
    <3>2. s - (s % PartSize) = Mul(f)
      BY <1>0, <1>1, <1>4 DEF x
    <3> QED BY <1>2, <3>1, <3>2 DEF AlignRange
  <2>2. Mul(f) \div P = f /\ Mul(c) \div P = c
    <3>1. (Mul(f) + 0) \div P = f /\ (Mul(c) + 0) \div P = c
      BY <1>0, <1>1, <1>2, DivModUnique
    <3> QED BY <1>4, <3>1
  <2>3. Greatest((c - 1) - f + 1, 0) = N
    BY <1>1, <1>2, <1>5 DEF Greatest
  <2>4. t = [i \in 1..N |->
               [id |-> f + i - 1,
                start |-> IF f + i - 1 = f THEN x ELSE 0,
                end |-> IF f + i - 1 = c - 1 /\ y # 0 THEN y ELSE P]]
    BY <2>1, <2>2, <2>3 DEF SplitRangeIntoParts, x, y
  <2>5. \A i \in 1..N : (f + i - 1 = f <=> i = 1) /\ (f + i - 1 = c - 1 <=> i = N)
    BY <1>1, <1>2
  <2> QED BY <2>4, <2>5
<1> HIDE DEF t
<1>n. N \in Nat
  BY <1>1, <1>2, <1>5
<1>7. ASSUME NEW i \in 1..N
      PROVE  /\ f + i - 1 \in Nat /\ Mul(f + i - 1) \in Nat
             /\ Mul(f + i - 1) < e /\ s < Mul(f + i - 1) + P
             /\ Mul(f + i - 1) + P = Mul(f + i)
             /\ i = N => f + i = c
  <2> DEFINE p == f + i - 1
  <2>1. p \in Nat /\ p < c /\ f <= p /\ p + 1 = f + i /\ (i = N => f + i = c)
    BY <1>1, <1>2, <1>5
  <2> HIDE DEF p
  <2>2. Mul(p) \in Nat /\ Mul(p + 1) = Mul(p) + P
    BY <2>1, MulFacts
  <2>3. Mul(p) + P <= Mul(c)
    BY <1>2, <2>1, MulMonotone
  <2>4. Mul(f) <= Mul(p)
    <3>1. f = p \/ Mul(f) + P <= Mul(p)
      BY <1>1, <2>1, MulMonotone
    <3> QED BY <1>0, <1>4, <2>2, <3>1
  <2>5. Mul(p) < e /\ s < Mul(p) + P
    BY <1>0, <1>1, <1>2, <1>4, <2>2, <2>3, <2>4
  <2> QED BY <2>1, <2>2, <2>5 DEF p
<1>8. ASSUME NEW i \in 1..N PROVE Want(i) \in Wants
  <2>1. Mul(f + i - 1) < Word /\ Word > 0
    BY <1>0, <1>7
  <2>2. f + i - 1 \in PartIds
    BY <1>0, <1>7, <2>1, PartIdFacts
  <2> QED BY <1>0, <1>1, <1>3, <2>2 DEF Wants
<1>9. t \in Seq(Wants) /\ Len(t) = N /\ \A i \in 1..N : t[i] = Want(i)
  BY <1>6, <1>8, <1>n
<1>10. t = <<>> => s = e
  <2> SUFFICES ASSUME t = <<>> PROVE s = e
    OBVIOUS
  <2>1. f = c
    BY <1>1, <1>2, <1>9
  <2> QED BY <1>1, <1>2, <1>4, <2>1
<1>11. t # <<>> => Mul(t[1].id) + t[1].start = s
  <2> SUFFICES ASSUME t # <<>> PROVE Mul(t[1].id) + t[1].start = s
    OBVIOUS
  <2>1. 1 \in 1..N
    BY <1>9, <1>n
  <2>2. t[1].id = f /\ t[1].start = x
    BY <1>1, <1>9, <2>1
  <2> QED BY <1>1, <2>2
<1>12. ASSUME NEW i \in 1..N
       PROVE  /\ t[i].start <= t[i].end /\ t[i].end <= P
              /\ Mul(t[i].id) < e /\ Mul(t[i].id) + t[i].end <= e
              /\ Mul(t[i].id) + t[i].end = IF i = N THEN e ELSE Mul(t[i + 1].id) + t[i + 1].start
              /\ s < Mul(t[i].id) + P
  <2>1. t[i] = Want(i) /\ t[i].id = f + i - 1
    BY <1>9
  <2>2. CASE i # N
    <3>1. i + 1 \in 1..N /\ i + 1 # 1 /\ f + (i + 1) - 1 = f + i
      BY <1>1, <1>n, <2>2
    <3>2. t[i].end = P /\ t[i].start \in 0..P
      BY <1>0, <1>1, <2>1, <2>2
    <3>3. t[i + 1].id = f + i /\ t[i + 1].start = 0
      BY <1>9, <3>1
    <3>4. Mul(f + i) < e /\ Mul(f + i) \in Nat
      BY <1>7, <3>1
    <3> QED BY <1>0, <1>7, <2>1, <2>2, <3>2, <3>3, <3>4
  <2>3. CASE i = N
    <3>1. f + i = c /\ f + i - 1 = c - 1 /\ Mul(c - 1) \in Nat /\ Mul(c - 1) + P = Mul(c)
      BY <1>1, <1>2, <1>7, <2>3
    <3>2. Mul(t[i].id) + t[i].end = e /\ t[i].end <= P
      <4>1. CASE y = 0
        BY <1>0, <1>2, <2>1, <2>3, <3>1, <4>1
      <4>2. CASE y # 0
        BY <1>0, <1>3, <2>1, <2>3, <3>1, <4>2
      <4> QED BY <4>1, <4>2
    <3>3. t[i].start <= t[i].end
      <4>1. CASE i # 1
        BY <1>0, <1>3, <2>1, <4>1
      <4>2. CASE i = 1
        <5>1. t[i].id = f /\ t[i].start = x /\ t[i].end \in Nat
          BY <1>0, <1>1, <1>3, <2>1, <4>2
        <5> QED BY <1>1, <1>4, <3>2, <5>1
      <4> QED BY <4>1, <4>2
    <3> QED BY <1>0, <1>7, <2>1, <2>3, <3>2, <3>3
  <2> QED BY <2>2, <2>3
<1>13. Covers(t, s, e)
  BY <1>9, <1>10, <1>11, <1>12 DEF Covers
<1>14. \A i \in 1..Len(t) : s < Mul(t[i].id) + P
  BY <1>9, <1>12
<1> QED BY <1>13, <1>14 DEF t

PartEnd(p) == Least((p + 1) * PartSize, objSize)

\* A cached part is a part of the object, byte for byte.
FilesInv ==
    /\ part \in [PartIds -> Seq(Int)]
    /\ \A p \in PartIds :
          part[p] # NoBytes => Mul(p) < objSize /\ part[p] = Bytes(Mul(p), PartEnd(p))

KeepsParts == \A p \in PartIds : part[p] # NoBytes => part'[p] # NoBytes

LEMMA PartFacts ==
    ASSUME objSize \in Sizes, NEW p \in PartIds, Mul(p) < objSize
    PROVE  /\ p \in Nat /\ Mul(p) \in Nat /\ PartEnd(p) \in Nat
           /\ Mul(p) < PartEnd(p) /\ Mul(p) <= PartEnd(p)
           /\ PartEnd(p) <= objSize /\ PartEnd(p) <= Mul(p) + PartSize
           /\ PartEnd(p) = Least(Mul(p) + PartSize, objSize)
           /\ Bytes(Mul(p), PartEnd(p)) \in Seq(Int) /\ Bytes(Mul(p), PartEnd(p)) # NoBytes
           /\ Len(Bytes(Mul(p), PartEnd(p))) = PartEnd(p) - Mul(p)
<1>0. objSize \in Nat /\ Word \in Nat /\ Word > 0 /\ PartSize \in Nat /\ PartSize > 0
  BY SizeFacts
<1>1. p \in Nat
  BY <1>0, PartIdFacts
<1>2. Mul(p) \in Nat /\ (p + 1) * PartSize = Mul(p) + PartSize
  BY <1>1, MulFacts DEF Mul
<1>3. /\ PartEnd(p) \in Nat /\ Mul(p) < PartEnd(p) /\ Mul(p) <= PartEnd(p) /\ PartEnd(p) <= objSize
      /\ PartEnd(p) <= Mul(p) + PartSize /\ PartEnd(p) = Least(Mul(p) + PartSize, objSize)
  BY <1>0, <1>2 DEF PartEnd, Least
<1>4. /\ Bytes(Mul(p), PartEnd(p)) \in Seq(Nat)
      /\ Len(Bytes(Mul(p), PartEnd(p))) = PartEnd(p) - Mul(p)
  BY <1>2, <1>3, BytesSeq
<1>5. Bytes(Mul(p), PartEnd(p)) # NoBytes
  BY <1>2, <1>3, BytesReal
<1> QED BY <1>1, <1>2, <1>3, <1>4, <1>5

LEMMA CutPart ==
    ASSUME NEW f \in Nat, NEW e \in Nat, NEW p \in Nat, f <= p, Mul(p) < e
    PROVE  SubSeq(Bytes(Mul(f), e), (p - f) * PartSize + 1, Least((p - f + 1) * PartSize, e - Mul(f)))
             = Bytes(Mul(p), Least(Mul(p) + PartSize, e))
<1> DEFINE a == Mul(f)  x == Mul(p) - a  y == Least(x + PartSize, e - a)
<1>0. PartSize \in Nat /\ p - f \in Nat
  BY CachedStoreAssumption
<1>1. Mul(f) \in Nat /\ Mul(p) \in Nat /\ Mul(p - f) = Mul(p) - Mul(f) /\ Mul(p - f) \in Nat
  BY <1>0, MulFacts, MulDifference
<1>2. Mul(p - f + 1) = Mul(p - f) + PartSize
  BY <1>0, MulFacts
<1>3. (p - f) * PartSize = x /\ Least((p - f + 1) * PartSize, e - Mul(f)) = y
  BY <1>1, <1>2 DEF Mul
<1>4. /\ a \in Nat /\ x \in Nat /\ y \in Nat /\ a <= e /\ x <= y /\ y <= e - a
      /\ a + x = Mul(p) /\ a + y = Least(Mul(p) + PartSize, e)
  BY <1>0, <1>1 DEF Least
<1> HIDE DEF a, x, y
<1>5. Slice(Bytes(a, e), x, y) = Bytes(a + x, a + y)
  BY <1>4, BytesSlice
<1>6. SubSeq(Bytes(a, e), x + 1, y) = Bytes(a + x, a + y)
  BY <1>5 DEF Slice
<1> QED BY <1>3, <1>4, <1>6 DEF a

\* save_parts_stream: a stream that starts on a part and ends on one, or with
\* the object, is cut into exact parts; n of them are saved.
LEMMA SavedExact ==
    ASSUME objSize \in Sizes, FilesInv, objSize' = objSize,
           NEW f \in Nat, NEW e \in Nat, Mul(f) <= e, e <= objSize,
           e % PartSize = 0 \/ e = objSize,
           NEW n \in 0..PartCount(Bytes(Mul(f), e)),
           part' = SavePartsStream(Bytes(Mul(f), e), f, n)
    PROVE  /\ FilesInv' /\ KeepsParts
           /\ n = PartCount(Bytes(Mul(f), e)) =>
                \A p \in PartIds : f <= p /\ Mul(p) < e => part'[p] # NoBytes
<1> DEFINE P == PartSize  l == e - Mul(f)
           Saved(p) == p \in f..(f + n - 1)
<1>0. objSize \in Nat /\ Word \in Nat /\ Word > 0 /\ P \in Nat /\ P > 0
  BY SizeFacts
<1>1. Mul(f) \in Nat /\ l \in Nat
  BY MulFacts
<1>2. Len(Bytes(Mul(f), e)) = l
  BY <1>1, BytesSeq
<1>3. /\ PartCount(Bytes(Mul(f), e)) = Ceil(l) /\ Ceil(l) \in Nat
      /\ l <= Mul(Ceil(l)) /\ Mul(Ceil(l)) < l + P /\ Mul(Ceil(l)) \in Nat
  BY <1>1, <1>2, CeilFacts, MulFacts DEF PartCount, Ceil
<1> HIDE DEF l
<1>4. ASSUME NEW p \in PartIds, Saved(p)
      PROVE  Mul(p) < objSize /\ part'[p] = Bytes(Mul(p), PartEnd(p))
  <2> DEFINE k == p - f
  <2>1. p \in Nat /\ k \in Nat /\ k < Ceil(l) /\ f <= p
    BY <1>3, <1>4, <1>0, PartIdFacts
  <2>2. Mul(k) \in Nat /\ Mul(p) \in Nat /\ Mul(k) = Mul(p) - Mul(f)
    BY <2>1, MulFacts, MulDifference
  <2>3. Mul(k) + P <= Mul(Ceil(l))
    BY <1>3, <2>1, MulMonotone
  <2>4. Mul(p) < e
    BY <1>0, <1>1, <1>3, <2>2, <2>3 DEF l
  <2>5. part'[p] = SubSeq(Bytes(Mul(f), e), (p - f) * PartSize + 1, Least((p - f + 1) * PartSize, e - Mul(f)))
    BY <1>2, <1>4 DEF SavePartsStream, l
  <2>7. part'[p] = Bytes(Mul(p), Least(Mul(p) + P, e))
    BY <2>1, <2>4, <2>5, CutPart
  <2>8. Mul(p) < objSize
    BY <1>0, <2>2, <2>4
  <2>9. Least(Mul(p) + P, e) = PartEnd(p)
    <3>1. PartEnd(p) = Least(Mul(p) + P, objSize)
      BY <2>8, PartFacts
    <3>3. CASE e = objSize
      BY <3>1, <3>3
    <3>4. CASE e % P = 0
      <4> DEFINE c == e \div P
      <4>1. c \in Nat /\ e = Mul(c) + (e % P)
        BY DivMod
      <4>2. Mul(c) \in Nat /\ e = Mul(c)
        BY <3>4, <4>1, MulFacts
      <4> HIDE DEF c
      <4>3. p < c
        <5> SUFFICES ASSUME c <= p PROVE FALSE
          BY <2>1, <4>1
        <5>1. c = p \/ Mul(c) + P <= Mul(p)
          BY <2>1, <4>1, MulMonotone
        <5> QED BY <1>0, <2>2, <2>4, <4>2, <5>1
      <4>4. Mul(p) + P <= e
        BY <2>1, <4>1, <4>2, <4>3, MulMonotone
      <4> QED BY <1>0, <2>2, <3>1, <4>4 DEF Least
    <3> QED BY <3>3, <3>4
  <2> QED BY <2>7, <2>8, <2>9
<1>5. ASSUME NEW p \in PartIds, ~Saved(p) PROVE part'[p] = part[p]
  BY <1>5 DEF SavePartsStream
<1>6. ASSUME NEW p \in PartIds
      PROVE  /\ part'[p] \in Seq(Int)
             /\ part'[p] # NoBytes => Mul(p) < objSize /\ part'[p] = Bytes(Mul(p), PartEnd(p))
             /\ part[p] # NoBytes \/ Saved(p) => part'[p] # NoBytes
  <2>1. CASE Saved(p)
    BY <1>4, <2>1, PartFacts
  <2>2. CASE ~Saved(p)
    BY <1>5, <2>2 DEF FilesInv
  <2> QED BY <2>1, <2>2
<1>7. FilesInv'
  <2>1. part' = [p \in PartIds |-> part'[p]]
    BY DEF SavePartsStream
  <2>2. part' \in [PartIds -> Seq(Int)]
    BY <1>6, <2>1
  <2>3. \A p \in PartIds : PartEnd(p)' = PartEnd(p)
    BY DEF PartEnd
  <2> QED BY <1>6, <2>2, <2>3 DEF FilesInv
<1>8. ASSUME n = Ceil(l), NEW p \in PartIds, f <= p, Mul(p) < e PROVE Saved(p)
  <2> DEFINE k == p - f
  <2>1. p \in Nat /\ k \in Nat
    BY <1>0, <1>8, PartIdFacts
  <2>2. Mul(k) = Mul(p) - Mul(f) /\ Mul(k) \in Nat /\ Mul(p) \in Nat
    BY <1>8, <2>1, MulFacts, MulDifference
  <2>3. k < Ceil(l)
    <3> SUFFICES ASSUME Ceil(l) <= k PROVE FALSE
      BY <1>3, <2>1
    <3>1. Ceil(l) = k \/ Mul(Ceil(l)) + P <= Mul(k)
      BY <1>3, <2>1, MulMonotone
    <3> QED BY <1>0, <1>1, <1>3, <1>8, <2>2, <3>1 DEF l
  <2> QED BY <1>3, <1>8, <2>1, <2>3
<1> QED BY <1>3, <1>6, <1>7, <1>8 DEF KeepsParts

\* What a part of the list takes from an exact part is the next stretch.
LEMMA SliceOfPart ==
    ASSUME objSize \in Sizes, NEW w \in Wants, w.start <= w.end,
           Mul(w.id) < objSize, w.end <= PartEnd(w.id) - Mul(w.id)
    PROVE  Slice(Bytes(Mul(w.id), PartEnd(w.id)), w.start, w.end)
             = Bytes(Mul(w.id) + w.start, Mul(w.id) + w.end)
<1>1. w.id \in PartIds /\ w.start \in Nat /\ w.end \in Nat
  BY DEF Wants
<1>2. Mul(w.id) \in Nat /\ PartEnd(w.id) \in Nat /\ Mul(w.id) <= PartEnd(w.id)
  BY <1>1, PartFacts, Zenon
<1> QED BY <1>1, <1>2, BytesSlice

\* Delivering the first want leaves the rest covered.
LEMMA CoversTail ==
    ASSUME NEW t, NEW pos \in Nat, NEW e \in Nat, Covers(t, pos, e), t # <<>>
    PROVE  Covers(Tail(t), Mul(t[1].id) + t[1].end, e)
<1>1. t \in Seq(Wants) /\ Len(t) \in Nat /\ Len(t) >= 1
  BY DEF Covers
<1> DEFINE u == Tail(t)
<1>2. u \in Seq(Wants) /\ Len(u) = Len(t) - 1 /\ \A i \in 1..Len(u) : u[i] = t[i + 1]
  BY <1>1, HeadTailProperties
<1> HIDE DEF u
<1>3. u = <<>> <=> Len(u) = 0
  BY <1>2, EmptySeq
<1>4. u = <<>> => Mul(t[1].id) + t[1].end = e
  BY <1>1, <1>2, <1>3 DEF Covers
<1>5. u # <<>> => Mul(u[1].id) + u[1].start = Mul(t[1].id) + t[1].end
  BY <1>1, <1>2, <1>3 DEF Covers
<1>6. ASSUME NEW i \in 1..Len(u)
      PROVE  /\ u[i].start <= u[i].end /\ u[i].end <= PartSize
             /\ Mul(u[i].id) < e /\ Mul(u[i].id) + u[i].end <= e
             /\ Mul(u[i].id) + u[i].end = IF i = Len(u) THEN e ELSE Mul(u[i + 1].id) + u[i + 1].start
  <2>1. i + 1 \in 1..Len(t) /\ u[i] = t[i + 1] /\ (i = Len(u) <=> i + 1 = Len(t))
    BY <1>1, <1>2
  <2>2. i # Len(u) => u[i + 1] = t[(i + 1) + 1]
    BY <1>1, <1>2
  <2> QED BY <2>1, <2>2, Zenon DEF Covers
<1> QED BY <1>2, <1>4, <1>5, <1>6, Zenon DEF Covers, u

-----------------------------------------------------------------------------
(* CachedObjectStore: reads *)

StoreTypes ==
    /\ demand \in DOMAIN StoreLoads /\ objSize \in Sizes
    /\ upstream \in {"absent", "present", "deleted"}
    /\ putter \in {"start", "parts", "head", "done"} /\ deleter \in {"start", "entry", "done"}
    /\ head \in BOOLEAN
    /\ stage \in [Readers -> {"idle", "prefetch", "head", "parts", "done"}]
    /\ answer \in [Readers -> {"none", "ok", "error", "panic"}]
    /\ meta \in [Readers -> Sizes \cup {-1}] /\ reads \in [Readers -> 0..MaxReads]
    /\ request \in [Readers -> Ranges] /\ todo \in [Readers -> Seq(Wants)]
    /\ got \in [Readers -> Seq(Nat)] /\ gets \in [Readers -> Nat]
    /\ prefetched \in [Readers -> BOOLEAN] /\ faulty \in [Readers -> BOOLEAN]

\* How far into the object reader r has been served.
Reached(r) == Expected(r)[1] + Len(got[r])

Sent(r) ==
    /\ Expected(r) # Invalid
    /\ got[r] = Bytes(Expected(r)[1], Reached(r)) /\ Reached(r) <= Expected(r)[2]

\* A read whose prefetch succeeded finds every part it still wants.
Cached(r) == \A i \in 1..Len(todo[r]) : part[todo[r][i].id] # NoBytes

Answered(r) ==
    /\ answer[r] = "ok" => Expected(r) # Invalid /\ got[r] = Bytes(Expected(r)[1], Expected(r)[2])
    /\ answer[r] = "error" /\ ~faulty[r] /\ Fits(request[r]) => Expected(r) = Invalid
    /\ answer[r] = "panic" => (request[r].kind = "suffix" /\ objSize % PartSize # 0) \/ ~Fits(request[r])

ReaderInv(r) ==
    /\ stage[r] # "done" => answer[r] = "none"
    /\ stage[r] \in {"idle", "head", "prefetch"} => got[r] = <<>> /\ gets[r] = 0
    /\ stage[r] \in {"idle", "head"} => ~prefetched[r]
    /\ stage[r] = "parts" =>
          meta[r] = objSize /\ Sent(r) /\ Covers(todo[r], Reached(r), Expected(r)[2])
    /\ got[r] # <<>> => Sent(r)
    /\ prefetched[r] /\ ~faulty[r] /\ Fits(request[r]) =>
          gets[r] <= 1 /\ (stage[r] = "parts" => Cached(r))
    /\ Answered(r)

StoreInv == StoreTypes /\ FilesInv /\ \A r \in Readers : ReaderInv(r)

LEMMA ExpectedFacts ==
    ASSUME StoreTypes, NEW r \in Readers, Expected(r) # Invalid
    PROVE  \E s, e \in Nat : Expected(r) = <<s, e>> /\ s <= e /\ e <= objSize
<1>1. request[r] \in Ranges /\ objSize \in Sizes
  BY DEF StoreTypes
<1>2. objSize \in Nat
  BY <1>1, SizeFacts
<1> QED BY <1>1, <1>2, SpanFacts DEF Expected

LEMMA StoreInit == CSInit => StoreInv
<1> SUFFICES ASSUME CSInit PROVE StoreInv
  OBVIOUS
<1>1. NoRange \in Ranges
  BY DEF Ranges
<1>2. <<>> \in Seq(Wants) /\ <<>> \in Seq(Nat) /\ NoBytes \in Seq(Int)
  BY DEF NoBytes
<1>3. StoreTypes
  <2>1. objSize \in Sizes /\ 0 \in 0..MaxReads
    BY CachedStoreAssumption DEF CSInit
  <2> HIDE DEF Ranges, Wants
  <2> QED BY <1>1, <1>2, <2>1 DEF CSInit, StoreTypes
<1>4. FilesInv
  BY <1>2 DEF CSInit, FilesInv
<1>5. \A r \in Readers : ReaderInv(r)
  BY DEF CSInit, ReaderInv, Answered
<1> QED BY <1>3, <1>4, <1>5 DEF StoreInv

\* A reader that does not move keeps its invariant if no part is lost, or if
\* the loss is marked as a fault.
LEMMA ReaderKept ==
    ASSUME NEW r \in Readers, StoreTypes, ReaderInv(r), objSize' = objSize,
           stage'[r] = stage[r], request'[r] = request[r], meta'[r] = meta[r], todo'[r] = todo[r],
           got'[r] = got[r], answer'[r] = answer[r], gets'[r] = gets[r], prefetched'[r] = prefetched[r],
           faulty[r] => faulty'[r], KeepsParts \/ faulty'[r]
    PROVE  ReaderInv(r)'
<1>1. /\ Expected(r)' = Expected(r) /\ Reached(r)' = Reached(r)
  BY DEF Expected, Reached
<1>2. Sent(r)' <=> Sent(r)
  BY <1>1 DEF Sent
<1>3. Answered(r)'
  BY <1>1 DEF ReaderInv, Answered
<1>4. Cached(r) /\ KeepsParts => Cached(r)'
  <2>0. todo[r] \in Seq(Wants)
    BY DEF StoreTypes
  <2>1. \A i \in 1..Len(todo[r]) : todo[r][i].id \in PartIds
    BY <2>0, WantFacts
  <2> QED BY <2>1 DEF Cached, KeepsParts
<1> QED BY <1>1, <1>2, <1>3, <1>4 DEF ReaderInv

\* A step of the cache, the store or the writer.
LEMMA QuietStep ==
    ASSUME StoreInv, StoreTypes', FilesInv', objSize' = objSize,
           UNCHANGED <<stage, request, meta, todo, got, answer, gets, prefetched>>,
           (KeepsParts /\ UNCHANGED faulty) \/ Disturbed
    PROVE  StoreInv'
<1>1. ASSUME NEW r \in Readers PROVE ReaderInv(r)'
  <2>1. (faulty[r] => faulty'[r]) /\ (KeepsParts \/ faulty'[r])
    BY DEF Disturbed
  <2> QED BY <2>1, ReaderKept DEF StoreInv
<1> QED BY <1>1 DEF StoreInv

\* A step of reader r.
LEMMA ReaderStep ==
    ASSUME StoreInv, StoreTypes', FilesInv', objSize' = objSize, KeepsParts, NEW r \in Readers, ReaderInv(r)',
           \A o \in Readers \ {r} :
              /\ stage'[o] = stage[o] /\ request'[o] = request[o] /\ meta'[o] = meta[o] /\ todo'[o] = todo[o]
              /\ got'[o] = got[o] /\ answer'[o] = answer[o] /\ gets'[o] = gets[o]
              /\ prefetched'[o] = prefetched[o] /\ faulty'[o] = faulty[o]
    PROVE  StoreInv'
<1>1. ASSUME NEW o \in Readers \ {r} PROVE ReaderInv(o)'
  BY <1>1, ReaderKept DEF StoreInv
<1> QED BY <1>1 DEF StoreInv

LEMMA FilesKept ==
    ASSUME FilesInv, UNCHANGED <<part, objSize>>
    PROVE  FilesInv' /\ KeepsParts
  BY DEF FilesInv, KeepsParts, PartEnd

\* Losing files makes no file wrong.
LEMMA FilesLost ==
    ASSUME FilesInv, objSize' = objSize, part' \in [PartIds -> Seq(Int)],
           \A p \in PartIds : part'[p] \in {part[p], NoBytes}
    PROVE  FilesInv'
  BY DEF FilesInv, PartEnd

\* save_get_result
LEMMA SavedResult ==
    ASSUME objSize \in Sizes, head \in BOOLEAN, FilesInv, objSize' = objSize,
           NEW f \in Nat, NEW e \in Nat, Mul(f) <= e, e <= objSize,
           e % PartSize = 0 \/ e = objSize,
           NEW all \in BOOLEAN, SaveGetResult(Bytes(Mul(f), e), f, all)
    PROVE  /\ FilesInv' /\ KeepsParts /\ head' \in BOOLEAN
           /\ all => \A p \in PartIds : f <= p /\ Mul(p) < e => part'[p] # NoBytes
<1>1. CASE ~all /\ UNCHANGED <<head, part>>
  BY <1>1, FilesKept
<1>2. ASSUME NEW n \in 0..PartCount(Bytes(Mul(f), e)), n = PartCount(Bytes(Mul(f), e)) <=> all, head' = TRUE,
             part' = SavePartsStream(Bytes(Mul(f), e), f, n)
      PROVE  /\ FilesInv' /\ KeepsParts /\ head' \in BOOLEAN
             /\ all => \A p \in PartIds : f <= p /\ Mul(p) < e => part'[p] # NoBytes
  BY <1>2, SavedExact
<1> QED BY <1>1, <1>2 DEF SaveGetResult

LEMMA WholeObject ==
    ASSUME objSize \in Sizes
    PROVE  Mul(0) = 0 /\ objSize \in Nat /\ 0 <= objSize /\ 0 % PartSize = 0 /\ Bytes(0, 0) = <<>>
<1>1. objSize \in Nat /\ PartSize \in Nat /\ PartSize > 0
  BY SizeFacts
<1>2. Mul(0) = 0
  BY MulFacts
<1>3. 0 % PartSize = 0
  BY <1>1
<1>4. Bytes(0, 0) = <<>>
  BY DEF Bytes
<1> QED BY <1>1, <1>2, <1>3, <1>4

LEMMA CacheSteps ==
    ASSUME StoreInv,
           UpstreamPut \/ PutParts \/ PutHead \/ UpstreamDelete \/ DeleteEntry \/ Evict \/ CachedHead
    PROVE  StoreInv'
<1>0. StoreTypes /\ FilesInv /\ objSize \in Sizes /\ head \in BOOLEAN
  BY DEF StoreInv, StoreTypes
<1>1. CASE UpstreamPut
  <2>1. StoreTypes'
    BY <1>0, <1>1 DEF UpstreamPut, readerVars, StoreTypes
  <2> QED BY <1>0, <1>1, <2>1, FilesKept, QuietStep DEF UpstreamPut, readerVars
<1>2. CASE PutParts
  <2> DEFINE b == Bytes(0, objSize)
  <2>1. PICK n \in 0..PartCount(b) :
           /\ part' = SavePartsStream(b, 0, n)
           /\ IF n < PartCount(b) THEN Disturbed ELSE UNCHANGED faulty
    BY <1>2 DEF PutParts
  <2>2. FilesInv' /\ KeepsParts
    <3>1. objSize' = objSize
      BY <1>2 DEF PutParts
    <3>2. n \in 0..PartCount(Bytes(Mul(0), objSize)) /\ part' = SavePartsStream(Bytes(Mul(0), objSize), 0, n)
      BY <1>0, <2>1, WholeObject
    <3>3. 0 \in Nat /\ objSize \in Nat /\ Mul(0) <= objSize /\ objSize <= objSize
      BY <1>0, WholeObject
    <3> QED BY <1>0, <3>1, <3>2, <3>3, SavedExact
  <2>3. faulty' \in [Readers -> BOOLEAN]
    BY <1>0, <2>1 DEF Disturbed, StoreTypes
  <2>4. StoreTypes'
    BY <1>0, <1>2, <2>3 DEF PutParts, StoreTypes
  <2>5. (KeepsParts /\ UNCHANGED faulty) \/ Disturbed
    BY <2>1, <2>2
  <2> QED BY <1>2, <2>2, <2>4, <2>5, QuietStep DEF PutParts
<1>3. CASE PutHead
  <2>1. StoreTypes'
    BY <1>0, <1>3 DEF PutHead, readerVars, StoreTypes
  <2> QED BY <1>0, <1>3, <2>1, FilesKept, QuietStep DEF PutHead, readerVars
<1>4. CASE UpstreamDelete
  <2>1. StoreTypes'
    BY <1>0, <1>4 DEF UpstreamDelete, readerVars, StoreTypes
  <2> QED BY <1>0, <1>4, <2>1, FilesKept, QuietStep DEF UpstreamDelete, readerVars
<1>s. NoBytes \in Seq(Int)
  BY DEF NoBytes
<1>5. CASE DeleteEntry
  <2>1. StoreTypes'
    BY <1>0, <1>5 DEF DeleteEntry, Disturbed, StoreTypes
  <2>2. FilesInv'
    BY <1>0, <1>5, <1>s, FilesLost DEF DeleteEntry
  <2> QED BY <1>5, <2>1, <2>2, QuietStep DEF DeleteEntry
<1>6. CASE Evict
  <2>1. StoreTypes'
    BY <1>0, <1>6 DEF Evict, Disturbed, StoreTypes
  <2>2. FilesInv'
    <3>1. part \in [PartIds -> Seq(Int)]
      BY <1>0 DEF FilesInv
    <3>2. part' = part \/ \E p \in PartIds : part' = [part EXCEPT ![p] = NoBytes]
      BY <1>6 DEF Evict
    <3>3. part' \in [PartIds -> Seq(Int)] /\ \A p \in PartIds : part'[p] \in {part[p], NoBytes}
      BY <1>s, <3>1, <3>2
    <3> QED BY <1>0, <1>6, <3>3, FilesLost DEF Evict
  <2> QED BY <1>6, <2>1, <2>2, QuietStep DEF Evict
<1>7. CASE CachedHead
  <2>1. PICK whole \in BOOLEAN, all \in BOOLEAN : SaveGetResult(IF whole THEN Bytes(0, objSize) ELSE <<>>, 0, all)
    BY <1>7 DEF CachedHead
  <2> DEFINE e == IF whole THEN objSize ELSE 0
  <2>2. SaveGetResult(Bytes(Mul(0), e), 0, all)
    BY <1>0, <2>1, WholeObject
  <2>3. e \in Nat /\ Mul(0) <= e /\ e <= objSize /\ (e % PartSize = 0 \/ e = objSize)
    BY <1>0, WholeObject
  <2>4. objSize' = objSize
    BY <1>7 DEF CachedHead
  <2> HIDE DEF e
  <2>5. FilesInv' /\ KeepsParts /\ head' \in BOOLEAN
    BY <1>0, <2>2, <2>3, <2>4, SavedResult
  <2>6. StoreTypes'
    BY <1>0, <1>7, <2>5 DEF CachedHead, readerVars, StoreTypes
  <2> QED BY <1>7, <2>5, <2>6, QuietStep DEF CachedHead, readerVars
<1> QED BY <1>1, <1>2, <1>3, <1>4, <1>5, <1>6, <1>7

LEMMA BeginStep == ASSUME StoreInv, NEW r \in Readers, Begin(r) PROVE StoreInv'
<1>0. StoreTypes /\ FilesInv
  BY DEF StoreInv
<1>1. PICK q \in StoreLoads[demand].requests : request' = [request EXCEPT ![r] = q]
  BY DEF Begin
<1>2. q \in Ranges
  BY <1>0, <1>1, CachedStoreAssumption DEF StoreTypes
<1>3. <<>> \in Seq(Wants) /\ <<>> \in Seq(Nat) /\ reads[r] + 1 \in 0..MaxReads
  BY <1>0, CachedStoreAssumption DEF StoreTypes, Begin
<1>4. StoreTypes'
  BY <1>0, <1>1, <1>2, <1>3 DEF StoreTypes, Begin
<1>5. FilesInv' /\ KeepsParts /\ objSize' = objSize
  BY <1>0, FilesKept DEF Begin
<1>6. ReaderInv(r)'
  BY <1>0 DEF StoreTypes, Begin, ReaderInv, Answered
<1> QED BY <1>0, <1>1, <1>4, <1>5, <1>6, ReaderStep DEF Begin, StoreTypes

\* With the size known a read is refused as the inner store refuses it, or has
\* the list of its parts.
LEMMA PlanFacts ==
    ASSUME StoreTypes, NEW r \in Readers, PlanParts(r), got[r] = <<>>,
           UNCHANGED <<objSize, request, got>>
    PROVE  /\ Expected(r)' = Expected(r)
           /\ meta' \in [Readers -> Sizes \cup {-1}] /\ meta'[r] = objSize
           /\ todo' \in [Readers -> Seq(Wants)]
           /\ stage' \in [Readers -> {"idle", "prefetch", "head", "parts", "done"}]
           /\ answer' \in [Readers -> {"none", "ok", "error", "panic"}]
           /\ \A o \in Readers \ {r} :
                 stage'[o] = stage[o] /\ meta'[o] = meta[o] /\ todo'[o] = todo[o] /\ answer'[o] = answer[o]
           /\ \/ Expected(r) = Invalid /\ stage'[r] = "done" /\ answer'[r] = "error"
              \/ /\ stage'[r] = "parts" /\ answer'[r] = answer[r]
                 /\ Sent(r)' /\ Covers(todo'[r], Reached(r)', Expected(r)[2])
                 /\ \A i \in 1..Len(todo'[r]) : Expected(r)[1] < Mul(todo'[r][i].id) + PartSize
<1> DEFINE w == Expected(r)
<1>0. request[r] \in Ranges /\ objSize \in Sizes
  BY DEF StoreTypes
<1>1. CanonicalizeRange(request[r], objSize) = w
  BY <1>0, SpanFacts DEF Expected
<1>2. w' = w
  BY DEF Expected
<1>3. /\ meta' = [meta EXCEPT ![r] = objSize]
      /\ IF w = Invalid THEN Finish(r, "error") /\ UNCHANGED todo
         ELSE /\ stage' = [stage EXCEPT ![r] = "parts"]
              /\ todo' = [todo EXCEPT ![r] = SplitRangeIntoParts(w)]
              /\ UNCHANGED answer
  BY <1>1 DEF PlanParts
<1>4. CASE w = Invalid
  BY <1>0, <1>2, <1>3, <1>4 DEF Finish, StoreTypes
<1>5. CASE w # Invalid
  <2>1. PICK s \in Nat, e \in Nat : w = <<s, e>> /\ s <= e /\ e <= objSize
    BY <1>5, ExpectedFacts
  <2> DEFINE t == SplitRangeIntoParts(w)
  <2>2. Covers(t, s, e) /\ \A i \in 1..Len(t) : s < Mul(t[i].id) + PartSize
    BY <1>0, <2>1, SplitCovers
  <2>3. t \in Seq(Wants)
    BY <2>2 DEF Covers
  <2> HIDE DEF t, w
  <2>4. todo' = [todo EXCEPT ![r] = t] /\ stage' = [stage EXCEPT ![r] = "parts"] /\ UNCHANGED answer
    BY <1>3, <1>5 DEF t
  <2>5. todo'[r] = t /\ todo' \in [Readers -> Seq(Wants)]
    BY <2>3, <2>4 DEF StoreTypes
  <2>6. got'[r] = <<>> /\ Len(got'[r]) = 0
    OBVIOUS
  <2>7. Reached(r)' = s
    BY <1>2, <2>1, <2>6 DEF Reached, w
  <2>8. Bytes(s, s) = <<>>
    BY DEF Bytes
  <2>9. Sent(r)'
    BY <1>2, <1>5, <2>1, <2>6, <2>7, <2>8 DEF Sent, w
  <2>10. w[1] = s /\ w[2] = e
    BY <2>1
  <2> QED BY <1>0, <1>2, <1>3, <2>2, <2>4, <2>5, <2>7, <2>9, <2>10 DEF StoreTypes, w
<1> QED BY <1>4, <1>5

LEMMA HeadHitStep == ASSUME StoreInv, NEW r \in Readers, HeadHit(r) PROVE StoreInv'
<1>0. StoreTypes /\ FilesInv /\ ReaderInv(r)
  BY DEF StoreInv
<1>1. /\ stage[r] = "head" /\ PlanParts(r)
      /\ UNCHANGED <<demand, objSize, upstream, putter, deleter, head, part, request, got, reads, gets,
                     prefetched, faulty>>
  BY DEF HeadHit
<1>2. got[r] = <<>> /\ gets[r] = 0 /\ ~prefetched[r] /\ answer[r] = "none"
  BY <1>0, <1>1 DEF ReaderInv
<1>3. /\ Expected(r)' = Expected(r)
      /\ meta' \in [Readers -> Sizes \cup {-1}] /\ meta'[r] = objSize
      /\ todo' \in [Readers -> Seq(Wants)]
      /\ stage' \in [Readers -> {"idle", "prefetch", "head", "parts", "done"}]
      /\ answer' \in [Readers -> {"none", "ok", "error", "panic"}]
      /\ \A o \in Readers \ {r} :
            stage'[o] = stage[o] /\ meta'[o] = meta[o] /\ todo'[o] = todo[o] /\ answer'[o] = answer[o]
      /\ \/ Expected(r) = Invalid /\ stage'[r] = "done" /\ answer'[r] = "error"
         \/ /\ stage'[r] = "parts" /\ answer'[r] = answer[r]
            /\ Sent(r)' /\ Covers(todo'[r], Reached(r)', Expected(r)[2])
  BY <1>0, <1>1, <1>2, PlanFacts
<1>4. StoreTypes'
  BY <1>0, <1>1, <1>3 DEF StoreTypes
<1>5. FilesInv' /\ KeepsParts
  BY <1>0, <1>1, FilesKept
<1>6. ReaderInv(r)'
  BY <1>1, <1>2, <1>3 DEF ReaderInv, Answered
<1> QED BY <1>1, <1>3, <1>4, <1>5, <1>6, ReaderStep

LEMMA HeadMissStep == ASSUME StoreInv, NEW r \in Readers, HeadMiss(r) PROVE StoreInv'
<1>0. StoreTypes /\ FilesInv /\ ReaderInv(r)
  BY DEF StoreInv
<1>1. StoreTypes'
  BY <1>0 DEF StoreTypes, HeadMiss
<1>2. FilesInv' /\ KeepsParts
  BY <1>0, FilesKept DEF HeadMiss
<1>3. ReaderInv(r)'
  BY <1>0 DEF StoreTypes, HeadMiss, ReaderInv, Answered
<1> QED BY <1>0, <1>1, <1>2, <1>3, ReaderStep DEF HeadMiss, StoreTypes

LEMMA UpstreamFailsStep == ASSUME StoreInv, NEW r \in Readers, UpstreamFails(r) PROVE StoreInv'
<1>0. StoreTypes /\ FilesInv /\ ReaderInv(r)
  BY DEF StoreInv
<1>1. StoreTypes'
  BY <1>0 DEF StoreTypes, UpstreamFails, Fault, Get, Finish
<1>2. FilesInv' /\ KeepsParts
  BY <1>0, FilesKept DEF UpstreamFails
<1>3. /\ stage'[r] = "done" /\ answer'[r] = "error" /\ faulty'[r] /\ got' = got
      /\ Expected(r)' = Expected(r)
  BY <1>0 DEF StoreTypes, UpstreamFails, Fault, Get, Finish, Expected
<1>4. Sent(r)' <=> Sent(r)
  BY <1>3 DEF Sent, Reached
<1>5. ReaderInv(r)'
  BY <1>0, <1>3, <1>4 DEF ReaderInv, Answered
<1> QED BY <1>0, <1>1, <1>2, <1>5, ReaderStep DEF UpstreamFails, Fault, Get, Finish, StoreTypes

LEMMA StreamEndsStep == ASSUME StoreInv, NEW r \in Readers, StreamEnds(r) PROVE StoreInv'
<1>0. StoreTypes /\ FilesInv /\ ReaderInv(r)
  BY DEF StoreInv
<1>1. StoreTypes'
  BY <1>0 DEF StoreTypes, StreamEnds, Finish
<1>2. FilesInv' /\ KeepsParts
  BY <1>0, FilesKept DEF StreamEnds
<1>3. Sent(r) /\ Reached(r) = Expected(r)[2]
  BY <1>0 DEF StreamEnds, ReaderInv, Covers
<1>4. /\ stage[r] = "parts" /\ stage'[r] = "done" /\ answer'[r] = "ok"
      /\ UNCHANGED <<objSize, part, request, todo, got, gets, prefetched, faulty>>
      /\ Expected(r)' = Expected(r)
  BY <1>0 DEF StoreTypes, StreamEnds, Finish, Expected
<1>5. Sent(r)'
  BY <1>3, <1>4 DEF Sent, Reached
<1>6. got'[r] = Bytes(Expected(r)[1], Expected(r)[2])
  BY <1>3, <1>4 DEF Sent
<1>7. Answered(r)'
  BY <1>3, <1>4, <1>6 DEF Answered, Sent
<1>8. ReaderInv(r)'
  BY <1>0, <1>4, <1>5, <1>7 DEF ReaderInv
<1> QED BY <1>0, <1>1, <1>2, <1>8, ReaderStep DEF StreamEnds, Finish, StoreTypes

LEMMA PrefetchStep == ASSUME StoreInv, NEW r \in Readers, Prefetch(r) PROVE StoreInv'
<1> DEFINE q == request[r]  a == InnerRange(AlignGetRange(q), objSize)  w == Expected(r)
<1>0. StoreTypes /\ FilesInv /\ ReaderInv(r) /\ objSize \in Sizes /\ head \in BOOLEAN /\ q \in Ranges
  BY DEF StoreInv, StoreTypes
<1>1. /\ stage[r] = "prefetch" /\ Get(r)
      /\ UNCHANGED <<demand, objSize, upstream, putter, deleter, request, got, reads, prefetched>>
  BY DEF Prefetch
<1>2. got[r] = <<>> /\ gets[r] = 0 /\ answer[r] = "none"
  BY <1>0, <1>1 DEF ReaderInv
<1>3. gets' \in [Readers -> Nat] /\ gets'[r] = 1 /\ \A o \in Readers \ {r} : gets'[o] = gets[o]
  BY <1>0, <1>1, <1>2 DEF Get, StoreTypes
<1>4. /\ a = Invalid /\ Fits(q) => w = Invalid
      /\ a # Invalid =>
           /\ \E s, e \in Nat : a = <<s, e>> /\ s <= e /\ e <= objSize
           /\ a[1] % PartSize # 0 => (q.kind = "suffix" /\ objSize % PartSize # 0) \/ ~Fits(q)
           /\ a[2] % PartSize # 0 /\ a[2] # objSize => ~Fits(q)
           /\ Fits(q) /\ w # Invalid => a[1] <= w[1] /\ w[2] <= a[2]
  BY <1>0, PrefetchFacts DEF Expected
<1>5. Expected(r)' = Expected(r) /\ request' = request /\ q' = q
  BY <1>1 DEF Expected
<1> HIDE DEF q, a, w
<1>6. ASSUME a = Invalid, Finish(r, "error"), UNCHANGED <<head, part, meta, todo, faulty>>
      PROVE  StoreInv'
  <2>1. StoreTypes'
    BY <1>0, <1>1, <1>3, <1>6 DEF Finish, StoreTypes
  <2>2. FilesInv' /\ KeepsParts
    BY <1>0, <1>1, <1>6, FilesKept
  <2>3. stage'[r] = "done" /\ answer'[r] = "error" /\ got'[r] = <<>>
    BY <1>0, <1>1, <1>2, <1>6 DEF Finish, StoreTypes
  <2>4. ReaderInv(r)'
    BY <1>3, <1>4, <1>5, <1>6, <2>3 DEF ReaderInv, Answered, q, w
  <2> QED BY <1>0, <1>1, <1>3, <1>6, <2>1, <2>2, <2>4, ReaderStep DEF Finish, StoreTypes
<1>7. ASSUME a # Invalid, a[1] % PartSize # 0 \/ (a[2] % PartSize # 0 /\ a[2] # objSize),
             Finish(r, "panic"), UNCHANGED <<head, part, meta, todo, faulty>>
      PROVE  StoreInv'
  <2>1. StoreTypes'
    BY <1>0, <1>1, <1>3, <1>7 DEF Finish, StoreTypes
  <2>2. FilesInv' /\ KeepsParts
    BY <1>0, <1>1, <1>7, FilesKept
  <2>3. stage'[r] = "done" /\ answer'[r] = "panic" /\ got'[r] = <<>>
    BY <1>0, <1>1, <1>2, <1>7 DEF Finish, StoreTypes
  <2>4. (q.kind = "suffix" /\ objSize % PartSize # 0) \/ ~Fits(q)
    BY <1>4, <1>7
  <2>5. Answered(r)'
    BY <1>1, <1>5, <2>3, <2>4 DEF Answered, q
  <2>6. ReaderInv(r)'
    BY <1>3, <2>3, <2>5 DEF ReaderInv
  <2> QED BY <1>0, <1>1, <1>3, <1>7, <2>1, <2>2, <2>6, ReaderStep DEF Finish, StoreTypes
<1>8. ASSUME a # Invalid, a[1] % PartSize = 0, a[2] % PartSize = 0 \/ a[2] = objSize, NEW all \in BOOLEAN,
             SaveGetResult(Bytes(a[1], a[2]), a[1] \div PartSize, all), Fault(r, ~all), PlanParts(r)
      PROVE  StoreInv'
  <2>1. PICK s \in Nat, e \in Nat : a = <<s, e>> /\ s <= e /\ e <= objSize
    BY <1>4, <1>8
  <2> DEFINE f == s \div PartSize
  <2>2. f \in Nat /\ s = Mul(f) + (s % PartSize) /\ s % PartSize = 0
    BY <1>8, <2>1, DivMod
  <2>3. f \in Nat /\ s = Mul(f)
    BY <2>2, MulFacts
  <2> HIDE DEF f
  <2>4. /\ SaveGetResult(Bytes(Mul(f), e), f, all)
        /\ Mul(f) <= e /\ (e % PartSize = 0 \/ e = objSize)
    BY <1>8, <2>1, <2>3 DEF f
  <2>5. /\ FilesInv' /\ KeepsParts /\ head' \in BOOLEAN
        /\ all => \A p \in PartIds : f <= p /\ Mul(p) < e => part'[p] # NoBytes
    BY <1>0, <1>1, <2>1, <2>3, <2>4, SavedResult
  <2>6. /\ meta' \in [Readers -> Sizes \cup {-1}] /\ meta'[r] = objSize
        /\ todo' \in [Readers -> Seq(Wants)]
        /\ stage' \in [Readers -> {"idle", "prefetch", "head", "parts", "done"}]
        /\ answer' \in [Readers -> {"none", "ok", "error", "panic"}]
        /\ \A o \in Readers \ {r} :
              stage'[o] = stage[o] /\ meta'[o] = meta[o] /\ todo'[o] = todo[o] /\ answer'[o] = answer[o]
        /\ \/ w = Invalid /\ stage'[r] = "done" /\ answer'[r] = "error"
           \/ /\ stage'[r] = "parts" /\ answer'[r] = answer[r]
              /\ Sent(r)' /\ Covers(todo'[r], Reached(r)', w[2])
              /\ \A i \in 1..Len(todo'[r]) : w[1] < Mul(todo'[r][i].id) + PartSize
    BY <1>0, <1>1, <1>2, <1>8, PlanFacts DEF w
  <2>7. /\ faulty' \in [Readers -> BOOLEAN] /\ (~faulty'[r] => all)
        /\ \A o \in Readers \ {r} : faulty'[o] = faulty[o]
    BY <1>0, <1>8 DEF Fault, StoreTypes
  <2>8. StoreTypes'
    BY <1>0, <1>1, <1>3, <2>5, <2>6, <2>7 DEF StoreTypes
  <2>9. ASSUME stage'[r] = "parts", ~faulty'[r], Fits(q) PROVE Cached(r)'
    <3>1. w # Invalid
      BY <1>5, <2>6, <2>9 DEF Sent, w
    <3>2. PICK ws \in Nat, we \in Nat : w = <<ws, we>> /\ ws <= we /\ we <= objSize
      BY <1>0, <3>1, ExpectedFacts DEF w
    <3>3. s <= ws /\ we <= e
      BY <1>4, <1>8, <2>1, <2>9, <3>1, <3>2
    <3>4. ASSUME NEW i \in 1..Len(todo'[r]) PROVE part'[todo'[r][i].id] # NoBytes
      <4> DEFINE p == todo'[r][i].id
      <4>1. todo'[r] \in Seq(Wants)
        BY <2>6
      <4>2. p \in PartIds
        BY <4>1, WantFacts
      <4>3. ws < Mul(p) + PartSize /\ Mul(p) < we
        BY <2>6, <2>9, <3>2 DEF Covers
      <4> HIDE DEF p
      <4>4. p \in Nat /\ Mul(p) \in Nat /\ Mul(f) \in Nat /\ PartSize \in Nat
        <5>1. Word \in Nat /\ Word > 0 /\ PartSize \in Nat
          BY <1>0, SizeFacts
        <5>2. p \in Nat
          BY <4>2, <5>1, PartIdFacts
        <5> QED BY <2>3, <5>1, <5>2, MulFacts
      <4>5. f <= p
        <5> SUFFICES ASSUME p < f PROVE FALSE
          BY <2>3, <4>4
        <5>1. Mul(p) + PartSize <= Mul(f)
          BY <2>3, <4>4, MulMonotone
        <5> QED BY <2>3, <3>3, <4>3, <4>4, <5>1
      <4>6. Mul(p) < e
        BY <3>3, <4>3, <4>4
      <4> QED BY <2>5, <2>7, <2>9, <4>2, <4>5, <4>6 DEF p
    <3> QED BY <3>4 DEF Cached
  <2>10. got'[r] = <<>>
    BY <1>1, <1>2
  <2>11. ReaderInv(r)'
    <3>1. CASE stage'[r] = "done"
      BY <1>2, <1>3, <1>5, <2>6, <2>10, <3>1 DEF ReaderInv, Answered, w
    <3>2. CASE stage'[r] = "parts"
      <4>1. answer'[r] = "none" /\ Sent(r)' /\ Covers(todo'[r], Reached(r)', Expected(r)[2])
        BY <1>2, <2>6, <3>2 DEF w
      <4>2. Answered(r)'
        BY <4>1 DEF Answered
      <4> QED BY <1>1, <1>3, <1>5, <2>6, <2>9, <2>10, <3>2, <4>1, <4>2 DEF ReaderInv, q
    <3> QED BY <2>6, <3>1, <3>2
  <2> QED BY <1>1, <1>3, <2>5, <2>6, <2>7, <2>8, <2>11, ReaderStep
<1> QED BY <1>6, <1>7, <1>8 DEF Prefetch, a, q

\* read_part hands over the next stretch of the range.
LEMMA Delivery ==
    ASSUME StoreTypes, NEW r \in Readers, ReaderInv(r), stage[r] = "parts", todo[r] # <<>>,
           UNCHANGED <<objSize, request>>,
           Deliver(r, Bytes(Mul(todo[r][1].id) + todo[r][1].start, Mul(todo[r][1].id) + todo[r][1].end))
    PROVE  /\ Expected(r)' = Expected(r)
           /\ got' \in [Readers -> Seq(Nat)] /\ todo' \in [Readers -> Seq(Wants)]
           /\ \A o \in Readers \ {r} : got'[o] = got[o] /\ todo'[o] = todo[o]
           /\ Sent(r)' /\ Covers(todo'[r], Reached(r)', Expected(r)[2])
           /\ Cached(r) /\ KeepsParts => Cached(r)'
<1> DEFINE t == todo[r]  w == t[1]  pos == Mul(w.id) + w.start  new == Mul(w.id) + w.end
<1>1. /\ Expected(r) # Invalid /\ got[r] = Bytes(Expected(r)[1], Reached(r))
      /\ Reached(r) <= Expected(r)[2] /\ Covers(t, Reached(r), Expected(r)[2])
  BY DEF ReaderInv, Sent
<1>2. PICK s \in Nat, e \in Nat : Expected(r) = <<s, e>> /\ s <= e /\ e <= objSize
  BY <1>1, ExpectedFacts
<1>3. t \in Seq(Wants) /\ 1 \in 1..Len(t)
  BY <1>1 DEF Covers
<1>4. w \in Wants /\ w.id \in PartIds /\ w.start \in Nat /\ w.end \in Nat
  BY <1>3, WantFacts
<1>5. objSize \in Nat /\ Word \in Nat /\ Word > 0
  BY SizeFacts DEF StoreTypes
<1>6. Mul(w.id) \in Nat
  BY <1>4, <1>5, PartIdFacts, MulFacts
<1>7. /\ got[r] \in Seq(Nat) /\ Len(got[r]) \in Nat
  BY DEF StoreTypes
<1>8. Reached(r) = pos /\ w.start <= w.end /\ new <= e
  BY <1>1, <1>2, <1>3 DEF Covers
<1>9. s <= pos /\ pos <= new /\ pos \in Nat /\ new \in Nat /\ Reached(r) = s + Len(got[r])
  <2>1. Reached(r) = s + Len(got[r])
    BY <1>2 DEF Reached
  <2>2. s <= Reached(r)
    BY <1>2, <1>7, <2>1
  <2>3. pos <= new /\ pos \in Nat /\ new \in Nat
    <3>1. \A m, x, y \in Nat : x <= y => m + x <= m + y /\ m + x \in Nat /\ m + y \in Nat
      OBVIOUS
    <3> QED BY <1>4, <1>6, <1>8, <3>1, Zenon
  <2> QED BY <1>8, <2>1, <2>2, <2>3
<1>10. Bytes(s, pos) \o Bytes(pos, new) = Bytes(s, new)
  <2> HIDE DEF pos, new
  <2> QED BY <1>9, BytesConcat
<1>11. /\ got' = [got EXCEPT ![r] = @ \o Bytes(pos, new)]
       /\ todo' = [todo EXCEPT ![r] = Tail(@)]
  BY DEF Deliver
<1>12. got'[r] = Bytes(s, new) /\ todo'[r] = Tail(t)
  <2>0. Expected(r)[1] = s
    BY <1>2
  <2>1. got[r] = Bytes(s, pos)
    BY <1>1, <1>8, <2>0, Zenon
  <2>2. got'[r] = got[r] \o Bytes(pos, new) /\ todo'[r] = Tail(todo[r])
    BY <1>11 DEF StoreTypes
  <2> HIDE DEF pos, new
  <2> QED BY <1>10, <2>1, <2>2
<1>13. Covers(Tail(t), new, e)
  <2>1. Covers(t, pos, e)
    BY <1>1, <1>2, <1>8
  <2> HIDE DEF pos
  <2> QED BY <1>2, <1>9, <2>1, CoversTail
<1>14. Expected(r)' = Expected(r)
  BY DEF Expected
<1> HIDE DEF t, w, pos, new
<1>15. Bytes(s, new) \in Seq(Nat) /\ Len(Bytes(s, new)) = new - s
  <2>1. s \in Nat /\ new \in Nat /\ s <= new
    BY <1>9
  <2> QED BY <2>1, BytesSeq
<1>16. Reached(r)' = new
  <2>1. Reached(r)' = s + Len(got'[r])
    BY <1>2, <1>14 DEF Reached
  <2>2. Len(got'[r]) = new - s
    BY <1>12, <1>15, Zenon
  <2>3. s + (new - s) = new
    BY <1>9
  <2> QED BY <2>1, <2>2, <2>3, Zenon
<1>17. Sent(r)'
  BY <1>1, <1>2, <1>8, <1>12, <1>14, <1>16 DEF Sent
<1>18. /\ Tail(t) \in Seq(Wants) /\ Len(Tail(t)) = Len(t) - 1
       /\ \A i \in 1..Len(Tail(t)) : Tail(t)[i] = t[i + 1]
  BY <1>3, HeadTailProperties DEF t
<1>19. Cached(r) /\ KeepsParts => Cached(r)'
  <2> SUFFICES ASSUME Cached(r), KeepsParts, NEW i \in 1..Len(Tail(t))
               PROVE  part'[Tail(t)[i].id] # NoBytes
    BY <1>12 DEF Cached
  <2>1. i + 1 \in 1..Len(t) /\ Tail(t)[i] = t[i + 1]
    BY <1>3, <1>18
  <2>2. t[i + 1].id \in PartIds
    BY <1>3, <2>1, WantFacts
  <2> QED BY <2>1, <2>2 DEF Cached, KeepsParts, t
<1>20. got' \in [Readers -> Seq(Nat)] /\ todo' \in [Readers -> Seq(Wants)]
  BY <1>11, <1>12, <1>15, <1>18 DEF StoreTypes
<1>21. \A o \in Readers \ {r} : got'[o] = got[o] /\ todo'[o] = todo[o]
  BY <1>11 DEF StoreTypes
<1> QED BY <1>2, <1>12, <1>13, <1>14, <1>16, <1>17, <1>19, <1>20, <1>21

\* The part that a read wants next is a part of the object, and what is wanted
\* of it is there.
LEMMA NextWant ==
    ASSUME StoreTypes, NEW r \in Readers, ReaderInv(r), stage[r] = "parts", todo[r] # <<>>
    PROVE  LET w == todo[r][1]
           IN  /\ w \in Wants /\ w.id \in PartIds /\ w.start <= w.end /\ Mul(w.id) < objSize
               /\ w.end <= PartEnd(w.id) - Mul(w.id)
<1> DEFINE t == todo[r]  w == t[1]
<1>1. Expected(r) # Invalid /\ Covers(t, Reached(r), Expected(r)[2])
  BY DEF ReaderInv, Sent
<1>2. PICK s \in Nat, e \in Nat : Expected(r) = <<s, e>> /\ s <= e /\ e <= objSize
  BY <1>1, ExpectedFacts
<1>3. t \in Seq(Wants) /\ 1 \in 1..Len(t)
  BY <1>1 DEF Covers
<1>4. w \in Wants /\ w.id \in PartIds /\ w.start \in Nat /\ w.end \in Nat
  BY <1>3, WantFacts
<1>5. w.start <= w.end /\ w.end <= PartSize /\ Mul(w.id) < e /\ Mul(w.id) + w.end <= e
  BY <1>1, <1>2, <1>3 DEF Covers
<1>6. objSize \in Sizes
  BY DEF StoreTypes
<1>7. objSize \in Nat /\ Word \in Nat /\ Word > 0 /\ PartSize \in Nat
  BY <1>6, SizeFacts
<1>8. Mul(w.id) \in Nat
  BY <1>4, <1>7, PartIdFacts, MulFacts
<1> HIDE DEF w
<1>9. Mul(w.id) < objSize
  BY <1>2, <1>5, <1>7, <1>8
<1>10. PartEnd(w.id) = Least(Mul(w.id) + PartSize, objSize)
  BY <1>4, <1>6, <1>9, PartFacts
<1>11. w.end <= PartEnd(w.id) - Mul(w.id)
  BY <1>2, <1>4, <1>5, <1>7, <1>8, <1>10 DEF Least
<1> QED BY <1>4, <1>5, <1>9, <1>11 DEF w

LEMMA PartHitStep == ASSUME StoreInv, NEW r \in Readers, PartHit(r) PROVE StoreInv'
<1> DEFINE w == todo[r][1]
<1>0. StoreTypes /\ FilesInv /\ ReaderInv(r) /\ objSize \in Sizes
  BY DEF StoreInv, StoreTypes
<1>1. /\ stage[r] = "parts" /\ todo[r] # <<>> /\ part[w.id] # NoBytes
      /\ Deliver(r, Slice(part[w.id], w.start, w.end))
      /\ UNCHANGED <<demand, objSize, upstream, putter, deleter, head, part, stage, request, meta, answer,
                     reads, gets, prefetched, faulty>>
  BY DEF PartHit
<1>2. /\ w \in Wants /\ w.id \in PartIds /\ w.start <= w.end /\ Mul(w.id) < objSize
      /\ w.end <= PartEnd(w.id) - Mul(w.id)
  BY <1>0, <1>1, NextWant
<1>3. part[w.id] = Bytes(Mul(w.id), PartEnd(w.id))
  BY <1>0, <1>1, <1>2 DEF FilesInv
<1>4. Slice(part[w.id], w.start, w.end) = Bytes(Mul(w.id) + w.start, Mul(w.id) + w.end)
  <2> HIDE DEF w
  <2> QED BY <1>0, <1>2, <1>3, SliceOfPart
<1>5. FilesInv' /\ KeepsParts
  BY <1>0, <1>1, FilesKept
<1>6. /\ Expected(r)' = Expected(r)
      /\ got' \in [Readers -> Seq(Nat)] /\ todo' \in [Readers -> Seq(Wants)]
      /\ \A o \in Readers \ {r} : got'[o] = got[o] /\ todo'[o] = todo[o]
      /\ Sent(r)' /\ Covers(todo'[r], Reached(r)', Expected(r)[2])
      /\ Cached(r) => Cached(r)'
  BY <1>0, <1>1, <1>4, <1>5, Delivery
<1>7. StoreTypes'
  BY <1>0, <1>1, <1>6 DEF StoreTypes
<1>8. ReaderInv(r)'
  BY <1>0, <1>1, <1>6 DEF ReaderInv, Answered
<1> QED BY <1>1, <1>5, <1>6, <1>7, <1>8, ReaderStep

LEMMA PartMissStep == ASSUME StoreInv, NEW r \in Readers, PartMiss(r) PROVE StoreInv'
<1> DEFINE w == todo[r][1]
           span == InnerRange(Bounded(w.id * PartSize, (w.id + 1) * PartSize), objSize)
<1>0. StoreTypes /\ FilesInv /\ ReaderInv(r) /\ objSize \in Sizes
  BY DEF StoreInv, StoreTypes
<1>1. /\ stage[r] = "parts" /\ todo[r] # <<>> /\ Fault(r, part[w.id] # NoBytes) /\ Get(r)
      /\ UNCHANGED <<demand, objSize, upstream, putter, deleter, request, meta, reads, prefetched>>
  BY DEF PartMiss
<1>2. /\ w \in Wants /\ w.id \in PartIds /\ w.start <= w.end /\ Mul(w.id) < objSize
      /\ w.end <= PartEnd(w.id) - Mul(w.id)
  BY <1>0, <1>1, NextWant
<1>3. span = <<Mul(w.id), PartEnd(w.id)>> /\ span # Invalid
  <2> DEFINE p == w.id
  <2>1. p \in Nat /\ Mul(p) \in Nat /\ objSize \in Nat /\ PartSize \in Nat /\ PartSize > 0
    BY <1>0, <1>2, PartFacts, SizeFacts
  <2>2. p * PartSize = Mul(p) /\ (p + 1) * PartSize = Mul(p) + PartSize
    BY <2>1, MulFacts DEF Mul
  <2> HIDE DEF p
  <2>3. InnerRange(Bounded(p * PartSize, (p + 1) * PartSize), objSize) = <<Mul(p), PartEnd(p)>>
    BY <1>2, <2>1, <2>2 DEF InnerRange, Bounded, PartEnd, p
  <2> QED BY <2>1, <2>3 DEF p, Invalid
<1> DEFINE b == Bytes(Mul(w.id), PartEnd(w.id))
<1>4. /\ head' \in {head, TRUE}
      /\ part' = [part EXCEPT ![w.id] = b] \/ UNCHANGED part
      /\ Deliver(r, Slice(b, w.start, w.end))
      /\ UNCHANGED <<stage, answer>>
  <2>1. span # Invalid =>
           /\ head' \in {head, TRUE}
           /\ part' = [part EXCEPT ![w.id] = Bytes(span[1], span[2])] \/ UNCHANGED part
           /\ Deliver(r, Slice(Bytes(span[1], span[2]), w.start, w.end))
           /\ UNCHANGED <<stage, answer>>
    BY DEF PartMiss
  <2>2. Bytes(span[1], span[2]) = b
    BY <1>3
  <2> HIDE DEF span, b, w
  <2> QED BY <1>3, <2>1, <2>2
<1>5. Slice(b, w.start, w.end) = Bytes(Mul(w.id) + w.start, Mul(w.id) + w.end)
  <2> HIDE DEF w
  <2> QED BY <1>0, <1>2, SliceOfPart
<1>6. FilesInv' /\ KeepsParts
  <2>1. b \in Seq(Int) /\ b # NoBytes
    BY <1>0, <1>2, PartFacts
  <2>2. \A p \in PartIds : PartEnd(p)' = PartEnd(p)
    BY <1>1 DEF PartEnd
  <2>3. CASE UNCHANGED part
    BY <1>0, <1>1, <2>3, FilesKept
  <2>4. CASE part' = [part EXCEPT ![w.id] = b]
    <3> HIDE DEF w
    <3>1. part' \in [PartIds -> Seq(Int)]
      BY <1>0, <1>2, <2>1, <2>4 DEF FilesInv
    <3>2. \A p \in PartIds : part'[p] = IF p = w.id THEN b ELSE part[p]
      BY <1>0, <1>2, <2>4 DEF FilesInv
    <3> QED BY <1>0, <1>1, <1>2, <2>1, <2>2, <3>1, <3>2 DEF FilesInv, KeepsParts
  <2> QED BY <1>4, <2>3, <2>4
<1>7. /\ Expected(r)' = Expected(r)
      /\ got' \in [Readers -> Seq(Nat)] /\ todo' \in [Readers -> Seq(Wants)]
      /\ \A o \in Readers \ {r} : got'[o] = got[o] /\ todo'[o] = todo[o]
      /\ Sent(r)' /\ Covers(todo'[r], Reached(r)', Expected(r)[2])
  BY <1>0, <1>1, <1>4, <1>5, Delivery
<1>8. /\ gets' \in [Readers -> Nat] /\ faulty' \in [Readers -> BOOLEAN]
      /\ \A o \in Readers \ {r} : gets'[o] = gets[o] /\ faulty'[o] = faulty[o]
      /\ ~faulty'[r] => ~faulty[r] /\ part[w.id] = NoBytes
  <2> DEFINE y == part[w.id] # NoBytes
  <2>1. faulty' = [faulty EXCEPT ![r] = faulty[r] \/ y] /\ gets' = [gets EXCEPT ![r] = gets[r] + 1]
    BY <1>1 DEF Get, Fault
  <2>2. y \in BOOLEAN
    OBVIOUS
  <2>3. ~y => part[w.id] = NoBytes
    OBVIOUS
  <2> HIDE DEF y, w
  <2>4. gets' \in [Readers -> Nat] /\ \A o \in Readers \ {r} : gets'[o] = gets[o]
    BY <1>0, <2>1 DEF StoreTypes
  <2>5. faulty' \in [Readers -> BOOLEAN] /\ \A o \in Readers \ {r} : faulty'[o] = faulty[o]
    BY <1>0, <2>1, <2>2 DEF StoreTypes
  <2>6. faulty'[r] <=> faulty[r] \/ y
    BY <1>0, <2>1, <2>2 DEF StoreTypes
  <2> QED BY <2>3, <2>4, <2>5, <2>6
<1>9. StoreTypes'
  BY <1>0, <1>1, <1>4, <1>7, <1>8 DEF StoreTypes
<1>10. ~(prefetched[r] /\ ~faulty'[r] /\ Fits(request[r]))
  <2> SUFFICES ASSUME prefetched[r], ~faulty'[r], Fits(request[r]) PROVE FALSE
    OBVIOUS
  <2>1. Cached(r)
    BY <1>0, <1>1, <1>8 DEF ReaderInv
  <2>2. 1 \in 1..Len(todo[r])
    BY <1>0, <1>1 DEF StoreTypes
  <2> QED BY <1>8, <2>1, <2>2 DEF Cached
<1>11. ReaderInv(r)'
  BY <1>0, <1>1, <1>4, <1>7, <1>10 DEF ReaderInv, Answered
<1> QED BY <1>1, <1>4, <1>6, <1>7, <1>8, <1>9, <1>11, ReaderStep

LEMMA StoreStep == StoreInv /\ [CSNext]_csVars => StoreInv'
<1> SUFFICES ASSUME StoreInv, [CSNext]_csVars PROVE StoreInv'
  OBVIOUS
<1>1. CASE UNCHANGED csVars
  <2>1. StoreTypes' /\ FilesInv' /\ KeepsParts
    BY <1>1, FilesKept DEF StoreInv, StoreTypes, csVars, readerVars
  <2> QED BY <1>1, <2>1, QuietStep DEF csVars, readerVars
<1>2. CASE CSNext
  BY <1>2, CacheSteps, BeginStep, HeadHitStep, HeadMissStep, PrefetchStep, UpstreamFailsStep,
     PartHitStep, PartMissStep, StreamEndsStep DEF CSNext
<1> QED BY <1>1, <1>2

\* The inductive invariant of a cached object: exact part files, and for every
\* reader what it has got, what it still wants and what it may find cached.
THEOREM StoreInvariant == CSSpec => []StoreInv
  BY StoreInit, StoreStep, PTL DEF CSSpec

\* CachedObjectStore: for every part size, object size and range, cached reads
\* return the bytes of the inner store or its refusal, through evictions,
\* failed saves, concurrent readers, a PUT and a deletion; what was handed over
\* is always a prefix of them; and an undisturbed cold read asks upstream once.
THEOREM CachedReadsAreExact == CSSpec => []CachedReadsExact
<1>1. ASSUME StoreInv PROVE CachedReadsExact
  <2>0. StoreTypes /\ FilesInv /\ objSize \in Sizes
    BY <1>1 DEF StoreInv, StoreTypes
  <2>n. objSize \in Nat /\ PartSize \in Nat
    BY <2>0, SizeFacts
  <2>1. CSTypeOK
    <3>1. DOMAIN part = PartIds
      BY <2>0 DEF FilesInv
    <3>2. ASSUME NEW p \in PartIds, part[p] # NoBytes PROVE Len(part[p]) \in 1..PartSize
      <4>1. Mul(p) < objSize /\ part[p] = Bytes(Mul(p), PartEnd(p))
        BY <2>0, <3>2 DEF FilesInv
      <4>2. /\ Mul(p) \in Nat /\ PartEnd(p) \in Nat /\ Mul(p) < PartEnd(p)
            /\ PartEnd(p) <= Mul(p) + PartSize
            /\ Len(Bytes(Mul(p), PartEnd(p))) = PartEnd(p) - Mul(p)
        BY <2>0, <4>1, PartFacts
      <4> QED BY <2>n, <4>1, <4>2
    <3>3. ASSUME NEW r \in Readers, stage[r] = "parts" PROVE meta[r] # -1 /\ Len(got[r]) <= meta[r]
      <4>1. meta[r] = objSize /\ Sent(r)
        BY <1>1, <3>3 DEF StoreInv, ReaderInv
      <4>2. PICK s \in Nat, e \in Nat : Expected(r) = <<s, e>> /\ s <= e /\ e <= objSize
        BY <2>0, <4>1, ExpectedFacts DEF Sent
      <4>3. Len(got[r]) \in Nat /\ s + Len(got[r]) <= e
        BY <2>0, <4>1, <4>2 DEF Sent, Reached, StoreTypes
      <4> QED BY <2>n, <4>1, <4>2, <4>3
    <3> QED BY <2>0, <3>1, <3>2, <3>3 DEF CSTypeOK, StoreTypes
  <2>2. PartFilesExact
    BY <2>0 DEF FilesInv, PartFilesExact, PartEnd, Mul
  <2>3. ReadsMatchInner
    BY <1>1 DEF StoreInv, ReaderInv, Answered, ReadsMatchInner
  <2>4. DeliveredIsPrefix
    <3> SUFFICES ASSUME NEW r \in Readers, got[r] # <<>>
                 PROVE  IsPrefix(got[r], Bytes(Expected(r)[1], Expected(r)[2]))
      BY DEF DeliveredIsPrefix
    <3>1. Sent(r)
      BY <1>1 DEF StoreInv, ReaderInv
    <3>2. PICK s \in Nat, e \in Nat : Expected(r) = <<s, e>> /\ s <= e /\ e <= objSize
      BY <2>0, <3>1, ExpectedFacts DEF Sent
    <3> DEFINE l == Len(got[r])  b == Bytes(s, e)
    <3>3. l \in Nat /\ got[r] = Bytes(s, s + l) /\ s + l <= e /\ got[r] \in Seq(Nat)
      BY <2>0, <3>1, <3>2 DEF Sent, Reached, StoreTypes
    <3>4. b \in Seq(Nat) /\ Len(b) = e - s
      BY <3>2, BytesSeq
    <3> HIDE DEF b
    <3>5. Slice(b, 0, l) = Bytes(s + 0, s + l)
      <4>1. 0 \in Nat /\ 0 <= l /\ l <= e - s
        BY <3>3
      <4> QED BY <3>2, <4>1, BytesSlice DEF b
    <3>6. SubSeq(b, 1, l) = got[r]
      BY <3>2, <3>3, <3>5 DEF Slice
    <3>7. SubSeq(got[r], 1, l) = got[r]
      BY <3>3, SubSeqFull
    <3>8. l <= Len(b)
      BY <3>3, <3>4
    <3>9. IsPrefix(got[r], b)
      BY <3>6, <3>7, <3>8 DEF IsPrefix
    <3> QED BY <3>2, <3>9 DEF b
  <2>5. PrefetchSuffices
    BY <1>1 DEF StoreInv, ReaderInv, PrefetchSuffices
  <2> QED BY <2>1, <2>2, <2>3, <2>4, <2>5 DEF CachedReadsExact
<1> QED BY <1>1, StoreInvariant, PTL
==============================================================================
