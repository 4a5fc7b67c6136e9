----------------------------- MODULE FetchProofs -----------------------------
(***************************************************************************)
(* The planning of a fetch, for any commit graph, any trees and tags, any  *)
(* request and any objects missing from storage.  select_commits never     *)
(* stalls and leaves no gap, whatever generations are recorded; with exact *)
(* ones it sends nothing the client has; plan_pack packs what the client   *)
(* lacks and nothing of its snapshots; both fail only for a cause; and the *)
(* walk of an intact repository implements Selection.                      *)
(*                                                                         *)
(* Five invariants carry this.  DInv: a want is sent or waits, a have mark *)
(* spreads only over what the client has.  ExactInv: the haves run ahead   *)
(* of the wants.  HoleInv: what is marked could be read.  PInv: what was   *)
(* expanded and collected is whole up to the work that is left.  EndInv:   *)
(* only the wants' ancestors are sent, and what ended the walk.            *)
(***************************************************************************)
EXTENDS FetchPlan, InductionLemmas, SequenceTheorems, TLAPS

-----------------------------------------------------------------------------
(* What the graph of commits, trees and tags computes                      *)

\* Parents come before their children.
Numbered(p) == p \in [Commits -> SUBSET Commits] /\ \A c \in Commits : \A q \in p[c] : q < c

\* Ancestry over a given graph.
AncestryIn(p, S) ==
    LET a[c \in Commits] == {c} \cup UNION {a[q] : q \in p[c]}
    IN UNION {a[c] : c \in S}

\* An ancestry is the least parent-closed set with the given commits.
LEMMA AncestryFacts ==
    ASSUME NEW p, Numbered(p), NEW S \in SUBSET Commits
    PROVE  /\ AncestryIn(p, S) \in SUBSET Commits
           /\ S \subseteq AncestryIn(p, S)
           /\ ClosedUnder(p, AncestryIn(p, S))
           /\ \A A \in SUBSET Commits : S \subseteq A /\ ClosedUnder(p, A) => AncestryIn(p, S) \subseteq A
<1>1. Commits \in SUBSET Nat /\ N \in Nat /\ \A c \in Commits : c <= N
  BY DiscoveryAssumption DEF Commits
<1>2. NumberedIn(Commits, p)
  BY <1>1 DEF Numbered, NumberedIn
<1>3. AncestryIn(p, S) = ReachIn(Commits, p, S)
  BY DEF AncestryIn, ReachIn
<1> QED BY <1>2, <1>3, ReachFacts

\* Resolves over a given graph, records and commits.
ResolvesIn(p, rec, sto, c) ==
    LET r[x \in Commits] == x \in rec \/ (x \in sto /\ \A q \in p[x] : r[q])
    IN r[c]

\* get_commit_info answers for a commit that is recorded, or stored with
\* parents it answers for.
LEMMA ResolvesFacts ==
    ASSUME NEW p, Numbered(p), NEW rec, NEW sto, NEW c \in Commits
    PROVE  ResolvesIn(p, rec, sto, c) <=>
              c \in rec \/ (c \in sto /\ \A q \in p[c] : ResolvesIn(p, rec, sto, q))
<1> DEFINE Line(f, x) == x \in rec \/ (x \in sto /\ \A q \in p[x] : f[q])
           F == [x \in Commits \X [Commits -> BOOLEAN] |-> Line(x[2], x[1])]
           r[x \in Commits] == x \in rec \/ (x \in sto /\ \A q \in p[x] : r[q])
<1>1. Commits \in SUBSET Nat /\ N \in Nat /\ \A x \in Commits : x <= N
  BY DiscoveryAssumption DEF Commits
<1>2. ASSUME NEW x \in Commits, NEW f \in [Commits -> BOOLEAN]
      PROVE  F[<<x, f>>] = Line(f, x) /\ Line(f, x) \in BOOLEAN
  OBVIOUS
<1>3. F \in [Commits \X [Commits -> BOOLEAN] -> BOOLEAN]
  OBVIOUS
<1> HIDE DEF F
<1>4. LooksDown(Commits, BOOLEAN, F)
  <2> SUFFICES ASSUME NEW x \in Commits, NEW f \in [Commits -> BOOLEAN], NEW h \in [Commits -> BOOLEAN],
                      \A q \in Commits : q < x => f[q] = h[q]
               PROVE  F[<<x, f>>] = F[<<x, h>>]
    BY DEF LooksDown
  <2>1. \A q \in p[x] : f[q] = h[q]
    BY DEF Numbered
  <2>2. Line(f, x) = Line(h, x)
    BY <2>1
  <2>3. F[<<x, f>>] = Line(f, x)
    BY <1>2
  <2>4. F[<<x, h>>] = Line(h, x)
    BY <1>2
  <2> HIDE DEF Line
  <2> QED BY <2>2, <2>3, <2>4
<1>5. PICK f \in [Commits -> BOOLEAN] : \A x \in Commits : f[x] = F[<<x, f>>]
  <2>1. TRUE \in BOOLEAN
    OBVIOUS
  <2>2. \E f : Solves(f, Commits, BOOLEAN, F)
    BY <1>1, <1>3, <1>4, <2>1, NumberedRecursion
  <2> QED BY <2>2 DEF Solves
<1>6. f = [x \in Commits |-> Line(f, x)]
  <2>1. \A x \in Commits : f[x] = Line(f, x)
    BY <1>2, <1>5
  <2> HIDE DEF Line
  <2> QED BY <2>1
<1>7. r = [x \in Commits |-> Line(r, x)]
  BY <1>6
<1>8. \A x \in Commits : ResolvesIn(p, rec, sto, x) = r[x]
  BY DEF ResolvesIn
<1> HIDE DEF r
<1>9. \A x \in Commits : r[x] = Line(r, x)
  <2> HIDE DEF Line
  <2> QED BY <1>7
<1>10. p[c] \subseteq Commits
  BY DEF Numbered
<1> QED BY <1>8, <1>9, <1>10

\* A commit get_commit_info cannot answer for has a commit below it that is
\* neither recorded nor stored.
LEMMA HoleBelow ==
    ASSUME NEW p, Numbered(p), NEW rec, NEW sto,
           NEW A \in SUBSET Commits, ClosedUnder(p, A),
           NEW c \in A, ~ResolvesIn(p, rec, sto, c)
    PROVE  \E x \in A : x \notin rec /\ x \notin sto
<1> DEFINE Bad == {x \in A : ~ResolvesIn(p, rec, sto, x)}
<1>1. Bad \in SUBSET Nat /\ Bad # {}
  <2>1. Commits \subseteq Nat
    BY DiscoveryAssumption DEF Commits
  <2>2. c \in Bad
    OBVIOUS
  <2> QED BY <2>1, <2>2
<1>2. PICK x \in Bad : \A y \in Bad : x <= y
  BY <1>1, LeastNat
<1>3. x \in Commits /\ x \in A /\ ~ResolvesIn(p, rec, sto, x) /\ x \in Nat
  BY <1>1
<1>4. p[x] \subseteq A /\ \A q \in p[x] : q < x /\ q \in Nat
  <2>1. Commits \subseteq Nat
    BY DiscoveryAssumption DEF Commits
  <2> QED BY <1>3, <2>1 DEF ClosedUnder, Numbered
<1>5. \A q \in p[x] : q \notin Bad
  BY <1>2, <1>3, <1>4
<1>6. \A q \in p[x] : ResolvesIn(p, rec, sto, q)
  BY <1>4, <1>5
<1>7. x \notin rec /\ x \notin sto
  BY <1>3, <1>6, ResolvesFacts
<1> QED BY <1>3, <1>7

\* Exact generations decrease towards the parents.
LEMMA ExactDecreases ==
    ASSUME NEW p, Numbered(p)
    PROVE  /\ ExactGeneration(p) \in [Commits -> Nat]
           /\ \A c \in Commits : \A q \in p[c] : ExactGeneration(p)[q] < ExactGeneration(p)[c]
           /\ \A c \in Commits : /\ ExactGeneration(p)[c] >= 1
                                 /\ p[c] = {} => ExactGeneration(p)[c] = 1
<1> DEFINE Line(f, x) == IF p[x] = {} THEN 1 ELSE 1 + Max({f[q] : q \in p[x]})
           F == [x \in Commits \X [Commits -> Nat] |-> Line(x[2], x[1])]
           g[x \in Commits] == IF p[x] = {} THEN 1 ELSE 1 + Max({g[q] : q \in p[x]})
<1>1. Commits \in SUBSET Nat /\ N \in Nat /\ IsFiniteSet(Commits) /\ \A x \in Commits : x <= N
  BY DiscoveryAssumption, FS_Interval DEF Commits
<1>2. ASSUME NEW x \in Commits, NEW f \in [Commits -> Nat]
      PROVE  /\ Line(f, x) \in Nat /\ \A q \in p[x] : f[q] < Line(f, x)
             /\ Line(f, x) >= 1 /\ (p[x] = {} => Line(f, x) = 1)
  <2>1. p[x] \in SUBSET Commits /\ IsFiniteSet(p[x])
    BY <1>1, FS_Subset DEF Numbered
  <2> DEFINE V == {f[q] : q \in p[x]}
  <2>2. V \in SUBSET Nat
    BY <2>1
  <2>3. IsFiniteSet(V)
    <3> DEFINE k == [q \in p[x] |-> f[q]]
    <3>1. k = [q \in p[x] |-> k[q]] /\ V = {k[q] : q \in p[x]}
      OBVIOUS
    <3> HIDE DEF k
    <3> QED BY <2>1, <3>1, FiniteImage
  <2>4. CASE p[x] = {}
    BY <2>4
  <2>5. CASE p[x] # {}
    <3>1. V # {} /\ Line(f, x) = 1 + Max(V) /\ \A q \in p[x] : f[q] \in V
      BY <2>5
    <3> HIDE DEF V, Line
    <3>2. Max(V) \in V /\ \A y \in V : Max(V) >= y
      BY <2>2, <2>3, <3>1, MaxNat
    <3>3. Max(V) \in Nat /\ Line(f, x) \in Nat /\ Line(f, x) >= 1
      <4>1. Max(V) \in Nat
        BY <2>2, <3>2
      <4> QED BY <3>1, <4>1
    <3>4. ASSUME NEW q \in p[x] PROVE f[q] < Line(f, x)
      <4>1. f[q] \in Nat /\ f[q] <= Max(V)
        BY <2>2, <3>1, <3>2
      <4> QED BY <3>1, <3>3, <4>1
    <3> QED BY <2>5, <3>3, <3>4
  <2> QED BY <2>4, <2>5
<1>3. F \in [Commits \X [Commits -> Nat] -> Nat]
  <2>1. \A y \in Commits \X [Commits -> Nat] : Line(y[2], y[1]) \in Nat
    <3> HIDE DEF Line
    <3> QED BY <1>2
  <2> HIDE DEF Line
  <2> QED BY <2>1
<1>4. ASSUME NEW x \in Commits, NEW f \in [Commits -> Nat] PROVE F[<<x, f>>] = Line(f, x)
  OBVIOUS
<1> HIDE DEF F
<1>5. LooksDown(Commits, Nat, F)
  <2> SUFFICES ASSUME NEW x \in Commits, NEW f \in [Commits -> Nat], NEW h \in [Commits -> Nat],
                      \A q \in Commits : q < x => f[q] = h[q]
               PROVE  F[<<x, f>>] = F[<<x, h>>]
    BY DEF LooksDown
  <2>1. \A q \in p[x] : f[q] = h[q]
    BY DEF Numbered
  <2>2. {f[q] : q \in p[x]} = {h[q] : q \in p[x]}
    BY <2>1
  <2>3. Line(f, x) = Line(h, x)
    BY <2>2
  <2>4. F[<<x, f>>] = Line(f, x)
    BY <1>4
  <2>5. F[<<x, h>>] = Line(h, x)
    BY <1>4
  <2> HIDE DEF Line
  <2> QED BY <2>3, <2>4, <2>5
<1>6. PICK f \in [Commits -> Nat] : \A x \in Commits : f[x] = F[<<x, f>>]
  <2>1. 0 \in Nat
    OBVIOUS
  <2>2. \E f : Solves(f, Commits, Nat, F)
    BY <1>1, <1>3, <1>5, <2>1, NumberedRecursion
  <2> QED BY <2>2 DEF Solves
<1>7. f = [x \in Commits |-> Line(f, x)]
  <2>1. \A x \in Commits : f[x] = Line(f, x)
    <3> HIDE DEF Line
    <3> QED BY <1>4, <1>6
  <2> HIDE DEF Line
  <2> QED BY <2>1
<1>8. g = [x \in Commits |-> Line(g, x)]
  BY <1>7
<1>9. ExactGeneration(p) = g
  BY DEF ExactGeneration
<1> HIDE DEF g
<1>10. \A x \in Commits : g[x] = Line(g, x)
  <2> HIDE DEF Line
  <2> QED BY <1>8
<1>11. ASSUME NEW x \in Commits, \A q \in p[x] : g[q] = f[q]
       PROVE  g[x] = f[x]
  <2>1. {f[q] : q \in p[x]} = {g[q] : q \in p[x]}
    BY <1>11
  <2>2. Line(g, x) = Line(f, x)
    BY <2>1
  <2>3. f[x] = Line(f, x)
    <3> HIDE DEF Line
    <3> QED BY <1>4, <1>6
  <2> HIDE DEF Line
  <2> QED BY <1>10, <2>2, <2>3
<1>12. \A x \in Commits : g[x] = f[x]
  <2> DEFINE Bad == {x \in Commits : g[x] # f[x]}
  <2> SUFFICES ASSUME Bad # {} PROVE FALSE
    OBVIOUS
  <2>1. PICK x \in Bad : \A y \in Bad : x <= y
    BY <1>1, LeastNat
  <2>2. p[x] \subseteq Commits /\ \A q \in p[x] : q < x /\ q \in Nat /\ x \in Nat
    BY <1>1 DEF Numbered
  <2>3. \A q \in p[x] : q \notin Bad
    BY <2>1, <2>2
  <2>4. \A q \in p[x] : g[q] = f[q]
    BY <2>2, <2>3
  <2> QED BY <1>11, <2>4
<1>13. g = f
  <2> HIDE DEF Line
  <2> QED BY <1>6, <1>8, <1>12
<1>14. ASSUME NEW x \in Commits, NEW q \in p[x] PROVE f[q] < f[x]
  <2>1. f[x] = Line(f, x)
    <3> HIDE DEF Line
    <3> QED BY <1>4, <1>6
  <2> HIDE DEF Line
  <2> QED BY <1>2, <2>1
<1>15. ASSUME NEW x \in Commits PROVE f[x] >= 1 /\ (p[x] = {} => f[x] = 1)
  <2>1. f[x] = Line(f, x)
    <3> HIDE DEF Line
    <3> QED BY <1>4, <1>6
  <2> HIDE DEF Line
  <2> QED BY <1>2, <2>1
<1> QED BY <1>6, <1>9, <1>13, <1>14, <1>15

\* Closed under the entries a complete client holds, under the filter.
TreeClosed(B) ==
    \A t \in B \cap Trees :
        Entries[t] \cap Trees \subseteq B /\ {b \in Entries[t] \cap Blobs : Admits(b)} \subseteq B

\* What is under a tree is the least closed set that holds it.
LEMMA UnderFacts ==
    ASSUME NEW t \in Trees
    PROVE  /\ t \in Under(t) /\ Under(t) \subseteq Trees \cup Blobs /\ TreeClosed(Under(t))
           /\ \A B : t \in B /\ TreeClosed(B) => Under(t) \subseteq B
<1> DEFINE S == SUBSET (Trees \cup Blobs)
           Own(x) == {x} \cup {b \in Entries[x] \cap Blobs : Admits(b)}
           Line(f, x) == Own(x) \cup UNION {f[y] : y \in Entries[x] \cap Trees}
           F == [x \in Trees \X [Trees -> S] |-> Line(x[2], x[1])]
           u[x \in Trees] == {x} \cup {b \in Entries[x] \cap Blobs : Admits(b)}
                                \cup UNION {u[y] : y \in Entries[x] \cap Trees}
<1>1. Trees \in SUBSET Nat /\ IsFiniteSet(Trees) /\ \A x \in Trees : \A y \in Entries[x] \cap Trees : y < x
  BY FetchPlanAssumption
<1>2. PICK M \in Nat : \A x \in Trees : x <= M
  <2>1. Max(Trees) \in Trees /\ \A y \in Trees : Max(Trees) >= y
    BY <1>1, MaxNat
  <2>2. \A y \in Trees : y <= Max(Trees)
    BY <1>1, <2>1
  <2> QED BY <1>1, <2>1, <2>2
<1>3. ASSUME NEW x \in Trees, NEW f \in [Trees -> S] PROVE Line(f, x) \in S
  <2>1. \A y \in Entries[x] \cap Trees : f[y] \in SUBSET (Trees \cup Blobs)
    OBVIOUS
  <2>2. Own(x) \in S
    OBVIOUS
  <2> HIDE DEF Own
  <2> QED BY <2>1, <2>2
<1>4. F \in [Trees \X [Trees -> S] -> S]
  <2>1. \A y \in Trees \X [Trees -> S] : Line(y[2], y[1]) \in S
    <3> HIDE DEF Line, S
    <3> QED BY <1>3
  <2> HIDE DEF Line
  <2> QED BY <2>1
<1>5. ASSUME NEW x \in Trees, NEW f \in [Trees -> S] PROVE F[<<x, f>>] = Line(f, x)
  <2> HIDE DEF Line, S
  <2> QED OBVIOUS
<1> HIDE DEF F
<1>6. LooksDown(Trees, S, F)
  <2> SUFFICES ASSUME NEW x \in Trees, NEW f \in [Trees -> S], NEW h \in [Trees -> S],
                      \A q \in Trees : q < x => f[q] = h[q]
               PROVE  F[<<x, f>>] = F[<<x, h>>]
    <3> HIDE DEF S
    <3> QED BY DEF LooksDown
  <2>1. \A q \in Entries[x] \cap Trees : f[q] = h[q]
    BY <1>1
  <2>2. {f[q] : q \in Entries[x] \cap Trees} = {h[q] : q \in Entries[x] \cap Trees}
    BY <2>1
  <2>3. Line(f, x) = Line(h, x)
    <3> HIDE DEF Own
    <3> QED BY <2>2
  <2>4. F[<<x, f>>] = Line(f, x)
    BY <1>5
  <2>5. F[<<x, h>>] = Line(h, x)
    BY <1>5
  <2> HIDE DEF Line
  <2> QED BY <2>3, <2>4, <2>5
<1>7. PICK f \in [Trees -> S] : \A x \in Trees : f[x] = F[<<x, f>>]
  <2>1. {} \in S
    OBVIOUS
  <2> HIDE DEF S
  <2>2. \E f : Solves(f, Trees, S, F)
    BY <1>1, <1>2, <1>4, <1>6, <2>1, NumberedRecursion
  <2> QED BY <2>2 DEF Solves
<1>8. f = [x \in Trees |-> Line(f, x)]
  <2>1. \A x \in Trees : f[x] = Line(f, x)
    <3> HIDE DEF Line, S
    <3> QED BY <1>5, <1>7
  <2> HIDE DEF Line, S
  <2> QED BY <1>7, <2>1
<1>9. u = [x \in Trees |-> Line(u, x)]
  BY <1>8
<1>10. Under(t) = u[t]
  BY DEF Under
<1> HIDE DEF u
<1>11. PICK w : Under(t) = w[t] /\ w = [x \in Trees |-> Line(w, x)]
  <2> HIDE DEF Line
  <2> QED BY <1>9, <1>10
<1>12. \A x \in Trees : w[x] = Own(x) \cup UNION {w[y] : y \in Entries[x] \cap Trees}
  <2>1. \A x \in Trees : w[x] = Line(w, x)
    <3> HIDE DEF Line
    <3> QED BY <1>11
  <2> HIDE DEF Own
  <2> QED BY <2>1
<1> HIDE DEF Line
<1>13. ASSUME NEW B, TreeClosed(B) PROVE \A x \in B \cap Trees : w[x] \subseteq B
  <2> DEFINE Bad == {x \in B \cap Trees : ~(w[x] \subseteq B)}
  <2> SUFFICES ASSUME Bad # {} PROVE FALSE
    OBVIOUS
  <2>1. PICK x \in Bad : \A y \in Bad : x <= y
    BY <1>1, LeastNat
  <2>2. /\ Entries[x] \cap Trees \subseteq B /\ Own(x) \subseteq B
        /\ \A q \in Entries[x] \cap Trees : q < x /\ q \in Nat /\ x \in Nat
    BY <1>1, <1>13 DEF TreeClosed
  <2>3. \A q \in Entries[x] \cap Trees : q \notin Bad
    BY <2>1, <2>2
  <2>4. \A q \in Entries[x] \cap Trees : w[q] \subseteq B
    BY <2>2, <2>3
  <2> HIDE DEF Own
  <2> QED BY <1>12, <2>2, <2>4
<1>14. \A x \in Trees : x \in w[x] /\ w[x] \subseteq Trees \cup Blobs
  <2>1. TreeClosed(Trees \cup Blobs)
    BY DEF TreeClosed
  <2>2. \A x \in Trees : x \in w[x]
    BY <1>12
  <2> QED BY <1>13, <2>1, <2>2
<1>15. \A x \in Trees : TreeClosed(w[x])
  <2> DEFINE Bad == {x \in Trees : ~TreeClosed(w[x])}
  <2> SUFFICES ASSUME Bad # {} PROVE FALSE
    OBVIOUS
  <2>1. PICK x \in Bad : \A y \in Bad : x <= y
    BY <1>1, LeastNat
  <2>2. \A q \in Entries[x] \cap Trees : q < x /\ q \in Nat /\ x \in Nat
    BY <1>1
  <2>3. \A q \in Entries[x] \cap Trees : q \notin Bad
    BY <2>1, <2>2
  <2>4. \A q \in Entries[x] \cap Trees : TreeClosed(w[q])
    BY <2>3
  <2>5. x \in Trees /\ w[x] = Own(x) \cup UNION {w[y] : y \in Entries[x] \cap Trees}
    BY <1>12
  <2>6. Own(x) \subseteq w[x] /\ \A q \in Entries[x] \cap Trees : w[q] \subseteq w[x] /\ q \in w[x]
    <3> HIDE DEF Own
    <3> QED BY <1>14, <2>5
  <2>7. ASSUME NEW y \in w[x] \cap Trees
        PROVE  Entries[y] \cap Trees \subseteq w[x] /\ {b \in Entries[y] \cap Blobs : Admits(b)} \subseteq w[x]
    <3>1. y = x \/ \E q \in Entries[x] \cap Trees : y \in w[q]
      <4>1. y \notin Blobs
        BY FetchPlanAssumption
      <4>2. y \in Own(x) => y = x
        BY <4>1
      <4> HIDE DEF Own
      <4> QED BY <2>5, <2>7, <4>2
    <3>2. CASE y = x
      BY <2>6, <3>2
    <3>3. ASSUME NEW q \in Entries[x] \cap Trees, y \in w[q]
          PROVE  Entries[y] \cap Trees \subseteq w[x] /\ {b \in Entries[y] \cap Blobs : Admits(b)} \subseteq w[x]
      <4>1. Entries[y] \cap Trees \subseteq w[q] /\ {b \in Entries[y] \cap Blobs : Admits(b)} \subseteq w[q]
        BY <2>4, <3>3 DEF TreeClosed
      <4>2. w[q] \subseteq w[x]
        BY <2>6
      <4> QED BY <4>1, <4>2
    <3> QED BY <3>1, <3>2, <3>3
  <2>8. TreeClosed(w[x])
    BY <2>7 DEF TreeClosed
  <2> QED BY <2>8
<1>16. \A B : t \in B /\ TreeClosed(B) => w[t] \subseteq B
  BY <1>13
<1> QED BY <1>11, <1>14, <1>15, <1>16

\* Tags are numbered, up to some number.
LEMMA TagNumbers ==
    ASSUME NEW t \in Tags
    PROVE  /\ Tags \in SUBSET Nat /\ \A x \in Tags : Target[x] \in Tags => Target[x] < x
           /\ \E M \in Nat : \A x \in Tags : x <= M
<1>1. /\ Tags \in SUBSET Nat /\ IsFiniteSet(Tags)
      /\ \A x \in Tags : Target[x] \in Tags => Target[x] < x
  BY FetchPlanAssumption
<1>2. Max(Tags) \in Tags /\ \A y \in Tags : Max(Tags) >= y
  BY <1>1, MaxNat
<1>3. \A y \in Tags : y <= Max(Tags)
  BY <1>1, <1>2
<1> QED BY <1>1, <1>2, <1>3

\* The chain of a tag holds the tag, and with each tag the tag it names.
LEMMA ChainFacts ==
    ASSUME NEW t \in Tags
    PROVE  /\ t \in Chain(t) /\ Chain(t) \subseteq Tags
           /\ Target[t] \in Tags => Chain(t) = {t} \cup Chain(Target[t])
<1> DEFINE S == SUBSET Tags
           Line(f, x) == {x} \cup IF Target[x] \in Tags THEN f[Target[x]] ELSE {}
           F == [x \in Tags \X [Tags -> S] |-> Line(x[2], x[1])]
           c[x \in Tags] == {x} \cup IF Target[x] \in Tags THEN c[Target[x]] ELSE {}
<1>1. Tags \in SUBSET Nat /\ \A x \in Tags : Target[x] \in Tags => Target[x] < x
  BY TagNumbers
<1>2. PICK M \in Nat : \A x \in Tags : x <= M
  BY TagNumbers
<1>3. ASSUME NEW x \in Tags, NEW f \in [Tags -> S] PROVE Line(f, x) \in S
  <2>1. Target[x] \in Tags => f[Target[x]] \in SUBSET Tags
    OBVIOUS
  <2> QED BY <2>1
<1>4. F \in [Tags \X [Tags -> S] -> S]
  <2>1. \A y \in Tags \X [Tags -> S] : Line(y[2], y[1]) \in S
    <3> HIDE DEF Line, S
    <3> QED BY <1>3
  <2> HIDE DEF Line
  <2> QED BY <2>1
<1>5. ASSUME NEW x \in Tags, NEW f \in [Tags -> S] PROVE F[<<x, f>>] = Line(f, x)
  <2> HIDE DEF Line, S
  <2> QED OBVIOUS
<1> HIDE DEF F
<1>6. LooksDown(Tags, S, F)
  <2> SUFFICES ASSUME NEW x \in Tags, NEW f \in [Tags -> S], NEW h \in [Tags -> S],
                      \A q \in Tags : q < x => f[q] = h[q]
               PROVE  F[<<x, f>>] = F[<<x, h>>]
    <3> HIDE DEF S
    <3> QED BY DEF LooksDown
  <2>1. Target[x] \in Tags => f[Target[x]] = h[Target[x]]
    BY <1>1
  <2>2. Line(f, x) = Line(h, x)
    BY <2>1
  <2>3. F[<<x, f>>] = Line(f, x)
    BY <1>5
  <2>4. F[<<x, h>>] = Line(h, x)
    BY <1>5
  <2> HIDE DEF Line
  <2> QED BY <2>2, <2>3, <2>4
<1>7. PICK f \in [Tags -> S] : \A x \in Tags : f[x] = F[<<x, f>>]
  <2>1. {} \in S
    OBVIOUS
  <2> HIDE DEF S
  <2>2. \E f : Solves(f, Tags, S, F)
    BY <1>1, <1>2, <1>4, <1>6, <2>1, NumberedRecursion
  <2> QED BY <2>2 DEF Solves
<1>8. f = [x \in Tags |-> Line(f, x)]
  <2>1. \A x \in Tags : f[x] = Line(f, x)
    <3> HIDE DEF Line, S
    <3> QED BY <1>5, <1>7
  <2> HIDE DEF Line, S
  <2> QED BY <1>7, <2>1
<1>9. c = [x \in Tags |-> Line(c, x)]
  BY <1>8
<1>10. \A x \in Tags : Chain(x) = c[x]
  BY DEF Chain
<1> HIDE DEF c
<1>11. \A x \in Tags : c[x] = Line(c, x)
  <2> HIDE DEF Line
  <2> QED BY <1>9
<1>12. \A x \in Tags : c[x] \subseteq Tags
  <2> DEFINE Bad == {x \in Tags : ~(c[x] \subseteq Tags)}
  <2> SUFFICES ASSUME Bad # {} PROVE FALSE
    OBVIOUS
  <2>1. PICK x \in Bad : \A y \in Bad : x <= y
    BY <1>1, LeastNat
  <2>2. Target[x] \in Tags => Target[x] < x /\ Target[x] \in Nat /\ x \in Nat
    BY <1>1
  <2>3. Target[x] \in Tags => Target[x] \notin Bad
    BY <2>1, <2>2
  <2>4. Target[x] \in Tags => c[Target[x]] \subseteq Tags
    BY <2>3
  <2>5. x \in Tags /\ c[x] = Line(c, x) /\ ~(c[x] \subseteq Tags)
    BY <1>11
  <2> QED BY <2>4, <2>5
<1> QED BY <1>10, <1>11, <1>12

\* Peeling ends at what the last tag of the chain names.
LEMMA PeeledFacts ==
    ASSUME NEW t \in Tags
    PROVE  \E x \in Chain(t) : Target[x] = Peeled(t) /\ Target[x] \notin Tags
<1> DEFINE S == {Target[x] : x \in Tags}
           Line(f, x) == IF Target[x] \in Tags THEN f[Target[x]] ELSE Target[x]
           F == [x \in Tags \X [Tags -> S] |-> Line(x[2], x[1])]
           p[x \in Tags] == IF Target[x] \in Tags THEN p[Target[x]] ELSE Target[x]
<1>1. Tags \in SUBSET Nat /\ \A x \in Tags : Target[x] \in Tags => Target[x] < x
  BY TagNumbers
<1>2. PICK M \in Nat : \A x \in Tags : x <= M
  BY TagNumbers
<1>3. ASSUME NEW x \in Tags, NEW f \in [Tags -> S] PROVE Line(f, x) \in S
  <2>1. Target[x] \in Tags => f[Target[x]] \in S
    <3> HIDE DEF S
    <3> QED OBVIOUS
  <2>2. Target[x] \in S
    OBVIOUS
  <2> HIDE DEF S
  <2> QED BY <2>1, <2>2
<1>4. F \in [Tags \X [Tags -> S] -> S]
  <2>1. \A y \in Tags \X [Tags -> S] : Line(y[2], y[1]) \in S
    <3> HIDE DEF Line, S
    <3> QED BY <1>3
  <2> HIDE DEF Line, S
  <2> QED BY <2>1
<1>5. ASSUME NEW x \in Tags, NEW f \in [Tags -> S] PROVE F[<<x, f>>] = Line(f, x)
  <2> HIDE DEF Line, S
  <2> QED OBVIOUS
<1> HIDE DEF F
<1>6. LooksDown(Tags, S, F)
  <2> SUFFICES ASSUME NEW x \in Tags, NEW f \in [Tags -> S], NEW h \in [Tags -> S],
                      \A q \in Tags : q < x => f[q] = h[q]
               PROVE  F[<<x, f>>] = F[<<x, h>>]
    <3> HIDE DEF S
    <3> QED BY DEF LooksDown
  <2>1. Target[x] \in Tags => f[Target[x]] = h[Target[x]]
    BY <1>1
  <2>2. Line(f, x) = Line(h, x)
    BY <2>1
  <2>3. F[<<x, f>>] = Line(f, x)
    BY <1>5
  <2>4. F[<<x, h>>] = Line(h, x)
    BY <1>5
  <2> HIDE DEF Line
  <2> QED BY <2>2, <2>3, <2>4
<1>7. PICK f \in [Tags -> S] : \A x \in Tags : f[x] = F[<<x, f>>]
  <2>1. Target[t] \in S
    OBVIOUS
  <2> HIDE DEF S
  <2>2. \E f : Solves(f, Tags, S, F)
    BY <1>1, <1>2, <1>4, <1>6, <2>1, NumberedRecursion
  <2> QED BY <2>2 DEF Solves
<1>8. f = [x \in Tags |-> Line(f, x)]
  <2>1. \A x \in Tags : f[x] = Line(f, x)
    <3> HIDE DEF Line, S
    <3> QED BY <1>5, <1>7
  <2> HIDE DEF Line, S
  <2> QED BY <1>7, <2>1
<1>9. p = [x \in Tags |-> Line(p, x)]
  BY <1>8
<1>10. \A x \in Tags : Peeled(x) = p[x]
  BY DEF Peeled
<1> HIDE DEF p
<1>11. \A x \in Tags : p[x] = Line(p, x)
  <2> HIDE DEF Line
  <2> QED BY <1>9
<1> DEFINE Ends(x) == \E y \in Chain(x) : Target[y] = p[x] /\ Target[y] \notin Tags
<1>12. ASSUME NEW x \in Tags, Target[x] \in Tags => Ends(Target[x]) PROVE Ends(x)
  <2>1. CASE Target[x] \in Tags
    <3>1. p[x] = p[Target[x]] /\ Chain(Target[x]) \subseteq Chain(x)
      BY <1>11, <2>1, ChainFacts
    <3> QED BY <1>12, <2>1, <3>1
  <2>2. CASE Target[x] \notin Tags
    <3>1. p[x] = Target[x] /\ x \in Chain(x)
      BY <1>11, <2>2, ChainFacts
    <3> QED BY <2>2, <3>1
  <2> QED BY <2>1, <2>2
<1> HIDE DEF Ends
<1>13. \A x \in Tags : Ends(x)
  <2> DEFINE Bad == {x \in Tags : ~Ends(x)}
  <2> SUFFICES ASSUME Bad # {} PROVE FALSE
    OBVIOUS
  <2>1. PICK x \in Bad : \A y \in Bad : x <= y
    BY <1>1, LeastNat
  <2>2. Target[x] \in Tags => Target[x] < x /\ Target[x] \in Nat /\ x \in Nat
    BY <1>1
  <2>3. Target[x] \in Tags => Target[x] \notin Bad
    BY <2>1, <2>2
  <2> QED BY <1>12, <2>3
<1> QED BY <1>10, <1>13 DEF Ends

-----------------------------------------------------------------------------
(* The walk                                                                *)

Discs == [state : [Commits -> {"none", "want", "have"}],
          frontier : SUBSET Commits, pending : SUBSET Commits]

\* The phases after the walk.
Settled == {"selected", "expand", "collect", "planned"}

Marked == {c \in Commits : disc.state[c] # "none"}

\* The shapes of the graph, the request and the walk.
WalkType ==
    /\ parents \in [Commits -> SUBSET Commits] /\ \A c \in Commits : \A q \in parents[c] : q < c
    /\ wants \in SUBSET Commits /\ haves \in SUBSET Commits
    /\ pc \in Phases \ {"stalled"}
    /\ disc \in Discs
    /\ level \in SUBSET Commits /\ done \in SUBSET Commits /\ common \in SUBSET Commits
    /\ toSend \in Seq(Commits) /\ bounded \in BOOLEAN

\* A pending commit is a want that still waits to be visited: it is on the
\* frontier or in the level at hand.
PendingQueued ==
    /\ \A c \in disc.pending : disc.state[c] = "want" /\ c \notin done
    /\ pc # "error" => disc.pending \subseteq disc.frontier \cup level
    /\ disc.frontier \cup level \cup done \subseteq Marked
    /\ level \cap done = {}
    /\ pc \in Settled => disc.pending = {}
    /\ pc = "wants" => level = {} /\ done = {}

\* A want is sent or pending, and what is sent has handed its mark on.
WantsTracked ==
    /\ IsInjective(toSend)
    /\ Sent \subseteq done
    /\ \A c \in Commits : disc.state[c] = "want" => c \in Sent \cup disc.pending
    /\ \A c \in Sent : parents[c] \subseteq Marked
    /\ pc \in {"walk"} \cup Settled => wants \subseteq Marked

\* A have mark spreads no further than what a client with the recognised
\* haves must have.
HavesHeld ==
    /\ pc \in {"partition", "haves"} => Marked = {} /\ common = {}
    /\ pc = "partition" => wants = {}
    /\ \A A \in SUBSET Commits :
          common \subseteq A /\ ParentClosed(A) =>
              \A c \in Commits : disc.state[c] = "have" => c \in A

DInv == WalkType /\ PendingQueued /\ WantsTracked /\ HavesHeld

-----------------------------------------------------------------------------
\* What Discovery::mark does to each part of the record.
LEMMA MarkParts ==
    ASSUME NEW d \in Discs, NEW S \in SUBSET Commits, NEW f \in {"want", "have"}
    PROVE  /\ Mark(d, S, f) \in Discs
           /\ Mark(d, S, f).state =
                [c \in Commits |-> IF c \in Changed(d, S, f) THEN f ELSE d.state[c]]
           /\ Mark(d, S, f).frontier = d.frontier \cup Changed(d, S, f)
           /\ Mark(d, S, f).pending = IF f = "want" THEN d.pending \cup Changed(d, S, f)
                                      ELSE d.pending \ Changed(d, S, f)
  BY DEF Mark, Changed, Discs

\* Appending a commit that was not sent yet.
LEMMA AppendSent ==
    ASSUME NEW s \in Seq(Commits), NEW c \in Commits
    PROVE  /\ Append(s, c) \in Seq(Commits)
           /\ ToSet(Append(s, c)) = ToSet(s) \cup {c}
           /\ IsInjective(s) /\ c \notin ToSet(s) => IsInjective(Append(s, c))
<1>1. /\ Append(s, c) \in Seq(Commits) /\ Len(s) \in Nat /\ DOMAIN s = 1..Len(s)
      /\ DOMAIN Append(s, c) = 1..(Len(s) + 1)
      /\ \A i \in 1..Len(s) : Append(s, c)[i] = s[i]
      /\ Append(s, c)[Len(s) + 1] = c
  OBVIOUS
<1>2. ToSet(Append(s, c)) = ToSet(s) \cup {c}
  BY <1>1 DEF ToSet
<1>3. IsInjective(s) /\ c \notin ToSet(s) => IsInjective(Append(s, c))
  BY <1>1 DEF ToSet, IsInjective
<1> QED BY <1>1, <1>2, <1>3

LEMMA StartEstablishes ==
    ASSUME InitRepository, InitWalk, wants \in SUBSET Commits, haves \in SUBSET Commits,
           pc = "haves" \/ (pc = "partition" /\ wants = {})
    PROVE  DInv
<1> USE DiscoveryAssumption DEF InitRepository, InitWalk
<1>1. 1..Bounds[bound].commits \subseteq Commits
  BY DEF Commits
<1>3. parents \in [Commits -> SUBSET Commits] /\ \A c \in Commits : \A q \in parents[c] : q < c
  BY <1>1 DEF Graphs, AtMost
<1>4. WalkType
  <2>1. disc \in Discs /\ toSend \in Seq(Commits)
    BY DEF Discs
  <2>2. /\ level \in SUBSET Commits /\ done \in SUBSET Commits /\ common \in SUBSET Commits
        /\ bounded \in BOOLEAN /\ pc \in Phases \ {"stalled"}
    BY DEF Phases
  <2> HIDE DEF InitRepository, InitWalk
  <2> QED BY <1>3, <2>1, <2>2 DEF WalkType
<1>5. Sent = {}
  BY DEF Sent, ToSet
<1>6. PendingQueued
  BY DEF PendingQueued, Settled
<1>7. WantsTracked
  BY <1>5 DEF WantsTracked, IsInjective, Settled
<1>8. HavesHeld
  BY DEF HavesHeld, Marked
<1> QED BY <1>4, <1>6, <1>7, <1>8 DEF DInv

\* The haves are marked first, on an empty record.
LEMMA HavesPreserve == ASSUME DInv, MarkHaves PROVE DInv'
<1> USE DEF DInv, Settled, Phases
<1> DEFINE known == {h \in haves : ~Unknown(h)}
<1>1. CASE ~(\A h \in known : Resolves(h))
  <2>1. /\ pc' = "error" /\ UNCHANGED <<repoVars, wants, haves, common, disc, level, done, toSend, bounded>>
    BY <1>1 DEF MarkHaves
  <2> QED BY <2>1 DEF repoVars, WalkType, PendingQueued, WantsTracked, HavesHeld, Marked, Sent, ParentClosed
<1>2. CASE \A h \in known : Resolves(h)
  <2>1. /\ pc = "haves" /\ pc' = "wants" /\ common' = known /\ disc' = Mark(disc, known, "have")
        /\ UNCHANGED <<repoVars, wants, haves, level, done, toSend, bounded>>
    BY <1>2 DEF MarkHaves
  <2>2. known \in SUBSET Commits /\ disc \in Discs
    BY DEF WalkType
  <2>3. /\ disc' \in Discs
        /\ disc'.state = [c \in Commits |-> IF c \in Changed(disc, known, "have") THEN "have" ELSE disc.state[c]]
        /\ disc'.frontier = disc.frontier \cup Changed(disc, known, "have")
        /\ disc'.pending = disc.pending \ Changed(disc, known, "have")
    BY <2>1, <2>2, MarkParts
  <2>4. WalkType'
    BY <2>1, <2>2, <2>3 DEF WalkType, repoVars
  <2>5. PendingQueued'
    <3>1. Marked = {} /\ level = {} /\ done = {}
      BY <2>1 DEF HavesHeld, PendingQueued
    <3> QED BY <2>1, <2>2, <2>3, <2>4, <3>1 DEF PendingQueued, WalkType, Marked, Changed
  <2>6. WantsTracked'
    BY ZenonT(30), <2>1, <2>2, <2>3, <2>4 DEF WantsTracked, WalkType, Marked, Changed, Sent, repoVars
  <2>7. HavesHeld'
    BY <2>1, <2>2, <2>3, <2>4 DEF HavesHeld, WalkType, Marked, Changed, ParentClosed
  <2> QED BY <2>4, <2>5, <2>6, <2>7
<1> QED BY <1>1, <1>2

\* The wants become pending unless a have absorbed them.
LEMMA WantsPreserve == ASSUME DInv, MarkWants PROVE DInv'
<1> USE DEF DInv, Settled, Phases
<1>1. CASE ~(\A w \in wants : Resolves(w))
  <2>1. /\ pc' = "error" /\ UNCHANGED <<repoVars, wants, haves, common, disc, level, done, toSend, bounded>>
    BY <1>1 DEF MarkWants
  <2> QED BY <2>1 DEF repoVars, WalkType, PendingQueued, WantsTracked, HavesHeld, Marked, Sent, ParentClosed
<1>2. CASE \A w \in wants : Resolves(w)
  <2>1. /\ pc = "wants" /\ pc' = "walk" /\ disc' = Mark(disc, wants, "want")
        /\ UNCHANGED <<repoVars, wants, haves, common, level, done, toSend, bounded>>
    BY <1>2 DEF MarkWants
  <2>2. wants \in SUBSET Commits /\ disc \in Discs
    BY DEF WalkType
  <2>3. /\ disc' \in Discs
        /\ disc'.state = [c \in Commits |-> IF c \in Changed(disc, wants, "want") THEN "want" ELSE disc.state[c]]
        /\ disc'.frontier = disc.frontier \cup Changed(disc, wants, "want")
        /\ disc'.pending = disc.pending \cup Changed(disc, wants, "want")
    BY <2>1, <2>2, MarkParts
  <2>4. WalkType'
    BY <2>1, <2>2, <2>3 DEF WalkType, repoVars
  <2>5. PendingQueued'
    BY <2>1, <2>2, <2>3, <2>4 DEF PendingQueued, WalkType, Marked, Changed
  <2>6. WantsTracked'
    BY <2>1, <2>2, <2>3, <2>4 DEF WantsTracked, WalkType, Marked, Changed, Sent, repoVars
  <2>7. HavesHeld'
    BY <2>1, <2>2, <2>3, <2>4 DEF HavesHeld, WalkType, Marked, Changed, ParentClosed, repoVars
  <2> QED BY <2>4, <2>5, <2>6, <2>7
<1> QED BY <1>1, <1>2

\* A pending commit that is popped is in the level: the frontier is never
\* empty while one is pending, so the walk does not stall.
LEMMA DrainPreserves == ASSUME DInv, DrainLevel PROVE DInv'
<1> USE DEF DInv, Settled, Phases
<1> DEFINE next == Highest(disc.frontier) \ done
<1>1. /\ pc = "walk" /\ level = {} /\ disc.frontier # {}
  BY DEF DrainLevel, PendingQueued
<1>2. /\ disc' = [disc EXCEPT !.frontier = Popped(disc.frontier)]
      /\ \/ level' = next /\ pc' = pc
         \/ level' = level /\ pc' = "error"
      /\ UNCHANGED <<repoVars, wants, haves, done, toSend, common, bounded>>
  BY <1>1 DEF DrainLevel
<1>3. /\ Popped(disc.frontier) = disc.frontier \ Highest(disc.frontier)
      /\ Highest(disc.frontier) \subseteq disc.frontier
  BY DEF Popped, Highest
<1>4. /\ disc \in Discs /\ disc' \in Discs
      /\ disc'.state = disc.state /\ disc'.pending = disc.pending
      /\ disc'.frontier = disc.frontier \ Highest(disc.frontier)
  BY <1>2, <1>3 DEF WalkType, Discs
<1>5. WalkType'
  BY <1>1, <1>2, <1>3, <1>4 DEF WalkType, repoVars, Discs
<1>6. PendingQueued'
  BY <1>1, <1>2, <1>3, <1>4 DEF PendingQueued, WalkType, Marked
<1>7. WantsTracked'
  BY <1>1, <1>2, <1>4 DEF WantsTracked, WalkType, Marked, Sent, repoVars
<1>8. HavesHeld'
  BY <1>1, <1>2, <1>4 DEF HavesHeld, WalkType, Marked, ParentClosed, repoVars
<1> QED BY <1>5, <1>6, <1>7, <1>8

\* A visited want is sent and makes its unmarked parents pending.
LEMMA VisitWantPreserves ==
    ASSUME DInv, NEW c \in Commits, Visit(c), disc.state[c] = "want"
    PROVE  DInv'
<1> USE DEF DInv, Settled, Phases
<1> DEFINE d == [disc EXCEPT !.pending = disc.pending \ {c}]
           new == Changed(d, parents[c], "want")
<1>1. /\ pc = "walk" /\ c \in level /\ level' = level \ {c} /\ done' = done \cup {c}
      /\ toSend' = Append(toSend, c) /\ disc' = Mark(d, parents[c], "want")
      /\ UNCHANGED <<repoVars, wants, haves, pc, common, bounded>>
  BY DEF Visit
<1>2. /\ disc \in Discs /\ d \in Discs /\ d.state = disc.state /\ d.frontier = disc.frontier
      /\ d.pending = disc.pending \ {c} /\ parents[c] \in SUBSET Commits
  BY DEF WalkType, Discs
<1>3. new = {q \in parents[c] : disc.state[q] = "none"}
  BY <1>2 DEF Changed
<1>4. /\ disc' \in Discs
      /\ disc'.state = [q \in Commits |-> IF q \in new THEN "want" ELSE disc.state[q]]
      /\ disc'.frontier = disc.frontier \cup new
      /\ disc'.pending = (disc.pending \ {c}) \cup new
  <2> DEFINE e == Mark(d, parents[c], "want")
  <2> HIDE DEF d
  <2>1. /\ e \in Discs
        /\ e.state = [q \in Commits |-> IF q \in new THEN "want" ELSE d.state[q]]
        /\ e.frontier = d.frontier \cup new
        /\ e.pending = d.pending \cup new
    BY <1>2, MarkParts
  <2> QED BY <1>1, <1>2, <2>1
<1>5. c \notin done /\ c \notin Sent
  BY <1>1 DEF PendingQueued, WantsTracked
<1>6. toSend' \in Seq(Commits) /\ Sent' = Sent \cup {c} /\ IsInjective(toSend')
  BY <1>1, <1>5, AppendSent DEF WalkType, WantsTracked, Sent
<1> HIDE DEF d, new
<1>7. WalkType'
  BY <1>1, <1>4, <1>6 DEF WalkType, repoVars
<1>8. PendingQueued'
  <2>1. \A q \in disc'.pending : disc'.state[q] = "want" /\ q \notin done'
    BY <1>1, <1>2, <1>3, <1>4, <1>5 DEF PendingQueued, WalkType, Discs, Marked
  <2>2. disc'.pending \subseteq disc'.frontier \cup level'
    BY <1>1, <1>4 DEF PendingQueued
  <2>3. disc'.frontier \cup level' \cup done' \subseteq Marked'
    BY <1>1, <1>2, <1>3, <1>4 DEF PendingQueued, WalkType, Marked
  <2>4. level' \cap done' = {}
    BY <1>1 DEF PendingQueued
  <2> QED BY <1>1, <2>1, <2>2, <2>3, <2>4 DEF PendingQueued
<1>9. WantsTracked'
  <2>1. Marked \subseteq Marked' /\ parents[c] \subseteq Marked'
    BY <1>2, <1>3, <1>4 DEF Marked
  <2>2. \A q \in Commits : disc'.state[q] = "want" => q \in Sent' \cup disc'.pending
    BY <1>4, <1>6 DEF WantsTracked
  <2>3. \A q \in Sent' : parents'[q] \subseteq Marked'
    BY <1>1, <1>6, <2>1 DEF WantsTracked, repoVars
  <2>4. Sent' \subseteq done'
    BY <1>1, <1>6 DEF WantsTracked
  <2>5. wants' \subseteq Marked'
    BY <1>1, <2>1 DEF WantsTracked
  <2> QED BY <1>6, <2>2, <2>3, <2>4, <2>5 DEF WantsTracked
<1>10. HavesHeld'
  BY <1>1, <1>4 DEF HavesHeld, ParentClosed, repoVars
<1> QED BY <1>7, <1>8, <1>9, <1>10

\* A visited have hands its mark on, and takes back what was pending below.
LEMMA VisitHavePreserves ==
    ASSUME DInv, NEW c \in Commits, Visit(c), disc.state[c] # "want"
    PROVE  DInv'
<1> USE DEF DInv, Settled, Phases
<1> DEFINE new == Changed(disc, parents[c], "have")
<1>1. /\ pc = "walk" /\ c \in level /\ level' = level \ {c} /\ done' = done \cup {c}
      /\ toSend' = toSend /\ disc' = Mark(disc, parents[c], "have")
      /\ UNCHANGED <<repoVars, wants, haves, pc, common, bounded>>
  BY DEF Visit
<1>2. disc \in Discs /\ parents[c] \in SUBSET Commits
  BY DEF WalkType
<1>3. new = {q \in parents[c] : disc.state[q] # "have"}
  BY <1>2 DEF Changed, Discs
<1>4. /\ disc' \in Discs
      /\ disc'.state = [q \in Commits |-> IF q \in new THEN "have" ELSE disc.state[q]]
      /\ disc'.frontier = disc.frontier \cup new
      /\ disc'.pending = disc.pending \ new
  BY <1>1, <1>2, MarkParts
<1>5. disc.state[c] = "have" /\ c \notin disc.pending
  BY <1>1, <1>2 DEF PendingQueued, Marked, Discs
<1> HIDE DEF new
<1>6. WalkType'
  BY <1>1, <1>4 DEF WalkType, repoVars
<1>7. PendingQueued'
  <2>1. \A q \in disc'.pending : disc'.state[q] = "want" /\ q \notin done'
    BY <1>1, <1>2, <1>4, <1>5 DEF PendingQueued, Discs
  <2>2. disc'.pending \subseteq disc'.frontier \cup level'
    BY <1>1, <1>4, <1>5 DEF PendingQueued
  <2>3. disc'.frontier \cup level' \cup done' \subseteq Marked'
    BY <1>1, <1>2, <1>3, <1>4, <1>5 DEF PendingQueued, WalkType, Marked
  <2>4. level' \cap done' = {}
    BY <1>1 DEF PendingQueued
  <2> QED BY <1>1, <2>1, <2>2, <2>3, <2>4 DEF PendingQueued
<1>8. WantsTracked'
  <2>1. Marked \subseteq Marked'
    BY <1>2, <1>4 DEF Marked
  <2>2. \A q \in Commits : disc'.state[q] = "want" => q \in Sent' \cup disc'.pending
    BY <1>1, <1>4 DEF WantsTracked, Sent
  <2> QED BY <1>1, <2>1, <2>2 DEF WantsTracked, Sent, repoVars
<1>9. HavesHeld'
  <2> SUFFICES ASSUME NEW A \in SUBSET Commits, common \subseteq A, ParentClosed(A),
                      NEW q \in Commits, disc'.state[q] = "have"
               PROVE  q \in A
    BY <1>1 DEF HavesHeld, ParentClosed, repoVars
  <2>1. c \in A
    BY <1>5 DEF HavesHeld
  <2> QED BY <1>3, <1>4, <2>1 DEF HavesHeld, ParentClosed
<1> QED BY <1>6, <1>7, <1>8, <1>9

LEMMA SelectedPreserves == ASSUME DInv, Selected PROVE DInv'
  BY DEF DInv, Settled, Phases, Selected, repoVars, WalkType, PendingQueued, WantsTracked, HavesHeld, Marked, Sent, ParentClosed

LEMMA StepPreserves == DInv /\ [Step]_vars => DInv'
<1> SUFFICES ASSUME DInv, [Step]_vars PROVE DInv'
  OBVIOUS
<1>1. CASE UNCHANGED vars
  BY <1>1 DEF vars, repoVars, DInv, Settled, WalkType, PendingQueued, WantsTracked, HavesHeld, Marked, Sent, ParentClosed
<1>2. CASE \E c \in Commits : Visit(c)
  BY <1>2, VisitWantPreserves, VisitHavePreserves
<1> QED BY <1>1, <1>2, HavesPreserve, WantsPreserve, DrainPreserves, SelectedPreserves DEF Step

\* At the end nothing is pending: a marked commit is sent, or any client with
\* the recognised haves has it.
LEMMA InvImpliesComplete == DInv => DiscoveryComplete
<1> SUFFICES ASSUME DInv PROVE DiscoveryComplete
  OBVIOUS
<1> USE DEF DInv, Settled, Phases
<1>1. DTypeOK
  BY DEF DTypeOK, WalkType, PendingQueued, WantsTracked, Phases, Discs, Sent
<1>2. NeverStalls
  BY DEF NeverStalls, WalkType
<1>3. NoGap
  <2> SUFFICES ASSUME pc = "selected", NEW A \in SUBSET Commits, common \subseteq A, ParentClosed(A)
               PROVE  wants \subseteq Sent \cup A /\ ParentClosed(Sent \cup A)
    BY DEF NoGap
  <2>1. Marked \subseteq Sent \cup A
    BY DEF WalkType, Discs, PendingQueued, WantsTracked, HavesHeld, Marked
  <2>2. wants \subseteq Sent \cup A
    BY <2>1 DEF WantsTracked
  <2>3. ParentClosed(Sent \cup A)
    BY <2>1 DEF WantsTracked, ParentClosed
  <2> QED BY <2>2, <2>3
<1> QED BY <1>1, <1>2, <1>3 DEF DiscoveryComplete

\* The planner's own steps leave the walk alone.
LEMMA PlanKeepsWalk ==
    ASSUME DInv, UNCHANGED <<repoVars, haves, disc, level, done, toSend, common, bounded>>,
           wants' \in SUBSET Commits,
           \/ pc \in Settled /\ wants' = wants /\ pc' \in Settled \cup {"failed"}
           \/ pc = "partition" /\ wants' = wants /\ pc' \in {"planned", "haves", "failed"}
           \/ pc = "wants" /\ pc' \in {"wants", "failed"}
    PROVE  DInv'
<1> USE DEF DInv, Settled
<1>1. WalkType'
  BY DEF WalkType, repoVars, Phases
<1>2. pc \in Settled \/ pc = "partition" => pc # "error" /\ disc.pending = {} /\ wants \subseteq Marked
  BY DEF WalkType, Discs, PendingQueued, WantsTracked, HavesHeld, Marked
<1>3. PendingQueued'
  BY <1>2 DEF PendingQueued, Marked
<1>4. WantsTracked'
  BY <1>2 DEF WantsTracked, Marked, Sent, repoVars
<1>5. HavesHeld'
  BY DEF HavesHeld, Marked, ParentClosed, repoVars
<1> QED BY <1>1, <1>3, <1>4, <1>5

\* Generations that decrease towards the parents, as exact ones do.
Decreasing ==
    generation \in [Commits -> Nat] /\ \A c \in Commits : \A q \in parents[c] : generation[q] < generation[c]

\* The haves run ahead of the wants: a have is visited or queued, a visited
\* one has marked its parents, and what is queued lies below what was visited.
Ahead ==
    /\ \A c \in Commits : disc.state[c] = "have" /\ c \notin done => c \in disc.frontier \cup level
    /\ \A c \in done : disc.state[c] = "have" => \A q \in parents[c] : disc.state[q] = "have"
    /\ \A c \in done \cup level : \A d \in disc.frontier : generation[d] < generation[c]
    /\ \A c \in done : \A d \in level : generation[d] <= generation[c]
    /\ \A c, d \in level : generation[c] = generation[d]

\* Some parent-closed set with the recognised haves has nothing that is sent.
Spared == \E A \in SUBSET Commits : common \subseteq A /\ ParentClosed(A) /\ Sent \cap A = {}

ExactInv ==
    /\ \A c \in common : disc.state[c] = "have"
    /\ Decreasing => Spared /\ (pc # "error" => Ahead)

\* A want that is visited while the haves are ahead is below no have.
LEMMA WantSpared ==
    ASSUME DInv, ExactInv, Decreasing, pc = "walk", NEW c \in level, disc.state[c] = "want"
    PROVE  \E A \in SUBSET Commits : common \subseteq A /\ ParentClosed(A) /\ c \notin A
<1> USE DEF DInv, ExactInv, Decreasing
<1> DEFINE A == {x \in Commits : \/ disc.state[x] = "have"
                                 \/ \E h \in Commits : /\ disc.state[h] = "have" /\ h \notin done
                                                       /\ generation[x] < generation[h]}
<1>1. Ahead
  OBVIOUS
<1>2. common \subseteq A
  BY DEF WalkType
<1>3. ParentClosed(A)
  <2> SUFFICES ASSUME NEW x \in A, NEW q \in parents[x] PROVE q \in A
    BY DEF ParentClosed
  <2>1. x \in Commits /\ q \in Commits /\ generation[q] < generation[x]
    BY DEF WalkType
  <2>2. generation[q] \in Nat /\ generation[x] \in Nat
    BY <2>1
  <2>3. CASE disc.state[x] = "have" /\ x \in done
    BY <1>1, <2>1, <2>3 DEF Ahead
  <2>4. CASE disc.state[x] = "have" /\ x \notin done
    BY <2>1, <2>4
  <2>5. ASSUME NEW h \in Commits, disc.state[h] = "have", h \notin done, generation[x] < generation[h]
        PROVE  q \in A
    <3>1. generation[h] \in Nat
      OBVIOUS
    <3>2. generation[q] < generation[h]
      BY <2>1, <2>2, <2>5, <3>1
    <3> QED BY <2>1, <2>5, <3>2
  <2> QED BY <2>3, <2>4, <2>5
<1>4. c \notin A
  <2>1. c \in Commits /\ generation[c] \in Nat
    BY DEF WalkType
  <2>2. ASSUME NEW h \in Commits, disc.state[h] = "have", h \notin done, generation[c] < generation[h]
        PROVE  FALSE
    <3>1. h \in disc.frontier \cup level /\ generation[h] \in Nat
      BY <1>1, <2>2 DEF Ahead
    <3>2. h \in disc.frontier => generation[h] < generation[c]
      BY <1>1 DEF Ahead
    <3>3. h \in level => generation[h] = generation[c]
      BY <1>1 DEF Ahead
    <3> QED BY <2>1, <2>2, <3>1, <3>2, <3>3
  <2> QED BY <2>2
<1> QED BY <1>2, <1>3, <1>4

\* A step that changes neither the marks nor what is queued.
LEMMA ExactStutters ==
    ASSUME ExactInv, UNCHANGED <<repoVars, disc, level, done, toSend, common>>, pc = "error" => pc' = "error"
    PROVE  ExactInv'
<1>1. UNCHANGED Decreasing /\ UNCHANGED Spared /\ UNCHANGED Ahead
  BY DEF Decreasing, Spared, Ahead, Sent, ParentClosed, repoVars
<1> QED BY <1>1 DEF ExactInv

LEMMA ExactHaves == ASSUME DInv, ExactInv, MarkHaves PROVE ExactInv'
<1> DEFINE known == {h \in haves : ~Unknown(h)}
<1>1. CASE ~(\A h \in known : Resolves(h))
  <2>1. pc' = "error" /\ UNCHANGED <<repoVars, common, disc, level, done, toSend>>
    BY <1>1 DEF MarkHaves
  <2> QED BY <2>1, ExactStutters
<1>2. CASE \A h \in known : Resolves(h)
  <2>1. /\ pc = "haves" /\ pc' = "wants" /\ common' = known /\ disc' = Mark(disc, known, "have")
        /\ UNCHANGED <<repoVars, wants, haves, level, done, toSend, bounded>>
    BY <1>2 DEF MarkHaves
  <2>2. known \in SUBSET Commits /\ disc \in Discs
    BY DEF DInv, WalkType
  <2>3. /\ Marked = {} /\ level = {} /\ done = {} /\ disc.frontier = {}
        /\ \A c \in Commits : disc.state[c] = "none"
    BY <2>1 DEF DInv, HavesHeld, PendingQueued, Marked
  <2>4. Sent' = {}
    BY <2>1, <2>3 DEF DInv, WantsTracked, Sent
  <2>5. Changed(disc, known, "have") = known
    BY <2>2, <2>3 DEF Changed
  <2>6. /\ disc'.state = [c \in Commits |-> IF c \in known THEN "have" ELSE disc.state[c]]
        /\ disc'.frontier = known
    <3> HIDE DEF known
    <3>1. /\ disc'.state = [c \in Commits |-> IF c \in Changed(disc, known, "have") THEN "have" ELSE disc.state[c]]
          /\ disc'.frontier = disc.frontier \cup Changed(disc, known, "have")
      BY <2>1, <2>2, MarkParts
    <3> QED BY <2>3, <2>5, <3>1
  <2> HIDE DEF known
  <2>7. \A c \in common' : disc'.state[c] = "have"
    BY <2>1, <2>2, <2>6
  <2>8. Spared'
    <3>1. Commits \in SUBSET Commits /\ common' \subseteq Commits /\ ParentClosed(Commits)'
      BY <2>1, <2>2 DEF ParentClosed, DInv, WalkType, repoVars
    <3> QED BY <2>4, <3>1 DEF Spared
  <2>9. Ahead'
    BY <2>1, <2>2, <2>3, <2>6 DEF Ahead
  <2> QED BY <2>7, <2>8, <2>9 DEF ExactInv
<1> QED BY <1>1, <1>2

LEMMA ExactWants == ASSUME DInv, ExactInv, MarkWants PROVE ExactInv'
<1>1. CASE ~(\A w \in wants : Resolves(w))
  <2>1. pc' = "error" /\ UNCHANGED <<repoVars, common, disc, level, done, toSend>>
    BY <1>1 DEF MarkWants
  <2> QED BY <2>1, ExactStutters
<1>2. CASE \A w \in wants : Resolves(w)
  <2>1. /\ pc = "wants" /\ pc' = "walk" /\ disc' = Mark(disc, wants, "want")
        /\ UNCHANGED <<repoVars, wants, haves, common, level, done, toSend, bounded>>
    BY <1>2 DEF MarkWants
  <2>2. wants \in SUBSET Commits /\ disc \in Discs /\ common \in SUBSET Commits
    BY DEF DInv, WalkType
  <2>3. level = {} /\ done = {}
    BY <2>1 DEF DInv, PendingQueued
  <2> DEFINE new == Changed(disc, wants, "want")
  <2>4. \A c \in new : disc.state[c] = "none"
    BY DEF Changed
  <2>5. /\ disc'.state = [c \in Commits |-> IF c \in new THEN "want" ELSE disc.state[c]]
        /\ disc'.frontier = disc.frontier \cup new
    BY <2>1, <2>2, MarkParts
  <2> HIDE DEF new
  <2>6. \A c \in Commits : disc'.state[c] = "have" <=> disc.state[c] = "have"
    BY <2>4, <2>5
  <2>7. \A c \in common' : disc'.state[c] = "have"
    BY <2>1, <2>2, <2>6 DEF ExactInv
  <2>8. UNCHANGED Decreasing /\ UNCHANGED Spared
    BY <2>1 DEF Decreasing, Spared, Sent, ParentClosed, repoVars
  <2>9. Ahead => Ahead'
    BY <2>1, <2>3, <2>5, <2>6 DEF Ahead
  <2> QED BY <2>1, <2>7, <2>8, <2>9 DEF ExactInv
<1> QED BY <1>1, <1>2

\* What is popped is the highest that is queued.
LEMMA ExactDrain == ASSUME DInv, ExactInv, DrainLevel PROVE ExactInv'
<1> DEFINE top == Highest(disc.frontier)
<1>1. /\ pc = "walk" /\ level = {} /\ disc.frontier # {} /\ disc \in Discs
  BY DEF DrainLevel, DInv, PendingQueued, WalkType
<1>2. /\ disc' = [disc EXCEPT !.frontier = Popped(disc.frontier)]
      /\ \/ level' = top \ done /\ pc' = pc
         \/ level' = level /\ pc' = "error"
      /\ UNCHANGED <<repoVars, wants, haves, done, toSend, common, bounded>>
  BY <1>1 DEF DrainLevel
<1>3. /\ disc'.state = disc.state /\ disc'.frontier = disc.frontier \ top
      /\ top \subseteq disc.frontier /\ disc.frontier \subseteq Commits /\ done \subseteq Commits
  BY <1>1, <1>2 DEF Popped, Highest, DInv, WalkType, Discs
<1>4. UNCHANGED Decreasing /\ UNCHANGED Spared
  BY <1>2 DEF Decreasing, Spared, Sent, ParentClosed, repoVars
<1>5. ASSUME Decreasing, Ahead, level' = top \ done PROVE Ahead'
  <2>1. \A c \in disc.frontier \cup done : generation[c] \in Nat
    BY <1>3, <1>5 DEF Decreasing
  <2>2. \A c \in top : \A d \in disc.frontier : generation[c] >= generation[d]
    BY DEF Highest
  <2>3. \A c, d \in top : generation[c] = generation[d]
    BY <1>3, <2>1, <2>2
  <2>4. \A c \in top : \A d \in disc.frontier \ top : generation[d] < generation[c]
    <3> SUFFICES ASSUME NEW c \in top, NEW d \in disc.frontier \ top PROVE generation[d] < generation[c]
      OBVIOUS
    <3>1. PICK e \in disc.frontier : ~(generation[d] >= generation[e])
      BY DEF Highest
    <3>2. generation[e] <= generation[c]
      BY <1>3, <2>1, <2>2
    <3> QED BY <1>3, <2>1, <3>1, <3>2
  <2>5. \A c \in done : \A d \in disc.frontier : generation[d] < generation[c]
    BY <1>5 DEF Ahead
  <2> HIDE DEF top
  <2>6. UNCHANGED <<generation, parents, done>>
    BY <1>2 DEF repoVars
  <2>7. \A c \in Commits : disc'.state[c] = "have" /\ c \notin done' => c \in disc'.frontier \cup level'
    BY <1>1, <1>3, <1>5, <2>6 DEF Ahead
  <2>8. \A c \in done' : disc'.state[c] = "have" => \A q \in parents'[c] : disc'.state[q] = "have"
    BY <1>3, <1>5, <2>6 DEF Ahead
  <2>9. \A c \in done' \cup level' : \A d \in disc'.frontier : generation'[d] < generation'[c]
    BY <1>3, <1>5, <2>4, <2>5, <2>6
  <2>10. \A c \in done' : \A d \in level' : generation'[d] <= generation'[c]
    BY <1>3, <1>5, <2>1, <2>5, <2>6
  <2>11. \A c, d \in level' : generation'[c] = generation'[d]
    BY <1>5, <2>3, <2>6
  <2> QED BY <2>7, <2>8, <2>9, <2>10, <2>11 DEF Ahead
<1> QED BY <1>1, <1>2, <1>3, <1>4, <1>5 DEF ExactInv

\* The parents a want is handed to lie below everything visited.
LEMMA ExactVisitWant ==
    ASSUME DInv, ExactInv, NEW c \in Commits, Visit(c), disc.state[c] = "want"
    PROVE  ExactInv'
<1> DEFINE d0 == [disc EXCEPT !.pending = disc.pending \ {c}]
           new == Changed(d0, parents[c], "want")
<1>1. /\ pc = "walk" /\ c \in level /\ level' = level \ {c} /\ done' = done \cup {c}
      /\ toSend' = Append(toSend, c) /\ disc' = Mark(d0, parents[c], "want")
      /\ UNCHANGED <<repoVars, wants, haves, pc, common, bounded>>
  BY DEF Visit
<1>2. /\ disc \in Discs /\ d0 \in Discs /\ d0.state = disc.state /\ d0.frontier = disc.frontier
      /\ parents[c] \in SUBSET Commits /\ toSend \in Seq(Commits)
      /\ level \subseteq Commits /\ done \subseteq Commits /\ disc.frontier \subseteq Commits
      /\ common \subseteq Commits
  BY DEF DInv, WalkType, Discs
<1>3. new = {q \in parents[c] : disc.state[q] = "none"}
  BY <1>2 DEF Changed
<1>4. /\ disc'.state = [q \in Commits |-> IF q \in new THEN "want" ELSE disc.state[q]]
      /\ disc'.frontier = disc.frontier \cup new
  <2> DEFINE e == Mark(d0, parents[c], "want")
  <2> HIDE DEF d0
  <2>1. /\ e.state = [q \in Commits |-> IF q \in new THEN "want" ELSE d0.state[q]]
        /\ e.frontier = d0.frontier \cup new
    BY <1>2, MarkParts
  <2> QED BY <1>1, <1>2, <2>1
<1> HIDE DEF d0, new
<1>5. Sent' = Sent \cup {c}
  BY <1>1, <1>2, AppendSent DEF Sent
<1>6. UNCHANGED <<generation, parents, common>>
  BY <1>1 DEF repoVars
<1>7. \A q \in Commits : disc'.state[q] = "have" <=> disc.state[q] = "have"
  BY <1>3, <1>4
<1>8. \A x \in common' : disc'.state[x] = "have"
  BY <1>2, <1>6, <1>7 DEF ExactInv
<1>9. ASSUME Decreasing PROVE Spared' /\ Ahead'
  <2>1. Ahead /\ Spared
    BY <1>1, <1>9 DEF ExactInv
  <2>2. Spared'
    <3>1. PICK A \in SUBSET Commits : common \subseteq A /\ ParentClosed(A) /\ Sent \cap A = {}
      BY <2>1 DEF Spared
    <3>2. PICK B \in SUBSET Commits : common \subseteq B /\ ParentClosed(B) /\ c \notin B
      BY <1>1, <1>9, WantSpared
    <3>3. /\ A \cap B \in SUBSET Commits /\ common' \subseteq A \cap B
          /\ Sent' \cap (A \cap B) = {}
      BY <1>5, <1>6, <3>1, <3>2
    <3>4. ParentClosed(A \cap B)'
      BY <1>6, <3>1, <3>2 DEF ParentClosed
    <3> QED BY <3>3, <3>4 DEF Spared
  <2>3. \A x \in Commits : generation[x] \in Nat
    BY <1>9 DEF Decreasing
  <2>4. \A q \in new : generation[q] < generation[c] /\ q \in Commits
    BY <1>2, <1>3, <1>9 DEF Decreasing
  <2>5. \A x \in done \cup level : generation[c] <= generation[x]
    BY <1>1, <1>2, <2>1, <2>3 DEF Ahead
  <2>6. \A x \in done \cup level : \A q \in new : generation[q] < generation[x]
    BY <1>2, <2>3, <2>4, <2>5
  <2>7. \A x \in Commits : disc'.state[x] = "have" /\ x \notin done' => x \in disc'.frontier \cup level'
    BY <1>1, <1>4, <1>7, <2>1 DEF Ahead
  <2>8. \A x \in done' : disc'.state[x] = "have" => \A q \in parents'[x] : disc'.state[q] = "have"
    <3> SUFFICES ASSUME NEW x \in done', disc'.state[x] = "have", NEW q \in parents'[x]
                 PROVE  disc'.state[q] = "have"
      OBVIOUS
    <3>1. x \in Commits /\ disc.state[x] = "have" /\ x # c
      BY <1>1, <1>2, <1>7
    <3>2. q \in parents[x] /\ q \in Commits
      BY <1>6, <3>1 DEF DInv, WalkType
    <3> QED BY <1>1, <1>7, <2>1, <3>1, <3>2 DEF Ahead
  <2>9. \A x \in done' \cup level' : \A y \in disc'.frontier : generation'[y] < generation'[x]
    BY <1>1, <1>4, <1>6, <2>1, <2>6 DEF Ahead
  <2>10. \A x \in done' : \A y \in level' : generation'[y] <= generation'[x]
    BY <1>1, <1>2, <1>6, <2>1, <2>3 DEF Ahead
  <2>11. \A x, y \in level' : generation'[x] = generation'[y]
    BY <1>1, <1>6, <2>1 DEF Ahead
  <2> QED BY <2>2, <2>7, <2>8, <2>9, <2>10, <2>11 DEF Ahead
<1>10. UNCHANGED Decreasing
  BY <1>6 DEF Decreasing
<1> QED BY <1>8, <1>9, <1>10 DEF ExactInv

\* A have that is visited marks its parents before any of them is visited.
LEMMA ExactVisitHave ==
    ASSUME DInv, ExactInv, NEW c \in Commits, Visit(c), disc.state[c] # "want"
    PROVE  ExactInv'
<1> DEFINE new == Changed(disc, parents[c], "have")
<1>1. /\ pc = "walk" /\ c \in level /\ level' = level \ {c} /\ done' = done \cup {c}
      /\ toSend' = toSend /\ disc' = Mark(disc, parents[c], "have")
      /\ UNCHANGED <<repoVars, wants, haves, pc, common, bounded>>
  BY DEF Visit
<1>2. /\ disc \in Discs /\ parents[c] \in SUBSET Commits
      /\ level \subseteq Commits /\ done \subseteq Commits /\ disc.frontier \subseteq Commits
      /\ common \subseteq Commits
  BY DEF DInv, WalkType, Discs
<1>3. new = {q \in parents[c] : disc.state[q] # "have"}
  BY <1>2 DEF Changed, Discs
<1>4. /\ disc'.state = [q \in Commits |-> IF q \in new THEN "have" ELSE disc.state[q]]
      /\ disc'.frontier = disc.frontier \cup new
  BY <1>1, <1>2, MarkParts
<1>5. UNCHANGED <<generation, parents, common>> /\ Sent' = Sent
  BY <1>1 DEF repoVars, Sent
<1> HIDE DEF new
<1>6. \A x \in Commits : disc'.state[x] = "have" <=> disc.state[x] = "have" \/ x \in new
  BY <1>4
<1>7. \A x \in common' : disc'.state[x] = "have"
  BY <1>2, <1>5, <1>6 DEF ExactInv
<1>8. ASSUME Decreasing PROVE Spared' /\ Ahead'
  <2>1. Ahead /\ Spared
    BY <1>1, <1>8 DEF ExactInv
  <2>2. Spared'
    BY <1>5, <2>1 DEF Spared, ParentClosed
  <2>3. \A x \in Commits : generation[x] \in Nat
    BY <1>8 DEF Decreasing
  <2>4. \A q \in new : generation[q] < generation[c] /\ q \in Commits
    BY <1>2, <1>3, <1>8 DEF Decreasing
  <2>5. \A x \in done \cup level : generation[c] <= generation[x]
    BY <1>1, <1>2, <2>1, <2>3 DEF Ahead
  <2>6. \A x \in done \cup level : \A q \in new : generation[q] < generation[x]
    BY <1>2, <2>3, <2>4, <2>5
  <2>7. \A x \in Commits : disc'.state[x] = "have" /\ x \notin done' => x \in disc'.frontier \cup level'
    BY <1>1, <1>4, <1>6, <2>1 DEF Ahead
  <2>8. \A x \in done' : disc'.state[x] = "have" => \A q \in parents'[x] : disc'.state[q] = "have"
    <3> SUFFICES ASSUME NEW x \in done', disc'.state[x] = "have", NEW q \in parents'[x]
                 PROVE  disc'.state[q] = "have"
      OBVIOUS
    <3>1. x \in Commits /\ q \in parents[x] /\ q \in Commits
      BY <1>1, <1>2, <1>5 DEF DInv, WalkType
    <3>2. x \in done \cup level
      BY <1>1
    <3>3. x \notin new
      BY <2>3, <2>6, <3>1, <3>2
    <3>4. CASE x = c
      BY <1>3, <1>6, <3>1, <3>4
    <3>5. CASE x # c
      BY <1>1, <1>6, <2>1, <3>1, <3>3, <3>5 DEF Ahead
    <3> QED BY <3>4, <3>5
  <2>9. \A x \in done' \cup level' : \A y \in disc'.frontier : generation'[y] < generation'[x]
    BY <1>1, <1>4, <1>5, <2>1, <2>6 DEF Ahead
  <2>10. \A x \in done' : \A y \in level' : generation'[y] <= generation'[x]
    BY <1>1, <1>2, <1>5, <2>1, <2>3 DEF Ahead
  <2>11. \A x, y \in level' : generation'[x] = generation'[y]
    BY <1>1, <1>5, <2>1 DEF Ahead
  <2> QED BY <2>2, <2>7, <2>8, <2>9, <2>10, <2>11 DEF Ahead
<1>9. UNCHANGED Decreasing
  BY <1>5 DEF Decreasing
<1> QED BY <1>7, <1>8, <1>9 DEF ExactInv

LEMMA ExactStep == ASSUME DInv, ExactInv, Step PROVE ExactInv'
<1>1. CASE Selected
  <2>1. pc = "walk" /\ UNCHANGED <<repoVars, common, disc, level, done, toSend>>
    BY <1>1 DEF Selected
  <2> QED BY <2>1, ExactStutters
<1>2. CASE \E c \in Commits : Visit(c)
  BY <1>2, ExactVisitWant, ExactVisitHave
<1> QED BY <1>1, <1>2, ExactHaves, ExactWants, ExactDrain DEF Step

\* Exact generations decrease, so nothing below a recognised have is sent.
LEMMA SparedWhenExact == ASSUME DInv, ExactInv PROVE NothingCommonSent
<1> SUFFICES ASSUME generation = ExactGeneration(parents) PROVE Sent \cap Ancestry(common) = {}
  BY DEF NothingCommonSent
<1>1. Numbered(parents) /\ common \in SUBSET Commits
  BY DEF DInv, WalkType, Numbered
<1>2. Decreasing
  BY <1>1, ExactDecreases DEF Decreasing
<1>3. PICK A \in SUBSET Commits : common \subseteq A /\ ParentClosed(A) /\ Sent \cap A = {}
  BY <1>2 DEF ExactInv, Spared
<1>4. Ancestry(common) = AncestryIn(parents, common)
  BY DEF Ancestry, AncestryIn
<1>5. Ancestry(common) \subseteq A
  BY <1>1, <1>3, <1>4, AncestryFacts DEF ParentClosed, ClosedUnder
<1> QED BY <1>3, <1>5

\* What is marked could be read and lies below the request; a walk that
\* failed has a commit that is missing below it.
HoleInv ==
    /\ \A c \in Marked : Resolves(c)
    /\ \A c \in level \cup Sent : \A q \in parents[c] : Resolves(q)
    /\ common \subseteq haves
    /\ pc \in {"wants", "walk", "selected"} => \A h \in haves : h \in common \/ Unknown(h)
    /\ \A A \in SUBSET Commits : ParentClosed(A) /\ wants \cup haves \subseteq A =>
          /\ Marked \subseteq A
          /\ pc = "error" => \E x \in A : Unknown(x)

\* The repository is fixed during a fetch.
LEMMA RepositoryFixed ==
    ASSUME UNCHANGED repoVars
    PROVE  /\ \A c : Resolves(c)' <=> Resolves(c)
           /\ \A c : Unknown(c)' <=> Unknown(c)
           /\ \A A : ParentClosed(A)' <=> ParentClosed(A)
<1>1. parents' = parents /\ recorded' = recorded /\ stored' = stored
  BY DEF repoVars
<1>2. ASSUME NEW c PROVE Resolves(c)' <=> Resolves(c)
  <2>1. Resolves(c) = ResolvesIn(parents, recorded, stored, c)
    BY DEF Resolves, ResolvesIn
  <2>2. Resolves(c)' = ResolvesIn(parents', recorded', stored', c)
    BY DEF Resolves, ResolvesIn
  <2> QED BY <1>1, <2>1, <2>2
<1>3. \A c : Unknown(c)' <=> Unknown(c)
  BY <1>1 DEF Unknown
<1>4. \A A : ParentClosed(A)' <=> ParentClosed(A)
  BY <1>1 DEF ParentClosed
<1> QED BY <1>2, <1>3, <1>4

\* An unreadable commit of a parent-closed set has a missing one in the set.
LEMMA MissingBelow ==
    ASSUME WalkType, NEW A \in SUBSET Commits, ParentClosed(A), NEW c \in A, ~Resolves(c)
    PROVE  \E x \in A : Unknown(x)
<1>1. Numbered(parents) /\ ClosedUnder(parents, A)
  BY DEF WalkType, Numbered, ClosedUnder, ParentClosed
<1>2. Resolves(c) = ResolvesIn(parents, recorded, stored, c)
  BY DEF Resolves, ResolvesIn
<1>3. \E x \in A : x \notin recorded /\ x \notin stored
  BY <1>1, <1>2, HoleBelow
<1> QED BY <1>3 DEF Unknown

LEMMA HoleHaves == ASSUME DInv, HoleInv, MarkHaves PROVE HoleInv'
<1> USE DEF DInv
<1> DEFINE known == {h \in haves : ~Unknown(h)}
<1>0. /\ pc = "haves" /\ UNCHANGED <<repoVars, wants, haves, level, done, toSend, bounded>>
      /\ parents' = parents /\ Sent' = Sent
  BY DEF MarkHaves, repoVars, Sent
<1>1. /\ \A c : Resolves(c)' <=> Resolves(c)
      /\ \A c : Unknown(c)' <=> Unknown(c)
      /\ \A A : ParentClosed(A)' <=> ParentClosed(A)
  BY <1>0, RepositoryFixed
<1>2. CASE ~(\A h \in known : Resolves(h))
  <2>1. /\ pc' = "error" /\ UNCHANGED <<common, disc>> /\ Marked' = Marked
    BY <1>2 DEF MarkHaves, Marked
  <2>2. ASSUME NEW A \in SUBSET Commits, ParentClosed(A), wants \cup haves \subseteq A
        PROVE  \E x \in A : Unknown(x)
    BY <1>2, <2>2, MissingBelow
  <2> QED BY <1>0, <1>1, <2>1, <2>2 DEF HoleInv
<1>3. CASE \A h \in known : Resolves(h)
  <2>1. pc' = "wants" /\ common' = known /\ disc' = Mark(disc, known, "have")
    BY <1>3 DEF MarkHaves
  <2>2. known \in SUBSET Commits /\ disc \in Discs
    BY DEF WalkType
  <2>3. disc'.state = [c \in Commits |-> IF c \in Changed(disc, known, "have") THEN "have" ELSE disc.state[c]]
    BY <2>1, <2>2, MarkParts
  <2>4. Marked' \subseteq Marked \cup known
    BY <2>3 DEF Marked, Changed
  <2>5. \A c \in Marked' : Resolves(c)
    BY <1>3, <2>4 DEF HoleInv
  <2>6. \A A \in SUBSET Commits : ParentClosed(A) /\ wants \cup haves \subseteq A => Marked' \subseteq A
    BY <2>4 DEF HoleInv
  <2>7. \A h \in haves : h \in known \/ Unknown(h)
    OBVIOUS
  <2>8. known \subseteq haves
    OBVIOUS
  <2> HIDE DEF known
  <2> QED BY <1>0, <1>1, <2>1, <2>5, <2>6, <2>7, <2>8 DEF HoleInv
<1> QED BY <1>2, <1>3

LEMMA HoleWants == ASSUME DInv, HoleInv, MarkWants PROVE HoleInv'
<1> USE DEF DInv
<1>0. /\ pc = "wants" /\ UNCHANGED <<repoVars, wants, haves, level, done, toSend, common, bounded>>
      /\ parents' = parents /\ Sent' = Sent
  BY DEF MarkWants, repoVars, Sent
<1>1. /\ \A c : Resolves(c)' <=> Resolves(c)
      /\ \A c : Unknown(c)' <=> Unknown(c)
      /\ \A A : ParentClosed(A)' <=> ParentClosed(A)
  BY <1>0, RepositoryFixed
<1>2. CASE ~(\A w \in wants : Resolves(w))
  <2>1. /\ pc' = "error" /\ UNCHANGED disc /\ Marked' = Marked
    BY <1>2 DEF MarkWants, Marked
  <2>2. ASSUME NEW A \in SUBSET Commits, ParentClosed(A), wants \cup haves \subseteq A
        PROVE  \E x \in A : Unknown(x)
    BY <1>2, <2>2, MissingBelow
  <2> QED BY <1>0, <1>1, <2>1, <2>2 DEF HoleInv
<1>3. CASE \A w \in wants : Resolves(w)
  <2>1. pc' = "walk" /\ disc' = Mark(disc, wants, "want")
    BY <1>3 DEF MarkWants
  <2>2. wants \in SUBSET Commits /\ disc \in Discs
    BY DEF WalkType
  <2>3. disc'.state = [c \in Commits |-> IF c \in Changed(disc, wants, "want") THEN "want" ELSE disc.state[c]]
    BY <2>1, <2>2, MarkParts
  <2>4. Marked' \subseteq Marked \cup wants
    BY <2>3 DEF Marked, Changed
  <2>5. \A c \in Marked' : Resolves(c)
    BY <1>3, <2>4 DEF HoleInv
  <2>6. \A A \in SUBSET Commits : ParentClosed(A) /\ wants \cup haves \subseteq A => Marked' \subseteq A
    BY <2>4 DEF HoleInv
  <2> QED BY <1>0, <1>1, <2>1, <2>5, <2>6 DEF HoleInv
<1> QED BY <1>2, <1>3

LEMMA HoleDrain == ASSUME DInv, HoleInv, DrainLevel PROVE HoleInv'
<1> DEFINE next == Highest(disc.frontier) \ done
<1>1. /\ pc = "walk" /\ level = {} /\ disc.frontier # {} /\ disc \in Discs /\ WalkType
      /\ disc.frontier \subseteq Marked
  BY DEF DrainLevel, DInv, PendingQueued, WalkType
<1>2. /\ disc' = [disc EXCEPT !.frontier = Popped(disc.frontier)]
      /\ UNCHANGED <<repoVars, wants, haves, done, toSend, common, bounded>>
      /\ IF \A c \in next : \A q \in parents[c] : Resolves(q)
         THEN level' = next /\ UNCHANGED pc
         ELSE pc' = "error" /\ UNCHANGED level
  BY <1>1 DEF DrainLevel
<1>3. /\ parents' = parents /\ Sent' = Sent /\ Marked' = Marked
      /\ next \subseteq Marked
  BY <1>1, <1>2 DEF repoVars, Sent, Marked, Discs, Highest
<1>4. /\ \A c : Resolves(c)' <=> Resolves(c)
      /\ \A c : Unknown(c)' <=> Unknown(c)
      /\ \A A : ParentClosed(A)' <=> ParentClosed(A)
  BY <1>2, RepositoryFixed
<1> HIDE DEF next
<1>5. CASE \A c \in next : \A q \in parents[c] : Resolves(q)
  <2>1. level' = next /\ pc' = pc
    BY <1>2, <1>5
  <2> QED BY <1>1, <1>2, <1>3, <1>4, <1>5, <2>1 DEF HoleInv
<1>6. CASE ~(\A c \in next : \A q \in parents[c] : Resolves(q))
  <2>1. level' = {} /\ pc' = "error"
    BY <1>1, <1>2, <1>6
  <2>2. PICK c \in next : \E q \in parents[c] : ~Resolves(q)
    BY <1>6
  <2>3. ASSUME NEW A \in SUBSET Commits, ParentClosed(A), wants \cup haves \subseteq A
        PROVE  \E x \in A : Unknown(x)
    <3>1. c \in A
      BY <1>3, <2>3 DEF HoleInv
    <3>2. PICK q \in A : ~Resolves(q)
      BY <2>2, <2>3, <3>1 DEF ParentClosed
    <3> QED BY <1>1, <2>3, <3>2, MissingBelow
  <2> QED BY <1>1, <1>2, <1>3, <1>4, <2>1, <2>3 DEF HoleInv
<1> QED BY <1>5, <1>6

LEMMA HoleVisit == ASSUME DInv, HoleInv, NEW c \in Commits, Visit(c) PROVE HoleInv'
<1>1. /\ pc = "walk" /\ c \in level /\ level' = level \ {c}
      /\ UNCHANGED <<repoVars, wants, haves, pc, common>>
      /\ c \in Marked /\ parents[c] \in SUBSET Commits /\ disc \in Discs /\ toSend \in Seq(Commits)
  BY DEF Visit, DInv, WalkType, PendingQueued
<1>2. Sent' \subseteq Sent \cup {c} /\ Marked' \subseteq Marked \cup parents[c]
  <2>1. CASE disc.state[c] = "want"
    <3> DEFINE d == [disc EXCEPT !.pending = disc.pending \ {c}]
    <3>1. d \in Discs /\ d.state = disc.state
      BY <1>1 DEF Discs
    <3>2. toSend' = Append(toSend, c) /\ disc' = Mark(d, parents[c], "want")
      BY <2>1 DEF Visit
    <3> HIDE DEF d
    <3>3. disc'.state = [q \in Commits |-> IF q \in Changed(d, parents[c], "want") THEN "want" ELSE d.state[q]]
      BY <1>1, <3>1, <3>2, MarkParts
    <3>4. Sent' = Sent \cup {c}
      BY <1>1, <3>2, AppendSent DEF Sent
    <3> QED BY <3>1, <3>3, <3>4 DEF Marked, Changed
  <2>2. CASE disc.state[c] # "want"
    <3>1. toSend' = toSend /\ disc' = Mark(disc, parents[c], "have")
      BY <2>2 DEF Visit
    <3>2. disc'.state = [q \in Commits |-> IF q \in Changed(disc, parents[c], "have") THEN "have" ELSE disc.state[q]]
      BY <1>1, <3>1, MarkParts
    <3> QED BY <3>1, <3>2 DEF Marked, Changed, Sent
  <2> QED BY <2>1, <2>2
<1>3. /\ \A x : Resolves(x)' <=> Resolves(x)
      /\ \A x : Unknown(x)' <=> Unknown(x)
      /\ \A A : ParentClosed(A)' <=> ParentClosed(A)
      /\ parents' = parents
  BY <1>1, RepositoryFixed DEF repoVars
<1>4. \A x \in Marked' : Resolves(x)
  BY <1>1, <1>2 DEF HoleInv
<1>5. \A x \in level' \cup Sent' : \A q \in parents[x] : Resolves(q)
  BY <1>1, <1>2 DEF HoleInv
<1>6. ASSUME NEW A \in SUBSET Commits, ParentClosed(A), wants \cup haves \subseteq A
      PROVE  Marked' \subseteq A
  <2>1. Marked \subseteq A
    BY <1>6 DEF HoleInv
  <2>2. parents[c] \subseteq A
    BY <1>1, <1>6, <2>1 DEF ParentClosed
  <2> QED BY <1>2, <2>1, <2>2
<1> QED BY <1>1, <1>3, <1>4, <1>5, <1>6 DEF HoleInv

\* A step that leaves the walk alone, and at most adds wants.
LEMMA HoleStutters ==
    ASSUME HoleInv, UNCHANGED <<repoVars, haves, disc, level, toSend, common>>, wants \subseteq wants',
           \/ pc' = pc
           \/ pc' # "error" /\ (pc' \in {"wants", "walk", "selected"} => pc \in {"wants", "walk", "selected"})
    PROVE  HoleInv'
<1>1. /\ \A x : Resolves(x)' <=> Resolves(x)
      /\ \A x : Unknown(x)' <=> Unknown(x)
      /\ \A A : ParentClosed(A)' <=> ParentClosed(A)
      /\ parents' = parents /\ Sent' = Sent /\ Marked' = Marked
  BY RepositoryFixed DEF repoVars, Sent, Marked
<1>2. ASSUME NEW A \in SUBSET Commits, ParentClosed(A), wants' \cup haves \subseteq A
      PROVE  Marked \subseteq A /\ (pc' = "error" => \E x \in A : Unknown(x))
  BY <1>2 DEF HoleInv
<1> QED BY <1>1, <1>2 DEF HoleInv

LEMMA HoleStep == ASSUME DInv, HoleInv, Step PROVE HoleInv'
<1>1. CASE Selected
  <2>1. /\ pc = "walk" /\ pc' = "selected" /\ wants' = wants
        /\ UNCHANGED <<repoVars, haves, disc, level, toSend, common>>
    BY <1>1 DEF Selected
  <2> QED BY <2>1, HoleStutters
<1> QED BY <1>1, HoleHaves, HoleWants, HoleDrain, HoleVisit DEF Step

\* Ancestry(S) is the least parent-closed set that holds S.
LEMMA AncestryLeast ==
    ASSUME WalkType, NEW S \in SUBSET Commits
    PROVE  /\ Ancestry(S) \in SUBSET Commits /\ S \subseteq Ancestry(S) /\ ParentClosed(Ancestry(S))
           /\ \A A \in SUBSET Commits : S \subseteq A /\ ParentClosed(A) => Ancestry(S) \subseteq A
<1>1. Numbered(parents)
  BY DEF WalkType, Numbered
<1>2. Ancestry(S) = AncestryIn(parents, S)
  BY DEF Ancestry, AncestryIn
<1>3. \A A : ParentClosed(A) <=> ClosedUnder(parents, A)
  BY DEF ParentClosed, ClosedUnder
<1>4. /\ AncestryIn(parents, S) \in SUBSET Commits
      /\ S \subseteq AncestryIn(parents, S)
      /\ ClosedUnder(parents, AncestryIn(parents, S))
      /\ \A A \in SUBSET Commits : S \subseteq A /\ ClosedUnder(parents, A) => AncestryIn(parents, S) \subseteq A
  BY <1>1, AncestryFacts
<1> QED BY <1>2, <1>3, <1>4

\* HolesSurface, the ancestry being the least parent-closed set.
LEMMA HolesShow == ASSUME DInv, HoleInv PROVE HolesSurface
<1>1. WalkType /\ wants \cup haves \in SUBSET Commits
  BY DEF DInv, WalkType
<1>3. /\ Ancestry(wants \cup haves) \in SUBSET Commits
      /\ wants \cup haves \subseteq Ancestry(wants \cup haves)
      /\ ParentClosed(Ancestry(wants \cup haves))
  BY <1>1, AncestryLeast
<1>4. pc = "error" => \E c \in Ancestry(wants \cup haves) : Unknown(c)
  BY <1>3 DEF HoleInv
<1>5. Sent \subseteq Marked
  BY DEF DInv, WantsTracked, PendingQueued
<1>6. ASSUME pc = "selected"
      PROVE  /\ \A h \in haves : h \in common \/ Unknown(h)
             /\ \A c \in Sent : Resolves(c) /\ \A q \in parents[c] : Resolves(q)
  BY <1>5, <1>6 DEF HoleInv
<1> QED BY <1>4, <1>6 DEF HolesSurface

-----------------------------------------------------------------------------
(* The plan                                                                *)

PlanType ==
    /\ root \in [Commits -> Trees]
    /\ direct \subseteq Trees \cup Blobs /\ tags \subseteq Tags
    /\ haveObjects \subseteq Trees \cup Blobs /\ trees \subseteq Trees
    /\ objects \subseteq Commits \cup Trees \cup Blobs \cup Tags
    /\ queue \in Seq(Commits \cup Tags)

\* What was asked for is a direct want, a wanted commit or a tag to send; and
\* nothing is collected before the walk is over.
AskInv ==
    /\ pc \in {"partition", "haves"} => wants = {} /\ tags = {}
    /\ pc \in {"haves", "wants"} => asked \ (Commits \cup Tags) \subseteq direct
    /\ pc = "walk" \/ pc \in Settled \/ (pc = "wants" /\ wants # {}) =>
          asked \subseteq direct \cup wants \cup tags
    /\ pc \in {"partition", "haves", "wants", "walk", "selected"} =>
          haveObjects = {} /\ objects = {} /\ trees = {} /\ queue = <<>>
    /\ pc = "expand" => objects = {}

HaveRoots == {root[c] : c \in common}

\* The client's snapshots: from the roots of the recognised haves downwards,
\* whole up to the trees of the current depth, and nothing else.
ExpandInv ==
    pc \in {"expand", "collect", "planned"} =>
        /\ HaveRoots \subseteq haveObjects
        /\ pc = "expand" => trees \subseteq haveObjects
        /\ \A t \in haveObjects \cap Trees :
              \/ pc = "expand" /\ t \in trees
              \/ /\ Entries[t] \cap Trees \subseteq haveObjects
                 /\ filter.kind # "blob:none" => Entries[t] \cap Blobs \subseteq haveObjects
        /\ \A B \in SUBSET (Trees \cup Blobs) :
              TreeClosed(B) /\ HaveRoots \subseteq B =>
                  \A o \in haveObjects : o \in Trees \/ Admits(o) => o \in B

\* What was collected, O, is whole up to the client's snapshots, the trees of
\* the current depth and the rest of the send list.
Collected(O) ==
    /\ O \cap haveObjects = {}
    /\ trees \subseteq O
    /\ \A t \in (O \cap Trees) \ trees :
          /\ Entries[t] \cap Trees \subseteq O \cup haveObjects
          /\ {b \in Entries[t] \cap Blobs : Admits(b)} \subseteq O \cup haveObjects
    /\ Sent \cup tags \subseteq O \cup ToSet(queue)
    /\ \A c \in O \cap Commits : root[c] \in O \cup haveObjects

CollectInv ==
    /\ pc = "collect" => Collected(objects)
    /\ pc = "planned" => /\ trees = {} /\ queue = <<>>
                         /\ \E O \in SUBSET objects : Collected(O) /\ objects = O \cup direct

\* Why planning failed.
Cause ==
    \/ \E w \in asked : ~Present(w)
    \/ \E t \in asked \cap Tags : \E x \in Chain(t) : Target[x] \notin Commits \cup Tags
    \/ lost # {} \/ stored # Commits

PInv == PlanType /\ AskInv /\ ExpandInv /\ CollectInv /\ (pc = "failed" => Cause)

\* The filter and the objects are fixed during a fetch.
LEMMA RequestFixed ==
    ASSUME UNCHANGED <<stored, lost, asked, filter>>
    PROVE  /\ \A o : Present(o)' <=> Present(o)
           /\ \A b : Admits(b)' <=> Admits(b)
           /\ \A B : TreeClosed(B)' <=> TreeClosed(B)
           /\ Cause' <=> Cause
<1>1. \A o : Present(o)' <=> Present(o)
  BY DEF Present
<1>2. \A b : Admits(b)' <=> Admits(b)
  BY DEF Admits
<1>3. \A B : TreeClosed(B)' <=> TreeClosed(B)
  BY DEF TreeClosed, Admits
<1>4. Cause' <=> Cause
  BY DEF Cause, Present
<1> QED BY <1>1, <1>2, <1>3, <1>4

\* What the id of a missing object says.
LEMMA MissingObject ==
    ASSUME NEW o, ~Present(o)
    PROVE  /\ o \in Commits => stored # Commits
           /\ o \in Trees \cup Blobs \cup Tags => lost # {}
  BY FetchPlanAssumption DEF Present

LEMMA PlanInitEstablishes == PlanInit => DInv /\ ExactInv /\ HoleInv /\ PInv
<1> SUFFICES ASSUME PlanInit PROVE DInv /\ ExactInv /\ HoleInv /\ PInv
  OBVIOUS
<1>1. /\ InitRepository /\ InitWalk /\ pc = "partition" /\ wants = {}
      /\ haves \in SUBSET (1..Bounds[bound].commits) /\ root \in Bounds[bound].roots
      /\ direct = {} /\ tags = {} /\ haveObjects = {} /\ objects = {} /\ trees = {} /\ queue = <<>>
  BY DEF PlanInit, AtMost
<1>2. bound \in DOMAIN Bounds /\ haves \in SUBSET Commits
  BY <1>1, DiscoveryAssumption DEF InitRepository, Commits
<1>3. DInv
  BY <1>1, <1>2, StartEstablishes
<1>4. /\ disc.state = [c \in Commits |-> "none"] /\ disc.frontier = {} /\ level = {} /\ done = {}
      /\ common = {} /\ Sent = {} /\ Marked = {}
  BY <1>1 DEF InitWalk, Sent, ToSet, Marked
<1>5. ExactInv
  <2>1. Spared
    BY <1>4 DEF Spared, ParentClosed
  <2>2. Ahead
    BY <1>4 DEF Ahead
  <2> QED BY <1>4, <2>1, <2>2 DEF ExactInv
<1>6. HoleInv
  BY <1>1, <1>4 DEF HoleInv
<1>7. PlanType
  <2>1. root \in [Commits -> Trees]
    BY <1>1, <1>2, FetchPlanAssumption
  <2> QED BY <1>1, <2>1 DEF PlanType
<1>8. AskInv
  BY <1>1 DEF AskInv, Settled
<1>9. ExpandInv /\ CollectInv /\ (pc = "failed" => Cause)
  BY <1>1 DEF ExpandInv, CollectInv
<1> QED BY <1>3, <1>5, <1>6, <1>7, <1>8, <1>9 DEF PInv

\* partition_wants.
LEMMA PartitionKeeps == ASSUME DInv, PInv, Partition PROVE PInv'
<1> DEFINE history == asked \cap (Commits \cup Tags)
<1>1. /\ pc = "partition"
      /\ UNCHANGED <<repoVars, wants, haves, disc, level, done, toSend, common, bounded,
                     root, lost, asked, filter, tags, haveObjects, trees, queue>>
      /\ wants = {} /\ tags = {} /\ haveObjects = {} /\ objects = {} /\ trees = {} /\ queue = <<>>
      /\ common = {}
  BY DEF Partition, PInv, AskInv, DInv, HavesHeld
<1>2. Sent' = {}
  <2>1. Sent = {}
    BY <1>1 DEF DInv, HavesHeld, WantsTracked, PendingQueued
  <2> QED BY <1>1, <2>1 DEF Sent
<1>3. CASE \A w \in asked : Present(w)
  <2>1. direct' = asked \ history /\ IF history = {} THEN pc' = "planned" /\ objects' = direct'
                                     ELSE pc' = "haves" /\ objects' = objects
    BY <1>3 DEF Partition
  <2>2. direct' \subseteq Trees \cup Blobs
    BY <1>3, <2>1 DEF Present
  <2>3. PlanType'
    BY <1>1, <2>1, <2>2 DEF PInv, PlanType
  <2>4. CASE history = {}
    <3>1. pc' = "planned" /\ objects' = asked /\ direct' = asked
      BY <2>1, <2>4
    <3>2. AskInv'
      BY <1>1, <3>1 DEF AskInv, Settled
    <3>3. HaveRoots' = {}
      BY <1>1 DEF HaveRoots
    <3>4. ExpandInv'
      BY <1>1, <3>1, <3>3 DEF ExpandInv
    <3>5. Collected({})'
      BY <1>1, <1>2 DEF Collected
    <3>6. CollectInv'
      BY <1>1, <3>1, <3>5 DEF CollectInv
    <3> QED BY <2>3, <3>1, <3>2, <3>4, <3>6 DEF PInv
  <2>5. CASE history # {}
    <3>1. pc' = "haves" /\ objects' = objects
      BY <2>1, <2>5
    <3>2. AskInv'
      BY <1>1, <2>1, <3>1 DEF AskInv, Settled
    <3> QED BY <2>3, <3>1, <3>2 DEF PInv, ExpandInv, CollectInv
  <2> QED BY <2>4, <2>5
<1>4. CASE ~(\A w \in asked : Present(w))
  <2>1. pc' = "failed" /\ direct' = direct /\ objects' = objects
    BY <1>4 DEF Partition, Fail
  <2>2. Cause /\ Cause'
    BY <1>1, <1>4, RequestFixed DEF Cause, repoVars
  <2>3. PlanType'
    BY <1>1, <2>1 DEF PInv, PlanType
  <2> QED BY <2>1, <2>2, <2>3 DEF PInv, AskInv, ExpandInv, CollectInv, Settled
<1> QED BY <1>3, <1>4

\* A step to failure, with its cause.
LEMMA FailKeeps ==
    ASSUME PInv, Cause, pc' = "failed",
           UNCHANGED <<stored, root, lost, asked, filter, direct, tags, haveObjects, objects, trees, queue>>
    PROVE  PInv'
<1>1. Cause'
  BY RequestFixed
<1>2. PlanType'
  BY DEF PInv, PlanType
<1> QED BY <1>1, <1>2 DEF PInv, AskInv, ExpandInv, CollectInv, Settled

\* peel_wants.
LEMMA PeelKeeps == ASSUME DInv, PInv, Peel PROVE PInv' /\ wants' \in SUBSET Commits
<1> DEFINE tagged == asked \cap Tags
           chains == UNION {Chain(t) : t \in tagged}
           ends == {Peeled(t) : t \in tagged}
<1>1. /\ pc = "wants" /\ wants = {}
      /\ UNCHANGED <<repoVars, haves, disc, level, done, toSend, common, bounded,
                     root, lost, asked, filter, direct, haveObjects, objects, trees, queue>>
  BY DEF Peel
<1>2. chains \subseteq Tags /\ tagged \subseteq chains
  BY ChainFacts
<1>3. CASE (\A t \in chains : Present(t)) /\ (\A c \in ends : c \in Commits /\ Present(c))
  <2>1. wants' = (asked \cap Commits) \cup ends /\ tags' = chains /\ pc' = pc
    BY <1>3 DEF Peel
  <2>2. wants' \in SUBSET Commits
    BY <1>3, <2>1
  <2>3. asked \subseteq direct \cup wants' \cup tags'
    BY <1>1, <1>2, <2>1 DEF PInv, AskInv
  <2> HIDE DEF chains, ends
  <2>4. PlanType'
    BY <1>1, <1>2, <2>1 DEF PInv, PlanType
  <2>5. AskInv'
    BY <1>1, <2>1, <2>3 DEF PInv, AskInv, Settled
  <2> QED BY <1>1, <2>1, <2>2, <2>4, <2>5 DEF PInv, ExpandInv, CollectInv
<1>4. CASE ~((\A t \in chains : Present(t)) /\ (\A c \in ends : c \in Commits /\ Present(c)))
  <2>1. pc' = "failed" /\ wants' = wants /\ tags' = tags
    BY <1>4 DEF Peel, Fail
  <2>2. Cause
    <3>1. CASE \E t \in chains : ~Present(t)
      BY <1>2, <3>1, MissingObject DEF Cause
    <3>2. ASSUME NEW t \in tagged, Peeled(t) \notin Commits PROVE Cause
      <4>1. \E x \in Chain(t) : Target[x] \notin Commits \cup Tags
        BY <3>2, PeeledFacts
      <4> QED BY <4>1 DEF Cause
    <3>3. ASSUME NEW t \in tagged, Peeled(t) \in Commits, ~Present(Peeled(t)) PROVE Cause
      BY <3>3, MissingObject DEF Cause
    <3> QED BY <1>4, <3>1, <3>2, <3>3
  <2>3. stored' = stored
    BY <1>1 DEF repoVars
  <2> QED BY <1>1, <2>1, <2>2, <2>3, FailKeeps
<1> QED BY <1>3, <1>4

\* A step of the walk.
LEMMA DiscoverKeeps == ASSUME DInv, PInv, Discover PROVE PInv'
<1>1. /\ UNCHANGED <<root, lost, asked, filter, direct, tags, haveObjects, objects, trees, queue>>
      /\ wants' = wants
      /\ \/ pc = "haves" /\ pc' \in {"wants", "error"}
         \/ pc = "wants" /\ wants # {} /\ pc' \in {"walk", "error"}
         \/ pc = "walk" /\ pc' \in {"walk", "selected", "error", "stalled"}
  BY DEF Discover, planVars, Step, MarkHaves, MarkWants, DrainLevel, Selected, Visit
<1>2. PlanType'
  BY <1>1 DEF PInv, PlanType
<1>3. AskInv'
  BY <1>1 DEF PInv, AskInv, Settled
<1> QED BY <1>1, <1>2, <1>3 DEF PInv, ExpandInv, CollectInv

\* collect_inner starts with the roots of the recognised haves.
LEMMA StartCollectKeeps == ASSUME DInv, PInv, StartCollect PROVE PInv'
<1>1. /\ pc = "selected" /\ pc' = "expand" /\ haveObjects' = HaveRoots /\ trees' = HaveRoots
      /\ UNCHANGED <<collectVars, objects, queue>>
  BY DEF StartCollect, HaveRoots
<1>2. UNCHANGED <<root, lost, asked, filter, direct, tags, wants, common, stored>>
  BY <1>1 DEF collectVars, repoVars
<1>3. HaveRoots \subseteq Trees
  BY DEF HaveRoots, PInv, PlanType, DInv, WalkType
<1>4. HaveRoots' = HaveRoots
  BY <1>2 DEF HaveRoots
<1>5. PlanType'
  BY <1>1, <1>2, <1>3 DEF PInv, PlanType
<1>6. AskInv'
  BY <1>1, <1>2 DEF PInv, AskInv, Settled
<1>7. ExpandInv'
  BY <1>1, <1>3, <1>4 DEF ExpandInv
<1> QED BY <1>1, <1>5, <1>6, <1>7 DEF PInv, CollectInv

\* expand_haves, one depth.
LEMMA ExpandKeeps == ASSUME DInv, PInv, ExpandHaves PROVE PInv'
<1> USE FetchPlanAssumption
<1>1. /\ pc = "expand" /\ UNCHANGED <<collectVars, objects, queue>>
  BY DEF ExpandHaves
<1>2. UNCHANGED <<root, lost, asked, filter, direct, tags, wants, common, stored>>
  BY <1>1 DEF collectVars, repoVars
<1>3. PlanType /\ trees \subseteq Trees
  BY DEF PInv, PlanType
<1>4. CASE ~(\A t \in trees : Present(t))
  <2>1. pc' = "failed" /\ UNCHANGED <<haveObjects, trees>>
    BY <1>4 DEF ExpandHaves, Fail
  <2>2. Cause
    BY <1>3, <1>4, MissingObject DEF Cause
  <2> QED BY <1>1, <1>2, <2>1, <2>2, FailKeeps
<1>5. CASE \A t \in trees : Present(t)
  <2>1. /\ haveObjects' = haveObjects \cup Subtrees(trees) \cup HaveLeaves(trees)
        /\ trees' = Subtrees(trees) \ haveObjects /\ pc' = pc
    BY <1>5 DEF ExpandHaves
  <2>2. /\ Subtrees(trees) \subseteq Trees /\ HaveLeaves(trees) \subseteq Blobs
        /\ \A t \in trees : Entries[t] \cap Trees \subseteq Subtrees(trees)
        /\ \A t \in trees : filter.kind # "blob:none" => Entries[t] \cap Blobs \subseteq HaveLeaves(trees)
        /\ \A o \in Subtrees(trees) : \E t \in trees : o \in Entries[t] \cap Trees
        /\ \A o \in HaveLeaves(trees) : \E t \in trees : o \in Entries[t] \cap Blobs
    BY DEF Subtrees, HaveLeaves, Leaves
  <2>3. PlanType'
    BY <1>1, <1>2, <1>3, <2>1, <2>2 DEF PlanType
  <2>4. AskInv'
    BY <1>1, <1>2, <2>1 DEF PInv, AskInv, Settled
  <2>5. ExpandInv'
    <3>1. /\ HaveRoots \subseteq haveObjects /\ trees \subseteq haveObjects
          /\ \A t \in haveObjects \cap Trees :
                \/ t \in trees
                \/ /\ Entries[t] \cap Trees \subseteq haveObjects
                   /\ filter.kind # "blob:none" => Entries[t] \cap Blobs \subseteq haveObjects
          /\ \A B \in SUBSET (Trees \cup Blobs) :
                TreeClosed(B) /\ HaveRoots \subseteq B =>
                    \A o \in haveObjects : o \in Trees \/ Admits(o) => o \in B
      BY <1>1 DEF PInv, ExpandInv
    <3>2. HaveRoots' = HaveRoots
      BY <1>2 DEF HaveRoots
    <3>3. (\A b : Admits(b)' <=> Admits(b)) /\ (\A B : TreeClosed(B)' <=> TreeClosed(B))
      BY <1>2, RequestFixed
    <3>4. trees' \subseteq haveObjects' /\ HaveRoots' \subseteq haveObjects'
      BY <2>1, <3>1, <3>2
    <3>5. ASSUME NEW t \in haveObjects' \cap Trees
          PROVE  \/ t \in trees'
                 \/ /\ Entries[t] \cap Trees \subseteq haveObjects'
                    /\ filter.kind # "blob:none" => Entries[t] \cap Blobs \subseteq haveObjects'
      <4>1. CASE t \in trees
        BY <2>1, <2>2, <4>1
      <4>2. CASE t \in haveObjects /\ t \notin trees
        BY <2>1, <3>1, <4>2
      <4>3. CASE t \notin haveObjects
        BY <2>1, <2>2, <4>3
      <4> QED BY <4>1, <4>2, <4>3
    <3>6. ASSUME NEW B \in SUBSET (Trees \cup Blobs), TreeClosed(B), HaveRoots \subseteq B,
                 NEW o \in haveObjects', o \in Trees \/ Admits(o)
          PROVE  o \in B
      <4>1. trees \subseteq B \cap Trees
        BY <1>3, <3>1, <3>6
      <4>2. CASE o \in haveObjects
        BY <3>1, <3>6, <4>2
      <4>3. CASE o \in Subtrees(trees)
        BY <2>2, <3>6, <4>1, <4>3 DEF TreeClosed
      <4>4. CASE o \in HaveLeaves(trees)
        <5>1. o \notin Trees /\ Admits(o)
          BY <2>2, <3>6, <4>4
        <5> QED BY <2>2, <3>6, <4>1, <4>4, <5>1 DEF TreeClosed
      <4> QED BY <2>1, <4>2, <4>3, <4>4
    <3>7. pc' = "expand" /\ filter' = filter
      BY <1>1, <1>2, <2>1
    <3> QED BY <3>2, <3>3, <3>4, <3>5, <3>6, <3>7 DEF ExpandInv
  <2> QED BY <1>1, <2>1, <2>3, <2>4, <2>5 DEF PInv, CollectInv
<1> QED BY <1>4, <1>5

\* A step that leaves the snapshots alone, from expand or later.
LEMMA SnapshotsKept ==
    ASSUME ExpandInv, pc \in {"expand", "collect", "planned"}, pc = "expand" => trees = {},
           pc' \in {"collect", "planned"},
           UNCHANGED <<stored, lost, asked, root, common, filter, haveObjects>>
    PROVE  ExpandInv'
<1>1. HaveRoots' = HaveRoots
  BY DEF HaveRoots
<1>2. (\A b : Admits(b)' <=> Admits(b)) /\ (\A B : TreeClosed(B)' <=> TreeClosed(B))
  BY RequestFixed
<1>3. /\ HaveRoots \subseteq haveObjects
      /\ \A t \in haveObjects \cap Trees :
            /\ Entries[t] \cap Trees \subseteq haveObjects
            /\ filter.kind # "blob:none" => Entries[t] \cap Blobs \subseteq haveObjects
      /\ \A B \in SUBSET (Trees \cup Blobs) :
            TreeClosed(B) /\ HaveRoots \subseteq B =>
                \A o \in haveObjects : o \in Trees \/ Admits(o) => o \in B
  BY DEF ExpandInv
<1> QED BY <1>1, <1>2, <1>3 DEF ExpandInv

\* The send list: the selected commits, then the tags.
LEMMA ClassifyKeeps == ASSUME DInv, PInv, Classify PROVE PInv'
<1>1. pc = "expand" /\ trees = {} /\ UNCHANGED <<collectVars, haveObjects, objects, trees>>
  BY DEF Classify
<1>2. UNCHANGED <<root, lost, asked, filter, direct, tags, wants, common, stored, toSend>>
  BY <1>1 DEF collectVars, repoVars
<1>3. toSend \in Seq(Commits)
  BY DEF DInv, WalkType
<1>4. CASE ~(\A c \in ToSet(toSend) : Present(c))
  <2>1. pc' = "failed" /\ queue' = queue
    BY <1>4 DEF Classify, Fail
  <2>2. ToSet(toSend) \subseteq Commits
    BY <1>3 DEF ToSet
  <2>3. Cause
    BY <1>4, <2>2, MissingObject DEF Cause
  <2> QED BY <1>1, <1>2, <2>1, <2>3, FailKeeps
<1>5. CASE \A c \in ToSet(toSend) : Present(c)
  <2>1. pc' = "collect" /\ queue' = toSend \o SetToSeq(tags)
    BY <1>5 DEF Classify
  <2>2. tags \subseteq Tags /\ IsFiniteSet(tags)
    BY FetchPlanAssumption, FS_Subset DEF PInv, PlanType
  <2>3. PICK l : l = SetToSeq(tags)
    OBVIOUS
  <2>4. l \in Seq(tags) /\ ToSet(l) = tags
    BY <2>2, <2>3, ListedSet
  <2>5. queue' = toSend \o l /\ l \in Seq(Commits \cup Tags) /\ toSend \in Seq(Commits \cup Tags)
    BY <1>3, <2>1, <2>2, <2>3, <2>4
  <2>6. queue' \in Seq(Commits \cup Tags)
    BY <2>5
  <2>7. ToSet(queue') = ToSet(toSend) \cup ToSet(l)
    <3>1. /\ DOMAIN toSend = 1..Len(toSend) /\ DOMAIN l = 1..Len(l)
          /\ Len(toSend) \in Nat /\ Len(l) \in Nat
          /\ DOMAIN queue' = 1..(Len(toSend) + Len(l))
          /\ \A i \in 1..(Len(toSend) + Len(l)) :
                queue'[i] = IF i <= Len(toSend) THEN toSend[i] ELSE l[i - Len(toSend)]
      BY <2>5
    <3>2. \A i \in 1..Len(toSend) : i \in DOMAIN queue' /\ queue'[i] = toSend[i]
      BY <3>1
    <3>3. \A i \in 1..Len(l) : Len(toSend) + i \in DOMAIN queue' /\ queue'[Len(toSend) + i] = l[i]
      BY <3>1
    <3>4. \A i \in DOMAIN queue' : queue'[i] \in ToSet(toSend) \cup ToSet(l)
      <4> SUFFICES ASSUME NEW i \in DOMAIN queue' PROVE queue'[i] \in ToSet(toSend) \cup ToSet(l)
        OBVIOUS
      <4>1. CASE i <= Len(toSend)
        BY <3>1, <4>1 DEF ToSet
      <4>2. CASE ~(i <= Len(toSend))
        <5>1. i - Len(toSend) \in 1..Len(l)
          BY <3>1, <4>2
        <5> QED BY <3>1, <4>2, <5>1 DEF ToSet
      <4> QED BY <4>1, <4>2
    <3> QED BY <3>1, <3>2, <3>3, <3>4 DEF ToSet
  <2>8. Sent' = ToSet(toSend) /\ tags' = tags /\ objects' = {}
    BY <1>1, <1>2 DEF Sent, PInv, AskInv
  <2>9. PlanType'
    BY <1>1, <1>2, <2>6 DEF PInv, PlanType
  <2>10. AskInv'
    BY <1>1, <1>2, <2>1 DEF PInv, AskInv, Settled
  <2>11. ExpandInv'
    BY <1>1, <1>2, <2>1, SnapshotsKept DEF PInv
  <2>12. Collected({})'
    BY <1>1, <2>4, <2>7, <2>8 DEF Collected
  <2> QED BY <2>1, <2>8, <2>9, <2>10, <2>11, <2>12 DEF PInv, CollectInv
<1> QED BY <1>4, <1>5

\* What the first of the send list adds.
LEMMA CollectNextKeeps == ASSUME DInv, PInv, CollectNext PROVE PInv'
<1> USE FetchPlanAssumption
<1> DEFINE id == queue[1]
           new == IF id \in Commits THEN NewTrees({root[id]}) ELSE {}
<1>1. /\ pc = "collect" /\ trees = {} /\ queue # <<>> /\ pc' = pc
      /\ objects' = objects \cup {id} \cup new /\ trees' = new /\ queue' = Tail(queue)
      /\ UNCHANGED <<collectVars, haveObjects>>
  BY DEF CollectNext
<1>2. UNCHANGED <<root, lost, asked, filter, direct, tags, wants, common, stored, toSend>>
  BY <1>1 DEF collectVars, repoVars
<1>3. /\ queue \in Seq(Commits \cup Tags) /\ root \in [Commits -> Trees]
      /\ haveObjects \subseteq Trees \cup Blobs
      /\ objects \subseteq Commits \cup Trees \cup Blobs \cup Tags
  BY DEF PInv, PlanType
<1>4. id \in Commits \cup Tags /\ queue' \in Seq(Commits \cup Tags) /\ ToSet(queue) = {id} \cup ToSet(queue')
  <2>1. /\ Len(queue) \in Nat \ {0} /\ DOMAIN queue = 1..Len(queue) /\ queue' \in Seq(Commits \cup Tags)
        /\ Len(queue') = Len(queue) - 1 /\ DOMAIN queue' = 1..(Len(queue) - 1)
        /\ \A i \in 1..(Len(queue) - 1) : queue'[i] = queue[i + 1]
    BY <1>1, <1>3
  <2>2. id \in Commits \cup Tags
    BY <1>3, <2>1
  <2>3. \A i \in DOMAIN queue' : i + 1 \in DOMAIN queue /\ queue'[i] = queue[i + 1]
    BY <2>1
  <2>4. \A i \in DOMAIN queue : i # 1 => i - 1 \in DOMAIN queue' /\ queue'[i - 1] = queue[i]
    BY <2>1
  <2>5. 1 \in DOMAIN queue
    BY <2>1
  <2>6. ToSet(queue') \subseteq ToSet(queue) /\ id \in ToSet(queue)
    BY <2>3, <2>5 DEF ToSet
  <2>7. ToSet(queue) \subseteq {id} \cup ToSet(queue')
    BY <2>4 DEF ToSet
  <2> QED BY <2>1, <2>2, <2>6, <2>7
<1> HIDE DEF id
<1>5. /\ new \subseteq Trees \ (objects \cup haveObjects)
      /\ id \in Commits => root[id] \in new \cup objects \cup haveObjects
  BY <1>3 DEF NewTrees
<1> HIDE DEF new
<1>6. PlanType'
  BY <1>1, <1>2, <1>4, <1>5 DEF PInv, PlanType
<1>7. AskInv'
  BY <1>1, <1>2 DEF PInv, AskInv, Settled
<1>8. ExpandInv'
  BY <1>1, <1>2, SnapshotsKept DEF PInv
<1>9. Collected(objects)
  BY <1>1 DEF PInv, CollectInv
<1>10. \A b : Admits(b)' <=> Admits(b)
  BY <1>2, RequestFixed
<1>11. Collected(objects)'
  <2>1. objects' \cap haveObjects' = {}
    BY <1>1, <1>3, <1>4, <1>5, <1>9 DEF Collected
  <2>2. (objects' \cap Trees) \ trees' \subseteq objects \cap Trees
    BY <1>1, <1>4
  <2>3. \A t \in (objects' \cap Trees) \ trees' :
           /\ Entries[t] \cap Trees \subseteq objects' \cup haveObjects'
           /\ {b \in Entries[t] \cap Blobs : Admits(b)'} \subseteq objects' \cup haveObjects'
    <3> SUFFICES ASSUME NEW t \in (objects' \cap Trees) \ trees'
                 PROVE  /\ Entries[t] \cap Trees \subseteq objects' \cup haveObjects'
                        /\ {b \in Entries[t] \cap Blobs : Admits(b)} \subseteq objects' \cup haveObjects'
      BY <1>10
    <3>1. t \in (objects \cap Trees) \ trees
      BY <1>1, <2>2
    <3> QED BY <1>1, <1>9, <3>1 DEF Collected
  <2>4. Sent' \cup tags' \subseteq objects' \cup ToSet(queue')
    BY <1>1, <1>2, <1>4, <1>9 DEF Collected, Sent
  <2>5. \A c \in objects' \cap Commits : root'[c] \in objects' \cup haveObjects'
    BY <1>1, <1>2, <1>5, <1>9 DEF Collected
  <2>6. trees' \subseteq objects'
    BY <1>1
  <2> QED BY <2>1, <2>3, <2>4, <2>5, <2>6 DEF Collected
<1> QED BY <1>1, <1>6, <1>7, <1>8, <1>11 DEF PInv, CollectInv

\* walk_tree, one depth.
LEMMA WalkTreeKeeps == ASSUME DInv, PInv, WalkTree PROVE PInv'
<1> USE FetchPlanAssumption
<1> DEFINE candidates == Leaves(trees) \ (objects \cup haveObjects)
           admitted == {b \in candidates : Admits(b)}
           readable == /\ \A t \in trees : Present(t)
                       /\ filter.kind = "blob:limit" => \A b \in candidates : Present(b)
           next == NewTrees(Subtrees(trees))
<1>1. /\ pc = "collect" /\ UNCHANGED <<collectVars, haveObjects, queue>>
      /\ IF readable THEN objects' = objects \cup next \cup admitted /\ trees' = next /\ UNCHANGED pc
                     ELSE Fail /\ UNCHANGED <<objects, trees>>
  BY DEF WalkTree
<1>2. UNCHANGED <<root, lost, asked, filter, direct, tags, wants, common, stored, toSend>>
  BY <1>1 DEF collectVars, repoVars
<1>3. /\ trees \subseteq Trees /\ root \in [Commits -> Trees] /\ haveObjects \subseteq Trees \cup Blobs
      /\ Leaves(trees) \subseteq Blobs
  BY DEF PInv, PlanType, Leaves
<1>4. CASE ~readable
  <2>1. pc' = "failed" /\ objects' = objects /\ trees' = trees
    BY <1>1, <1>4 DEF Fail
  <2>2. Cause
    <3>1. CASE \E t \in trees : ~Present(t)
      BY <1>3, <3>1, MissingObject DEF Cause
    <3>2. CASE \E b \in candidates : ~Present(b)
      BY <1>3, <3>2, MissingObject DEF Cause
    <3> QED BY <1>4, <3>1, <3>2
  <2> QED BY <1>1, <1>2, <2>1, <2>2, FailKeeps
<1>5. CASE readable
  <2>1. objects' = objects \cup next \cup admitted /\ trees' = next /\ pc' = pc
    BY <1>1, <1>5
  <2>2. /\ next \subseteq Trees \ (objects \cup haveObjects)
        /\ admitted \subseteq Blobs \ (objects \cup haveObjects)
        /\ \A t \in trees : Entries[t] \cap Trees \subseteq next \cup objects \cup haveObjects
        /\ \A t \in trees : {b \in Entries[t] \cap Blobs : Admits(b)} \subseteq admitted \cup objects \cup haveObjects
    BY DEF NewTrees, Subtrees, Leaves
  <2> HIDE DEF next, admitted, readable
  <2>3. PlanType'
    BY <1>1, <1>2, <2>1, <2>2 DEF PInv, PlanType
  <2>4. AskInv'
    BY <1>1, <1>2, <2>1 DEF PInv, AskInv, Settled
  <2>5. ExpandInv'
    BY <1>1, <1>2, <2>1, SnapshotsKept DEF PInv
  <2>6. Collected(objects)
    BY <1>1 DEF PInv, CollectInv
  <2>7. \A b : Admits(b)' <=> Admits(b)
    BY <1>2, RequestFixed
  <2>8. Collected(objects)'
    <3>1. objects' \cap haveObjects' = {} /\ trees' \subseteq objects'
      BY <1>1, <2>1, <2>2, <2>6 DEF Collected
    <3>2. \A t \in (objects' \cap Trees) \ trees' :
             /\ Entries[t] \cap Trees \subseteq objects' \cup haveObjects'
             /\ {b \in Entries[t] \cap Blobs : Admits(b)'} \subseteq objects' \cup haveObjects'
      <4> SUFFICES ASSUME NEW t \in (objects' \cap Trees) \ trees'
                   PROVE  /\ Entries[t] \cap Trees \subseteq objects' \cup haveObjects'
                          /\ {b \in Entries[t] \cap Blobs : Admits(b)} \subseteq objects' \cup haveObjects'
        BY <2>7
      <4>1. t \in objects \cap Trees
        BY <2>1, <2>2
      <4>2. CASE t \in trees
        BY <1>1, <2>1, <2>2, <4>2
      <4>3. CASE t \notin trees
        BY <1>1, <2>1, <2>6, <4>1, <4>3 DEF Collected
      <4> QED BY <4>2, <4>3
    <3>3. Sent' \cup tags' \subseteq objects' \cup ToSet(queue')
      BY <1>1, <1>2, <2>1, <2>6 DEF Collected, Sent
    <3>4. \A c \in objects' \cap Commits : root'[c] \in objects' \cup haveObjects'
      BY <1>1, <1>2, <2>1, <2>2, <2>6 DEF Collected
    <3> QED BY <3>1, <3>2, <3>3, <3>4 DEF Collected
  <2> QED BY <1>1, <2>1, <2>3, <2>4, <2>5, <2>8 DEF PInv, CollectInv
<1> QED BY <1>4, <1>5

\* The direct wants are added last.
LEMMA AddDirectKeeps == ASSUME DInv, PInv, AddDirect PROVE PInv'
<1>1. /\ pc = "collect" /\ trees = {} /\ queue = <<>> /\ objects' = objects \cup direct /\ pc' = "planned"
      /\ UNCHANGED <<collectVars, haveObjects, trees, queue>>
  BY DEF AddDirect
<1>2. UNCHANGED <<root, lost, asked, filter, direct, tags, wants, common, stored, toSend>>
  BY <1>1 DEF collectVars, repoVars
<1>3. PlanType'
  BY <1>1, <1>2 DEF PInv, PlanType
<1>4. AskInv'
  BY <1>1, <1>2 DEF PInv, AskInv, Settled
<1>5. ExpandInv'
  BY <1>1, <1>2, SnapshotsKept DEF PInv
<1>6. PICK O : O = objects
  OBVIOUS
<1>7. Collected(O) /\ Sent' = Sent
  BY <1>1, <1>2, <1>6 DEF PInv, CollectInv, Sent
<1>8. \A b : Admits(b)' <=> Admits(b)
  BY <1>2, RequestFixed
<1>9. Collected(O)'
  BY <1>1, <1>2, <1>7, <1>8 DEF Collected
<1>10. objects' = O \cup direct' /\ O \in SUBSET objects'
  BY <1>1, <1>2, <1>6
<1>11. CollectInv'
  BY <1>1, <1>9, <1>10 DEF CollectInv
<1> QED BY <1>1, <1>3, <1>4, <1>5, <1>11 DEF PInv

-----------------------------------------------------------------------------
(* The invariant and what it gives                                         *)

FetchInv == DInv /\ ExactInv /\ HoleInv /\ PInv

\* The planner's own steps and the walk: what is known of the marks is kept.
LEMMA PlannerKeeps ==
    ASSUME FetchInv, UNCHANGED <<repoVars, haves, disc, level, done, toSend, common, bounded>>,
           wants' \in SUBSET Commits, wants \subseteq wants',
           \/ pc \in Settled /\ wants' = wants /\ pc' \in {"expand", "collect", "planned", "failed"}
           \/ pc = "partition" /\ wants' = wants /\ pc' \in {"planned", "haves", "failed"}
           \/ pc = "wants" /\ pc' \in {"wants", "failed"}
    PROVE  DInv' /\ ExactInv' /\ HoleInv'
<1>1. pc # "error"
  BY DEF Settled
<1>2. DInv'
  BY PlanKeepsWalk DEF FetchInv, Settled
<1>3. ExactInv'
  BY <1>1, ExactStutters DEF FetchInv
<1>4. HoleInv'
  BY HoleStutters DEF FetchInv, Settled
<1> QED BY <1>2, <1>3, <1>4

LEMMA FetchStep == FetchInv /\ [PlanNext]_allVars => FetchInv'
<1> SUFFICES ASSUME FetchInv, [PlanNext]_allVars PROVE FetchInv'
  OBVIOUS
<1>0. DInv /\ ExactInv /\ HoleInv /\ PInv /\ wants \in SUBSET Commits
  BY DEF FetchInv, DInv, WalkType
<1>1. CASE UNCHANGED allVars
  <2>1. /\ UNCHANGED <<repoVars, wants, haves, pc, disc, level, done, toSend, common, bounded>>
        /\ UNCHANGED <<root, lost, asked, filter, direct, tags, haveObjects, objects, trees, queue>>
    BY <1>1 DEF allVars, vars, planVars
  <2>2. DInv'
    BY <1>0, <2>1, StepPreserves DEF vars
  <2>3. ExactInv'
    BY <1>0, <2>1, ExactStutters
  <2>4. HoleInv'
    BY <1>0, <2>1, HoleStutters
  <2>5. UNCHANGED stored /\ Sent' = Sent /\ HaveRoots' = HaveRoots
    BY <2>1 DEF repoVars, Sent, HaveRoots
  <2>6. /\ \A b : Admits(b)' <=> Admits(b)
        /\ \A B : TreeClosed(B)' <=> TreeClosed(B)
        /\ Cause' <=> Cause
    BY <2>1, <2>5, RequestFixed
  <2>7. PlanType'
    BY <1>0, <2>1 DEF PInv, PlanType
  <2>8. AskInv'
    BY <1>0, <2>1 DEF PInv, AskInv
  <2>9. ExpandInv'
    BY <1>0, <2>1, <2>5, <2>6 DEF PInv, ExpandInv
  <2>10. \A O : Collected(O)' <=> Collected(O)
    BY <2>1, <2>5, <2>6 DEF Collected
  <2>11. CollectInv'
    BY <1>0, <2>1, <2>10 DEF PInv, CollectInv
  <2> QED BY <1>0, <2>1, <2>2, <2>3, <2>4, <2>6, <2>7, <2>8, <2>9, <2>11 DEF FetchInv, PInv
<1>2. CASE Discover
  <2>1. Step
    BY <1>2 DEF Discover
  <2>2. DInv'
    BY <1>0, <2>1, StepPreserves
  <2> QED BY <1>0, <1>2, <2>1, <2>2, ExactStep, HoleStep, DiscoverKeeps DEF FetchInv
<1>3. CASE Partition
  <2>1. /\ UNCHANGED <<repoVars, haves, disc, level, done, toSend, common, bounded>> /\ wants' = wants
        /\ pc = "partition" /\ pc' \in {"planned", "haves", "failed"}
    BY <1>3 DEF Partition, Fail
  <2> QED BY <1>0, <1>3, <2>1, PlannerKeeps, PartitionKeeps DEF FetchInv
<1>4. CASE Peel
  <2>1. /\ UNCHANGED <<repoVars, haves, disc, level, done, toSend, common, bounded>>
        /\ pc = "wants" /\ pc' \in {"wants", "failed"} /\ wants = {}
    BY <1>4 DEF Peel, Fail
  <2> QED BY <1>0, <1>4, <2>1, PlannerKeeps, PeelKeeps DEF FetchInv
<1>5. CASE StartCollect \/ ExpandHaves \/ Classify \/ CollectNext \/ WalkTree \/ AddDirect
  <2>1. UNCHANGED collectVars
    BY <1>5 DEF StartCollect, ExpandHaves, Classify, CollectNext, WalkTree, AddDirect
  <2>2. UNCHANGED <<repoVars, haves, disc, level, done, toSend, common, bounded>> /\ wants' = wants
    BY <2>1 DEF collectVars
  <2>3. pc \in Settled /\ pc' \in {"expand", "collect", "planned", "failed"}
    BY <1>5 DEF StartCollect, ExpandHaves, Classify, CollectNext, WalkTree, AddDirect, Fail, Settled
  <2>4. PInv'
    BY <1>0, <1>5, StartCollectKeeps, ExpandKeeps, ClassifyKeeps, CollectNextKeeps, WalkTreeKeeps, AddDirectKeeps
  <2> QED BY <1>0, <2>2, <2>3, <2>4, PlannerKeeps DEF FetchInv
<1> QED BY <1>1, <1>2, <1>3, <1>4, <1>5 DEF PlanNext

\* A complete plan: the pack and what the client has are closed together.
LEMMA PlanComplete == ASSUME FetchInv PROVE PackCompletesClient /\ WantsAreServed /\ SnapshotsNotResent
<1> USE FetchPlanAssumption
<1> SUFFICES ASSUME pc = "planned"
             PROVE  /\ tags \cup ClosureOf(wants) \subseteq objects \cup ClosureOf(common)
                    /\ asked \subseteq objects \cup Ancestry(common)
                    /\ (objects \ direct) \cap UNION {Under(root[c]) : c \in common} = {}
  BY DEF PackCompletesClient, WantsAreServed, SnapshotsNotResent
<1>1. /\ DInv /\ WalkType /\ wants \in SUBSET Commits /\ common \in SUBSET Commits
      /\ root \in [Commits -> Trees] /\ haveObjects \subseteq Trees \cup Blobs
  BY DEF FetchInv, DInv, WalkType, PInv, PlanType
<1>2. PICK O \in SUBSET objects : Collected(O) /\ objects = O \cup direct
  BY DEF FetchInv, PInv, CollectInv
<1>3. trees = {} /\ ToSet(queue) = {} /\ asked \subseteq direct \cup wants \cup tags
  BY DEF FetchInv, PInv, CollectInv, AskInv, Settled, ToSet
<1>4. Sent \cup tags \subseteq O
  BY <1>2, <1>3 DEF Collected
<1>5. /\ HaveRoots \subseteq haveObjects
      /\ \A t \in haveObjects \cap Trees :
            /\ Entries[t] \cap Trees \subseteq haveObjects
            /\ filter.kind # "blob:none" => Entries[t] \cap Blobs \subseteq haveObjects
      /\ \A B \in SUBSET (Trees \cup Blobs) :
            TreeClosed(B) /\ HaveRoots \subseteq B =>
                \A o \in haveObjects : o \in Trees \/ Admits(o) => o \in B
  BY DEF FetchInv, PInv, ExpandInv
<1> DEFINE W == Ancestry(wants)
           A == Ancestry(common)
           U == UNION {Under(root[c]) : c \in common}
<1>6. /\ A \in SUBSET Commits /\ common \subseteq A /\ ParentClosed(A) /\ W \in SUBSET Commits
      /\ \A X \in SUBSET Commits : wants \subseteq X /\ ParentClosed(X) => W \subseteq X
  BY <1>1, AncestryLeast
<1> HIDE DEF W, A
<1>7. wants \subseteq Sent \cup A /\ ParentClosed(Sent \cup A) /\ Sent \subseteq Commits
  <2>1. Marked \subseteq Sent \cup A
    BY <1>1, <1>6 DEF DInv, WalkType, Discs, PendingQueued, WantsTracked, HavesHeld, Marked, Settled
  <2>2. wants \subseteq Sent \cup A
    BY <1>1, <2>1 DEF DInv, WantsTracked, Settled
  <2>3. ParentClosed(Sent \cup A)
    BY <1>1, <1>6, <2>1 DEF DInv, WantsTracked, ParentClosed
  <2>4. Sent \subseteq Commits
    BY <1>1 DEF DInv, WantsTracked, WalkType
  <2> QED BY <2>2, <2>3, <2>4
<1>8. W \subseteq Sent \cup A
  <2>1. Sent \cup A \in SUBSET Commits
    BY <1>6, <1>7
  <2> QED BY <1>6, <1>7, <2>1
<1>9. asked \subseteq objects \cup A
  BY <1>2, <1>3, <1>4, <1>7
<1>10. TreeClosed(haveObjects)
  <2>1. filter.kind = "blob:none" => \A b : ~Admits(b)
    BY DEF Admits
  <2> QED BY <1>5, <2>1 DEF TreeClosed
<1>11. \A c \in Commits : root[c] \in Trees
  BY <1>1
<1>12. U \subseteq haveObjects
  <2> SUFFICES ASSUME NEW c \in common PROVE Under(root[c]) \subseteq haveObjects
    OBVIOUS
  <2>1. root[c] \in Trees /\ root[c] \in haveObjects
    BY <1>1, <1>5, <1>11 DEF HaveRoots
  <2> QED BY <1>10, <2>1, UnderFacts
<1>13. /\ U \subseteq Trees \cup Blobs /\ HaveRoots \subseteq U /\ TreeClosed(U)
  <2>1. \A c \in common : /\ root[c] \in Under(root[c]) /\ Under(root[c]) \subseteq Trees \cup Blobs
                          /\ TreeClosed(Under(root[c]))
    BY <1>1, <1>11, UnderFacts
  <2>2. U \subseteq Trees \cup Blobs /\ HaveRoots \subseteq U
    BY <2>1 DEF HaveRoots
  <2>3. ASSUME NEW t \in U \cap Trees
        PROVE  Entries[t] \cap Trees \subseteq U /\ {b \in Entries[t] \cap Blobs : Admits(b)} \subseteq U
    <3>1. PICK c \in common : t \in Under(root[c])
      BY <2>3
    <3>2. /\ Entries[t] \cap Trees \subseteq Under(root[c])
          /\ {b \in Entries[t] \cap Blobs : Admits(b)} \subseteq Under(root[c])
      BY <2>1, <2>3, <3>1 DEF TreeClosed
    <3>3. Under(root[c]) \subseteq U
      OBVIOUS
    <3> QED BY <3>2, <3>3
  <2> QED BY <2>2, <2>3 DEF TreeClosed
<1>14. (objects \ direct) \cap U = {}
  BY <1>2, <1>12 DEF Collected
<1> DEFINE K == (O \cap (Trees \cup Blobs)) \cup U
<1> HIDE DEF U
<1>15. \A o \in haveObjects : o \in Trees \/ Admits(o) => o \in U
  BY <1>5, <1>13
<1>16. TreeClosed(K)
  <2> SUFFICES ASSUME NEW t \in K \cap Trees
               PROVE  Entries[t] \cap Trees \subseteq K /\ {b \in Entries[t] \cap Blobs : Admits(b)} \subseteq K
    BY DEF TreeClosed
  <2>1. CASE t \in U
    BY <1>13, <2>1 DEF TreeClosed
  <2>2. CASE t \in O
    <3>1. /\ Entries[t] \cap Trees \subseteq O \cup haveObjects
          /\ {b \in Entries[t] \cap Blobs : Admits(b)} \subseteq O \cup haveObjects
      BY <1>2, <1>3, <2>2 DEF Collected
    <3> QED BY <1>15, <3>1
  <2> QED BY <2>1, <2>2
<1>17. ASSUME NEW c \in W PROVE Under(root[c]) \subseteq objects \cup ClosureOf(common)
  <2>1. CASE c \in A
    BY <2>1 DEF ClosureOf, A
  <2>2. CASE c \in Sent
    <3>1. root[c] \in K /\ root[c] \in Trees
      BY <1>2, <1>4, <1>7, <1>11, <1>15, <2>2 DEF Collected
    <3>2. Under(root[c]) \subseteq K
      BY <1>16, <3>1, UnderFacts
    <3>3. U \subseteq ClosureOf(common)
      BY <1>6 DEF ClosureOf, U, A
    <3> QED BY <1>2, <3>2, <3>3
  <2> QED BY <1>8, <2>1, <2>2
<1>18. W \subseteq objects \cup ClosureOf(common)
  <2>1. A \subseteq ClosureOf(common)
    BY DEF ClosureOf, A
  <2> QED BY <1>2, <1>4, <1>8, <2>1
<1>19. ClosureOf(wants) \subseteq objects \cup ClosureOf(common)
  BY <1>17, <1>18 DEF ClosureOf, W
<1> QED BY <1>2, <1>4, <1>9, <1>14, <1>19 DEF U, A

\* What the planner keeps has its type.
LEMMA PlanTyped == ASSUME FetchInv PROVE FPTypeOK
<1>1. PlanType /\ AskInv /\ ExpandInv /\ CollectInv
  BY DEF FetchInv, PInv
<1>2. ToSet(queue) \subseteq Commits \cup Tags
  BY <1>1 DEF PlanType, ToSet
<1>3. pc = "collect" => trees \subseteq objects \ haveObjects
  BY <1>1 DEF CollectInv, Collected
<1>4. pc = "expand" => trees \subseteq haveObjects
  BY <1>1 DEF ExpandInv
<1> QED BY <1>1, <1>2, <1>3, <1>4 DEF FPTypeOK, PlanType

\* A walk that failed, or a planner that did, has its cause.
LEMMA FailureCause == ASSUME FetchInv PROVE FailuresExplained
<1>1. DInv /\ HoleInv /\ PInv
  BY DEF FetchInv
<1>2. HolesSurface
  BY <1>1, HolesShow
<1>3. ASSUME pc = "error" PROVE stored # Commits
  <2>1. wants \cup haves \in SUBSET Commits /\ WalkType
    BY <1>1 DEF DInv, WalkType
  <2>2. Ancestry(wants \cup haves) \in SUBSET Commits
    BY <2>1, AncestryLeast
  <2>3. PICK c \in Ancestry(wants \cup haves) : Unknown(c)
    BY <1>2, <1>3 DEF HolesSurface
  <2> QED BY <2>2, <2>3 DEF Unknown
<1>4. pc = "failed" => Cause
  BY <1>1 DEF PInv
<1>5. FailuresHaveCause
  BY <1>3, <1>4 DEF FailuresHaveCause, Cause
<1> QED BY <1>2, <1>5 DEF FailuresExplained

-----------------------------------------------------------------------------
(* The walk implements Selection                                           *)

\* Only what the wants reach is marked as wanted or sent.
WantsOnly ==
    \A A \in SUBSET Commits : ParentClosed(A) /\ wants \subseteq A =>
        \A c \in Commits : disc.state[c] = "want" \/ c \in Sent => c \in A

\* A walk with nothing pending ended on a have that is still queued, or on a
\* want: its last level sent one, and its parents are what is queued.
LastWant ==
    pc = "walk" /\ disc.pending = {} =>
        \/ disc.frontier # {}
        \/ \E c \in Sent : \A d \in done \cup level : generation[c] <= generation[d]

EndInv ==
    /\ wants = {} \/ wants = Wanted
    /\ pc = "walk" => wants # {}
    /\ WantsOnly
    /\ Decreasing => LastWant

LEMMA EndMarks ==
    ASSUME DInv, ExactInv, EndInv, MarkHaves \/ MarkWants
    PROVE  WantsOnly' /\ (Decreasing => LastWant')
<1>1. /\ disc \in Discs /\ wants \in SUBSET Commits /\ haves \in SUBSET Commits
      /\ UNCHANGED <<repoVars, wants, done, level, toSend>> /\ Sent' = Sent /\ WantsOnly
      /\ UNCHANGED <<parents, generation>>
  BY DEF DInv, WalkType, MarkHaves, MarkWants, Sent, EndInv, repoVars
<1>2. CASE UNCHANGED disc /\ pc' = "error"
  BY <1>1, <1>2 DEF WantsOnly, LastWant, ParentClosed
<1>3. CASE MarkHaves /\ pc' = "wants"
  <2> DEFINE known == {h \in haves : ~Unknown(h)}
  <2>1. known \in SUBSET Commits /\ disc' = Mark(disc, known, "have")
    BY <1>1, <1>3 DEF MarkHaves
  <2>2. \A c \in Commits : disc'.state[c] = "want" => disc.state[c] = "want"
    <3>1. disc'.state = [c \in Commits |-> IF c \in Changed(disc, known, "have") THEN "have" ELSE disc.state[c]]
      BY <1>1, <2>1, MarkParts
    <3> QED BY <3>1
  <2> HIDE DEF known
  <2> QED BY <1>1, <1>3, <2>2 DEF WantsOnly, LastWant, ParentClosed
<1>4. CASE MarkWants /\ pc' = "walk"
  <2> DEFINE new == Changed(disc, wants, "want")
  <2>1. pc = "wants" /\ wants # {} /\ disc' = Mark(disc, wants, "want")
    BY <1>4 DEF MarkWants
  <2>2. /\ disc'.state = [c \in Commits |-> IF c \in new THEN "want" ELSE disc.state[c]]
        /\ disc'.frontier = disc.frontier \cup new
        /\ disc'.pending = disc.pending \cup new
    BY <1>1, <2>1, MarkParts
  <2>3. new = {w \in wants : disc.state[w] = "none"}
    BY DEF Changed
  <2> HIDE DEF new
  <2>4. WantsOnly'
    BY <1>1, <2>2, <2>3 DEF WantsOnly, ParentClosed
  <2>5. ASSUME Decreasing, disc'.pending = {} PROVE disc'.frontier # {}
    <3>1. PICK w \in wants : TRUE
      BY <2>1
    <3>2. /\ w \in Commits /\ disc.state[w] \in {"none", "want", "have"} /\ disc.pending = {}
          /\ disc.state[w] # "none" /\ level = {} /\ done = {} /\ Sent = {}
      BY <1>1, <2>1, <2>2, <2>3, <2>5 DEF DInv, PendingQueued, WantsTracked, Discs
    <3>3. disc.state[w] = "have"
      BY <3>2 DEF DInv, WantsTracked
    <3>4. Ahead
      BY <2>1, <2>5 DEF ExactInv
    <3>5. w \in disc.frontier
      BY <3>2, <3>3, <3>4 DEF Ahead
    <3> QED BY <2>2, <3>5
  <2> QED BY <1>4, <2>4, <2>5 DEF LastWant
<1>5. \/ UNCHANGED disc /\ pc' = "error"
      \/ MarkHaves /\ pc' = "wants"
      \/ MarkWants /\ pc' = "walk"
  BY DEF MarkHaves, MarkWants
<1> QED BY <1>2, <1>3, <1>4, <1>5

\* Popping a level changes no mark, and happens only while a want is pending.
LEMMA EndDrain ==
    ASSUME DInv, EndInv, DrainLevel \/ Selected
    PROVE  WantsOnly' /\ LastWant'
<1>1. /\ disc \in Discs /\ UNCHANGED <<repoVars, wants, done, toSend>> /\ Sent' = Sent /\ WantsOnly
      /\ UNCHANGED <<parents, generation>>
  BY DEF DInv, WalkType, DrainLevel, Selected, Sent, EndInv, repoVars
<1>2. disc'.state = disc.state /\ disc'.pending = disc.pending /\ (pc' = "walk" => disc.pending # {})
  BY <1>1 DEF DrainLevel, Selected, Discs
<1> QED BY <1>1, <1>2 DEF WantsOnly, LastWant, ParentClosed

\* The want that is visited has the lowest generation seen.
LEMMA EndVisitWant ==
    ASSUME DInv, ExactInv, EndInv, NEW c \in Commits, Visit(c), disc.state[c] = "want"
    PROVE  WantsOnly' /\ (Decreasing => LastWant')
<1> DEFINE d0 == [disc EXCEPT !.pending = disc.pending \ {c}]
           new == Changed(d0, parents[c], "want")
<1>1. /\ pc = "walk" /\ c \in level /\ level' = level \ {c} /\ done' = done \cup {c}
      /\ toSend' = Append(toSend, c) /\ disc' = Mark(d0, parents[c], "want")
      /\ UNCHANGED <<repoVars, wants, haves, pc, common, bounded>>
  BY DEF Visit
<1>2. /\ d0 \in Discs /\ d0.state = disc.state /\ parents[c] \in SUBSET Commits /\ toSend \in Seq(Commits)
      /\ level \subseteq Commits /\ done \subseteq Commits /\ disc \in Discs
  BY DEF DInv, WalkType, Discs
<1>3. disc'.state = [q \in Commits |-> IF q \in new THEN "want" ELSE disc.state[q]]
  <2> DEFINE e == Mark(d0, parents[c], "want")
  <2> HIDE DEF d0
  <2>1. e.state = [q \in Commits |-> IF q \in new THEN "want" ELSE d0.state[q]]
    BY <1>2, MarkParts, SMTT(40), ZenonT(40)
  <2> QED BY <1>1, <1>2, <2>1
<1>4. new \subseteq parents[c]
  BY DEF Changed
<1> HIDE DEF d0, new
<1>5. Sent' = Sent \cup {c}
  BY <1>1, <1>2, AppendSent DEF Sent
<1>6. UNCHANGED <<generation, parents>>
  BY <1>1 DEF repoVars
<1>7. WantsOnly'
  <2> SUFFICES ASSUME NEW A \in SUBSET Commits, ParentClosed(A)', wants' \subseteq A,
                      NEW x \in Commits, disc'.state[x] = "want" \/ x \in Sent'
               PROVE  x \in A
    BY DEF WantsOnly
  <2>1. ParentClosed(A) /\ wants \subseteq A
    BY <1>1, <1>6 DEF ParentClosed
  <2>2. \A y \in Commits : disc.state[y] = "want" \/ y \in Sent => y \in A
    BY <2>1 DEF EndInv, WantsOnly
  <2>3. c \in A /\ parents[c] \subseteq A
    BY <2>1, <2>2 DEF ParentClosed
  <2> QED BY <1>3, <1>4, <1>5, <2>2, <2>3
<1>8. ASSUME Decreasing PROVE LastWant'
  <2>1. Ahead
    BY <1>1, <1>8 DEF ExactInv
  <2>2. \A x \in Commits : generation[x] \in Nat
    BY <1>8 DEF Decreasing
  <2>3. \A x \in done \cup level : generation[c] <= generation[x]
    BY <1>1, <1>2, <2>1, <2>2 DEF Ahead
  <2>4. \A x \in done' \cup level' : generation'[c] <= generation'[x]
    BY <1>1, <1>6, <2>3
  <2> QED BY <1>5, <2>4 DEF LastWant
<1> QED BY <1>7, <1>8

\* A have that takes over the last pending commit leaves it queued.
LEMMA EndVisitHave ==
    ASSUME DInv, EndInv, NEW c \in Commits, Visit(c), disc.state[c] # "want"
    PROVE  WantsOnly' /\ (Decreasing => LastWant')
<1> DEFINE new == Changed(disc, parents[c], "have")
<1>1. /\ pc = "walk" /\ c \in level /\ level' = level \ {c} /\ done' = done \cup {c}
      /\ disc' = Mark(disc, parents[c], "have")
      /\ UNCHANGED <<repoVars, wants, haves, pc, common, bounded, toSend>>
  BY DEF Visit
<1>2. parents[c] \in SUBSET Commits /\ disc \in Discs
  BY DEF DInv, WalkType
<1>3. /\ disc'.state = [q \in Commits |-> IF q \in new THEN "have" ELSE disc.state[q]]
      /\ disc'.frontier = disc.frontier \cup new /\ disc'.pending = disc.pending \ new
  BY <1>1, <1>2, MarkParts
<1> HIDE DEF new
<1>4. UNCHANGED <<generation, parents, wants, Sent, pc>> /\ done' \cup level' = done \cup level
  BY <1>1 DEF repoVars, Sent
<1>5. \A x \in Commits : disc'.state[x] = "want" => disc.state[x] = "want"
  BY <1>3
<1>6. WantsOnly'
  BY <1>4, <1>5 DEF EndInv, WantsOnly, ParentClosed
<1>7. ASSUME Decreasing, disc'.pending = {}, disc'.frontier = {}
      PROVE  \E x \in Sent' : \A d \in done' \cup level' : generation'[x] <= generation'[d]
  <2>1. disc.pending = {} /\ disc.frontier = {}
    BY <1>3, <1>7
  <2> QED BY <1>1, <1>4, <1>7, <2>1 DEF EndInv, LastWant
<1> QED BY <1>6, <1>7 DEF LastWant

\* The walk keeps to the wants of the request.
LEMMA EndStep == ASSUME DInv, ExactInv, EndInv, Step, UNCHANGED asked PROVE EndInv'
<1>1. UNCHANGED <<wants, repoVars>>
  BY DEF Step, MarkHaves, MarkWants, DrainLevel, Visit, Selected
<1>2. Wanted' = Wanted
  BY <1>1 DEF Wanted
<1>3. Decreasing' <=> Decreasing
  BY <1>1 DEF Decreasing, repoVars
<1>4. pc' = "walk" => wants # {}
  BY DEF EndInv, Step, MarkHaves, MarkWants, DrainLevel, Visit, Selected
<1>5. WantsOnly' /\ (Decreasing => LastWant')
  <2>1. CASE MarkHaves \/ MarkWants
    BY <2>1, EndMarks
  <2>2. CASE DrainLevel \/ Selected
    BY <2>2, EndDrain
  <2>3. CASE \E c \in Commits : Visit(c)
    BY <2>3, EndVisitWant, EndVisitHave
  <2> QED BY <2>1, <2>2, <2>3 DEF Step
<1> QED BY <1>1, <1>2, <1>3, <1>4, <1>5 DEF EndInv

\* The planner's own steps: peeling fixes the wants once.
LEMMA EndPlanner ==
    ASSUME FetchInv, EndInv, [PlanNext]_allVars, ~Discover PROVE EndInv'
<1>1. /\ UNCHANGED <<repoVars, disc, level, done, toSend, asked>>
      /\ pc' # "walk" \/ pc' = pc
      /\ wants' = wants \/ Peel
  BY DEF PlanNext, Partition, Peel, StartCollect, ExpandHaves, Classify, CollectNext, WalkTree, AddDirect,
         collectVars, allVars, vars, planVars, Fail
<1>2. UNCHANGED <<parents, generation, Sent>>
  BY <1>1 DEF repoVars, Sent
<1>3. wants \subseteq wants'
  BY <1>1 DEF Peel
<1>4. WantsOnly'
  BY <1>1, <1>2, <1>3 DEF EndInv, WantsOnly, ParentClosed
<1>5. Decreasing' => LastWant'
  BY <1>1, <1>2 DEF EndInv, LastWant, Decreasing
<1>6. wants' = {} \/ wants' = Wanted'
  <2>1. CASE wants' = wants
    <3>1. Wanted' = Wanted
      BY <1>1, <2>1 DEF Wanted
    <3> QED BY <2>1, <3>1 DEF EndInv
  <2>2. CASE Peel /\ wants' # wants
    <3>1. /\ wants' = (asked \cap Commits) \cup {Peeled(t) : t \in asked \cap Tags}
          /\ \A t \in asked \cap Tags : Peeled(t) \in Commits
          /\ wants = {}
      BY <2>2 DEF Peel
    <3>2. asked # {}
      BY <2>2, <3>1
    <3>3. Wanted' = Commits \cap (asked \cup {Peeled(t) : t \in asked \cap Tags})
      BY <1>1, <3>2 DEF Wanted
    <3> QED BY <3>1, <3>3
  <2> QED BY <1>1, <2>1, <2>2
<1>7. pc' = "walk" => wants' # {}
  <2>1. pc' = "walk" => pc = "walk"
    BY <1>1
  <2> QED BY <1>3, <2>1 DEF EndInv
<1> QED BY <1>4, <1>5, <1>6, <1>7 DEF EndInv

\* What the walk has gathered when it ends on an intact repository.
LEMMA WalkAnswers ==
    ASSUME FetchInv, EndInv, Intact, Selected
    PROVE  /\ wants = Wanted /\ wants # {} /\ common = haves \cap stored
           /\ Sent = Ancestry(wants) \ Ancestry(common)
           /\ bounded' = (\A c \in Sent : parents[c] # {})
<1>1. /\ pc = "walk" /\ level = {} /\ disc.pending = {} /\ bounded' = (disc.frontier # {})
  BY DEF Selected
<1>2. DInv /\ ExactInv /\ HoleInv /\ WalkType /\ WantsOnly
  BY DEF FetchInv, DInv, EndInv
<1>3. /\ wants \in SUBSET Commits /\ haves \in SUBSET Commits /\ common \in SUBSET Commits
      /\ done \in SUBSET Commits /\ Sent \subseteq done /\ disc \in Discs
  BY <1>2 DEF DInv, WalkType, WantsTracked
<1>4. wants = Wanted /\ wants # {}
  BY <1>1 DEF EndInv
<1>5. common = haves \cap stored
  <2>1. common \subseteq haves /\ \A h \in haves : h \in common \/ Unknown(h)
    BY <1>1, <1>2 DEF HoleInv
  <2> QED BY <1>3, <2>1 DEF Intact, Unknown
<1>6. Sent \cap Ancestry(common) = {}
  BY <1>2, SparedWhenExact DEF NothingCommonSent, Intact
<1>7. Sent \subseteq Ancestry(wants)
  <2>1. /\ Ancestry(wants) \in SUBSET Commits /\ wants \subseteq Ancestry(wants)
        /\ ParentClosed(Ancestry(wants))
    BY <1>2, <1>3, AncestryLeast
  <2> QED BY <1>2, <1>3, <2>1 DEF WantsOnly
<1>8. Ancestry(wants) \subseteq Sent \cup Ancestry(common)
  <2> DEFINE A == Ancestry(common)
  <2>1. A \in SUBSET Commits /\ common \subseteq A /\ ParentClosed(A)
    BY <1>2, <1>3, AncestryLeast
  <2> HIDE DEF A
  <2>2. Marked \subseteq Sent \cup A
    BY <1>1, <1>2, <1>3, <2>1 DEF DInv, Discs, WantsTracked, HavesHeld, Marked
  <2>3. wants \subseteq Sent \cup A
    BY <1>1, <1>2, <2>2 DEF DInv, WantsTracked
  <2>4. ParentClosed(Sent \cup A)
    BY <1>2, <2>1, <2>2 DEF DInv, WantsTracked, ParentClosed
  <2>5. Ancestry(wants) \subseteq Sent \cup A
    BY <1>2, <1>3, <2>1, <2>3, <2>4, AncestryLeast
  <2> QED BY <2>5 DEF A
<1>9. /\ Decreasing /\ \A c \in Commits : generation[c] \in Nat /\ generation[c] >= 1
      /\ \A c \in Commits : parents[c] = {} => generation[c] = 1
  <2>1. Numbered(parents)
    BY <1>2 DEF WalkType, Numbered
  <2> QED BY <2>1, ExactDecreases DEF Intact, Decreasing
<1>10. Ahead
  BY <1>1, <1>2, <1>9 DEF ExactInv
<1>11. ASSUME NEW f \in disc.frontier, NEW c \in Sent PROVE parents[c] # {}
  <2>1. f \in Commits /\ c \in Commits /\ generation[f] < generation[c]
    BY <1>3, <1>10 DEF Ahead, Discs
  <2> QED BY <1>9, <2>1
<1>12. ASSUME disc.frontier = {} PROVE \E c \in Sent : parents[c] = {}
  <2>1. PICK c \in Sent : \A d \in done \cup level : generation[c] <= generation[d]
    BY <1>1, <1>9, <1>12 DEF EndInv, LastWant
  <2>2. ASSUME NEW q \in parents[c] PROVE FALSE
    <3>1. c \in Commits /\ q \in Commits /\ generation[q] < generation[c] /\ q \in Marked
      BY <1>2, <1>3, <1>9 DEF WalkType, Decreasing, DInv, WantsTracked, Marked
    <3>2. q \notin done
      BY <1>9, <2>1, <3>1
    <3>3. disc.state[q] = "want" => q \in Sent
      BY <1>1, <1>2, <3>1 DEF DInv, WantsTracked
    <3>4. disc.state[q] = "have"
      BY <1>3, <3>1, <3>2, <3>3 DEF Marked, Discs
    <3> QED BY <1>1, <1>10, <1>12, <3>1, <3>2, <3>4 DEF Ahead
  <2> QED BY <2>2
<1>13. bounded' = (\A c \in Sent : parents[c] # {})
  <2>1. CASE disc.frontier = {}
    BY <1>1, <1>12, <2>1
  <2>2. CASE disc.frontier # {}
    <3>1. \A c \in Sent : parents[c] # {}
      BY <1>11, <2>2
    <3> QED BY <1>1, <2>2, <3>1
  <2> QED BY <2>1, <2>2
<1> QED BY <1>4, <1>5, <1>6, <1>7, <1>8, <1>13

\* On an intact repository a plan that has its walk behind it does not fail.
LEMMA IntactCollects ==
    ASSUME FetchInv, Intact,
           StartCollect \/ ExpandHaves \/ Classify \/ CollectNext \/ WalkTree \/ AddDirect
    PROVE  pc \in Settled /\ pc' \in Settled
<1>1. /\ trees \subseteq Trees /\ Sent \subseteq Commits
      /\ \A o \in Commits \cup Trees \cup Blobs : Present(o)
  <2>1. trees \subseteq Trees /\ Sent \subseteq Commits
    BY DEF FetchInv, PInv, PlanType, DInv, WalkType, WantsTracked
  <2>2. \A o \in Commits \cup Trees \cup Blobs : Present(o)
    BY DEF Present, Intact
  <2> QED BY <2>1, <2>2
<1>2. \A t \in trees : Present(t)
  BY <1>1
<1>3. \A c \in ToSet(toSend) : Present(c)
  BY <1>1 DEF Sent
<1>4. \A b \in Leaves(trees) : Present(b)
  BY <1>1 DEF Leaves
<1>5. CASE StartCollect \/ AddDirect \/ CollectNext
  BY <1>5 DEF StartCollect, AddDirect, CollectNext, Settled
<1>6. CASE ExpandHaves
  BY <1>2, <1>6 DEF ExpandHaves, Settled
<1>7. CASE Classify
  BY <1>3, <1>7 DEF Classify, Settled
<1>8. CASE WalkTree
  BY <1>2, <1>4, <1>8 DEF WalkTree, Settled
<1> QED BY <1>5, <1>6, <1>7, <1>8

\* Every step of plan_pack is the one step of Selection, or changes nothing
\* that Selection speaks of.
LEMMA StepSelects ==
    ASSUME FetchInv, EndInv, EndInv', [PlanNext]_allVars
    PROVE  [Promise!Select]_(Promise!selectionVars)
<1>1. /\ UNCHANGED <<parents, generation, stored, haves, asked, lost>>
  BY DEF PlanNext, Discover, Step, MarkHaves, MarkWants, DrainLevel, Visit, Selected, Partition, Peel,
         StartCollect, ExpandHaves, Classify, CollectNext, WalkTree, AddDirect,
         collectVars, repoVars, allVars, vars, planVars
<1>2. Intact' <=> Intact
  BY <1>1 DEF Intact
<1>3. Wanted' = Wanted
  <2>1. CASE asked # {}
    BY <1>1, <2>1 DEF Wanted
  <2>2. CASE asked = {}
    <3>1. wants' = wants
      BY <2>2 DEF PlanNext, Discover, Step, MarkHaves, MarkWants, DrainLevel, Visit, Selected, Partition,
         Peel, StartCollect, ExpandHaves, Classify, CollectNext, WalkTree, AddDirect,
         collectVars, allVars, vars
    <3> QED BY <1>1, <2>2, <3>1 DEF Wanted
  <2> QED BY <2>1, <2>2
<1>4. SUFFICES ASSUME Outcome' # Outcome PROVE Promise!Select
  BY <1>1, <1>3 DEF Promise!selectionVars
<1>5. Intact
  BY <1>2, <1>4 DEF Outcome
<1>6. CASE Discover /\ Selected
  <2>1. /\ pc = "walk" /\ pc' = "selected" /\ UNCHANGED <<wants, common, toSend>> /\ Sent' = Sent
    BY <1>6 DEF Selected, Sent
  <2>2. /\ wants = Wanted /\ wants # {} /\ common = haves \cap stored
        /\ Sent = Ancestry(wants) \ Ancestry(common)
        /\ bounded' = (\A c \in Sent : parents[c] # {})
    BY <1>5, <1>6, WalkAnswers
  <2>3. Outcome = NoSelection /\ Outcome' = [common |-> common, sent |-> Sent, bounded |-> bounded']
    BY <1>2, <1>5, <2>1, <2>2 DEF Outcome
  <2>4. \A S : Promise!Reach(parents, S) = Ancestry(S)
    BY DEF Promise!Reach, Ancestry
  <2>5. Promise!SentFor(parents, Wanted, haves \cap stored) = Sent
    BY <2>2, <2>4 DEF Promise!SentFor
  <2>6. Promise!BoundedFor(parents, Wanted, haves \cap stored) = bounded'
    BY <2>2, <2>5 DEF Promise!BoundedFor
  <2> QED BY <1>1, <1>3, <2>2, <2>3, <2>5, <2>6 DEF Promise!Select
<1>7. ASSUME ~(Discover /\ Selected) PROVE FALSE
  <2>1. CASE StartCollect \/ ExpandHaves \/ Classify \/ CollectNext \/ WalkTree \/ AddDirect
    <3>1. pc \in Settled /\ pc' \in Settled
      BY <1>5, <2>1, IntactCollects
    <3>2. UNCHANGED <<wants, common, toSend, bounded>> /\ Sent' = Sent
      BY <2>1 DEF StartCollect, ExpandHaves, Classify, CollectNext, WalkTree, AddDirect, collectVars, Sent
    <3> QED BY <1>2, <1>4, <3>1, <3>2 DEF Outcome, Settled
  <2>2. CASE UNCHANGED allVars
    BY <1>2, <1>4, <2>2 DEF allVars, vars, Outcome, Sent
  <2>3. CASE Discover \/ Peel
    <3>1. pc \notin Settled /\ pc' \notin Settled
      BY <1>7, <2>3 DEF Discover, Step, MarkHaves, MarkWants, DrainLevel, Visit, Peel, Fail, Settled
    <3> QED BY <1>4, <3>1 DEF Outcome, Settled
  <2>4. CASE Partition
    <3>1. pc = "partition" /\ wants' = wants /\ wants = {}
      BY <2>4 DEF Partition, FetchInv, DInv, HavesHeld
    <3> QED BY <1>4, <3>1 DEF Outcome
  <2> QED BY <2>1, <2>2, <2>3, <2>4 DEF PlanNext
<1> QED BY <1>6, <1>7

-----------------------------------------------------------------------------
(* The theorems                                                            *)

\* For every commit graph and whatever generations its records hold, the walk
\* of select_commits never stalls, and a selection it returns, put together
\* with what the client has, holds the wants and all their ancestors.
THEOREM SelectionIsComplete == Spec => []DiscoveryComplete
<1>1. Init => DInv
  <2> SUFFICES ASSUME Init PROVE DInv
    OBVIOUS
  <2>1. InitRepository /\ InitWalk /\ pc = "haves" /\ bound \in DOMAIN Bounds
    BY DEF Init, InitRepository
  <2>2. wants \in SUBSET (1..Bounds[bound].commits) /\ haves \in SUBSET (1..Bounds[bound].commits)
    BY DEF Init, AtMost
  <2>3. wants \in SUBSET Commits /\ haves \in SUBSET Commits
    BY <2>1, <2>2, DiscoveryAssumption DEF Commits
  <2> QED BY <2>1, <2>3, StartEstablishes
<1> QED BY <1>1, StepPreserves, InvImpliesComplete, PTL DEF Spec

\* The inductive invariant of plan_pack: the walk's, and that what expand_haves
\* and collect_inner have gathered is whole up to the work that is left.
THEOREM FetchInvariant == PlanSpec => []FetchInv
<1>1. PlanInit => FetchInv
  BY PlanInitEstablishes DEF FetchInv
<1> QED BY <1>1, FetchStep, PTL DEF PlanSpec

\* Within plan_pack too, where tags are peeled and wants are split off before
\* the walk, the walk of select_commits neither stalls nor leaves a gap.
THEOREM PlannedWalkIsComplete == PlanSpec => []DiscoveryComplete
<1>1. FetchInv => DiscoveryComplete
  BY InvImpliesComplete DEF FetchInv
<1> QED BY <1>1, FetchInvariant, PTL

\* plan_pack packs all that a client with the recognised haves lacks of what
\* it asked for, filter applied, never drops an object asked for by id, sends
\* no tree or blob of a snapshot the client has and, while the recorded
\* generations are exact, no commit it has.
THEOREM PlansAreExact == PlanSpec => []PlanExact
<1>1. FetchInv => PlanExact
  <2> SUFFICES ASSUME FetchInv PROVE PlanExact
    OBVIOUS
  <2>1. NothingCommonSent
    BY SparedWhenExact DEF FetchInv
  <2> QED BY <2>1, PlanTyped, PlanComplete DEF PlanExact
<1> QED BY <1>1, FetchInvariant, PTL

\* select_commits and plan_pack report an error only over a want that is not
\* there or peels to no commit, or over an object missing from storage; and
\* a have is passed over only when the server does not know it.
THEOREM FailuresAreExplained == PlanSpec => []FailuresExplained
<1>1. FetchInv => FailuresExplained
  BY FailureCause
<1> QED BY <1>1, FetchInvariant, PTL

\* plan_pack implements Selection while the repository is intact: of the
\* commits that the peeled wants reach, select_commits sends exactly those no
\* recognised have reaches, and bounded_by_haves is true exactly when the haves
\* kept the walk from sending a root; collecting the objects never goes back
\* on that answer.
THEOREM PlanImplementsSelection == PlanSpec => ImplementsSelection
<1>1. PlanInit => FetchInv /\ EndInv /\ Outcome = NoSelection
  <2> SUFFICES ASSUME PlanInit PROVE FetchInv /\ EndInv /\ Outcome = NoSelection
    OBVIOUS
  <2>1. FetchInv
    BY PlanInitEstablishes DEF FetchInv
  <2>2. pc = "partition" /\ wants = {} /\ Sent = {} /\ disc.state = [c \in Commits |-> "none"]
    BY DEF PlanInit, InitWalk, Sent, ToSet
  <2>3. EndInv
    BY <2>2 DEF EndInv, WantsOnly, LastWant
  <2>4. Outcome = NoSelection
    BY <2>2 DEF Outcome
  <2> QED BY <2>1, <2>3, <2>4
<1>2. FetchInv /\ EndInv /\ [PlanNext]_allVars => EndInv'
  <2> SUFFICES ASSUME FetchInv, EndInv, [PlanNext]_allVars PROVE EndInv'
    OBVIOUS
  <2>1. CASE Discover
    <3>1. Step /\ UNCHANGED asked
      BY <2>1 DEF Discover, planVars
    <3> QED BY <3>1, EndStep DEF FetchInv
  <2>2. CASE ~Discover
    BY <2>2, EndPlanner
  <2> QED BY <2>1, <2>2
<1>3. FetchInv /\ EndInv /\ EndInv' /\ [PlanNext]_allVars => [Promise!Select]_(Promise!selectionVars)
  BY StepSelects
<1> QED BY <1>1, <1>2, <1>3, FetchStep, PTL DEF PlanSpec, ImplementsSelection, Promise!SelectionSpec
=============================================================================
