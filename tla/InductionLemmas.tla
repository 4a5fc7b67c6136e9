--------------------------- MODULE InductionLemmas ---------------------------
(***************************************************************************)
(* Induction over the naturals for a property given as a set, and what     *)
(* follows from it for the operators the models compute with.              *)
(***************************************************************************)
EXTENDS Integers, Sequences, SequencesExt, FiniteSetsExt, NaturalsInduction, FiniteSetTheorems,
        SequenceTheorems, TLAPS

\* Every non-empty set of naturals has a least element.  (The numbers that the
\* code counts with: queue positions, cache sizes, generations.)
LEMMA LeastNat ==
    ASSUME NEW T \in SUBSET Nat, T # {}
    PROVE  \E x \in T : \A y \in T : x <= y
<1> DEFINE R == {p \in Nat \X Nat : p[1] < p[2]}
<1>1. IsWellFoundedOn(R, Nat)
  BY NatLessThanWellFounded DEF OpToRel
<1> HIDE DEF R
<1>2. PICK x \in T : \A y \in T : ~(<<y, x>> \in R)
  BY <1>1, WFMin
<1>3. \A y \in T : ~(y < x)
  BY <1>2 DEF R
<1> QED BY <1>3

\* Induction, the property given as the set of the numbers that have it.
LEMMA Induction ==
    ASSUME NEW T \in SUBSET Nat, 0 \in T, \A n \in T : n + 1 \in T
    PROVE  T = Nat
<1> SUFFICES ASSUME Nat \ T # {} PROVE FALSE
  OBVIOUS
<1>1. PICK x \in Nat \ T : \A y \in Nat \ T : x <= y
  BY LeastNat
<1>2. x - 1 \in Nat /\ x - 1 \notin Nat \ T
  BY <1>1
<1> QED BY <1>1, <1>2

\* Max of a finite set of naturals is its largest member: what the highest
\* parent generation is.
LEMMA MaxNat ==
    ASSUME NEW S \in SUBSET Nat, IsFiniteSet(S), S # {}
    PROVE  Max(S) \in S /\ \A y \in S : Max(S) >= y
<1> DEFINE Good(n) == \A U \in SUBSET Nat : IsFiniteSet(U) /\ Cardinality(U) = n + 1 =>
                         \E x \in U : \A y \in U : x >= y
           T == {n \in Nat : Good(n)}
<1>1. Good(0)
  <2> SUFFICES ASSUME NEW U \in SUBSET Nat, IsFiniteSet(U), Cardinality(U) = 0 + 1
               PROVE  \E x \in U : \A y \in U : x >= y
    OBVIOUS
  <2>1. Cardinality(U) = 1
    OBVIOUS
  <2>2. \E x : U = {x}
    BY <2>1, FS_Singleton
  <2> QED BY <2>2
<1>2. ASSUME NEW n \in T PROVE Good(n + 1)
  <2> SUFFICES ASSUME NEW U \in SUBSET Nat, IsFiniteSet(U), Cardinality(U) = n + 1 + 1
               PROVE  \E x \in U : \A y \in U : x >= y
    OBVIOUS
  <2>0. Cardinality(U) # 0 /\ Cardinality(U) - 1 = n + 1
    OBVIOUS
  <2>1. PICK u \in U : TRUE
    BY <2>0, FS_EmptySet
  <2>2. IsFiniteSet(U \ {u}) /\ Cardinality(U \ {u}) = n + 1
    BY <2>0, FS_RemoveElement
  <2>3. PICK x \in U \ {u} : \A y \in U \ {u} : x >= y
    BY <2>2
  <2> QED BY <2>3
<1>3. T = Nat
  <2>1. 0 \in T /\ \A n \in T : n + 1 \in T
    BY <1>1, <1>2
  <2> HIDE DEF T
  <2> QED BY <2>1, Induction DEF T
<1>4. Cardinality(S) - 1 \in Nat /\ (Cardinality(S) - 1) + 1 = Cardinality(S)
  BY FS_CardinalityType, FS_EmptySet
<1>6. \E x \in S : \A y \in S : x >= y
  BY <1>3, <1>4
<1> QED BY <1>6 DEF Max

\* The values of a function with a finite domain, such as a sequence.
LEMMA FiniteImage ==
    ASSUME NEW S, IsFiniteSet(S), NEW f, f = [x \in S |-> f[x]]
    PROVE  IsFiniteSet({f[x] : x \in S})
<1> DEFINE T == {f[x] : x \in S}
<1>1. f \in [S -> T] /\ \A t \in T : \E s \in S : f[s] = t
  OBVIOUS
<1> HIDE DEF T
<1>2. f \in Surjection(S, T)
  BY <1>1 DEF Surjection
<1> QED BY <1>2, FS_Surjection DEF T

\* SetToSeq lists the members of a finite set.
LEMMA ListedSet ==
    ASSUME NEW S, IsFiniteSet(S)
    PROVE  SetToSeq(S) \in Seq(S) /\ IsInjective(SetToSeq(S)) /\ ToSet(SetToSeq(S)) = S
<1> DEFINE n == Cardinality(S)
<1>1. n \in Nat /\ ExistsBijection(1..n, S)
  BY FS_CardinalityType
<1>2. PICK b \in [1..n -> S] : IsInjective(b)
  BY <1>1 DEF ExistsBijection, Bijection, Injection, IsInjective
<1>3. SetToSeq(S) \in [1..n -> S] /\ IsInjective(SetToSeq(S))
  BY <1>2 DEF SetToSeq
<1>4. PICK f : f = SetToSeq(S)
  OBVIOUS
<1> HIDE DEF n
<1>5. f \in Injection(1..n, S)
  BY <1>3, <1>4 DEF Injection, IsInjective
<1>6. IsFiniteSet(1..n) /\ Cardinality(1..n) = n
  <2>1. n \in Int /\ 1 \in Int /\ (IF 1 > n THEN 0 ELSE n - 1 + 1) = n
    BY <1>1
  <2> QED BY <2>1, FS_Interval
<1>7. f \in Surjection(1..n, S)
  BY <1>5, <1>6, FS_Injection DEF n
<1>8. f \in Seq(S) /\ DOMAIN f = 1..n
  BY <1>1, <1>3, <1>4
<1>9. ToSet(f) = S
  BY <1>3, <1>4, <1>7 DEF Surjection, ToSet
<1> QED BY <1>3, <1>4, <1>8, <1>9

\* f iterates the step D, a function of the position and the value, from x.
Iterates(f, S, x, D) ==
    f \in [Nat -> S] /\ f[0] = x /\ \A n \in Nat : f[n + 1] = D[<<n, f[n]>>]

\* Definition by recursion: every step can be iterated.
LEMMA Recursion ==
    ASSUME NEW S, NEW x \in S, NEW D \in [Nat \X S -> S]
    PROVE  \E f : Iterates(f, S, x, D)
<1> DEFINE Part(f, n) == /\ f \in [0..n -> S] /\ f[0] = x
                         /\ \A k \in Nat : k + 1 \in 0..n => f[k + 1] = D[<<k, f[k]>>]
           Has(n) == \E f : Part(f, n)
           T == {n \in Nat : Has(n)}
<1>1. Has(0)
  <2>1. Part([k \in 0..0 |-> x], 0)
    OBVIOUS
  <2> QED BY <2>1
<1>2. ASSUME NEW n \in Nat, Has(n) PROVE Has(n + 1)
  <2>1. PICK f : Part(f, n)
    BY <1>2
  <2> DEFINE h == [k \in 0..(n + 1) |-> IF k = n + 1 THEN D[<<n, f[n]>>] ELSE f[k]]
  <2>2. f[n] \in S
    BY <2>1
  <2>3. D[<<n, f[n]>>] \in S
    BY <2>2
  <2>4. h \in [0..(n + 1) -> S] /\ h[0] = x
    BY <2>1, <2>3
  <2>5. ASSUME NEW k \in Nat, k + 1 \in 0..(n + 1) PROVE h[k + 1] = D[<<k, h[k]>>]
    <3>1. CASE k = n
      <4>1. n \in 0..(n + 1) /\ n + 1 \in 0..(n + 1) /\ n # n + 1
        OBVIOUS
      <4>2. h[n + 1] = D[<<n, f[n]>>] /\ h[n] = f[n]
        BY <4>1
      <4> HIDE DEF h
      <4> QED BY <3>1, <4>2
    <3>2. CASE k # n
      <4>1. k + 1 \in 0..n /\ k \in 0..n
        BY <2>5, <3>2
      <4>2. h[k + 1] = f[k + 1] /\ h[k] = f[k]
        BY <4>1
      <4> QED BY <2>1, <4>1, <4>2
    <3> QED BY <3>1, <3>2
  <2>6. Part(h, n + 1)
    BY <2>4, <2>5
  <2> QED BY <2>6
<1>3. T = Nat
  <2>1. 0 \in T /\ \A n \in T : n + 1 \in T
    <3> HIDE DEF Has
    <3> QED BY <1>1, <1>2
  <2> HIDE DEF T
  <2> QED BY <2>1, Induction DEF T
<1>4. ASSUME NEW n \in Nat, NEW m \in Nat, NEW f, NEW h, Part(f, n), Part(h, m)
      PROVE  \A k \in Nat : k \in 0..n /\ k \in 0..m => f[k] = h[k]
  <2> DEFINE U == {k \in Nat : k \in 0..n /\ k \in 0..m => f[k] = h[k]}
  <2>1. 0 \in U
    BY <1>4
  <2>2. ASSUME NEW k \in U PROVE k + 1 \in U
    <3> SUFFICES ASSUME k + 1 \in 0..n, k + 1 \in 0..m PROVE f[k + 1] = h[k + 1]
      OBVIOUS
    <3>1. f[k] = h[k] /\ k \in Nat
      OBVIOUS
    <3> HIDE DEF U
    <3> QED BY <1>4, <3>1
  <2> HIDE DEF U
  <2>3. U = Nat
    BY <2>1, <2>2, Induction DEF U
  <2> QED BY <2>3 DEF U
<1> DEFINE P(n) == CHOOSE f : Part(f, n)
           F == [n \in Nat |-> P(n)[n]]
<1>5. ASSUME NEW n \in Nat PROVE Part(P(n), n)
  <2>1. Has(n)
    BY <1>3
  <2> HIDE DEF Part
  <2> QED BY <2>1
<1> HIDE DEF P
<1>6. ASSUME NEW n \in Nat PROVE P(n)[n] \in S
  BY <1>5
<1>7. F \in [Nat -> S] /\ F[0] = x
  BY <1>5, <1>6
<1>8. ASSUME NEW n \in Nat PROVE F[n + 1] = D[<<n, F[n]>>]
  <2>1. Part(P(n), n) /\ Part(P(n + 1), n + 1)
    BY <1>5
  <2>2. P(n)[n] = P(n + 1)[n]
    <3> HIDE DEF Part
    <3> QED BY <1>4, <2>1
  <2>3. P(n + 1)[n + 1] = D[<<n, P(n + 1)[n]>>]
    BY <2>1
  <2> QED BY <2>2, <2>3
<1>9. Iterates(F, S, x, D)
  BY <1>7, <1>8 DEF Iterates
<1> QED BY <1>9

\* F computes the value at a number from the values at smaller numbers.
LooksDown(T, S, F) ==
    \A c \in T : \A f, h \in [T -> S] :
        (\A q \in T : q < c => f[q] = h[q]) => F[<<c, f>>] = F[<<c, h>>]

\* f satisfies the recursion.
Solves(f, T, S, F) == f \in [T -> S] /\ \A c \in T : f[c] = F[<<c, f>>]

\* Definition by recursion over numbered things (commits, trees, tags: what
\* they name has a smaller number).
LEMMA NumberedRecursion ==
    ASSUME NEW T \in SUBSET Nat, NEW M \in Nat, \A c \in T : c <= M,
           NEW S, NEW s \in S, NEW F \in [T \X [T -> S] -> S], LooksDown(T, S, F)
    PROVE  \E f : Solves(f, T, S, F)
<1> DEFINE Below(n) == \E f \in [T -> S] : \A c \in T : c < n => f[c] = F[<<c, f>>]
           U == {n \in Nat : Below(n)}
<1>1. Below(0)
  <2>1. [c \in T |-> s] \in [T -> S] /\ \A c \in T : ~(c < 0)
    OBVIOUS
  <2> QED BY <2>1
<1>2. ASSUME NEW n \in Nat, Below(n) PROVE Below(n + 1)
  <2>1. PICK f \in [T -> S] : \A c \in T : c < n => f[c] = F[<<c, f>>]
    BY <1>2
  <2>2. CASE n \notin T
    <3>1. \A c \in T : c < n + 1 => c < n
      BY <2>2
    <3> QED BY <2>1, <3>1
  <2>3. CASE n \in T
    <3> DEFINE h == [f EXCEPT ![n] = F[<<n, f>>]]
    <3>1. F[<<n, f>>] \in S
      BY <2>3
    <3>2. h \in [T -> S] /\ h[n] = F[<<n, f>>] /\ \A q \in T : q # n => h[q] = f[q]
      BY <2>3, <3>1
    <3> HIDE DEF h
    <3>3. ASSUME NEW c \in T, c < n + 1 PROVE h[c] = F[<<c, h>>]
      <4>1. \A q \in T : q < c => f[q] = h[q]
        BY <3>2, <3>3
      <4>2. F[<<c, f>>] = F[<<c, h>>]
        <5>1. \A k \in [T -> S] : (\A q \in T : q < c => f[q] = k[q]) => F[<<c, f>>] = F[<<c, k>>]
          BY DEF LooksDown
        <5> QED BY <3>2, <4>1, <5>1
      <4>3. c = n \/ c < n
        <5>1. c \in Nat
          OBVIOUS
        <5> QED BY <3>3, <5>1
      <4> QED BY <2>1, <3>2, <4>2, <4>3
    <3> QED BY <3>2, <3>3
  <2> QED BY <2>2, <2>3
<1>3. U = Nat
  <2>1. 0 \in U /\ \A n \in U : n + 1 \in U
    <3> HIDE DEF Below
    <3> QED BY <1>1, <1>2
  <2> HIDE DEF U
  <2> QED BY <2>1, Induction DEF U
<1>4. Below(M + 1)
  <2>1. M + 1 \in Nat
    OBVIOUS
  <2> HIDE DEF Below
  <2> QED BY <1>3, <2>1
<1>5. \A c \in T : c < M + 1
  OBVIOUS
<1>6. PICK f \in [T -> S] : \A c \in T : c < M + 1 => f[c] = F[<<c, f>>]
  BY <1>4
<1>7. Solves(f, T, S, F)
  BY <1>5, <1>6 DEF Solves
<1> QED BY <1>7

\* A finite graph whose edges lead to smaller numbers, as those from a commit
\* to its parents do, the sets its edges stay in, and what is reached in it.
NumberedIn(C, p) ==
    /\ C \in SUBSET Nat /\ \E M \in Nat : \A c \in C : c <= M
    /\ p \in [C -> SUBSET C] /\ \A c \in C : \A q \in p[c] : q < c

ClosedUnder(p, A) == \A c \in A : p[c] \subseteq A

ReachIn(C, p, S) ==
    LET a[c \in C] == {c} \cup UNION {a[q] : q \in p[c]}
    IN UNION {a[c] : c \in S}

\* The recursion behind ReachIn has a solution.
LEMMA ReachSets ==
    ASSUME NEW C, NEW p, NumberedIn(C, p)
    PROVE  \E a : a = [c \in C |-> {c} \cup UNION {a[q] : q \in p[c]}]
<1> DEFINE S == SUBSET C
           F == [x \in C \X [C -> S] |-> {x[1]} \cup UNION {x[2][q] : q \in p[x[1]]}]
<1>1. C \in SUBSET Nat /\ \E M \in Nat : \A c \in C : c <= M
  BY DEF NumberedIn
<1>0. PICK M \in Nat : \A c \in C : c <= M
  BY <1>1
<1>2. ASSUME NEW c \in C, NEW f \in [C -> S]
      PROVE  /\ F[<<c, f>>] = {c} \cup UNION {f[q] : q \in p[c]}
             /\ {c} \cup UNION {f[q] : q \in p[c]} \in S
  <2>1. p[c] \in SUBSET C
    BY DEF NumberedIn
  <2>2. \A q \in p[c] : f[q] \in SUBSET C
    BY <2>1
  <2> QED BY <2>1, <2>2
<1>3. F \in [C \X [C -> S] -> S]
  <2>1. ASSUME NEW x \in C \X [C -> S] PROVE {x[1]} \cup UNION {x[2][q] : q \in p[x[1]]} \in S
    <3>1. PICK c \in C, f \in [C -> S] : x = <<c, f>>
      OBVIOUS
    <3>2. p[c] \subseteq C /\ \A q \in p[c] : f[q] \in SUBSET C
      BY DEF NumberedIn
    <3>3. x[1] = c /\ x[2] = f
      BY <3>1
    <3> QED BY <3>2, <3>3
  <2> QED BY <2>1
<1> HIDE DEF F
<1>4. LooksDown(C, S, F)
  <2> SUFFICES ASSUME NEW c \in C, NEW f \in [C -> S], NEW h \in [C -> S],
                      \A q \in C : q < c => f[q] = h[q]
               PROVE  F[<<c, f>>] = F[<<c, h>>]
    BY DEF LooksDown
  <2>1. \A q \in p[c] : f[q] = h[q]
    BY DEF NumberedIn
  <2>2. {f[q] : q \in p[c]} = {h[q] : q \in p[c]}
    BY <2>1
  <2>3. F[<<c, f>>] = {c} \cup UNION {f[q] : q \in p[c]}
    BY <1>2
  <2>4. F[<<c, h>>] = {c} \cup UNION {h[q] : q \in p[c]}
    BY <1>2
  <2> QED BY <2>2, <2>3, <2>4
<1>5. PICK f \in [C -> S] : \A c \in C : f[c] = F[<<c, f>>]
  <2>1. {} \in S
    OBVIOUS
  <2> HIDE DEF S
  <2>2. \E f : Solves(f, C, S, F)
    BY <1>0, <1>1, <1>3, <1>4, <2>1, NumberedRecursion
  <2> QED BY <2>2 DEF Solves
<1>6. f = [c \in C |-> {c} \cup UNION {f[q] : q \in p[c]}]
  BY <1>2, <1>5
<1> QED BY <1>6

\* What is reached from S, an ancestry, is the least closed set that holds S.
LEMMA ReachFacts ==
    ASSUME NEW C, NEW p, NumberedIn(C, p), NEW S \in SUBSET C
    PROVE  /\ ReachIn(C, p, S) \in SUBSET C
           /\ S \subseteq ReachIn(C, p, S)
           /\ ClosedUnder(p, ReachIn(C, p, S))
           /\ \A A \in SUBSET C : S \subseteq A /\ ClosedUnder(p, A) => ReachIn(C, p, S) \subseteq A
<1> DEFINE Line(f, c) == {c} \cup UNION {f[q] : q \in p[c]}
           a[c \in C] == {c} \cup UNION {a[q] : q \in p[c]}
<1>1. \E f : f = [c \in C |-> Line(f, c)]
  <2>1. \E f : f = [c \in C |-> {c} \cup UNION {f[q] : q \in p[c]}]
    BY ReachSets
  <2> QED BY <2>1
<1>2. a = [c \in C |-> Line(a, c)]
  BY <1>1
<1>3. ReachIn(C, p, S) = UNION {a[c] : c \in S}
  BY DEF ReachIn
<1> HIDE DEF a
<1>4. PICK u : ReachIn(C, p, S) = UNION {u[c] : c \in S} /\ u = [c \in C |-> Line(u, c)]
  <2> HIDE DEF Line
  <2> QED BY <1>2, <1>3
<1>5. \A c \in C : u[c] = {c} \cup UNION {u[q] : q \in p[c]}
  <2>1. \A c \in C : u[c] = Line(u, c)
    <3> HIDE DEF Line
    <3> QED BY <1>4
  <2> QED BY <2>1
<1> HIDE DEF Line
<1>6. C \in SUBSET Nat
  BY DEF NumberedIn
<1>7. ASSUME NEW A \in SUBSET C, ClosedUnder(p, A) PROVE \A c \in A : u[c] \subseteq A
  <2> DEFINE Bad == {c \in A : ~(u[c] \subseteq A)}
  <2> SUFFICES ASSUME Bad # {} PROVE FALSE
    OBVIOUS
  <2>1. PICK c \in Bad : \A d \in Bad : c <= d
    BY <1>6, LeastNat
  <2>2. p[c] \subseteq A /\ \A q \in p[c] : q < c /\ q \in Nat /\ c \in Nat
    BY <1>6, <1>7 DEF ClosedUnder, NumberedIn
  <2>3. \A q \in p[c] : q \notin Bad
    BY <2>1, <2>2
  <2>4. \A q \in p[c] : u[q] \subseteq A
    BY <2>2, <2>3
  <2> QED BY <1>5, <2>4
<1>8. \A c \in C : c \in u[c] /\ u[c] \subseteq C
  <2>1. C \in SUBSET C /\ ClosedUnder(p, C)
    BY DEF ClosedUnder, NumberedIn
  <2> QED BY <1>5, <1>7, <2>1
<1>9. \A c \in C : ClosedUnder(p, u[c])
  <2> DEFINE Bad == {c \in C : ~ClosedUnder(p, u[c])}
  <2> SUFFICES ASSUME Bad # {} PROVE FALSE
    OBVIOUS
  <2>1. PICK c \in Bad : \A d \in Bad : c <= d
    BY <1>6, LeastNat
  <2>2. p[c] \subseteq C /\ \A q \in p[c] : q < c /\ q \in Nat /\ c \in Nat
    BY <1>6 DEF NumberedIn
  <2>3. \A q \in p[c] : q \notin Bad
    BY <2>1, <2>2
  <2>4. \A q \in p[c] : ClosedUnder(p, u[q])
    BY <2>2, <2>3
  <2>5. p[c] \subseteq u[c] /\ \A q \in p[c] : u[q] \subseteq u[c]
    BY <1>5, <1>8, <2>2
  <2>6. ClosedUnder(p, u[c])
    BY <1>5, <2>4, <2>5 DEF ClosedUnder
  <2> QED BY <2>6
<1> QED BY <1>4, <1>7, <1>8, <1>9 DEF ClosedUnder

\* The sum of g over a finite set: what cache_size_bytes is of the booked
\* sizes.
Total(g, S) == FoldSet(LAMBDA f, n : n + g[f], 0, S)

\* it is the recursion behind Total.
Chosen(s) == CHOOSE x \in s : TRUE

Summing(it, S, g) ==
    it = [s \in SUBSET S |-> IF s = {} THEN 0 ELSE it[s \ {Chosen(s)}] + g[Chosen(s)]]

LEMMA AnyFacts ==
    ASSUME NEW s, IsFiniteSet(s), s # {}
    PROVE  /\ Chosen(s) \in s /\ IsFiniteSet(s \ {Chosen(s)})
           /\ Cardinality(s) \in Nat /\ Cardinality(s \ {Chosen(s)}) = Cardinality(s) - 1
<1>1. Chosen(s) \in s
  BY DEF Chosen
<1> QED BY <1>1, FS_RemoveElement, FS_CardinalityType

\* The recursion has a solution.
LEMMA SumExists ==
    ASSUME NEW S, IsFiniteSet(S), NEW g
    PROVE  \E it : Summing(it, S, g)
<1> DEFINE Line(f, s) == IF s = {} THEN 0 ELSE f[s \ {Chosen(s)}] + g[Chosen(s)]
           Upto(n) == \E f : \A s \in SUBSET S : Cardinality(s) <= n => f[s] = Line(f, s)
           T == {n \in Nat : Upto(n)}
<1>0. \A s \in SUBSET S : IsFiniteSet(s) /\ Cardinality(s) \in Nat /\ Cardinality(s) <= Cardinality(S)
                          /\ (Cardinality(s) = 0 <=> s = {})
  BY FS_Subset, FS_CardinalityType, FS_EmptySet
<1>1. Upto(0)
  <2> DEFINE f == [s \in SUBSET S |-> 0]
  <2>1. \A s \in SUBSET S : Cardinality(s) <= 0 => s = {} /\ f[s] = 0
    BY <1>0
  <2>2. \A s \in SUBSET S : Cardinality(s) <= 0 => f[s] = Line(f, s)
    BY <2>1
  <2> HIDE DEF f, Line
  <2> QED BY <2>2
<1>2. ASSUME NEW n \in Nat, Upto(n) PROVE Upto(n + 1)
  <2>1. PICK f : \A s \in SUBSET S : Cardinality(s) <= n => f[s] = Line(f, s)
    <3> HIDE DEF Line
    <3> QED BY <1>2
  <2> DEFINE h == [s \in SUBSET S |-> Line(f, s)]
  <2>2. ASSUME NEW s \in SUBSET S, Cardinality(s) <= n + 1 PROVE h[s] = Line(h, s)
    <3>1. h[s] = Line(f, s)
      <4> HIDE DEF Line
      <4> QED OBVIOUS
    <3>2. CASE s = {}
      BY <3>1, <3>2
    <3>3. CASE s # {}
      <4> DEFINE t == s \ {Chosen(s)}
      <4>1. t \in SUBSET S /\ Cardinality(t) <= n
        BY <1>0, <2>2, <3>3, AnyFacts
      <4>2. h[t] = Line(f, t) /\ f[t] = Line(f, t)
        <5> HIDE DEF Line, t
        <5> QED BY <2>1, <4>1
      <4> HIDE DEF h
      <4> QED BY <3>1, <3>3, <4>2
    <3> QED BY <3>2, <3>3
  <2> HIDE DEF h, Line
  <2> QED BY <2>2
<1>3. T = Nat
  <2>1. 0 \in T /\ \A n \in T : n + 1 \in T
    <3> HIDE DEF Upto
    <3> QED BY <1>1, <1>2
  <2> HIDE DEF T
  <2> QED BY <2>1, Induction DEF T
<1>4. Upto(Cardinality(S))
  <2>1. Cardinality(S) \in Nat
    BY <1>0
  <2> HIDE DEF Upto
  <2> QED BY <1>3, <2>1
<1>5. PICK f : \A s \in SUBSET S : f[s] = Line(f, s)
  <2> HIDE DEF Line
  <2> QED BY <1>0, <1>4
<1> DEFINE h == [s \in SUBSET S |-> f[s]]
<1>6. h = [s \in SUBSET S |-> Line(h, s)]
  <2>1. ASSUME NEW s \in SUBSET S PROVE h[s] = Line(h, s)
    <3>1. h[s] = Line(f, s)
      <4> HIDE DEF Line
      <4> QED BY <1>5
    <3>2. s \ {Chosen(s)} \in SUBSET S /\ h[s \ {Chosen(s)}] = f[s \ {Chosen(s)}]
      OBVIOUS
    <3> HIDE DEF h
    <3> QED BY <3>1, <3>2
  <2>2. h = [s \in SUBSET S |-> h[s]]
    OBVIOUS
  <2> HIDE DEF h, Line
  <2> QED BY <2>1, <2>2
<1> HIDE DEF h
<1> QED BY <1>6 DEF Summing

LEMMA TotalSums ==
    ASSUME NEW S, IsFiniteSet(S), NEW g
    PROVE  \E it : Summing(it, S, g) /\ Total(g, S) = it[S]
<1> DEFINE Line(f, s) == IF s = {} THEN 0 ELSE f[s \ {Chosen(s)}] + g[Chosen(s)]
           it[s \in SUBSET S] == IF s = {} THEN 0 ELSE it[s \ {Chosen(s)}] + g[Chosen(s)]
<1>1. \E f : f = [s \in SUBSET S |-> Line(f, s)]
  <2>1. \E f : Summing(f, S, g)
    BY SumExists
  <2> QED BY <2>1 DEF Summing
<1>2. it = [s \in SUBSET S |-> Line(it, s)]
  BY <1>1
<1>3. Total(g, S) = it[S]
  BY DEF Total, FoldSet, MapThenFoldSet, Chosen
<1> HIDE DEF it
<1> QED BY <1>2, <1>3 DEF Summing

\* The sum depends on the values of the members only.
LEMMA SumsAgree ==
    ASSUME NEW S, IsFiniteSet(S), NEW g, NEW it, Summing(it, S, g),
           NEW T, IsFiniteSet(T), NEW h, NEW jt, Summing(jt, T, h),
           \A x \in S \cap T : g[x] = h[x]
    PROVE  \A s \in SUBSET (S \cap T) : it[s] = jt[s]
<1> DEFINE Same(n) == \A s \in SUBSET (S \cap T) : Cardinality(s) = n => it[s] = jt[s]
           U == {n \in Nat : Same(n)}
<1>0. \A s \in SUBSET (S \cap T) : IsFiniteSet(s) /\ Cardinality(s) \in Nat /\ (Cardinality(s) = 0 <=> s = {})
  BY FS_Subset, FS_CardinalityType, FS_EmptySet
<1>1. ASSUME NEW s \in SUBSET (S \cap T)
      PROVE  /\ it[s] = IF s = {} THEN 0 ELSE it[s \ {Chosen(s)}] + g[Chosen(s)]
             /\ jt[s] = IF s = {} THEN 0 ELSE jt[s \ {Chosen(s)}] + h[Chosen(s)]
  <2>1. s \in SUBSET S /\ s \in SUBSET T
    OBVIOUS
  <2> QED BY <2>1 DEF Summing
<1>2. Same(0)
  BY <1>0, <1>1
<1>3. ASSUME NEW n \in Nat, Same(n) PROVE Same(n + 1)
  <2> SUFFICES ASSUME NEW s \in SUBSET (S \cap T), Cardinality(s) = n + 1 PROVE it[s] = jt[s]
    OBVIOUS
  <2> DEFINE t == s \ {Chosen(s)}
  <2>1. s # {} /\ Chosen(s) \in s /\ t \in SUBSET (S \cap T) /\ Cardinality(t) = n
    BY <1>0, AnyFacts
  <2>2. it[t] = jt[t]
    <3> HIDE DEF t
    <3> QED BY <1>3, <2>1
  <2>3. g[Chosen(s)] = h[Chosen(s)]
    BY <2>1
  <2> QED BY <1>1, <2>1, <2>2, <2>3
<1>4. U = Nat
  <2>1. 0 \in U /\ \A n \in U : n + 1 \in U
    <3> HIDE DEF Same
    <3> QED BY <1>2, <1>3
  <2> HIDE DEF U
  <2> QED BY <2>1, Induction DEF U
<1> QED BY <1>0, <1>4

\* Taking a member out of the sum takes its value off.
LEMMA TotalFacts ==
    ASSUME NEW S, IsFiniteSet(S), NEW g, \A x \in S : g[x] \in Nat
    PROVE  /\ Total(g, {}) = 0 /\ Total(g, S) \in Nat
           /\ \A x \in S : Total(g, S) = Total(g, S \ {x}) + g[x]
           /\ \A h : (\A x \in S : h[x] = g[x]) => Total(h, S) = Total(g, S)
<1>1. PICK it : Summing(it, S, g) /\ Total(g, S) = it[S]
  BY TotalSums
<1>2. \A s \in SUBSET S : it[s] = IF s = {} THEN 0 ELSE it[s \ {Chosen(s)}] + g[Chosen(s)]
  BY <1>1 DEF Summing
<1>3. ASSUME NEW s \in SUBSET S, NEW h, \A x \in s : h[x] = g[x] PROVE Total(h, s) = it[s]
  <2>1. IsFiniteSet(s)
    BY FS_Subset
  <2>2. PICK jt : Summing(jt, s, h) /\ Total(h, s) = jt[s]
    BY <2>1, TotalSums
  <2>3. \A x \in S \cap s : g[x] = h[x]
    BY <1>3
  <2>4. \A t \in SUBSET (S \cap s) : it[t] = jt[t]
    BY <1>1, <2>1, <2>2, <2>3, SumsAgree
  <2>5. s \in SUBSET (S \cap s)
    OBVIOUS
  <2> QED BY <2>2, <2>4, <2>5
<1>0. \A s \in SUBSET S : IsFiniteSet(s) /\ Cardinality(s) \in Nat /\ (Cardinality(s) = 0 <=> s = {})
  BY FS_Subset, FS_CardinalityType, FS_EmptySet
<1> DEFINE Good(n) == \A s \in SUBSET S : Cardinality(s) <= n =>
                         it[s] \in Nat /\ \A x \in s : it[s] = it[s \ {x}] + g[x]
           U == {n \in Nat : Good(n)}
<1>4. Good(0)
  BY <1>0, <1>2
<1>5. ASSUME NEW n \in Nat, Good(n) PROVE Good(n + 1)
  <2>0. it[{}] \in Nat
    <3>1. {} \in SUBSET S
      OBVIOUS
    <3> QED BY <1>2, <3>1
  <2> SUFFICES ASSUME NEW s \in SUBSET S, Cardinality(s) <= n + 1, s # {}
               PROVE  it[s] \in Nat /\ \A x \in s : it[s] = it[s \ {x}] + g[x]
    <3> SUFFICES ASSUME NEW s \in SUBSET S, Cardinality(s) <= n + 1
                 PROVE  it[s] \in Nat /\ \A x \in s : it[s] = it[s \ {x}] + g[x]
      OBVIOUS
    <3> QED BY <2>0
  <2> DEFINE c == Chosen(s)
  <2>1. c \in s /\ c \in S /\ s \ {c} \in SUBSET S /\ Cardinality(s \ {c}) <= n
    BY <1>0, AnyFacts
  <2>2. it[s] = it[s \ {c}] + g[c] /\ it[s \ {c}] \in Nat /\ g[c] \in Nat
    BY <1>2, <1>5, <2>1
  <2> HIDE DEF c
  <2>3. ASSUME NEW x \in s, x # c PROVE it[s] = it[s \ {x}] + g[x]
    <3> DEFINE r == (s \ {c}) \ {x}
    <3>1. s \ {x} \in SUBSET S /\ Cardinality(s \ {x}) <= n /\ c \in s \ {x} /\ x \in s \ {c}
      BY <1>0, <2>1, <2>3, FS_RemoveElement
    <3>2. (s \ {x}) \ {c} = r /\ r \in SUBSET S /\ Cardinality(r) <= n
      <4>1. IsFiniteSet(s \ {c}) /\ Cardinality(s \ {c}) \in Nat
        BY <1>0, <2>1
      <4>2. Cardinality(r) = Cardinality(s \ {c}) - 1
        BY <3>1, <4>1, FS_RemoveElement
      <4> QED BY <2>1, <4>1, <4>2
    <3> HIDE DEF r
    <3>3. it[r] \in Nat /\ it[s \ {x}] = it[r] + g[c]
      BY <1>5, <3>1, <3>2
    <3>4. it[s \ {c}] = it[r] + g[x]
      <4>1. \A y \in s \ {c} : it[s \ {c}] = it[(s \ {c}) \ {y}] + g[y]
        BY <1>5, <2>1
      <4> QED BY <3>1, <4>1 DEF r
    <3>5. g[x] \in Nat /\ g[c] \in Nat
      BY <2>1
    <3> QED BY <2>2, <3>3, <3>4, <3>5
  <2>4. it[s] \in Nat
    BY <2>2
  <2>5. ASSUME NEW x \in s PROVE it[s] = it[s \ {x}] + g[x]
    <3>1. CASE x = c
      BY <2>2, <3>1
    <3> QED BY <2>3, <3>1
  <2> QED BY <2>4, <2>5
<1>6. U = Nat
  <2>1. 0 \in U /\ \A n \in U : n + 1 \in U
    <3> HIDE DEF Good
    <3> QED BY <1>4, <1>5
  <2> HIDE DEF U
  <2> QED BY <2>1, Induction DEF U
<1>7. \A s \in SUBSET S : it[s] \in Nat /\ \A x \in s : it[s] = it[s \ {x}] + g[x]
  <2> SUFFICES ASSUME NEW s \in SUBSET S
               PROVE  it[s] \in Nat /\ \A x \in s : it[s] = it[s \ {x}] + g[x]
    OBVIOUS
  <2>1. Cardinality(s) \in Nat /\ Cardinality(s) <= Cardinality(s)
    BY <1>0
  <2>2. Good(Cardinality(s))
    <3> HIDE DEF Good
    <3> QED BY <1>6, <2>1
  <2> QED BY <2>1, <2>2
<1>8. Total(g, {}) = 0
  <2>1. {} \in SUBSET S
    OBVIOUS
  <2>2. Total(g, {}) = it[{}]
    BY <1>3, <2>1
  <2> QED BY <1>2, <2>1, <2>2
<1>9. ASSUME NEW x \in S PROVE Total(g, S) = Total(g, S \ {x}) + g[x]
  <2>1. S \ {x} \in SUBSET S /\ S \in SUBSET S
    OBVIOUS
  <2>2. Total(g, S \ {x}) = it[S \ {x}]
    BY <1>3, <2>1
  <2> QED BY <1>1, <1>7, <2>1, <2>2
<1>10. ASSUME NEW h, \A x \in S : h[x] = g[x] PROVE Total(h, S) = Total(g, S)
  BY <1>1, <1>3, <1>10
<1> QED BY <1>1, <1>7, <1>8, <1>9, <1>10

\* A sum splits along a part of its set.
LEMMA TotalSplit ==
    ASSUME NEW S, IsFiniteSet(S), NEW g, \A x \in S : g[x] \in Nat
    PROVE  \A T \in SUBSET S : Total(g, S) = Total(g, T) + Total(g, S \ T)
<1> DEFINE Good(n) == \A T \in SUBSET S : Cardinality(T) = n => Total(g, S) = Total(g, T) + Total(g, S \ T)
           U == {n \in Nat : Good(n)}
<1>0. \A s \in SUBSET S : /\ IsFiniteSet(s) /\ Cardinality(s) \in Nat /\ (Cardinality(s) = 0 <=> s = {})
                          /\ \A x \in s : g[x] \in Nat
  BY FS_Subset, FS_CardinalityType, FS_EmptySet
<1>1. ASSUME NEW s \in SUBSET S
      PROVE  /\ Total(g, {}) = 0 /\ Total(g, s) \in Nat
             /\ \A x \in s : Total(g, s) = Total(g, s \ {x}) + g[x]
  <2>1. IsFiniteSet(s) /\ \A x \in s : g[x] \in Nat
    BY <1>0
  <2> QED BY <2>1, TotalFacts
<1>2. Good(0)
  <2> SUFFICES ASSUME NEW T \in SUBSET S, Cardinality(T) = 0 PROVE Total(g, S) = Total(g, T) + Total(g, S \ T)
    OBVIOUS
  <2>1. T = {} /\ S \ T = S
    BY <1>0
  <2>2. S \in SUBSET S
    OBVIOUS
  <2> QED BY <1>1, <2>1, <2>2
<1>3. ASSUME NEW n \in Nat, Good(n) PROVE Good(n + 1)
  <2> SUFFICES ASSUME NEW T \in SUBSET S, Cardinality(T) = n + 1 PROVE Total(g, S) = Total(g, T) + Total(g, S \ T)
    OBVIOUS
  <2>1. PICK x \in T : TRUE
    BY <1>0
  <2> DEFINE V == T \ {x}
  <2>2. V \in SUBSET S /\ Cardinality(V) = n
    <3>1. IsFiniteSet(T)
      BY <1>0
    <3>2. Cardinality(V) = Cardinality(T) - 1
      BY <2>1, <3>1, FS_RemoveElement
    <3> QED BY <3>2
  <2>3. S \ V \in SUBSET S /\ (S \ V) \ {x} = S \ T /\ S \ T \in SUBSET S /\ x \in S \ V
    OBVIOUS
  <2>4. Total(g, T) = Total(g, V) + g[x] /\ Total(g, V) \in Nat
    BY <1>1, <2>2
  <2> HIDE DEF V
  <2>5. Total(g, S \ V) = Total(g, S \ T) + g[x] /\ Total(g, S \ T) \in Nat
    <3>1. \A y \in S \ V : Total(g, S \ V) = Total(g, (S \ V) \ {y}) + g[y]
      BY <1>1, <2>3
    <3>2. Total(g, S \ V) = Total(g, (S \ V) \ {x}) + g[x]
      BY <2>3, <3>1
    <3> QED BY <1>1, <2>3, <3>2
  <2>6. Total(g, S) = Total(g, V) + Total(g, S \ V) /\ g[x] \in Nat
    BY <1>0, <1>3, <2>2
  <2> QED BY <2>4, <2>5, <2>6
<1>4. U = Nat
  <2>1. 0 \in U /\ \A n \in U : n + 1 \in U
    <3> HIDE DEF Good
    <3> QED BY <1>2, <1>3
  <2> HIDE DEF U
  <2> QED BY <2>1, Induction DEF U
<1> QED BY <1>0, <1>4

\* f is given over 0..N by a definition that looks one step back.
LooksBack(f, N, S, x, D) ==
    /\ f \in [0..N -> S]
    /\ f = [n \in 0..N |-> IF n = 0 THEN x ELSE D[<<n - 1, f[n - 1]>>]]

LEMMA BoundedRecursion ==
    ASSUME NEW N \in Nat, NEW S, NEW x \in S, NEW D \in [Nat \X S -> S]
    PROVE  \E f : LooksBack(f, N, S, x, D)
<1>1. PICK g : Iterates(g, S, x, D)
  BY Recursion
<1>2. g \in [Nat -> S] /\ g[0] = x /\ \A n \in Nat : g[n + 1] = D[<<n, g[n]>>]
  BY <1>1 DEF Iterates
<1> DEFINE f == [n \in 0..N |-> g[n]]
<1>3. f \in [0..N -> S]
  BY <1>2
<1>4. ASSUME NEW n \in 0..N
      PROVE  f[n] = IF n = 0 THEN x ELSE D[<<n - 1, f[n - 1]>>]
  <2>1. CASE n = 0
    BY <1>2, <2>1
  <2>2. CASE n # 0
    <3>1. n - 1 \in Nat /\ n - 1 \in 0..N /\ (n - 1) + 1 = n
      BY <2>2
    <3>2. g[n] = D[<<n - 1, g[n - 1]>>]
      BY <1>2, <3>1
    <3> QED BY <2>2, <3>1, <3>2
  <2> QED BY <2>1, <2>2
<1>5. f = [n \in 0..N |-> IF n = 0 THEN x ELSE D[<<n - 1, f[n - 1]>>]]
  <2>1. f = [n \in 0..N |-> f[n]]
    OBVIOUS
  <2> HIDE DEF f
  <2> QED BY <1>4, <2>1
<1> HIDE DEF f
<1>6. LooksBack(f, N, S, x, D)
  BY <1>3, <1>5 DEF LooksBack
<1> QED BY <1>6

\* Appending to the end of a concatenation, and one more element of a prefix.
LEMMA ConcatAppend ==
    ASSUME NEW S, NEW s \in Seq(S), NEW t \in Seq(S), NEW x \in S
    PROVE  s \o Append(t, x) = Append(s \o t, x)
OBVIOUS

LEMMA SubSeqGrows ==
    ASSUME NEW S, NEW s \in Seq(S), NEW k \in Nat, k < Len(s)
    PROVE  SubSeq(s, 1, k + 1) = Append(SubSeq(s, 1, k), s[k + 1])
OBVIOUS

\* A function on 1..n is a sequence.
LEMMA IsSequence ==
    ASSUME NEW S, NEW n \in Nat, NEW f \in [1..n -> S]
    PROVE  f \in Seq(S) /\ Len(f) = n /\ DOMAIN f = 1..n
OBVIOUS

\* Sequences told apart by their elements.
LEMMA AppendIs ==
    ASSUME NEW S, NEW a \in Seq(S), NEW c \in Seq(S), NEW x \in S, Len(c) = Len(a) + 1,
           c[Len(a) + 1] = x, \A i \in 1..Len(a) : c[i] = a[i]
    PROVE  c = Append(a, x)
OBVIOUS

LEMMA ConcatIs ==
    ASSUME NEW S, NEW a \in Seq(S), NEW b \in Seq(S), NEW c \in Seq(S), Len(c) = Len(a) + Len(b),
           \A i \in 1..Len(a) : c[i] = a[i], \A i \in 1..Len(b) : c[Len(a) + i] = b[i]
    PROVE  c = a \o b
<1>1. a \o b \in Seq(S) /\ Len(a \o b) = Len(a) + Len(b)
  OBVIOUS
<1>2. ASSUME NEW i \in 1..Len(c) PROVE c[i] = (a \o b)[i]
  <2>1. CASE i <= Len(a)
    BY <2>1
  <2>2. CASE i > Len(a)
    <3>1. i - Len(a) \in 1..Len(b) /\ Len(a) + (i - Len(a)) = i
      BY <2>2
    <3>2. c[i] = b[i - Len(a)]
      BY <3>1
    <3> QED BY <2>2, <3>1, <3>2
  <2> QED BY <2>1, <2>2
<1> QED BY <1>1, <1>2, SeqEqual

\* Concatenation under a name of its own, for steps that need no more of it.
Cat(a, b) == a \o b

LEMMA CatType ==
    ASSUME NEW S, NEW a \in Seq(S), NEW b \in Seq(S)
    PROVE  Cat(a, b) \in Seq(S)
BY ConcatProperties DEF Cat

LEMMA CatLen ==
    ASSUME NEW S, NEW a \in Seq(S), NEW b \in Seq(S)
    PROVE  Len(Cat(a, b)) = Len(a) + Len(b)
BY ConcatProperties DEF Cat

LEMMA CatAssociative ==
    ASSUME NEW S, NEW a \in Seq(S), NEW b \in Seq(S), NEW c \in Seq(S)
    PROVE  Cat(Cat(a, b), c) = Cat(a, Cat(b, c))
BY ConcatAssociative DEF Cat

LEMMA CatEmpty ==
    ASSUME NEW S, NEW a \in Seq(S)
    PROVE  Cat(a, <<>>) = a /\ Cat(<<>>, a) = a
BY ConcatEmptySeq DEF Cat

\* FlattenSeq concatenates one sequence after the other.
LEMMA FlattenSteps ==
    ASSUME NEW T, NEW s \in Seq(Seq(T))
    PROVE  \E f \in [0..Len(s) -> Seq(T)] :
              /\ f[0] = <<>> /\ FlattenSeq(s) = f[Len(s)]
              /\ \A i \in 1..Len(s) : f[i] = Cat(f[i - 1], s[i])
<1> DEFINE n == Len(s)
           D == [p \in Nat \X Seq(T) |-> IF p[1] + 1 \in 1..n THEN Cat(p[2], s[p[1] + 1]) ELSE p[2]]
<1>1. n \in Nat /\ \A i \in 1..n : s[i] \in Seq(T)
  OBVIOUS
<1>2. <<>> \in Seq(T) /\ D \in [Nat \X Seq(T) -> Seq(T)]
  BY <1>1, CatType
<1>3. PICK h : Iterates(h, Seq(T), <<>>, D)
  <2> HIDE DEF D
  <2> QED BY <1>2, Recursion
<1>4. h[0] = <<>> /\ \A i \in Nat : h[i] \in Seq(T)
  BY <1>3 DEF Iterates
<1>5. ASSUME NEW i \in 1..n PROVE h[i] = Cat(h[i - 1], s[i])
  <2>1. i - 1 \in Nat /\ (i - 1) + 1 = i
    BY <1>1
  <2>2. h[i] = D[<<i - 1, h[i - 1]>>] /\ h[i - 1] \in Seq(T)
    <3> HIDE DEF D
    <3> QED BY <1>3, <2>1 DEF Iterates
  <2> QED BY <2>1, <2>2
<1>0. ASSUME NEW q \in Seq(T) PROVE Cat(<<>>, q) = q
  BY CatEmpty
<1> HIDE DEF D
<1> DEFINE g == [i \in 1..n |-> h[i]]
           flatten[i \in 1..n] == IF i = 1 THEN s[i] ELSE Cat(flatten[i - 1], s[i])
<1>6. g = [i \in 1..n |-> IF i = 1 THEN s[i] ELSE Cat(g[i - 1], s[i])]
  <2> SUFFICES ASSUME NEW i \in 1..n PROVE h[i] = IF i = 1 THEN s[i] ELSE Cat(g[i - 1], s[i])
    OBVIOUS
  <2>1. CASE i = 1
    <3>1. h[1] = Cat(<<>>, s[1]) /\ s[1] \in Seq(T)
      BY <1>1, <1>4, <1>5, <2>1
    <3> QED BY <1>0, <2>1, <3>1
  <2>2. CASE i # 1
    <3>1. i - 1 \in 1..n
      BY <1>1, <2>2
    <3> QED BY <1>5, <2>2, <3>1
  <2> QED BY <2>1, <2>2
<1> HIDE DEF g
<1>7. flatten = [i \in 1..n |-> IF i = 1 THEN s[i] ELSE Cat(flatten[i - 1], s[i])]
  BY <1>6
<1>8. FlattenSeq(s) = IF n = 0 THEN s ELSE flatten[n]
  BY DEF FlattenSeq, Cat
<1> HIDE DEF flatten
<1> DEFINE U == {i \in Nat : i \in 1..n => flatten[i] = h[i]}
<1>9. U = Nat
  <2>1. 0 \in U
    OBVIOUS
  <2>2. ASSUME NEW i \in U PROVE i + 1 \in U
    <3> SUFFICES ASSUME i + 1 \in 1..n PROVE flatten[i + 1] = h[i + 1]
      OBVIOUS
    <3>0. i \in Nat /\ (i + 1) - 1 = i /\ s[i + 1] \in Seq(T) /\ (i # 0 => flatten[i] = h[i])
      BY <1>1
    <3>1. h[i + 1] = Cat(h[i], s[i + 1])
      BY <1>5, <3>0
    <3>2. flatten[i + 1] = IF i + 1 = 1 THEN s[i + 1] ELSE Cat(flatten[i], s[i + 1])
      <4> HIDE DEF U
      <4> QED BY <1>7, <3>0
    <3>3. CASE i = 0
      <4> HIDE DEF U
      <4>1. Cat(<<>>, s[i + 1]) = s[i + 1]
        BY <1>0, <3>0
      <4> QED BY <1>4, <3>0, <3>1, <3>2, <3>3, <4>1
    <3>4. CASE i # 0
      <4> HIDE DEF U
      <4> QED BY <3>0, <3>1, <3>2, <3>4
    <3> QED BY <3>3, <3>4
  <2> HIDE DEF U
  <2> QED BY <2>1, <2>2, Induction DEF U
<1> DEFINE f == [i \in 0..n |-> h[i]]
<1>10. f \in [0..n -> Seq(T)] /\ f[0] = <<>>
  BY <1>1, <1>4
<1>11. \A i \in 1..n : f[i] = Cat(f[i - 1], s[i])
  BY <1>1, <1>5
<1>12. FlattenSeq(s) = f[n]
  <2>1. CASE n = 0
    <3>1. s = <<>>
      BY <2>1
    <3> QED BY <1>1, <1>4, <1>8, <2>1, <3>1
  <2>2. CASE n # 0
    <3>1. n \in 1..n /\ n \in U
      BY <1>1, <1>9, <2>2
    <3> QED BY <1>8, <2>2, <3>1
  <2> QED BY <2>1, <2>2
<1> QED BY <1>10, <1>11, <1>12

LEMMA FlattenAppend ==
    ASSUME NEW T, NEW s \in Seq(Seq(T)), NEW x \in Seq(T)
    PROVE  /\ FlattenSeq(<<>>) = <<>> /\ FlattenSeq(s) \in Seq(T)
           /\ FlattenSeq(Append(s, x)) = FlattenSeq(s) \o x
<1> DEFINE t == Append(s, x)
           n == Len(s)
<1>1. PICK f \in [0..n -> Seq(T)] : 
              /\ f[0] = <<>> /\ FlattenSeq(s) = f[n]
              /\ \A i \in 1..n : f[i] = Cat(f[i - 1], s[i])
  BY FlattenSteps
<1>2. t \in Seq(Seq(T)) /\ Len(t) = n + 1 /\ n \in Nat /\ t[n + 1] = x
      /\ \A i \in 1..n : t[i] = s[i]
  OBVIOUS
<1>3. PICK h \in [0..Len(t) -> Seq(T)] : 
              /\ h[0] = <<>> /\ FlattenSeq(t) = h[Len(t)]
              /\ \A i \in 1..Len(t) : h[i] = Cat(h[i - 1], t[i])
  BY <1>2, FlattenSteps
<1> HIDE DEF t, n
<1> DEFINE U == {i \in Nat : i \in 0..n => h[i] = f[i]}
<1>4. U = Nat
  <2>1. 0 \in U
    BY <1>1, <1>3
  <2>2. ASSUME NEW i \in U PROVE i + 1 \in U
    <3> SUFFICES ASSUME i + 1 \in 0..n PROVE h[i + 1] = f[i + 1]
      OBVIOUS
    <3>1. h[i] = f[i] /\ i \in Nat /\ i + 1 \in 1..n /\ i + 1 \in 1..Len(t)
      BY <1>2
    <3>2. h[i + 1] = Cat(h[i], t[i + 1]) /\ f[i + 1] = Cat(f[i], s[i + 1])
      BY <1>1, <1>3, <3>1
    <3> QED BY <1>2, <3>1, <3>2
  <2> HIDE DEF U
  <2> QED BY <2>1, <2>2, Induction DEF U
<1>5. FlattenSeq(t) = Cat(f[n], x)
  BY <1>2, <1>3, <1>4
<1>6. FlattenSeq(<<>>) = <<>>
  BY DEF FlattenSeq
<1>7. f[n] \in Seq(T)
  BY <1>2
<1>8. FlattenSeq(s) \in Seq(T) /\ FlattenSeq(t) = Cat(FlattenSeq(s), x)
  BY <1>1, <1>5, <1>7
<1> QED BY <1>6, <1>8 DEF t, Cat

\* What is flattened grows at the end.
LEMMA FlattenPrefix ==
    ASSUME NEW T, NEW s \in Seq(Seq(T)), NEW t \in Seq(Seq(T))
    PROVE  /\ Len(FlattenSeq(s)) <= Len(FlattenSeq(s \o t))
           /\ \A i \in 1..Len(FlattenSeq(s)) : FlattenSeq(s \o t)[i] = FlattenSeq(s)[i]
<1> DEFINE Part(k) == s \o SubSeq(t, 1, k)
           Good(k) == /\ Len(FlattenSeq(s)) <= Len(FlattenSeq(Part(k)))
                      /\ \A i \in 1..Len(FlattenSeq(s)) : FlattenSeq(Part(k))[i] = FlattenSeq(s)[i]
           U == {k \in Nat : k <= Len(t) => Good(k)}
<1>1. 0 \in U
  <2>1. Part(0) = s
    <3>1. SubSeq(t, 1, 0) = <<>>
      BY SubSeqEmpty
    <3> QED BY <3>1
  <2>2. FlattenSeq(s) \in Seq(T)
    BY FlattenAppend, EmptySeq
  <2>3. Good(0)
    <3> HIDE DEF Part
    <3> QED BY <2>1, <2>2
  <2> HIDE DEF Good
  <2> QED BY <2>3
<1>2. ASSUME NEW k \in U PROVE k + 1 \in U
  <2> SUFFICES ASSUME k + 1 <= Len(t) PROVE Good(k + 1)
    OBVIOUS
  <2>1. k \in Nat /\ Good(k) /\ k + 1 \in 1..Len(t)
    OBVIOUS
  <2> DEFINE x == t[k + 1]
  <2>2. x \in Seq(T) /\ SubSeq(t, 1, k) \in Seq(Seq(T))
        /\ SubSeq(t, 1, k + 1) = Append(SubSeq(t, 1, k), x)
    <3> HIDE DEF U
    <3>1. x \in Seq(T) /\ SubSeq(t, 1, k) \in Seq(Seq(T))
      BY <2>1
    <3> QED BY <2>1, <3>1, SubSeqGrows
  <2>3. x \in Seq(T)
    BY <2>2
  <2>4. Part(k) \in Seq(Seq(T)) /\ Part(k + 1) = Append(Part(k), x)
    <3>1. PICK q : q = SubSeq(t, 1, k)
      OBVIOUS
    <3> HIDE DEF U, x
    <3>2. q \in Seq(Seq(T)) /\ Part(k) = s \o q /\ Part(k + 1) = s \o Append(q, x)
      <4>1. Part(k) = s \o SubSeq(t, 1, k) /\ Part(k + 1) = s \o SubSeq(t, 1, k + 1)
        BY Zenon
      <4> HIDE DEF Part
      <4> QED BY <2>2, <3>1, <4>1, Zenon
    <3> HIDE DEF Part
    <3>3. s \o q \in Seq(Seq(T)) /\ s \o Append(q, x) = Append(s \o q, x)
      <4>1. PICK R : R = Seq(T)
        OBVIOUS
      <4>2. s \in Seq(R) /\ q \in Seq(R) /\ x \in R
        BY <2>3, <3>2, <4>1
      <4>3. s \o q \in Seq(R)
        BY <4>2, ConcatProperties, Zenon
      <4>4. s \o Append(q, x) = Append(s \o q, x)
        <5> HIDE DEF Good
        <5> QED BY <4>2, ConcatAppend
      <4> QED BY <4>1, <4>3, <4>4, Zenon
    <3> QED BY <3>2, <3>3, Zenon
  <2> HIDE DEF x, Part
  <2>5. FlattenSeq(Part(k + 1)) = FlattenSeq(Part(k)) \o x /\ FlattenSeq(Part(k)) \in Seq(T)
        /\ FlattenSeq(s) \in Seq(T)
    BY <2>3, <2>4, FlattenAppend
  <2> QED BY <2>1, <2>3, <2>5
<1>3. U = Nat
  <2> HIDE DEF U
  <2> QED BY <1>1, <1>2, Induction DEF U
<1>4. Part(Len(t)) = s \o t /\ Len(t) \in Nat
  BY SubSeqFull
<1> HIDE DEF Part
<1>5. Good(Len(t))
  <2>1. Len(t) \in U
    BY <1>3, <1>4
  <2> HIDE DEF Good
  <2> QED BY <2>1
<1> QED BY <1>4, <1>5

\* What such a definition gives stays in S.
LEMMA BackTyped ==
    ASSUME NEW N \in Nat, NEW S, NEW f, f[0] \in S,
           \A n \in 1..N : f[n - 1] \in S => f[n] \in S
    PROVE  \A n \in 0..N : f[n] \in S
<1> DEFINE Typed(k) == k <= N => f[k] \in S
           U == {k \in Nat : Typed(k)}
<1>1. Typed(0)
  OBVIOUS
<1>2. ASSUME NEW k \in Nat, Typed(k) PROVE Typed(k + 1)
  <2> SUFFICES ASSUME k + 1 <= N PROVE f[k + 1] \in S
    OBVIOUS
  <2>1. k + 1 \in 1..N /\ (k + 1) - 1 = k /\ k <= N
    OBVIOUS
  <2> QED BY <1>2, <2>1
<1>3. U = Nat
  <2>1. 0 \in U /\ \A k \in U : k + 1 \in U
    <3> HIDE DEF Typed
    <3> QED BY <1>1, <1>2
  <2> HIDE DEF U
  <2> QED BY <2>1, Induction DEF U
<1> QED BY <1>3

\* The two parts of a sequence that has a last element.
LEMMA AppendParts ==
    ASSUME NEW S, NEW s \in Seq(S), NEW x \in S
    PROVE  /\ Append(s, x) # <<>> /\ Last(Append(s, x)) = x /\ Front(Append(s, x)) = s
           /\ Append(s, x) \in Seq(S) /\ Len(Append(s, x)) = Len(s) + 1
<1>1. PICK t : t = Append(s, x)
  OBVIOUS
<1>2. t \in Seq(S) /\ Len(t) = Len(s) + 1 /\ t[Len(s) + 1] = x /\ Len(s) \in Nat /\ t # <<>>
      /\ \A i \in 1..Len(s) : t[i] = s[i]
  BY <1>1
<1>3. Last(t) = x
  BY <1>2 DEF Last
<1>4. Front(t) = SubSeq(t, 1, Len(s))
  BY <1>2 DEF Front
<1>5. SubSeq(t, 1, Len(s)) = s
  BY <1>2
<1> QED BY <1>1, <1>2, <1>3, <1>4, <1>5
===============================================================================
