--------------------------- MODULE EndpointProofs ---------------------------
(***************************************************************************)
(* The endpoints, proved.  For any body: what is served is what the whole  *)
(* of it asked for.  For any ref store and any updates during a request:   *)
(* the advertisement lists refs as they were.  For any two histories of    *)
(* one commit graph, any rounds, lost messages and pushes in between:      *)
(* stateless rounds add up to a pack that completes the client and keeps   *)
(* what earlier answers told it.                                           *)
(***************************************************************************)
EXTENDS Requests, LsRefs, Negotiation, InductionLemmas

-----------------------------------------------------------------------------
(* Requests: lines of a kind *)

\* The lines of a kind, one line at a time.
Keeping(k, p, kept) == IF p.k = k THEN Append(kept, p) ELSE kept

LEMMA OfSteps ==
    ASSUME NEW P, NEW s \in Seq(P), NEW k
    PROVE  /\ OfFirst(k, s, 0) = <<>>
           /\ \A n \in 1..Len(s) : OfFirst(k, s, n) = Keeping(k, s[n], OfFirst(k, s, n - 1))
           /\ \A n \in 0..Len(s) : OfFirst(k, s, n) \in Seq(P)
<1> DEFINE Top == Len(s)
           Dom == Seq(P)
           Step(n, v) == IF n < Top THEN Keeping(k, s[n + 1], v) ELSE v
           D == [y \in Nat \X Dom |-> Step(y[1], y[2])]
<1>0. Top \in Nat /\ \A n \in 1..Top : s[n] \in P
  OBVIOUS
<1> HIDE DEF Top
<1>1. <<>> \in Dom
  OBVIOUS
<1>2. ASSUME NEW n \in Nat, NEW v \in Dom PROVE Step(n, v) \in Dom
  <2>1. n < Top => s[n + 1] \in P
    BY <1>0
  <2> QED BY <2>1 DEF Keeping
<1> HIDE DEF Dom, Step
<1>3. D \in [Nat \X Dom -> Dom] /\ \A n \in Nat, v \in Dom : D[<<n, v>>] = Step(n, v)
  <2>1. ASSUME NEW y \in Nat \X Dom PROVE Step(y[1], y[2]) \in Dom
    BY <1>2
  <2> QED BY <2>1
<1> HIDE DEF D
<1>4. PICK g : g \in [0..Top -> Dom] /\ g = [n \in 0..Top |-> IF n = 0 THEN <<>> ELSE D[<<n - 1, g[n - 1]>>]]
  <2>1. PICK g : LooksBack(g, Top, Dom, <<>>, D)
    BY <1>0, <1>1, <1>3, BoundedRecursion
  <2> QED BY <2>1 DEF LooksBack
<1> DEFINE Row(h, n) == IF n = 0 THEN <<>> ELSE Keeping(k, s[n], h[n - 1])
<1>5. g = [n \in 0..Top |-> Row(g, n)]
  <2>1. ASSUME NEW n \in 0..Top PROVE (IF n = 0 THEN <<>> ELSE D[<<n - 1, g[n - 1]>>]) = Row(g, n)
    <3>1. CASE n = 0
      BY <3>1
    <3>2. CASE n # 0
      <4>1. n - 1 \in Nat /\ n - 1 \in 0..Top /\ n - 1 < Top /\ (n - 1) + 1 = n
        BY <1>0, <3>2
      <4>2. g[n - 1] \in Dom
        BY <1>4, <4>1
      <4> QED BY <1>3, <3>2, <4>1, <4>2 DEF Step
    <3> QED BY <3>1, <3>2
  <2> HIDE DEF Row
  <2> QED BY <1>4, <2>1
<1> DEFINE f[n \in 0..Top] == Row(f, n)
<1>6. f = [n \in 0..Top |-> Row(f, n)]
  <2> HIDE DEF Row
  <2> QED BY <1>5
<1>7. \A n : OfFirst(k, s, n) = f[n]
  BY DEF OfFirst, Keeping, Top
<1> HIDE DEF f
<1>8. f[0] = <<>> /\ \A n \in 1..Top : f[n] = Keeping(k, s[n], f[n - 1])
  <2>1. 0 \in 0..Top /\ \A n \in 1..Top : n \in 0..Top /\ n # 0
    BY <1>0
  <2>2. \A n \in 0..Top : f[n] = Row(f, n)
    <3> HIDE DEF Row
    <3> QED BY <1>6
  <2> QED BY <2>1, <2>2
<1> HIDE DEF Row
<1>9. \A n \in 1..Top : f[n - 1] \in Dom => f[n] \in Dom
  <2> SUFFICES ASSUME NEW n \in 1..Top, f[n - 1] \in Dom PROVE f[n] \in Dom
    OBVIOUS
  <2>1. PICK v : v = f[n - 1]
    OBVIOUS
  <2>2. v \in Seq(P) /\ s[n] \in P /\ f[n] = Keeping(k, s[n], v)
    BY <1>0, <1>8, <2>1 DEF Dom
  <2> QED BY <2>2 DEF Keeping, Dom
<1>10. \A n \in 0..Top : f[n] \in Dom
  BY <1>0, <1>1, <1>8, <1>9, BackTyped
<1> QED BY <1>7, <1>8, <1>10 DEF Top, Dom

\* The lines of a kind after one more line.
LEMMA OfAppend ==
    ASSUME NEW P, NEW s \in Seq(P), NEW p \in P, NEW k
    PROVE  /\ Of(k, <<>>) = <<>> /\ Of(k, s) \in Seq(P)
           /\ Of(k, Append(s, p)) = Keeping(k, p, Of(k, s))
<1>1. PICK t : t = Append(s, p)
  OBVIOUS
<1>2. /\ t \in Seq(P) /\ Len(t) = Len(s) + 1 /\ Len(s) \in Nat /\ t[Len(s) + 1] = p
      /\ \A n \in 1..Len(s) : t[n] = s[n]
  BY <1>1
<1>3. Of(k, <<>>) = <<>>
  <2>1. <<>> \in Seq(P) /\ Len(<<>>) = 0
    OBVIOUS
  <2> QED BY <2>1, OfSteps DEF Of
<1>4. Of(k, s) \in Seq(P)
  <2>1. Len(s) \in 0..Len(s)
    BY <1>2
  <2> QED BY <2>1, OfSteps DEF Of
<1> DEFINE Same(n) == n <= Len(s) => OfFirst(k, t, n) = OfFirst(k, s, n)
           U == {n \in Nat : Same(n)}
<1>5. Same(0)
  BY <1>2, OfSteps
<1>6. ASSUME NEW n \in Nat, Same(n) PROVE Same(n + 1)
  <2> SUFFICES ASSUME n + 1 <= Len(s) PROVE OfFirst(k, t, n + 1) = OfFirst(k, s, n + 1)
    OBVIOUS
  <2>1. n + 1 \in 1..Len(s) /\ n + 1 \in 1..Len(t) /\ (n + 1) - 1 = n /\ n <= Len(s)
    BY <1>2
  <2>2. OfFirst(k, t, n + 1) = Keeping(k, t[n + 1], OfFirst(k, t, n))
    BY <1>2, <2>1, OfSteps
  <2>3. OfFirst(k, s, n + 1) = Keeping(k, s[n + 1], OfFirst(k, s, n))
    BY <1>2, <2>1, OfSteps
  <2>4. t[n + 1] = s[n + 1] /\ OfFirst(k, t, n) = OfFirst(k, s, n)
    BY <1>2, <1>6, <2>1
  <2> QED BY <2>2, <2>3, <2>4
<1>7. U = Nat
  <2>1. 0 \in U /\ \A n \in U : n + 1 \in U
    <3> HIDE DEF Same
    <3> QED BY <1>5, <1>6
  <2> HIDE DEF U
  <2> QED BY <2>1, Induction DEF U
<1>8. OfFirst(k, t, Len(s)) = OfFirst(k, s, Len(s))
  BY <1>2, <1>7
<1>9. OfFirst(k, t, Len(s) + 1) = Keeping(k, t[Len(s) + 1], OfFirst(k, t, Len(s)))
  <2>1. Len(s) + 1 \in 1..Len(t) /\ (Len(s) + 1) - 1 = Len(s)
    BY <1>2
  <2> QED BY <1>2, <2>1, OfSteps
<1>10. Of(k, t) = Keeping(k, p, Of(k, s))
  BY <1>2, <1>8, <1>9 DEF Of
<1> QED BY <1>1, <1>3, <1>4, <1>10

LEMMA ValuesAppend ==
    ASSUME NEW P, NEW s \in Seq(P), NEW p \in P
    PROVE  /\ Values(<<>>) = <<>> /\ Values(s) \in Seq({q.v : q \in P}) /\ Len(Values(s)) = Len(s)
           /\ Values(Append(s, p)) = Append(Values(s), p.v)
<1>1. PICK V : V = {q.v : q \in P}
  OBVIOUS
<1>2. p.v \in V /\ \A i \in 1..Len(s) : s[i] \in P /\ s[i].v \in V
  BY <1>1
<1>3. PICK t : t = Append(s, p)
  OBVIOUS
<1>4. /\ t \in Seq(P) /\ Len(t) = Len(s) + 1 /\ Len(s) \in Nat /\ t[Len(s) + 1] = p
      /\ \A n \in 1..Len(s) : t[n] = s[n]
  BY <1>3
<1>5. PICK a, b : a = Values(s) /\ b = Values(t)
  OBVIOUS
<1>6. a \in Seq(V) /\ Len(a) = Len(s) /\ \A i \in 1..Len(s) : a[i] = s[i].v
  <2>1. a = [i \in 1..Len(s) |-> s[i].v]
    BY <1>5 DEF Values
  <2>2. a \in [1..Len(s) -> V]
    BY <1>2, <2>1
  <2> QED BY <1>4, <2>1, <2>2, IsSequence
<1>7. b \in Seq(V) /\ Len(b) = Len(s) + 1 /\ \A i \in 1..(Len(s) + 1) : b[i] = t[i].v
  <2>1. b = [i \in 1..(Len(s) + 1) |-> t[i].v]
    BY <1>4, <1>5 DEF Values
  <2>2. \A i \in 1..(Len(s) + 1) : t[i].v \in V
    BY <1>1, <1>4
  <2>3. b \in [1..(Len(s) + 1) -> V]
    BY <2>1, <2>2
  <2> QED BY <1>4, <2>1, <2>3, IsSequence
<1>8. b = Append(a, p.v)
  <2>1. b[Len(a) + 1] = p.v
    BY <1>4, <1>6, <1>7
  <2>2. \A i \in 1..Len(a) : b[i] = a[i]
    BY <1>4, <1>6, <1>7
  <2>3. Len(b) = Len(a) + 1
    BY <1>6, <1>7
  <2> QED BY <1>2, <1>6, <1>7, <2>1, <2>2, <2>3, AppendIs
<1>9. Values(<<>>) = <<>>
  BY DEF Values
<1> QED BY <1>1, <1>3, <1>5, <1>6, <1>8, <1>9

-----------------------------------------------------------------------------
(* FetchArgs::parse *)

Vals(P) == {q.v : q \in P}

FetchType(P) ==
    [ok : BOOLEAN, wants : Seq(Vals(P)), haves : Seq(Vals(P)), filter : Vals(P) \cup {None}, done : BOOLEAN]

LEMMA FetchArgFacts ==
    ASSUME NEW P, NEW a \in P, NEW r \in FetchType(P)
    PROVE  /\ FetchArg(r, a) \in FetchType(P)
           /\ FetchArg(r, a).ok => r.ok /\ a.k \in {"want", "have", "filter", "done", "flag"}
           /\ FetchArg(r, a).ok =>
                 /\ FetchArg(r, a).wants = IF a.k = "want" THEN Append(r.wants, a.v) ELSE r.wants
                 /\ FetchArg(r, a).haves = IF a.k = "have" THEN Append(r.haves, a.v) ELSE r.haves
                 /\ FetchArg(r, a).filter = IF a.k = "filter" THEN a.v ELSE r.filter
                 /\ FetchArg(r, a).done = IF a.k = "done" THEN TRUE ELSE r.done
<1>1. a.v \in Vals(P)
  BY DEF Vals
<1>2. PICK V : V = Vals(P)
  OBVIOUS
<1>3. /\ r \in [ok : BOOLEAN, wants : Seq(V), haves : Seq(V), filter : V \cup {None}, done : BOOLEAN]
      /\ a.v \in V
  BY <1>1, <1>2 DEF FetchType
<1>4. CASE ~r.ok
  <2>1. FetchArg(r, a) = r
    BY <1>4 DEF FetchArg
  <2> QED BY <1>4, <2>1
<1>5. CASE r.ok /\ a.k = "want" /\ a.caps = NoCaps
  <2>1. FetchArg(r, a) = [r EXCEPT !.wants = Append(r.wants, a.v)]
    BY <1>5 DEF FetchArg
  <2>2. Append(r.wants, a.v) \in Seq(V)
    BY <1>3
  <2> QED BY <1>2, <1>3, <1>5, <2>1, <2>2 DEF FetchType
<1>6. CASE r.ok /\ a.k = "have"
  <2>1. FetchArg(r, a) = [r EXCEPT !.haves = Append(r.haves, a.v)]
    BY <1>6 DEF FetchArg
  <2>2. Append(r.haves, a.v) \in Seq(V)
    BY <1>3
  <2> QED BY <1>2, <1>3, <1>6, <2>1, <2>2 DEF FetchType
<1>7. CASE r.ok /\ a.k = "filter" /\ a.v # "bad"
  <2>1. FetchArg(r, a) = [r EXCEPT !.filter = a.v]
    BY <1>7 DEF FetchArg
  <2> QED BY <1>2, <1>3, <1>7, <2>1 DEF FetchType
<1>8. CASE r.ok /\ a.k = "done"
  <2>1. FetchArg(r, a) = [r EXCEPT !.done = TRUE]
    BY <1>8 DEF FetchArg
  <2> QED BY <1>2, <1>3, <1>8, <2>1 DEF FetchType
<1>9. CASE r.ok /\ a.k = "flag"
  <2>1. FetchArg(r, a) = r
    BY <1>9 DEF FetchArg
  <2> QED BY <1>9, <2>1
<1>10. CASE /\ r.ok /\ ~(a.k = "want" /\ a.caps = NoCaps) /\ a.k # "have"
            /\ ~(a.k = "filter" /\ a.v # "bad") /\ a.k # "done" /\ a.k # "flag"
  <2>1. FetchArg(r, a) = [r EXCEPT !.ok = FALSE]
    BY <1>10 DEF FetchArg
  <2> QED BY <1>2, <1>3, <1>10, <2>1 DEF FetchType
<1> QED BY <1>4, <1>5, <1>6, <1>7, <1>8, <1>9, <1>10

LEMMA FetchSteps ==
    ASSUME NEW P, NEW s \in Seq(P)
    PROVE  \E f : /\ FetchArgs(s) = f[Len(s)] /\ f[0] = NoArgs
                  /\ \A n \in 1..Len(s) : f[n] = FetchArg(f[n - 1], s[n])
                  /\ \A n \in 0..Len(s) : f[n] \in FetchType(P)
<1> DEFINE Top == Len(s)
           Dom == FetchType(P)
           Step(n, v) == IF n < Top THEN FetchArg(v, s[n + 1]) ELSE v
           D == [y \in Nat \X Dom |-> Step(y[1], y[2])]
<1>0. Top \in Nat /\ \A n \in 1..Top : s[n] \in P
  OBVIOUS
<1> HIDE DEF Top
<1>1. NoArgs \in Dom
  BY DEF NoArgs, FetchType
<1>2. ASSUME NEW n \in Nat, NEW v \in Dom PROVE Step(n, v) \in Dom
  <2>1. n < Top => s[n + 1] \in P
    BY <1>0
  <2> QED BY <2>1, FetchArgFacts
<1> HIDE DEF Dom, Step
<1>3. D \in [Nat \X Dom -> Dom] /\ \A n \in Nat, v \in Dom : D[<<n, v>>] = Step(n, v)
  <2>1. ASSUME NEW y \in Nat \X Dom PROVE Step(y[1], y[2]) \in Dom
    BY <1>2
  <2> QED BY <2>1
<1> HIDE DEF D
<1>4. PICK g : g \in [0..Top -> Dom] /\ g = [n \in 0..Top |-> IF n = 0 THEN NoArgs ELSE D[<<n - 1, g[n - 1]>>]]
  <2>1. PICK g : LooksBack(g, Top, Dom, NoArgs, D)
    BY <1>0, <1>1, <1>3, BoundedRecursion
  <2> QED BY <2>1 DEF LooksBack
<1> DEFINE Row(h, n) == IF n = 0 THEN NoArgs ELSE FetchArg(h[n - 1], s[n])
<1>5. g = [n \in 0..Top |-> Row(g, n)]
  <2>1. ASSUME NEW n \in 0..Top PROVE (IF n = 0 THEN NoArgs ELSE D[<<n - 1, g[n - 1]>>]) = Row(g, n)
    <3>1. CASE n = 0
      BY <3>1
    <3>2. CASE n # 0
      <4>1. n - 1 \in Nat /\ n - 1 \in 0..Top /\ n - 1 < Top /\ (n - 1) + 1 = n
        BY <1>0, <3>2
      <4>2. g[n - 1] \in Dom
        BY <1>4, <4>1
      <4> QED BY <1>3, <3>2, <4>1, <4>2 DEF Step
    <3> QED BY <3>1, <3>2
  <2> HIDE DEF Row
  <2> QED BY <1>4, <2>1
<1> DEFINE f[n \in 0..Top] == Row(f, n)
<1>6. f = [n \in 0..Top |-> Row(f, n)]
  <2> HIDE DEF Row
  <2> QED BY <1>5
<1>7. FetchArgs(s) = f[Top]
  BY DEF FetchArgs, Top
<1> HIDE DEF f
<1>8. f[0] = NoArgs /\ \A n \in 1..Top : f[n] = FetchArg(f[n - 1], s[n])
  <2>1. 0 \in 0..Top /\ \A n \in 1..Top : n \in 0..Top /\ n # 0
    BY <1>0
  <2>2. \A n \in 0..Top : f[n] = Row(f, n)
    <3> HIDE DEF Row
    <3> QED BY <1>6
  <2> QED BY <2>1, <2>2
<1> HIDE DEF Row
<1>9. \A n \in 1..Top : f[n - 1] \in Dom => f[n] \in Dom
  BY <1>0, <1>8, FetchArgFacts DEF Dom
<1>10. \A n \in 0..Top : f[n] \in Dom
  BY <1>0, <1>1, <1>8, <1>9, BackTyped
<1> QED BY <1>7, <1>8, <1>10 DEF Top, Dom

\* What FetchArgs::parse accepts is every argument of the list.
LEMMA FetchedArgs ==
    ASSUME NEW P, NEW s \in Seq(P), FetchArgs(s).ok
    PROVE  /\ FetchArgs(s).wants = Values(Of("want", s))
           /\ FetchArgs(s).haves = Values(Of("have", s))
           /\ FetchArgs(s).filter = IF Occurs("filter", s) THEN Last(Of("filter", s)).v ELSE None
           /\ FetchArgs(s).done = Occurs("done", s)
           /\ \A i \in DOMAIN s : s[i].k \in {"want", "have", "filter", "done", "flag"}
<1>0. Len(s) \in Nat /\ DOMAIN s = 1..Len(s) /\ \A n \in 1..Len(s) : s[n] \in P
  OBVIOUS
<1>1. PICK f : /\ FetchArgs(s) = f[Len(s)] /\ f[0] = NoArgs
               /\ \A n \in 1..Len(s) : f[n] = FetchArg(f[n - 1], s[n])
               /\ \A n \in 0..Len(s) : f[n] \in FetchType(P)
  BY FetchSteps
<1> DEFINE W(n) == OfFirst("want", s, n)
           H(n) == OfFirst("have", s, n)
           F(n) == OfFirst("filter", s, n)
           Has(k, n) == \E i \in 1..n : s[i].k = k
<1>2. /\ W(0) = <<>> /\ H(0) = <<>> /\ F(0) = <<>>
      /\ \A n \in 1..Len(s) : /\ W(n) = Keeping("want", s[n], W(n - 1))
                              /\ H(n) = Keeping("have", s[n], H(n - 1))
                              /\ F(n) = Keeping("filter", s[n], F(n - 1))
      /\ \A n \in 0..Len(s) : W(n) \in Seq(P) /\ H(n) \in Seq(P) /\ F(n) \in Seq(P)
  BY OfSteps
<1> HIDE DEF W, H, F
<1> DEFINE Listed(n) == f[n].wants = Values(W(n)) /\ f[n].haves = Values(H(n))
           Filtered(n) == /\ F(n) = <<>> => f[n].filter = None /\ ~Has("filter", n)
                          /\ F(n) # <<>> => f[n].filter = Last(F(n)).v /\ Has("filter", n)
           Ended(n) == f[n].done = Has("done", n)
           Known(n) == \A i \in 1..n : s[i].k \in {"want", "have", "filter", "done", "flag"}
           Good(n) == n <= Len(s) /\ f[n].ok => Listed(n) /\ Filtered(n) /\ Ended(n) /\ Known(n)
           U == {n \in Nat : Good(n)}
<1>3. Good(0)
  <2>1. Listed(0)
    <3>1. Values(<<>>) = <<>>
      BY DEF Values
    <3> QED BY <1>1, <1>2, <3>1 DEF NoArgs
  <2>2. Filtered(0) /\ Ended(0) /\ Known(0)
    BY <1>1, <1>2 DEF NoArgs
  <2> QED BY <2>1, <2>2
<1>4. ASSUME NEW n \in Nat, Good(n) PROVE Good(n + 1)
  <2> SUFFICES ASSUME n + 1 <= Len(s), f[n + 1].ok
               PROVE  Listed(n + 1) /\ Filtered(n + 1) /\ Ended(n + 1) /\ Known(n + 1)
    OBVIOUS
  <2>1. n + 1 \in 1..Len(s) /\ (n + 1) - 1 = n /\ n <= Len(s) /\ n \in 0..Len(s) /\ n + 1 \in 0..Len(s)
    BY <1>0
  <2>2. PICK a, r, x : a = s[n + 1] /\ r = f[n] /\ x = f[n + 1]
    OBVIOUS
  <2>3. a \in P /\ r \in FetchType(P) /\ x = FetchArg(r, a) /\ x.ok
    BY <1>0, <1>1, <2>1, <2>2
  <2>4. /\ r.ok /\ a.k \in {"want", "have", "filter", "done", "flag"}
        /\ x.wants = IF a.k = "want" THEN Append(r.wants, a.v) ELSE r.wants
        /\ x.haves = IF a.k = "have" THEN Append(r.haves, a.v) ELSE r.haves
        /\ x.filter = IF a.k = "filter" THEN a.v ELSE r.filter
        /\ x.done = IF a.k = "done" THEN TRUE ELSE r.done
    BY <2>3, FetchArgFacts, SMTT(40), ZenonT(40)
  <2>5. Listed(n) /\ Filtered(n) /\ Ended(n) /\ Known(n)
    BY <1>4, <2>1, <2>2, <2>4
  <2>6. \A k : Has(k, n + 1) <=> Has(k, n) \/ a.k = k
    <3>1. \A i \in 1..(n + 1) : i \in 1..n \/ i = n + 1
      OBVIOUS
    <3>2. \A i \in 1..n : i \in 1..(n + 1)
      OBVIOUS
    <3>3. n + 1 \in 1..(n + 1)
      OBVIOUS
    <3> QED BY <2>2, <3>1, <3>2, <3>3
  <2>7. PICK w, h, q : w = W(n) /\ h = H(n) /\ q = F(n)
    OBVIOUS
  <2>8. /\ W(n + 1) = Keeping("want", a, w) /\ H(n + 1) = Keeping("have", a, h)
        /\ F(n + 1) = Keeping("filter", a, q) /\ w \in Seq(P) /\ h \in Seq(P) /\ q \in Seq(P)
    BY <1>2, <2>1, <2>2, <2>7
  <2>9. Values(Append(w, a)) = Append(Values(w), a.v) /\ Values(Append(h, a)) = Append(Values(h), a.v)
    BY <2>3, <2>8, ValuesAppend
  <2>10. Listed(n + 1)
    BY <2>2, <2>4, <2>5, <2>7, <2>8, <2>9 DEF Keeping
  <2>11. Filtered(n + 1)
    <3> HIDE DEF Has
    <3>1. CASE a.k = "filter"
      <4>1. Append(q, a) # <<>> /\ Last(Append(q, a)) = a
        BY <2>3, <2>8, AppendParts
      <4> QED BY <2>2, <2>4, <2>6, <2>8, <3>1, <4>1 DEF Keeping
    <3>2. CASE a.k # "filter"
      BY <2>2, <2>4, <2>5, <2>6, <2>7, <2>8, <3>2 DEF Keeping
    <3> QED BY <3>1, <3>2
  <2>12. Ended(n + 1)
    <3>1. Has("done", n) \in BOOLEAN /\ Has("done", n + 1) \in BOOLEAN
      OBVIOUS
    <3> HIDE DEF Has
    <3> QED BY <2>2, <2>4, <2>5, <2>6, <3>1
  <2>13. Known(n + 1)
    <3>1. \A i \in 1..(n + 1) : i \in 1..n \/ i = n + 1
      OBVIOUS
    <3> QED BY <2>2, <2>4, <2>5, <3>1
  <2> QED BY <2>10, <2>11, <2>12, <2>13
<1>5. U = Nat
  <2>1. 0 \in U /\ \A n \in U : n + 1 \in U
    <3> HIDE DEF Good
    <3> QED BY <1>3, <1>4
  <2> HIDE DEF U
  <2> QED BY <2>1, Induction DEF U
<1>6. Good(Len(s))
  BY <1>0, <1>5
<1>7. Listed(Len(s)) /\ Filtered(Len(s)) /\ Ended(Len(s)) /\ Known(Len(s))
  <2>1. Len(s) <= Len(s) /\ f[Len(s)].ok
    BY <1>0, <1>1
  <2> HIDE DEF Listed, Filtered, Ended, Known
  <2> QED BY <1>6, <2>1
<1>8. \A k : Occurs(k, s) <=> Has(k, Len(s))
  BY <1>0 DEF Occurs
<1>9. FetchArgs(s).filter = IF Occurs("filter", s) THEN Last(Of("filter", s)).v ELSE None
  <2> HIDE DEF Has
  <2> QED BY <1>1, <1>7, <1>8 DEF F, Of
<1>10. FetchArgs(s).done = Occurs("done", s)
  <2>1. Occurs("done", s) \in BOOLEAN /\ Has("done", Len(s)) \in BOOLEAN
    BY DEF Occurs
  <2> HIDE DEF Has
  <2> QED BY <1>1, <1>7, <1>8, <2>1
<1> QED BY <1>0, <1>1, <1>7, <1>9, <1>10 DEF W, H, Of

-----------------------------------------------------------------------------
(* The invariant: a request is what the packets read so far say *)

Shape(P, V, C) ==
    [command : V \cup {None}, format : V \cup {None}, inArgs : BOOLEAN, args : Seq(P),
     wants : Seq(V), haves : Seq(V), done : BOOLEAN, caps : C \cup {NoCaps},
     first : BOOLEAN, commands : Seq(V)]

RequestType(P) == Shape(P, Vals(P), {q.caps : q \in P})

\* The command of a v2 body, before the arguments.
CommandAt(b, i) ==
    \A j \in DOMAIN b : /\ j < i => b[j].k \notin {"command", "delim"}
                        /\ j > i /\ b[j].k = "command" => \E d \in i..j : b[d].k = "delim"

SaysCommand(b, c) ==
    IF c = None THEN \A i \in DOMAIN b : b[i].k = "command" => \E d \in 1..(i - 1) : b[d].k = "delim"
    ELSE \E i \in DOMAIN b : b[i].k = "command" /\ c = b[i].v /\ CommandAt(b, i)

\* The arguments, behind the only delimiter.
SaysArgs(b, r) ==
    IF r.inArgs
    THEN \E d \in DOMAIN b : /\ b[d].k = "delim" /\ Len(r.args) = Len(b) - d
                             /\ \A i \in 1..Len(r.args) : r.args[i] = b[d + i]
                             /\ \A i \in DOMAIN b : b[i].k = "delim" => i = d
    ELSE r.args = <<>> /\ ~Occurs("delim", b)

SoFarV2(b, r) ==
    /\ \A i \in DOMAIN b : b[i].k \notin {"flush", "end", "cut"}
    /\ SaysCommand(b, r.command) /\ SaysArgs(b, r)

SoFarV0(b, r) ==
    /\ \A i \in DOMAIN b : b[i].k \in {"want", "have", "flush", "done"}
    /\ r.wants = Values(Of("want", b)) /\ r.haves = Values(Of("have", b))
    /\ r.done = Occurs("done", b) /\ (r.first <=> Of("want", b) = <<>>)
    /\ ~r.first => r.caps = Of("want", b)[1].caps

SoFarPush(b, r) ==
    /\ \A i \in DOMAIN b : b[i].k = "update"
    /\ r.commands = Values(b) /\ (r.first <=> b = <<>>)
    /\ r.caps = IF b = <<>> THEN NoCaps ELSE b[1].caps

RequestTypes ==
    /\ bodies \in DOMAIN Bodies /\ parser \in {"v2", "v0", "push"}
    /\ body \in Seq(Packets) /\ Len(body) <= Bodies[bodies].packets
    /\ state \in {"reading", "parsed", "answered"}
    /\ reply \in {None, "malformed", "ERR", "404", "pack", "ls-refs", "format", "sizes", "negotiate",
                   "stream", "ingest"}
    /\ (reply # None) <=> (state = "answered")
    /\ req \in RequestType(Packets)
    /\ req.first => req.wants = <<>> /\ req.commands = <<>>

ReadingInv ==
    state = "reading" => CASE parser = "v2" -> SoFarV2(body, req)
                           [] parser = "v0" -> SoFarV0(body, req)
                           [] parser = "push" -> SoFarPush(body, req)

\* The body is b and a flush.
Flushed(b) == b \in Seq(Packets) /\ \E p \in Packets : body = Append(b, p) /\ p.k = "flush"

Whole ==
    CASE parser = "v2" -> req.command # None /\ \E b : Flushed(b) /\ SoFarV2(b, req)
      [] parser = "v0" -> SoFarV0(body, req)
      [] parser = "push" -> \E b : Flushed(b) /\ SoFarPush(b, req)

WholeInv ==
    state = "parsed" \/ reply \in {"pack", "ls-refs", "format", "sizes", "negotiate", "stream", "ingest"}
        => Whole

ReplyInv ==
    /\ reply \in {"pack", "ls-refs", "format", "sizes"} => parser = "v2"
    /\ reply = "pack" => FetchArgs(req.args).ok /\ FetchArgs(req.args).wants # <<>>
    /\ reply = "ls-refs" => ArgsAre({"ref arg"})
    /\ reply = "sizes" => /\ ArgsAre({"oid", "size"})
                          /\ \A i \in DOMAIN req.args : req.args[i].k = "oid" => req.args[i].v \in Stored
    /\ reply \in {"stream", "negotiate"} =>
          parser = "v0" /\ req.wants # <<>> /\ (req.done <=> reply = "stream")
    /\ reply = "ingest" => parser = "push"

RequestInv == RequestTypes /\ ReadingInv /\ WholeInv /\ ReplyInv

LEMMA Appended ==
    ASSUME NEW P, NEW b \in Seq(P), NEW p \in P
    PROVE  \E t : /\ t = Append(b, p) /\ t \in Seq(P) /\ Len(t) = Len(b) + 1 /\ Len(b) \in Nat /\ t[Len(b) + 1] = p
                  /\ DOMAIN t = 1..(Len(b) + 1) /\ DOMAIN b = 1..Len(b)
                  /\ \A n \in 1..Len(b) : t[n] = b[n] /\ b[n] \in P
                  /\ \A n \in 1..(Len(b) + 1) : n \in 1..Len(b) \/ n = Len(b) + 1
                  /\ \A n \in 1..Len(b) : n \in 1..(Len(b) + 1)
                  /\ Len(b) + 1 \in 1..(Len(b) + 1)
<1>1. PICK t : t = Append(b, p)
  OBVIOUS
<1>2. t \in Seq(P) /\ Len(t) = Len(b) + 1 /\ Len(b) \in Nat /\ t[Len(b) + 1] = p
  BY <1>1
<1>3. \A n \in 1..Len(b) : t[n] = b[n] /\ b[n] \in P
  BY <1>1
<1> QED BY <1>1, <1>2, <1>3

\* The command is found once, whatever follows it that is not one, or is an
\* argument.
LEMMA CommandStays ==
    ASSUME NEW P, NEW b \in Seq(P), NEW p \in P, NEW c, SaysCommand(b, c),
           p.k # "command" \/ \E d \in 1..Len(b) : b[d].k = "delim"
    PROVE  SaysCommand(Append(b, p), c)
<1>1. PICK t : /\ t = Append(b, p) /\ t \in Seq(P) /\ Len(t) = Len(b) + 1 /\ Len(b) \in Nat /\ t[Len(b) + 1] = p
               /\ DOMAIN t = 1..(Len(b) + 1) /\ DOMAIN b = 1..Len(b)
               /\ \A n \in 1..Len(b) : t[n] = b[n] /\ b[n] \in P
               /\ \A n \in 1..(Len(b) + 1) : n \in 1..Len(b) \/ n = Len(b) + 1
               /\ \A n \in 1..Len(b) : n \in 1..(Len(b) + 1)
               /\ Len(b) + 1 \in 1..(Len(b) + 1)
  BY Appended
<1>2. CASE c = None
  <2> SUFFICES ASSUME NEW i \in 1..(Len(b) + 1), t[i].k = "command" PROVE \E d \in 1..(i - 1) : t[d].k = "delim"
    BY <1>1, <1>2 DEF SaysCommand
  <2>1. CASE i \in 1..Len(b)
    <3>1. b[i].k = "command"
      BY <1>1, <2>1
    <3>2. PICK d \in 1..(i - 1) : b[d].k = "delim"
      BY <1>1, <1>2, <2>1, <3>1 DEF SaysCommand
    <3>3. d \in 1..Len(b)
      BY <1>1, <2>1
    <3> QED BY <1>1, <3>2, <3>3
  <2>2. CASE i = Len(b) + 1
    <3>1. PICK d \in 1..Len(b) : b[d].k = "delim"
      BY <1>1, <2>2
    <3>2. d \in 1..(i - 1)
      BY <1>1, <2>2
    <3> QED BY <1>1, <3>1, <3>2
  <2> QED BY <1>1, <2>1, <2>2
<1>3. CASE c # None
  <2>1. PICK i \in 1..Len(b) : b[i].k = "command" /\ c = b[i].v /\ CommandAt(b, i)
    BY <1>1, <1>3 DEF SaysCommand
  <2>2. CommandAt(t, i)
    <3> SUFFICES ASSUME NEW j \in 1..(Len(b) + 1)
                 PROVE  /\ j < i => t[j].k \notin {"command", "delim"}
                        /\ j > i /\ t[j].k = "command" => \E d \in i..j : t[d].k = "delim"
      BY <1>1 DEF CommandAt
    <3>1. CASE j \in 1..Len(b)
      <4>1. t[j] = b[j]
        BY <1>1, <3>1
      <4>2. j < i => b[j].k \notin {"command", "delim"}
        BY <1>1, <2>1, <3>1 DEF CommandAt
      <4>3. ASSUME j > i, b[j].k = "command" PROVE \E d \in i..j : t[d].k = "delim"
        <5>1. PICK d \in i..j : b[d].k = "delim"
          BY <1>1, <2>1, <3>1, <4>3 DEF CommandAt
        <5>2. d \in 1..Len(b)
          BY <1>1, <3>1
        <5> QED BY <1>1, <5>1, <5>2
      <4> QED BY <4>1, <4>2, <4>3
    <3>2. CASE j = Len(b) + 1
      <4>1. ~(j < i)
        BY <1>1, <3>2
      <4>2. ASSUME t[j].k = "command" PROVE \E d \in i..j : t[d].k = "delim"
        <5>1. PICK d \in 1..Len(b) : b[d].k = "delim"
          BY <1>1, <3>2, <4>2
        <5>2. ~(d < i)
          BY <1>1, <2>1, <5>1 DEF CommandAt
        <5>3. d \in i..j
          BY <1>1, <3>2, <5>2
        <5> QED BY <1>1, <5>1, <5>3
      <4> QED BY <4>1, <4>2
    <3> QED BY <1>1, <3>1, <3>2
  <2>3. i \in DOMAIN t /\ t[i] = b[i]
    BY <1>1
  <2>4. \E x \in DOMAIN t : t[x].k = "command" /\ c = t[x].v /\ CommandAt(t, x)
    BY <2>1, <2>2, <2>3
  <2> QED BY <1>1, <1>3, <2>4 DEF SaysCommand
<1> QED BY <1>2, <1>3

\* What stays of a request while a v2 body is read.
SameLists(r, q) == q.first = r.first /\ q.wants = r.wants /\ q.commands = r.commands

LEMMA ReadV2Step ==
    ASSUME NEW P, NEW b \in Seq(P), NEW p \in P, NEW r \in RequestType(P), SoFarV2(b, r),
           p.k = "command" => p.v # None
    PROVE  \/ ReadV2(r, p) = Refused(r, "malformed")
           \/ ReadV2(r, p) = Parsed(r) /\ p.k = "flush" /\ r.command # None
           \/ \E q \in RequestType(P) :
                 ReadV2(r, p) = Reading(q) /\ SoFarV2(Append(b, p), q) /\ SameLists(r, q)
<1>1. PICK t : /\ t = Append(b, p) /\ t \in Seq(P) /\ Len(t) = Len(b) + 1 /\ Len(b) \in Nat /\ t[Len(b) + 1] = p
               /\ DOMAIN t = 1..(Len(b) + 1) /\ DOMAIN b = 1..Len(b)
               /\ \A n \in 1..Len(b) : t[n] = b[n] /\ b[n] \in P
               /\ \A n \in 1..(Len(b) + 1) : n \in 1..Len(b) \/ n = Len(b) + 1
               /\ \A n \in 1..Len(b) : n \in 1..(Len(b) + 1)
               /\ Len(b) + 1 \in 1..(Len(b) + 1)
  BY Appended
<1>2. PICK V, C : V = Vals(P) /\ C = {q.caps : q \in P}
  OBVIOUS
<1>3. RequestType(P) = Shape(P, V, C) /\ r \in Shape(P, V, C) /\ p.v \in V
  BY <1>2 DEF RequestType, Vals
<1>4. p.k \notin {"flush", "end", "cut"} => \A i \in DOMAIN t : t[i].k \notin {"flush", "end", "cut"}
  BY <1>1 DEF SoFarV2
<1>5. r.inArgs => \E d \in 1..Len(b) : b[d].k = "delim"
  BY <1>1 DEF SoFarV2, SaysArgs
<1>6. p.k # "command" \/ r.inArgs => SaysCommand(t, r.command)
  BY <1>1, <1>5, CommandStays DEF SoFarV2
<1>7. p.k # "delim" /\ ~r.inArgs => ~Occurs("delim", t) /\ r.args = <<>>
  BY <1>1 DEF SoFarV2, SaysArgs, Occurs
<1>8. CASE p.k \in {"flush", "end", "cut"}
  BY <1>8 DEF ReadV2
<1>9. CASE p.k = "delim"
  <2>1. CASE r.inArgs
    BY <1>9, <2>1 DEF ReadV2
  <2>2. CASE ~r.inArgs
    <3>1. PICK q : q = [r EXCEPT !.inArgs = TRUE]
      OBVIOUS
    <3>2. ReadV2(r, p) = Reading(q)
      BY <1>9, <2>2, <3>1 DEF ReadV2
    <3>3. /\ q \in RequestType(P) /\ SameLists(r, q) /\ q.command = r.command /\ q.inArgs
          /\ q.args = r.args
      BY <1>3, <3>1 DEF SameLists, Shape
    <3>4. r.args = <<>> /\ \A i \in 1..Len(b) : b[i].k # "delim"
      BY <1>1, <2>2 DEF SoFarV2, SaysArgs, Occurs
    <3>5. SaysArgs(t, q)
      <4>1. Len(q.args) = 0 /\ Len(t) - (Len(b) + 1) = 0
        BY <1>1, <3>3, <3>4
      <4>2. \A i \in DOMAIN t : t[i].k = "delim" => i = Len(b) + 1
        BY <1>1, <3>4
      <4>3. Len(b) + 1 \in DOMAIN t /\ t[Len(b) + 1].k = "delim"
        BY <1>1, <1>9
      <4>4. \A i \in 1..Len(q.args) : q.args[i] = t[(Len(b) + 1) + i]
        BY <4>1
      <4> HIDE <1>1, <1>3
      <4> QED BY <3>3, <4>1, <4>2, <4>3, <4>4 DEF SaysArgs
    <3>6. SoFarV2(t, q)
      BY <1>4, <1>6, <1>9, <3>3, <3>5 DEF SoFarV2
    <3> QED BY <1>1, <3>2, <3>3, <3>6
  <2> QED BY <2>1, <2>2
<1>10. CASE r.inArgs /\ p.k \notin {"flush", "delim", "end", "cut"}
  <2>1. PICK q : q = [r EXCEPT !.args = Append(r.args, p)]
    OBVIOUS
  <2>2. ReadV2(r, p) = Reading(q)
    BY <1>10, <2>1 DEF ReadV2
  <2>3. PICK x, y : x = r.args /\ y = Append(x, p)
    OBVIOUS
  <2>4. x \in Seq(P)
    BY <1>3, <2>3 DEF Shape
  <2>5. y \in Seq(P) /\ Len(x) \in Nat /\ Len(y) = Len(x) + 1 /\ y[Len(x) + 1] = p
        /\ \A i \in 1..Len(x) : y[i] = x[i]
    BY <2>3, <2>4
  <2>6. q.args = y /\ q.inArgs /\ q.command = r.command /\ SameLists(r, q) /\ q \in RequestType(P)
    BY <1>3, <1>10, <2>1, <2>3, <2>5 DEF SameLists, Shape
  <2>7. PICK d \in 1..Len(b) : /\ b[d].k = "delim" /\ Len(x) = Len(b) - d
                               /\ \A i \in 1..Len(x) : x[i] = b[d + i]
                               /\ \A i \in DOMAIN b : b[i].k = "delim" => i = d
    <3>1. SaysArgs(b, r) /\ r.inArgs
      BY <1>10 DEF SoFarV2
    <3>2. \E d \in DOMAIN b : /\ b[d].k = "delim" /\ Len(r.args) = Len(b) - d
                              /\ \A i \in 1..Len(r.args) : r.args[i] = b[d + i]
                              /\ \A i \in DOMAIN b : b[i].k = "delim" => i = d
      BY <3>1, Zenon DEF SaysArgs
    <3>3. DOMAIN b = 1..Len(b)
      BY <1>1
    <3> QED BY <2>3, <3>2, <3>3, Zenon
  <2>8. SaysArgs(t, q)
    <3>1. Len(y) = Len(t) - d /\ d + (Len(x) + 1) = Len(b) + 1
      BY <1>1, <2>5, <2>7
    <3>2. \A i \in 1..Len(y) : y[i] = t[d + i]
      <4> SUFFICES ASSUME NEW i \in 1..Len(y) PROVE y[i] = t[d + i]
        OBVIOUS
      <4>1. CASE i \in 1..Len(x)
        <5>1. d + i \in 1..Len(b)
          BY <1>1, <2>5, <2>7, <4>1
        <5> QED BY <1>1, <2>5, <2>7, <4>1, <5>1
      <4>2. CASE i = Len(x) + 1
        BY <1>1, <2>5, <3>1, <4>2
      <4> QED BY <2>5, <4>1, <4>2
    <3>3. \A i \in DOMAIN t : t[i].k = "delim" => i = d
      BY <1>1, <1>10, <2>7
    <3>4. d \in DOMAIN t /\ t[d].k = "delim"
      BY <1>1, <2>7
    <3> QED BY <2>6, <3>1, <3>2, <3>3, <3>4 DEF SaysArgs
  <2>9. SoFarV2(t, q)
    BY <1>4, <1>6, <1>10, <2>6, <2>8 DEF SoFarV2
  <2> QED BY <1>1, <2>2, <2>6, <2>9
<1>11. CASE ~r.inArgs /\ p.k = "command"
  <2>1. CASE r.command # None
    BY <1>11, <2>1 DEF ReadV2
  <2>2. CASE r.command = None
    <3>1. PICK q : q = [r EXCEPT !.command = p.v]
      OBVIOUS
    <3>2. ReadV2(r, p) = Reading(q)
      BY <1>11, <2>2, <3>1 DEF ReadV2
    <3>3. /\ q \in RequestType(P) /\ SameLists(r, q) /\ q.command = p.v /\ ~q.inArgs
          /\ q.args = r.args
      BY <1>3, <1>11, <3>1 DEF SameLists, Shape
    <3>4. SaysArgs(t, q)
      BY <1>7, <1>11, <3>3 DEF SaysArgs
    <3>5. \A i \in 1..Len(b) : b[i].k # "delim"
      BY <1>1, <1>11 DEF SoFarV2, SaysArgs, Occurs
    <3>6. \A i \in 1..Len(b) : b[i].k # "command"
      <4> SUFFICES ASSUME NEW i \in 1..Len(b), b[i].k = "command" PROVE FALSE
        OBVIOUS
      <4>1. PICK d \in 1..(i - 1) : b[d].k = "delim"
        BY <1>1, <2>2 DEF SoFarV2, SaysCommand
      <4>2. d \in 1..Len(b)
        BY <1>1
      <4> QED BY <3>5, <4>1, <4>2
    <3>7. CommandAt(t, Len(b) + 1)
      <4> SUFFICES ASSUME NEW j \in 1..(Len(b) + 1)
                   PROVE  /\ j < Len(b) + 1 => t[j].k \notin {"command", "delim"}
                          /\ ~(j > Len(b) + 1)
        BY <1>1 DEF CommandAt
      <4> QED BY <1>1, <3>5, <3>6
    <3>8. SaysCommand(t, p.v)
      BY <1>1, <1>11, <3>7 DEF SaysCommand
    <3>9. SoFarV2(t, q)
      BY <1>4, <1>11, <3>3, <3>4, <3>8 DEF SoFarV2
    <3> QED BY <1>1, <3>2, <3>3, <3>9
  <2> QED BY <2>1, <2>2
<1>12. CASE ~r.inArgs /\ p.k = "object-format"
  <2>1. PICK q : q = [r EXCEPT !.format = p.v]
    OBVIOUS
  <2>2. ReadV2(r, p) = Reading(q)
    BY <1>12, <2>1 DEF ReadV2
  <2>3. /\ q \in RequestType(P) /\ SameLists(r, q) /\ q.command = r.command /\ ~q.inArgs
        /\ q.args = r.args
    BY <1>3, <1>12, <2>1 DEF SameLists, Shape
  <2>4. SaysArgs(t, q) /\ SaysCommand(t, q.command)
    BY <1>6, <1>7, <1>12, <2>3 DEF SaysArgs
  <2>5. SoFarV2(t, q)
    BY <1>4, <1>12, <2>4 DEF SoFarV2
  <2> QED BY <1>1, <2>2, <2>3, <2>5
<1>13. CASE ~r.inArgs /\ p.k \notin {"flush", "delim", "end", "cut", "command", "object-format"}
  <2>1. ReadV2(r, p) = Reading(r)
    BY <1>13 DEF ReadV2
  <2>2. SaysArgs(t, r) /\ SaysCommand(t, r.command)
    BY <1>6, <1>7, <1>13 DEF SaysArgs
  <2>3. SoFarV2(t, r)
    BY <1>4, <1>13, <2>2 DEF SoFarV2
  <2> QED BY <1>1, <2>1, <2>3 DEF SameLists
<1> QED BY <1>8, <1>9, <1>10, <1>11, <1>12, <1>13

LEMMA ReadV0Step ==
    ASSUME NEW P, NEW b \in Seq(P), NEW p \in P, NEW r \in RequestType(P), SoFarV0(b, r),
           r.first => r.wants = <<>> /\ r.commands = <<>>
    PROVE  \/ \E a \in {"malformed", "ERR"} : ReadV0(r, p) = Refused(r, a)
           \/ \E q \in RequestType(P) :
                 /\ ReadV0(r, p) \in {Reading(q), Parsed(q)} /\ SoFarV0(Append(b, p), q)
                 /\ q.first => q.wants = <<>> /\ q.commands = <<>>
<1>1. PICK t : /\ t = Append(b, p) /\ t \in Seq(P) /\ Len(t) = Len(b) + 1 /\ Len(b) \in Nat /\ t[Len(b) + 1] = p
               /\ DOMAIN t = 1..(Len(b) + 1) /\ DOMAIN b = 1..Len(b)
               /\ \A n \in 1..Len(b) : t[n] = b[n] /\ b[n] \in P
               /\ \A n \in 1..(Len(b) + 1) : n \in 1..Len(b) \/ n = Len(b) + 1
               /\ \A n \in 1..Len(b) : n \in 1..(Len(b) + 1)
               /\ Len(b) + 1 \in 1..(Len(b) + 1)
  BY Appended
<1>2. PICK V, C : V = Vals(P) /\ C = {q.caps : q \in P}
  OBVIOUS
<1>3. RequestType(P) = Shape(P, V, C) /\ r \in Shape(P, V, C) /\ p.v \in V /\ p.caps \in C
  BY <1>2 DEF RequestType, Vals
<1>4. p.k \in {"want", "have", "flush", "done"} => \A i \in DOMAIN t : t[i].k \in {"want", "have", "flush", "done"}
  BY <1>1 DEF SoFarV0
<1>5. PICK w, h : w = Of("want", b) /\ h = Of("have", b)
  OBVIOUS
<1>6. /\ w \in Seq(P) /\ h \in Seq(P)
      /\ Of("want", t) = Keeping("want", p, w) /\ Of("have", t) = Keeping("have", p, h)
  BY <1>1, <1>5, OfAppend
<1>7. Values(Append(w, p)) = Append(Values(w), p.v) /\ Values(Append(h, p)) = Append(Values(h), p.v)
  BY <1>6, ValuesAppend
<1>8. Occurs("done", t) <=> Occurs("done", b) \/ p.k = "done"
  BY <1>1 DEF Occurs
<1>9. Occurs("done", t) \in BOOLEAN /\ Occurs("done", b) \in BOOLEAN
  BY DEF Occurs
<1>10. r.wants = Values(w) /\ r.haves = Values(h) /\ r.done = Occurs("done", b) /\ (r.first <=> w = <<>>)
       /\ (~r.first => r.caps = w[1].caps)
  BY <1>5 DEF SoFarV0
<1>11. CASE p.k = "flush"
  <2>1. ReadV0(r, p) = Reading(r)
    BY <1>11 DEF ReadV0
  <2>2. SoFarV0(t, r)
    BY <1>4, <1>6, <1>8, <1>9, <1>10, <1>11 DEF SoFarV0, Keeping
  <2> QED BY <1>1, <2>1, <2>2
<1>12. CASE p.k = "done"
  <2>1. PICK q : q = [r EXCEPT !.done = TRUE]
    OBVIOUS
  <2>2. ReadV0(r, p) = Parsed(q)
    BY <1>12, <2>1 DEF ReadV0
  <2>3. q \in RequestType(P) /\ q.done = TRUE /\ q.wants = r.wants /\ q.haves = r.haves /\ q.first = r.first
        /\ q.caps = r.caps /\ q.commands = r.commands
    BY <1>3, <2>1 DEF Shape
  <2>4. SoFarV0(t, q)
    BY <1>4, <1>6, <1>8, <1>9, <1>10, <1>12, <2>3 DEF SoFarV0, Keeping
  <2> QED BY <1>1, <2>2, <2>3, <2>4
<1>13. CASE p.k = "have"
  <2>1. PICK q : q = [r EXCEPT !.haves = Append(r.haves, p.v)]
    OBVIOUS
  <2>2. ReadV0(r, p) = Reading(q)
    BY <1>13, <2>1 DEF ReadV0
  <2>3. Append(r.haves, p.v) \in Seq(V)
    BY <1>3 DEF Shape
  <2>4. q \in RequestType(P) /\ q.done = r.done /\ q.wants = r.wants /\ q.haves = Append(r.haves, p.v)
        /\ q.first = r.first /\ q.caps = r.caps /\ q.commands = r.commands
    BY <1>3, <2>1, <2>3 DEF Shape
  <2>5. SoFarV0(t, q)
    BY <1>4, <1>6, <1>7, <1>8, <1>9, <1>10, <1>13, <2>4 DEF SoFarV0, Keeping
  <2> QED BY <1>1, <2>2, <2>4, <2>5
<1>14. CASE p.k = "want"
  <2>1. PICK q : q = [r EXCEPT !.wants = Append(r.wants, p.v), !.caps = TakeCaps(r, p), !.first = FALSE]
    OBVIOUS
  <2>2. ReadV0(r, p) = Reading(q)
    BY <1>14, <2>1 DEF ReadV0
  <2>3. Append(r.wants, p.v) \in Seq(V) /\ TakeCaps(r, p) \in C \cup {NoCaps}
    BY <1>3 DEF TakeCaps, Shape
  <2>4. q \in RequestType(P) /\ q.done = r.done /\ q.haves = r.haves /\ q.wants = Append(r.wants, p.v)
        /\ q.first = FALSE /\ q.caps = TakeCaps(r, p) /\ q.commands = r.commands
    BY <1>3, <2>1, <2>3 DEF Shape
  <2>5. PICK x : x = Append(w, p)
    OBVIOUS
  <2>6. x # <<>> /\ x[1] = IF w = <<>> THEN p ELSE w[1]
    BY <1>6, <2>5
  <2>7. TakeCaps(r, p) = x[1].caps
    BY <1>10, <2>6 DEF TakeCaps
  <2>8. Of("want", t) = x /\ Of("have", t) = h
    BY <1>6, <1>14, <2>5 DEF Keeping
  <2>9. q.wants = Values(x)
    BY <1>7, <1>10, <2>4, <2>5
  <2>10. SoFarV0(t, q)
    BY <1>4, <1>8, <1>9, <1>10, <1>14, <2>4, <2>6, <2>7, <2>8, <2>9 DEF SoFarV0
  <2> QED BY <1>1, <2>2, <2>4, <2>10
<1>15. CASE p.k \notin {"flush", "done", "have", "want"}
  BY <1>15 DEF ReadV0
<1> QED BY <1>11, <1>12, <1>13, <1>14, <1>15

LEMMA ReadPushStep ==
    ASSUME NEW P, NEW b \in Seq(P), NEW p \in P, NEW r \in RequestType(P), SoFarPush(b, r),
           r.first => r.wants = <<>> /\ r.commands = <<>>
    PROVE  \/ ReadPush(r, p) = Refused(r, "malformed")
           \/ ReadPush(r, p) = Parsed(r) /\ p.k = "flush"
           \/ \E q \in RequestType(P) :
                 /\ ReadPush(r, p) = Reading(q) /\ SoFarPush(Append(b, p), q)
                 /\ q.first => q.wants = <<>> /\ q.commands = <<>>
<1>1. PICK t : /\ t = Append(b, p) /\ t \in Seq(P) /\ Len(t) = Len(b) + 1 /\ Len(b) \in Nat /\ t[Len(b) + 1] = p
               /\ DOMAIN t = 1..(Len(b) + 1) /\ DOMAIN b = 1..Len(b)
               /\ \A n \in 1..Len(b) : t[n] = b[n] /\ b[n] \in P
               /\ \A n \in 1..(Len(b) + 1) : n \in 1..Len(b) \/ n = Len(b) + 1
               /\ \A n \in 1..Len(b) : n \in 1..(Len(b) + 1)
               /\ Len(b) + 1 \in 1..(Len(b) + 1)
  BY Appended
<1>2. PICK V, C : V = Vals(P) /\ C = {q.caps : q \in P}
  OBVIOUS
<1>3. RequestType(P) = Shape(P, V, C) /\ r \in Shape(P, V, C) /\ p.v \in V /\ p.caps \in C
  BY <1>2 DEF RequestType, Vals
<1>4. Values(t) = Append(Values(b), p.v)
  BY <1>1, ValuesAppend
<1>5. CASE p.k = "flush"
  BY <1>5 DEF ReadPush
<1>6. CASE p.k = "update"
  <2>1. PICK q : q = [r EXCEPT !.commands = Append(r.commands, p.v), !.caps = TakeCaps(r, p), !.first = FALSE]
    OBVIOUS
  <2>2. ReadPush(r, p) = Reading(q)
    BY <1>6, <2>1 DEF ReadPush
  <2>3. Append(r.commands, p.v) \in Seq(V) /\ TakeCaps(r, p) \in C \cup {NoCaps}
    BY <1>3 DEF TakeCaps, Shape
  <2>4. q \in RequestType(P) /\ q.commands = Append(r.commands, p.v)
        /\ q.first = FALSE /\ q.caps = TakeCaps(r, p)
    BY <1>3, <2>1, <2>3 DEF Shape
  <2>5. t # <<>> /\ t[1] = IF b = <<>> THEN p ELSE b[1]
    BY <1>1
  <2>6. TakeCaps(r, p) = t[1].caps
    BY <2>5 DEF TakeCaps, SoFarPush
  <2>7. \A i \in DOMAIN t : t[i].k = "update"
    BY <1>1, <1>6 DEF SoFarPush
  <2>8. q.commands = Values(t)
    BY <1>4, <2>4 DEF SoFarPush
  <2>9. SoFarPush(t, q)
    BY <2>4, <2>5, <2>6, <2>7, <2>8 DEF SoFarPush
  <2> QED BY <1>1, <2>2, <2>4, <2>9
<1>7. CASE p.k \notin {"flush", "update"}
  BY <1>7 DEF ReadPush
<1> QED BY <1>5, <1>6, <1>7

-----------------------------------------------------------------------------
(* The steps *)

LEMMA CommandsAreNamed ==
    ASSUME bodies \in DOMAIN Bodies
    PROVE  \A p \in Packets : p.k = "command" => p.v # None
<1>1. \A p \in Bodies[bodies].lines : p.k = "command" => p.v # None
  BY RequestsAssumption
<1> QED BY <1>1 DEF Packets, Flush, Delim, ResponseEnd, Cut

Outcome(p) ==
    CASE parser = "v2" -> ReadV2(req, p)
      [] parser = "v0" -> ReadV0(req, p)
      [] parser = "push" -> ReadPush(req, p)

\* A packet ends the body with a refusal, ends it whole, or adds a line.
Refusal(p) == \E a \in {"malformed", "ERR"} : Outcome(p) = Refused(req, a)

Completes(p) ==
    \E q \in RequestType(Packets) :
        /\ Outcome(p) = Parsed(q)
        /\ q.first => q.wants = <<>> /\ q.commands = <<>>
        /\ parser = "v0" => SoFarV0(Append(body, p), q)
        /\ parser # "v0" => p.k = "flush"
        /\ parser = "v2" => SoFarV2(body, q) /\ q.command # None
        /\ parser = "push" => SoFarPush(body, q)

Extends(p) ==
    \E q \in RequestType(Packets) :
        /\ Outcome(p) = Reading(q)
        /\ q.first => q.wants = <<>> /\ q.commands = <<>>
        /\ parser = "v0" => SoFarV0(Append(body, p), q)
        /\ parser = "v2" => SoFarV2(Append(body, p), q)
        /\ parser = "push" => SoFarPush(Append(body, p), q)

LEMMA Outcomes ==
    ASSUME RequestInv, state = "reading", NEW p \in Packets
    PROVE  Refusal(p) \/ Completes(p) \/ Extends(p)
<1>1. /\ body \in Seq(Packets) /\ req \in RequestType(Packets) /\ parser \in {"v2", "v0", "push"}
      /\ (req.first => req.wants = <<>> /\ req.commands = <<>>) /\ bodies \in DOMAIN Bodies
  BY DEF RequestInv, RequestTypes
<1>2. p.k = "command" => p.v # None
  BY <1>1, CommandsAreNamed
<1>3. CASE parser = "v2"
  <2>1. SoFarV2(body, req) /\ Outcome(p) = ReadV2(req, p)
    BY <1>3 DEF RequestInv, ReadingInv, Outcome
  <2>2. \/ ReadV2(req, p) = Refused(req, "malformed")
        \/ ReadV2(req, p) = Parsed(req) /\ p.k = "flush" /\ req.command # None
        \/ \E q \in RequestType(Packets) :
              ReadV2(req, p) = Reading(q) /\ SoFarV2(Append(body, p), q) /\ SameLists(req, q)
    BY <1>1, <1>2, <2>1, ReadV2Step
  <2>3. CASE ReadV2(req, p) = Refused(req, "malformed")
    BY <2>1, <2>3 DEF Refusal
  <2>4. CASE ReadV2(req, p) = Parsed(req) /\ p.k = "flush" /\ req.command # None
    BY <1>1, <1>3, <2>1, <2>4, Zenon DEF Completes
  <2>5. CASE \E q \in RequestType(Packets) :
                ReadV2(req, p) = Reading(q) /\ SoFarV2(Append(body, p), q) /\ SameLists(req, q)
    <3>1. PICK q \in RequestType(Packets) :
                  ReadV2(req, p) = Reading(q) /\ SoFarV2(Append(body, p), q) /\ SameLists(req, q)
      BY <2>5
    <3>2. q.first => q.wants = <<>> /\ q.commands = <<>>
      BY <1>1, <3>1 DEF SameLists
    <3>3. "v2" # "v0" /\ "v2" # "push"
      OBVIOUS
    <3> QED BY <1>3, <2>1, <3>1, <3>2, <3>3, Zenon DEF Extends
  <2> QED BY <2>2, <2>3, <2>4, <2>5
<1>4. CASE parser = "v0"
  <2>1. SoFarV0(body, req) /\ Outcome(p) = ReadV0(req, p)
    BY <1>4 DEF RequestInv, ReadingInv, Outcome
  <2>2. \/ \E a \in {"malformed", "ERR"} : ReadV0(req, p) = Refused(req, a)
        \/ \E q \in RequestType(Packets) :
              /\ ReadV0(req, p) \in {Reading(q), Parsed(q)} /\ SoFarV0(Append(body, p), q)
              /\ q.first => q.wants = <<>> /\ q.commands = <<>>
    BY <1>1, <2>1, ReadV0Step
  <2>3. CASE \E a \in {"malformed", "ERR"} : ReadV0(req, p) = Refused(req, a)
    BY <2>1, <2>3 DEF Refusal
  <2>4. ASSUME NEW q \in RequestType(Packets),
               ReadV0(req, p) \in {Reading(q), Parsed(q)}, SoFarV0(Append(body, p), q),
               q.first => q.wants = <<>> /\ q.commands = <<>>
        PROVE  Completes(p) \/ Extends(p)
    <3>1. "v0" # "v2" /\ "v0" # "push"
      OBVIOUS
    <3>2. CASE Outcome(p) = Reading(q)
      BY <1>4, <2>4, <3>1, <3>2, Zenon DEF Extends
    <3>3. CASE Outcome(p) = Parsed(q)
      BY <1>4, <2>4, <3>1, <3>3, Zenon DEF Completes
    <3> QED BY <2>1, <2>4, <3>2, <3>3
  <2> QED BY <2>2, <2>3, <2>4
<1>5. CASE parser = "push"
  <2>1. SoFarPush(body, req) /\ Outcome(p) = ReadPush(req, p)
    BY <1>5 DEF RequestInv, ReadingInv, Outcome
  <2>2. \/ ReadPush(req, p) = Refused(req, "malformed")
        \/ ReadPush(req, p) = Parsed(req) /\ p.k = "flush"
        \/ \E q \in RequestType(Packets) :
              /\ ReadPush(req, p) = Reading(q) /\ SoFarPush(Append(body, p), q)
              /\ q.first => q.wants = <<>> /\ q.commands = <<>>
    BY <1>1, <2>1, ReadPushStep
  <2>3. "push" # "v2" /\ "push" # "v0"
    OBVIOUS
  <2>4. CASE ReadPush(req, p) = Refused(req, "malformed")
    BY <2>1, <2>4 DEF Refusal
  <2>5. CASE ReadPush(req, p) = Parsed(req) /\ p.k = "flush"
    BY <1>1, <1>5, <2>1, <2>3, <2>5, Zenon DEF Completes
  <2>6. CASE \E q \in RequestType(Packets) :
                /\ ReadPush(req, p) = Reading(q) /\ SoFarPush(Append(body, p), q)
                /\ q.first => q.wants = <<>> /\ q.commands = <<>>
    BY <1>5, <2>1, <2>3, <2>6, Zenon DEF Extends
  <2> QED BY <2>2, <2>4, <2>5, <2>6
<1> QED BY <1>1, <1>3, <1>4, <1>5

LEMMA ReadKeeps ==
    ASSUME RequestInv, NEW p \in Packets, Read(p)
    PROVE  RequestInv'
<1>1. /\ body \in Seq(Packets) /\ req \in RequestType(Packets) /\ parser \in {"v2", "v0", "push"}
      /\ bodies \in DOMAIN Bodies /\ (req.first => req.wants = <<>> /\ req.commands = <<>>)
      /\ Bodies[bodies].packets \in Nat /\ reply = None
  BY RequestsAssumption DEF RequestInv, RequestTypes, Read
<1>2. /\ state = "reading" /\ Len(body) < Bodies[bodies].packets /\ body' = Append(body, p)
      /\ state' = Outcome(p).state
      /\ IF Outcome(p).state = "answered" THEN reply' = Outcome(p).req.command /\ req' = req
         ELSE req' = Outcome(p).req /\ reply' = reply
      /\ bodies' = bodies /\ parser' = parser
  BY DEF Read, Outcome
<1>3. Packets' = Packets
  BY <1>2 DEF Packets
<1>4. body' \in Seq(Packets) /\ Len(body') <= Bodies[bodies].packets
  BY <1>1, <1>2
<1>5. CASE Refusal(p)
  <2>1. PICK a \in {"malformed", "ERR"} : Outcome(p) = Refused(req, a)
    BY <1>5 DEF Refusal
  <2>2. Refused(req, a).state = "answered" /\ Refused(req, a).req.command = a
    BY <1>1 DEF Refused, RequestType, Shape
  <2>3. state' = "answered" /\ reply' = a /\ req' = req
    BY <1>2, <2>1, <2>2
  <2>4. RequestTypes'
    BY <1>1, <1>2, <1>3, <1>4, <2>3 DEF RequestTypes, None
  <2>5. ReadingInv' /\ WholeInv' /\ ReplyInv'
    BY <2>3 DEF ReadingInv, WholeInv, ReplyInv
  <2> QED BY <2>4, <2>5 DEF RequestInv
<1>6. CASE Completes(p)
  <2>1. PICK q \in RequestType(Packets) :
                /\ Outcome(p) = Parsed(q)
                /\ q.first => q.wants = <<>> /\ q.commands = <<>>
                /\ parser = "v0" => SoFarV0(Append(body, p), q)
                /\ parser # "v0" => p.k = "flush"
                /\ parser = "v2" => SoFarV2(body, q) /\ q.command # None
                /\ parser = "push" => SoFarPush(body, q)
    BY <1>6 DEF Completes
  <2>2. Parsed(q).state = "parsed" /\ Parsed(q).req = q
    BY DEF Parsed
  <2>3. state' = "parsed" /\ reply' = None /\ req' = q
    BY <1>1, <1>2, <2>1, <2>2
  <2>4. RequestTypes'
    BY <1>1, <1>2, <1>3, <1>4, <2>1, <2>3 DEF RequestTypes
  <2>5. ReadingInv' /\ ReplyInv'
    BY <2>3 DEF ReadingInv, ReplyInv, None
  <2>0. PICK b : b = body
    OBVIOUS
  <2>6. parser # "v0" => Flushed(b)'
    <3>1. ASSUME parser # "v0" PROVE b \in Seq(Packets') /\ \E x \in Packets' : body' = Append(b, x) /\ x.k = "flush"
      BY <1>1, <1>2, <1>3, <2>0, <2>1, <3>1
    <3> QED BY <3>1 DEF Flushed
  <2>7. Whole'
    <3>1. CASE parser = "v2"
      <4>1. (req.command # None)' /\ SoFarV2(b, req') /\ Flushed(b)'
        BY <2>0, <2>1, <2>3, <2>6, <3>1
      <4> QED BY <1>2, <3>1, <4>1 DEF Whole
    <3>2. CASE parser = "v0"
      BY <1>2, <2>1, <2>3, <3>2 DEF Whole
    <3>3. CASE parser = "push"
      <4>1. SoFarPush(b, req') /\ Flushed(b)'
        BY <2>0, <2>1, <2>3, <2>6, <3>3
      <4> QED BY <1>2, <3>3, <4>1 DEF Whole
    <3> QED BY <1>1, <3>1, <3>2, <3>3
  <2> QED BY <2>4, <2>5, <2>7 DEF RequestInv, WholeInv
<1>7. CASE Extends(p)
  <2>1. PICK q \in RequestType(Packets) :
                /\ Outcome(p) = Reading(q)
                /\ q.first => q.wants = <<>> /\ q.commands = <<>>
                /\ parser = "v0" => SoFarV0(Append(body, p), q)
                /\ parser = "v2" => SoFarV2(Append(body, p), q)
                /\ parser = "push" => SoFarPush(Append(body, p), q)
    BY <1>7 DEF Extends
  <2>2. Reading(q).state = "reading" /\ Reading(q).req = q
    BY DEF Reading
  <2>3. state' = "reading" /\ reply' = None /\ req' = q
    BY <1>1, <1>2, <2>1, <2>2
  <2>4. RequestTypes'
    BY <1>1, <1>2, <1>3, <1>4, <2>1, <2>3 DEF RequestTypes
  <2>5. ReadingInv'
    BY <1>1, <1>2, <2>1, <2>3 DEF ReadingInv
  <2>6. ReplyInv' /\ WholeInv'
    BY <2>3 DEF ReplyInv, WholeInv, None
  <2> QED BY <2>4, <2>5, <2>6 DEF RequestInv
<1> QED BY <1>2, <1>5, <1>6, <1>7, Outcomes

LEMMA EndKeeps ==
    ASSUME RequestInv, EndOfBody
    PROVE  RequestInv'
<1>1. state = "reading" /\ reply = None /\ bodies' = bodies /\ parser' = parser /\ body' = body /\ req' = req
  BY DEF RequestInv, RequestTypes, EndOfBody
<1>2. Packets' = Packets
  BY <1>1 DEF Packets
<1>3. CASE parser = "v0" /\ body # <<>>
  <2>1. state' = "parsed" /\ reply' = None
    BY <1>1, <1>3 DEF EndOfBody
  <2>2. SoFarV0(body, req)
    BY <1>1, <1>3 DEF RequestInv, ReadingInv
  <2>3. RequestTypes'
    BY <1>1, <1>2, <2>1 DEF RequestInv, RequestTypes
  <2>4. Whole'
    BY <1>1, <1>3, <2>2 DEF Whole
  <2> QED BY <2>1, <2>3, <2>4 DEF RequestInv, ReadingInv, WholeInv, ReplyInv, None
<1>4. CASE ~(parser = "v0" /\ body # <<>>)
  <2>1. state' = "answered" /\ reply' = "malformed"
    BY <1>4 DEF EndOfBody
  <2>2. RequestTypes'
    BY <1>1, <1>2, <2>1 DEF RequestInv, RequestTypes, None
  <2> QED BY <2>1, <2>2 DEF RequestInv, ReadingInv, WholeInv, ReplyInv
<1> QED BY <1>3, <1>4

\* What an answer must say of the request for the invariant to keep.
Justified(a) ==
    /\ a \in {"malformed", "ERR", "404", "pack", "ls-refs", "format", "sizes", "negotiate", "stream", "ingest"}
    /\ a \in {"pack", "ls-refs", "format", "sizes"} => parser = "v2"
    /\ a = "pack" => FetchArgs(req.args).ok /\ FetchArgs(req.args).wants # <<>>
    /\ a = "ls-refs" => ArgsAre({"ref arg"})
    /\ a = "sizes" => /\ ArgsAre({"oid", "size"})
                      /\ \A i \in DOMAIN req.args : req.args[i].k = "oid" => req.args[i].v \in Stored
    /\ a \in {"stream", "negotiate"} => parser = "v0" /\ req.wants # <<>> /\ (req.done <=> a = "stream")
    /\ a = "ingest" => parser = "push"

LEMMA ReplyKeeps ==
    ASSUME RequestInv, state = "parsed", NEW a, Justified(a), Reply(a)
    PROVE  RequestInv'
<1>1. state' = "answered" /\ reply' = a /\ bodies' = bodies /\ parser' = parser /\ body' = body /\ req' = req
  BY DEF Reply
<1>2. Packets' = Packets /\ Whole
  BY <1>1 DEF Packets, RequestInv, WholeInv
<1>3. a \in {"malformed", "ERR", "404", "pack", "ls-refs", "format", "sizes", "negotiate", "stream", "ingest"}
  BY DEF Justified
<1>4. RequestTypes'
  BY <1>1, <1>2, <1>3 DEF RequestInv, RequestTypes, None
<1>5. Whole'
  <2>1. \A b : Flushed(b)' <=> Flushed(b)
    BY <1>1, <1>2 DEF Flushed
  <2> QED BY <1>1, <1>2, <2>1 DEF Whole
<1>6. ReplyInv'
  BY <1>1 DEF ReplyInv, Justified, ArgsAre
<1> QED BY <1>1, <1>4, <1>5, <1>6 DEF RequestInv, ReadingInv, WholeInv

LEMMA DispatchV2Keeps ==
    ASSUME RequestInv, NEW known \in BOOLEAN, DispatchV2(known)
    PROVE  RequestInv'
<1>1. state = "parsed" /\ parser = "v2"
  BY DEF DispatchV2
<1>2. req.args \in Seq(Packets)
  BY DEF RequestInv, RequestTypes, RequestType, Shape
<1>3. Justified("ERR") /\ Justified("404") /\ Justified("format")
  BY <1>1 DEF Justified
<1>4. Justified(LsRefs)
  <2>1. CASE ArgsAre({"ref arg"})
    <3>1. Justified("ls-refs")
      BY <1>1, <2>1 DEF Justified
    <3> QED BY <2>1, <3>1 DEF LsRefs
  <2>2. CASE ~ArgsAre({"ref arg"})
    BY <1>3, <2>2 DEF LsRefs
  <2> QED BY <2>1, <2>2
<1>5. Justified(ObjectInfo)
  <2>1. CASE ArgsAre({"oid", "size"}) /\ \A a \in ToSet(req.args) : a.k = "oid" => a.v \in Stored
    <3>1. \A i \in DOMAIN req.args : req.args[i] \in ToSet(req.args)
      BY DEF ToSet
    <3>2. \A i \in DOMAIN req.args : req.args[i].k = "oid" => req.args[i].v \in Stored
      BY <2>1, <3>1
    <3>3. Justified("sizes")
      BY <1>1, <2>1, <3>2 DEF Justified
    <3> QED BY <2>1, <3>3, Zenon DEF ObjectInfo
  <2>2. CASE ~(ArgsAre({"oid", "size"}) /\ \A a \in ToSet(req.args) : a.k = "oid" => a.v \in Stored)
    BY <1>3, <2>2, Zenon DEF ObjectInfo
  <2> QED BY <2>1, <2>2
<1>6. Justified(Fetch)
  <2>1. CASE FetchArgs(req.args).ok /\ FetchArgs(req.args).wants # <<>>
    <3>1. Justified("pack")
      BY <1>1, <2>1 DEF Justified
    <3> QED BY <2>1, <3>1 DEF Fetch
  <2>2. CASE ~(FetchArgs(req.args).ok /\ FetchArgs(req.args).wants # <<>>)
    BY <1>3, <2>2 DEF Fetch
  <2> QED BY <2>1, <2>2
<1>7. \E a \in {"ERR", "404", LsRefs, Fetch, "format", ObjectInfo} : Reply(a)
  <2> HIDE <1>2, <1>3, <1>4, <1>5, <1>6
  <2>1. PICK a : a = IF req.format \notin {None, "sha1"} THEN "ERR"
              ELSE IF ~known THEN "404"
              ELSE CASE req.command = "ls-refs" -> LsRefs
                     [] req.command = "fetch" -> Fetch
                     [] req.command = "object-format" -> "format"
                     [] req.command = "object-info" -> ObjectInfo
                     [] OTHER -> "ERR"
    OBVIOUS
  <2>2. Reply(a)
    BY <2>1, Zenon DEF DispatchV2
  <2>3. a \in {"ERR", "404", LsRefs, Fetch, "format", ObjectInfo}
    BY <2>1
  <2> QED BY <2>2, <2>3
<1> QED BY <1>1, <1>3, <1>4, <1>5, <1>6, <1>7, ReplyKeeps

LEMMA DispatchV0Keeps ==
    ASSUME RequestInv, NEW known \in BOOLEAN, DispatchV0(known)
    PROVE  RequestInv'
<1>1. state = "parsed" /\ parser = "v0" /\ req.done \in BOOLEAN
  BY DEF DispatchV0, RequestInv, RequestTypes, RequestType, Shape
<1>2. PICK a : a = IF ~known THEN "404" ELSE IF req.wants = <<>> THEN "ERR" ELSE IF req.done THEN "stream" ELSE "negotiate"
  OBVIOUS
<1>3. Reply(a)
  BY <1>2 DEF DispatchV0
<1>4. Justified(a)
  BY <1>1, <1>2 DEF Justified
<1> QED BY <1>1, <1>3, <1>4, ReplyKeeps

LEMMA DispatchPushKeeps ==
    ASSUME RequestInv, NEW known \in BOOLEAN, DispatchPush(known)
    PROVE  RequestInv'
<1>1. state = "parsed" /\ parser = "push"
  BY DEF DispatchPush
<1>2. PICK a : a = IF known THEN "ingest" ELSE "404"
  OBVIOUS
<1>3. Reply(a)
  BY <1>2 DEF DispatchPush
<1>4. Justified(a)
  BY <1>1, <1>2 DEF Justified
<1> QED BY <1>1, <1>3, <1>4, ReplyKeeps

\* While a body is read the request holds exactly what its packets say, and
\* once it is answered the answer is justified by a whole body: the three
\* request parsers and the handlers behind them.
THEOREM RequestInvariant == RQSpec => []RequestInv
<1>1. RQInit => RequestInv
  <2> SUFFICES ASSUME RQInit PROVE RequestInv
    OBVIOUS
  <2>1. parser \in {"v2", "v0", "push"} /\ Bodies[bodies].packets \in Nat
    BY RequestsAssumption DEF RQInit
  <2>2. EmptyRequest \in RequestType(Packets)
    BY DEF EmptyRequest, RequestType, Shape
  <2>3. RequestTypes
    BY <2>1, <2>2 DEF RQInit, RequestTypes, EmptyRequest
  <2>4. body = <<>> /\ DOMAIN body = {} /\ Len(body) = 0
    BY DEF RQInit
  <2>5. SoFarV2(body, req)
    BY <2>4 DEF SoFarV2, SaysCommand, SaysArgs, Occurs, EmptyRequest, RQInit
  <2>6. SoFarV0(body, req)
    <3>1. \A k : Of(k, <<>>) = <<>>
      <4>1. <<>> \in Seq({1}) /\ 1 \in {1}
        OBVIOUS
      <4> QED BY <4>1, OfAppend
    <3>2. Values(<<>>) = <<>>
      BY DEF Values
    <3>3. Occurs("done", body) = FALSE
      BY <2>4 DEF Occurs
    <3> QED BY <2>4, <3>1, <3>2, <3>3 DEF SoFarV0, EmptyRequest, RQInit
  <2>7. SoFarPush(body, req)
    <3>1. Values(<<>>) = <<>>
      BY DEF Values
    <3> QED BY <2>4, <3>1 DEF SoFarPush, EmptyRequest, RQInit
  <2>8. ReadingInv
    BY <2>1, <2>5, <2>6, <2>7 DEF ReadingInv
  <2> QED BY <2>3, <2>8 DEF RequestInv, RQInit, WholeInv, ReplyInv, None
<1>2. RequestInv /\ [RQNext]_rqVars => RequestInv'
  <2> SUFFICES ASSUME RequestInv, [RQNext]_rqVars PROVE RequestInv'
    OBVIOUS
  <2>1. CASE \E p \in Packets : Read(p)
    BY <2>1, ReadKeeps
  <2>2. CASE EndOfBody
    BY <2>2, EndKeeps
  <2>3. CASE \E known \in BOOLEAN : DispatchV2(known) \/ DispatchV0(known) \/ DispatchPush(known)
    BY <2>3, DispatchV2Keeps, DispatchV0Keeps, DispatchPushKeeps
  <2>4. CASE UNCHANGED rqVars
    <3>1. /\ state' = state /\ reply' = reply /\ bodies' = bodies /\ parser' = parser /\ body' = body /\ req' = req
          /\ Packets' = Packets
      BY <2>4 DEF rqVars, Packets
    <3>2. \A b : Flushed(b)' <=> Flushed(b)
      BY <3>1 DEF Flushed
    <3>3. Whole' <=> Whole
      BY <3>1, <3>2 DEF Whole
    <3> QED BY <3>1, <3>3 DEF RequestInv, RequestTypes, ReadingInv, WholeInv, ReplyInv, ArgsAre
  <2> QED BY <2>1, <2>2, <2>3, <2>4 DEF RQNext
<1> QED BY <1>1, <1>2, PTL DEF RQSpec

-----------------------------------------------------------------------------
(* What the invariant says of an answer *)

LEMMA SameSequence ==
    ASSUME NEW Dom, NEW a \in Seq(Dom), NEW c \in Seq(Dom), Len(c) = Len(a), \A i \in 1..Len(a) : c[i] = a[i]
    PROVE  a = c
OBVIOUS

ArgsPart(t) == SubSeq(t, (CHOOSE i \in DOMAIN t : t[i].k = "delim") + 1, Len(t) - 1)

\* The arguments of a whole v2 body are those of the request.
LEMMA ArgsOfBody ==
    ASSUME NEW P, NEW b \in Seq(P), NEW p \in P, p.k = "flush", NEW r \in RequestType(P), SoFarV2(b, r),
           NEW t, t = Append(b, p)
    PROVE  /\ Occurs("delim", t) <=> r.inArgs
           /\ r.inArgs => ArgsPart(t) = r.args
           /\ ~r.inArgs => r.args = <<>>
<1>1. /\ t \in Seq(P) /\ Len(t) = Len(b) + 1 /\ Len(b) \in Nat /\ t[Len(b) + 1] = p
      /\ DOMAIN t = 1..(Len(b) + 1) /\ DOMAIN b = 1..Len(b)
      /\ \A n \in 1..Len(b) : t[n] = b[n] /\ b[n] \in P
      /\ \A n \in 1..(Len(b) + 1) : n \in 1..Len(b) \/ n = Len(b) + 1
      /\ \A n \in 1..Len(b) : n \in 1..(Len(b) + 1)
      /\ Len(b) + 1 \in 1..(Len(b) + 1)
  <2>1. PICK z : /\ z = Append(b, p) /\ z \in Seq(P) /\ Len(z) = Len(b) + 1 /\ Len(b) \in Nat /\ z[Len(b) + 1] = p
                 /\ DOMAIN z = 1..(Len(b) + 1) /\ DOMAIN b = 1..Len(b)
                 /\ \A n \in 1..Len(b) : z[n] = b[n] /\ b[n] \in P
                 /\ \A n \in 1..(Len(b) + 1) : n \in 1..Len(b) \/ n = Len(b) + 1
                 /\ \A n \in 1..Len(b) : n \in 1..(Len(b) + 1)
                 /\ Len(b) + 1 \in 1..(Len(b) + 1)
    BY Appended
  <2>2. z = t
    BY <2>1
  <2> QED BY <2>1, <2>2, Zenon
<1>2. SaysArgs(b, r) /\ r.args \in Seq(P) /\ r.inArgs \in BOOLEAN
  BY DEF SoFarV2, RequestType, Shape
<1>3. CASE ~r.inArgs
  <2>1. r.args = <<>> /\ ~Occurs("delim", b)
    BY <1>2, <1>3 DEF SaysArgs
  <2>2. ~Occurs("delim", t)
    BY <1>1, <2>1 DEF Occurs
  <2> QED BY <1>3, <2>1, <2>2
<1>4. CASE r.inArgs
  <2>1. \E d \in DOMAIN b : /\ b[d].k = "delim" /\ Len(r.args) = Len(b) - d
                            /\ \A i \in 1..Len(r.args) : r.args[i] = b[d + i]
                            /\ \A i \in DOMAIN b : b[i].k = "delim" => i = d
    BY <1>2, <1>4, Zenon DEF SaysArgs
  <2>2. PICK d \in DOMAIN b : /\ b[d].k = "delim" /\ Len(r.args) = Len(b) - d
                              /\ \A i \in 1..Len(r.args) : r.args[i] = b[d + i]
                              /\ \A i \in DOMAIN b : b[i].k = "delim" => i = d
    BY <2>1
  <2>3. d \in 1..Len(b) /\ d \in DOMAIN t /\ t[d].k = "delim" /\ \A i \in DOMAIN t : t[i].k = "delim" => i = d
    BY <1>1, <2>2
  <2>4. (CHOOSE i \in DOMAIN t : t[i].k = "delim") = d
    BY <2>3
  <2>5. Occurs("delim", t)
    BY <2>3 DEF Occurs
  <2>6. PICK x : x = SubSeq(t, d + 1, Len(b))
    OBVIOUS
  <2>7. /\ x \in Seq(P) /\ Len(x) = IF d + 1 <= Len(b) THEN Len(b) - (d + 1) + 1 ELSE 0
        /\ \A i \in 1..(Len(b) - (d + 1) + 1) : x[i] = t[(d + 1) + i - 1]
    <3>1. d + 1 \in Int /\ Len(b) \in Int
      BY <1>1, <2>3
    <3>2. \A i \in (d + 1)..Len(b) : t[i] \in P
      BY <1>1, <2>3
    <3> QED BY <2>6, <3>1, <3>2, SubSeqProperties
  <2>8. Len(x) = Len(b) - d /\ \A i \in 1..Len(x) : x[i] = b[d + i]
    <3>1. Len(x) = Len(b) - d
      BY <1>1, <2>3, <2>7
    <3>2. ASSUME NEW i \in 1..Len(x) PROVE x[i] = b[d + i]
      <4>1. i \in 1..(Len(b) - (d + 1) + 1) /\ (d + 1) + i - 1 = d + i /\ d + i \in 1..Len(b)
        BY <1>1, <2>3, <3>1
      <4> QED BY <1>1, <2>7, <4>1
    <3> QED BY <3>1, <3>2
  <2>9. x = r.args
    <3>1. PICK y : y = r.args
      OBVIOUS
    <3>2. y \in Seq(P) /\ Len(y) = Len(x) /\ \A i \in 1..Len(x) : y[i] = x[i]
      BY <1>2, <2>2, <2>8, <3>1
    <3>3. x \in Seq(P)
      BY <2>7
    <3>4. x = y
      <4> HIDE <1>1, <1>2, <2>7, <2>8
      <4> QED BY <3>2, <3>3, SameSequence
    <3> QED BY <3>1, <3>4
  <2>10. Len(t) - 1 = Len(b)
    BY <1>1
  <2> QED BY <1>4, <2>4, <2>5, <2>6, <2>9, <2>10 DEF ArgsPart
<1> QED BY <1>2, <1>3, <1>4

LEMMA FramingHolds ==
    ASSUME RequestInv
    PROVE  FramingV2
<1> SUFFICES ASSUME parser = "v2", ServedV2
             PROVE  /\ body # <<>> /\ Last(body).k = "flush"
                    /\ ~Occurs("flush", Front(body)) /\ ~Occurs("end", body) /\ ~Occurs("cut", body)
                    /\ \A i, j \in DOMAIN body : body[i].k = "delim" /\ body[j].k = "delim" => i = j
                    /\ \E i \in 1..Len(body) :
                          /\ body[i].k = "command" /\ req.command = body[i].v
                          /\ \A j \in 1..Len(body) :
                                /\ j < i => body[j].k \notin {"command", "delim"}
                                /\ j > i /\ body[j].k = "command" =>
                                      \E d \in i..j : body[d].k = "delim"
  BY DEF FramingV2
<1>1. req.command # None /\ \E b : Flushed(b) /\ SoFarV2(b, req)
  BY DEF RequestInv, WholeInv, ServedV2, Whole
<1>2. PICK b, p : b \in Seq(Packets) /\ p \in Packets /\ body = Append(b, p) /\ p.k = "flush" /\ SoFarV2(b, req)
  BY <1>1 DEF Flushed
<1>3. PICK t : /\ t = Append(b, p) /\ t \in Seq(Packets) /\ Len(t) = Len(b) + 1 /\ Len(b) \in Nat /\ t[Len(b) + 1] = p
               /\ DOMAIN t = 1..(Len(b) + 1) /\ DOMAIN b = 1..Len(b)
               /\ \A n \in 1..Len(b) : t[n] = b[n] /\ b[n] \in Packets
               /\ \A n \in 1..(Len(b) + 1) : n \in 1..Len(b) \/ n = Len(b) + 1
               /\ \A n \in 1..Len(b) : n \in 1..(Len(b) + 1)
               /\ Len(b) + 1 \in 1..(Len(b) + 1)
  BY <1>2, Appended
<1>4. body = t /\ t # <<>> /\ Last(t) = p /\ Front(t) = b
  BY <1>2, <1>3, AppendParts
<1>5. ~Occurs("flush", b) /\ ~Occurs("end", t) /\ ~Occurs("cut", t)
  BY <1>2, <1>3 DEF SoFarV2, Occurs
<1>6. \A i, j \in DOMAIN t : t[i].k = "delim" /\ t[j].k = "delim" => i = j
  <2>1. \A i, j \in DOMAIN b : b[i].k = "delim" /\ b[j].k = "delim" => i = j
    BY <1>2, <1>3 DEF SoFarV2, SaysArgs, Occurs
  <2> QED BY <1>2, <1>3, <2>1
<1>7. PICK i \in 1..Len(b) : b[i].k = "command" /\ req.command = b[i].v /\ CommandAt(b, i)
  BY <1>1, <1>2, <1>3 DEF SoFarV2, SaysCommand
<1>8. i \in 1..Len(t) /\ t[i].k = "command" /\ req.command = t[i].v
  BY <1>3, <1>7
<1>9. ASSUME NEW j \in 1..Len(t)
      PROVE  /\ j < i => t[j].k \notin {"command", "delim"}
             /\ j > i /\ t[j].k = "command" => \E d \in i..j : t[d].k = "delim"
  <2>1. CASE j = Len(b) + 1
    BY <1>2, <1>3, <1>7, <2>1
  <2>2. CASE j \in 1..Len(b)
    <3>1. j < i => b[j].k \notin {"command", "delim"}
      BY <1>3, <1>7, <2>2 DEF CommandAt
    <3>2. ASSUME j > i, b[j].k = "command" PROVE \E d \in i..j : t[d].k = "delim"
      <4>1. PICK d \in i..j : b[d].k = "delim"
        BY <1>3, <1>7, <2>2, <3>2 DEF CommandAt
      <4>2. d \in 1..Len(b)
        BY <1>3, <1>7, <2>2
      <4> QED BY <1>3, <4>1, <4>2
    <3> QED BY <1>3, <2>2, <3>1, <3>2
  <2> QED BY <1>3, <2>1, <2>2
<1> QED BY <1>2, <1>4, <1>5, <1>6, <1>8, <1>9

\* The arguments of an answered v2 body.
LEMMA AnsweredArgs ==
    ASSUME RequestInv, reply \in {"pack", "ls-refs", "sizes"}
    PROVE  /\ req.args \in Seq(Packets)
           /\ Occurs("delim", body) =>
                 SubSeq(body, (CHOOSE i \in DOMAIN body : body[i].k = "delim") + 1, Len(body) - 1) = req.args
           /\ ~Occurs("delim", body) => req.args = <<>>
<1>1. parser = "v2" /\ Whole /\ req \in RequestType(Packets)
  BY DEF RequestInv, RequestTypes, WholeInv, ReplyInv
<1>2. PICK b, p : b \in Seq(Packets) /\ p \in Packets /\ body = Append(b, p) /\ p.k = "flush" /\ SoFarV2(b, req)
  BY <1>1 DEF Flushed, Whole
<1>3. /\ Occurs("delim", body) <=> req.inArgs
      /\ req.inArgs => SubSeq(body, (CHOOSE i \in DOMAIN body : body[i].k = "delim") + 1, Len(body) - 1) = req.args
      /\ ~req.inArgs => req.args = <<>>
  <2>1. PICK t : t = body
    OBVIOUS
  <2>2. t = Append(b, p)
    BY <1>2, <2>1
  <2>3. /\ Occurs("delim", t) <=> req.inArgs
        /\ req.inArgs => ArgsPart(t) = req.args
        /\ ~req.inArgs => req.args = <<>>
    BY <1>1, <1>2, <2>2, ArgsOfBody
  <2> QED BY <2>1, <2>3, Zenon DEF ArgsPart
<1>4. req.args \in Seq(Packets)
  BY <1>1 DEF RequestType, Shape
<1> QED BY <1>3, <1>4

LEMMA FetchHolds ==
    ASSUME RequestInv
    PROVE  FetchIsWhatWasAsked
<1> DEFINE d == CHOOSE i \in DOMAIN body : body[i].k = "delim"
           asked == SubSeq(body, d + 1, Len(body) - 1)
           fetch == FetchArgs(req.args)
<1> SUFFICES ASSUME reply = "pack"
             PROVE  /\ Occurs("delim", body)
                    /\ fetch.wants = Values(Of("want", asked)) /\ fetch.wants # <<>>
                    /\ fetch.haves = Values(Of("have", asked))
                    /\ fetch.filter = IF Occurs("filter", asked) THEN Last(Of("filter", asked)).v ELSE None
                    /\ fetch.done = Occurs("done", asked)
                    /\ \A i \in DOMAIN asked : asked[i].k \in {"want", "have", "filter", "done", "flag"}
  BY DEF FetchIsWhatWasAsked
<1>1. req.args \in Seq(Packets) /\ (Occurs("delim", body) => asked = req.args)
      /\ (~Occurs("delim", body) => req.args = <<>>)
  BY AnsweredArgs
<1>2. fetch.ok /\ fetch.wants # <<>>
  BY DEF RequestInv, ReplyInv
<1> HIDE DEF asked
<1>3. /\ fetch.wants = Values(Of("want", req.args)) /\ fetch.haves = Values(Of("have", req.args))
      /\ fetch.filter = IF Occurs("filter", req.args) THEN Last(Of("filter", req.args)).v ELSE None
      /\ fetch.done = Occurs("done", req.args)
      /\ \A i \in DOMAIN req.args : req.args[i].k \in {"want", "have", "filter", "done", "flag"}
  BY <1>1, <1>2, FetchedArgs
<1>4. Occurs("delim", body)
  <2> SUFFICES ASSUME ~Occurs("delim", body) PROVE FALSE
    OBVIOUS
  <2>1. req.args = <<>>
    BY <1>1
  <2>2. Of("want", <<>>) = <<>> /\ Values(<<>>) = <<>>
    <3>1. <<>> \in Seq({1}) /\ 1 \in {1}
      OBVIOUS
    <3> QED BY <3>1, OfAppend, ValuesAppend
  <2> HIDE DEF fetch
  <2> QED BY <1>2, <1>3, <2>1, <2>2
<1> HIDE DEF fetch
<1> QED BY <1>1, <1>2, <1>3, <1>4

LEMMA InfoHolds ==
    ASSUME RequestInv
    PROVE  InfoIsWhatWasAsked
<1> DEFINE d == CHOOSE i \in DOMAIN body : body[i].k = "delim"
           asked == IF Occurs("delim", body) THEN SubSeq(body, d + 1, Len(body) - 1) ELSE <<>>
<1> SUFFICES ASSUME NEW i \in DOMAIN asked
             PROVE  /\ reply = "ls-refs" => asked[i].k = "ref arg"
                    /\ reply = "sizes" => asked[i].k = "size" \/ (asked[i].k = "oid" /\ asked[i].v \in Stored)
  BY Zenon DEF InfoIsWhatWasAsked
<1>1. reply \in {"ls-refs", "sizes"} => asked = req.args
  BY AnsweredArgs
<1>2. reply = "ls-refs" => \A j \in DOMAIN req.args : req.args[j].k \in {"ref arg"}
  BY DEF RequestInv, ReplyInv, ArgsAre
<1>3. reply = "sizes" => \A j \in DOMAIN req.args :
          req.args[j].k \in {"oid", "size"} /\ (req.args[j].k = "oid" => req.args[j].v \in Stored)
  BY DEF RequestInv, ReplyInv, ArgsAre
<1> HIDE DEF asked
<1> QED BY <1>1, <1>2, <1>3

LEMMA ClassicHolds ==
    ASSUME RequestInv
    PROVE  ClassicIsWhatWasAsked
<1> SUFFICES ASSUME reply \in {"stream", "negotiate"}
             PROVE  /\ req.wants = Values(Of("want", body)) /\ req.wants # <<>>
                    /\ req.haves = Values(Of("have", body))
                    /\ req.caps = Of("want", body)[1].caps
                    /\ (reply = "stream") <=> Occurs("done", body)
                    /\ \A i \in DOMAIN body : body[i].k \in {"want", "have", "flush", "done"}
  BY DEF ClassicIsWhatWasAsked
<1>1. parser = "v0" /\ req.wants # <<>> /\ (req.done <=> reply = "stream") /\ Whole
  BY DEF RequestInv, ReplyInv, WholeInv
<1>2. SoFarV0(body, req)
  BY <1>1 DEF Whole
<1>3. req.first => req.wants = <<>>
  BY DEF RequestInv, RequestTypes
<1>4. Occurs("done", body) \in BOOLEAN /\ req.done = Occurs("done", body)
  BY <1>2 DEF SoFarV0, Occurs
<1> QED BY <1>1, <1>2, <1>3, <1>4 DEF SoFarV0

LEMMA PushHolds ==
    ASSUME RequestInv
    PROVE  PushListWhole
<1> SUFFICES ASSUME reply = "ingest"
             PROVE  /\ Last(body).k = "flush" /\ req.commands = Values(Front(body))
                    /\ \A i \in DOMAIN Front(body) : body[i].k = "update"
                    /\ req.caps = IF Len(body) = 1 THEN NoCaps ELSE body[1].caps
  BY DEF PushListWhole
<1>1. parser = "push" /\ Whole
  BY DEF RequestInv, ReplyInv, WholeInv
<1>2. PICK b, p : b \in Seq(Packets) /\ p \in Packets /\ body = Append(b, p) /\ p.k = "flush" /\ SoFarPush(b, req)
  BY <1>1 DEF Flushed, Whole
<1>3. /\ Last(body) = p /\ Front(body) = b /\ Len(body) = Len(b) + 1 /\ Len(b) \in Nat
      /\ DOMAIN b = 1..Len(b)
  BY <1>2, AppendParts
<1>4. \A i \in 1..Len(b) : body[i] = b[i]
  BY <1>2
<1>5. Len(b) = 0 <=> b = <<>>
  BY <1>2
<1>6. b # <<>> => 1 \in 1..Len(b)
  BY <1>3, <1>5
<1> QED BY <1>2, <1>3, <1>4, <1>5, <1>6 DEF SoFarPush

\* Whatever the packets and however the body is cut: what the server answers
\* with a pack, a listing, sizes, a negotiation or an ingest is what the
\* whole body asked for, in order.
THEOREM ServedRequests == RQSpec => []ServedIsWhatWasAsked
<1>1. RequestInv => ServedIsWhatWasAsked
  <2> SUFFICES ASSUME RequestInv PROVE ServedIsWhatWasAsked
    OBVIOUS
  <2>1. RQTypeOK
    BY DEF RequestInv, RequestTypes, RQTypeOK, ToSet
  <2> QED BY <2>1, FramingHolds, FetchHolds, InfoHolds, ClassicHolds, PushHolds DEF ServedIsWhatWasAsked
<1> QED BY <1>1, RequestInvariant, PTL

-----------------------------------------------------------------------------
(* Ref advertisements *)

\* The three kinds of ref targets.
LEMMA TargetKinds ==
    ASSUME NEW t \in RefTargets
    PROVE  /\ "ref" \in DOMAIN t => t.ref \in Names /\ t # NoRef /\ "oid" \notin DOMAIN t
           /\ "oid" \in DOMAIN t => t.oid \in Oids /\ t = Direct(t.oid) /\ t # NoRef
           /\ "ref" \notin DOMAIN t /\ "oid" \notin DOMAIN t => t = NoRef
           /\ t = NoRef => "ref" \notin DOMAIN t /\ "oid" \notin DOMAIN t
<1>1. ASSUME NEW o \in Oids, t = Direct(o)
      PROVE  "oid" \in DOMAIN t /\ "ref" \notin DOMAIN t /\ t.oid = o
  BY <1>1 DEF Direct
<1>2. ASSUME NEW n \in Names, t = Reference(n)
      PROVE  "ref" \in DOMAIN t /\ "oid" \notin DOMAIN t /\ t.ref = n
  BY <1>2 DEF Reference
<1>3. "ref" \notin DOMAIN NoRef /\ "oid" \notin DOMAIN NoRef
  BY DEF NoRef
<1>4. (\E o \in Oids : t = Direct(o)) \/ (\E n \in Names : t = Reference(n)) \/ t = NoRef
  BY DEF RefTargets
<1>5. CASE \E o \in Oids : t = Direct(o)
  <2>1. PICK o \in Oids : t = Direct(o)
    BY <1>5
  <2>2. "oid" \in DOMAIN t /\ "ref" \notin DOMAIN t /\ t.oid = o
    BY <1>1, <2>1
  <2>3. t # NoRef
    BY <1>3, <2>2
  <2> QED BY <2>1, <2>2, <2>3
<1>6. CASE \E n \in Names : t = Reference(n)
  <2>1. PICK n \in Names : t = Reference(n)
    BY <1>6
  <2>2. "ref" \in DOMAIN t /\ "oid" \notin DOMAIN t /\ t.ref = n
    BY <1>2, <2>1
  <2>3. t # NoRef
    BY <1>3, <2>2
  <2> QED BY <2>2, <2>3
<1>7. CASE t = NoRef
  BY <1>3, <1>7
<1> QED BY <1>4, <1>5, <1>6, <1>7

\* One more hop.
Onward(h, v) == v \cup UNION {h[t.ref] : t \in {u \in v : "ref" \in DOMAIN u}}

LEMMA OnwardFacts ==
    ASSUME NEW h \in [Names -> SUBSET RefTargets], NEW v \in SUBSET RefTargets
    PROVE  /\ Onward(h, v) \in SUBSET RefTargets /\ v \subseteq Onward(h, v)
           /\ \A t \in v : "ref" \in DOMAIN t => h[t.ref] \subseteq Onward(h, v)
<1>1. \A t \in v : "ref" \in DOMAIN t => h[t.ref] \in SUBSET RefTargets
  BY TargetKinds
<1> QED BY <1>1 DEF Onward

LEMMA ReachedSteps ==
    ASSUME NEW h \in [Names -> SUBSET RefTargets], NEW n \in Names
    PROVE  /\ Reached(h, n, 0) = h[n]
           /\ \A d \in 1..MaxSymrefDepth : Reached(h, n, d) = Onward(h, Reached(h, n, d - 1))
           /\ \A d \in 0..MaxSymrefDepth : Reached(h, n, d) \in SUBSET RefTargets
<1> DEFINE M == MaxSymrefDepth
           Dom == SUBSET RefTargets
           D == [y \in Nat \X Dom |-> Onward(h, y[2])]
<1>0. M \in Nat
  BY LsRefsAssumption
<1> HIDE DEF M
<1>1. D \in [Nat \X Dom -> Dom]
  <2>1. ASSUME NEW y \in Nat \X Dom PROVE Onward(h, y[2]) \in Dom
    <3>1. y[2] \in Dom
      OBVIOUS
    <3> QED BY <3>1, OnwardFacts
  <2> QED BY <2>1
<1>2. h[n] \in Dom /\ \A k \in Nat, v \in Dom : D[<<k, v>>] = Onward(h, v)
  OBVIOUS
<1> HIDE DEF D, Dom
<1>3. PICK f : f \in [0..M -> Dom] /\ f = [k \in 0..M |-> IF k = 0 THEN h[n] ELSE D[<<k - 1, f[k - 1]>>]]
  <2>1. PICK f : LooksBack(f, M, Dom, h[n], D)
    BY <1>0, <1>1, <1>2, BoundedRecursion
  <2> QED BY <2>1 DEF LooksBack
<1> DEFINE Step(g, k) == IF k = 0 THEN h[n] ELSE Onward(h, g[k - 1])
<1>4. f = [k \in 0..M |-> Step(f, k)]
  <2>1. ASSUME NEW k \in 0..M PROVE (IF k = 0 THEN h[n] ELSE D[<<k - 1, f[k - 1]>>]) = Step(f, k)
    <3>1. CASE k = 0
      BY <3>1
    <3>2. CASE k # 0
      <4>1. k - 1 \in Nat /\ k - 1 \in 0..M
        BY <1>0, <3>2
      <4>2. f[k - 1] \in Dom
        BY <1>3, <4>1
      <4> QED BY <1>2, <3>2, <4>1, <4>2
    <3> QED BY <3>1, <3>2
  <2> QED BY <1>3, <2>1
<1> DEFINE c[k \in 0..M] == IF k = 0 THEN h[n] ELSE Onward(h, c[k - 1])
<1>5. c = [k \in 0..M |-> Step(c, k)]
  BY <1>4
<1>6. \A d : Reached(h, n, d) = c[d]
  BY DEF Reached, Onward, M
<1> HIDE DEF c
<1>7. \A k \in 0..M : c[k] = Step(c, k)
  BY <1>5
<1>8. c[0] = h[n] /\ \A k \in 1..M : c[k] = Onward(h, c[k - 1])
  <2>1. 0 \in 0..M /\ \A k \in 1..M : k \in 0..M /\ k # 0
    BY <1>0
  <2> QED BY <1>7, <2>1
<1> HIDE DEF Step
<1> DEFINE Typed(k) == k <= M => c[k] \in Dom
           U == {k \in Nat : Typed(k)}
<1>9. Typed(0)
  BY <1>2, <1>8
<1>10. ASSUME NEW k \in Nat, Typed(k) PROVE Typed(k + 1)
  <2> SUFFICES ASSUME k + 1 <= M PROVE c[k + 1] \in Dom
    OBVIOUS
  <2>1. k + 1 \in 1..M /\ (k + 1) - 1 = k /\ k <= M
    BY <1>0
  <2>2. c[k + 1] = Onward(h, c[k]) /\ c[k] \in Dom
    BY <1>8, <1>10, <2>1
  <2> QED BY <2>2, OnwardFacts DEF Dom
<1>11. U = Nat
  <2>1. 0 \in U /\ \A k \in U : k + 1 \in U
    <3> HIDE DEF Typed
    <3> QED BY <1>9, <1>10
  <2> HIDE DEF U
  <2> QED BY <2>1, Induction DEF U
<1>12. \A k \in 0..M : c[k] \in Dom
  BY <1>0, <1>11
<1> QED BY <1>6, <1>8, <1>12 DEF M, Dom

\* What more hops and more history reach.
LEMMA ReachedGrows ==
    ASSUME NEW h \in [Names -> SUBSET RefTargets], NEW g \in [Names -> SUBSET RefTargets],
           \A m \in Names : h[m] \subseteq g[m], NEW n \in Names
    PROVE  \A d \in 0..MaxSymrefDepth : Reached(h, n, d) \subseteq Reached(g, n, d)
<1> DEFINE M == MaxSymrefDepth
           Grows(d) == d <= M => Reached(h, n, d) \subseteq Reached(g, n, d)
           U == {d \in Nat : Grows(d)}
<1>0. M \in Nat
  BY LsRefsAssumption
<1>1. Grows(0)
  BY ReachedSteps
<1>2. ASSUME NEW d \in Nat, Grows(d) PROVE Grows(d + 1)
  <2> SUFFICES ASSUME d + 1 <= M PROVE Reached(h, n, d + 1) \subseteq Reached(g, n, d + 1)
    OBVIOUS
  <2>1. d + 1 \in 1..M /\ d \in 0..M /\ (d + 1) - 1 = d /\ d <= M
    BY <1>0
  <2>2. PICK a, b : a = Reached(h, n, d) /\ b = Reached(g, n, d)
    OBVIOUS
  <2>3. a \subseteq b /\ a \in SUBSET RefTargets /\ b \in SUBSET RefTargets
    BY <1>2, <2>1, <2>2, ReachedSteps
  <2>4. Reached(h, n, d + 1) = Onward(h, a) /\ Reached(g, n, d + 1) = Onward(g, b)
    BY <2>1, <2>2, ReachedSteps
  <2>5. Onward(h, a) \subseteq Onward(g, b)
    <3>1. \A t \in a : "ref" \in DOMAIN t => t.ref \in Names
      BY <2>3, TargetKinds
    <3> QED BY <2>3, <3>1 DEF Onward
  <2> QED BY <2>4, <2>5
<1>3. U = Nat
  <2>1. 0 \in U /\ \A k \in U : k + 1 \in U
    <3> HIDE DEF Grows
    <3> QED BY <1>1, <1>2
  <2> HIDE DEF U
  <2> QED BY <2>1, Induction DEF U
<1> QED BY <1>0, <1>3

LEMMA ReachedMore ==
    ASSUME NEW h \in [Names -> SUBSET RefTargets], NEW n \in Names,
           NEW d \in 0..MaxSymrefDepth, NEW b \in d..MaxSymrefDepth
    PROVE  Reached(h, n, d) \subseteq Reached(h, n, b)
<1> DEFINE M == MaxSymrefDepth
           More(k) == d + k <= M => Reached(h, n, d) \subseteq Reached(h, n, d + k)
           U == {k \in Nat : More(k)}
<1>0. M \in Nat /\ d \in Nat
  BY LsRefsAssumption
<1>1. More(0)
  BY <1>0
<1>2. ASSUME NEW k \in Nat, More(k) PROVE More(k + 1)
  <2> SUFFICES ASSUME d + (k + 1) <= M PROVE Reached(h, n, d) \subseteq Reached(h, n, d + (k + 1))
    OBVIOUS
  <2>1. d + (k + 1) \in 1..M /\ d + k \in 0..M /\ (d + (k + 1)) - 1 = d + k /\ d + k <= M
    BY <1>0
  <2>2. Reached(h, n, d + (k + 1)) = Onward(h, Reached(h, n, d + k)) /\ Reached(h, n, d + k) \in SUBSET RefTargets
    BY <2>1, ReachedSteps
  <2> QED BY <1>2, <2>1, <2>2, OnwardFacts
<1>3. U = Nat
  <2>1. 0 \in U /\ \A k \in U : k + 1 \in U
    <3> HIDE DEF More
    <3> QED BY <1>1, <1>2
  <2> HIDE DEF U
  <2> QED BY <2>1, Induction DEF U
<1>4. b - d \in Nat /\ d + (b - d) = b /\ b <= M
  BY <1>0
<1> QED BY <1>3, <1>4

\* The names a chain goes through are those resolve_ref may read.
LEMMA ChainNamesHold ==
    ASSUME NEW h \in [Names -> SUBSET RefTargets], NEW n \in Names
    PROVE  /\ n \in ChainNames(h, n) /\ ChainNames(h, n) \subseteq Names
           /\ \A k \in 0..(MaxSymrefDepth - 1) : \A t \in Reached(h, n, k) :
                 "ref" \in DOMAIN t => t.ref \in ChainNames(h, n)
<1> DEFINE M == MaxSymrefDepth
<1>0. M \in Nat /\ M - 1 \in 0..M
  BY LsRefsAssumption
<1>1. PICK c : c = Reached(h, n, M - 1)
  OBVIOUS
<1>2. c \in SUBSET RefTargets /\ ChainNames(h, n) = {n} \cup {t.ref : t \in {u \in c : "ref" \in DOMAIN u}}
  BY <1>0, <1>1, ReachedSteps DEF ChainNames
<1>3. ChainNames(h, n) \subseteq Names
  BY <1>2, TargetKinds
<1>4. ASSUME NEW k \in 0..(M - 1), NEW t \in Reached(h, n, k), "ref" \in DOMAIN t
      PROVE  t.ref \in ChainNames(h, n)
  <2>1. k \in 0..M /\ M - 1 \in k..M
    BY <1>0
  <2>2. t \in c
    BY <1>1, <1>4, <2>1, ReachedMore
  <2> QED BY <1>2, <1>4, <2>2
<1> QED BY <1>2, <1>3, <1>4

LEMMA ChainNamesGrow ==
    ASSUME NEW h \in [Names -> SUBSET RefTargets], NEW g \in [Names -> SUBSET RefTargets],
           \A m \in Names : h[m] \subseteq g[m], NEW n \in Names
    PROVE  ChainNames(h, n) \subseteq ChainNames(g, n)
<1>1. MaxSymrefDepth - 1 \in 0..MaxSymrefDepth
  BY LsRefsAssumption
<1>2. Reached(h, n, MaxSymrefDepth - 1) \subseteq Reached(g, n, MaxSymrefDepth - 1)
  BY <1>1, ReachedGrows
<1> QED BY <1>2 DEF ChainNames

\* Following the refs, one hop at a time.
Leads(r, u, rest) ==
    IF "ref" \notin DOMAIN u THEN u ELSE IF r[u.ref] = NoRef THEN NoRef ELSE rest

LEMMA FollowedSteps ==
    ASSUME NEW r \in [Names -> RefTargets], NEW t \in RefTargets
    PROVE  /\ Followed(r, t, 0) = Leads(r, t, t)
           /\ \A d \in 1..MaxSymrefDepth : Followed(r, t, d) = Leads(r, t, Followed(r, r[t.ref], d - 1))
<1> DEFINE M == MaxSymrefDepth
           Dom == [RefTargets -> RefTargets]
           D == [y \in Nat \X Dom |-> [u \in RefTargets |-> Leads(r, u, y[2][r[u.ref]])]]
           x == [u \in RefTargets |-> Leads(r, u, u)]
<1>0. M \in Nat
  BY LsRefsAssumption
<1> HIDE DEF M
<1>01. NoRef \in RefTargets
  BY DEF RefTargets
<1>1. D \in [Nat \X Dom -> Dom]
  <2>1. ASSUME NEW y \in Nat \X Dom, NEW u \in RefTargets
        PROVE  Leads(r, u, y[2][r[u.ref]]) \in RefTargets
    <3>1. y[2] \in Dom
      OBVIOUS
    <3>2. "ref" \in DOMAIN u => y[2][r[u.ref]] \in RefTargets
      BY <3>1, TargetKinds
    <3> QED BY <1>01, <3>2 DEF Leads
  <2> QED BY <2>1
<1>2. x \in Dom
  BY <1>01 DEF Leads
<1>3. \A k \in Nat, g \in Dom : D[<<k, g>>] = [u \in RefTargets |-> Leads(r, u, g[r[u.ref]])]
  OBVIOUS
<1> HIDE DEF D
<1>4. PICK f : f \in [0..M -> Dom] /\ f = [k \in 0..M |-> IF k = 0 THEN x ELSE D[<<k - 1, f[k - 1]>>]]
  <2> HIDE DEF Dom, x
  <2>1. PICK f : LooksBack(f, M, Dom, x, D)
    BY <1>0, <1>1, <1>2, BoundedRecursion
  <2> QED BY <2>1 DEF LooksBack
<1> DEFINE Row(g, k) == [u \in RefTargets |-> Leads(r, u, IF k = 0 THEN u ELSE g[k - 1][r[u.ref]])]
<1>5. f = [k \in 0..M |-> Row(f, k)]
  <2>1. ASSUME NEW k \in 0..M PROVE (IF k = 0 THEN x ELSE D[<<k - 1, f[k - 1]>>]) = Row(f, k)
    <3>1. CASE k = 0
      BY <3>1
    <3>2. CASE k # 0
      <4>1. k - 1 \in Nat /\ k - 1 \in 0..M
        BY <1>0, <3>2
      <4>2. f[k - 1] \in Dom
        <5> HIDE DEF Dom, x
        <5> QED BY <1>4, <4>1
      <4>3. D[<<k - 1, f[k - 1]>>] = [u \in RefTargets |-> Leads(r, u, f[k - 1][r[u.ref]])]
        <5> HIDE DEF Dom, x
        <5> QED BY <1>3, <4>1, <4>2
      <4> QED BY <3>2, <4>3
    <3> QED BY <3>1, <3>2
  <2> HIDE DEF Row, x, Dom
  <2> QED BY <1>4, <2>1
<1> DEFINE e[k \in 0..M] == Row(e, k)
<1>6. e = [k \in 0..M |-> Row(e, k)]
  <2> HIDE DEF Row
  <2> QED BY <1>5
<1>7. \A u, d : Followed(r, u, d) = e[d][u]
  BY DEF Followed, Leads, M
<1> HIDE DEF e
<1>8. ASSUME NEW k \in 0..M, NEW u \in RefTargets
      PROVE  e[k][u] = Leads(r, u, IF k = 0 THEN u ELSE e[k - 1][r[u.ref]])
  <2>1. e[k] = Row(e, k)
    <3> HIDE DEF Row
    <3> QED BY <1>6
  <2> QED BY <2>1
<1>9. Followed(r, t, 0) = Leads(r, t, t)
  <2>1. 0 \in 0..M
    BY <1>0
  <2> QED BY <1>7, <1>8, <2>1
<1>10. ASSUME NEW d \in 1..M PROVE Followed(r, t, d) = Leads(r, t, Followed(r, r[t.ref], d - 1))
  <2>1. d \in 0..M /\ d # 0
    BY <1>0
  <2>2. e[d][t] = Leads(r, t, e[d - 1][r[t.ref]])
    BY <1>8, <2>1
  <2> QED BY <1>7, <2>2
<1> QED BY <1>9, <1>10 DEF M

\* Two ref stores that agree on the names of a chain lead to the same end of it.
LEMMA FollowedAgree ==
    ASSUME NEW h \in [Names -> SUBSET RefTargets], NEW r \in [Names -> RefTargets],
           NEW s \in [Names -> RefTargets], \A m \in Names : r[m] \in h[m],
           NEW n \in Names, \A m \in ChainNames(h, n) : s[m] = r[m]
    PROVE  \A d \in Nat : \A k \in 0..(MaxSymrefDepth - 1) : \A t \in Reached(h, n, k) :
              k + d <= MaxSymrefDepth - 1 => Followed(s, t, d) = Followed(r, t, d)
<1> DEFINE M == MaxSymrefDepth
           Agree(d) == \A k \in 0..(M - 1) : \A t \in Reached(h, n, k) :
                          k + d <= M - 1 => Followed(s, t, d) = Followed(r, t, d)
           U == {d \in Nat : Agree(d)}
<1>0. M \in Nat /\ \A k \in 0..(M - 1) : k \in 0..M
  BY LsRefsAssumption
<1>1. ASSUME NEW k \in 0..(M - 1), NEW t \in Reached(h, n, k)
      PROVE  t \in RefTargets /\ ("ref" \in DOMAIN t => /\ t.ref \in Names /\ s[t.ref] = r[t.ref]
                                                         /\ r[t.ref] \in h[t.ref])
  <2>1. t \in RefTargets
    BY <1>0, ReachedSteps
  <2>2. "ref" \in DOMAIN t => t.ref \in ChainNames(h, n)
    BY ChainNamesHold
  <2> QED BY <2>1, <2>2, TargetKinds
<1>2. Agree(0)
  <2> SUFFICES ASSUME NEW k \in 0..(M - 1), NEW t \in Reached(h, n, k)
               PROVE  Followed(s, t, 0) = Followed(r, t, 0)
    OBVIOUS
  <2>1. t \in RefTargets /\ Leads(s, t, t) = Leads(r, t, t)
    BY <1>1 DEF Leads
  <2> QED BY <2>1, FollowedSteps
<1>3. ASSUME NEW d \in Nat, Agree(d) PROVE Agree(d + 1)
  <2> SUFFICES ASSUME NEW k \in 0..(M - 1), NEW t \in Reached(h, n, k), k + (d + 1) <= M - 1
               PROVE  Followed(s, t, d + 1) = Followed(r, t, d + 1)
    OBVIOUS
  <2>1. /\ d + 1 \in 1..M /\ (d + 1) - 1 = d /\ k + 1 \in 0..(M - 1) /\ k + 1 \in 1..M
        /\ (k + 1) - 1 = k /\ (k + 1) + d <= M - 1
    BY <1>0
  <2>2. t \in RefTargets
    BY <1>1
  <2>3. /\ Followed(s, t, d + 1) = Leads(s, t, Followed(s, s[t.ref], d))
        /\ Followed(r, t, d + 1) = Leads(r, t, Followed(r, r[t.ref], d))
    <3>1. \A q \in [Names -> RefTargets] :
            Followed(q, t, d + 1) = Leads(q, t, Followed(q, q[t.ref], (d + 1) - 1))
      BY <2>1, <2>2, FollowedSteps
    <3> QED BY <2>1, <3>1
  <2>4. CASE "ref" \in DOMAIN t
    <3>1. s[t.ref] = r[t.ref] /\ r[t.ref] \in h[t.ref]
      BY <1>1, <2>4
    <3>2. r[t.ref] \in Reached(h, n, k + 1)
      <4>1. Reached(h, n, k + 1) = Onward(h, Reached(h, n, k)) /\ Reached(h, n, k) \in SUBSET RefTargets
        BY <1>0, <2>1, ReachedSteps
      <4> QED BY <2>4, <3>1, <4>1, OnwardFacts
    <3>3. Followed(s, r[t.ref], d) = Followed(r, r[t.ref], d)
      BY <1>3, <2>1, <3>2
    <3> QED BY <2>3, <3>1, <3>3 DEF Leads
  <2>5. CASE "ref" \notin DOMAIN t
    BY <2>3, <2>5 DEF Leads
  <2> QED BY <2>4, <2>5
<1>4. U = Nat
  <2>1. 0 \in U /\ \A d \in U : d + 1 \in U
    <3> HIDE DEF Agree
    <3> QED BY <1>2, <1>3
  <2> HIDE DEF U
  <2> QED BY <2>1, Induction DEF U
<1> QED BY <1>4

\* The rows of peel_ref: what d more reads make of each object.
Peels(p) ==
    /\ \A x \in Oids : p[0][x] = x
    /\ \A d \in 1..MaxPeelDepth : \A x \in Oids :
          p[d][x] = IF x \in Missing THEN Absent
                    ELSE IF x \notin TagObjects THEN x ELSE p[d - 1][TagTarget[x]]
    /\ \A d \in 0..MaxPeelDepth : \A x \in Oids : p[d][x] \in Oids \cup {Absent}

LEMMA PeelSteps ==
    \E p : /\ Peels(p)
           /\ \A o : PeelRef(o) = IF o \in TagObjects \ Missing THEN p[MaxPeelDepth - 1][TagTarget[o]]
                                  ELSE Absent
<1> DEFINE M == MaxPeelDepth
           A == Oids \cup {Absent}
           Dom == [Oids -> A]
           Next1(g) == [x \in Oids |-> IF x \in Missing THEN Absent
                                       ELSE IF x \notin TagObjects THEN x ELSE g[TagTarget[x]]]
           D == [y \in Nat \X Dom |-> Next1(y[2])]
           first == [x \in Oids |-> x]
<1>0. M \in Nat /\ TagTarget \in [TagObjects -> Oids]
  BY LsRefsAssumption
<1> HIDE DEF M
<1>1. ASSUME NEW g \in Dom PROVE Next1(g) \in Dom
  BY <1>0, <1>1
<1>2. first \in Dom
  OBVIOUS
<1> HIDE DEF Next1, first, Dom
<1>3. D \in [Nat \X Dom -> Dom] /\ \A k \in Nat, g \in Dom : D[<<k, g>>] = Next1(g)
  <2>1. ASSUME NEW y \in Nat \X Dom PROVE Next1(y[2]) \in Dom
    BY <1>1
  <2> QED BY <2>1
<1> HIDE DEF D
<1>4. PICK f : f \in [0..M -> Dom] /\ f = [k \in 0..M |-> IF k = 0 THEN first ELSE D[<<k - 1, f[k - 1]>>]]
  <2>1. PICK f : LooksBack(f, M, Dom, first, D)
    BY <1>0, <1>2, <1>3, BoundedRecursion
  <2> QED BY <2>1 DEF LooksBack
<1> DEFINE Row(g, k) == IF k = 0 THEN first ELSE Next1(g[k - 1])
<1>5. f = [k \in 0..M |-> Row(f, k)]
  <2>1. ASSUME NEW k \in 0..M PROVE (IF k = 0 THEN first ELSE D[<<k - 1, f[k - 1]>>]) = Row(f, k)
    <3>1. CASE k = 0
      BY <3>1
    <3>2. CASE k # 0
      <4>1. k - 1 \in Nat /\ k - 1 \in 0..M
        BY <1>0, <3>2
      <4>2. f[k - 1] \in Dom
        BY <1>4, <4>1
      <4> QED BY <1>3, <3>2, <4>1, <4>2
    <3> QED BY <3>1, <3>2
  <2> HIDE DEF Row
  <2> QED BY <1>4, <2>1
<1> DEFINE p[k \in 0..M] == Row(p, k)
<1>6. p = [k \in 0..M |-> Row(p, k)]
  <2> HIDE DEF Row
  <2> QED BY <1>5
<1>7. \A o : PeelRef(o) = IF o \in TagObjects \ Missing THEN p[M - 1][TagTarget[o]] ELSE Absent
  BY DEF PeelRef, Next1, first, M
<1> HIDE DEF p
<1>8. p[0] = first /\ \A k \in 1..M : p[k] = Next1(p[k - 1])
  <2>1. 0 \in 0..M /\ \A k \in 1..M : k \in 0..M /\ k # 0
    BY <1>0
  <2>2. \A k \in 0..M : p[k] = Row(p, k)
    <3> HIDE DEF Row
    <3> QED BY <1>6
  <2> QED BY <2>1, <2>2
<1> DEFINE Typed(k) == k <= M => p[k] \in Dom
           U == {k \in Nat : Typed(k)}
<1>9. Typed(0)
  BY <1>2, <1>8
<1>10. ASSUME NEW k \in Nat, Typed(k) PROVE Typed(k + 1)
  <2> SUFFICES ASSUME k + 1 <= M PROVE p[k + 1] \in Dom
    OBVIOUS
  <2>1. k + 1 \in 1..M /\ (k + 1) - 1 = k /\ k <= M
    BY <1>0
  <2>2. p[k + 1] = Next1(p[k]) /\ p[k] \in Dom
    BY <1>8, <1>10, <2>1
  <2> QED BY <1>1, <2>2
<1>11. U = Nat
  <2>1. 0 \in U /\ \A k \in U : k + 1 \in U
    <3> HIDE DEF Typed
    <3> QED BY <1>9, <1>10
  <2> HIDE DEF U
  <2> QED BY <2>1, Induction DEF U
<1>12. \A k \in 0..M : p[k] \in Dom
  BY <1>0, <1>11
<1>13. Peels(p)
  <2>1. \A x \in Oids : p[0][x] = x
    BY <1>8 DEF first
  <2>2. \A d \in 1..M : \A x \in Oids :
          p[d][x] = IF x \in Missing THEN Absent
                    ELSE IF x \notin TagObjects THEN x ELSE p[d - 1][TagTarget[x]]
    <3> SUFFICES ASSUME NEW d \in 1..M, NEW x \in Oids
                 PROVE  p[d][x] = IF x \in Missing THEN Absent
                                  ELSE IF x \notin TagObjects THEN x ELSE p[d - 1][TagTarget[x]]
      OBVIOUS
    <3>1. PICK q : q = p[d - 1]
      OBVIOUS
    <3>2. p[d] = Next1(q)
      BY <1>8, <3>1
    <3>3. Next1(q)[x] = IF x \in Missing THEN Absent
                        ELSE IF x \notin TagObjects THEN x ELSE q[TagTarget[x]]
      BY DEF Next1
    <3> QED BY <3>1, <3>2, <3>3
  <2>3. \A d \in 0..M : \A x \in Oids : p[d][x] \in Oids \cup {Absent}
    BY <1>12 DEF Dom
  <2> QED BY <2>1, <2>2, <2>3 DEF Peels, M
<1> QED BY <1>7, <1>13 DEF M

\* peel_ref finds the object under the whole tag chain, if it is not too long.
LEMMA PeelFindsTheEnd ==
    ASSUME NEW o \in Oids
    PROVE  /\ PeelRef(o) \in Oids \cup {Absent}
           /\ \A n \in 0..MaxPeelDepth, e \in Oids :
                 PeelRef(o) # Absent /\ TagChain(o, n, e) => n > 0 /\ PeelRef(o) = e
<1> DEFINE M == MaxPeelDepth
<1>0. M \in Nat /\ M > 0 /\ TagTarget \in [TagObjects -> Oids] /\ Absent \notin Oids
  BY LsRefsAssumption
<1>1. PICK p : /\ Peels(p)
               /\ PeelRef(o) = IF o \in TagObjects \ Missing THEN p[M - 1][TagTarget[o]] ELSE Absent
  BY PeelSteps
<1>2. /\ \A x \in Oids : p[0][x] = x
      /\ \A d \in 1..M : \A x \in Oids :
          p[d][x] = IF x \in Missing THEN Absent
                    ELSE IF x \notin TagObjects THEN x ELSE p[d - 1][TagTarget[x]]
      /\ \A d \in 0..M : \A x \in Oids : p[d][x] \in Oids \cup {Absent}
  BY <1>1 DEF Peels
<1> HIDE DEF M
<1>3. M - 1 \in 0..M
  BY <1>0
<1>4. PeelRef(o) \in Oids \cup {Absent}
  BY <1>0, <1>1, <1>2, <1>3
<1>5. ASSUME NEW n \in 0..M, NEW e \in Oids, PeelRef(o) # Absent, TagChain(o, n, e)
      PROVE  n > 0 /\ PeelRef(o) = e
  <2>1. PICK c \in [0..n -> Oids] :
          /\ c[0] = o /\ c[n] = e /\ e \notin TagObjects
          /\ \A k \in 1..n : c[k - 1] \in TagObjects /\ c[k] = TagTarget[c[k - 1]]
    BY <1>5 DEF TagChain
  <2>2. o \in TagObjects \ Missing /\ PeelRef(o) = p[M - 1][TagTarget[o]]
    BY <1>1, <1>5
  <2>3. n > 0 /\ n \in Nat /\ n <= M
    <3>1. n = 0 => o = e
      BY <2>1
    <3> QED BY <1>0, <2>1, <2>2, <3>1
  <2>4. c[1] = TagTarget[o]
    <3>1. 1 \in 1..n /\ 1 - 1 = 0
      BY <2>3
    <3> QED BY <2>1, <3>1
  <2> DEFINE At(j) == j >= 1 /\ j <= n => PeelRef(o) = p[M - j][c[j]]
             U == {j \in Nat : At(j)}
  <2>5. At(0)
    OBVIOUS
  <2>6. ASSUME NEW j \in Nat, At(j) PROVE At(j + 1)
    <3> SUFFICES ASSUME j + 1 <= n PROVE PeelRef(o) = p[M - (j + 1)][c[j + 1]]
      OBVIOUS
    <3>1. CASE j = 0
      BY <2>2, <2>4, <3>1
    <3>2. CASE j # 0
      <4>1. PeelRef(o) = p[M - j][c[j]]
        BY <2>3, <2>6, <3>2
      <4>2. j + 1 \in 1..n /\ (j + 1) - 1 = j /\ j \in 0..n
        BY <2>3
      <4>3. c[j] \in TagObjects /\ c[j + 1] = TagTarget[c[j]] /\ c[j] \in Oids
        BY <2>1, <4>2
      <4>4. M - j \in 1..M /\ (M - j) - 1 = M - (j + 1)
        BY <1>0, <2>3, <3>2
      <4>5. p[M - j][c[j]] = IF c[j] \in Missing THEN Absent ELSE p[(M - j) - 1][TagTarget[c[j]]]
        BY <1>2, <4>3, <4>4
      <4> QED BY <1>5, <4>1, <4>3, <4>4, <4>5
    <3> QED BY <3>1, <3>2
  <2>7. U = Nat
    <3>1. 0 \in U /\ \A k \in U : k + 1 \in U
      <4> HIDE DEF At
      <4> QED BY <2>5, <2>6
    <3> HIDE DEF U
    <3> QED BY <3>1, Induction DEF U
  <2>8. PeelRef(o) = p[M - n][e]
    BY <2>1, <2>3, <2>7
  <2>9. CASE M - n = 0
    BY <1>2, <2>3, <2>8, <2>9
  <2>10. CASE M - n # 0
    <3>1. M - n \in 1..M
      BY <1>0, <2>3, <2>10
    <3> QED BY <1>2, <1>5, <2>1, <2>3, <2>8, <3>1
  <2> QED BY <2>9, <2>10
<1> QED BY <1>4, <1>5 DEF M

-----------------------------------------------------------------------------
(* The invariant *)

LineType ==
    [name : Names, oid : Oids \cup {Unborn}, symref : Names \cup {Absent}, peeled : Oids \cup {Absent}]
ArgsType == [prefixes : Seq(SUBSET Names), unborn : BOOLEAN, symrefs : BOOLEAN, peel : BOOLEAN]

ListTypes ==
    /\ refs \in [Names -> RefTargets] /\ held \in [Names -> SUBSET RefTargets]
    /\ mode \in {"v2", "v0", "receive"} /\ phase \in {"list", "next", "resolve", "done"}
    /\ args \in ArgsType /\ DOMAIN listed \subseteq Names /\ queue \subseteq DOMAIN listed
    /\ hops \in 0..MaxSymrefDepth /\ updates \in Nat /\ lines \in Seq(LineType)
    /\ scans \in Seq(SUBSET Names)

\* What was listed was there.
HistoryInv ==
    /\ \A n \in Names : IsFiniteSet(held[n]) /\ refs[n] \in held[n]
    /\ \A n \in DOMAIN listed : listed[n] \in held[n] /\ listed[n] # NoRef

\* The lines are of names before those of the queue.
OrderInv ==
    /\ phase = "list" => queue = {} /\ lines = <<>>
    /\ phase = "done" => queue = {}
    /\ \A i, j \in DOMAIN lines : i < j => lines[i].name < lines[j].name
    /\ \A i \in DOMAIN lines : lines[i].name \in DOMAIN listed /\ \A q \in queue : lines[i].name < q

\* resolve_ref is where hops that were once true lead.
ResolveInv ==
    phase = "resolve" =>
        /\ queue # {} /\ mode # "receive" /\ hops < MaxSymrefDepth
        /\ cursor # NoRef /\ cursor \in Reached(held, Name, hops)
        /\ hops = 0 => cursor = listed[Name]
        /\ hops > 0 => /\ "ref" \in DOMAIN listed[Name]
                       /\ cursor \in Reached(held, listed[Name].ref, hops - 1)

\* A ref that was asked for and that nobody touches is listed, or a scan to come
\* has it.
ScanInv ==
    /\ phase = "list" <=> scans # <<>>
    /\ \A n \in Wanted : Untouched(n) /\ refs[n] # NoRef =>
          n \in DOMAIN listed \/ \E i \in DOMAIN scans : n \in scans[i]

\* A chain that nobody touches leads where it led when the request began, from
\* wherever its resolution is; the names gone through are shown right.
StableInv ==
    /\ phase = "resolve" /\ Stable(Name) => Followed(refs, cursor, MaxSymrefDepth - 1 - hops) = EndOf(Name)
    /\ phase # "list" => \A n \in DOMAIN listed \ queue : Stable(n) => ShownRight(n)

ListInv ==
    /\ ListTypes /\ HistoryInv /\ OrderInv /\ ResolveInv /\ LinesWereTrue /\ PeelsToTheEnd
    /\ ScanInv /\ StableInv

\* The name under way is the least of the queue.
LEMMA NameFacts ==
    ASSUME ListTypes, queue # {}
    PROVE  /\ Name \in queue /\ Name \in Names /\ Name \in DOMAIN listed /\ Name \in Nat
           /\ \A q \in queue : Name <= q /\ q \in Nat
<1>1. queue \in SUBSET Nat /\ queue \subseteq Names /\ queue \subseteq DOMAIN listed
  BY LsRefsAssumption DEF ListTypes
<1>2. \E x \in queue : \A y \in queue : x <= y
  BY <1>1, LeastNat
<1>3. Name \in queue /\ \A y \in queue : Name <= y
  BY <1>2 DEF Name, Min
<1> QED BY <1>1, <1>3

LEMMA UntouchedFacts ==
    ASSUME HistoryInv, NEW m \in Names, Untouched(m)
    PROVE  held[m] = {refs[m]}
<1>1. IsFiniteSet(held[m]) /\ refs[m] \in held[m] /\ Cardinality(held[m]) = 1
  BY DEF HistoryInv, Untouched
<1>2. \E x : held[m] = {x}
  BY <1>1, FS_Singleton
<1> QED BY <1>1, <1>2

\* What is stable of a name: itself and, but for the receive side, its chain.
LEMMA StableFacts ==
    ASSUME ListTypes, NEW n \in Names, Stable(n)
    PROVE  Untouched(n) /\ (mode # "receive" => \A m \in ChainNames(held, n) : Untouched(m))
<1>1. n \in ChainNames(held, n)
  BY ChainNamesHold DEF ListTypes
<1> QED BY <1>1 DEF Stable

\* A line that was true stays true of the longer history.
LEMMA LinesStayTrue ==
    ASSUME ListTypes, LinesWereTrue, held' \in [Names -> SUBSET RefTargets],
           \A m \in Names : held[m] \subseteq held'[m], lines' = lines
    PROVE  LinesWereTrue'
<1>0. MaxSymrefDepth - 1 \in 0..MaxSymrefDepth
  BY LsRefsAssumption
<1>1. held \in [Names -> SUBSET RefTargets] /\ lines \in Seq(LineType)
  BY DEF ListTypes
<1>2. \A n \in Names : Chains(n) \subseteq Chains(n)'
  BY <1>0, <1>1, ReachedGrows DEF Chains
<1> SUFFICES ASSUME NEW i \in DOMAIN lines
             PROVE  IF lines[i].oid = Unborn
                    THEN \E t \in {u \in held'[lines[i].name] : "ref" \in DOMAIN u} : NoRef \in Chains(t.ref)'
                    ELSE Direct(lines[i].oid) \in Chains(lines[i].name)'
  BY DEF LinesWereTrue
<1>3. lines[i].name \in Names
  <2>1. lines[i] \in LineType
    BY <1>1
  <2> QED BY <2>1 DEF LineType
<1>4. CASE lines[i].oid = Unborn
  <2>1. PICK t \in held[lines[i].name] : "ref" \in DOMAIN t /\ NoRef \in Chains(t.ref)
    BY <1>4 DEF LinesWereTrue
  <2>2. t \in RefTargets /\ t.ref \in Names /\ t \in held'[lines[i].name]
    BY <1>1, <1>3, <2>1, TargetKinds
  <2> QED BY <1>2, <1>4, <2>1, <2>2
<1>5. CASE lines[i].oid # Unborn
  BY <1>2, <1>3, <1>5 DEF LinesWereTrue
<1> QED BY <1>4, <1>5

LEMMA PushSteps ==
    ASSUME ListInv, PushRef
    PROVE  ListInv'
<1>0. ListTypes /\ HistoryInv /\ OrderInv /\ ResolveInv /\ LinesWereTrue /\ PeelsToTheEnd /\ ScanInv
  BY DEF ListInv
<1>1. PICK n \in Names, t \in {Direct(o) : o \in Oids \ Missing} \cup {NoRef} :
          /\ t # refs[n] /\ refs' = [refs EXCEPT ![n] = t]
          /\ held' = [held EXCEPT ![n] = @ \cup {t}]
  BY DEF PushRef
<1>2. updates > 0 /\ updates' = updates - 1
      /\ UNCHANGED <<mode, args, scans, phase, listed, queue, cursor, hops, lines>>
  BY DEF PushRef
<1>3. t \in RefTargets
  BY <1>1 DEF RefTargets
<1>4. refs \in [Names -> RefTargets] /\ held \in [Names -> SUBSET RefTargets]
  BY <1>0 DEF ListTypes
<1>5. refs' \in [Names -> RefTargets] /\ held' \in [Names -> SUBSET RefTargets]
  BY <1>1, <1>3, <1>4
<1>6. /\ held'[n] = held[n] \cup {t} /\ refs'[n] = t
      /\ \A m \in Names : m # n => held'[m] = held[m] /\ refs'[m] = refs[m]
      /\ \A m \in Names : held[m] \subseteq held'[m]
  BY <1>1, <1>4
<1>7. ListTypes'
  BY <1>0, <1>2, <1>5 DEF ListTypes
<1>8. HistoryInv'
  <2>1. ASSUME NEW m \in Names PROVE IsFiniteSet(held'[m]) /\ refs'[m] \in held'[m]
    <3>1. IsFiniteSet(held[m]) /\ refs[m] \in held[m]
      BY <1>0 DEF HistoryInv
    <3>2. CASE m = n
      <4>1. IsFiniteSet(held[n] \cup {t})
        BY <3>1, <3>2, FS_AddElement
      <4> QED BY <1>6, <3>2, <4>1
    <3> QED BY <1>6, <3>1, <3>2
  <2>2. \A m \in DOMAIN listed : m \in Names
    BY <1>0 DEF ListTypes
  <2> QED BY <1>0, <1>2, <1>6, <2>1, <2>2 DEF HistoryInv
<1>9. OrderInv'
  BY <1>0, <1>2 DEF OrderInv
<1>10. LinesWereTrue'
  BY <1>0, <1>2, <1>5, <1>6, LinesStayTrue
<1>11. PeelsToTheEnd'
  BY <1>0, <1>2 DEF PeelsToTheEnd
<1>12. ResolveInv'
  <2> SUFFICES ASSUME phase = "resolve" PROVE ResolveInv'
    BY <1>2 DEF ResolveInv
  <2>1. Name' = Name
    BY <1>2 DEF Name
  <2>2. /\ queue # {} /\ mode # "receive" /\ hops < MaxSymrefDepth
        /\ cursor # NoRef /\ cursor \in Reached(held, Name, hops)
        /\ hops = 0 => cursor = listed[Name]
        /\ hops > 0 => /\ "ref" \in DOMAIN listed[Name]
                       /\ cursor \in Reached(held, listed[Name].ref, hops - 1)
    BY <1>0 DEF ResolveInv
  <2>3. Name \in Names /\ Name \in DOMAIN listed
    BY <1>0, <2>2, NameFacts
  <2>4. hops \in 0..MaxSymrefDepth /\ (hops > 0 => hops - 1 \in 0..MaxSymrefDepth)
    BY <1>0, LsRefsAssumption DEF ListTypes
  <2>5. listed[Name] \in RefTargets
    BY <1>0, <1>4, <2>3 DEF HistoryInv
  <2>6. cursor \in Reached(held', Name, hops)
    BY <1>4, <1>5, <1>6, <2>2, <2>3, <2>4, ReachedGrows
  <2>7. ASSUME hops > 0 PROVE cursor \in Reached(held', listed[Name].ref, hops - 1)
    <3>1. listed[Name].ref \in Names
      BY <2>2, <2>5, <2>7, TargetKinds
    <3> QED BY <1>4, <1>5, <1>6, <2>2, <2>4, <2>7, <3>1, ReachedGrows
  <2> QED BY <1>2, <2>1, <2>2, <2>6, <2>7 DEF ResolveInv
<1>13. ~Untouched(n)'
  <2> SUFFICES ASSUME Untouched(n)' PROVE FALSE
    OBVIOUS
  <2>1. \E x : held'[n] = {x}
    <3>1. Cardinality(held'[n]) = 1 /\ IsFiniteSet(held'[n])
      BY <1>8 DEF Untouched, HistoryInv
    <3> QED BY <3>1, FS_Singleton
  <2>2. refs[n] \in held'[n]
    BY <1>0, <1>6 DEF HistoryInv
  <2> QED BY <1>1, <1>6, <2>1, <2>2
<1>14. \A m \in Names : Untouched(m)' => m # n /\ Untouched(m) /\ refs'[m] = refs[m]
  BY <1>6, <1>13 DEF Untouched
<1>15. ScanInv'
  <2>1. Wanted' = Wanted
    BY <1>2 DEF Wanted
  <2>2. Wanted \subseteq Names
    BY DEF Wanted
  <2>3. ASSUME NEW m \in Wanted, Untouched(m)', refs'[m] # NoRef
        PROVE  m \in DOMAIN listed \/ \E i \in DOMAIN scans : m \in scans[i]
    <3>1. Untouched(m) /\ refs[m] # NoRef
      BY <1>14, <2>2, <2>3
    <3> QED BY <1>0, <3>1 DEF ScanInv
  <2>4. phase = "list" <=> scans # <<>>
    BY <1>0 DEF ScanInv
  <2> QED BY <1>2, <2>1, <2>3, <2>4 DEF ScanInv
<1>16. ASSUME NEW m \in Names, Stable(m)'
       PROVE  /\ Stable(m) /\ refs'[m] = refs[m]
              /\ mode # "receive" => \A d \in 0..(MaxSymrefDepth - 1) : \A u \in Reached(held, m, d) :
                    Followed(refs', u, MaxSymrefDepth - 1 - d) = Followed(refs, u, MaxSymrefDepth - 1 - d)
  <2>1. Untouched(m)' /\ (mode # "receive" => \A a \in ChainNames(held', m) : Untouched(a)')
    <3>1. m \in ChainNames(held', m)
      BY <1>5, ChainNamesHold
    <3> QED BY <1>2, <1>16, <3>1 DEF Stable
  <2>2. CASE mode = "receive"
    BY <1>14, <2>1, <2>2 DEF Stable
  <2>3. CASE mode # "receive"
    <3>1. ChainNames(held, m) \subseteq ChainNames(held', m) /\ ChainNames(held', m) \subseteq Names
      BY <1>4, <1>5, <1>6, ChainNamesGrow, ChainNamesHold
    <3>2. \A a \in ChainNames(held, m) : Untouched(a) /\ refs'[a] = refs[a]
      BY <1>14, <2>1, <2>3, <3>1
    <3>3. \A a \in Names : refs[a] \in held[a]
      BY <1>0 DEF HistoryInv
    <3>4. \A e \in Nat : \A d \in 0..(MaxSymrefDepth - 1) : \A u \in Reached(held, m, d) :
            d + e <= MaxSymrefDepth - 1 => Followed(refs', u, e) = Followed(refs, u, e)
      BY <1>4, <1>5, <3>2, <3>3, FollowedAgree
    <3>5. \A d \in 0..(MaxSymrefDepth - 1) :
            MaxSymrefDepth - 1 - d \in Nat /\ d + (MaxSymrefDepth - 1 - d) <= MaxSymrefDepth - 1
      BY LsRefsAssumption
    <3>6. \A d \in 0..(MaxSymrefDepth - 1) : \A u \in Reached(held, m, d) :
            Followed(refs', u, MaxSymrefDepth - 1 - d) = Followed(refs, u, MaxSymrefDepth - 1 - d)
      BY <3>4, <3>5
    <3>7. Stable(m) /\ refs'[m] = refs[m]
      BY <1>14, <2>1, <2>3, <3>2 DEF Stable
    <3> QED BY <3>6, <3>7
  <2> QED BY <2>2, <2>3
<1>17. ASSUME NEW m \in Names, Stable(m)', mode # "receive" PROVE EndOf(m)' = EndOf(m)
  <2>1. 0 \in 0..(MaxSymrefDepth - 1) /\ MaxSymrefDepth - 1 - 0 = MaxSymrefDepth - 1
    BY LsRefsAssumption
  <2>2. refs[m] \in Reached(held, m, 0) /\ refs'[m] = refs[m]
    BY <1>0, <1>4, <1>16, <1>17, ReachedSteps DEF HistoryInv
  <2>3. Followed(refs', refs[m], MaxSymrefDepth - 1) = Followed(refs, refs[m], MaxSymrefDepth - 1)
    <3>1. Followed(refs', refs[m], MaxSymrefDepth - 1 - 0) = Followed(refs, refs[m], MaxSymrefDepth - 1 - 0)
      BY <1>16, <1>17, <2>1, <2>2
    <3> QED BY <2>1, <3>1
  <2> QED BY <2>2, <2>3 DEF EndOf
<1>18. StableInv'
  <2>1. ASSUME phase = "resolve", Stable(Name)'
        PROVE  Followed(refs', cursor, MaxSymrefDepth - 1 - hops) = EndOf(Name)'
    <3>1. Name' = Name /\ mode # "receive" /\ queue # {} /\ cursor \in Reached(held, Name, hops)
      BY <1>0, <1>2, <2>1 DEF Name, ResolveInv
    <3>2. Name \in Names /\ hops \in 0..(MaxSymrefDepth - 1)
      BY <1>0, <2>1, <3>1, NameFacts, LsRefsAssumption DEF ResolveInv, ListTypes
    <3>3. PICK m \in Names : m = Name
      BY <3>2
    <3>4. Stable(m)'
      BY <2>1, <3>1, <3>3 DEF Stable, Untouched
    <3>5. Stable(m) /\ EndOf(m)' = EndOf(m)
      BY <1>16, <1>17, <3>1, <3>4
    <3>6. Followed(refs', cursor, MaxSymrefDepth - 1 - hops) = Followed(refs, cursor, MaxSymrefDepth - 1 - hops)
      BY <1>16, <3>1, <3>2, <3>3, <3>4
    <3>7. Followed(refs, cursor, MaxSymrefDepth - 1 - hops) = EndOf(m)
      BY <2>1, <3>3, <3>5 DEF ListInv, StableInv
    <3>8. EndOf(Name)' = EndOf(m)'
      BY <3>1, <3>3 DEF EndOf
    <3> QED BY <3>5, <3>6, <3>7, <3>8
  <2>2. ASSUME phase # "list", NEW m \in DOMAIN listed \ queue, Stable(m)'
        PROVE  ShownRight(m)'
    <3>1. m \in Names
      BY <1>0 DEF ListTypes
    <3>2. Stable(m) /\ Due(m)' = Due(m)
      BY <1>2, <1>16, <1>17, <2>2, <3>1 DEF Due
    <3>3. ShownRight(m)
      BY <2>2, <3>2 DEF ListInv, StableInv
    <3>4. ShownOf(m)' = ShownOf(m)
      BY <1>2 DEF ShownOf
    <3> QED BY <1>2, <3>2, <3>3, <3>4 DEF ShownRight
  <2> QED BY <1>2, <2>1, <2>2 DEF StableInv
<1> QED BY <1>7, <1>8, <1>9, <1>10, <1>11, <1>12, <1>15, <1>18 DEF ListInv

\* What the handler's own steps leave alone.
Kept == UNCHANGED <<refs, mode, args, scans, listed, cursor, hops, updates, held>>

LEMMA KeptFacts ==
    ASSUME UNCHANGED <<refs, mode, args, scans, listed, held>>
    PROVE  /\ HistoryInv => HistoryInv'
           /\ \A n : Due(n)' = Due(n)
           /\ \A n : EndOf(n)' = EndOf(n)
           /\ \A n : Chains(n)' = Chains(n)
           /\ \A n : Stable(n)' <=> Stable(n)
           /\ ScanInv /\ (phase' = "list" <=> phase = "list") => ScanInv'
<1>1. UNCHANGED <<refs, mode, args, scans, listed, held>>
  OBVIOUS
<1>2. Wanted' = Wanted /\ \A n : Untouched(n)' <=> Untouched(n)
  BY <1>1 DEF Wanted, Untouched
<1>3. \A n : Stable(n)' <=> Stable(n)
  BY <1>1, <1>2 DEF Stable, ChainNames
<1>4. ScanInv /\ (phase' = "list" <=> phase = "list") => ScanInv'
  BY <1>1, <1>2 DEF ScanInv
<1>5. (\A n : Due(n)' = Due(n)) /\ \A n : EndOf(n)' = EndOf(n)
  BY <1>1 DEF Due, EndOf
<1> QED BY <1>1, <1>3, <1>4, <1>5 DEF HistoryInv, Chains

\* A step that adds no line shows what was shown.
LEMMA SameLines ==
    ASSUME UNCHANGED <<refs, mode, args, scans, listed, held, lines, queue>>
    PROVE  Name' = Name /\ \A n : ShownRight(n)' <=> ShownRight(n)
<1>1. (\A n : ShownOf(n)' = ShownOf(n)) /\ (\A n : Due(n)' = Due(n)) /\ Name' = Name
  BY KeptFacts DEF ShownOf, Name
<1> QED BY <1>1 DEF ShownRight

\* A line is added for the name under way, which leaves the queue.
LEMMA LineAdded ==
    ASSUME ListInv, queue # {}, phase # "list", NEW l \in LineType, l.name = Name,
           lines' = Append(lines, l), queue' = queue \ {Name}, phase' = "next", Kept,
           IF l.oid = Unborn
           THEN \E t \in {u \in held[Name] : "ref" \in DOMAIN u} : NoRef \in Chains(t.ref)
           ELSE Direct(l.oid) \in Chains(Name),
           l.peeled # Absent =>
               \A n \in 0..MaxPeelDepth, e \in Oids : TagChain(l.oid, n, e) => n > 0 /\ l.peeled = e,
           Stable(Name) =>
               IF "oid" \in DOMAIN Due(Name) THEN l.oid = Due(Name).oid
               ELSE Due(Name) = NoRef /\ mode = "v2" /\ args.unborn /\ l.oid = Unborn
    PROVE  ListInv'
<1>0. ListTypes /\ HistoryInv /\ OrderInv /\ LinesWereTrue /\ PeelsToTheEnd /\ ScanInv /\ StableInv
  BY DEF ListInv
<1>1. UNCHANGED <<refs, mode, args, scans, listed, cursor, hops, updates, held>>
  BY DEF Kept
<1>2. lines \in Seq(LineType) /\ Len(lines) \in Nat
  BY <1>0 DEF ListTypes
<1>3. PICK k : k = Len(lines) + 1
  OBVIOUS
<1>4. /\ lines' \in Seq(LineType) /\ DOMAIN lines' = 1..k /\ lines'[k] = l
      /\ \A i \in 1..k : i # k => i \in DOMAIN lines /\ lines'[i] = lines[i]
      /\ \A i \in DOMAIN lines : i \in 1..k /\ i # k /\ i < k
      /\ k \in 1..k /\ k \in Nat
  BY <1>2, <1>3
<1>5. Name \in queue /\ Name \in DOMAIN listed /\ Name \in Nat
      /\ \A q \in queue : Name <= q /\ q \in Nat
  BY <1>0, NameFacts
<1>6. HistoryInv' /\ (\A n : Due(n)' = Due(n)) /\ (\A n : Chains(n)' = Chains(n))
      /\ (\A n : Stable(n)' <=> Stable(n)) /\ ScanInv'
  BY <1>0, <1>1, KeptFacts DEF ScanInv
<1>7. ListTypes'
  BY <1>0, <1>1, <1>4 DEF ListTypes
<1>8. OrderInv'
  <2>1. ASSUME NEW i \in DOMAIN lines', NEW j \in DOMAIN lines', i < j
        PROVE  lines'[i].name < lines'[j].name
    <3>1. i # k /\ i \in DOMAIN lines
      BY <1>4, <2>1
    <3>2. CASE j = k
      BY <1>0, <1>4, <1>5, <3>1, <3>2 DEF OrderInv
    <3>3. CASE j # k
      BY <1>0, <1>4, <2>1, <3>1, <3>3 DEF OrderInv
    <3> QED BY <3>2, <3>3
  <2>2. ASSUME NEW i \in DOMAIN lines'
        PROVE  lines'[i].name \in DOMAIN listed /\ \A q \in queue' : lines'[i].name < q
    <3>1. CASE i = k
      <4>1. \A q \in queue' : q \in queue /\ q # Name
        OBVIOUS
      <4> QED BY <1>4, <1>5, <3>1, <4>1
    <3>2. CASE i # k
      BY <1>0, <1>4, <3>2 DEF OrderInv
    <3> QED BY <3>1, <3>2
  <2> QED BY <1>1, <2>1, <2>2 DEF OrderInv
<1>9. LinesWereTrue'
  <2> SUFFICES ASSUME NEW i \in DOMAIN lines'
               PROVE  IF lines'[i].oid = Unborn
                      THEN \E t \in {u \in held[lines'[i].name] : "ref" \in DOMAIN u} : NoRef \in Chains(t.ref)
                      ELSE Direct(lines'[i].oid) \in Chains(lines'[i].name)
    BY <1>1, <1>6 DEF LinesWereTrue
  <2>1. CASE i = k
    BY <1>4, <2>1
  <2>2. CASE i # k
    BY <1>0, <1>4, <2>2 DEF LinesWereTrue
  <2> QED BY <2>1, <2>2
<1>10. PeelsToTheEnd'
  <2> SUFFICES ASSUME NEW i \in DOMAIN lines', lines'[i].peeled # Absent,
                      NEW n \in 0..MaxPeelDepth, NEW e \in Oids, TagChain(lines'[i].oid, n, e)
               PROVE  n > 0 /\ lines'[i].peeled = e
    BY DEF PeelsToTheEnd
  <2>1. CASE i = k
    BY <1>4, <2>1
  <2>2. CASE i # k
    BY <1>0, <1>4, <2>2 DEF PeelsToTheEnd
  <2> QED BY <2>1, <2>2
<1>11. StableInv'
  <2> SUFFICES ASSUME NEW n \in DOMAIN listed \ queue', Stable(n) PROVE ShownRight(n)'
    BY <1>1, <1>6 DEF StableInv
  <2>1. CASE n = Name
    <3>1. k \in ShownOf(n)'
      BY <1>4, <2>1 DEF ShownOf
    <3> QED BY <1>1, <1>4, <1>6, <2>1, <3>1 DEF ShownRight
  <2>2. CASE n # Name
    <3>1. ShownRight(n)
      BY <1>0, <2>2 DEF StableInv
    <3>2. ShownOf(n)' = ShownOf(n)
      <4>1. \A i \in DOMAIN lines' : lines'[i].name = n => i \in DOMAIN lines /\ lines[i].name = n
        BY <1>4, <2>2
      <4>2. \A i \in DOMAIN lines : lines[i].name = n => i \in DOMAIN lines' /\ lines'[i].name = n
        BY <1>4
      <4> QED BY <4>1, <4>2 DEF ShownOf
    <3>3. \A i \in ShownOf(n) : lines'[i] = lines[i]
      BY <1>4 DEF ShownOf
    <3> QED BY <1>1, <1>6, <3>1, <3>2, <3>3 DEF ShownRight
  <2> QED BY <2>1, <2>2
<1>12. ResolveInv'
  BY DEF ResolveInv
<1> QED BY <1>6, <1>7, <1>8, <1>9, <1>10, <1>11, <1>12 DEF ListInv

\* The name under way leaves the queue without a line.
LEMMA LineSkipped ==
    ASSUME ListInv, queue # {}, phase # "list", lines' = lines, queue' = queue \ {Name},
           phase' = "next", Kept,
           Stable(Name) =>
               "oid" \notin DOMAIN Due(Name) /\ ~(Due(Name) = NoRef /\ mode = "v2" /\ args.unborn)
    PROVE  ListInv'
<1>0. ListTypes /\ HistoryInv /\ OrderInv /\ LinesWereTrue /\ PeelsToTheEnd /\ ScanInv /\ StableInv
  BY DEF ListInv
<1>1. UNCHANGED <<refs, mode, args, scans, listed, cursor, hops, updates, held>>
  BY DEF Kept
<1>5. Name \in queue /\ Name \in DOMAIN listed /\ Name \in Nat
      /\ \A q \in queue : Name <= q /\ q \in Nat
  BY <1>0, NameFacts
<1>6. HistoryInv' /\ (\A n : Due(n)' = Due(n)) /\ (\A n : Chains(n)' = Chains(n))
      /\ (\A n : Stable(n)' <=> Stable(n)) /\ ScanInv'
  BY <1>0, <1>1, KeptFacts DEF ScanInv
<1>7. ListTypes'
  BY <1>0, <1>1 DEF ListTypes
<1>8. OrderInv'
  BY <1>0, <1>1 DEF OrderInv
<1>9. LinesWereTrue'
  BY <1>0, <1>1, <1>6 DEF LinesWereTrue
<1>10. PeelsToTheEnd'
  BY <1>0 DEF PeelsToTheEnd
<1>11. StableInv'
  <2> SUFFICES ASSUME NEW n \in DOMAIN listed \ queue', Stable(n) PROVE ShownRight(n)'
    BY <1>1, <1>6 DEF StableInv
  <2>1. ShownOf(n)' = ShownOf(n)
    BY DEF ShownOf
  <2>2. CASE n = Name
    <3>1. ShownOf(n) = {}
      <4>1. \A i \in DOMAIN lines : lines[i].name # Name
        BY <1>0, <1>5, LsRefsAssumption DEF OrderInv, ListTypes
      <4> QED BY <2>2, <4>1 DEF ShownOf
    <3> QED BY <1>1, <1>6, <2>1, <2>2, <3>1 DEF ShownRight
  <2>3. CASE n # Name
    <3>1. ShownRight(n)
      BY <1>0, <2>3 DEF StableInv
    <3> QED BY <1>1, <1>6, <2>1, <3>1 DEF ShownRight
  <2> QED BY <2>2, <2>3
<1>12. ResolveInv'
  BY DEF ResolveInv
<1> QED BY <1>6, <1>7, <1>8, <1>9, <1>10, <1>11, <1>12 DEF ListInv

\* The state a resolution is in.
LEMMA Resolving ==
    ASSUME ListInv, phase = "resolve"
    PROVE  /\ queue # {} /\ mode # "receive" /\ hops \in Nat /\ hops < MaxSymrefDepth
           /\ Name \in Names /\ listed[Name] \in RefTargets /\ listed[Name] \in held[Name]
           /\ cursor \in RefTargets /\ cursor # NoRef /\ cursor \in Chains(Name)
           /\ "ref" \in DOMAIN cursor => /\ cursor.ref \in Names /\ "ref" \in DOMAIN listed[Name]
                                         /\ listed[Name].ref \in Names
                                         /\ refs[cursor.ref] \in Reached(held, listed[Name].ref, hops)
                                         /\ refs[cursor.ref] \in Reached(held, Name, hops + 1)
<1>0. ListTypes /\ HistoryInv /\ ResolveInv
  BY DEF ListInv
<1>1. /\ queue # {} /\ mode # "receive" /\ hops < MaxSymrefDepth
      /\ cursor # NoRef /\ cursor \in Reached(held, Name, hops)
      /\ hops = 0 => cursor = listed[Name]
      /\ hops > 0 => /\ "ref" \in DOMAIN listed[Name]
                     /\ cursor \in Reached(held, listed[Name].ref, hops - 1)
  BY <1>0 DEF ResolveInv
<1>2. Name \in Names /\ Name \in DOMAIN listed
  BY <1>0, <1>1, NameFacts
<1>3. held \in [Names -> SUBSET RefTargets] /\ hops \in Nat /\ hops \in 0..MaxSymrefDepth
      /\ refs \in [Names -> RefTargets]
  BY <1>0 DEF ListTypes
<1>4. listed[Name] \in held[Name] /\ listed[Name] \in RefTargets
  BY <1>0, <1>2, <1>3 DEF HistoryInv
<1>5. cursor \in RefTargets
  BY <1>1, <1>2, <1>3, ReachedSteps
<1>6. cursor \in Chains(Name)
  <2>1. MaxSymrefDepth - 1 \in hops..MaxSymrefDepth
    BY <1>1, <1>3, LsRefsAssumption
  <2> QED BY <1>1, <1>2, <1>3, <2>1, ReachedMore DEF Chains
<1>7. ASSUME "ref" \in DOMAIN cursor
      PROVE  /\ cursor.ref \in Names /\ "ref" \in DOMAIN listed[Name] /\ listed[Name].ref \in Names
             /\ refs[cursor.ref] \in Reached(held, listed[Name].ref, hops)
             /\ refs[cursor.ref] \in Reached(held, Name, hops + 1)
  <2>1. cursor.ref \in Names /\ refs[cursor.ref] \in held[cursor.ref]
    BY <1>0, <1>5, <1>7, TargetKinds DEF HistoryInv
  <2>2. "ref" \in DOMAIN listed[Name]
    BY <1>1, <1>3, <1>7
  <2>3. listed[Name].ref \in Names
    BY <1>4, <2>2, TargetKinds
  <2>4. refs[cursor.ref] \in Reached(held, Name, hops + 1)
    <3>1. hops + 1 \in 1..MaxSymrefDepth /\ (hops + 1) - 1 = hops
      BY <1>1, <1>3, LsRefsAssumption
    <3>2. Reached(held, Name, hops + 1) = Onward(held, Reached(held, Name, hops))
          /\ Reached(held, Name, hops) \in SUBSET RefTargets
      BY <1>2, <1>3, <3>1, ReachedSteps
    <3> QED BY <1>1, <1>3, <1>7, <2>1, <3>2, OnwardFacts
  <2>5. refs[cursor.ref] \in Reached(held, listed[Name].ref, hops)
    <3>1. CASE hops = 0
      BY <1>1, <1>3, <2>1, <2>3, <3>1, ReachedSteps
    <3>2. CASE hops > 0
      <4>1. hops \in 1..MaxSymrefDepth /\ hops - 1 \in 0..MaxSymrefDepth
        BY <1>3, <3>2, LsRefsAssumption
      <4>2. Reached(held, listed[Name].ref, hops) = Onward(held, Reached(held, listed[Name].ref, hops - 1))
            /\ Reached(held, listed[Name].ref, hops - 1) \in SUBSET RefTargets
        BY <1>3, <2>3, <4>1, ReachedSteps
      <4> QED BY <1>1, <1>3, <1>7, <2>1, <3>2, <4>2, OnwardFacts
    <3> QED BY <1>3, <3>1, <3>2
  <2> QED BY <2>1, <2>2, <2>3, <2>4, <2>5
<1> QED BY <1>1, <1>2, <1>3, <1>4, <1>5, <1>6, <1>7

\* While nobody touches its chain, the rest of it leads to its end.
LEMMA RestOfChain ==
    ASSUME ListInv, phase = "resolve", Stable(Name)
    PROVE  /\ "ref" \notin DOMAIN cursor => EndOf(Name) = cursor
           /\ "ref" \in DOMAIN cursor /\ refs[cursor.ref] = NoRef => EndOf(Name) = NoRef
           /\ "ref" \in DOMAIN cursor /\ refs[cursor.ref] # NoRef =>
                 EndOf(Name) = IF hops + 1 = MaxSymrefDepth THEN cursor
                               ELSE Followed(refs, refs[cursor.ref], MaxSymrefDepth - 1 - (hops + 1))
<1> DEFINE d == MaxSymrefDepth - 1 - hops
<1>1. mode # "receive" /\ hops \in Nat /\ hops < MaxSymrefDepth /\ cursor \in RefTargets
  BY Resolving
<1>2. Followed(refs, cursor, d) = EndOf(Name)
  BY <1>1 DEF ListInv, StableInv
<1>3. refs \in [Names -> RefTargets]
  BY DEF ListInv, ListTypes
<1>4. d \in 0..MaxSymrefDepth /\ (d = 0 <=> hops + 1 = MaxSymrefDepth)
      /\ d - 1 = MaxSymrefDepth - 1 - (hops + 1) /\ (d # 0 => d \in 1..MaxSymrefDepth)
  BY <1>1, LsRefsAssumption
<1> HIDE DEF d
<1>5. CASE d = 0
  <2>1. Followed(refs, cursor, 0) = Leads(refs, cursor, cursor)
    BY <1>1, <1>3, FollowedSteps
  <2> QED BY <1>2, <1>4, <1>5, <2>1 DEF Leads
<1>6. CASE d # 0
  <2>1. Followed(refs, cursor, d) = Leads(refs, cursor, Followed(refs, refs[cursor.ref], d - 1))
    BY <1>1, <1>3, <1>4, <1>6, FollowedSteps
  <2> QED BY <1>2, <1>4, <1>6, <2>1 DEF Leads
<1> QED BY <1>5, <1>6

LEMMA AdvertiseSteps ==
    ASSUME ListInv, NextRef
    PROVE  ListInv'
<1>0. ListTypes /\ HistoryInv /\ OrderInv /\ LinesWereTrue /\ PeelsToTheEnd
      /\ ScanInv /\ StableInv
  BY DEF ListInv
<1>1. phase = "next" /\ queue # {} /\ UNCHANGED <<refs, mode, args, scans, listed, updates, held>>
  BY DEF NextRef
<1>2. Name \in Names /\ Name \in DOMAIN listed /\ Name \in queue
  BY <1>0, <1>1, NameFacts
<1>3. held \in [Names -> SUBSET RefTargets] /\ refs \in [Names -> RefTargets]
  BY <1>0 DEF ListTypes
<1>4. listed[Name] \in held[Name] /\ listed[Name] \in RefTargets /\ listed[Name] # NoRef
  BY <1>0, <1>2, <1>3 DEF HistoryInv
<1>5. 0 \in 0..MaxSymrefDepth /\ MaxSymrefDepth - 1 \in 0..MaxSymrefDepth /\ 0 < MaxSymrefDepth
      /\ Absent \notin Oids /\ Unborn \notin Oids
  BY LsRefsAssumption
<1>6. held[Name] = Reached(held, Name, 0)
  BY <1>2, <1>3, ReachedSteps
<1>7. Stable(Name) => listed[Name] = refs[Name]
  BY <1>0, <1>2, <1>4, StableFacts, UntouchedFacts
<1>8. CASE mode = "receive" /\ "oid" \in DOMAIN listed[Name]
  <2>1. PICK l : l = Line(Name, listed[Name].oid, Absent, Absent)
    OBVIOUS
  <2>2. lines' = Append(lines, l) /\ queue' = queue \ {Name} /\ phase' = "next" /\ Kept
    BY <1>1, <1>8, <2>1 DEF NextRef, Kept
  <2>3. listed[Name].oid \in Oids /\ listed[Name] = Direct(listed[Name].oid)
    BY <1>4, <1>8, TargetKinds
  <2>4. l \in LineType /\ l.name = Name /\ l.oid = listed[Name].oid /\ l.peeled = Absent
    BY <1>2, <2>1, <2>3 DEF Line, LineType
  <2>5. l.oid # Unborn /\ Direct(l.oid) \in Chains(Name)
    <3>1. MaxSymrefDepth - 1 \in 0..MaxSymrefDepth
      BY <1>5
    <3>2. Reached(held, Name, 0) \subseteq Chains(Name)
      BY <1>2, <1>3, <1>5, ReachedMore DEF Chains
    <3> QED BY <1>4, <1>5, <1>6, <2>3, <2>4, <3>2
  <2>6. Stable(Name) => "oid" \in DOMAIN Due(Name) /\ l.oid = Due(Name).oid
    BY <1>8, <1>7, <2>4 DEF Due
  <2> QED BY <1>1, <1>8, <2>2, <2>4, <2>5, <2>6, LineAdded
<1>9. CASE mode = "receive" /\ "oid" \notin DOMAIN listed[Name]
  <2>1. lines' = lines /\ queue' = queue \ {Name} /\ phase' = "next" /\ Kept
    BY <1>1, <1>9 DEF NextRef, Kept
  <2>2. Stable(Name) => "oid" \notin DOMAIN Due(Name) /\ mode # "v2"
    BY <1>9, <1>7 DEF Due
  <2> QED BY <1>1, <1>9, <2>1, <2>2, LineSkipped
<1>10. CASE mode # "receive"
  <2>1. phase' = "resolve" /\ cursor' = listed[Name] /\ hops' = 0 /\ UNCHANGED <<lines, queue>>
    BY <1>10 DEF NextRef
  <2>2. /\ Name' = Name /\ (\A n : EndOf(n)' = EndOf(n)) /\ (\A n : Chains(n)' = Chains(n))
        /\ (\A n : Stable(n)' <=> Stable(n)) /\ (\A n : ShownRight(n)' <=> ShownRight(n)) /\ ScanInv'
    BY <1>0, <1>1, <2>1, KeptFacts, SameLines
  <2>3. ListTypes'
    BY <1>0, <1>1, <1>5, <2>1 DEF ListTypes
  <2>4. HistoryInv' /\ OrderInv' /\ LinesWereTrue' /\ PeelsToTheEnd'
    BY <1>0, <1>1, <2>1, <2>2 DEF HistoryInv, OrderInv, LinesWereTrue, PeelsToTheEnd
  <2>5. ResolveInv'
    BY <1>1, <1>4, <1>5, <1>6, <1>10, <2>1, <2>2 DEF ResolveInv
  <2>6. StableInv'
    <3>1. Stable(Name)' => Stable(Name)
      BY <2>2
    <3>2. EndOf(Name)' = EndOf(Name)
      BY <2>2
    <3>3. MaxSymrefDepth - 1 - 0 = MaxSymrefDepth - 1
      BY LsRefsAssumption
    <3>4. Stable(Name) => Followed(refs, listed[Name], MaxSymrefDepth - 1 - 0) = EndOf(Name)
      BY <1>7, <3>3 DEF EndOf
    <3> QED BY <1>0, <1>1, <2>1, <2>2, <3>1, <3>2, <3>4 DEF StableInv
  <2> QED BY <2>2, <2>3, <2>4, <2>5, <2>6 DEF ListInv
<1> QED BY <1>8, <1>9, <1>10

LEMMA ResolvedSteps ==
    ASSUME ListInv, Resolved
    PROVE  ListInv'
<1>1. phase = "resolve" /\ "oid" \in DOMAIN cursor /\ Kept
  BY DEF Resolved, Kept
<1>2. /\ queue # {} /\ Name \in Names /\ listed[Name] \in RefTargets
      /\ cursor \in RefTargets /\ cursor # NoRef /\ cursor \in Chains(Name)
  BY <1>1, Resolving
<1>3. cursor.oid \in Oids /\ cursor = Direct(cursor.oid) /\ "ref" \notin DOMAIN cursor
  BY <1>1, <1>2, TargetKinds
<1>4. SymrefOf(listed[Name]) \in Names \cup {Absent}
  BY <1>2, TargetKinds DEF SymrefOf
<1>5. PICK l : /\ lines' = Append(lines, l) /\ queue' = queue \ {Name} /\ phase' = "next"
               /\ \E s \in Names \cup {Absent}, x \in {Absent, PeelRef(cursor.oid)} :
                     l = Line(Name, cursor.oid, s, x)
  <2>1. CASE mode = "v2"
    BY <1>4, <2>1 DEF Resolved, Advertise
  <2>2. CASE mode # "v2" /\ Name = HeadRef
    BY <1>4, <2>2 DEF Resolved, Advertise
  <2>3. CASE mode # "v2" /\ Name # HeadRef
    BY <1>4, <2>3 DEF Resolved, Advertise
  <2> QED BY <2>1, <2>2, <2>3
<1>6. PICK s \in Names \cup {Absent}, x \in {Absent, PeelRef(cursor.oid)} : l = Line(Name, cursor.oid, s, x)
  BY <1>5
<1>7. PeelRef(cursor.oid) \in Oids \cup {Absent}
  BY <1>3, PeelFindsTheEnd
<1>8. l \in LineType /\ l.name = Name /\ l.oid = cursor.oid /\ l.peeled = x
  BY <1>2, <1>3, <1>6, <1>7 DEF Line, LineType
<1>9. l.oid # Unborn /\ Direct(l.oid) \in Chains(Name)
  BY <1>2, <1>3, <1>8, LsRefsAssumption
<1>10. l.peeled # Absent =>
          \A n \in 0..MaxPeelDepth, e \in Oids : TagChain(l.oid, n, e) => n > 0 /\ l.peeled = e
  BY <1>3, <1>6, <1>8, PeelFindsTheEnd
<1>11. Stable(Name) => "oid" \in DOMAIN Due(Name) /\ l.oid = Due(Name).oid
  BY <1>1, <1>3, <1>8, RestOfChain, Resolving DEF Due
<1> QED BY <1>1, <1>2, <1>5, <1>8, <1>9, <1>10, <1>11, LineAdded

LEMMA HopSteps ==
    ASSUME ListInv, Hop
    PROVE  ListInv'
<1>0. ListTypes /\ HistoryInv /\ OrderInv /\ LinesWereTrue /\ PeelsToTheEnd
      /\ ScanInv /\ StableInv
  BY DEF ListInv
<1>1. phase = "resolve" /\ "ref" \in DOMAIN cursor /\ UNCHANGED <<refs, mode, args, scans, listed, updates, held>>
  BY DEF Hop
<1>2. /\ queue # {} /\ mode # "receive" /\ hops \in Nat /\ hops < MaxSymrefDepth
      /\ Name \in Names /\ listed[Name] \in RefTargets /\ listed[Name] \in held[Name]
      /\ cursor \in RefTargets /\ cursor # NoRef /\ cursor \in Chains(Name)
      /\ cursor.ref \in Names /\ "ref" \in DOMAIN listed[Name] /\ listed[Name].ref \in Names
      /\ refs[cursor.ref] \in Reached(held, listed[Name].ref, hops)
      /\ refs[cursor.ref] \in Reached(held, Name, hops + 1)
  BY <1>1, Resolving
<1>3. held \in [Names -> SUBSET RefTargets] /\ refs \in [Names -> RefTargets]
  BY <1>0 DEF ListTypes
<1>4. /\ hops \in 0..MaxSymrefDepth /\ MaxSymrefDepth - 1 \in hops..MaxSymrefDepth
      /\ Absent \notin Oids /\ Unborn \notin Oids
  BY <1>2, LsRefsAssumption
<1>5. "oid" \notin DOMAIN NoRef /\ "oid" \notin DOMAIN cursor
  BY <1>1, <1>2, TargetKinds DEF NoRef
<1>6. CASE refs[cursor.ref] = NoRef /\ mode = "v2" /\ args.unborn
  <2>1. PICK s \in Names \cup {Absent} :
          lines' = Append(lines, Line(Name, Unborn, s, Absent)) /\ queue' = queue \ {Name} /\ phase' = "next"
    <3>1. SymrefOf(listed[Name]) \in Names \cup {Absent}
      BY <1>2, TargetKinds DEF SymrefOf
    <3> QED BY <1>6, <3>1 DEF Hop, Advertise
  <2>2. Kept
    BY <1>1, <1>6 DEF Hop, Kept
  <2>3. PICK l : l = Line(Name, Unborn, s, Absent)
    OBVIOUS
  <2>4. l \in LineType /\ l.name = Name /\ l.oid = Unborn /\ l.peeled = Absent
    BY <1>2, <2>3 DEF Line, LineType
  <2>5. NoRef \in Chains(listed[Name].ref)
    BY <1>2, <1>3, <1>4, <1>6, ReachedMore DEF Chains
  <2>6. \E t \in {u \in held[Name] : "ref" \in DOMAIN u} : NoRef \in Chains(t.ref)
    BY <1>2, <2>5
  <2>7. Stable(Name) => Due(Name) = NoRef
    BY <1>1, <1>2, <1>6, RestOfChain DEF Due
  <2> QED BY <1>1, <1>2, <1>5, <1>6, <2>1, <2>2, <2>3, <2>4, <2>6, <2>7, LineAdded
<1>7. CASE refs[cursor.ref] = NoRef /\ ~(mode = "v2" /\ args.unborn)
  <2>1. lines' = lines /\ queue' = queue \ {Name} /\ phase' = "next" /\ Kept
    BY <1>1, <1>7 DEF Hop, Skip, Kept
  <2>2. Stable(Name) => Due(Name) = NoRef
    BY <1>1, <1>2, <1>7, RestOfChain DEF Due
  <2> QED BY <1>1, <1>2, <1>5, <1>7, <2>1, <2>2, LineSkipped
<1>8. CASE refs[cursor.ref] # NoRef /\ hops + 1 = MaxSymrefDepth
  <2>1. lines' = lines /\ queue' = queue \ {Name} /\ phase' = "next" /\ Kept
    BY <1>1, <1>8 DEF Hop, Skip, Kept
  <2>2. Stable(Name) => Due(Name) = cursor
    BY <1>1, <1>2, <1>8, RestOfChain DEF Due
  <2> QED BY <1>1, <1>2, <1>5, <1>8, <2>1, <2>2, LineSkipped
<1>9. CASE refs[cursor.ref] # NoRef /\ hops + 1 # MaxSymrefDepth
  <2>1. cursor' = refs[cursor.ref] /\ hops' = hops + 1 /\ UNCHANGED <<lines, queue, phase>>
    BY <1>9 DEF Hop
  <2>2. /\ Name' = Name /\ (\A n : EndOf(n)' = EndOf(n)) /\ (\A n : Chains(n)' = Chains(n))
        /\ (\A n : Stable(n)' <=> Stable(n)) /\ (\A n : ShownRight(n)' <=> ShownRight(n)) /\ ScanInv'
    BY <1>0, <1>1, <2>1, KeptFacts, SameLines
  <2>3. hops' \in 0..MaxSymrefDepth /\ hops' < MaxSymrefDepth /\ hops' # 0 /\ hops' - 1 = hops
    BY <1>2, <1>9, <2>1, LsRefsAssumption
  <2>4. ListTypes'
    BY <1>0, <1>1, <2>1, <2>3 DEF ListTypes
  <2>5. HistoryInv' /\ OrderInv' /\ LinesWereTrue' /\ PeelsToTheEnd'
    BY <1>0, <1>1, <2>1, <2>2 DEF HistoryInv, OrderInv, LinesWereTrue, PeelsToTheEnd
  <2>6. ResolveInv'
    BY <1>1, <1>2, <1>9, <2>1, <2>2, <2>3 DEF ResolveInv
  <2>7. StableInv'
    <3>1. Stable(Name)' => Stable(Name)
      BY <2>2
    <3>2. EndOf(Name)' = EndOf(Name)
      BY <2>2
    <3>3. Stable(Name) => EndOf(Name) = Followed(refs, refs[cursor.ref], MaxSymrefDepth - 1 - (hops + 1))
      BY <1>1, <1>9, RestOfChain
    <3> QED BY <1>0, <1>1, <2>1, <2>2, <3>1, <3>2, <3>3 DEF StableInv
  <2> QED BY <2>2, <2>4, <2>5, <2>6, <2>7 DEF ListInv
<1> QED BY <1>6, <1>7, <1>8, <1>9

LEMMA ListSteps ==
    ASSUME ListInv, ListRefs \/ EndListing
    PROVE  ListInv'
<1>0. ListTypes /\ HistoryInv /\ OrderInv /\ LinesWereTrue /\ PeelsToTheEnd
      /\ ScanInv /\ StableInv
  BY DEF ListInv
<1>1. CASE ListRefs
  <2>1. PICK wanted, rest : wanted = Head(scans) /\ rest = Tail(scans)
    OBVIOUS
  <2>2. /\ phase = "list" /\ scans # <<>> /\ scans' = rest
        /\ listed' = Overlay(listed, Existing(wanted))
        /\ phase' = IF rest = <<>> THEN "next" ELSE "list"
        /\ queue' = IF rest = <<>> THEN DOMAIN listed' ELSE {}
        /\ UNCHANGED <<refs, mode, args, cursor, hops, lines, updates, held>>
    BY <1>0, <1>1, <2>1 DEF ListRefs, ScanInv
  <2>3. scans \in Seq(SUBSET Names) /\ DOMAIN listed \subseteq Names
    BY <1>0 DEF ListTypes
  <2>4. /\ wanted \subseteq Names /\ rest \in Seq(SUBSET Names)
        /\ \A i \in DOMAIN scans : scans[i] = wanted \/ \E k \in DOMAIN rest : rest[k] = scans[i]
    <3>1. PICK P : P = SUBSET Names
      OBVIOUS
    <3>2. scans \in Seq(P) /\ scans # <<>>
      BY <2>2, <2>3, <3>1
    <3>3. wanted \in P /\ wanted = scans[1] /\ rest \in Seq(P)
      BY <2>1, <3>2
    <3>4. ASSUME NEW i \in DOMAIN scans, i # 1 PROVE i - 1 \in DOMAIN rest /\ rest[i - 1] = scans[i]
      BY <2>1, <3>2, <3>4
    <3> QED BY <3>1, <3>3, <3>4
  <2>5. /\ DOMAIN listed' = DOMAIN listed \cup Existing(wanted) /\ Existing(wanted) \subseteq Names
        /\ \A n \in DOMAIN listed' : listed'[n] = IF n \in Existing(wanted) THEN refs[n] ELSE listed[n]
    BY <2>2, <2>4 DEF Overlay, Existing
  <2>6. ListTypes'
    BY <1>0, <2>2, <2>3, <2>4, <2>5 DEF ListTypes
  <2>7. HistoryInv'
    <3>1. \A n \in Existing(wanted) : refs[n] \in held[n] /\ refs[n] # NoRef
      BY <1>0, <2>5 DEF HistoryInv, Existing
    <3> QED BY <1>0, <2>2, <2>5, <3>1 DEF HistoryInv
  <2>8. queue = {} /\ lines = <<>>
    BY <1>0, <2>2 DEF OrderInv
  <2>9. OrderInv' /\ LinesWereTrue' /\ PeelsToTheEnd'
    BY <2>2, <2>8 DEF OrderInv, LinesWereTrue, PeelsToTheEnd
  <2>10. ResolveInv'
    BY <2>2 DEF ResolveInv
  <2>11. ScanInv'
    <3>1. Wanted' = Wanted /\ Wanted \subseteq Names /\ \A n : Untouched(n)' <=> Untouched(n)
      BY <2>2 DEF Wanted, Untouched
    <3>2. ASSUME NEW n \in Wanted, Untouched(n), refs[n] # NoRef
          PROVE  n \in DOMAIN listed' \/ \E i \in DOMAIN rest : n \in rest[i]
      <4>1. CASE n \in DOMAIN listed
        BY <2>5, <4>1
      <4>2. CASE n \notin DOMAIN listed
        <5>1. PICK i \in DOMAIN scans : n \in scans[i]
          BY <1>0, <3>2, <4>2 DEF ScanInv
        <5>2. CASE scans[i] = wanted
          BY <2>5, <3>2, <5>1, <5>2 DEF Existing
        <5>3. CASE scans[i] # wanted
          BY <2>4, <5>1, <5>3
        <5> QED BY <5>2, <5>3
      <4> QED BY <4>1, <4>2
    <3>3. \A n \in Wanted' : Untouched(n)' /\ refs'[n] # NoRef =>
            n \in DOMAIN listed' \/ \E i \in DOMAIN scans' : n \in scans'[i]
      BY <2>2, <3>1, <3>2
    <3>4. phase' = "list" <=> scans' # <<>>
      BY <2>2
    <3> QED BY <3>3, <3>4 DEF ScanInv
  <2>12. StableInv'
    <3>1. phase' # "list" => DOMAIN listed' \ queue' = {} /\ phase' # "resolve"
      BY <2>2
    <3> QED BY <2>2, <3>1 DEF StableInv
  <2> QED BY <2>6, <2>7, <2>9, <2>10, <2>11, <2>12 DEF ListInv
<1>2. CASE EndListing
  <2>1. phase = "next" /\ queue = {} /\ phase' = "done"
        /\ UNCHANGED <<refs, mode, args, scans, listed, queue, cursor, hops, lines, updates, held>>
    BY <1>2 DEF EndListing
  <2>2. /\ \A n : Chains(n)' = Chains(n)
        /\ (\A n : Stable(n)' <=> Stable(n)) /\ (\A n : ShownRight(n)' <=> ShownRight(n)) /\ ScanInv'
    BY <1>0, <2>1, KeptFacts, SameLines
  <2>3. ListTypes' /\ HistoryInv' /\ OrderInv' /\ LinesWereTrue' /\ PeelsToTheEnd'
    BY <1>0, <2>1, <2>2 DEF ListTypes, HistoryInv, OrderInv, LinesWereTrue, PeelsToTheEnd
  <2>4. ResolveInv' /\ StableInv'
    BY <1>0, <2>1, <2>2 DEF ResolveInv, StableInv
  <2> QED BY <2>2, <2>3, <2>4 DEF ListInv
<1> QED BY <1>1, <1>2

LEMMA ListStutters ==
    ASSUME ListInv, UNCHANGED lrVars
    PROVE  ListInv'
<1>0. ListTypes /\ HistoryInv /\ OrderInv /\ ResolveInv /\ LinesWereTrue /\ PeelsToTheEnd
      /\ ScanInv /\ StableInv
  BY DEF ListInv
<1>1. UNCHANGED <<refs, mode, args, scans, phase, listed, queue, cursor, hops, lines, updates, held>>
  BY DEF lrVars
<1>2. /\ Name' = Name /\ (\A n : EndOf(n)' = EndOf(n)) /\ (\A n : Chains(n)' = Chains(n))
      /\ (\A n : Stable(n)' <=> Stable(n)) /\ (\A n : ShownRight(n)' <=> ShownRight(n)) /\ ScanInv'
  BY <1>0, <1>1, KeptFacts, SameLines
<1>3. ListTypes' /\ HistoryInv' /\ OrderInv' /\ LinesWereTrue' /\ PeelsToTheEnd'
  BY <1>0, <1>1, <1>2 DEF ListTypes, HistoryInv, OrderInv, LinesWereTrue, PeelsToTheEnd
<1>4. ResolveInv'
  BY <1>0, <1>1, <1>2 DEF ResolveInv
<1>5. StableInv'
  <2>1. (Stable(Name)' => Stable(Name)) /\ EndOf(Name)' = EndOf(Name)
    BY <1>2
  <2> QED BY <1>0, <1>1, <1>2, <2>1 DEF StableInv
<1> QED BY <1>2, <1>3, <1>4, <1>5 DEF ListInv

LEMMA ListStarts == LRInit => ListInv
<1> SUFFICES ASSUME LRInit PROVE ListInv
  OBVIOUS
<1>1. refs \in [Names -> RefTargets] /\ updates \in Nat
  BY LsRefsAssumption DEF LRInit
<1>2. args \in ArgsType
  <2>1. CASE mode = "v2"
    <3>1. args \in [prefixes : PrefixLists, unborn : BOOLEAN, symrefs : BOOLEAN, peel : BOOLEAN]
      BY <2>1 DEF LRInit
    <3>2. PrefixLists \subseteq Seq(SUBSET Names)
      BY LsRefsAssumption
    <3> QED BY <3>1, <3>2 DEF ArgsType
  <2>2. CASE mode # "v2"
    <3>1. args = [prefixes |-> <<>>, unborn |-> FALSE, symrefs |-> FALSE, peel |-> FALSE]
      BY <2>2 DEF LRInit
    <3>2. <<>> \in Seq(SUBSET Names)
      OBVIOUS
    <3> QED BY <3>1, <3>2 DEF ArgsType
  <2> QED BY <2>1, <2>2
<1>3. /\ phase = "list" /\ DOMAIN listed = {} /\ queue = {} /\ hops = 0 /\ lines = <<>>
      /\ held = [n \in Names |-> {refs[n]}] /\ mode \in {"v2", "v0", "receive"}
  BY DEF LRInit
<1>4. held \in [Names -> SUBSET RefTargets] /\ \A n \in Names : held[n] = {refs[n]}
  BY <1>1, <1>3
<1>5. HistoryInv
  <2>1. \A n \in Names : IsFiniteSet({refs[n]})
    BY FS_Singleton
  <2> QED BY <1>3, <1>4, <2>1 DEF HistoryInv
<1>6. /\ scans = (IF args.prefixes = <<>> THEN <<Names>> ELSE args.prefixes)
       /\ args.prefixes \in Seq(SUBSET Names)
  BY <1>2 DEF LRInit, ArgsType
<1>7. scans \in Seq(SUBSET Names) /\ scans # <<>>
  <2>1. Names \in SUBSET Names /\ <<Names>> # <<>>
    OBVIOUS
  <2>2. PICK P : P = SUBSET Names
    OBVIOUS
  <2>3. <<Names>> \in Seq(P)
    BY <2>1, <2>2
  <2> QED BY <1>6, <2>1, <2>2, <2>3
<1>8. ScanInv
  <2>1. ASSUME NEW n \in Wanted PROVE \E i \in DOMAIN scans : n \in scans[i]
    <3>1. CASE args.prefixes = <<>>
      <4>1. 1 \in DOMAIN <<Names>> /\ <<Names>>[1] = Names /\ n \in Names
        BY DEF Wanted
      <4> QED BY <1>6, <3>1, <4>1
    <3>2. CASE args.prefixes # <<>>
      BY <1>6, <3>2 DEF Wanted
    <3> QED BY <3>1, <3>2
  <2> QED BY <1>3, <1>7, <2>1 DEF ScanInv
<1>9. ListTypes
  BY <1>1, <1>2, <1>3, <1>4, <1>7, LsRefsAssumption DEF ListTypes
<1>10. OrderInv /\ ResolveInv /\ LinesWereTrue /\ PeelsToTheEnd /\ StableInv
  BY <1>3 DEF OrderInv, ResolveInv, LinesWereTrue, PeelsToTheEnd, StableInv
<1> QED BY <1>5, <1>8, <1>9, <1>10 DEF ListInv

\* Every hop of resolve_ref, the queue and the lines so far fit the history
\* of the refs, however pushes interleave with the advertisement.
THEOREM ListInvariant == LRSpec => []ListInv
<1>1. LRInit => ListInv
  BY ListStarts
<1>2. ListInv /\ [LRNext]_lrVars => ListInv'
  BY PushSteps, AdvertiseSteps, ResolvedSteps, HopSteps, ListSteps, ListStutters DEF LRNext, Serve
<1> QED BY <1>1, <1>2, PTL DEF LRSpec

LEMMA ListingFollows == ListInv => ListingTrue
<1> SUFFICES ASSUME ListInv PROVE ListingTrue
  OBVIOUS
<1>1. LRTypeOK
  BY DEF ListInv, ListTypes, OrderInv, ResolveInv, ScanInv, LRTypeOK
<1>2. StableRefsShown
  <2> SUFFICES ASSUME phase = "done", NEW n \in Wanted, refs[n] # NoRef, Stable(n) PROVE ShownRight(n)
    BY DEF StableRefsShown
  <2>1. n \in Names /\ Untouched(n)
    BY StableFacts DEF Wanted, ListInv
  <2>2. queue = {} /\ scans = <<>>
    BY DEF ListInv, OrderInv, ScanInv
  <2>3. n \in DOMAIN listed
    BY <2>1, <2>2 DEF ListInv, ScanInv
  <2> QED BY <2>2, <2>3 DEF ListInv, StableInv
<1> QED BY <1>1, <1>2 DEF ListInv, ListingTrue

\* Every advertised ref was true at some moment of the request, peels to the
\* end of its tag chain, and refs nobody touched are shown as they are
\* (ListingTrue), for all refs, prefixes, depths and pushes in between.
THEOREM ListingsAreTrue == LRSpec => []ListingTrue
BY ListInvariant, ListingFollows, PTL

-----------------------------------------------------------------------------
(* The selection of a pack *)

\* What is reached from T is the least closed set that holds T.
LEMMA ReachIsLeast ==
    ASSUME NEW p, NumberedIn(Commits, p), NEW T \in SUBSET Commits
    PROVE  /\ S!Reach(p, T) \in SUBSET Commits /\ T \subseteq S!Reach(p, T)
           /\ ClosedUnder(p, S!Reach(p, T))
           /\ \A A \in SUBSET Commits : T \subseteq A /\ ClosedUnder(p, A) => S!Reach(p, T) \subseteq A
<1>1. S!Reach(p, T) = ReachIn(Commits, p, T)
  BY DEF S!Reach, ReachIn
<1> QED BY <1>1, ReachFacts

LEMMA ReachGrows ==
    ASSUME NEW p, NumberedIn(Commits, p), NEW U \in SUBSET Commits, NEW T \in SUBSET U
    PROVE  S!Reach(p, T) \subseteq S!Reach(p, U)
<1>1. S!Reach(p, U) \in SUBSET Commits /\ T \subseteq S!Reach(p, U) /\ ClosedUnder(p, S!Reach(p, U))
  BY ReachIsLeast
<1> QED BY <1>1, ReachIsLeast

\* The pack and a closed set with the haves it was computed from are closed
\* together and hold the wants.
LEMMA PackCloses ==
    ASSUME NEW p, NumberedIn(Commits, p), NEW w \in SUBSET Commits, NEW h \in SUBSET Commits,
           NEW A \in SUBSET Commits, ClosedUnder(p, A), h \subseteq A
    PROVE  /\ S!SentFor(p, w, h) \in SUBSET Commits
           /\ w \subseteq A \cup S!SentFor(p, w, h)
           /\ ClosedUnder(p, A \cup S!SentFor(p, w, h))
<1>1. /\ S!Reach(p, w) \in SUBSET Commits /\ w \subseteq S!Reach(p, w) /\ ClosedUnder(p, S!Reach(p, w))
      /\ S!Reach(p, h) \subseteq A
  BY ReachIsLeast
<1> QED BY <1>1 DEF S!SentFor, ClosedUnder

\* More haves, fewer commits; and nothing below the haves.
LEMMA PackShrinks ==
    ASSUME NEW p, NumberedIn(Commits, p), NEW w \in SUBSET Commits, NEW U \in SUBSET Commits,
           NEW T \in SUBSET U
    PROVE  /\ S!SentFor(p, w, U) \subseteq S!SentFor(p, w, T)
           /\ S!SentFor(p, w, U) \cap S!Reach(p, T) = {}
<1>1. S!Reach(p, T) \subseteq S!Reach(p, U)
  BY ReachGrows
<1> QED BY <1>1 DEF S!SentFor

-----------------------------------------------------------------------------
(* The inductive invariant *)

\* No root commit is selected for the haves h.
Rootless(h) == \A c \in S!SentFor(parents, wants, h) : parents[c] # {}

Common == offered \cap server

SceneInv ==
    /\ NumberedIn(Commits, parents)
    /\ wants \in SUBSET Commits /\ wants # {} /\ direct \in BOOLEAN
    /\ protocol \in {"v2", "v0"}

\* One message is in flight while the client waits, and a request carries all
\* the haves offered so far.
MessageInv ==
    /\ request.kind # "none" => pc = "wait" /\ request.haves = offered
    /\ answer.kind # "none" => pc = "wait" /\ answer.to \in {"round", "done"}
    /\ pc = "wait" => request.kind # "none" \/ answer.kind # "none"

\* What the client was told is still so: an acknowledged have stays common,
\* and after ready no root is selected, as haves and commits are only added.
ToldInv ==
    /\ acked \subseteq server
    /\ ready /\ ~direct => Rootless(Common)

Packs == [kind : {"pack"}, to : {"round", "done"}, acks : SUBSET Commits, nak : BOOLEAN,
          commits : SUBSET Commits, shared : SUBSET Commits]

\* What an answer tells the client was so when it was computed, and is.
AnswerInv ==
    /\ answer.kind = "acks" =>
          /\ answer.acks \subseteq Common /\ answer.ready \in BOOLEAN
          /\ answer.ready /\ ~direct => Rootless(Common)
    /\ answer.kind = "pack" =>
          /\ answer \in Packs
          /\ answer.shared \subseteq Common
          /\ answer.acks \cup acked \subseteq answer.shared
          /\ answer.commits = S!SentFor(parents, History, answer.shared)
          /\ ready /\ ~direct => Rootless(answer.shared)
          /\ ~direct /\ answer.nak => answer.shared = {}

NegInv ==
    /\ NGTypeOK /\ SceneInv /\ MessageInv /\ ToldInv /\ AnswerInv
    /\ pc # "complete" => received = {}
    /\ ClientComplete /\ AckedNeverSent /\ ReadyMeansBounded

LEMMA ClosedSame == ASSUME SceneInv, NEW A \in SUBSET Commits PROVE Closed(A) <=> ClosedUnder(parents, A)
  BY DEF Closed, ClosedUnder

LEMMA NegInit == NGInit => NegInv
<1> SUFFICES ASSUME NGInit PROVE NegInv
  OBVIOUS
<1>1. /\ parents \in [Commits -> SUBSET Commits] /\ \A c \in Commits : \A q \in parents[c] : q < c
      /\ server \in SUBSET Commits /\ Closed(server) /\ client \in SUBSET Commits /\ Closed(client)
      /\ wants \in SUBSET Commits /\ wants # {} /\ direct \in BOOLEAN /\ protocol \in {"v2", "v0"}
      /\ pc = "ask" /\ offered = {} /\ acked = {} /\ ready = FALSE
      /\ request = Nothing /\ answer = Nothing /\ received = {}
  BY DEF NGInit, NGScene, NGStart
<1>2. Nothing.kind = "none"
  BY DEF Nothing
<1>3. SceneInv
  <2>1. Commits \in SUBSET Nat /\ N \in Nat /\ \A c \in Commits : c <= N
    BY NegotiationAssumption DEF Commits
  <2> QED BY <1>1, <2>1 DEF SceneInv, NumberedIn
<1>4. NGTypeOK
  BY <1>1, <1>2 DEF NGTypeOK
<1>5. MessageInv /\ ToldInv /\ AnswerInv
  BY <1>1, <1>2 DEF MessageInv, ToldInv, AnswerInv
<1>6. ClientComplete /\ AckedNeverSent /\ ReadyMeansBounded
  BY <1>1 DEF ClientComplete, AckedNeverSent, ReadyMeansBounded
<1> QED BY <1>1, <1>3, <1>4, <1>5, <1>6 DEF NegInv

\* Until the client is complete, nothing is claimed of what it received.
LEMMA NotYet ==
    ASSUME NegInv, pc' # "complete", acked' \subseteq server', received' = {}
    PROVE  (ClientComplete /\ AckedNeverSent /\ ReadyMeansBounded)'
  BY DEF ClientComplete, AckedNeverSent, ReadyMeansBounded

\* Haves and commits are only added: what was told stays told.
LEMMA RootlessStays ==
    ASSUME NegInv, NEW T, T \subseteq Commits, NEW U, U \subseteq Commits, T \subseteq U, Rootless(T)
    PROVE  Rootless(U)
<1>1. S!SentFor(parents, wants, U) \subseteq S!SentFor(parents, wants, T)
  BY PackShrinks DEF NegInv, SceneInv
<1> QED BY <1>1 DEF Rootless

\* The client's requests.
LEMMA AskKeeps ==
    ASSUME NegInv, ClientRound \/ ClientDone \/ LoseAndRetry
    PROVE  NegInv'
<1>0. NGTypeOK /\ SceneInv /\ MessageInv /\ ToldInv /\ AnswerInv
  BY DEF NegInv
<1>1. /\ UNCHANGED <<fixed, server, client, acked, ready, received>> /\ pc' = "wait"
      /\ UNCHANGED <<parents, wants, direct, protocol>> /\ pc \in {"ask", "wait"}
      /\ offered \subseteq offered' /\ offered' \subseteq client
      /\ request'.haves = offered' /\ request'.kind \in {"round", "done"}
      /\ answer'.kind = "none"
  <2>1. CASE ClientRound
    BY <1>0, <2>1 DEF ClientRound, fixed, NGTypeOK, MessageInv
  <2>2. CASE ClientDone
    BY <1>0, <2>2 DEF ClientDone, fixed, NGTypeOK, MessageInv
  <2>3. CASE LoseAndRetry
    <3>1. request'.kind \in {"round", "done"}
      BY <1>0, <2>3 DEF LoseAndRetry, NGTypeOK, MessageInv
    <3> QED BY <1>0, <2>3, <3>1 DEF LoseAndRetry, fixed, NGTypeOK, Nothing
  <2> QED BY <2>1, <2>2, <2>3
<1>2. received' = {} /\ acked' \subseteq server'
  BY <1>0, <1>1 DEF NegInv, ToldInv
<1>3. NGTypeOK'
  BY <1>0, <1>1 DEF NGTypeOK, Closed
<1>4. SceneInv' /\ MessageInv'
  BY <1>0, <1>1 DEF SceneInv, MessageInv
<1>5. ToldInv'
  <2>1. ASSUME ready, ~direct PROVE Rootless(Common)'
    <3>1. Rootless(Common) /\ Common \subseteq Commits /\ offered' \cap server \subseteq Commits
      BY <1>0, <1>1, <2>1 DEF ToldInv, NGTypeOK, Common
    <3>2. Rootless(offered' \cap server)
      BY <1>1, <3>1, RootlessStays DEF Common
    <3> QED BY <1>1, <3>2 DEF Rootless, Common
  <2> QED BY <1>1, <1>2, <2>1 DEF ToldInv
<1>6. AnswerInv'
  BY <1>1 DEF AnswerInv
<1> QED BY <1>1, <1>2, <1>3, <1>4, <1>5, <1>6, NotYet DEF NegInv

\* The client takes acknowledgements or an error.
LEMMA AcksKeep ==
    ASSUME NegInv, ClientAcks \/ ClientError
    PROVE  NegInv'
<1>0. NGTypeOK /\ SceneInv /\ MessageInv /\ ToldInv /\ AnswerInv
  BY DEF NegInv
<1>1. /\ UNCHANGED <<fixed, server, client, offered, request, received>> /\ pc' \in {"ask", "failed"}
      /\ UNCHANGED <<parents, wants, direct, protocol>> /\ pc = "wait"
      /\ answer.kind \in {"acks", "ERR"} /\ answer'.kind = "none" /\ request.kind = "none"
      /\ \/ acked' = acked /\ ready' = ready
         \/ acked' = acked \cup answer.acks /\ ready' = (ready \/ answer.ready) /\ answer.kind = "acks"
  BY <1>0 DEF ClientAcks, ClientError, fixed, MessageInv, NGTypeOK, Nothing
<1>2. received' = {} /\ acked' \subseteq server' /\ acked' \subseteq offered'
  BY <1>0, <1>1 DEF NegInv, ToldInv, AnswerInv, Common, NGTypeOK
<1>3. ready' \in BOOLEAN /\ (ready' /\ ~direct => Rootless(Common))
  BY <1>0, <1>1 DEF NGTypeOK, AnswerInv, ToldInv
<1>4. NGTypeOK'
  BY <1>0, <1>1, <1>2, <1>3 DEF NGTypeOK, Closed
<1>5. SceneInv' /\ MessageInv'
  BY <1>0, <1>1 DEF SceneInv, MessageInv
<1>6. ToldInv'
  BY <1>1, <1>2, <1>3 DEF ToldInv, Rootless, Common
<1>7. AnswerInv'
  BY <1>1 DEF AnswerInv
<1> QED BY <1>1, <1>2, <1>4, <1>5, <1>6, <1>7, NotYet DEF NegInv

\* The client takes the pack: the one moment at which its claims are earned.
LEMMA PackKeeps == ASSUME NegInv, ClientPack PROVE NegInv'
<1>0. NGTypeOK /\ SceneInv /\ MessageInv /\ ToldInv /\ AnswerInv
  BY DEF NegInv
<1>1. /\ UNCHANGED <<fixed, server, offered, ready, request>> /\ pc' = "complete"
      /\ UNCHANGED <<parents, wants, direct, protocol>> /\ answer.kind = "pack"
      /\ acked' = acked \cup answer.acks /\ client' = client \cup answer.commits
      /\ received' = answer.commits /\ answer' = [answer EXCEPT !.kind = "none"]
  BY DEF ClientPack, fixed
<1>2. /\ answer \in Packs /\ answer.shared \subseteq Common /\ answer.acks \cup acked \subseteq answer.shared
      /\ answer.commits = S!SentFor(parents, History, answer.shared)
      /\ ready /\ ~direct => Rootless(answer.shared)
  BY <1>0, <1>1 DEF AnswerInv
<1>3. answer'.kind = "none" /\ request.kind = "none"
  BY <1>0, <1>1, <1>2 DEF Packs, NGTypeOK
<1>4. /\ NumberedIn(Commits, parents) /\ client \in SUBSET Commits /\ ClosedUnder(parents, client)
      /\ History \in SUBSET Commits /\ answer.shared \in SUBSET Commits /\ answer.shared \subseteq client
      /\ Common \subseteq client
  <2>1. client \in SUBSET Commits /\ Common \subseteq client /\ ClosedUnder(parents, client)
    BY <1>0, ClosedSame DEF NGTypeOK, Common
  <2> QED BY <1>0, <1>2, <2>1 DEF SceneInv, History, Packs
<1>5. /\ answer.commits \in SUBSET Commits
      /\ History \subseteq client'
      /\ ClosedUnder(parents, client')
  <2>1. /\ S!SentFor(parents, History, answer.shared) \in SUBSET Commits
        /\ History \subseteq client \cup S!SentFor(parents, History, answer.shared)
        /\ ClosedUnder(parents, client \cup S!SentFor(parents, History, answer.shared))
    BY <1>4, PackCloses
  <2>2. client' = client \cup S!SentFor(parents, History, answer.shared)
    BY <1>1, <1>2
  <2> QED BY <1>2, <2>1, <2>2
<1>6. client' \in SUBSET Commits /\ Closed(client)'
  <2>1. client' \in SUBSET Commits
    BY <1>1, <1>4, <1>5
  <2> QED BY <1>1, <1>5, <2>1 DEF Closed, ClosedUnder
<1>7. acked' \subseteq server /\ acked' \subseteq offered /\ acked' \subseteq answer.shared
  BY <1>1, <1>2 DEF Common
<1>8. NGTypeOK'
  BY <1>0, <1>1, <1>3, <1>6, <1>7 DEF NGTypeOK, Closed
<1>9. SceneInv' /\ MessageInv' /\ AnswerInv'
  BY <1>0, <1>1, <1>3 DEF SceneInv, MessageInv, AnswerInv
<1>10. ToldInv'
  BY <1>0, <1>1, <1>7 DEF ToldInv, Rootless, Common
<1>11. ClientComplete'
  BY <1>1, <1>5, <1>6 DEF ClientComplete, History
<1>12. AckedNeverSent'
  <2>1. acked' \in SUBSET answer.shared
    BY <1>7
  <2>2. answer.commits \cap S!Reach(parents, acked') = {}
    BY <1>2, <1>4, <2>1, PackShrinks
  <2> QED BY <1>1, <1>7, <2>2 DEF AckedNeverSent
<1>13. ReadyMeansBounded'
  <2>1. ASSUME ready, ~direct PROVE \A c \in answer.commits : parents[c] # {}
    <3>1. answer.commits = S!SentFor(parents, wants, answer.shared)
      BY <1>2, <2>1 DEF History
    <3> QED BY <1>2, <2>1, <3>1 DEF Rootless
  <2> QED BY <1>1, <2>1 DEF ReadyMeansBounded
<1> QED BY <1>1, <1>8, <1>9, <1>10, <1>11, <1>12, <1>13 DEF NegInv

\* A push to the server adds a commit whose parents are there.
LEMMA PushKeeps == ASSUME NegInv, ServerPush PROVE NegInv'
<1>0. NGTypeOK /\ SceneInv /\ MessageInv /\ ToldInv /\ AnswerInv
  BY DEF NegInv
<1>1. PICK c \in Commits \ server : parents[c] \subseteq server /\ server' = server \cup {c}
  BY DEF ServerPush
<1>2. /\ UNCHANGED <<fixed, client, pc, offered, acked, ready, request, answer, received>>
      /\ UNCHANGED <<parents, wants, direct, protocol>> /\ pc # "complete"
  BY DEF ServerPush, fixed
<1>3. received' = {} /\ acked' \subseteq server'
  BY <1>0, <1>1, <1>2 DEF NegInv, ToldInv
<1>4. NGTypeOK'
  BY <1>0, <1>1, <1>2 DEF NGTypeOK, Closed
<1>5. SceneInv' /\ MessageInv'
  BY <1>0, <1>2 DEF SceneInv, MessageInv
<1>6. /\ Common \subseteq Common' /\ Common \subseteq Commits /\ Common' \subseteq Commits
      /\ Rootless(Common) => Rootless(Common)'
  <2>1. Common \subseteq Common' /\ Common \subseteq Commits /\ Common' \subseteq Commits
    BY <1>0, <1>1, <1>2 DEF Common, NGTypeOK
  <2>2. Rootless(Common) => Rootless(Common')
    BY <2>1, RootlessStays
  <2> QED BY <1>2, <2>1, <2>2 DEF Rootless
<1>7. ToldInv'
  BY <1>0, <1>2, <1>3, <1>6 DEF ToldInv
<1>8. AnswerInv'
  <2>1. History' = History
    BY <1>2 DEF History
  <2>2. Rootless(answer.shared)' <=> Rootless(answer.shared)
    BY <1>2 DEF Rootless
  <2> QED BY <1>0, <1>2, <1>6, <2>1, <2>2 DEF AnswerInv
<1> QED BY <1>2, <1>3, <1>4, <1>5, <1>7, <1>8, NotYet DEF NegInv

\* The server answers from what it has at this moment.
LEMMA AnswerKeeps == ASSUME NegInv, ServerStep PROVE NegInv'
<1>0. NGTypeOK /\ SceneInv /\ MessageInv /\ ToldInv /\ AnswerInv
  BY DEF NegInv
<1>1. /\ UNCHANGED <<fixed, server, client, pc, offered, acked, ready, received>>
      /\ UNCHANGED <<parents, wants, direct, protocol>> /\ request'.kind = "none"
      /\ request.kind \in {"round", "done"} /\ pc = "wait" /\ request.haves = offered
  BY <1>0 DEF ServerStep, Reject, Negotiate, StreamPack, fixed, MessageInv, NGTypeOK, Nothing
<1>2. CommonHaves(request.haves) = Common /\ Common \subseteq Commits
  BY <1>0, <1>1 DEF CommonHaves, Common, NGTypeOK
<1>3. Rootless(Common)' <=> Rootless(Common)
  BY <1>1 DEF Rootless, Common
<1>4. answer'.kind \in {"acks", "pack", "ERR"} /\ answer'.to \in {"round", "done"} /\ AnswerInv'
  <2>1. CASE Reject
    BY <1>1, <2>1 DEF Reject, AnswerInv
  <2>2. CASE Negotiate
    <3>1. answer' = [kind |-> "acks", to |-> "round", acks |-> IF detailed THEN Common ELSE {},
                     ready |-> detailed /\ Ready(Common)]
      BY <1>2, <2>2 DEF Negotiate
    <3>2. answer'.ready /\ ~direct => Rootless(Common)
      BY <1>0, <3>1 DEF Ready, S!BoundedFor, History, Rootless, SceneInv
    <3>3. answer'.acks \subseteq Common' /\ answer'.ready \in BOOLEAN
      BY <1>1, <3>1 DEF Common, Ready, S!BoundedFor
    <3> QED BY <1>1, <1>3, <3>1, <3>2, <3>3 DEF AnswerInv
  <2>3. CASE StreamPack
    <3>1. PICK a \in FinalAcks(Common) :
              answer' = [kind |-> "pack", to |-> request.kind, acks |-> a, nak |-> SaysNak(a),
                         commits |-> PackCommits(Common), shared |-> Common]
      BY <1>1, <1>2, <2>3 DEF StreamPack, Common
    <3>2. a \subseteq Common /\ (~direct /\ SaysNak(a) => Common = {})
      <4>1. CASE direct \/ Common = {}
        BY <3>1, <4>1 DEF FinalAcks
      <4>2. CASE ~direct /\ Common # {} /\ protocol = "v0"
        BY <3>1, <4>2 DEF FinalAcks, SaysNak
      <4>3. CASE ~direct /\ Common # {} /\ protocol = "v2"
        <5>1. a = IF request.kind = "done" THEN {} ELSE Common
          BY <3>1, <4>3 DEF FinalAcks
        <5> QED BY <4>3, <5>1 DEF SaysNak
      <4> QED BY <1>0, <4>1, <4>2, <4>3 DEF SceneInv
    <3>3. PackCommits(Common) \in SUBSET Commits
      <4>1. ClosedUnder(parents, Commits) /\ History \in SUBSET Commits /\ NumberedIn(Commits, parents)
        BY <1>0 DEF SceneInv, ClosedUnder, NumberedIn, History
      <4>2. Commits \in SUBSET Commits /\ Common \in SUBSET Commits
        BY <1>2
      <4>3. S!SentFor(parents, History, Common) \in SUBSET Commits
        BY <4>1, <4>2, PackCloses
      <4> QED BY <4>3 DEF PackCommits
    <3>4. answer' \in Packs
      BY <1>1, <1>2, <3>1, <3>2, <3>3 DEF Packs, SaysNak
    <3>5. History' = History /\ Common' = Common /\ acked \subseteq Common
      BY <1>0, <1>1 DEF History, Common, ToldInv, NGTypeOK
    <3>6. ready /\ ~direct => Rootless(Common)
      BY <1>0 DEF ToldInv
    <3> QED BY <1>1, <1>3, <3>1, <3>2, <3>4, <3>5, <3>6 DEF AnswerInv, PackCommits
  <2> QED BY <2>1, <2>2, <2>3 DEF ServerStep
<1>5. NGTypeOK'
  BY <1>0, <1>1, <1>4 DEF NGTypeOK, Closed
<1>6. SceneInv' /\ MessageInv' /\ ToldInv'
  BY <1>0, <1>1, <1>3, <1>4 DEF SceneInv, MessageInv, ToldInv
<1>7. received' = {} /\ acked' \subseteq server'
  BY <1>0, <1>1 DEF NegInv, ToldInv
<1> QED BY <1>1, <1>4, <1>5, <1>6, <1>7, NotYet DEF NegInv

LEMMA NegStep == NegInv /\ [NGNext]_ngVars => NegInv'
<1> SUFFICES ASSUME NegInv, [NGNext]_ngVars PROVE NegInv'
  OBVIOUS
<1>1. CASE UNCHANGED ngVars
  <2>1. UNCHANGED <<parents, wants, direct, protocol, server, client, pc, offered, acked, ready, request, answer, received>>
    BY <1>1 DEF ngVars, fixed
  <2>2. UNCHANGED Common /\ \A h : Rootless(h)' <=> Rootless(h)
    BY <2>1 DEF Common, Rootless
  <2>3. NGTypeOK' /\ SceneInv' /\ MessageInv'
    BY <2>1 DEF NegInv, NGTypeOK, SceneInv, MessageInv, Closed
  <2>4. ToldInv' /\ AnswerInv'
    BY <2>1, <2>2 DEF NegInv, ToldInv, AnswerInv, History, Rootless, Common
  <2> QED BY <2>1, <2>3, <2>4 DEF NegInv, ClientComplete, AckedNeverSent, ReadyMeansBounded, Closed
<1> QED BY <1>1, AskKeeps, AcksKeep, PackKeeps, PushKeeps, AnswerKeeps DEF NGNext, ClientStep

-----------------------------------------------------------------------------
(* The theorems *)

\* The inductive invariant of a negotiation: what each answer says holds when
\* it is read, and what the client was told before still does.
THEOREM NegotiationInvariant == NGSpec => []NegInv
  BY NegInit, NegStep, PTL DEF NGSpec

\* upload_pack.rs and upload_pack_v0.rs: however rounds are lost, repeated and
\* interleaved with pushes, the client ends with the wants and all their
\* ancestors; no acknowledged have nor anything below it is in the pack; a
\* client that was told ready gets no root commit; and a NAK before the pack
\* means that the server has none of the haves.
THEOREM NegotiationsAreSound == NGSpec => []NegotiationSound
<1>1. NegInv => NegotiationSound
  BY DEF NegInv, AnswerInv, DoneAckSaysCommon, NegotiationSound
<1> QED BY <1>1, NegotiationInvariant, PTL
=============================================================================
