-------------------------------- MODULE LsRefs --------------------------------
(***************************************************************************)
(* The ref advertisements: ls-refs of protocol v2, the classic upload-pack *)
(* advertisement and the receive-pack advertisement.  A request lists the  *)
(* refs (once, or once per prefix), then follows each one's symref chain   *)
(* with one read per hop and peels the tag it ends in, while pushes create *)
(* update and delete direct refs.  Pkt-line text is left out: a line is    *)
(* the ref's name with what it says about it.                              *)
(***************************************************************************)
EXTENDS Integers, Sequences, FiniteSets, FiniteSetsExt

CONSTANTS
    Names,             \* ref names as numbers, in name order
    HeadRef,              \* the name HEAD, the first of them
    Oids,
    TagTarget,         \* the tag objects -> what they name
    Missing,           \* objects that are not in storage
    MaxSymrefDepth, MaxPeelDepth,
    PrefixLists,          \* ref-prefix lists a request may carry, as lists of sets of names
    Starts             \* bounds to explore: the ref store and the number of ref
                       \* updates during a request

Direct(o) == [oid |-> o]
Reference(n) == [ref |-> n]
NoRef == [none |-> 0]
RefTargets == {Direct(o) : o \in Oids} \cup {Reference(n) : n \in Names} \cup {NoRef}

\* An attribute that a line does not have, and the oid of an unborn ref.
Absent == "none"
Unborn == "unborn"

TagObjects == DOMAIN TagTarget

ASSUME LsRefsAssumption ==
    /\ Names \subseteq Nat /\ IsFiniteSet(Names) /\ HeadRef \in Names
    /\ \A n \in Names : HeadRef <= n
    /\ MaxSymrefDepth \in Nat \ {0} /\ MaxPeelDepth \in Nat \ {0}
    /\ TagObjects \subseteq Oids /\ TagTarget \in [TagObjects -> Oids]
    /\ Absent \notin Oids /\ Unborn \notin Oids
    /\ \A s \in Starts : s.refs \in [Names -> RefTargets] /\ s.updates \in Nat
    /\ PrefixLists \subseteq Seq(SUBSET Names)

VARIABLES
    refs,              \* the ref store: name -> target
    mode,              \* "v2", "v0" or "receive"
    args,              \* of ls-refs: prefixes, unborn, symrefs, peel
    scans,             \* sets of names still to be listed, one scan each
    phase,
    listed,            \* name -> target as listed
    queue,             \* names still to be advertised, the least first
    cursor, hops,      \* resolve_ref of the first of them
    lines,             \* the advertisement
    updates,           \* ref updates still to come
    held               \* history: what each name has been since the request began

lrVars == <<refs, mode, args, scans, phase, listed, queue, cursor, hops, lines, updates, held>>

Line(n, o, sym, peeled) == [name |-> n, oid |-> o, symref |-> sym, peeled |-> peeled]

LRTypeOK ==
    /\ mode \in {"v2", "v0", "receive"}
    /\ phase \in {"list", "next", "resolve", "done"}
    /\ DOMAIN listed \subseteq Names /\ queue \subseteq DOMAIN listed
    /\ (phase = "list") = (scans # <<>>)
    /\ hops \in 0..MaxSymrefDepth
    /\ updates \in Nat
    /\ phase = "resolve" => queue # {} /\ hops < MaxSymrefDepth
    /\ \A i, j \in DOMAIN lines : i < j => lines[i].name < lines[j].name

\* Requests: the receive-pack advertisement and the classic one take no
\* arguments.
LRInit ==
    /\ \E s \in Starts : refs = s.refs /\ updates = s.updates
    /\ mode \in {"v2", "v0", "receive"}
    /\ args \in IF mode = "v2"
                THEN [prefixes : PrefixLists, unborn : BOOLEAN, symrefs : BOOLEAN, peel : BOOLEAN]
                ELSE {[prefixes |-> <<>>, unborn |-> FALSE, symrefs |-> FALSE, peel |-> FALSE]}
    /\ scans = IF args.prefixes = <<>> THEN <<Names>> ELSE args.prefixes
    /\ phase = "list"
    /\ listed = [n \in {} |-> NoRef]
    /\ queue = {} /\ cursor = NoRef /\ hops = 0 /\ lines = <<>>
    /\ held = [n \in Names |-> {refs[n]}]

------------------------------------------------------------------------------
\* A push moves, creates or deletes a direct ref; update_refs refuses a
\* symbolic one.
PushRef ==
    /\ updates > 0 /\ phase # "done"
    /\ \E n \in Names, t \in {Direct(o) : o \in Oids \ Missing} \cup {NoRef} :
          /\ t # refs[n] /\ "ref" \notin DOMAIN refs[n]
          /\ refs' = [refs EXCEPT ![n] = t]
          /\ held' = [held EXCEPT ![n] = @ \cup {t}]
    /\ updates' = updates - 1
    /\ UNCHANGED <<mode, args, scans, phase, listed, queue, cursor, hops, lines>>

Existing(S) == {n \in S : refs[n] # NoRef}

Overlay(f, S) == [n \in DOMAIN f \cup S |-> IF n \in S THEN refs[n] ELSE f[n]]

\* (Mutant of ListRefs: only the refs of the last prefix are kept.)
ListRefsAnew ==
    /\ phase = "list"
    /\ listed' = Overlay([n \in {} |-> NoRef], Existing(Head(scans)))
    /\ scans' = Tail(scans)
    /\ phase' = IF scans' = <<>> THEN "next" ELSE "list"
    /\ queue' = IF scans' = <<>> THEN DOMAIN listed' ELSE {}
    /\ UNCHANGED <<refs, mode, args, cursor, hops, lines, updates, held>>

\* gather_refs: one scan, or one per prefix, a later scan overwriting; the
\* map is then gone through in the order of the names.
ListRefs ==
    /\ phase = "list"
    /\ listed' = Overlay(listed, Existing(Head(scans)))
    /\ scans' = Tail(scans)
    /\ phase' = IF scans' = <<>> THEN "next" ELSE "list"
    /\ queue' = IF scans' = <<>> THEN DOMAIN listed' ELSE {}
    /\ UNCHANGED <<refs, mode, args, cursor, hops, lines, updates, held>>

\* peel_ref: reads at most MaxPeelDepth objects; Absent for what is no tag or
\* leads to a missing object.
PeelRef(o) ==
    LET p[d \in 0..MaxPeelDepth] ==
          IF d = 0 THEN [x \in Oids |-> x]
          ELSE [x \in Oids |-> IF x \in Missing THEN Absent
                                ELSE IF x \notin TagObjects THEN x ELSE p[d - 1][TagTarget[x]]]
    IN IF o \in TagObjects \ Missing THEN p[MaxPeelDepth - 1][TagTarget[o]] ELSE Absent

Name == Min(queue)

SymrefOf(t) == IF "ref" \in DOMAIN t THEN t.ref ELSE Absent

\* Take the next ref: the receive side advertises direct refs as listed,
\* the fetch side resolves.
NextRef ==
    /\ phase = "next" /\ queue # {}
    /\ IF mode = "receive"
       THEN /\ lines' = IF "oid" \in DOMAIN listed[Name]
                        THEN Append(lines, Line(Name, listed[Name].oid, Absent, Absent)) ELSE lines
            /\ queue' = queue \ {Name}
            /\ UNCHANGED <<phase, cursor, hops>>
       ELSE /\ phase' = "resolve"
            /\ cursor' = listed[Name]
            /\ hops' = 0
            /\ UNCHANGED <<lines, queue>>
    /\ UNCHANGED <<refs, mode, args, scans, listed, updates, held>>

Advertise(line) ==
    /\ lines' = Append(lines, line)
    /\ queue' = queue \ {Name}
    /\ phase' = "next"

Skip ==
    /\ UNCHANGED lines
    /\ queue' = queue \ {Name}
    /\ phase' = "next"

\* The chain ends in an object: its line, with the attributes asked for;
\* the classic advertisement names HEAD's target and peels the others.
Resolved ==
    /\ phase = "resolve" /\ "oid" \in DOMAIN cursor
    /\ LET symref == SymrefOf(listed[Name])
           peeled == PeelRef(cursor.oid)
       IN Advertise(IF mode = "v2"
                    THEN Line(Name, cursor.oid, IF args.symrefs THEN symref ELSE Absent,
                              IF args.peel THEN peeled ELSE Absent)
                    ELSE IF Name = HeadRef THEN Line(Name, cursor.oid, symref, Absent)
                    ELSE Line(Name, cursor.oid, Absent, peeled))
    /\ UNCHANGED <<refs, mode, args, scans, listed, cursor, hops, updates, held>>

\* (Mutant of Hop: a chain over the cap is reported like a dangling one.)
HopConflated ==
    /\ phase = "resolve" /\ "ref" \in DOMAIN cursor
    /\ IF refs[cursor.ref] = NoRef \/ hops + 1 = MaxSymrefDepth
       THEN /\ IF mode = "v2" /\ args.unborn
               THEN Advertise(Line(Name, Unborn,
                                   IF args.symrefs THEN SymrefOf(listed[Name]) ELSE Absent, Absent))
               ELSE Skip
            /\ UNCHANGED <<cursor, hops>>
       ELSE /\ cursor' = refs[cursor.ref]
            /\ hops' = hops + 1
            /\ UNCHANGED <<lines, queue, phase>>
    /\ UNCHANGED <<refs, mode, args, scans, listed, updates, held>>

\* One hop of resolve_ref: a ref that is not there makes the chain dangle,
\* advertised as unborn when asked; a chain over the cap is left out.
Hop ==
    /\ phase = "resolve" /\ "ref" \in DOMAIN cursor
    /\ IF refs[cursor.ref] = NoRef
       THEN /\ IF mode = "v2" /\ args.unborn
               THEN Advertise(Line(Name, Unborn,
                                   IF args.symrefs THEN SymrefOf(listed[Name]) ELSE Absent, Absent))
               ELSE Skip
            /\ UNCHANGED <<cursor, hops>>
       ELSE IF hops + 1 = MaxSymrefDepth
       THEN Skip /\ UNCHANGED <<cursor, hops>>
       ELSE /\ cursor' = refs[cursor.ref]
            /\ hops' = hops + 1
            /\ UNCHANGED <<lines, queue, phase>>
    /\ UNCHANGED <<refs, mode, args, scans, listed, updates, held>>

EndListing ==
    /\ phase = "next" /\ queue = {}
    /\ phase' = "done"
    /\ UNCHANGED <<refs, mode, args, scans, listed, queue, cursor, hops, lines, updates, held>>

Serve == ListRefs \/ NextRef \/ Resolved \/ Hop \/ EndListing
LRNext == PushRef \/ Serve

LRSpec == LRInit /\ [][LRNext]_lrVars

------------------------------------------------------------------------------
(* Properties                                                              *)

\* Targets reachable from a name by d hops each of which was true at some
\* moment since the request began: h[m] is what m has been.
Reached(h, n, d) ==
    LET c[k \in 0..MaxSymrefDepth] ==
          IF k = 0 THEN h[n]
          ELSE c[k - 1] \cup UNION {h[t.ref] : t \in {u \in c[k - 1] : "ref" \in DOMAIN u}}
    IN c[d]

Chains(n) == Reached(held, n, MaxSymrefDepth - 1)

\* The names resolve_ref may read for n: its own and those its chain goes
\* through, up to the cap.
ChainNames(h, n) ==
    {n} \cup {t.ref : t \in {u \in Reached(h, n, MaxSymrefDepth - 1) : "ref" \in DOMAIN u}}

\* No line is made up: an advertised object was the end of the ref's chain,
\* each hop at some moment of the request, and an unborn ref's chain had a
\* missing end at some moment, even when pushes move, create and delete
\* refs between the list and the hops.
LinesWereTrue ==
    \A i \in DOMAIN lines :
        IF lines[i].oid = Unborn
        THEN \E t \in {u \in held[lines[i].name] : "ref" \in DOMAIN u} : NoRef \in Chains(t.ref)
        ELSE Direct(lines[i].oid) \in Chains(lines[i].name)

Untouched(n) == Cardinality(held[n]) = 1

\* Where the refs r lead from a target: to its end, or to a symref that is
\* left over after d hops.
Followed(r, t, d) ==
    LET e[k \in 0..MaxSymrefDepth] ==
          [u \in RefTargets |->
             IF "ref" \notin DOMAIN u THEN u
             ELSE IF r[u.ref] = NoRef THEN NoRef
             ELSE IF k = 0 THEN u ELSE e[k - 1][r[u.ref]]]
    IN e[d][t]

EndOf(n) == Followed(refs, refs[n], MaxSymrefDepth - 1)

\* The names a request asks for.
Wanted == {n \in Names : args.prefixes = <<>> \/ \E i \in DOMAIN args.prefixes : n \in args.prefixes[i]}

\* Nobody touches what n's line is made of: its whole chain, or, on the receive
\* side, the ref itself.
Stable(n) == \A m \in IF mode = "receive" THEN {n} ELSE ChainNames(held, n) : Untouched(m)

ShownOf(n) == {i \in DOMAIN lines : lines[i].name = n}

\* What n is to be advertised with: the end of its chain, and on the receive
\* side what it is itself.
Due(n) == IF mode = "receive" THEN refs[n] ELSE EndOf(n)

\* n is advertised with the object it ends in, as unborn when its chain dangles
\* and unborn was asked for, and is left out when the chain exceeds the cap; the
\* receive side leaves out symrefs.
ShownRight(n) ==
    IF "oid" \in DOMAIN Due(n) THEN \E i \in ShownOf(n) : lines[i].oid = Due(n).oid
    ELSE IF Due(n) = NoRef /\ mode = "v2" /\ args.unborn THEN \E i \in ShownOf(n) : lines[i].oid = Unborn
    ELSE ShownOf(n) = {}

\* Every ref that exists, was asked for and has a chain nobody touches during
\* the request is shown as it is, whatever happens to the other refs: no scan
\* of a prefix and no resolution of another ref loses or changes it.
StableRefsShown == phase = "done" => \A n \in Wanted : refs[n] # NoRef /\ Stable(n) => ShownRight(n)

\* o names e through a chain of n tags.
TagChain(o, n, e) ==
    \E c \in [0..n -> Oids] :
        /\ c[0] = o /\ c[n] = e /\ e \notin TagObjects
        /\ \A k \in 1..n : c[k - 1] \in TagObjects /\ c[k] = TagTarget[c[k - 1]]

\* A peeled attribute is the object under the whole tag chain, and only for
\* a ref that names a tag, as long as the chain is within the cap.
PeelsToTheEnd ==
    \A i \in DOMAIN lines : lines[i].peeled # Absent =>
        \A n \in 0..MaxPeelDepth, e \in Oids :
            TagChain(lines[i].oid, n, e) => n > 0 /\ lines[i].peeled = e

\* An advertisement is true of the refs as they were while it was made, and
\* whole for what nobody touched.
ListingTrue == LRTypeOK /\ LinesWereTrue /\ StableRefsShown /\ PeelsToTheEnd
==============================================================================
