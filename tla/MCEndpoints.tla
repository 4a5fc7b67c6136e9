----------------------------- MODULE MCEndpoints -----------------------------
(***************************************************************************)
(* The endpoints for TLC: request bodies, ref advertisements, and fetches  *)
(* negotiated over several rounds.  In a behaviour one of them takes all   *)
(* the steps, the other two stay in an initial state.                      *)
(***************************************************************************)
EXTENDS Requests, LsRefs, Negotiation

CONSTANT Parts

VARIABLE running      \* the component that takes the steps

all == <<running, rqVars, lrVars, ngVars>>

Body(p, n, data) == [parser |-> p, packets |-> n, lines |-> data]

\* Bodies over a small alphabet of data lines: a v2 fetch, the other v2
\* commands, a classic fetch and a push.
MCBodies ==
    [ fetch   |-> Body("v2", 6, {Command("fetch"), Want(1, NoCaps), Want(2, {"side-band"}),
                                 Filter("none"), Filter("limit"), Done}),
      info    |-> Body("v2", 5, {Command("object-info"), Command("object-format"),
                                 Command("ls-refs"), Format("sha256"), OidArg(1), OidArg(9),
                                 RefArg}),
      classic |-> Body("v0", 5, {Want(1, NoCaps), Want(2, {"side-band"}), Have(3), Done,
                                 Filter("none"), Junk}),
      push    |-> Body("push", 5, {Update(1, {"report"}), Update(2, NoCaps), Junk}) ]

\* Ref stores over a commit, a tag of a tag of it, and a tag of an object
\* that is gone, with symrefs that dangle or run in a circle; pushes move one
\* ref during a request, or two in a store with a chain of symrefs.
MCTagTarget == [t \in {"t1", "t2", "t3"} |-> CASE t = "t1" -> "c" [] t = "t2" -> "t1"
                                               [] t = "t3" -> "gone"]
Targets == {NoRef} \cup {Direct(o) : o \in {"c", "t2", "t3"}}
Stores ==
    {r \in [Names -> Targets \cup {Reference(n) : n \in Names}] :
        /\ "oid" \notin DOMAIN r[HeadRef]
        /\ r[2] \in {NoRef, Direct("c")} \cup {Reference(n) : n \in Names}}
MCStarts ==
    {[refs |-> r, updates |-> IF r[0] = Reference(1) /\ r[1] = Reference(2) THEN 2 ELSE 1]
        : r \in Stores}
MCPrefixes == {<<>>, <<{1, 2}, {0, 1}>>}

Init ==
    /\ running \in Parts
    /\ RQInit /\ (running # "bodies" => bodies = "push")
    /\ LRInit /\ (running # "refs" => mode = "receive" /\ \A n \in Names : refs[n] = NoRef)
    /\ IF running = "fetch" THEN NGScene
       ELSE /\ parents = [c \in Commits |-> {}] /\ wants = {1} /\ direct = FALSE
            /\ server = {} /\ client = {} /\ protocol = "v2" /\ detailed = FALSE
    /\ NGStart

Next ==
    /\ UNCHANGED running
    /\ \/ running = "bodies" /\ RQNext /\ UNCHANGED <<lrVars, ngVars>>
       \/ running = "refs" /\ LRNext /\ UNCHANGED <<rqVars, ngVars>>
       \/ running = "fetch" /\ NGNext /\ UNCHANGED <<rqVars, lrVars>>

\* A handler that can move moves, and a client goes on with its fetch.
Fairness ==
    /\ WF_lrVars(running = "refs" /\ Serve)
    /\ WF_ngVars(running = "fetch" /\ ServerStep) /\ WF_ngVars(running = "fetch" /\ ClientStep)

Spec == Init /\ [][Next]_all /\ Fairness

-----------------------------------------------------------------------------
(* Properties *)

\* Each advertisement ends, over cyclic symrefs too and however refs move
\* between the hops of resolve_ref.
ListingEnds == running = "refs" ~> phase = "done"

\* Every fetch ends, with a pack or an error, although answers are lost and
\* the server's repository changes from round to round.
FetchEnds == running = "fetch" ~> pc \in {"complete", "failed"}

\* Nobody waits forever for a listing or for a pack.
EndpointsEnd == ListingEnds /\ FetchEnds
=============================================================================
