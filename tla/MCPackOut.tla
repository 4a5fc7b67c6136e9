------------------------------ MODULE MCPackOut ------------------------------
(***************************************************************************)
(* The output of a pack for TLC: the response stream, the order of the     *)
(* entries with the choice of deltas, and the delta encoder.  In a         *)
(* behaviour one of them takes all the steps, the other two stay in an     *)
(* initial state.                                                          *)
(***************************************************************************)
EXTENDS PackStream, PackOut, Delta

CONSTANT Parts

VARIABLE running      \* the component that takes the steps

all == <<running, psVars, poVars, dlVars>>

\* Two paths whose hashes collide and one apart; blobs below, inside and
\* above the range for deltas.
MCNameHash == [p \in Paths |-> IF p = 3 THEN 2 ELSE 1]

MCShapes ==
    [kind : {"other"}, path : {NoPath, 1}, size : {3}]
        \cup [kind : {"blob"}, path : {NoPath, 3}, size : {3}]
        \cup [kind : {"blob"}, path : {1}, size : {2, 3, 6, 7}]
        \cup [kind : {"blob"}, path : {2}, size : {3, 6}]

Init ==
    /\ running \in Parts
    /\ PSInit /\ (running # "stream" => sideband /\ noProgress)
    /\ IF running = "order"
       THEN corrupt \in {c \in SUBSET Objects : Cardinality(c) <= 1} /\ POScene /\ (~ofs => corrupt = {})
       ELSE /\ kind = [o \in Objects |-> "other"] /\ path = [o \in Objects |-> NoPath]
            /\ size = [o \in Objects |-> 3] /\ corrupt = {} /\ ofs = FALSE
    /\ POStart
    /\ IF running = "delta" THEN DLScene ELSE base = <<>> /\ target = <<>> /\ budget = 5
    /\ DLStart

Next ==
    /\ UNCHANGED running
    /\ \/ running = "stream" /\ PSNext /\ UNCHANGED <<poVars, dlVars>>
       \/ running = "order" /\ PONext /\ UNCHANGED <<psVars, dlVars>>
       \/ running = "delta" /\ DLNext /\ UNCHANGED <<psVars, poVars>>

\* The runtime polls the feeding task and the writer, storage answers or
\* fails, and a client that has not hung up keeps reading.
Fairness ==
    /\ WF_psVars(running = "stream" /\ FinishLookup)
    /\ WF_psVars(running = "stream" /\ (StartLookup \/ TakeResult))
    /\ WF_psVars(running = "stream" /\ (SendResult \/ SendFails \/ FeederEnds))
    /\ WF_psVars(running = "stream" /\ Writer) /\ WF_psVars(running = "stream" /\ Reader)

Spec == Init /\ [][Next]_all /\ Fairness

-----------------------------------------------------------------------------
(* Properties *)

\* The response ends: neither the feeder nor the pack writer waits forever on
\* a hand-over, whatever lookups fail and whoever goes away; in particular a
\* client that hangs up releases both.
ResponseEnds ==
    /\ running = "stream" ~> feeder = "done" /\ writer = "done" /\ client # "reading"
    /\ client = "gone" ~> feeder = "done" /\ writer = "done"
=============================================================================
