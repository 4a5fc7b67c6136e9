------------------------------- MODULE Selection -------------------------------
(***************************************************************************)
(* What commit discovery promises, in one step: of the commits reachable   *)
(* from the wants, exactly those that no recognised have reaches, and      *)
(* whether the haves kept the walk away from every root.                   *)
(***************************************************************************)
EXTENDS Integers, FiniteSets

CONSTANTS Commit, NoAnswer

VARIABLES parents, wants, haves, known, answer

selectionVars == <<parents, wants, haves, known, answer>>

\* Commits are numbered parents first.
Reach(p, S) ==
    LET a[c \in Commit] == {c} \cup UNION {a[q] : q \in p[c]}
    IN UNION {a[c] : c \in S}

SentFor(p, w, common) == Reach(p, w) \ Reach(p, common)

\* A walk without wants ends at once, with the haves on its frontier.
BoundedFor(p, w, common) ==
    IF w = {} THEN common # {}
    ELSE \A c \in SentFor(p, w, common) : p[c] # {}

Select ==
    /\ answer = NoAnswer
    /\ LET common == haves \cap known
       IN answer' = [common |-> common, sent |-> SentFor(parents, wants, common),
                     bounded |-> BoundedFor(parents, wants, common)]
    /\ UNCHANGED <<parents, wants, haves, known>>

SelectionSpec == answer = NoAnswer /\ [][Select]_selectionVars

================================================================================
