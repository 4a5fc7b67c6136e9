------------------------------ MODULE Repository ------------------------------
(***************************************************************************)
(* What the server promises of a repository across crashes: a closed set   *)
(* of objects that only grows, and refs that move one whole push at a      *)
(* time.  A push's commands apply in order; each is a compare-and-swap     *)
(* that takes effect or not on its own (git's non-atomic default).         *)
(***************************************************************************)
EXTENDS Integers, Sequences

CONSTANTS Objects, Children, Refs, Symbolic, Pushes, Commands, None

VARIABLES objs,    \* objects present
          refs,    \* direct ref targets
          landed   \* pushes that have taken effect

repository == <<objs, refs, landed>>

Closed(S) == \A o \in S : \A i \in DOMAIN Children[o] : Children[o][i] \in S

\* rs after the compare-and-swap cmd.
Swap(rs, cmd) ==
    IF cmd.ref \notin Symbolic /\ rs[cmd.ref] = cmd.old
    THEN [rs EXCEPT ![cmd.ref] = cmd.new]
    ELSE rs

\* rs after the commands of push p, one after the other.
After(p, rs) ==
    LET run[k \in 0..Len(Commands[p])] ==
            IF k = 0 THEN rs ELSE Swap(run[k - 1], Commands[p][k])
    IN  run[Len(Commands[p])]

Init ==
    /\ objs = {}
    /\ refs = [r \in Refs |-> None]
    /\ landed = {}

\* Objects are added, never without their children, and none is lost.
AddObjects ==
    /\ objs \subseteq objs' /\ objs' \subseteq Objects
    /\ Closed(objs')
    /\ UNCHANGED <<refs, landed>>

\* A push takes effect once, as a whole, on the refs as they are, and every
\* ref then resolves.
Land(p) ==
    /\ p \notin landed
    /\ landed' = landed \cup {p}
    /\ refs' = After(p, refs)
    /\ \A r \in Refs : refs'[r] \in objs \cup {None}
    /\ UNCHANGED objs

Next == AddObjects \/ \E p \in Pushes : Land(p)

Spec == Init /\ [][Next]_repository
=============================================================================
