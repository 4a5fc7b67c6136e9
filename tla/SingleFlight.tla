----------------------------- MODULE SingleFlight -----------------------------
(***************************************************************************)
(* SingleFlight of the part cache: concurrent calls for one key share one  *)
(* cell, and only one of them runs its function at a time.  A caller takes *)
(* the key's cell (or a fresh one) under the map's lock, waits its turn on *)
(* the cell without the lock, and on its way out, answered, failed or      *)
(* cancelled, drops its reference and removes the map's entry when it was  *)
(* the last one.                                                           *)
(***************************************************************************)
EXTENDS Integers, Sequences, FiniteSets, SequencesExt

CONSTANTS
    Callers,
    Keys,
    Cells,        \* addresses a cell may be allocated at
    NoCell,
    MaxCalls      \* bound on the calls a caller makes

ASSUME SingleFlightAssumption ==
    /\ NoCell \notin Cells
    /\ MaxCalls \in Nat
    /\ IsFiniteSet(Callers) /\ IsFiniteSet(Cells)
    /\ Cardinality(Callers) <= Cardinality(Cells)

VARIABLES
    inFlight,     \* the map: key -> cell
    full,         \* cells whose value is set
    turn,         \* cell -> callers waiting on it; the first runs its function
    pc,
    key,          \* the key of a caller's current call
    guard,        \* the cell its EntryGuard refers to
    calls

sfVars == <<inFlight, full, turn, pc, key, guard, calls>>

Holders(x) == {c \in Callers : guard[c] = x}

InMap == {inFlight[k] : k \in Keys}

Running(c) == pc[c] = "waiting" /\ turn[guard[c]][1] = c

SFTypeOK ==
    /\ inFlight \in [Keys -> Cells \cup {NoCell}]
    /\ pc \in [Callers -> {"idle", "joined", "waiting", "value", "error"}]
    /\ key \in [Callers -> Keys]
    /\ guard \in [Callers -> Cells \cup {NoCell}]

SFInit ==
    /\ inFlight = [k \in Keys |-> NoCell]
    /\ full = {}
    /\ turn = [x \in Cells |-> <<>>]
    /\ pc = [c \in Callers |-> "idle"]
    /\ key \in [Callers -> Keys]
    /\ guard = [c \in Callers |-> NoCell]
    /\ calls = [c \in Callers |-> 0]

\* Entry::Occupied: share the cell another caller inserted.
Join(c, k) ==
    /\ inFlight[k] # NoCell
    /\ guard' = [guard EXCEPT ![c] = inFlight[k]]
    /\ UNCHANGED <<inFlight, full, turn>>

\* Entry::Vacant: insert a new, empty cell.
Open(c, k) ==
    /\ inFlight[k] = NoCell
    /\ \E x \in Cells :
          /\ Holders(x) = {} /\ x \notin InMap
          /\ inFlight' = [inFlight EXCEPT ![k] = x]
          /\ guard' = [guard EXCEPT ![c] = x]
          /\ full' = full \ {x}
          /\ turn' = [turn EXCEPT ![x] = <<>>]

\* call: get hold of the key's cell, under the lock.
Call(c, k) ==
    /\ pc[c] = "idle" /\ calls[c] < MaxCalls
    /\ Join(c, k) \/ Open(c, k)
    /\ key' = [key EXCEPT ![c] = k]
    /\ calls' = [calls EXCEPT ![c] = @ + 1]
    /\ pc' = [pc EXCEPT ![c] = "joined"]

\* get_or_try_init: a set value is returned at once, otherwise wait in turn.
Await(c) ==
    /\ pc[c] = "joined"
    /\ \/ /\ guard[c] \in full
          /\ pc' = [pc EXCEPT ![c] = "value"]
          /\ UNCHANGED turn
       \/ /\ guard[c] \notin full
          /\ pc' = [pc EXCEPT ![c] = "waiting"]
          /\ turn' = [turn EXCEPT ![guard[c]] = Append(@, c)]
    /\ UNCHANGED <<inFlight, full, key, guard, calls>>

\* The running caller's function returns Ok: the cell is set.
Succeed(c) ==
    /\ Running(c) /\ guard[c] \notin full
    /\ full' = full \cup {guard[c]}
    /\ turn' = [turn EXCEPT ![guard[c]] = Tail(@)]
    /\ pc' = [pc EXCEPT ![c] = "value"]
    /\ UNCHANGED <<inFlight, key, guard, calls>>

\* A caller that stops waiting hands its turn to the next one.
LeaveTurn(c) == turn' = [turn EXCEPT ![guard[c]] = Remove(@, c)]

\* It returns Err: the cell stays empty and the next waiter runs its own.
Fail(c) ==
    /\ Running(c) /\ guard[c] \notin full
    /\ LeaveTurn(c)
    /\ pc' = [pc EXCEPT ![c] = "error"]
    /\ UNCHANGED <<inFlight, full, key, guard, calls>>

\* A waiter finds the value another caller set.
Wake(c) ==
    /\ pc[c] = "waiting" /\ guard[c] \in full
    /\ LeaveTurn(c)
    /\ pc' = [pc EXCEPT ![c] = "value"]
    /\ UNCHANGED <<inFlight, full, key, guard, calls>>

\* The caller's future is dropped while it waits or runs.
Cancel(c) ==
    /\ pc[c] \in {"joined", "waiting"}
    /\ IF pc[c] = "waiting" THEN LeaveTurn(c) ELSE UNCHANGED turn
    /\ pc' = [pc EXCEPT ![c] = "error"]
    /\ UNCHANGED <<inFlight, full, key, guard, calls>>

\* (Mutant of LastReference: an entry with other callers is removed too.)
LastReferenceAlways(c) == TRUE

\* Arc::strong_count is one, the map's own, once c's reference is gone.
LastReference(c) == Holders(inFlight[key[c]]) \subseteq {c}

\* EntryGuard::drop, under the lock.
Drop(c) ==
    /\ pc[c] \in {"value", "error"}
    /\ inFlight' = IF inFlight[key[c]] # NoCell /\ LastReference(c)
                   THEN [inFlight EXCEPT ![key[c]] = NoCell] ELSE inFlight
    /\ guard' = [guard EXCEPT ![c] = NoCell]
    /\ pc' = [pc EXCEPT ![c] = "idle"]
    /\ UNCHANGED <<full, turn, key, calls>>

SFNext ==
    \E c \in Callers :
        \/ \E k \in Keys : Call(c, k)
        \/ Await(c) \/ Succeed(c) \/ Fail(c) \/ Wake(c) \/ Cancel(c) \/ Drop(c)

\* The runtime polls every task that can move, and a function that runs ends.
SFFairness ==
    \A c \in Callers :
        WF_sfVars(Await(c) \/ Succeed(c) \/ Fail(c) \/ Wake(c) \/ Drop(c))

SFSpec == SFInit /\ [][SFNext]_sfVars

SFFairSpec == SFSpec /\ SFFairness

-----------------------------------------------------------------------------
(* Properties *)

\* At most one function runs for a key at any time, whatever calls fail, are
\* cancelled, or come in while others leave: no duplicate upstream fetch.
OneFlight ==
    \A c, d \in Callers :
        Running(c) /\ Running(d) /\ key[c] = key[d] => c = d

\* The map only has entries somebody still uses: it does not grow, and a call
\* that comes after all others left never sees an earlier call's value.
NoLeak == \A k \in Keys : inFlight[k] # NoCell => Holders(inFlight[k]) # {}

\* Every call ends, also when the caller that ran the function failed or was
\* cancelled while others waited for it: the callers, who make finitely many
\* calls, are all let go.
CallsEnd == (\E c \in Callers : pc[c] # "idle") ~> (\A c \in Callers : pc[c] = "idle")

\* What OneFlight rests on: a caller's cell is the one the map has for its
\* key, and keys do not share cells.
GuardsMapped ==
    /\ \A c \in Callers : (pc[c] = "idle") = (guard[c] = NoCell)
    /\ \A c \in Callers : guard[c] # NoCell => guard[c] = inFlight[key[c]]
    /\ \A j, k \in Keys : inFlight[j] = inFlight[k] /\ inFlight[j] # NoCell => j = k

\* Single flight keeps its word for any callers and keys: one function per
\* key, every caller on its key's cell, and a map without dead entries.
SingleFlightInv == SFTypeOK /\ GuardsMapped /\ OneFlight /\ NoLeak
=============================================================================
