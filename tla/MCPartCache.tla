----------------------------- MODULE MCPartCache -----------------------------
(***************************************************************************)
(* The part cache for TLC: single flight, the evictor and the object store *)
(* wrapper.  In a behaviour one of them takes all the steps, the other two *)
(* stay in an initial state: each is explored with everything around it    *)
(* that its own module leaves open.                                        *)
(***************************************************************************)
EXTENDS SingleFlight, PartCache, CachedStore

CONSTANT Parts

VARIABLE running      \* the component that takes the steps

all == <<running, sfVars, pcVars, csVars>>

\* Two cache entries: the head and a full part of one, a short last part of
\* the other, which a reader reports as a full one.
MCDirOf  == [f \in Files |-> IF f \in {"head", "part"} THEN "a" ELSE "b"]
MCSizeOf == [f \in AllFiles |-> IF f = "part" THEN 2 ELSE 1]

CacheLoad(files, found, w, r, d) ==
    [files |-> files, found |-> found, ops |-> [write |-> w, read |-> r, delete |-> d],
     restarts |-> 0, bounded |-> TRUE, periodic |-> FALSE]

MCCacheLoads ==
    [ three   |-> CacheLoad(Files, {Files}, 0, 1, 0),
      two     |-> CacheLoad({"part", "other"}, {{"other"}}, 1, 0, 0),
      entry   |-> CacheLoad({"head", "part"}, {{"head", "part"}}, 0, 1, 1),
      one     |-> CacheLoad({"part"}, {{}}, 1, 1, 1),
      handles |-> [CacheLoad({"part", "other"}, {{"part"}}, 2, 2, 0) EXCEPT !.bounded = FALSE],
      rescans |-> [CacheLoad({"part"}, {{"part", "other"}}, 0, 1, 0) EXCEPT !.periodic = TRUE],
      again   |-> [CacheLoad({"part"}, {{}, {"part"}}, 1, 0, 0) EXCEPT !.restarts = 1, !.periodic = TRUE] ]

FewRequests == {Bounded(1, 4)}

UnalignedSuffix == {Suffix(1), Suffix(3)}

StoreLoad(readers, sizes, requests, puts) ==
    [readers |-> readers, sizes |-> sizes, requests |-> requests, cachePuts |-> puts]

\* One reader and every range, then two readers and PUTs that are not cached.
MCStoreLoads ==
    [ ranges |-> StoreLoad({"r1"}, Sizes, Ranges, TRUE),
      race   |-> StoreLoad({"r1", "r2"}, {4}, FewRequests, FALSE) ]

SuffixLoads == [ suffix |-> StoreLoad({"r1"}, {4}, UnalignedSuffix, FALSE) ]

Init ==
    /\ running \in Parts
    /\ SFInit /\ (running # "flight" => \A c, d \in Callers : key[c] = key[d])
    /\ PCInit /\ (running # "cache" => OnDisk = {} /\ load = "one")
    /\ CSInit /\ (running # "store" => objSize = 4 /\ demand = CHOOSE n \in DOMAIN StoreLoads : TRUE)

Next ==
    /\ UNCHANGED running
    /\ \/ running = "flight" /\ SFNext /\ UNCHANGED <<pcVars, csVars>>
       \/ running = "cache" /\ PCNext /\ UNCHANGED <<sfVars, csVars>>
       \/ running = "store" /\ CSNext /\ UNCHANGED <<sfVars, pcVars>>

\* The runtime polls every task that can move.  The evictor and the scanner
\* run for as long as the process does and the scan is repeated; track_lock
\* is a fair lock: a task that waits for it gets it.
Fairness ==
    /\ SFFairness
    /\ WF_pcVars(running = "cache" /\ EvictorTask) /\ SF_pcVars(running = "cache" /\ EvictorBooks)
    /\ WF_pcVars(running = "cache" /\ Opening)
    /\ WF_pcVars(running = "cache" /\ ScannerTask) /\ SF_pcVars(running = "cache" /\ ScannerBooks)

Spec == Init /\ [][Next]_all /\ Fairness

-----------------------------------------------------------------------------
(* Properties *)

\* The cache settles: callers of a flight are let go whoever fails or is
\* cancelled, and the periodic scan books the files no report booked.
CacheSettles == CallsEnd /\ FilesGetBooked
=============================================================================
