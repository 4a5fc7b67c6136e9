------------------------------- MODULE PackOut -------------------------------
(***************************************************************************)
(* The order in which a pack is written and which entries are deltas.      *)
(* schedule_for_ofs sorts the path-discovered blobs by the hash of their   *)
(* path, path, size and position, after everything else; delta_or_full     *)
(* then compares each blob with the full blobs of its group that are still *)
(* in the candidate window.  Blob contents are abstract: the raw size of   *)
(* each delta (module Delta computes it) and the outcome of its            *)
(* compression are free.                                                   *)
(***************************************************************************)
EXTENDS Integers, Sequences, FiniteSets, FiniteSetsExt, Functions

CONSTANTS
    Collected,       \* objects to pack, as the walk ordered them
    Paths,           \* paths of blobs, a set of numbers
    NameHash,        \* path -> group; paths may collide
    Shapes,          \* kinds, paths and sizes an object may have
    RawSizes,        \* sizes of raw deltas
    MinBlob, MaxBlob, Window, CacheBytes

NoPath == 0
NoGroup == -1
Objects == 1..Collected

ASSUME PackOutAssumption ==
    /\ Collected \in Nat /\ Paths \subseteq Nat /\ NameHash \in [Paths -> Nat]
    /\ Shapes \subseteq [kind : {"blob", "other"}, path : Paths \cup {NoPath}, size : Nat]
    /\ RawSizes \subseteq Nat \ {0} /\ Window \in Nat \ {0}
    /\ {MinBlob, MaxBlob, CacheBytes} \subseteq Nat /\ MaxBlob <= CacheBytes

VARIABLES
    kind,            \* object -> "blob" or "other"
    path,            \* object -> path of a blob that was found on one
    size,            \* object -> size
    corrupt,         \* objects whose zlib stream does not inflate
    ofs,             \* the client asked for ofs-delta
    schedule,        \* the planned entries, [oid, group]
    entries,         \* the entries written
    cache,           \* DeltaCandidates.entries, oldest first
    bytes,           \* DeltaCandidates.bytes
    packing               \* "write", "done" or "failed"

given == <<kind, path, size, corrupt, ofs>>
poVars == <<given, schedule, entries, cache, bytes, packing>>

------------------------------------------------------------------------------
(* plan_pack's schedule.                                                   *)

PlainSchedule == [i \in Objects |-> [oid |-> i, group |-> NoGroup]]

Scheduled(o) == path[o] # NoPath /\ kind[o] = "blob"

\* What has no group comes first and keeps the order of the walk.
SortKey(o) ==
    IF Scheduled(o) THEN <<NameHash[path[o]], path[o], size[o], o>> ELSE <<NoGroup, NoPath, 0, o>>

Before(x, y) ==
    \/ x[1] < y[1]
    \/ x[1] = y[1] /\ x[2] < y[2]
    \/ x[1] = y[1] /\ x[2] = y[2] /\ x[3] < y[3]
    \/ x[1] = y[1] /\ x[2] = y[2] /\ x[3] = y[3] /\ x[4] < y[4]

Sorted(keys) ==
    [i \in 1..Cardinality(keys) |->
        CHOOSE k \in keys : Cardinality({x \in keys : Before(x, k)}) = i - 1]

ScheduleForOfs ==
    LET order == Sorted({SortKey(o) : o \in Objects})
    IN [i \in Objects |-> [oid |-> order[i][4], group |-> order[i][1]]]

\* The objects of a plan and what the store says of each.  An object with a
\* path that the store calls no blob is kept out of the delta planning.
POScene ==
    /\ \E shape \in [Objects -> Shapes] :
          /\ kind = [o \in Objects |-> shape[o].kind]
          /\ path = [o \in Objects |-> shape[o].path]
          /\ size = [o \in Objects |-> shape[o].size]
    /\ corrupt \in SUBSET Objects
    /\ ofs \in BOOLEAN

POStart ==
    /\ schedule = IF ofs THEN ScheduleForOfs ELSE PlainSchedule
    /\ entries = <<>> /\ cache = <<>> /\ bytes = 0 /\ packing = "write"

POInit == POScene /\ POStart

------------------------------------------------------------------------------
(* write_pack_with_options.                                                *)

FullEntry(o) == [oid |-> o, base |-> 0, raw |-> 0, rivals |-> {}]

Item == schedule[Len(entries) + 1]

Eligible(item) ==
    /\ ofs /\ item.group # NoGroup
    /\ kind[item.oid] = "blob" /\ size[item.oid] \in MinBlob..MaxBlob

Matching(group) == {c \in Range(cache) : c.group = group}

\* bytes as the candidates leave at the front, and how many leave before the
\* new one fits.
BytesAfter(pops) ==
    LET left[k \in 0..pops] == IF k = 0 THEN bytes ELSE left[k - 1] - size[cache[k].oid]
    IN left[pops]

Evicted(o) ==
    Min({k \in 0..Len(cache) : BytesAfter(k) + size[o] <= CacheBytes /\ Len(cache) - k < Window})

Candidate(item) == [oid |-> item.oid, group |-> item.group, index |-> Len(entries) + 1]

Insert(item) ==
    LET pops == Evicted(item.oid)
    IN /\ cache' = Append(SubSeq(cache, pops + 1, Len(cache)), Candidate(item))
       /\ bytes' = BytesAfter(pops) + size[item.oid]

\* The candidates in turn: a delta of the same group that is within the
\* budget, which the best one so far left, displaces it.
Displaces(c, best, group, raw, budget) ==
    c.group = group /\ raw[c.index] <= IF best = 0 THEN budget ELSE raw[best] - 1

Best(group, raw, budget) ==
    LET best[k \in 0..Len(cache)] ==
            IF k = 0 THEN 0
            ELSE IF Displaces(cache[k], best[k - 1], group, raw, budget) THEN cache[k].index
                 ELSE best[k - 1]
    IN best[Len(cache)]

Write(entry) ==
    /\ entries' = Append(entries, entry)
    /\ packing' = IF Len(entries') = Len(schedule) THEN "done" ELSE "write"

\* The fast path: no group, not a blob, or of a size outside the range.
WriteVerbatim ==
    /\ packing = "write" /\ Len(entries) < Len(schedule) /\ ~Eligible(Item)
    /\ Write(FullEntry(Item.oid))
    /\ UNCHANGED <<given, schedule, cache, bytes>>

\* A full entry becomes a candidate; a delta does not.
WriteFull == Write(FullEntry(Item.oid)) /\ Insert(Item)

\* (Mutant of WriteDelta: the target of a delta becomes a candidate too.)
WriteDeltaInserting(best, raw, rivals) ==
    /\ best # 0
    /\ Write([oid |-> Item.oid, base |-> best, raw |-> raw, rivals |-> rivals])
    /\ Insert(Item)

WriteDelta(best, raw, rivals) ==
    /\ best # 0
    /\ Write([oid |-> Item.oid, base |-> best, raw |-> raw, rivals |-> rivals])
    /\ UNCHANGED <<cache, bytes>>

\* delta_or_full for an eligible blob: the best raw delta is deflated and
\* used when it saves enough.
WriteBlob ==
    /\ packing = "write" /\ Len(entries) < Len(schedule) /\ Eligible(Item)
    /\ Item.oid \notin corrupt
    /\ \E raw \in [{c.index : c \in Matching(Item.group)} -> RawSizes] :
          LET best == Best(Item.group, raw, size[Item.oid] \div 2)
          IN \/ WriteFull
             \/ WriteDelta(best, IF best = 0 THEN 0 ELSE raw[best], Range(raw))
    /\ UNCHANGED <<given, schedule>>

CorruptZlib ==
    /\ packing = "write" /\ Len(entries) < Len(schedule) /\ Eligible(Item)
    /\ Item.oid \in corrupt
    /\ packing' = "failed"
    /\ UNCHANGED <<given, schedule, entries, cache, bytes>>

PONext == WriteVerbatim \/ WriteBlob \/ CorruptZlib
POSpec == POInit /\ [][PONext]_poVars

------------------------------------------------------------------------------
(* Properties                                                              *)

POTypeOK ==
    /\ packing \in {"write", "done", "failed"}
    /\ Len(entries) <= Len(schedule)
    /\ Len(cache) <= Window /\ bytes \in 0..CacheBytes

\* Every delta can be resolved by a client that reads the pack once from the
\* start: its base is an earlier entry, written in full, a blob of the same
\* group whose stored stream inflates.  No delta rests on a delta.
BasesPrecede ==
    \A i \in DOMAIN entries : entries[i].base # 0 =>
        LET b == entries[i].base
        IN /\ b < i /\ entries[b].base = 0
           /\ entries[b].oid \notin corrupt /\ kind[entries[b].oid] = "blob"
           /\ schedule[b].group = schedule[i].group /\ schedule[b].group # NoGroup
           /\ ofs

\* A finished pack has every collected object exactly once.  The schedule
\* loses and repeats none of them, whatever the paths and the kinds.
PackIsThePlan ==
    packing = "done" => /\ Len(entries) = Collected
                   /\ {entries[i].oid : i \in DOMAIN entries} = Objects

\* Sum of the sizes of the candidates' bodies.
Held(sizes, candidates) ==
    LET sum[k \in 0..Len(candidates)] == IF k = 0 THEN 0 ELSE sum[k - 1] + sizes[candidates[k].oid]
    IN sum[Len(candidates)]

\* The window always refers to what was written: the candidate at an index is
\* the full entry at that index, bytes is the sum of the bodies held.
WindowIsWritten ==
    /\ bytes = Held(size, cache)
    /\ \A c \in Range(cache) : entries[c.index].oid = c.oid /\ entries[c.index].base = 0

\* An emitted delta is the smallest of those the window offered and no more
\* than half its target.
DeltaIsSmallest ==
    \A i \in DOMAIN entries : entries[i].base # 0 =>
        /\ \A r \in entries[i].rivals : entries[i].raw <= r
        /\ 2 * entries[i].raw <= size[entries[i].oid]

\* Oldest-first eviction keeps the relevant bases: the window holds the
\* latest full blobs without a gap, and the schedule puts nothing between two
\* revisions of a path, so the nearest revisions of a blob are what it is
\* compared with.
LatestAreCandidates ==
    LET full == {i \in DOMAIN entries : entries[i].base = 0 /\ Eligible(schedule[i])}
        held == {c.index : c \in Range(cache)}
    IN /\ \A i \in held, j \in full : j > i => j \in held
       /\ full # {} => Max(full) \in held
       /\ \A i, j \in DOMAIN schedule : \A k \in i..j :
             ofs /\ Scheduled(schedule[i].oid) /\ Scheduled(schedule[j].oid)
                 /\ path[schedule[i].oid] = path[schedule[j].oid]
             => path[schedule[k].oid] = path[schedule[i].oid]

\* The pack can be read front to back, has every object once, and its deltas
\* come from a window that is what it claims to be.
PackWellFormed ==
    /\ POTypeOK /\ BasesPrecede /\ PackIsThePlan
    /\ WindowIsWritten /\ LatestAreCandidates /\ DeltaIsSmallest
==============================================================================
