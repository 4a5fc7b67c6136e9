------------------------------- MODULE PartCache -------------------------------
(***************************************************************************)
(* The on-disk part cache and its evictor.  Writers and readers report     *)
(* every access on a bounded queue; the evictor task drains it, the        *)
(* scanner walks the folder on start and then periodically, and both keep  *)
(* the in-memory book of entries and evict when it grows past the limit.   *)
(* Files and book are separate: writes fail after they were booked, files  *)
(* are deleted before they are taken off the book, and a restart keeps the *)
(* files and forgets the book.                                             *)
(*                                                                         *)
(* A path names an inode, and an open handle keeps one: a write renames    *)
(* another inode over the path, an eviction unlinks it, and both drop the  *)
(* cached handle in a later step.  An inode bears the name it was created  *)
(* under, which is a temporary name no other file ever has.                *)
(*                                                                         *)
(* An entry's access time matters only by comparison: lru orders the       *)
(* booked files, from the least to the most recently used.                 *)
(***************************************************************************)
EXTENDS Integers, Sequences, FiniteSets, SequencesExt, FiniteSetsExt

CONSTANTS
    Files,            \* part and head files
    Heads,            \* the head files among them
    TmpFiles,         \* temporary names, each for one write: a bound on the writes
    NoFile,           \* neither a path nor an inode
    PartReaders,      \* concurrent reads: a bound
    DirOf,            \* the cache entry (folder) of a file
    SizeOf,           \* file -> bytes on disk
    PartBytes,        \* the part size, which a reader reports for any part it read
    MaxBytes,         \* max_cache_size_bytes
    TargetBytes,      \* 90% of it
    QueueCap,         \* capacity of the evictor's queue
    CacheLoads        \* name -> bounds to explore: the files used, those found in
                      \* the folder, the number of calls of each kind and of
                      \* restarts, whether the cache is bounded (there is an
                      \* evictor) and whether scan_interval is set (the folder is
                      \* scanned repeatedly)

AllFiles == Files \cup TmpFiles
Dirs     == {DirOf[f] : f \in Files}
Agents   == {"evictor", "scanner"}
CallKinds    == {"write", "read", "delete"}

ASSUME PartCacheAssumption ==
    /\ Heads \subseteq Files /\ Files \cap TmpFiles = {} /\ IsFiniteSet(AllFiles)
    /\ NoFile \notin AllFiles
    /\ SizeOf \in [AllFiles -> Nat] /\ PartBytes \in Nat
    /\ TargetBytes \in Nat /\ MaxBytes \in Nat /\ TargetBytes <= MaxBytes
    /\ QueueCap \in Nat \ {0}
    /\ \A n \in DOMAIN CacheLoads :
          /\ CacheLoads[n].files \subseteq Files /\ CacheLoads[n].found \subseteq SUBSET Files
          /\ CacheLoads[n].bounded \in BOOLEAN /\ CacheLoads[n].periodic \in BOOLEAN
          /\ CacheLoads[n].ops \in [CallKinds -> Nat] /\ CacheLoads[n].restarts \in Nat

VARIABLES
    disk,             \* the cache folder: path -> the inode there
    handle,           \* FileHandleCache: path -> the inode of the open handle
    writes,           \* atomic_write: temporary name -> the path it is for and
                      \* how far it is
    reading,          \* read_part, read_head: the path, how far it is, the inode
                      \* it opened and (history) those at the path meanwhile
    started,
    queue,            \* reported accesses
    size,             \* booked file -> size_bytes
    index,            \* booked file -> key_index
    keys,             \* CacheState::keys
    lru,              \* pairs of booked files, the first less recently used
    bytes,            \* cache_size_bytes
    lock,             \* holder of track_lock, or "free"
    agent,            \* what each background task does
    scan,             \* paths the scanner has still to visit
    scanned,          \* the scan on start was begun
    ops, restarts,
    load              \* the bounds of this behaviour

folder == <<disk, handle, writes, reading>>
book == <<size, index, keys, lru, bytes>>
tasks == <<lock, agent, scan, scanned>>
counts == <<ops, restarts, load>>
pcVars == <<folder, started, queue, book, tasks, counts>>

\* Of a task's job: later are the files the scanner booked while the evictor,
\* its access time taken, waited for track_lock.
Idle == [does |-> "idle", work |-> <<>>, later |-> {}, targets |-> <<>>, deleted |-> {}, failed |-> FALSE]

NoRead == [path |-> NoFile, at |-> "idle", inode |-> NoFile, seen |-> {}]

Booked == DOMAIN size

OnDisk == {f \in AllFiles : disk[f] # NoFile}

Work(f, a, n) == [path |-> f, access |-> a, size |-> n]

PCTypeOK ==
    /\ disk \in [AllFiles -> AllFiles \cup {NoFile}]
    /\ handle \in [Files -> AllFiles \cup {NoFile}]
    /\ DOMAIN writes \subseteq TmpFiles
    /\ \A t \in DOMAIN writes :
          writes[t] \in [path : Files, at : {"begun", "tmp", "renamed", "lost", "done"}]
    /\ \A r \in PartReaders : reading[r].at \in {"idle", "open", "push", "got"}
    /\ started \in BOOLEAN /\ scanned \in BOOLEAN
    /\ Len(queue) <= QueueCap
    /\ Booked \subseteq AllFiles /\ DOMAIN index = Booked
    /\ lru \subseteq Booked \X Booked
    /\ \A f, g \in Booked : f # g => (<<f, g>> \in lru) # (<<g, f>> \in lru)
    /\ bytes \in Nat
    /\ lock \in Agents \cup {"free"}
    /\ \A a \in Agents :
          agent[a].does \in {"idle", "track", "pick", "remove", "invalidate", "forget", "delete", "drop", "untrack"}
    /\ scan \subseteq AllFiles

Empty == [f \in {} |-> 0]

PCInit ==
    /\ load \in DOMAIN CacheLoads
    /\ \E found \in CacheLoads[load].found : disk = [f \in AllFiles |-> IF f \in found THEN f ELSE NoFile]
    /\ handle = [f \in Files |-> NoFile]
    /\ writes = Empty /\ reading = [r \in PartReaders |-> NoRead]
    /\ started = FALSE
    /\ queue = <<>>
    /\ size = Empty /\ index = Empty /\ keys = <<>> /\ lru = {} /\ bytes = 0
    /\ lock = "free" /\ agent = [a \in Agents |-> Idle] /\ scan = {} /\ scanned = FALSE
    /\ ops = [kind \in CallKinds |-> 0] /\ restarts = 0

\* The bound on the calls.
Called(kind) ==
    /\ ops[kind] < CacheLoads[load].ops[kind]
    /\ ops' = [ops EXCEPT ![kind] = @ + 1]

\* FsCacheEvictor::track_entry_accessed: try_send, once the evictor runs.
Report(w) ==
    IF started THEN Len(queue) < QueueCap /\ queue' = Append(queue, w)
    ELSE UNCHANGED queue

\* The mutex of the FileHandleCache is held while a file is opened.
CacheFree == \A r \in PartReaders : reading[r].at \notin {"open", "push"}

\* FileHandleCache::invalidate.
Invalidate(f) ==
    /\ CacheFree
    /\ handle' = [g \in Files |-> IF g = f THEN NoFile ELSE handle[g]]

-----------------------------------------------------------------------------
(* atomic_write *)

WriteAt(t, s) == writes' = [writes EXCEPT ![t].at = s]

\* A write is reported before it happens; when the queue is full it is skipped.
BeginWrite(f) ==
    /\ Called("write") /\ TmpFiles \ DOMAIN writes # {}
    /\ Report(Work(f, "write", SizeOf[f]))
    /\ LET new == CHOOSE t \in TmpFiles : t \notin DOMAIN writes
       IN  writes' = [t \in DOMAIN writes \cup {new} |->
                        IF t = new THEN [path |-> f, at |-> "begun"] ELSE writes[t]]
    /\ UNCHANGED <<disk, handle, reading, started, book, tasks, restarts, load>>

\* The temporary file appears in the folder and is written.
CreateTmp(t) ==
    /\ writes[t].at = "begun" /\ WriteAt(t, "tmp")
    /\ disk' = [disk EXCEPT ![t] = t]
    /\ UNCHANGED <<handle, reading, started, queue, book, tasks, counts>>

\* The reads of f under way see another inode at their path.
Observe(f, i) ==
    reading' = [r \in PartReaders |->
                IF reading[r].path = f THEN [reading[r] EXCEPT !.seen = @ \cup {i}] ELSE reading[r]]

\* It is renamed over the path, unless it was evicted.
Rename(t) ==
    /\ writes[t].at = "tmp" /\ t \in OnDisk
    /\ WriteAt(t, "renamed")
    /\ disk' = [disk EXCEPT ![writes[t].path] = disk[t], ![t] = NoFile]
    /\ Observe(writes[t].path, disk[t])
    /\ UNCHANGED <<handle, started, queue, book, tasks, counts>>

\* Creating, writing or renaming the file fails: the write was booked anyway,
\* and the temporary file is left behind.
WriteFails(t) ==
    /\ writes[t].at \in {"begun", "tmp"} /\ WriteAt(t, "done")
    /\ UNCHANGED <<disk, handle, reading, started, queue, book, tasks, counts>>

\* The request the write is part of was dropped, now or since it began: the
\* blocking task has gone on, but nobody is left to invalidate.
DropCaller(t) ==
    /\ writes[t].at = "renamed" /\ WriteAt(t, "lost")
    /\ UNCHANGED <<disk, handle, reading, started, queue, book, tasks, counts>>

\* (Mutant of EndWrite: the handle of the replaced file is kept.)
EndWriteKeepsHandle(t) ==
    /\ writes[t].at = "renamed" /\ WriteAt(t, "done")
    /\ UNCHANGED <<disk, handle, reading, started, queue, book, tasks, counts>>

\* Back in atomic_write, the handle of the replaced file is dropped.
EndWrite(t) ==
    /\ writes[t].at = "renamed" /\ WriteAt(t, "done")
    /\ Invalidate(writes[t].path)
    /\ UNCHANGED <<disk, reading, started, queue, book, tasks, counts>>

-----------------------------------------------------------------------------
(* read_part, read_head, delete *)

\* The inode has still a link.
Linked(i) == \E f \in AllFiles : disk[f] = i

\* (Mutant of IsValid: a cached handle is used without the nlink check.)
IsValidUnchecked(f) == handle[f] # NoFile

\* FileHandleCache::is_valid.
IsValid(f) == handle[f] # NoFile /\ Linked(handle[f])

\* get_or_open takes the mutex: a valid handle is used, a stale one popped.
BeginRead(r, f) ==
    /\ Called("read") /\ reading[r].at = "idle" /\ CacheFree
    /\ LET Reading(s, i) == [path |-> f, at |-> s, inode |-> i, seen |-> {disk[f]}]
       IN IF IsValid(f)
          THEN reading' = [reading EXCEPT ![r] = Reading("got", handle[f])] /\ UNCHANGED handle
          ELSE /\ reading' = [reading EXCEPT ![r] = Reading("open", NoFile)]
               /\ handle' = [handle EXCEPT ![f] = NoFile]
    /\ UNCHANGED <<disk, writes, started, queue, book, tasks, restarts, load>>

\* File::open, which may fail; what opens is the file now at the path, so an
\* invalidation lost before is made up for.
OpenFile(r) ==
    LET f == reading[r].path
    IN  /\ reading[r].at = "open"
        /\ \/ reading' = [reading EXCEPT ![r] = NoRead] /\ UNCHANGED writes
           \/ /\ f \in OnDisk
              /\ reading' = [reading EXCEPT ![r].at = "push", ![r].inode = disk[f]]
              /\ writes' = [t \in DOMAIN writes |->
                              IF writes[t].path = f /\ writes[t].at = "lost"
                              THEN [writes[t] EXCEPT !.at = "done"] ELSE writes[t]]
        /\ UNCHANGED <<disk, handle, started, queue, book, tasks, counts>>

\* The handle is cached, which may push another one out, and the mutex released.
PushHandle(r) ==
    /\ reading[r].at = "push"
    /\ reading' = [reading EXCEPT ![r].at = "got"]
    /\ \E out \in SUBSET (Files \ {reading[r].path}) :
          /\ Cardinality(out) <= 1
          /\ handle' = [f \in Files |-> IF f = reading[r].path THEN reading[r].inode
                                        ELSE IF f \in out THEN NoFile ELSE handle[f]]
    /\ UNCHANGED <<disk, writes, started, queue, book, tasks, counts>>

ReportedSize(f) == IF f \in Heads THEN SizeOf[f] ELSE PartBytes

\* The positional read, and its report; none when it fails, when the queue is
\* full or when the reader is gone.
FinishRead(r) ==
    /\ reading[r].at = "got"
    /\ Report(Work(reading[r].path, "read", ReportedSize(reading[r].path))) \/ UNCHANGED queue
    /\ reading' = [reading EXCEPT ![r] = NoRead]
    /\ UNCHANGED <<disk, handle, writes, started, book, tasks, counts>>

\* LocalCacheEntry::delete with an evictor: left to it, if there is room.
Delete(d) ==
    /\ Called("delete") /\ started
    /\ Report([path |-> d, access |-> "delete", size |-> 0])
    /\ UNCHANGED <<folder, started, book, tasks, restarts, load>>

-----------------------------------------------------------------------------
(* The book: CacheState and track_entry_accessed *)

\* keys.push and entries.insert of a file not yet booked.
Insert(f, n) ==
    /\ size' = [g \in Booked \cup {f} |-> IF g = f THEN n ELSE size[g]]
    /\ index' = [g \in Booked \cup {f} |-> IF g = f THEN Len(keys) + 1 ELSE index[g]]
    /\ keys' = Append(keys, f)
    /\ bytes' = bytes + n

\* remove_entry: the last key moves into the gap and gets its index.
SwapRemove(b, f) ==
    LET i == b.index[f]
        n == Len(b.keys)
    IN  [ keys  |-> SubSeq(IF i = n THEN b.keys ELSE [b.keys EXCEPT ![i] = b.keys[n]], 1, n - 1),
          index |-> [g \in DOMAIN b.index \ {f} |-> IF g = b.keys[n] THEN i ELSE b.index[g]] ]

\* The order of the files that are not in s.
Without(s) == {p \in lru : p[1] \notin s /\ p[2] \notin s}

\* (Mutant of RemoveAll: what is subtracted is the size on disk.)
RemoveAllOnDisk(s) ==
    LET gone == SetToSeq(s \cap Booked)
        b    == FoldLeft(SwapRemove, [keys |-> keys, index |-> index], gone)
    IN  /\ keys' = b.keys /\ index' = b.index
        /\ size' = [f \in DOMAIN b.index |-> size[f]]
        /\ lru' = Without(s)
        /\ bytes' = bytes - FoldSet(LAMBDA f, n : n + SizeOf[f], 0, ToSet(gone))

\* Take the files of s off the book, one after the other, and their booked
\* sizes off the total.
RemoveAll(s) ==
    LET gone == SetToSeq(s \cap Booked)
        b    == FoldLeft(SwapRemove, [keys |-> keys, index |-> index], gone)
    IN  /\ keys' = b.keys /\ index' = b.index
        /\ size' = [f \in DOMAIN b.index |-> size[f]]
        /\ lru' = Without(s)
        /\ bytes' = bytes - FoldSet(LAMBDA f, n : n + size[f], 0, ToSet(gone))

\* A booked file's new place among the others: anywhere for the access time a
\* scan finds on disk, and for an access just made behind all that were not
\* booked since it was received.
Touched(f, a) ==
    LET others   == Booked \ {f}
        After(s) == Without({f}) \cup (s \X {f}) \cup ({f} \X (others \ s))
        Oldest   == {s \in SUBSET others : \A p \in Without({f}) : p[2] \in s => p[1] \in s}
    IN  {After(s) : s \in {s \in Oldest : a = "evictor" => others \ s \subseteq agent[a].later}}

\* The evictor's job, when the scanner books f before it.
Overtaken(f, a) ==
    IF a = "scanner" /\ agent["evictor"].does = "track"
    THEN [agent EXCEPT !["evictor"].later = @ \cup {f}] ELSE agent

Over(n) == n > MaxBytes

\* Book an access; past the limit a write or a scan goes on to evict.
Track(a) ==
    LET w == agent[a].work
    IN  /\ agent[a].does = "track" /\ lock = "free"
        /\ IF w.path \in Booked THEN UNCHANGED <<size, index, keys, bytes>>
           ELSE Insert(w.path, w.size)
        /\ lru' \in Touched(w.path, a)
        /\ IF Over(bytes') /\ w.access # "read"
           THEN lock' = a /\ agent' = [Overtaken(w.path, a) EXCEPT ![a].does = "pick"]
           ELSE agent' = [Overtaken(w.path, a) EXCEPT ![a] = Idle] /\ UNCHANGED lock
        /\ UNCHANGED <<folder, started, queue, scan, scanned, counts>>

Picked(a) == ToSet(agent[a].targets)

Left(a) == bytes - FoldSet(LAMBDA f, n : n + size[f], 0, Picked(a))

\* The less recently used of two entries.
Older(f, g) == IF <<f, g>> \in lru THEN f ELSE g

\* (Mutant of PickDone: one entry is evicted at most.)
PickDoneEarly(a) == Left(a) <= TargetBytes \/ agent[a].targets # <<>>

\* pick_evict_targets stops at the target size or with one entry left.
PickDone(a) ==
    Left(a) <= TargetBytes \/ Cardinality(Booked \ Picked(a)) < 2

\* pick_evict_targets: of two random entries the older one is evicted.
Pick(a) ==
    /\ agent[a].does = "pick" /\ ~PickDone(a)
    /\ \E f, g \in Booked \ Picked(a) :
          /\ f # g
          /\ agent' = [agent EXCEPT ![a].targets = Append(@, Older(f, g))]
    /\ UNCHANGED <<folder, started, queue, book, lock, scan, scanned, counts>>

Picks(a) ==
    /\ agent[a].does = "pick" /\ PickDone(a)
    /\ agent' = [agent EXCEPT ![a].does = "remove"]
    /\ UNCHANGED <<folder, started, queue, book, lock, scan, scanned, counts>>

Unlink(f) == disk' = [disk EXCEPT ![f] = NoFile]

\* evict_to_target_size removes a picked file; a failure leaves it booked, but
\* not the failure to find it.
RemoveFile(a) ==
    /\ agent[a].does = "remove" /\ agent[a].targets # <<>>
    /\ LET f == Head(agent[a].targets)
       IN  \/ /\ Unlink(f)
              /\ agent' = [agent EXCEPT ![a].does = "invalidate", ![a].deleted = @ \cup {f}]
           \/ /\ f \in OnDisk
              /\ agent' = [agent EXCEPT ![a].targets = Tail(@), ![a].failed = TRUE]
              /\ UNCHANGED disk
    /\ UNCHANGED <<handle, writes, reading, started, queue, book, lock, scan, scanned, counts>>

\* Then its handle is dropped.
InvalidateRemoved(a) ==
    /\ agent[a].does = "invalidate"
    /\ Invalidate(Head(agent[a].targets))
    /\ agent' = [agent EXCEPT ![a].does = "remove", ![a].targets = Tail(@)]
    /\ UNCHANGED <<disk, writes, reading, started, queue, book, lock, scan, scanned, counts>>

\* Then the removed files are taken off the book and the lock is released.
EndEviction(a) ==
    /\ agent[a].does = "remove" /\ agent[a].targets = <<>>
    /\ RemoveAll(agent[a].deleted)
    /\ lock' = "free"
    /\ agent' = [agent EXCEPT ![a] = Idle]
    /\ UNCHANGED <<folder, started, queue, scan, scanned, counts>>

-----------------------------------------------------------------------------
(* The background tasks *)

\* FsCacheEvictor::start, which also starts the first scan.
Start ==
    /\ CacheLoads[load].bounded /\ ~started
    /\ started' = TRUE
    /\ UNCHANGED <<folder, queue, book, tasks, counts>>

\* background_evict takes the next report.
Receive ==
    /\ agent["evictor"].does = "idle" /\ queue # <<>>
    /\ agent' = [agent EXCEPT !["evictor"] =
                    [Idle EXCEPT !.work = Head(queue),
                                 !.does = IF Head(queue).access = "delete" THEN "forget" ELSE "track"]]
    /\ queue' = Tail(queue)
    /\ UNCHANGED <<folder, started, book, lock, scan, scanned, counts>>

\* The folder a file is in: a temporary file is beside the one it is for.
FolderOf(f) == IF f \in TmpFiles THEN DirOf[writes[f].path] ELSE DirOf[f]

\* delete_cache_entry lists the entry's files, without the lock.
ListEntry ==
    /\ agent["evictor"].does = "forget"
    /\ LET here == {f \in OnDisk : FolderOf(f) = agent["evictor"].work.path}
       IN  agent' = [agent EXCEPT !["evictor"].does = "delete", !["evictor"].targets = SetToSeq(here)]
    /\ UNCHANGED <<folder, started, queue, book, lock, scan, scanned, counts>>

\* It removes one after the other; one that cannot be removed stays on disk
\* and on the book.
DeleteFile ==
    /\ agent["evictor"].does = "delete" /\ agent["evictor"].targets # <<>>
    /\ LET f == Head(agent["evictor"].targets)
       IN  \/ /\ Unlink(f)
              /\ agent' = [agent EXCEPT !["evictor"].does = "drop", !["evictor"].deleted = @ \cup {f}]
           \/ /\ f \in OnDisk
              /\ agent' = [agent EXCEPT !["evictor"].does = "drop"]
              /\ UNCHANGED disk
    /\ UNCHANGED <<handle, writes, reading, started, queue, book, lock, scan, scanned, counts>>

\* Its handle is dropped in any case.
DropHandle ==
    /\ agent["evictor"].does = "drop"
    /\ Invalidate(Head(agent["evictor"].targets))
    /\ agent' = [agent EXCEPT !["evictor"].does = "delete", !["evictor"].targets = Tail(@)]
    /\ UNCHANGED <<disk, writes, reading, started, queue, book, lock, scan, scanned, counts>>

EndDelete ==
    /\ agent["evictor"].does = "delete" /\ agent["evictor"].targets = <<>>
    /\ agent' = [agent EXCEPT !["evictor"] =
                    IF @.deleted = {} THEN Idle ELSE [@ EXCEPT !.does = "untrack"]]
    /\ UNCHANGED <<folder, started, queue, book, lock, scan, scanned, counts>>

\* delete_entry takes them off the book, under the lock.
Untrack ==
    /\ agent["evictor"].does = "untrack" /\ lock = "free"
    /\ RemoveAll(agent["evictor"].deleted)
    /\ agent' = [agent EXCEPT !["evictor"] = Idle]
    /\ UNCHANGED <<folder, started, queue, lock, scan, scanned, counts>>

\* (Mutant of Scan: only the scan on start is ever made.)
ScanOnce ==
    /\ started /\ scan = {} /\ agent["scanner"].does = "idle"
    /\ ~scanned
    /\ scan' = OnDisk /\ scanned' = TRUE
    /\ UNCHANGED <<folder, started, queue, book, lock, agent, counts>>

\* scan_entries lists the folder, on start and after every scan_interval.
Scan ==
    /\ started /\ scan = {} /\ agent["scanner"].does = "idle"
    /\ CacheLoads[load].periodic \/ ~scanned
    /\ scan' = OnDisk /\ scanned' = TRUE
    /\ UNCHANGED <<folder, started, queue, book, lock, agent, counts>>

\* It looks at the next path; a file gone since the listing is passed over.
Visit(f) ==
    /\ f \in scan /\ agent["scanner"].does = "idle"
    /\ scan' = scan \ {f}
    /\ agent' = IF f \in OnDisk
                THEN [agent EXCEPT !["scanner"] =
                         [Idle EXCEPT !.does = "track", !.work = Work(f, "scan", SizeOf[f])]]
                ELSE agent
    /\ UNCHANGED <<folder, started, queue, book, lock, scanned, counts>>

\* The process stops and comes back: only the files are left, the temporary
\* files of writes cut short among them.
Restart ==
    /\ restarts < CacheLoads[load].restarts
    /\ handle' = [f \in Files |-> NoFile]
    /\ writes' = [t \in DOMAIN writes |-> [writes[t] EXCEPT !.at = "done"]]
    /\ reading' = [r \in PartReaders |-> NoRead]
    /\ started' = FALSE /\ queue' = <<>>
    /\ size' = Empty /\ index' = Empty /\ keys' = <<>> /\ lru' = {} /\ bytes' = 0
    /\ lock' = "free" /\ agent' = [a \in Agents |-> Idle] /\ scan' = {} /\ scanned' = FALSE
    /\ restarts' = restarts + 1
    /\ UNCHANGED <<disk, ops, load>>

Writing(t) == CreateTmp(t) \/ Rename(t) \/ WriteFails(t) \/ DropCaller(t) \/ EndWrite(t)

\* The steps a reader takes with the mutex of the handle cache.
Opening == \E r \in PartReaders : OpenFile(r) \/ PushHandle(r)

EvictStep(a) == Pick(a) \/ Picks(a) \/ RemoveFile(a) \/ InvalidateRemoved(a) \/ EndEviction(a)

DeleteCacheEntry == ListEntry \/ DeleteFile \/ DropHandle \/ EndDelete

EvictorTask == Start \/ Receive \/ DeleteCacheEntry \/ EvictStep("evictor")

ScannerTask == Scan \/ (\E f \in AllFiles : Visit(f)) \/ EvictStep("scanner")

\* The steps that wait for track_lock.
EvictorBooks == Untrack \/ Track("evictor")
ScannerBooks == Track("scanner")

PCNext ==
    \/ \E f \in CacheLoads[load].files : BeginWrite(f) \/ \E r \in PartReaders : BeginRead(r, f)
    \/ \E t \in DOMAIN writes : Writing(t)
    \/ Opening \/ (\E r \in PartReaders : FinishRead(r))
    \/ \E d \in Dirs : Delete(d)
    \/ EvictorTask \/ ScannerTask \/ EvictorBooks \/ ScannerBooks \/ Restart

PCSpec == PCInit /\ [][PCNext]_pcVars

-----------------------------------------------------------------------------
(* Properties *)

\* cache_size_bytes is the sum of the booked sizes, through evictions, deletes
\* and scans that overlap: it never drifts and never wraps below zero.
SizeIsBooked == bytes = FoldSet(LAMBDA f, n : n + size[f], 0, Booked)

\* keys lists the booked files once each, at the place key_index says: the
\* random pick can neither miss an entry nor name one that is gone.
KeysIndexed ==
    /\ Len(keys) = Cardinality(Booked)
    /\ \A f \in Booked : index[f] \in 1..Len(keys) /\ keys[index[f]] = f

\* "This ensures that the newly added entry will not be evicted immediately":
\* the eviction a write triggers picks the entry just written only if the
\* scanner, while the write waited for the lock, booked a file used later still.
NewEntrySurvives ==
    LET e == agent["evictor"]
        p == e.work.path
    IN  e.does \in {"pick", "remove", "invalidate"} /\ p \in Picked("evictor") =>
            \E g \in e.later : <<p, g>> \in lru

\* An eviction in which no removal failed brings the booked size down to the
\* target, or leaves a single entry.
EvictionReachesTarget ==
    [][\A a \in Agents :
          EndEviction(a) /\ ~agent[a].failed =>
              bytes' <= TargetBytes \/ Cardinality(DOMAIN size') < 2]_pcVars

\* A read returns bytes of a file that was at its path while it read, also
\* between a rename or a removal and the invalidation that follows it.
ReadsAreCurrent == \A r \in PartReaders : reading[r].at = "got" => reading[r].inode \in reading[r].seen

\* Somebody is about to drop the handle of f; or the caller of a write, gone
\* since f was last opened, was to.
DropDue(f) ==
    \/ \E t \in DOMAIN writes : writes[t].path = f /\ writes[t].at \in {"renamed", "lost"}
    \/ \E a \in Agents : agent[a].does \in {"invalidate", "drop"} /\ Head(agent[a].targets) = f

\* No handle of a replaced or removed file stays in the cache (where it keeps
\* the file's blocks): it is about to be dropped, even when it was opened and
\* cached while the file was removed.
StaleHandlesGo == \A f \in Files : handle[f] # NoFile /\ ~Linked(handle[f]) => DropDue(f)

\* Reads and cached handles keep up with the folder however writes, evictions,
\* deletes and reads of one path overlap.
HandlesKeepUp == ReadsAreCurrent /\ StaleHandlesGo

\* With a scan_interval the book catches up with the folder, again and again:
\* what no report booked (files of an earlier run, a dropped report, a file
\* written after its entry was evicted), the periodic scan finds.
FilesGetBooked == CacheLoads[load].periodic ~> OnDisk \subseteq Booked

\* The evictor's books agree with each other and with what it does, however
\* writes, deletions, evictions, scans and restarts overlap.
EvictorInv == PCTypeOK /\ SizeIsBooked /\ KeysIndexed /\ NewEntrySurvives
=============================================================================
