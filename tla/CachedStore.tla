----------------------------- MODULE CachedStore -----------------------------
(***************************************************************************)
(* CachedObjectStore: reads of one immutable object through the part       *)
(* cache.  A read learns the object's size from the cached head or from    *)
(* one aligned prefetch, turns the requested range into parts, and takes   *)
(* each part from disk or from upstream.  Disk reads and writes may fail,  *)
(* parts and heads may be evicted at any moment, upstream requests may     *)
(* fail, and the object may be created and deleted meanwhile.              *)
(* A byte is modelled by its offset in the object.                         *)
(***************************************************************************)
EXTENDS Integers, Sequences, FiniteSets, SequencesExt

CONSTANTS
    Readers,
    PartSize,
    Sizes,        \* sizes the object may have
    Word,         \* one more than the largest u64
    StoreLoads,   \* name -> bounds to explore: who reads, what is asked of
                  \* objects of which size, and whether PUTs are cached
    MaxReads      \* bound on the reads of one reader

Bounded(s, e) == [kind |-> "bounded", start |-> s, end |-> e]
Offset(s) == [kind |-> "offset", start |-> s]
Suffix(n) == [kind |-> "suffix", length |-> n]
NoRange == [kind |-> "none"]

\* Offsets and lengths are u64.
Ranges ==
    {NoRange} \cup {Bounded(s, e) : s, e \in 0..(Word - 1)}
              \cup {Offset(s) : s \in 0..(Word - 1)} \cup {Suffix(n) : n \in 0..(Word - 1)}

ASSUME CachedStoreAssumption ==
    /\ PartSize \in Nat \ {0} /\ Word \in Nat
    /\ \A n \in Sizes : n \in 0..(Word - PartSize)
    /\ \A d \in DOMAIN StoreLoads :
          /\ StoreLoads[d].readers \subseteq Readers /\ StoreLoads[d].sizes \subseteq Sizes
          /\ StoreLoads[d].requests \subseteq Ranges /\ StoreLoads[d].cachePuts \in BOOLEAN
    /\ MaxReads \in Nat

VARIABLES
    demand,       \* the bounds of this behaviour
    objSize,      \* the object's size
    upstream,     \* is it in the object store: "absent", "present", "deleted"
    putter,       \* progress of the PUT that creates it
    deleter,      \* progress of its deletion
    head,         \* is its head cached
    part,         \* cached parts: part id -> bytes of the file
    stage, request, meta, todo, got, answer, reads,
    gets,         \* history: upstream requests of the current read
    prefetched,   \* history: the current read started with a prefetch
    faulty        \* history: an upstream failure hit the current read,
                  \* or the cache lost or refused something during it

readerVars == <<stage, request, meta, todo, got, answer, reads, gets, prefetched, faulty>>
csVars == <<demand, objSize, upstream, putter, deleter, head, part, readerVars>>

NoBytes == <<-1>>
PartIds == 0..((Word - 1) \div PartSize)

Bytes(s, e) == [i \in 1..(e - s) |-> s + i - 1]
Slice(bytes, s, e) == SubSeq(bytes, s + 1, e)
Least(a, b) == IF a < b THEN a ELSE b
Greatest(a, b) == IF a > b THEN a ELSE b

------------------------------------------------------------------------------
(* Ranges.  A span is <<start, end>>; Invalid stands for a range error.    *)

Invalid == <<-1, -1>>

\* (Mutant of CanonicalizeRange: an offset at the very end is accepted.)
CanonicalizeRangeAtEnd(range, n) ==
    CASE range.kind = "none" -> <<0, n>>
      [] range.kind = "bounded" ->
            IF range.start >= n \/ range.start >= range.end THEN Invalid
            ELSE <<range.start, Least(range.end, n)>>
      [] range.kind = "offset" -> IF range.start > n THEN Invalid ELSE <<range.start, n>>
      [] range.kind = "suffix" -> <<Greatest(n - range.length, 0), n>>

CanonicalizeRange(range, n) ==
    CASE range.kind = "none" -> <<0, n>>
      [] range.kind = "bounded" ->
            IF range.start >= n \/ range.start >= range.end THEN Invalid
            ELSE <<range.start, Least(range.end, n)>>
      [] range.kind = "offset" -> IF range.start >= n THEN Invalid ELSE <<range.start, n>>
      [] range.kind = "suffix" -> <<Greatest(n - range.length, 0), n>>

RoundedUp(n) == ((n + PartSize - 1) \div PartSize) * PartSize

\* The end is rounded up in u64 arithmetic.
AlignRange(s, e) == <<s - (s % PartSize), RoundedUp(e) % Word>>

AlignGetRange(range) ==
    CASE range.kind = "none" -> range
      [] range.kind = "bounded" ->
            LET aligned == AlignRange(range.start, range.end) IN Bounded(aligned[1], aligned[2])
      [] range.kind = "offset" -> Offset(range.start - (range.start % PartSize))
      [] range.kind = "suffix" -> Suffix(AlignRange(0, range.length)[2])

\* The parts of a span in order, each with the range wanted of it.
SplitRangeIntoParts(span) ==
    LET aligned == AlignRange(span[1], span[2])
        first == aligned[1] \div PartSize
        last == aligned[2] \div PartSize - 1
    IN [i \in 1..Greatest(last - first + 1, 0) |->
          LET id == first + i - 1
          IN [id |-> id,
              start |-> IF id = first THEN span[1] % PartSize ELSE 0,
              end |-> IF id = last /\ span[2] % PartSize # 0
                      THEN span[2] % PartSize ELSE PartSize]]

\* The inner store's reading of a range (object_store's GetRange::as_range).
InnerRange(range, n) ==
    CASE range.kind = "none" -> <<0, n>>
      [] range.kind = "bounded" ->
            IF range.end <= range.start \/ range.start >= n THEN Invalid
            ELSE <<range.start, Least(range.end, n)>>
      [] range.kind = "offset" -> IF range.start >= n THEN Invalid ELSE <<range.start, n>>
      [] range.kind = "suffix" -> <<Greatest(n - range.length, 0), n>>

\* Whether aligning a range stays inside u64.
Fits(range) ==
    CASE range.kind = "bounded" -> RoundedUp(range.end) < Word
      [] range.kind = "suffix" -> RoundedUp(range.length) < Word
      [] OTHER -> TRUE

------------------------------------------------------------------------------
CSTypeOK ==
    /\ demand \in DOMAIN StoreLoads
    /\ objSize \in Sizes
    /\ upstream \in {"absent", "present", "deleted"}
    /\ putter \in {"start", "parts", "head", "done"}
    /\ deleter \in {"start", "entry", "done"}
    /\ head \in BOOLEAN
    /\ DOMAIN part = PartIds
    /\ \A p \in PartIds : part[p] = NoBytes \/ Len(part[p]) \in 1..PartSize
    /\ stage \in [Readers -> {"idle", "prefetch", "head", "parts", "done"}]
    /\ answer \in [Readers -> {"none", "ok", "error", "panic"}]
    /\ meta \in [Readers -> Sizes \cup {-1}]
    /\ reads \in [Readers -> 0..MaxReads]
    /\ \A r \in Readers : stage[r] = "parts" => meta[r] # -1 /\ Len(got[r]) <= meta[r]

CSInit ==
    /\ demand \in DOMAIN StoreLoads
    /\ objSize \in StoreLoads[demand].sizes
    /\ upstream = "absent" /\ putter = "start" /\ deleter = "start"
    /\ head = FALSE
    /\ part = [p \in PartIds |-> NoBytes]
    /\ stage = [r \in Readers |-> "idle"]
    /\ request = [r \in Readers |-> NoRange]
    /\ meta = [r \in Readers |-> -1]
    /\ todo = [r \in Readers |-> <<>>]
    /\ got = [r \in Readers |-> <<>>]
    /\ answer = [r \in Readers |-> "none"]
    /\ reads = [r \in Readers |-> 0]
    /\ gets = [r \in Readers |-> 0]
    /\ prefetched = [r \in Readers |-> FALSE]
    /\ faulty = [r \in Readers |-> FALSE]

Disturbed == faulty' = [r \in Readers |-> TRUE]

\* save_parts_stream: the bytes from part `first` on, cut into parts and
\* saved in order; the first failed save ends it, after n parts.
SavePartsStream(bytes, first, n) ==
    [p \in PartIds |->
        IF p \in first..(first + n - 1)
        THEN SubSeq(bytes, (p - first) * PartSize + 1, Least((p - first + 1) * PartSize, Len(bytes)))
        ELSE part[p]]

PartCount(bytes) == (Len(bytes) + PartSize - 1) \div PartSize

\* save_get_result: the head first; a failed save ends it.
SaveGetResult(bytes, first, all) ==
    \/ /\ ~all
       /\ UNCHANGED <<head, part>>
    \/ \E n \in 0..PartCount(bytes) :
          /\ n = PartCount(bytes) <=> all
          /\ head' = TRUE
          /\ part' = SavePartsStream(bytes, first, n)

------------------------------------------------------------------------------
(* cached_put_opts                                                         *)

UpstreamPut ==
    /\ putter = "start"
    /\ upstream' = "present"
    /\ putter' = IF StoreLoads[demand].cachePuts THEN "parts" ELSE "done"
    /\ UNCHANGED <<demand, objSize, deleter, head, part, readerVars>>

PutParts ==
    /\ putter = "parts"
    /\ \E n \in 0..PartCount(Bytes(0, objSize)) :
          /\ part' = SavePartsStream(Bytes(0, objSize), 0, n)
          /\ IF n < PartCount(Bytes(0, objSize)) THEN Disturbed ELSE UNCHANGED faulty
    /\ putter' = "head"
    /\ UNCHANGED <<demand, objSize, upstream, deleter, head, stage, request, meta, todo, got, answer,
                   reads, gets, prefetched>>

PutHead ==
    /\ putter = "head"
    /\ \/ head' = TRUE
       \/ UNCHANGED head
    /\ putter' = "done"
    /\ UNCHANGED <<demand, objSize, upstream, deleter, part, readerVars>>

(* delete_stream: upstream first, then the cache entry.                    *)

UpstreamDelete ==
    /\ upstream = "present" /\ putter = "done" /\ deleter = "start"
    /\ upstream' = "deleted"
    /\ deleter' = "entry"
    /\ UNCHANGED <<demand, objSize, putter, head, part, readerVars>>

DeleteEntry ==
    /\ deleter = "entry"
    /\ head' = FALSE
    /\ part' = [p \in PartIds |-> NoBytes]
    /\ deleter' = "done"
    /\ Disturbed
    /\ UNCHANGED <<demand, objSize, upstream, putter, stage, request, meta, todo, got, answer, reads,
                   gets, prefetched>>

(* The evictor removes files, a part or the head, whenever it likes.       *)
Evict ==
    /\ \/ head /\ head' = FALSE /\ UNCHANGED part
       \/ \E p \in PartIds : part[p] # NoBytes /\ part' = [part EXCEPT ![p] = NoBytes]
                             /\ UNCHANGED head
    /\ Disturbed
    /\ UNCHANGED <<demand, objSize, upstream, putter, deleter, stage, request, meta, todo, got, answer,
                   reads, gets, prefetched>>

------------------------------------------------------------------------------
(* Reads                                                                   *)

Finish(r, a) ==
    /\ stage' = [stage EXCEPT ![r] = "done"]
    /\ answer' = [answer EXCEPT ![r] = a]

\* With the size known the range becomes a list of parts.
PlanParts(r) ==
    LET span == CanonicalizeRange(request[r], objSize)
    IN /\ meta' = [meta EXCEPT ![r] = objSize]
       /\ IF span = Invalid
          THEN Finish(r, "error") /\ UNCHANGED todo
          ELSE /\ stage' = [stage EXCEPT ![r] = "parts"]
               /\ todo' = [todo EXCEPT ![r] = SplitRangeIntoParts(span)]
               /\ UNCHANGED answer

Begin(r) ==
    /\ r \in StoreLoads[demand].readers
    /\ stage[r] \in {"idle", "done"} /\ reads[r] < MaxReads
    /\ \E q \in StoreLoads[demand].requests : request' = [request EXCEPT ![r] = q]
    /\ reads' = [reads EXCEPT ![r] = @ + 1]
    /\ stage' = [stage EXCEPT ![r] = "head"]
    /\ got' = [got EXCEPT ![r] = <<>>]
    /\ todo' = [todo EXCEPT ![r] = <<>>]
    /\ meta' = [meta EXCEPT ![r] = -1]
    /\ answer' = [answer EXCEPT ![r] = "none"]
    /\ gets' = [gets EXCEPT ![r] = 0]
    /\ prefetched' = [prefetched EXCEPT ![r] = FALSE]
    /\ faulty' = [faulty EXCEPT ![r] = FALSE]
    /\ UNCHANGED <<demand, objSize, upstream, putter, deleter, head, part>>

\* A cached head gives the size; a failed read of it counts as a miss.
HeadHit(r) ==
    /\ stage[r] = "head" /\ head
    /\ PlanParts(r)
    /\ UNCHANGED <<demand, objSize, upstream, putter, deleter, head, part, request, got, reads, gets,
                   prefetched, faulty>>

HeadMiss(r) ==
    /\ stage[r] = "head"
    /\ stage' = [stage EXCEPT ![r] = "prefetch"]
    /\ prefetched' = [prefetched EXCEPT ![r] = TRUE]
    /\ UNCHANGED <<demand, objSize, upstream, putter, deleter, head, part, request, meta, todo, got,
                   answer, reads, gets, faulty>>

Get(r) == gets' = [gets EXCEPT ![r] = @ + 1]

Fault(r, yes) == faulty' = [faulty EXCEPT ![r] = @ \/ yes]

\* The prefetch: an upstream error is the read's error; the span served is
\* saved unless it starts inside a part, or ends inside one before the end
\* of the object, which the assertions refuse.
Prefetch(r) ==
    LET span == InnerRange(AlignGetRange(request[r]), objSize)
    IN /\ stage[r] = "prefetch" /\ upstream = "present"
       /\ Get(r)
       /\ IF span = Invalid
          THEN Finish(r, "error") /\ UNCHANGED <<head, part, meta, todo, faulty>>
          ELSE IF span[1] % PartSize # 0 \/ (span[2] % PartSize # 0 /\ span[2] # objSize)
          THEN Finish(r, "panic") /\ UNCHANGED <<head, part, meta, todo, faulty>>
          ELSE \E all \in BOOLEAN :
                  /\ SaveGetResult(Bytes(span[1], span[2]), span[1] \div PartSize, all)
                  /\ Fault(r, ~all)
                  /\ PlanParts(r)
       /\ UNCHANGED <<demand, objSize, upstream, putter, deleter, request, got, reads, prefetched>>

\* An upstream request of the read fails, or finds no object.
UpstreamFails(r) ==
    /\ \/ stage[r] = "prefetch"
       \/ stage[r] = "parts" /\ todo[r] # <<>>
    /\ Fault(r, TRUE)
    /\ Get(r)
    /\ Finish(r, "error")
    /\ UNCHANGED <<demand, objSize, upstream, putter, deleter, head, part, request, meta, todo, got,
                   reads, prefetched>>

Deliver(r, bytes) ==
    /\ got' = [got EXCEPT ![r] = @ \o bytes]
    /\ todo' = [todo EXCEPT ![r] = Tail(@)]

\* A part from disk: read_exact fails when the file is shorter than the range.
PartHit(r) ==
    /\ stage[r] = "parts" /\ todo[r] # <<>>
    /\ LET want == todo[r][1]
       IN /\ part[want.id] # NoBytes
          /\ want.end <= Len(part[want.id])
          /\ Deliver(r, Slice(part[want.id], want.start, want.end))
    /\ UNCHANGED <<demand, objSize, upstream, putter, deleter, head, part, stage, request, meta, answer,
                   reads, gets, prefetched, faulty>>

\* A part from upstream: the whole part is fetched and admitted with the head.
PartMiss(r) ==
    /\ stage[r] = "parts" /\ todo[r] # <<>> /\ upstream = "present"
    /\ LET want == todo[r][1]
           span == InnerRange(Bounded(want.id * PartSize, (want.id + 1) * PartSize), objSize)
           bytes == Bytes(span[1], span[2])
       IN /\ Fault(r, part[want.id] # NoBytes)
          /\ IF span = Invalid
             THEN Finish(r, "error") /\ UNCHANGED <<head, part, got, todo>>
             ELSE /\ head' \in {head, TRUE}
                  /\ \/ part' = [part EXCEPT ![want.id] = bytes]
                     \/ UNCHANGED part
                  /\ Deliver(r, Slice(bytes, want.start, want.end))
                  /\ UNCHANGED <<stage, answer>>
    /\ Get(r)
    /\ UNCHANGED <<demand, objSize, upstream, putter, deleter, request, meta, reads, prefetched>>

StreamEnds(r) ==
    /\ stage[r] = "parts" /\ todo[r] = <<>>
    /\ Finish(r, "ok")
    /\ UNCHANGED <<demand, objSize, upstream, putter, deleter, head, part, request, meta, todo, got,
                   reads, gets, prefetched, faulty>>

\* cached_head after a miss: the upstream HEAD's result is saved like a
\* GET's, with an empty body or, from a store that sends one, the whole.
CachedHead ==
    /\ upstream = "present" /\ ~head
    /\ \E whole, all \in BOOLEAN :
          SaveGetResult(IF whole THEN Bytes(0, objSize) ELSE <<>>, 0, all)
    /\ UNCHANGED <<demand, objSize, upstream, putter, deleter, readerVars>>

CSNext ==
    \/ UpstreamPut \/ PutParts \/ PutHead
    \/ UpstreamDelete \/ DeleteEntry \/ Evict \/ CachedHead
    \/ \E r \in Readers :
          \/ Begin(r) \/ HeadHit(r) \/ HeadMiss(r) \/ Prefetch(r) \/ UpstreamFails(r)
          \/ PartHit(r) \/ PartMiss(r) \/ StreamEnds(r)

CSSpec == CSInit /\ [][CSNext]_csVars

------------------------------------------------------------------------------
(* Properties                                                              *)

Expected(r) == InnerRange(request[r], objSize)

\* Every file of the cache holds exactly the bytes of its part, whatever
\* mix of PUTs, prefetches, part reads, evictions and failed saves wrote
\* it: save_parts_stream cuts the stream where read_part expects it.
PartFilesExact ==
    \A p \in PartIds :
        part[p] # NoBytes =>
            part[p] = Bytes(p * PartSize, Least((p + 1) * PartSize, objSize))

\* cached_get_opts answers a request as the inner store does: the same
\* bytes, cold or warm and through any eviction, and an error only for a
\* range the inner store refuses or when an upstream request failed.
\* (Ranges whose aligned form leaves u64, and suffixes that start inside a
\* part, are the exceptions: see EveryRangeMatches.)
ReadsMatchInner ==
    \A r \in Readers :
        /\ answer[r] = "ok" =>
              Expected(r) # Invalid /\ got[r] = Bytes(Expected(r)[1], Expected(r)[2])
        /\ answer[r] = "error" /\ ~faulty[r] /\ Fits(request[r]) => Expected(r) = Invalid
        /\ answer[r] = "panic" =>
              (request[r].kind = "suffix" /\ objSize % PartSize # 0) \/ ~Fits(request[r])

\* What a reader has been sent of a running or failed stream is a prefix of
\* the bytes it asked for: no part is skipped, repeated or cut short when a
\* part vanishes from the cache between two parts.
DeliveredIsPrefix ==
    \A r \in Readers :
        got[r] # <<>> => IsPrefix(got[r], Bytes(Expected(r)[1], Expected(r)[2]))

\* "aggregate the parts among the range into a single GET request": a read
\* that found no head asks upstream once, as long as nothing is evicted and
\* no upstream request or save fails while it runs.
PrefetchSuffices ==
    \A r \in Readers : prefetched[r] /\ ~faulty[r] /\ Fits(request[r]) => gets[r] <= 1

\* "the cached store matches the inner store for every range, byte for
\* byte": no request makes the assertions of save_get_result fail.
EveryRangeMatches == \A r \in Readers : answer[r] # "panic"

\* A read through the cache is a read of the inner store: exact part files,
\* the same bytes or the same refusal, a prefix of them while the parts are
\* still coming, and one upstream request for a cold range.
CachedReadsExact ==
    CSTypeOK /\ PartFilesExact /\ ReadsMatchInner /\ DeliveredIsPrefix /\ PrefetchSuffices
==============================================================================
