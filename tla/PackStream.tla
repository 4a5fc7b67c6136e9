------------------------------ MODULE PackStream ------------------------------
(***************************************************************************)
(* The streaming half of a fetch: feed_objects looks the planned objects   *)
(* up, up to Lookahead at a time, and hands them in order to a blocking    *)
(* pack writer, which cuts the pack into packets for the response body     *)
(* the client reads.  Both hand-overs are bounded channels.  Lookups fail, *)
(* the feeding task may be lost, and the client may hang up at any time.   *)
(*                                                                         *)
(* A pack is a sequence of symbols: its header, the positions of the       *)
(* objects in the plan, and the trailing checksum.                         *)
(***************************************************************************)
EXTENDS Integers, Sequences, SequencesExt

CONSTANTS
    Count,           \* objects planned, the count the pack header declares
    Lookahead,       \* OBJECT_LOOKAHEAD
    BodyPackets,     \* BODY_CHANNEL_PACKETS
    MaxBandData      \* MAX_BAND_DATA, in symbols

ASSUME PackStreamAssumption ==
    /\ Count \in Nat
    /\ Lookahead \in Nat \ {0} /\ BodyPackets \in Nat \ {0}
    /\ MaxBandData \in Nat \ {0}

VARIABLES
    sideband,        \* the client negotiated side-band-64k
    noProgress,      \* it asked for no progress messages
    feeder,          \* "next" | "send" | "done"
    lookup,          \* position -> "none" | "pending" | "found" | "bad"
    taken,           \* results drawn from the ordered lookups
    objects,         \* channel to the writer: positions, or Bad
    writer,
    buf,             \* BandWriter::buf, RawWriter::buf
    written,         \* entries the writer drew
    body,            \* channel to the client
    client,          \* "reading" | "gone" | "ended"
    got              \* packets the client read

psVars == <<sideband, noProgress, feeder, lookup, taken, objects, writer, buf,
          written, body, client, got>>
feeding == <<feeder, lookup, taken>>
mode    == <<sideband, noProgress>>

Positions == 1..Count

Data(s) == [kind |-> "data", data |-> s]
Note(k) == [kind |-> k, data |-> <<>>]

\* The pack's header and checksum, and a failed lookup on the channel.
PackHeader == 0
Checksum   == Count + 1
Bad        == -1

WholePack == [i \in 1..(Count + 2) |-> i - 1]

PSTypeOK ==
    /\ mode \in BOOLEAN \X BOOLEAN
    /\ feeder \in {"next", "send", "done"}
    /\ lookup \in [Positions -> {"none", "pending", "found", "bad"}]
    /\ taken \in 0..Count /\ written \in 0..Count
    /\ Len(objects) <= Lookahead /\ Len(body) <= BodyPackets
    /\ writer \in {"hello", "header", "recv", "flush", "packed", "close",
                   "failed", "done"}
    /\ client \in {"reading", "gone", "ended"}

PSInit ==
    /\ sideband \in BOOLEAN /\ noProgress \in BOOLEAN
    /\ feeder = "next"
    /\ lookup = [i \in Positions |-> "none"]
    /\ taken = 0 /\ written = 0
    /\ objects = <<>> /\ body = <<>> /\ buf = <<>> /\ got = <<>>
    /\ writer = IF sideband /\ ~noProgress THEN "hello" ELSE "header"
    /\ client = "reading"

-----------------------------------------------------------------------------
(* feed_objects *)

Started == {i \in Positions : lookup[i] # "none"}

\* buffered(OBJECT_LOOKAHEAD) tops up the lookups in flight while it is polled.
StartLookup ==
    /\ feeder = "next"
    /\ \E i \in Positions :
          /\ Started = 1..(i - 1) /\ i <= taken + Lookahead
          /\ lookup' = [lookup EXCEPT ![i] = "pending"]
    /\ UNCHANGED <<mode, feeder, taken, objects, writer, buf, written, body, client, got>>

\* read_compressed answers, in any order; it may find nothing or fail.
FinishLookup ==
    /\ \E i \in Positions, r \in {"found", "bad"} :
          /\ lookup[i] = "pending"
          /\ lookup' = [lookup EXCEPT ![i] = r]
    /\ UNCHANGED <<mode, feeder, taken, objects, writer, buf, written, body, client, got>>

\* lookups.next(): the results come in the order of the plan.
TakeResult ==
    /\ feeder = "next" /\ taken < Count
    /\ lookup[taken + 1] \in {"found", "bad"}
    /\ taken' = taken + 1
    /\ feeder' = "send"
    /\ UNCHANGED <<mode, lookup, objects, writer, buf, written, body, client, got>>

\* (Mutant of SendResult: a failed lookup is skipped instead of forwarded.)
SendResultSkipping ==
    /\ feeder = "send" /\ writer # "done"
    /\ Len(objects) < Lookahead
    /\ objects' = IF lookup[taken] = "bad" THEN objects ELSE Append(objects, taken)
    /\ feeder' = "next"
    /\ UNCHANGED <<mode, lookup, taken, writer, buf, written, body, client, got>>

\* tx.send: waits for room; the first failure is the last item sent.
SendResult ==
    /\ feeder = "send" /\ writer # "done"
    /\ Len(objects) < Lookahead
    /\ objects' = Append(objects, IF lookup[taken] = "bad" THEN Bad ELSE taken)
    /\ feeder' = IF lookup[taken] = "bad" THEN "done" ELSE "next"
    /\ UNCHANGED <<mode, lookup, taken, writer, buf, written, body, client, got>>

\* (Mutant of SendFails: the feeder does not notice that the writer is gone.)
SendFailsUnseen == FALSE /\ UNCHANGED psVars

\* tx.send fails at once when the writer has gone away.
SendFails ==
    /\ feeder = "send" /\ writer = "done"
    /\ feeder' = "done"
    /\ UNCHANGED <<mode, lookup, taken, objects, writer, buf, written, body, client, got>>

\* Every result was forwarded: the task ends and its sender is dropped.
FeederEnds ==
    /\ feeder = "next" /\ taken = Count
    /\ feeder' = "done"
    /\ UNCHANGED <<mode, lookup, taken, objects, writer, buf, written, body, client, got>>

\* The feeding task panics or is dropped with its sender.
FeederLost ==
    /\ feeder # "done"
    /\ feeder' = "done"
    /\ UNCHANGED <<mode, lookup, taken, objects, writer, buf, written, body, client, got>>

-----------------------------------------------------------------------------
(* stream_pack: write_pack_with_options into a BandWriter or a RawWriter *)

\* blocking_send: waits for room, fails when the client's receiver is gone.
Send(p) == client # "gone" /\ Len(body) < BodyPackets /\ body' = Append(body, p)

\* A message whose failure to be sent is ignored.
SendIgnoring(p) == Send(p) \/ (client = "gone" /\ UNCHANGED body)

\* "packing <count> objects", before the pack.
Hello ==
    /\ writer = "hello"
    /\ SendIgnoring(Note("progress"))
    /\ writer' = "header"
    /\ UNCHANGED <<mode, feeding, objects, buf, written, client, got>>

WriteHeader ==
    /\ writer = "header"
    /\ buf' = <<PackHeader>>
    /\ writer' = "recv"
    /\ UNCHANGED <<mode, feeding, objects, written, body, client, got>>

\* write: every full packet is sent before the call returns.
WritePacket ==
    /\ Len(buf) >= MaxBandData
    /\ writer \in {"recv", "flush"}
    /\ Send(Data(SubSeq(buf, 1, MaxBandData)))
    /\ buf' = SubSeq(buf, MaxBandData + 1, Len(buf))
    /\ UNCHANGED <<mode, feeding, objects, writer, written, client, got>>

\* The client is gone: BrokenPipe, with no one left to tell.
BrokenPipe ==
    /\ client = "gone"
    /\ \/ Len(buf) >= MaxBandData /\ writer \in {"recv", "flush"}
       \/ buf # <<>> /\ writer = "flush"
    /\ writer' = "done"
    /\ UNCHANGED <<mode, feeding, objects, buf, written, body, client, got>>

\* blocking_recv yields an entry, which is written behind the earlier ones.
WriteEntry ==
    /\ writer = "recv" /\ Len(buf) < MaxBandData
    /\ objects # <<>> /\ Head(objects) # Bad
    /\ buf' = Append(buf, Head(objects))
    /\ written' = written + 1
    /\ objects' = Tail(objects)
    /\ UNCHANGED <<mode, feeding, writer, body, client, got>>

\* It yields an error: PackOutError::Input; what is buffered is never sent.
InputError ==
    /\ writer = "recv" /\ Len(buf) < MaxBandData
    /\ objects # <<>> /\ Head(objects) = Bad
    /\ objects' = Tail(objects)
    /\ writer' = "failed"
    /\ UNCHANGED <<mode, feeding, buf, written, body, client, got>>

\* The sender is gone and the channel empty: the checksum ends the pack.
InputEnds ==
    /\ writer = "recv" /\ Len(buf) < MaxBandData
    /\ objects = <<>> /\ feeder = "done"
    /\ buf' = Append(buf, Checksum)
    /\ writer' = "flush"
    /\ UNCHANGED <<mode, feeding, objects, written, body, client, got>>

\* flush: the partial packet goes out.
FlushRest ==
    /\ writer = "flush" /\ buf # <<>> /\ Len(buf) < MaxBandData
    /\ Send(Data(buf))
    /\ buf' = <<>>
    /\ UNCHANGED <<mode, feeding, objects, writer, written, client, got>>

\* write_pack_with_options returns: PackOutError::Truncated if entries lack.
CheckCount ==
    /\ writer = "flush" /\ buf = <<>>
    /\ writer' = IF written # Count THEN "failed"
                 ELSE IF sideband THEN "packed" ELSE "done"
    /\ UNCHANGED <<mode, feeding, objects, buf, written, body, client, got>>

\* "packed <count> objects".
Packed ==
    /\ writer = "packed"
    /\ IF noProgress THEN UNCHANGED body ELSE SendIgnoring(Note("progress"))
    /\ writer' = "close"
    /\ UNCHANGED <<mode, feeding, objects, buf, written, client, got>>

\* The flush pkt that ends a successful response.
Close ==
    /\ writer = "close"
    /\ SendIgnoring(Note("flush"))
    /\ writer' = "done"
    /\ UNCHANGED <<mode, feeding, objects, buf, written, client, got>>

\* A failure is told on channel 3; without side-band the body just ends.
ReportError ==
    /\ writer = "failed"
    /\ IF sideband THEN SendIgnoring(Note("error")) ELSE UNCHANGED body
    /\ writer' = "done"
    /\ UNCHANGED <<mode, feeding, objects, buf, written, client, got>>

-----------------------------------------------------------------------------
(* The response body's reader *)

ClientReads ==
    /\ client = "reading" /\ body # <<>>
    /\ got' = Append(got, Head(body))
    /\ body' = Tail(body)
    /\ UNCHANGED <<mode, feeding, objects, writer, buf, written, client>>

ClientEnds ==
    /\ client = "reading" /\ body = <<>> /\ writer = "done"
    /\ client' = "ended"
    /\ UNCHANGED <<mode, feeding, objects, writer, buf, written, body, got>>

ClientHangsUp ==
    /\ client = "reading"
    /\ client' = "gone"
    /\ UNCHANGED <<mode, feeding, objects, writer, buf, written, body, got>>

Feeder == StartLookup \/ FinishLookup \/ TakeResult \/ SendResult \/ SendFails \/ FeederEnds

Writer ==
    \/ Hello \/ WriteHeader \/ WritePacket \/ BrokenPipe \/ WriteEntry \/ InputError
    \/ InputEnds \/ FlushRest \/ CheckCount \/ Packed \/ Close \/ ReportError

Reader == ClientReads \/ ClientEnds

PSNext == Feeder \/ FeederLost \/ Writer \/ Reader \/ ClientHangsUp

PSSpec == PSInit /\ [][PSNext]_psVars

-----------------------------------------------------------------------------
(* Properties *)

Received == FlattenSeq([i \in 1..Len(got) |-> got[i].data])

Saw(k) == \E i \in 1..Len(got) : got[i].kind = k

\* A response that is closed with a flush pkt carried the whole pack: every
\* object the header declared, in plan order, and the checksum.
FlushMeansWholePack == Saw("flush") => Received = WholePack

\* With side-band, a client that read to the end was told how it went: the
\* response ends with a flush pkt or with an error on channel 3, not neither.
NoSilentFailure ==
    client = "ended" /\ sideband =>
        \E k \in {"flush", "error"} : got # <<>> /\ Last(got).kind = k

\* Without side-band no failure can be told, so that a short pack must never
\* look like a whole one: what arrives is the plan's objects without a gap,
\* and only a pack with all of them has the declared length and a checksum.
ShortPackShows ==
    /\ \A i \in 1..Len(Received) :
          Received[i] # Checksum => Received[i] = WholePack[i]
    /\ Len(Received) >= Len(WholePack) => Received = WholePack

\* A client can always tell a whole pack from one that was cut short.
ResponseHonest == PSTypeOK /\ FlushMeansWholePack /\ NoSilentFailure /\ ShortPackShows
=============================================================================
