------------------------------ MODULE PackProofs ------------------------------
(***************************************************************************)
(* What is proved about the output of a pack, for every number of objects  *)
(* and every size of the channels and packets.                             *)
(***************************************************************************)
EXTENDS PackStream, PackOut, Delta, InductionLemmas

(***************************************************************************)
(* The response stream.  Everything the writer produced is in the packets  *)
(* the client read, in the packets of the body channel or in the writer's  *)
(* buffer, in this order; what the feeder handed over and the writer has   *)
(* not drawn is in the object channel.                                     *)
(***************************************************************************)

Packet == [kind : {"data", "progress", "flush", "error"}, data : Seq(Int)]

Sent == got \o body
DataOf(packets) == [i \in 1..Len(packets) |-> packets[i].data]
Bytes(packets) == FlattenSeq(DataOf(packets))
Stream == Cat(Bytes(Sent), buf)

\* The pack after n entries.
PackOf(n) == [i \in 1..(n + 1) |-> i - 1]
Closed(n) == Append(PackOf(n), Checksum)

StreamTypes ==
    /\ PSTypeOK
    /\ objects \in Seq(Int) /\ buf \in Seq(Int)
    /\ body \in Seq(Packet) /\ got \in Seq(Packet)

\* The object channel holds the next entries without a gap; a failed lookup
\* is the last item ever sent.
ChannelInv ==
    /\ \A i \in 1..Len(objects) :
          \/ objects[i] = written + i
          \/ objects[i] = Bad /\ i = Len(objects) /\ feeder = "done"
    /\ feeder = "next" => taken = written + Len(objects)
    /\ feeder = "send" => taken = written + Len(objects) + 1
    /\ feeder = "done" => taken >= written + Len(objects)

\* What was written so far, wherever it is.
WrittenInv ==
    /\ writer \in {"hello", "header"} => Stream = <<>> /\ written = 0
    /\ writer = "recv" => Stream = PackOf(written)
    /\ writer \in {"flush", "packed", "close"} => Stream = Closed(written)
    /\ writer \in {"failed", "done"} => Stream \in {PackOf(written), Closed(written)}
    /\ writer \in {"packed", "close"} => written = Count /\ buf = <<>>

\* The packets that end a response: one, the last, and what it stands for.
EndInv ==
    /\ \A i \in 1..Len(Sent) : Sent[i].kind \in {"flush", "error"} =>
          i = Len(Sent) /\ writer = "done"
    /\ \A i \in 1..Len(Sent) : Sent[i].kind = "flush" =>
          buf = <<>> /\ Stream = Closed(Count)
    /\ sideband /\ writer = "done" /\ client # "gone" =>
          Sent # <<>> /\ Sent[Len(Sent)].kind \in {"flush", "error"}
    /\ client = "ended" => body = <<>> /\ writer = "done"

StreamInv == StreamTypes /\ ChannelInv /\ WrittenInv /\ EndInv

LEMMA DataOfFacts ==
    ASSUME NEW ps \in Seq(Packet)
    PROVE  /\ DataOf(ps) \in Seq(Seq(Int)) /\ Len(DataOf(ps)) = Len(ps)
           /\ \A i \in 1..Len(ps) : DataOf(ps)[i] = ps[i].data
<1>1. Len(ps) \in Nat /\ \A i \in 1..Len(ps) : ps[i] \in Packet
  OBVIOUS
<1>2. PICK S : S = Seq(Int)
  OBVIOUS
<1>3. \A i \in 1..Len(ps) : ps[i].data \in S
  BY <1>1, <1>2 DEF Packet
<1>4. DataOf(ps) \in [1..Len(ps) -> S] /\ \A i \in 1..Len(ps) : DataOf(ps)[i] = ps[i].data
  BY <1>3 DEF DataOf
<1>5. DataOf(ps) \in Seq(S) /\ Len(DataOf(ps)) = Len(ps)
  BY <1>1, <1>4, IsSequence
<1> QED BY <1>2, <1>4, <1>5

LEMMA DataOfAppend ==
    ASSUME NEW ps \in Seq(Packet), NEW p \in Packet
    PROVE  DataOf(Append(ps, p)) = Append(DataOf(ps), p.data)
<1>1. Append(ps, p) \in Seq(Packet) /\ Len(Append(ps, p)) = Len(ps) + 1 /\ Len(ps) \in Nat
      /\ Append(ps, p)[Len(ps) + 1] = p /\ \A i \in 1..Len(ps) : Append(ps, p)[i] = ps[i]
  OBVIOUS
<1>2. PICK S, a, c : S = Seq(Int) /\ a = DataOf(ps) /\ c = DataOf(Append(ps, p))
  OBVIOUS
<1>3. c \in Seq(S) /\ Len(c) = Len(ps) + 1 /\ \A i \in 1..Len(c) : c[i] = Append(ps, p)[i].data
  BY <1>1, <1>2, DataOfFacts
<1>4. a \in Seq(S) /\ Len(a) = Len(ps) /\ \A i \in 1..Len(ps) : a[i] = ps[i].data
  BY <1>2, DataOfFacts
<1>5. p.data \in S
  BY <1>2 DEF Packet
<1>6. c[Len(a) + 1] = p.data
  BY <1>1, <1>3, <1>4
<1>7. \A i \in 1..Len(a) : c[i] = a[i]
  BY <1>1, <1>3, <1>4
<1>8. c = Append(a, p.data)
  BY <1>3, <1>4, <1>5, <1>6, <1>7, AppendIs
<1> QED BY <1>2, <1>8

\* The data of the packets, one packet more, and of the packets read.
LEMMA BytesFacts ==
    ASSUME NEW ps \in Seq(Packet), NEW p \in Packet
    PROVE  /\ Bytes(<<>>) = <<>> /\ Bytes(ps) \in Seq(Int)
           /\ Bytes(Append(ps, p)) = Cat(Bytes(ps), p.data)
<1>1. DataOf(ps) \in Seq(Seq(Int)) /\ p.data \in Seq(Int)
  BY DataOfFacts DEF Packet
<1>2. DataOf(Append(ps, p)) = Append(DataOf(ps), p.data)
  BY DataOfAppend
<1>3. DataOf(<<>>) = <<>>
  BY DEF DataOf
<1> QED BY <1>1, <1>2, <1>3, FlattenAppend DEF Bytes, Cat

LEMMA BytesPrefix ==
    ASSUME NEW ps \in Seq(Packet), NEW qs \in Seq(Packet)
    PROVE  /\ Len(Bytes(ps)) <= Len(Bytes(ps \o qs))
           /\ \A i \in 1..Len(Bytes(ps)) : Bytes(ps \o qs)[i] = Bytes(ps)[i]
<1>1. DataOf(ps) \in Seq(Seq(Int)) /\ DataOf(qs) \in Seq(Seq(Int))
  BY DataOfFacts
<1>2. DataOf(ps \o qs) = DataOf(ps) \o DataOf(qs)
  <2>0. PICK r : r = ps \o qs
    OBVIOUS
  <2>1. r \in Seq(Packet) /\ Len(r) = Len(ps) + Len(qs) /\ Len(ps) \in Nat /\ Len(qs) \in Nat
        /\ (\A i \in 1..Len(ps) : r[i] = ps[i]) /\ \A i \in 1..Len(qs) : r[Len(ps) + i] = qs[i]
    BY <2>0
  <2>2. PICK S, a, b, c : S = Seq(Int) /\ a = DataOf(ps) /\ b = DataOf(qs) /\ c = DataOf(r)
    OBVIOUS
  <2>3. c \in Seq(S) /\ Len(c) = Len(ps) + Len(qs) /\ \A i \in 1..Len(c) : c[i] = r[i].data
    BY <2>1, <2>2, DataOfFacts
  <2>4. a \in Seq(S) /\ Len(a) = Len(ps) /\ \A i \in 1..Len(ps) : a[i] = ps[i].data
    BY <2>2, DataOfFacts
  <2>5. b \in Seq(S) /\ Len(b) = Len(qs) /\ \A i \in 1..Len(qs) : b[i] = qs[i].data
    BY <2>2, DataOfFacts
  <2>6. ASSUME NEW i \in 1..Len(a) PROVE c[i] = a[i]
    <3>1. i \in 1..Len(c) /\ i \in 1..Len(ps)
      BY <2>1, <2>3, <2>4
    <3>2. c[i] = r[i].data /\ r[i] = ps[i] /\ a[i] = ps[i].data
      BY <2>1, <2>3, <2>4, <3>1
    <3> QED BY <3>2
  <2>7. ASSUME NEW i \in 1..Len(b) PROVE c[Len(a) + i] = b[i]
    <3>1. Len(a) + i \in 1..Len(c) /\ i \in 1..Len(qs)
      BY <2>1, <2>3, <2>4, <2>5
    <3>2. c[Len(a) + i] = r[Len(a) + i].data /\ r[Len(a) + i] = qs[i] /\ b[i] = qs[i].data
      BY <2>1, <2>3, <2>4, <2>5, <3>1
    <3> QED BY <3>2
  <2>8. c = a \o b
    <3>1. Len(c) = Len(a) + Len(b)
      BY <2>3, <2>4, <2>5
    <3> QED BY <2>3, <2>4, <2>5, <2>6, <2>7, <3>1, ConcatIs, Zenon
  <2> QED BY <2>0, <2>2, <2>8, Zenon
<1> QED BY <1>1, <1>2, FlattenPrefix DEF Bytes

\* Moving bytes from the buffer into a packet keeps the stream.
LEMMA Regroup ==
    ASSUME NEW s \in Seq(Int), NEW t \in Seq(Int), NEW m \in Nat, m <= Len(t)
    PROVE  Cat(Cat(s, SubSeq(t, 1, m)), SubSeq(t, m + 1, Len(t))) = Cat(s, t)
<1>1. SubSeq(t, 1, m) \in Seq(Int) /\ SubSeq(t, m + 1, Len(t)) \in Seq(Int)
  OBVIOUS
<1>2. SubSeq(t, 1, m) \o SubSeq(t, m + 1, Len(t)) = t
  <2>1. 1 \in 1..Len(t) + 1 /\ m \in (1 - 1)..Len(t) /\ Len(t) \in m..Len(t)
    OBVIOUS
  <2>2. SubSeq(t, 1, m) \o SubSeq(t, m + 1, Len(t)) = SubSeq(t, 1, Len(t))
    BY <2>1, ConcatAdjacentSubSeq
  <2> QED BY <2>2, SubSeqFull
<1>3. Cat(SubSeq(t, 1, m), SubSeq(t, m + 1, Len(t))) = t
  BY <1>2 DEF Cat
<1>4. Cat(Cat(s, SubSeq(t, 1, m)), SubSeq(t, m + 1, Len(t))) = Cat(s, t)
  <2>1. PICK a, b : a = SubSeq(t, 1, m) /\ b = SubSeq(t, m + 1, Len(t))
    OBVIOUS
  <2>2. a \in Seq(Int) /\ b \in Seq(Int) /\ Cat(a, b) = t
    BY <1>1, <1>3, <2>1
  <2>3. Cat(Cat(s, a), b) = Cat(s, t)
    BY <2>2, CatAssociative
  <2> QED BY <2>1, <2>3
<1> QED BY <1>4

LEMMA SentTypes ==
    ASSUME StreamTypes
    PROVE  /\ Sent \in Seq(Packet) /\ Bytes(Sent) \in Seq(Int) /\ Stream \in Seq(Int)
           /\ Len(Sent) \in Nat
<1>1. Sent \in Seq(Packet)
  BY ConcatProperties DEF StreamTypes, Sent
<1>2. Note("flush") \in Packet
  BY DEF Note, Packet
<1>3. Bytes(Sent) \in Seq(Int)
  BY <1>1, <1>2, BytesFacts
<1> QED BY <1>1, <1>3, CatType DEF Stream, StreamTypes

\* A packet goes out.
LEMMA SentGrows ==
    ASSUME StreamTypes, NEW p \in Packet, body' = Append(body, p), got' = got
    PROVE  /\ Sent' = Append(Sent, p) /\ Len(Sent') = Len(Sent) + 1 /\ Sent'[Len(Sent) + 1] = p
           /\ \A i \in 1..Len(Sent) : Sent'[i] = Sent[i]
           /\ Bytes(Sent') = Cat(Bytes(Sent), p.data)
<1>1. body \in Seq(Packet) /\ got \in Seq(Packet)
  BY DEF StreamTypes
<1>2. Sent' = Append(Sent, p)
  BY <1>1, ConcatAppend DEF Sent
<1>3. Sent \in Seq(Packet)
  BY SentTypes
<1>4. Bytes(Sent') = Cat(Bytes(Sent), p.data)
  BY <1>2, <1>3, BytesFacts
<1> QED BY <1>2, <1>3, <1>4, AppendProperties

\* Packets move from the body to the client.
LEMMA SentMoves ==
    ASSUME StreamTypes, body # <<>>, got' = Append(got, Head(body)), body' = Tail(body)
    PROVE  Sent' = Sent
<1>1. body \in Seq(Packet) /\ got \in Seq(Packet)
  BY DEF StreamTypes
<1> QED BY <1>1 DEF Sent

LEMMA NotePackets ==
    /\ \A k \in {"progress", "flush", "error"} :
          Note(k) \in Packet /\ Note(k).kind = k /\ Note(k).data = <<>>
    /\ \A s \in Seq(Int) : Data(s) \in Packet /\ Data(s).kind = "data" /\ Data(s).data = s
BY DEF Note, Data, Packet

\* Steps that leave the writer and the packets alone.
LEMMA WriterAlone ==
    ASSUME StreamInv, UNCHANGED <<sideband, writer, buf, written, body, client, got>>
    PROVE  WrittenInv' /\ EndInv'
<1>1. Sent' = Sent /\ Stream' = Stream
  BY DEF Stream, Sent
<1>2. WrittenInv'
  BY <1>1 DEF StreamInv, WrittenInv
<1>3. EndInv'
  BY <1>1 DEF StreamInv, EndInv
<1> QED BY <1>2, <1>3

\* The feeder's steps.
LEMMA FeederSteps ==
    ASSUME StreamInv, Feeder \/ FeederLost
    PROVE  StreamInv'
<1> USE PackStreamAssumption
<1>1. UNCHANGED <<sideband, writer, buf, written, body, client, got>>
  BY DEF Feeder, FeederLost, StartLookup, FinishLookup, TakeResult, SendResult, SendFails, FeederEnds, mode
<1>2. WrittenInv' /\ EndInv'
  BY <1>1, WriterAlone
<1>3. StreamTypes /\ ChannelInv
  BY DEF StreamInv
<1>4. CASE StartLookup \/ FinishLookup
  <2>1. UNCHANGED <<mode, feeder, taken, objects, writer, buf, written, body, client, got>>
        /\ lookup' \in [Positions -> {"none", "pending", "found", "bad"}]
    BY <1>3, <1>4 DEF StartLookup, FinishLookup, StreamTypes, PSTypeOK
  <2>2. StreamTypes'
    BY <1>3, <2>1 DEF StreamTypes, PSTypeOK, mode
  <2>3. ChannelInv'
    BY <1>3, <2>1 DEF ChannelInv
  <2> QED BY <1>2, <2>2, <2>3 DEF StreamInv
<1>5. CASE TakeResult
  <2>1. StreamTypes'
    BY <1>3, <1>5 DEF TakeResult, StreamTypes, PSTypeOK, mode
  <2>2. ChannelInv'
    BY <1>3, <1>5 DEF TakeResult, ChannelInv, StreamTypes, PSTypeOK
  <2> QED BY <1>2, <2>1, <2>2 DEF StreamInv
<1>6. CASE SendResult
  <2>0. objects \in Seq(Int) /\ taken \in 0..Count /\ written \in 0..Count /\ Len(objects) \in Nat
    BY <1>3 DEF StreamTypes, PSTypeOK
  <2>1. PICK x \in Int : /\ objects' = Append(objects, x)
                         /\ x = IF lookup[taken] = "bad" THEN Bad ELSE taken
    BY <1>6, <2>0 DEF SendResult, Bad
  <2>2. StreamTypes'
    BY <1>3, <1>6, <2>0, <2>1 DEF SendResult, StreamTypes, PSTypeOK, mode
  <2>3. Len(objects') = Len(objects) + 1 /\ objects'[Len(objects) + 1] = x
        /\ \A i \in 1..Len(objects) : objects'[i] = objects[i]
    BY <2>0, <2>1
  <2>4. \A i \in 1..Len(objects) : objects[i] = written + i
    BY <1>3, <1>6 DEF ChannelInv, SendResult
  <2>5. taken = written + Len(objects) + 1 /\ UNCHANGED <<taken, written>>
        /\ feeder' = IF lookup[taken] = "bad" THEN "done" ELSE "next"
    BY <1>3, <1>6 DEF ChannelInv, SendResult
  <2>6. ChannelInv'
    BY <2>0, <2>1, <2>3, <2>4, <2>5, SMTT(40), ZenonT(40) DEF ChannelInv
  <2> QED BY <1>2, <2>2, <2>6 DEF StreamInv
<1>7. CASE SendFails \/ FeederEnds \/ FeederLost
  <2>1. StreamTypes'
    BY <1>3, <1>7 DEF SendFails, FeederEnds, FeederLost, StreamTypes, PSTypeOK, mode
  <2>2. ChannelInv'
    <3>1. objects \in Seq(Int) /\ taken \in 0..Count /\ written \in 0..Count /\ Len(objects) \in Nat
      BY <1>3 DEF StreamTypes, PSTypeOK
    <3>2. feeder # "done" /\ feeder' = "done" /\ UNCHANGED <<taken, objects, written>>
      BY <1>3, <1>7 DEF SendFails, FeederEnds, FeederLost
    <3>3. taken >= written + Len(objects)
      BY <1>3, <3>1, <3>2 DEF ChannelInv, StreamTypes, PSTypeOK
    <3>4. \A i \in 1..Len(objects) : objects[i] = written + i
      BY <1>3, <3>2 DEF ChannelInv
    <3> QED BY <3>1, <3>2, <3>3, <3>4 DEF ChannelInv
  <2> QED BY <1>2, <2>1, <2>2 DEF StreamInv
<1> QED BY <1>4, <1>5, <1>6, <1>7 DEF Feeder

\* A message goes out or is dropped with a client that is gone.
LEMMA NoteSent ==
    ASSUME StreamInv, NEW k \in {"progress", "flush", "error"}, SendIgnoring(Note(k)),
           UNCHANGED <<got, buf>>
    PROVE  /\ Stream' = Stream /\ body' \in Seq(Packet) /\ Len(body') <= BodyPackets
           /\ \/ client = "gone" /\ Sent' = Sent
              \/ /\ Len(Sent') = Len(Sent) + 1 /\ Sent'[Len(Sent) + 1].kind = k
                 /\ \A i \in 1..Len(Sent) : Sent'[i] = Sent[i]
<1>0. StreamTypes /\ Note(k) \in Packet /\ Note(k).kind = k /\ Note(k).data = <<>>
  BY NotePackets DEF StreamInv
<1>1. CASE client = "gone" /\ UNCHANGED body
  BY <1>0, <1>1 DEF Stream, Sent, StreamTypes, PSTypeOK
<1>2. CASE Send(Note(k))
  <2>1. body' = Append(body, Note(k)) /\ Len(body) < BodyPackets /\ body \in Seq(Packet)
    BY <1>0, <1>2 DEF Send, StreamTypes
  <2>2. body' \in Seq(Packet) /\ Len(body') <= BodyPackets
    BY <1>0, <2>1, PackStreamAssumption
  <2>3. /\ Len(Sent') = Len(Sent) + 1 /\ Sent'[Len(Sent) + 1] = Note(k)
        /\ \A i \in 1..Len(Sent) : Sent'[i] = Sent[i]
        /\ Bytes(Sent') = Cat(Bytes(Sent), <<>>)
    BY <1>0, <2>1, SentGrows
  <2>4. Bytes(Sent') = Bytes(Sent)
    BY <1>0, <2>3, SentTypes, CatEmpty
  <2>5. Stream' = Stream
    BY <2>4 DEF Stream
  <2> QED BY <1>0, <2>2, <2>3, <2>5
<1> QED BY <1>1, <1>2 DEF SendIgnoring

\* While the writer works, no packet ends the response.
LEMMA NotEnded ==
    ASSUME StreamInv, writer # "done"
    PROVE  \A i \in 1..Len(Sent) : Sent[i].kind \notin {"flush", "error"}
BY DEF StreamInv, EndInv

\* The writer's steps that say something beside the pack.
LEMMA MessageSteps ==
    ASSUME StreamInv, Hello \/ Packed \/ Close \/ ReportError
    PROVE  StreamInv'
<1>0. StreamTypes /\ ChannelInv /\ WrittenInv /\ EndInv
  BY DEF StreamInv
<1>1. UNCHANGED <<mode, feeder, lookup, taken, objects, buf, written, client, got>>
  BY DEF Hello, Packed, Close, ReportError, feeding
<1>2. writer # "done" /\ writer' \in {"header", "close", "done"}
      /\ \A i \in 1..Len(Sent) : Sent[i].kind \notin {"flush", "error"}
  <2>1. writer # "done" /\ writer' \in {"header", "close", "done"}
    BY DEF Hello, Packed, Close, ReportError
  <2> QED BY <2>1, NotEnded
<1>3. \/ UNCHANGED body
      \/ \E k \in {"progress", "flush", "error"} : SendIgnoring(Note(k))
  BY DEF Hello, Packed, Close, ReportError
<1>4. Stream' = Stream /\ body' \in Seq(Packet) /\ Len(body') <= BodyPackets
  <2>1. CASE UNCHANGED body
    BY <1>0, <1>1, <2>1 DEF Stream, Sent, StreamTypes, PSTypeOK
  <2>2. ASSUME NEW k \in {"progress", "flush", "error"}, SendIgnoring(Note(k))
        PROVE  Stream' = Stream /\ body' \in Seq(Packet) /\ Len(body') <= BodyPackets
    BY <1>1, <2>2, NoteSent
  <2> QED BY <1>3, <2>1, <2>2
<1>5. StreamTypes'
  BY <1>0, <1>1, <1>2, <1>4 DEF StreamTypes, PSTypeOK, mode
<1>6. ChannelInv'
  BY <1>0, <1>1 DEF ChannelInv
<1>7. Len(Sent) \in Nat
  BY <1>0, SentTypes
<1>8. CASE Hello
  <2>1. WrittenInv'
    BY <1>0, <1>1, <1>4, <1>8 DEF WrittenInv, Hello
  <2>2. SendIgnoring(Note("progress")) /\ writer' = "header"
    BY <1>8 DEF Hello
  <2>3. \/ Sent' = Sent
        \/ /\ Len(Sent') = Len(Sent) + 1 /\ Sent'[Len(Sent) + 1].kind = "progress"
           /\ \A i \in 1..Len(Sent) : Sent'[i] = Sent[i]
    BY <1>1, <2>2, NoteSent
  <2>4. \A i \in 1..Len(Sent') : Sent'[i].kind \notin {"flush", "error"}
    BY <1>2, <1>7, <2>3
  <2>5. client # "ended"
    BY <1>0, <1>2 DEF EndInv
  <2>6. EndInv'
    BY <1>1, <2>2, <2>4, <2>5 DEF EndInv
  <2> QED BY <1>5, <1>6, <2>1, <2>6 DEF StreamInv
<1>9. CASE Packed
  <2>1. WrittenInv'
    BY <1>0, <1>1, <1>4, <1>9 DEF WrittenInv, Packed
  <2>2. writer' = "close"
    BY <1>9 DEF Packed
  <2>3. \/ Sent' = Sent
        \/ /\ Len(Sent') = Len(Sent) + 1 /\ Sent'[Len(Sent) + 1].kind = "progress"
           /\ \A i \in 1..Len(Sent) : Sent'[i] = Sent[i]
    <3>1. CASE UNCHANGED body
      BY <1>1, <3>1 DEF Sent
    <3>2. CASE SendIgnoring(Note("progress"))
      BY <1>1, <3>2, NoteSent
    <3> QED BY <1>9, <3>1, <3>2 DEF Packed
  <2>4. \A i \in 1..Len(Sent') : Sent'[i].kind \notin {"flush", "error"}
    BY <1>2, <1>7, <2>3
  <2>5. client # "ended"
    BY <1>0, <1>2 DEF EndInv
  <2>6. EndInv'
    BY <1>1, <2>2, <2>4, <2>5 DEF EndInv
  <2> QED BY <1>5, <1>6, <2>1, <2>6 DEF StreamInv
<1>10. CASE Close
  <2>1. writer = "close" /\ writer' = "done" /\ SendIgnoring(Note("flush"))
    BY <1>10 DEF Close
  <2>2. written = Count /\ buf = <<>> /\ Stream = Closed(Count)
    BY <1>0, <2>1 DEF WrittenInv
  <2>3. WrittenInv'
    BY <1>1, <1>4, <2>1, <2>2 DEF WrittenInv, Closed, PackOf, Checksum
  <2>4. \/ client = "gone" /\ Sent' = Sent
        \/ /\ Len(Sent') = Len(Sent) + 1 /\ Sent'[Len(Sent) + 1].kind = "flush"
           /\ \A i \in 1..Len(Sent) : Sent'[i] = Sent[i]
    BY <1>1, <2>1, NoteSent
  <2>5. client # "ended" /\ client' = client
    BY <1>0, <1>1, <1>2 DEF EndInv
  <2>6. CASE client = "gone" /\ Sent' = Sent
    <3>1. EndInv'
      BY <1>1, <1>2, <2>1, <2>5, <2>6 DEF EndInv
    <3> QED BY <1>5, <1>6, <2>3, <3>1 DEF StreamInv
  <2>7. CASE /\ Len(Sent') = Len(Sent) + 1 /\ Sent'[Len(Sent) + 1].kind = "flush"
             /\ \A i \in 1..Len(Sent) : Sent'[i] = Sent[i]
    <3>1. \A i \in 1..Len(Sent') : Sent'[i].kind \in {"flush", "error"} => i = Len(Sent')
      BY <1>2, <1>7, <2>7
    <3>2. Sent' # <<>> /\ Sent'[Len(Sent')].kind = "flush"
      BY <1>7, <2>7
    <3>3. buf' = <<>> /\ Stream' = Closed(Count)'
      BY <1>1, <1>4, <2>2 DEF Closed, PackOf, Checksum
    <3>4. EndInv'
      BY <2>1, <2>5, <3>1, <3>2, <3>3 DEF EndInv
    <3> QED BY <1>5, <1>6, <2>3, <3>4 DEF StreamInv
  <2> QED BY <2>4, <2>6, <2>7
<1>11. CASE ReportError
  <2>1. writer = "failed" /\ writer' = "done"
        /\ IF sideband THEN SendIgnoring(Note("error")) ELSE UNCHANGED body
    BY <1>11 DEF ReportError
  <2>2. WrittenInv'
    BY <1>0, <1>1, <1>4, <2>1 DEF WrittenInv, Closed, PackOf, Checksum
  <2>3. \/ (client = "gone" \/ ~sideband) /\ Sent' = Sent
        \/ /\ Len(Sent') = Len(Sent) + 1 /\ Sent'[Len(Sent) + 1].kind = "error"
           /\ \A i \in 1..Len(Sent) : Sent'[i] = Sent[i]
    <3>1. CASE ~sideband
      BY <1>1, <2>1, <3>1 DEF Sent
    <3>2. CASE sideband
      BY <1>1, <2>1, <3>2, NoteSent
    <3> QED BY <3>1, <3>2
  <2>5. client # "ended" /\ client' = client /\ sideband' = sideband
    BY <1>0, <1>1, <1>2 DEF EndInv, mode
  <2>6. CASE (client = "gone" \/ ~sideband) /\ Sent' = Sent
    <3>1. EndInv'
      BY <1>1, <1>2, <2>1, <2>5, <2>6 DEF EndInv
    <3> QED BY <1>5, <1>6, <2>2, <3>1 DEF StreamInv
  <2>7. CASE /\ Len(Sent') = Len(Sent) + 1 /\ Sent'[Len(Sent) + 1].kind = "error"
             /\ \A i \in 1..Len(Sent) : Sent'[i] = Sent[i]
    <3>1. \A i \in 1..Len(Sent') : Sent'[i].kind \in {"flush", "error"} => i = Len(Sent')
      BY <1>2, <1>7, <2>7
    <3>2. Sent' # <<>> /\ Sent'[Len(Sent')].kind = "error"
      BY <1>7, <2>7
    <3>3. \A i \in 1..Len(Sent') : Sent'[i].kind # "flush"
      BY <1>2, <1>7, <2>7
    <3>4. EndInv'
      BY <2>1, <2>5, <3>1, <3>2, <3>3 DEF EndInv
    <3> QED BY <1>5, <1>6, <2>2, <3>4 DEF StreamInv
  <2> QED BY <2>3, <2>6, <2>7
<1> QED BY <1>8, <1>9, <1>10, <1>11

\* What the pack is after one more entry.
LEMMA PackGrows ==
    ASSUME NEW n \in Nat
    PROVE  PackOf(n) \in Seq(Int) /\ Len(PackOf(n)) = n + 1 /\ Append(PackOf(n), n + 1) = PackOf(n + 1)
<1>1. PackOf(n) \in Seq(Int) /\ Len(PackOf(n)) = n + 1
  BY IsSequence DEF PackOf
<1>2. PackOf(n + 1) \in Seq(Int) /\ Len(PackOf(n + 1)) = n + 2
  BY IsSequence DEF PackOf
<1>3. PackOf(n + 1)[Len(PackOf(n)) + 1] = n + 1 /\ \A i \in 1..Len(PackOf(n)) : PackOf(n + 1)[i] = PackOf(n)[i]
  BY <1>1 DEF PackOf
<1> QED BY <1>1, <1>2, <1>3, AppendIs

\* A symbol written to the buffer is written to the stream.
LEMMA StreamGrows ==
    ASSUME StreamTypes, NEW x \in Int, buf' = Append(buf, x), UNCHANGED <<got, body>>
    PROVE  Stream' = Append(Stream, x) /\ Sent' = Sent
<1>1. buf \in Seq(Int) /\ Bytes(Sent) \in Seq(Int)
  BY SentTypes DEF StreamTypes
<1>2. Sent' = Sent
  BY DEF Sent
<1>3. Bytes(Sent) \o Append(buf, x) = Append(Bytes(Sent) \o buf, x)
  BY <1>1, ConcatAppend
<1> QED BY <1>2, <1>3 DEF Stream, Cat

\* A data packet goes out, of the first m symbols of the buffer.
LEMMA PacketSent ==
    ASSUME StreamTypes, NEW m \in Nat, m <= Len(buf), Send(Data(SubSeq(buf, 1, m))),
           buf' = SubSeq(buf, m + 1, Len(buf)), UNCHANGED got
    PROVE  /\ Stream' = Stream /\ body' \in Seq(Packet) /\ Len(body') <= BodyPackets
           /\ Len(Sent') = Len(Sent) + 1 /\ Sent'[Len(Sent) + 1].kind = "data"
           /\ \A i \in 1..Len(Sent) : Sent'[i] = Sent[i]
<1> DEFINE s == SubSeq(buf, 1, m)
<1>1. buf \in Seq(Int) /\ s \in Seq(Int) /\ body \in Seq(Packet) /\ Len(body) \in Nat
  BY DEF StreamTypes
<1> HIDE DEF s
<1>2. Data(s) \in Packet /\ Data(s).kind = "data" /\ Data(s).data = s
  BY <1>1, NotePackets
<1>3. body' = Append(body, Data(s)) /\ Len(body) < BodyPackets
  BY DEF Send, s
<1>4. /\ Len(Sent') = Len(Sent) + 1 /\ Sent'[Len(Sent) + 1] = Data(s)
      /\ \A i \in 1..Len(Sent) : Sent'[i] = Sent[i]
      /\ Bytes(Sent') = Cat(Bytes(Sent), s)
  BY <1>2, <1>3, SentGrows
<1>5. Bytes(Sent) \in Seq(Int)
  BY SentTypes
<1>6. Cat(Cat(Bytes(Sent), s), SubSeq(buf, m + 1, Len(buf))) = Cat(Bytes(Sent), buf)
  BY <1>1, <1>5, Regroup DEF s
<1>7. Stream' = Stream
  BY <1>4, <1>6 DEF Stream
<1>8. body' \in Seq(Packet) /\ Len(body') <= BodyPackets
  BY <1>1, <1>2, <1>3, PackStreamAssumption
<1> QED BY <1>2, <1>4, <1>7, <1>8

\* The writer's steps that put packets out.
LEMMA PacketSteps ==
    ASSUME StreamInv, WritePacket \/ FlushRest
    PROVE  StreamInv'
<1> USE PackStreamAssumption
<1>0. StreamTypes /\ ChannelInv /\ WrittenInv /\ EndInv
  BY DEF StreamInv
<1>1. UNCHANGED <<mode, feeder, lookup, taken, objects, writer, written, client, got>>
      /\ writer \in {"recv", "flush"}
  BY DEF WritePacket, FlushRest, feeding
<1>2. /\ Stream' = Stream /\ body' \in Seq(Packet) /\ Len(body') <= BodyPackets
      /\ Len(Sent') = Len(Sent) + 1 /\ Sent'[Len(Sent) + 1].kind = "data"
      /\ \A i \in 1..Len(Sent) : Sent'[i] = Sent[i]
      /\ buf' \in Seq(Int)
  <2>0. buf \in Seq(Int)
    BY <1>0 DEF StreamTypes
  <2>1. CASE WritePacket
    <3>1. /\ MaxBandData \in Nat /\ MaxBandData <= Len(buf) /\ Send(Data(SubSeq(buf, 1, MaxBandData)))
          /\ buf' = SubSeq(buf, MaxBandData + 1, Len(buf))
      BY <2>1 DEF WritePacket
    <3>2. buf' \in Seq(Int)
      BY <2>0, <3>1
    <3> QED BY <1>0, <1>1, <3>1, <3>2, PacketSent
  <2>2. CASE FlushRest
    <3>1. Send(Data(buf)) /\ buf' = <<>>
      BY <2>2 DEF FlushRest
    <3>2. Len(buf) \in Nat /\ SubSeq(buf, 1, Len(buf)) = buf /\ SubSeq(buf, Len(buf) + 1, Len(buf)) = <<>>
      BY <2>0, SubSeqFull, SubSeqEmpty
    <3>3. Send(Data(SubSeq(buf, 1, Len(buf)))) /\ buf' = SubSeq(buf, Len(buf) + 1, Len(buf))
      BY <3>1, <3>2
    <3>4. Len(buf) <= Len(buf) /\ <<>> \in Seq(Int)
      BY <3>2
    <3> QED BY <1>0, <1>1, <3>1, <3>2, <3>3, <3>4, PacketSent
  <2> QED BY <2>1, <2>2
<1>3. StreamTypes'
  BY <1>0, <1>1, <1>2 DEF StreamTypes, PSTypeOK, mode
<1>4. ChannelInv'
  BY <1>0, <1>1 DEF ChannelInv
<1>5. WrittenInv'
  BY <1>0, <1>1, <1>2 DEF WrittenInv
<1>6. \A i \in 1..Len(Sent') : Sent'[i].kind \notin {"flush", "error"}
  <2>1. Len(Sent) \in Nat /\ \A i \in 1..Len(Sent) : Sent[i].kind \notin {"flush", "error"}
    BY <1>0, <1>1, SentTypes, NotEnded
  <2> QED BY <1>2, <2>1
<1>7. client # "ended"
  BY <1>0, <1>1 DEF EndInv
<1>8. EndInv'
  BY <1>1, <1>6, <1>7 DEF EndInv
<1> QED BY <1>3, <1>4, <1>5, <1>8 DEF StreamInv

\* The writer's steps that leave the body alone.
LEMMA BufferSteps ==
    ASSUME StreamInv,
           WriteHeader \/ BrokenPipe \/ WriteEntry \/ InputError \/ InputEnds \/ CheckCount
    PROVE  StreamInv'
<1> USE PackStreamAssumption
<1>0. StreamTypes /\ ChannelInv /\ WrittenInv /\ EndInv
  BY DEF StreamInv
<1>1. UNCHANGED <<mode, feeder, lookup, taken, body, client, got>> /\ writer # "done"
  BY DEF WriteHeader, BrokenPipe, WriteEntry, InputError, InputEnds, CheckCount, feeding
<1>2. Sent' = Sent /\ \A i \in 1..Len(Sent) : Sent[i].kind \notin {"flush", "error"}
  BY <1>1, NotEnded DEF Sent
<1>3. client # "ended" /\ client' = client /\ sideband' = sideband
  BY <1>0, <1>1 DEF EndInv, mode
<1>4. ASSUME writer' = "done" => client = "gone" \/ ~sideband PROVE EndInv'
  BY <1>2, <1>3, <1>4 DEF EndInv
<1>5. written \in 0..Count /\ taken \in 0..Count /\ objects \in Seq(Int) /\ buf \in Seq(Int)
      /\ Len(objects) \in Nat
  BY <1>0 DEF StreamTypes, PSTypeOK
<1>6. CASE WriteHeader
  <2>1. buf' = <<PackHeader>> /\ writer = "header" /\ writer' = "recv" /\ UNCHANGED <<objects, written>>
    BY <1>6 DEF WriteHeader
  <2>2. Stream = <<>> /\ Len(Stream) = 0
    BY <1>0, <2>1 DEF WrittenInv
  <2>3. Len(Bytes(Sent)) = 0 /\ Len(buf) = 0 /\ Bytes(Sent) \in Seq(Int)
    BY <1>0, <1>5, <2>2, SentTypes, CatLen DEF Stream
  <2>4. Bytes(Sent) = <<>>
    BY <2>3
  <2>5. StreamTypes'
    BY <1>0, <1>1, <2>1 DEF StreamTypes, PSTypeOK, mode, PackHeader
  <2>6. ChannelInv'
    BY <1>0, <1>1, <2>1 DEF ChannelInv
  <2>7. PackOf(0) = <<0>>
    BY DEF PackOf
  <2>8. Stream' = PackOf(written)' /\ writer' = "recv"
    <3>1. written = 0 /\ Cat(<<>>, <<0>>) = <<0>>
      <4>1. written = 0
        BY <1>0, <2>1 DEF WrittenInv
      <4>2. <<0>> \in Seq(Int)
        OBVIOUS
      <4>3. Cat(<<>>, <<0>>) = <<0>>
        BY <4>2, CatEmpty, Zenon
      <4> QED BY <4>1, <4>3
    <3> QED BY <1>2, <2>1, <2>4, <2>7, <3>1 DEF Stream, PackHeader
  <2>9. WrittenInv'
    BY <2>8 DEF WrittenInv
  <2> QED BY <1>4, <2>1, <2>5, <2>6, <2>9 DEF StreamInv
<1>7. CASE BrokenPipe
  <2>1. client = "gone" /\ writer \in {"recv", "flush"} /\ writer' = "done" /\ UNCHANGED <<objects, buf, written>>
    BY <1>7 DEF BrokenPipe
  <2>2. StreamTypes'
    BY <1>0, <1>1, <2>1 DEF StreamTypes, PSTypeOK, mode
  <2>3. ChannelInv'
    BY <1>0, <1>1, <2>1 DEF ChannelInv
  <2>4. Stream' = Stream
    BY <1>2, <2>1 DEF Stream
  <2>5. WrittenInv'
    BY <1>0, <2>1, <2>4 DEF WrittenInv, Closed, PackOf, Checksum
  <2> QED BY <1>4, <2>1, <2>2, <2>3, <2>5 DEF StreamInv
<1>8. CASE WriteEntry
  <2>1. /\ writer = "recv" /\ writer' = writer /\ objects # <<>> /\ Head(objects) # Bad
        /\ buf' = Append(buf, Head(objects)) /\ written' = written + 1 /\ objects' = Tail(objects)
    BY <1>8 DEF WriteEntry
  <2>2. /\ Len(objects) >= 1 /\ Head(objects) = objects[1] /\ Len(objects') = Len(objects) - 1
        /\ objects' \in Seq(Int) /\ \A i \in 1..Len(objects') : objects'[i] = objects[i + 1]
    BY <1>5, <2>1
  <2>3. Head(objects) = written + 1
    <3>1. 1 \in 1..Len(objects)
      BY <1>5, <2>2
    <3> QED BY <1>0, <2>1, <2>2, <3>1 DEF ChannelInv
  <2>4. taken >= written + Len(objects)
    BY <1>0, <1>5 DEF ChannelInv, StreamTypes, PSTypeOK
  <2>5. written' \in 0..Count /\ buf' \in Seq(Int)
    BY <1>5, <2>1, <2>2, <2>3, <2>4
  <2>6. StreamTypes'
    <3>1. Len(objects') <= Lookahead
      BY <1>0, <2>2 DEF StreamTypes, PSTypeOK
    <3> QED BY <1>0, <1>1, <2>1, <2>2, <2>5, <3>1 DEF StreamTypes, PSTypeOK, mode
  <2>7. ChannelInv'
    <3>1. ASSUME NEW i \in 1..Len(objects')
          PROVE  \/ objects'[i] = written' + i
                 \/ objects'[i] = Bad /\ i = Len(objects') /\ feeder = "done"
      <4>1. i + 1 \in 1..Len(objects) /\ objects'[i] = objects[i + 1]
        <5>1. Len(objects) \in Nat /\ i \in 1..(Len(objects) - 1)
          BY <1>5, <2>2
        <5>2. i + 1 \in 1..Len(objects)
          BY <5>1
        <5>3. objects'[i] = objects[i + 1]
          BY <2>2
        <5> QED BY <5>2, <5>3
      <4>2. \/ objects[i + 1] = written + (i + 1)
            \/ objects[i + 1] = Bad /\ i + 1 = Len(objects) /\ feeder = "done"
        BY <1>0, <4>1 DEF ChannelInv
      <4>3. written' + i = written + (i + 1) /\ (i + 1 = Len(objects) => i = Len(objects'))
        <5>1. written' = written + 1 /\ Len(objects') = Len(objects) - 1
          BY <2>1, <2>2, Zenon
        <5>2. written \in Int /\ i \in Int /\ Len(objects) \in Int
          BY <1>5, <2>2
        <5> QED BY <5>1, <5>2
      <4> QED BY <4>1, <4>2, <4>3
    <3>2. /\ feeder = "next" => taken = written' + Len(objects')
          /\ feeder = "send" => taken = written' + Len(objects') + 1
          /\ feeder = "done" => taken >= written' + Len(objects')
      <4>1. written' + Len(objects') = written + Len(objects)
        BY <1>5, <2>1, <2>2
      <4>2. /\ feeder = "next" => taken = written + Len(objects)
            /\ feeder = "send" => taken = written + Len(objects) + 1
            /\ feeder = "done" => taken >= written + Len(objects)
        BY <1>0, Zenon DEF ChannelInv
      <4> QED BY <4>1, <4>2
    <3>3. feeder' = feeder /\ taken' = taken
      BY <1>1
    <3> QED BY <3>1, <3>2, <3>3 DEF ChannelInv, Bad
  <2>8. Stream' = PackOf(written + 1)
    <3>1. Stream = PackOf(written)
      BY <1>0, <2>1 DEF WrittenInv
    <3>2. Stream' = Append(Stream, written + 1)
      BY <1>0, <1>1, <1>5, <2>1, <2>3, StreamGrows
    <3>3. Append(PackOf(written), written + 1) = PackOf(written + 1)
      <4>1. written \in Nat
        BY <1>5
      <4> QED BY <4>1, PackGrows, Zenon
    <3> QED BY <3>1, <3>2, <3>3
  <2>9. WrittenInv'
    <3>1. Stream' = PackOf(written') /\ writer' = "recv"
      BY <2>1, <2>8
    <3> QED BY <3>1 DEF WrittenInv
  <2> QED BY <1>4, <2>1, <2>6, <2>7, <2>9 DEF StreamInv
<1>9. CASE InputError
  <2>1. /\ writer = "recv" /\ writer' = "failed" /\ objects # <<>> /\ Head(objects) = Bad
        /\ objects' = Tail(objects) /\ UNCHANGED <<buf, written>>
    BY <1>9 DEF InputError
  <2>2. Len(objects) >= 1 /\ objects[1] = Bad
    BY <1>5, <2>1
  <2>3. Len(objects) = 1 /\ feeder = "done"
    <3>1. 1 \in 1..Len(objects) /\ Bad # written + 1
      BY <1>5, <2>2 DEF Bad
    <3> QED BY <1>0, <2>2, <3>1 DEF ChannelInv
  <2>4. objects' \in Seq(Int) /\ Len(objects') = 0
    BY <1>5, <2>1, <2>3
  <2>5. StreamTypes'
    BY <1>0, <1>1, <2>1, <2>4 DEF StreamTypes, PSTypeOK, mode
  <2>6. ChannelInv'
    BY <1>0, <1>1, <1>5, <2>1, <2>3, <2>4 DEF ChannelInv
  <2>7. Stream' = Stream
    BY <1>2, <2>1 DEF Stream
  <2>8. WrittenInv'
    BY <1>0, <2>1, <2>7 DEF WrittenInv, PackOf
  <2> QED BY <1>4, <2>1, <2>5, <2>6, <2>8 DEF StreamInv
<1>10. CASE InputEnds
  <2>1. writer = "recv" /\ writer' = "flush" /\ buf' = Append(buf, Checksum) /\ UNCHANGED <<objects, written>>
    BY <1>10 DEF InputEnds
  <2>2. Checksum \in Int
    BY DEF Checksum
  <2>3. StreamTypes'
    BY <1>0, <1>1, <1>5, <2>1, <2>2 DEF StreamTypes, PSTypeOK, mode
  <2>4. ChannelInv'
    BY <1>0, <1>1, <2>1 DEF ChannelInv
  <2>5. Stream' = Append(Stream, Checksum)
    BY <1>0, <1>1, <2>1, <2>2, StreamGrows
  <2>6. Stream' = Closed(written)
    BY <1>0, <2>1, <2>5 DEF WrittenInv, Closed
  <2>7. WrittenInv'
    BY <2>1, <2>6 DEF WrittenInv, Closed, PackOf, Checksum
  <2> QED BY <1>4, <2>1, <2>3, <2>4, <2>7 DEF StreamInv
<1>11. CASE CheckCount
  <2>1. /\ writer = "flush" /\ buf = <<>> /\ UNCHANGED <<objects, buf, written>>
        /\ writer' = IF written # Count THEN "failed" ELSE IF sideband THEN "packed" ELSE "done"
    BY <1>11 DEF CheckCount
  <2>2. StreamTypes'
    BY <1>0, <1>1, <2>1 DEF StreamTypes, PSTypeOK, mode
  <2>3. ChannelInv'
    BY <1>0, <1>1, <2>1 DEF ChannelInv
  <2>4. Stream' = Stream /\ Stream = Closed(written)
    BY <1>0, <1>2, <2>1 DEF Stream, WrittenInv
  <2>5. WrittenInv'
    BY <2>1, <2>4 DEF WrittenInv, Closed, PackOf, Checksum
  <2> QED BY <1>4, <2>1, <2>2, <2>3, <2>5 DEF StreamInv
<1> QED BY <1>6, <1>7, <1>8, <1>9, <1>10, <1>11

\* The client's steps.
LEMMA ClientSteps ==
    ASSUME StreamInv, Reader \/ ClientHangsUp
    PROVE  StreamInv'
<1>0. StreamTypes /\ ChannelInv /\ WrittenInv /\ EndInv
  BY DEF StreamInv
<1>1. UNCHANGED <<mode, feeder, lookup, taken, objects, writer, buf, written>>
  BY DEF Reader, ClientReads, ClientEnds, ClientHangsUp, feeding
<1>2. body \in Seq(Packet) /\ got \in Seq(Packet)
  BY <1>0 DEF StreamTypes
<1>3. Sent' = Sent
  <2>1. CASE ClientReads
    BY <1>0, <2>1, SentMoves DEF ClientReads
  <2>2. CASE ClientEnds \/ ClientHangsUp
    BY <2>2 DEF ClientEnds, ClientHangsUp, Sent
  <2> QED BY <2>1, <2>2 DEF Reader
<1>4. body' \in Seq(Packet) /\ got' \in Seq(Packet) /\ Len(body') <= BodyPackets
      /\ client' \in {"reading", "gone", "ended"}
  <2>1. CASE ClientReads
    <3>1. body # <<>> /\ got' = Append(got, Head(body)) /\ body' = Tail(body) /\ client' = client
      BY <2>1 DEF ClientReads
    <3>2. Head(body) \in Packet /\ Tail(body) \in Seq(Packet) /\ Len(Tail(body)) = Len(body) - 1
      BY <1>2, <3>1
    <3>3. Len(body) <= BodyPackets /\ Len(body) \in Nat /\ client \in {"reading", "gone", "ended"}
      BY <1>0, <1>2 DEF StreamTypes, PSTypeOK
    <3> QED BY <1>2, <3>1, <3>2, <3>3, PackStreamAssumption
  <2>2. CASE ClientEnds \/ ClientHangsUp
    BY <1>0, <2>2 DEF ClientEnds, ClientHangsUp, StreamTypes, PSTypeOK
  <2> QED BY <2>1, <2>2 DEF Reader
<1>5. StreamTypes'
  BY <1>0, <1>1, <1>4 DEF StreamTypes, PSTypeOK, mode
<1>6. ChannelInv'
  BY <1>0, <1>1 DEF ChannelInv
<1>7. Stream' = Stream
  BY <1>1, <1>3 DEF Stream
<1>8. WrittenInv'
  BY <1>0, <1>1, <1>7 DEF WrittenInv
<1>9. /\ client' = "ended" => body' = <<>> /\ writer = "done"
      /\ client' # "gone" => client # "gone"
  <2>1. CASE ClientReads
    BY <1>0, <2>1 DEF ClientReads, EndInv
  <2>2. CASE ClientEnds \/ ClientHangsUp
    BY <2>2 DEF ClientEnds, ClientHangsUp
  <2> QED BY <2>1, <2>2 DEF Reader
<1>10. EndInv'
  BY <1>0, <1>1, <1>3, <1>7, <1>9 DEF EndInv, mode
<1> QED BY <1>5, <1>6, <1>8, <1>10 DEF StreamInv

\* Every step of the stream preserves the invariant.
LEMMA StreamSteps ==
    ASSUME StreamInv, [PSNext]_psVars
    PROVE  StreamInv'
<1>1. CASE Feeder \/ FeederLost
  BY <1>1, FeederSteps
<1>2. CASE Hello \/ Packed \/ Close \/ ReportError
  BY <1>2, MessageSteps
<1>3. CASE WritePacket \/ FlushRest
  BY <1>3, PacketSteps
<1>4. CASE WriteHeader \/ BrokenPipe \/ WriteEntry \/ InputError \/ InputEnds \/ CheckCount
  BY <1>4, BufferSteps
<1>5. CASE Reader \/ ClientHangsUp
  BY <1>5, ClientSteps
<1>6. CASE UNCHANGED psVars
  <2>1. UNCHANGED <<sideband, noProgress, feeder, lookup, taken, objects, writer, buf, written, body, client, got>>
    BY <1>6 DEF psVars
  <2>2. WrittenInv' /\ EndInv'
    BY <2>1, WriterAlone
  <2>3. StreamTypes' /\ ChannelInv'
    BY <2>1 DEF StreamInv, StreamTypes, ChannelInv, PSTypeOK, mode
  <2> QED BY <2>2, <2>3 DEF StreamInv
<1> QED BY <1>1, <1>2, <1>3, <1>4, <1>5, <1>6 DEF PSNext, Writer

LEMMA StreamStarts == PSInit => StreamInv
<1> SUFFICES ASSUME PSInit PROVE StreamInv
  OBVIOUS
<1> USE PackStreamAssumption
<1>1. StreamTypes
  BY DEF PSInit, StreamTypes, PSTypeOK, mode, Positions
<1>2. ChannelInv
  BY DEF PSInit, ChannelInv
<1>3. Sent = <<>>
  BY DEF PSInit, Sent
<1>4. Bytes(Sent) = <<>>
  <2>1. Note("flush") \in Packet /\ <<>> \in Seq(Packet)
    BY NotePackets
  <2> QED BY <1>3, <2>1, BytesFacts
<1>5. Stream = <<>>
  <2>1. buf = <<>> /\ <<>> \in Seq(Int)
    BY DEF PSInit
  <2>2. Cat(<<>>, <<>>) = <<>>
    BY <2>1, CatEmpty, Zenon
  <2> QED BY <1>4, <2>1, <2>2 DEF Stream
<1>6. WrittenInv
  BY <1>5 DEF PSInit, WrittenInv
<1>7. EndInv
  BY <1>3 DEF PSInit, EndInv
<1> QED BY <1>1, <1>2, <1>6, <1>7 DEF StreamInv

\* What the writer produced and the client holds is, in order, the packets'
\* data and the buffer; the object channel and the closing packets agree
\* with it (feed_objects, stream_pack), for any plan and any channel sizes.
THEOREM StreamInvariant == PSSpec => []StreamInv
<1>1. PSInit => StreamInv
  BY StreamStarts
<1>2. StreamInv /\ [PSNext]_psVars => StreamInv'
  BY StreamSteps
<1> QED BY <1>1, <1>2, PTL DEF PSSpec

\* What was read is the beginning of what was written.
LEMMA ReadIsWritten ==
    ASSUME StreamInv
    PROVE  /\ Received = Bytes(got) /\ Received \in Seq(Int)
           /\ Len(Received) <= Len(Stream)
           /\ \A i \in 1..Len(Received) : Received[i] = Stream[i]
<1>1. got \in Seq(Packet) /\ body \in Seq(Packet) /\ buf \in Seq(Int) /\ StreamTypes
  BY DEF StreamInv, StreamTypes
<1>2. Received = Bytes(got)
  BY DEF Received, Bytes, DataOf
<1>3. Received \in Seq(Int)
  <2>1. Note("flush") \in Packet
    BY NotePackets
  <2> QED BY <1>1, <1>2, <2>1, BytesFacts
<1>4. /\ Len(Bytes(got)) <= Len(Bytes(Sent))
      /\ \A i \in 1..Len(Bytes(got)) : Bytes(Sent)[i] = Bytes(got)[i]
  BY <1>1, BytesPrefix DEF Sent
<1>5. Bytes(Sent) \in Seq(Int)
  BY <1>1, SentTypes
<1>6. PICK a, b : a = Bytes(got) /\ b = Bytes(Sent)
  OBVIOUS
<1>7. Stream = b \o buf
  BY <1>6 DEF Stream, Cat
<1>8. Len(b \o buf) = Len(b) + Len(buf) /\ \A i \in 1..Len(b) : (b \o buf)[i] = b[i]
  BY <1>1, <1>5, <1>6
<1> HIDE DEF Stream, Bytes, Received
<1>9. Len(a) \in Nat /\ Len(b) \in Nat /\ Len(buf) \in Nat /\ Len(a) <= Len(b)
      /\ \A i \in 1..Len(a) : b[i] = a[i]
  BY <1>1, <1>2, <1>3, <1>4, <1>5, <1>6
<1>10. Received = a
  BY <1>2, <1>6
<1>11. Len(Stream) = Len(b) + Len(buf) /\ \A i \in 1..Len(b) : Stream[i] = b[i]
  BY <1>7, <1>8
<1> QED BY <1>2, <1>3, <1>9, <1>10, <1>11

\* A written pack: its entries without a gap, and the checksum at its end.
LEMMA WrittenPack ==
    ASSUME StreamInv
    PROVE  /\ Len(Stream) <= Count + 2
           /\ \A i \in 1..Len(Stream) : Stream[i] = i - 1 \/ Stream[i] = Checksum
           /\ Len(Stream) = Count + 2 => Stream = WholePack
           /\ Closed(Count) = WholePack
<1> USE PackStreamAssumption
<1>1. written \in 0..Count /\ written \in Nat /\ Checksum = Count + 1
  BY DEF StreamInv, StreamTypes, PSTypeOK, Checksum
<1>2. Closed(Count) = WholePack
  <2>1. Append(PackOf(Count), Count + 1) = PackOf(Count + 1)
    BY PackGrows, Zenon
  <2>2. PackOf(Count + 1) = WholePack
    BY DEF PackOf, WholePack
  <2> QED BY <1>1, <2>1, <2>2 DEF Closed
<1>3. /\ PackOf(written) \in Seq(Int) /\ Len(PackOf(written)) = written + 1
      /\ \A i \in 1..(written + 1) : PackOf(written)[i] = i - 1
  BY <1>1, PackGrows DEF PackOf
<1>4. CASE Stream = <<>>
  BY <1>2, <1>4
<1>5. CASE Stream = PackOf(written)
  BY <1>1, <1>2, <1>3, <1>5
<1>6. CASE Stream = Closed(written)
  <2>1. PICK p : p = PackOf(written)
    OBVIOUS
  <2>2. p \in Seq(Int) /\ Len(p) = written + 1 /\ \A i \in 1..(written + 1) : p[i] = i - 1
    BY <1>3, <2>1
  <2>3. Stream = Append(p, Checksum) /\ Checksum \in Int
    BY <1>1, <1>6, <2>1 DEF Closed
  <2>4. Len(Stream) = written + 2 /\ Stream[written + 2] = Checksum
        /\ \A i \in 1..(written + 1) : Stream[i] = p[i]
    BY <1>1, <2>2, <2>3
  <2>5. Len(Stream) = Count + 2 => Stream = WholePack
    BY <1>1, <1>2, <1>6, <2>4
  <2>6. \A i \in 1..Len(Stream) : i \in 1..(written + 1) \/ i = written + 2
    BY <1>1, <2>4
  <2> QED BY <1>1, <1>2, <2>2, <2>4, <2>5, <2>6
<1>7. Stream = <<>> \/ Stream = PackOf(written) \/ Stream = Closed(written)
  BY DEF StreamInv, StreamTypes, PSTypeOK, WrittenInv
<1> QED BY <1>4, <1>5, <1>6, <1>7

LEMMA StreamIsHonest == StreamInv => ResponseHonest
<1> SUFFICES ASSUME StreamInv PROVE ResponseHonest
  OBVIOUS
<1> USE PackStreamAssumption
<1>1. got \in Seq(Packet) /\ body \in Seq(Packet) /\ StreamTypes /\ EndInv /\ PSTypeOK
  BY DEF StreamInv, StreamTypes
<1>2. /\ Len(Sent) = Len(got) + Len(body) /\ Len(got) \in Nat /\ Len(body) \in Nat
      /\ \A i \in 1..Len(got) : Sent[i] = got[i]
      /\ body = <<>> => Sent = got
  BY <1>1 DEF Sent
<1>3. FlushMeansWholePack
  <2> SUFFICES ASSUME NEW i \in 1..Len(got), got[i].kind = "flush" PROVE Received = WholePack
    BY DEF FlushMeansWholePack, Saw
  <2>1. i \in 1..Len(Sent) /\ Sent[i].kind = "flush"
    BY <1>2
  <2>2. i = Len(Sent) /\ buf = <<>> /\ Stream = Closed(Count)
    BY <1>1, <2>1 DEF EndInv
  <2>3. body = <<>> /\ Sent = got
    BY <1>1, <1>2, <2>2
  <2>4. Stream = Received
    <3>1. Received \in Seq(Int) /\ Received = Bytes(Sent)
      BY <2>3, ReadIsWritten
    <3>2. Cat(Received, <<>>) = Received
      BY <3>1, CatEmpty, Zenon
    <3> QED BY <2>2, <3>1, <3>2 DEF Stream
  <2> QED BY <2>2, <2>4, WrittenPack
<1>4. NoSilentFailure
  <2> SUFFICES ASSUME client = "ended", sideband
               PROVE  \E k \in {"flush", "error"} : got # <<>> /\ Last(got).kind = k
    BY DEF NoSilentFailure
  <2>1. body = <<>> /\ writer = "done"
    BY <1>1 DEF EndInv
  <2>2. Sent = got
    BY <1>2, <2>1
  <2>3. Sent # <<>> /\ Sent[Len(Sent)].kind \in {"flush", "error"}
    BY <1>1, <2>1 DEF EndInv
  <2> QED BY <2>2, <2>3 DEF Last
<1>5. ShortPackShows
  <2>1. /\ Len(Received) <= Len(Stream) /\ Received \in Seq(Int)
        /\ \A i \in 1..Len(Received) : Received[i] = Stream[i]
    BY ReadIsWritten
  <2>2. Stream \in Seq(Int)
    BY <1>1, SentTypes
  <2>3. PICK r, s : r = Received /\ s = Stream
    OBVIOUS
  <2>4. /\ Len(r) \in Nat /\ Len(s) \in Nat /\ Len(r) <= Len(s) /\ Len(s) <= Count + 2
        /\ \A i \in 1..Len(r) : r[i] = s[i]
        /\ \A i \in 1..Len(s) : s[i] = i - 1 \/ s[i] = Checksum
        /\ Len(s) = Count + 2 => s = WholePack
    BY <2>1, <2>2, <2>3, WrittenPack
  <2>5. \A i \in 1..Len(r) : r[i] # Checksum => r[i] = WholePack[i]
    BY <2>4 DEF WholePack
  <2>6. Len(WholePack) = Count + 2
    BY IsSequence DEF WholePack
  <2>7. ASSUME Len(r) >= Count + 2 PROVE r = WholePack
    <3>1. Len(r) = Len(s) /\ s = WholePack
      BY <2>4, <2>7
    <3>2. r \in Seq(Int) /\ s \in Seq(Int)
      BY <2>1, <2>2, <2>3
    <3>3. r = s
      BY <2>4, <3>1, <3>2
    <3> QED BY <3>1, <3>3
  <2> QED BY <2>3, <2>5, <2>6, <2>7 DEF ShortPackShows
<1> QED BY <1>1, <1>3, <1>4, <1>5 DEF ResponseHonest

\* A client can always tell a whole pack from one that was cut short, however
\* lookups fail, the feeder is lost or the client is slow (ResponseHonest).
THEOREM ResponsesAreHonest == PSSpec => []ResponseHonest
BY StreamInvariant, StreamIsHonest, PTL

------------------------------------------------------------------------------
(***************************************************************************)
(* The delta encoder.                                                      *)
(***************************************************************************)

-----------------------------------------------------------------------------
(* Quotients and remainders *)

LEMMA DivMod ==
    ASSUME NEW a \in Int, NEW w \in Nat \ {0}
    PROVE  /\ a \div w \in Int /\ a % w \in 0..(w - 1) /\ a = w * (a \div w) + (a % w)
           /\ a \in Nat => a \div w \in Nat
<1>1. a \div w \in Int /\ a % w \in 0..(w - 1) /\ a = w * (a \div w) + (a % w)
  OBVIOUS
<1>2. ASSUME a \in Nat PROVE a \div w >= 0
  <2> SUFFICES ASSUME a \div w <= -1 PROVE FALSE
    BY <1>1
  <2>1. w * (a \div w) <= w * (-1)
    BY <1>1
  <2> QED BY <1>1, <1>2, <2>1
<1> QED BY <1>1, <1>2

LEMMA DivNat ==
    ASSUME NEW a, a \in Nat, NEW w, w \in Nat \ {0}
    PROVE  a \div w \in Nat /\ a % w \in 0..(w - 1) /\ a = w * (a \div w) + (a % w)
<1>1. a \in Int /\ w \in Nat \ {0}
  OBVIOUS
<1>2. a \div w \in Int /\ a % w \in 0..(w - 1) /\ a = w * (a \div w) + (a % w)
  BY <1>1, DivMod, Zenon
<1>3. a \in Nat => a \div w \in Nat
  BY <1>1, DivMod, Zenon
<1> QED BY <1>2, <1>3

LEMMA DivisionUnique ==
    ASSUME NEW w \in Nat \ {0}, NEW q \in Int, NEW p \in Int, NEW r \in 0..(w - 1), NEW s \in 0..(w - 1),
           w * q + r = w * p + s
    PROVE  q = p /\ r = s
<1>1. CASE q = p
  BY <1>1
<1>2. CASE q > p
  <2>1. w * (q - p) >= w
    BY <1>2
  <2> QED BY <2>1
<1>3. CASE q < p
  <2>1. w * (p - q) >= w
    BY <1>3
  <2> QED BY <2>1
<1> QED BY <1>1, <1>2, <1>3

\* Numbers that differ by a multiple of w have the same remainder.
LEMMA SameRemainder ==
    ASSUME NEW w \in Nat \ {0}, NEW a \in Int, NEW b \in Int, NEW k \in Int, a = b + w * k
    PROVE  a % w = b % w
<1>1. a = w * (a \div w) + (a % w) /\ b = w * (b \div w) + (b % w)
  BY DivMod
<1>2. PICK q, r, p, s : q = a \div w /\ r = a % w /\ p = b \div w /\ s = b % w
  OBVIOUS
<1>3. q \in Int /\ p \in Int /\ r \in 0..(w - 1) /\ s \in 0..(w - 1)
  BY <1>2, DivMod
<1>4. w * q + r = w * (p + k) + s /\ p + k \in Int
  BY <1>1, <1>2, <1>3
<1>5. r = s
  BY <1>3, <1>4, DivisionUnique
<1> QED BY <1>2, <1>5

-----------------------------------------------------------------------------
(* The rolling hash *)

\* h and g are fingerprints that differ by a leading byte x of weight p.
Leads(w, x, h, g, p) == \E k \in Int : h = g + x * p + w * k
Horner(w, b, h, y) == (h * b + y) % w

\* One more byte behind both.
LEMMA HornerStep ==
    ASSUME NEW w \in Nat \ {0}, NEW b \in Int, NEW h \in Int, NEW g \in Int, NEW p \in Int, NEW x \in Int, NEW y \in Int,
           Leads(w, x, h, g, p)
    PROVE  Leads(w, x, Horner(w, b, h, y), Horner(w, b, g, y), Horner(w, b, p, 0))
<1>00. PICK k \in Int : h = g + x * p + w * k
  BY DEF Leads
<1>01. PICK r1, r2, r3 : r1 = (h * b + y) % w /\ r2 = (g * b + y) % w /\ r3 = (p * b) % w
  OBVIOUS
<1>02. p * b + 0 = p * b
  OBVIOUS
<1>1. PICK q1, q2, q3 :
          q1 = (h * b + y) \div w /\ q2 = (g * b + y) \div w /\ q3 = (p * b) \div w
  OBVIOUS
<1>2. q1 \in Int /\ q2 \in Int /\ q3 \in Int /\ r1 \in Int /\ r2 \in Int /\ r3 \in Int
  <2>1. h * b + y \in Int /\ g * b + y \in Int /\ p * b \in Int
    OBVIOUS
  <2> QED BY <1>01, <1>1, <2>1, DivMod
<1>3. h * b + y = w * q1 + r1 /\ g * b + y = w * q2 + r2 /\ p * b = w * q3 + r3
  <2>1. h * b + y \in Int /\ g * b + y \in Int /\ p * b \in Int
    OBVIOUS
  <2> QED BY <1>01, <1>1, <2>1, DivMod
<1>4. PICK j : j = k * b + q2 - q1 + x * q3
  OBVIOUS
<1>5. j \in Int
  BY <1>2, <1>4
<1>6. h * b = g * b + x * (p * b) + w * (k * b)
  BY <1>00
<1>7. r1 = g * b + x * (p * b) + w * (k * b) + y - w * q1
  BY <1>2, <1>3, <1>6
<1>8. x * (p * b) = w * (x * q3) + x * r3
  BY <1>2, <1>3
<1>9. g * b + y = w * q2 + r2
  BY <1>3
<1>10. PICK A, B, C, E, F, G, H, J :
          /\ A = w * q1 /\ B = w * q2 /\ C = w * (x * q3) /\ E = x * r3 /\ F = w * (k * b) /\ G = g * b
          /\ H = x * (p * b) /\ J = w * j
  OBVIOUS
<1>11. A \in Int /\ B \in Int /\ C \in Int /\ E \in Int /\ F \in Int /\ G \in Int /\ H \in Int /\ J \in Int
  BY <1>2, <1>5, <1>10
<1>13. J = F + B - A + C
  BY <1>2, <1>4, <1>10
<1>14. r1 = G + H + F + y - A /\ H = C + E /\ G + y = B + r2
  BY <1>7, <1>8, <1>9, <1>10
<1>15. r1 = r2 + E + J
  <2> HIDE <1>10
  <2> QED BY <1>2, <1>11, <1>13, <1>14
<1>12. r1 = r2 + x * r3 + w * j
  BY <1>10, <1>15
<1> QED BY <1>01, <1>02, <1>5, <1>12 DEF Leads, Horner

LEMMA WordPositive == Word \in Nat \ {0} /\ HashBase \in Nat /\ MinCopy \in Nat /\ MinCopy >= 2
BY DeltaAssumption DEF Word

\* block_hash, a byte at a time.
LEMMA HashSteps ==
    ASSUME NEW u \in Seq(Nat)
    PROVE  \E f : /\ BlockHash(u) = f[Len(u)] /\ f[0] = 0
                  /\ \A n \in 1..(Len(u)) : f[n] = ((f[n - 1]) * HashBase + u[n]) % Word
                  /\ \A n \in 0..(Len(u)) : f[n] \in 0..(Word - 1)
<1> DEFINE Top == Len(u)
           Dom == 0..(Word - 1)
           G(n, v) == ((v) * HashBase + u[n]) % Word
           Go(n, v) == IF n < Top THEN G(n + 1, v) ELSE v
           D == [y \in Nat \X Dom |-> Go(y[1], y[2])]
<1>0. Top \in Nat
  OBVIOUS
<1>1. 0 \in Dom
  BY WordPositive
<1>2. ASSUME NEW n \in 1..Top, NEW v \in Dom PROVE G(n, v) \in Dom
  <2>1. v * HashBase + u[n] \in Int
    BY WordPositive
  <2> QED BY <2>1, WordPositive, DivMod
<1> HIDE DEF Top, Dom, G
<1>21. ASSUME NEW n \in Nat, NEW v \in Dom PROVE Go(n, v) \in Dom
  <2>1. n < Top => n + 1 \in 1..Top
    BY <1>0
  <2> QED BY <1>2, <2>1
<1> HIDE DEF Go
<1>3. D \in [Nat \X Dom -> Dom] /\ \A n \in Nat, v \in Dom : D[<<n, v>>] = Go(n, v)
  <2>1. ASSUME NEW y \in Nat \X Dom PROVE Go(y[1], y[2]) \in Dom
    BY <1>21
  <2> QED BY <2>1
<1> HIDE DEF D
<1>4. PICK g : g \in [0..Top -> Dom] /\ g = [n \in 0..Top |-> IF n = 0 THEN 0 ELSE D[<<n - 1, g[n - 1]>>]]
  <2>1. PICK g : LooksBack(g, Top, Dom, 0, D)
    BY <1>0, <1>1, <1>3, BoundedRecursion
  <2> QED BY <2>1 DEF LooksBack
<1> DEFINE Row(h, n) == IF n = 0 THEN 0 ELSE G(n, h[n - 1])
<1>5. g = [n \in 0..Top |-> Row(g, n)]
  <2>1. ASSUME NEW n \in 0..Top PROVE (IF n = 0 THEN 0 ELSE D[<<n - 1, g[n - 1]>>]) = Row(g, n)
    <3>1. CASE n = 0
      BY <3>1
    <3>2. CASE n # 0
      <4>1. n - 1 \in Nat /\ n - 1 \in 0..Top /\ n - 1 < Top /\ (n - 1) + 1 = n
        BY <1>0, <3>2
      <4>2. g[n - 1] \in Dom
        BY <1>4, <4>1
      <4> QED BY <1>3, <3>2, <4>1, <4>2 DEF Go
    <3> QED BY <3>1, <3>2
  <2> HIDE DEF Row
  <2> QED BY <1>4, <2>1
<1> DEFINE f[n \in 0..Top] == Row(f, n)
<1>6. f = [n \in 0..Top |-> Row(f, n)]
  <2> HIDE DEF Row
  <2> QED BY <1>5
<1>7. BlockHash(u) = f[Top]
  BY DEF BlockHash, Top, G
<1> HIDE DEF f
<1>8. f[0] = 0 /\ \A n \in 1..Top : f[n] = G(n, f[n - 1])
  <2>1. 0 \in 0..Top /\ \A n \in 1..Top : n \in 0..Top /\ n # 0
    BY <1>0
  <2>2. \A n \in 0..Top : f[n] = Row(f, n)
    <3> HIDE DEF Row
    <3> QED BY <1>6
  <2> QED BY <2>1, <2>2
<1> HIDE DEF Row
<1>9. \A n \in 1..Top : f[n - 1] \in Dom => f[n] \in Dom
  BY <1>2, <1>8
<1>10. \A n \in 0..Top : f[n] \in Dom
  BY <1>0, <1>1, <1>8, <1>9, BackTyped
<1> QED BY <1>7, <1>8, <1>10 DEF Top, Dom, G


\* wrapping_pow, a factor at a time.
LEMMA PowSteps ==
    ASSUME NEW e \in Nat
    PROVE  \E f : /\ WrappingPow(e) = f[e] /\ f[0] = 1
                  /\ \A n \in 1..(e) : f[n] = ((f[n - 1]) * HashBase) % Word
                  /\ \A n \in 0..(e) : f[n] \in Int
<1> DEFINE Top == e
           Dom == Int
           G(n, v) == ((v) * HashBase) % Word
           Go(n, v) == IF n < Top THEN G(n + 1, v) ELSE v
           D == [y \in Nat \X Dom |-> Go(y[1], y[2])]
<1>0. Top \in Nat
  OBVIOUS
<1>1. 1 \in Dom
  OBVIOUS
<1>2. ASSUME NEW n \in 1..Top, NEW v \in Dom PROVE G(n, v) \in Dom
  <2>1. v * HashBase \in Int
    BY WordPositive
  <2> QED BY <2>1, WordPositive, DivMod
<1> HIDE DEF Top, Dom, G
<1>21. ASSUME NEW n \in Nat, NEW v \in Dom PROVE Go(n, v) \in Dom
  <2>1. n < Top => n + 1 \in 1..Top
    BY <1>0
  <2> QED BY <1>2, <2>1
<1> HIDE DEF Go
<1>3. D \in [Nat \X Dom -> Dom] /\ \A n \in Nat, v \in Dom : D[<<n, v>>] = Go(n, v)
  <2>1. ASSUME NEW y \in Nat \X Dom PROVE Go(y[1], y[2]) \in Dom
    BY <1>21
  <2> QED BY <2>1
<1> HIDE DEF D
<1>4. PICK g : g \in [0..Top -> Dom] /\ g = [n \in 0..Top |-> IF n = 0 THEN 1 ELSE D[<<n - 1, g[n - 1]>>]]
  <2>1. PICK g : LooksBack(g, Top, Dom, 1, D)
    BY <1>0, <1>1, <1>3, BoundedRecursion
  <2> QED BY <2>1 DEF LooksBack
<1> DEFINE Row(h, n) == IF n = 0 THEN 1 ELSE G(n, h[n - 1])
<1>5. g = [n \in 0..Top |-> Row(g, n)]
  <2>1. ASSUME NEW n \in 0..Top PROVE (IF n = 0 THEN 1 ELSE D[<<n - 1, g[n - 1]>>]) = Row(g, n)
    <3>1. CASE n = 0
      BY <3>1
    <3>2. CASE n # 0
      <4>1. n - 1 \in Nat /\ n - 1 \in 0..Top /\ n - 1 < Top /\ (n - 1) + 1 = n
        BY <1>0, <3>2
      <4>2. g[n - 1] \in Dom
        BY <1>4, <4>1
      <4> QED BY <1>3, <3>2, <4>1, <4>2 DEF Go
    <3> QED BY <3>1, <3>2
  <2> HIDE DEF Row
  <2> QED BY <1>4, <2>1
<1> DEFINE f[n \in 0..Top] == Row(f, n)
<1>6. f = [n \in 0..Top |-> Row(f, n)]
  <2> HIDE DEF Row
  <2> QED BY <1>5
<1>7. WrappingPow(e) = f[Top]
  BY DEF WrappingPow, Top, G
<1> HIDE DEF f
<1>8. f[0] = 1 /\ \A n \in 1..Top : f[n] = G(n, f[n - 1])
  <2>1. 0 \in 0..Top /\ \A n \in 1..Top : n \in 0..Top /\ n # 0
    BY <1>0
  <2>2. \A n \in 0..Top : f[n] = Row(f, n)
    <3> HIDE DEF Row
    <3> QED BY <1>6
  <2> QED BY <2>1, <2>2
<1> HIDE DEF Row
<1>9. \A n \in 1..Top : f[n - 1] \in Dom => f[n] \in Dom
  BY <1>2, <1>8
<1>10. \A n \in 0..Top : f[n] \in Dom
  BY <1>0, <1>1, <1>8, <1>9, BackTyped
<1> QED BY <1>7, <1>8, <1>10 DEF Top, Dom, G

LEMMA SliceFacts ==
    ASSUME NEW V, NEW t \in Seq(V), NEW i \in Nat, NEW j \in Nat, i <= j, j <= Len(t)
    PROVE  Slice(t, i, j) \in Seq(V) /\ Len(Slice(t, i, j)) = j - i /\ \A n \in 1..(j - i) : Slice(t, i, j)[n] = t[i + n]
<1>1. PICK x : x = SubSeq(t, i + 1, j)
  OBVIOUS
<1>2. /\ x \in Seq(V) /\ Len(x) = IF i + 1 <= j THEN j - (i + 1) + 1 ELSE 0
      /\ \A n \in 1..(j - (i + 1) + 1) : x[n] = t[(i + 1) + n - 1]
  <2>1. i + 1 \in Int /\ j \in Int
    OBVIOUS
  <2>2. \A n \in (i + 1)..j : t[n] \in V
    OBVIOUS
  <2> QED BY <1>1, <2>1, <2>2, SubSeqProperties
<1>3. Len(x) = j - i
  BY <1>2
<1>4. ASSUME NEW n \in 1..(j - i) PROVE x[n] = t[i + n]
  <2>1. n \in 1..(j - (i + 1) + 1) /\ (i + 1) + n - 1 = i + n
    OBVIOUS
  <2> QED BY <1>2, <2>1
<1> QED BY <1>1, <1>2, <1>3, <1>4 DEF Slice

SliceOf(u, t, i, j) == u \in Seq(Nat) /\ Len(u) = j - i /\ \A n \in 1..(j - i) : u[n] = t[i + n]

LEMMA SliceIs ==
    ASSUME NEW t, t \in Seq(Nat), NEW i, i \in Nat, NEW j, j \in Nat, i <= j, j <= Len(t)
    PROVE  SliceOf(Slice(t, i, j), t, i, j)
<1>1. PICK V : V = Nat
  OBVIOUS
<1>2. t \in Seq(V)
  BY <1>1
<1>3. Slice(t, i, j) \in Seq(V) /\ Len(Slice(t, i, j)) = j - i /\ \A n \in 1..(j - i) : Slice(t, i, j)[n] = t[i + n]
  BY <1>2, SliceFacts
<1> QED BY <1>1, <1>3 DEF SliceOf

LEMMA HashOf ==
    ASSUME NEW u \in Seq(Nat), NEW m \in Nat, Len(u) = m
    PROVE  \E h : /\ BlockHash(u) = h[m] /\ h[0] = 0
                  /\ \A n \in 1..m : h[n] = (h[n - 1] * HashBase + u[n]) % Word
                  /\ \A n \in 0..m : h[n] \in 0..(Word - 1)
<1>1. PICK h : /\ BlockHash(u) = h[Len(u)] /\ h[0] = 0
               /\ \A n \in 1..(Len(u)) : h[n] = (h[n - 1] * HashBase + u[n]) % Word
               /\ \A n \in 0..(Len(u)) : h[n] \in 0..(Word - 1)
  BY HashSteps
<1> QED BY <1>1

\* Rolling gives what block_hash computes for the shifted window.
LEMMA RollIsHash ==
    ASSUME NEW t \in Seq(Nat), NEW c \in Nat, c + MinCopy < Len(t)
    PROVE  RollHash(BlockHash(Slice(t, c, c + MinCopy)), t[c + 1], t[c + MinCopy + 1])
               = BlockHash(Slice(t, c + 1, (c + 1) + MinCopy))
<1>00. PICK m : m = MinCopy
  OBVIOUS
<1>0. m \in Nat /\ m >= 2 /\ Word \in Nat \ {0} /\ HashBase \in Nat /\ Len(t) \in Nat
  BY <1>00, WordPositive
<1>1. PICK u, v : u = Slice(t, c, c + m) /\ v = Slice(t, c + 1, (c + 1) + m)
  OBVIOUS
<1>2. u \in Seq(Nat) /\ Len(u) = m /\ \A n \in 1..m : u[n] = t[c + n]
  <2>1. PICK j : j = c + m
    OBVIOUS
  <2>2. j \in Nat /\ c <= j /\ j <= Len(t) /\ m = j - c /\ u = Slice(t, c, j)
    BY <1>00, <1>0, <1>1, <2>1
  <2>3. u \in Seq(Nat) /\ Len(u) = j - c /\ \A n \in 1..(j - c) : u[n] = t[c + n]
    BY <2>2, SliceFacts
  <2> HIDE <1>1
  <2> QED BY <2>2, <2>3
<1>3. v \in Seq(Nat) /\ Len(v) = m /\ \A n \in 1..m : v[n] = t[(c + 1) + n]
  <2>1. PICK i, j : i = c + 1 /\ j = (c + 1) + m
    OBVIOUS
  <2>2. i \in Nat /\ j \in Nat /\ i <= j /\ j <= Len(t) /\ m = j - i /\ v = Slice(t, i, j)
    BY <1>00, <1>0, <1>1, <2>1
  <2>3. v \in Seq(Nat) /\ Len(v) = j - i /\ \A n \in 1..(j - i) : v[n] = t[i + n]
    <3>1. SliceOf(v, t, i, j)
      BY <2>2, SliceIs
    <3> QED BY <3>1 DEF SliceOf
  <2>4. v \in Seq(Nat) /\ Len(v) = m /\ \A n \in 1..m : v[n] = t[i + n]
    BY <2>2, <2>3
  <2> QED BY <2>1, <2>4
<1>4. PICK x : x = t[c + 1]
  OBVIOUS
<1>5. x \in Nat /\ u[1] = x
  <2>1. c + 1 \in 1..Len(t) /\ 1 \in 1..m
    BY <1>00, <1>0
  <2> QED BY <1>2, <1>4, <2>1
<1>6. ASSUME NEW n \in Nat, n + 1 \in 1..m, n # 0 PROVE u[n + 1] = v[n]
  <2>1. n \in 1..m /\ c + (n + 1) = (c + 1) + n
    BY <1>0, <1>6
  <2> QED BY <1>2, <1>3, <1>6, <2>1
<1>7. \A n \in 1..m : v[n] \in Nat /\ u[n] \in Nat
  BY <1>2, <1>3
<1>8. PICK h : /\ BlockHash(u) = h[m] /\ h[0] = 0
               /\ \A n \in 1..m : h[n] = (h[n - 1] * HashBase + u[n]) % Word
               /\ \A n \in 0..m : h[n] \in 0..(Word - 1)
  <2>1. u \in Seq(Nat) /\ m \in Nat /\ Len(u) = m
    BY <1>0, <1>2
  <2> QED BY <2>1, HashOf, Zenon
<1>9. PICK g : /\ BlockHash(v) = g[m] /\ g[0] = 0
               /\ \A n \in 1..m : g[n] = (g[n - 1] * HashBase + v[n]) % Word
               /\ \A n \in 0..m : g[n] \in 0..(Word - 1)
  <2>1. v \in Seq(Nat) /\ m \in Nat /\ Len(v) = m
    BY <1>0, <1>3
  <2> QED BY <2>1, HashOf, Zenon
<1>10. PICK p : /\ HashTop = p[m - 1] /\ p[0] = 1
                /\ \A n \in 1..(m - 1) : p[n] = (p[n - 1] * HashBase) % Word
                /\ \A n \in 0..(m - 1) : p[n] \in Int
  <2>1. m - 1 \in Nat
    BY <1>0
  <2> QED BY <2>1, <1>00, PowSteps DEF HashTop
<1> DEFINE Apart(n) == n + 1 <= m => Leads(Word, x, h[n + 1], g[n], p[n])
           U == {n \in Nat : Apart(n)}
<1>11. Apart(0)
  <2>1. 1 \in 1..m /\ 1 - 1 = 0 /\ 0 * HashBase + x = x
    BY <1>0, <1>5
  <2>2. h[1] = x % Word
    BY <1>5, <1>8, <2>1
  <2>3. x = Word * (x \div Word) + (x % Word) /\ x \div Word \in Int /\ x % Word \in 0..(Word - 1)
    BY <1>0, <1>5, DivMod
  <2>4. PICK k, r : k = x \div Word /\ r = x % Word
    OBVIOUS
  <2>5. k \in Int /\ r \in Int /\ x = Word * k + r /\ h[1] = r
    BY <2>2, <2>3, <2>4
  <2>6. r = 0 + x * 1 + Word * (-k) /\ -k \in Int
    BY <1>0, <1>5, <2>5
  <2>7. \E e \in Int : h[1] = g[0] + x * p[0] + Word * e
    BY <1>9, <1>10, <2>5, <2>6
  <2> QED BY <2>7 DEF Leads
<1>12. ASSUME NEW n \in Nat, Apart(n) PROVE Apart(n + 1)
  <2> SUFFICES ASSUME (n + 1) + 1 <= m
               PROVE  Leads(Word, x, h[(n + 1) + 1], g[n + 1], p[n + 1])
    OBVIOUS
  <2>1. /\ n + 1 <= m /\ n + 1 \in 1..m /\ (n + 1) + 1 \in 1..m /\ ((n + 1) + 1) - 1 = n + 1 /\ (n + 1) - 1 = n
        /\ n + 1 \in 1..(m - 1) /\ n \in 0..(m - 1) /\ n \in 0..m /\ n + 1 \in 0..m /\ n + 1 # 0 /\ n + 1 \in Nat
    BY <1>0
  <2>2. Leads(Word, x, h[n + 1], g[n], p[n])
    BY <1>12, <2>1
  <2>3. PICK a, b, d, y : a = h[n + 1] /\ b = g[n] /\ d = p[n] /\ y = v[n + 1]
    OBVIOUS
  <2>4. a \in Int /\ b \in Int /\ d \in Int /\ y \in Int
    BY <1>0, <1>7, <1>8, <1>9, <1>10, <2>1, <2>3, SMTT(40), ZenonT(40)
  <2>6. h[(n + 1) + 1] = Horner(Word, HashBase, a, y)
    <3>1. u[(n + 1) + 1] = y
      BY <1>6, <2>1, <2>3
    <3> QED BY <1>8, <2>1, <2>3, <3>1 DEF Horner
  <2>7. g[n + 1] = Horner(Word, HashBase, b, y)
    BY <1>9, <2>1, <2>3 DEF Horner
  <2>8. p[n + 1] = Horner(Word, HashBase, d, 0)
    <3>1. d * HashBase + 0 = d * HashBase
      BY <1>0, <2>4
    <3> QED BY <1>10, <2>1, <2>3, <3>1 DEF Horner
  <2>9. Word \in Nat \ {0} /\ HashBase \in Int /\ x \in Int /\ Leads(Word, x, a, b, d)
    BY <1>0, <1>5, <2>2, <2>3
  <2>10. Leads(Word, x, Horner(Word, HashBase, a, y), Horner(Word, HashBase, b, y), Horner(Word, HashBase, d, 0))
    BY <2>4, <2>9, HornerStep
  <2> QED BY <2>6, <2>7, <2>8, <2>10, Zenon
<1>13. U = Nat
  <2>1. 0 \in U /\ \A n \in U : n + 1 \in U
    <3> HIDE DEF Apart
    <3> QED BY <1>11, <1>12
  <2> HIDE DEF U
  <2> QED BY <2>1, Induction DEF U
<1>14. PICK k \in Int : h[m] = g[m - 1] + x * p[m - 1] + Word * k
  <2>1. m - 1 \in Nat /\ (m - 1) + 1 = m /\ m <= m
    BY <1>0
  <2>2. Leads(Word, x, h[m], g[m - 1], p[m - 1])
    BY <1>13, <2>1
  <2> QED BY <2>2 DEF Leads
<1>15. PICK a, b, d, y : a = h[m] /\ b = g[m - 1] /\ d = HashTop /\ y = t[c + MinCopy + 1]
  OBVIOUS
<1>16. a \in Int /\ b \in Int /\ d \in Int /\ y \in Nat /\ y = v[m] /\ a = b + x * d + Word * k
  <2>1. m \in 0..m /\ m - 1 \in 0..m /\ m - 1 \in 0..(m - 1) /\ m \in 1..m /\ c + MinCopy + 1 = (c + 1) + m
        /\ c + MinCopy + 1 \in 1..Len(t)
    BY <1>00, <1>0
  <2>2. h[m] \in 0..(Word - 1) /\ g[m - 1] \in 0..(Word - 1) /\ p[m - 1] \in Int /\ v[m] = t[(c + 1) + m]
    <3>1. h[m] \in 0..(Word - 1)
      BY <1>8, <2>1, Zenon
    <3>2. g[m - 1] \in 0..(Word - 1)
      BY <1>9, <2>1, Zenon
    <3>3. p[m - 1] \in Int
      BY <1>10, <2>1, Zenon
    <3>4. v[m] = t[(c + 1) + m]
      BY <1>3, <2>1, Zenon
    <3> QED BY <3>1, <3>2, <3>3, <3>4
  <2>3. a \in Int /\ b \in Int /\ d \in Int
    <3>1. \A z \in 0..(Word - 1) : z \in Int
      BY <1>0
    <3>2. h[m] \in Int /\ g[m - 1] \in Int
      BY <2>2, <3>1
    <3> QED BY <1>10, <1>15, <2>2, <3>2
  <2>4. y \in Nat /\ y = v[m]
    BY <1>15, <2>1, <2>2, SMTT(40), ZenonT(40)
  <2>5. a = b + x * d + Word * k
    BY <1>10, <1>14, <1>15, Zenon
  <2> QED BY <2>3, <2>4, <2>5
<1>17. g[m] = (b * HashBase + y) % Word
  <2>1. m \in 1..m
    BY <1>0
  <2> QED BY <1>9, <1>15, <1>16, <2>1
<1>18. (a - x * d) * HashBase + y = (b * HashBase + y) + Word * (k * HashBase)
  BY <1>0, <1>5, <1>16
<1>19. ((a - x * d) * HashBase + y) % Word = (b * HashBase + y) % Word
  <2>1. (a - x * d) * HashBase + y \in Int /\ b * HashBase + y \in Int /\ k * HashBase \in Int
    BY <1>0, <1>5, <1>16
  <2>2. PICK aa, bb, kk : aa = (a - x * d) * HashBase + y /\ bb = b * HashBase + y /\ kk = k * HashBase
    OBVIOUS
  <2>3. aa \in Int /\ bb \in Int /\ kk \in Int /\ aa = bb + Word * kk
    BY <1>18, <2>1, <2>2
  <2>4. aa % Word = bb % Word
    BY <1>0, <2>3, SameRemainder
  <2> QED BY <2>2, <2>4
<1>20. RollHash(BlockHash(u), x, y) = BlockHash(v)
  BY <1>8, <1>9, <1>15, <1>17, <1>19 DEF RollHash
<1> QED BY <1>00, <1>1, <1>4, <1>15, <1>20

-----------------------------------------------------------------------------
(* The block index *)

LEMMA HashType ==
    ASSUME NEW u \in Seq(Nat)
    PROVE  BlockHash(u) \in 0..(Word - 1)
<1>1. PICK h : BlockHash(u) = h[Len(u)] /\ \A n \in 0..(Len(u)) : h[n] \in 0..(Word - 1)
  BY HashSteps
<1>2. Len(u) \in 0..(Len(u))
  OBVIOUS
<1> QED BY <1>1, <1>2

Divides(v) == \E q \in Nat : Word = v * q
Power(v) == v > Word \/ Divides(v)

\* A word is a power of two.
LEMMA Doubling ==
    ASSUME NEW v \in Nat \ {0}, Power(v)
    PROVE  Power(2 * v)
<1> SUFFICES ASSUME 2 * v <= Word PROVE Divides(2 * v)
  BY WordPositive DEF Power
<1>1. PICK q \in Nat : Word = v * q
  BY WordPositive DEF Power, Divides
<1>2. q >= 2
  <2>1. q = 0 => v * q = 0
    OBVIOUS
  <2>2. q = 1 => v * q = v
    OBVIOUS
  <2> QED BY <1>1, <2>1, <2>2, WordPositive
<1>3. q <= Word
  <2>1. v * q >= q
    OBVIOUS
  <2> QED BY <1>1, <2>1
<1>4. Word % q = 0
  <2>1. Word = 0 + q * v /\ q \in Nat \ {0} /\ Word \in Int
    BY <1>1, <1>2, WordPositive
  <2>2. PICK w, z : w = Word /\ z = 0
    OBVIOUS
  <2>3. w \in Int /\ z \in Int /\ v \in Int /\ w = z + q * v
    BY <2>1, <2>2
  <2>4. w % q = z % q
    BY <2>1, <2>3, SameRemainder
  <2>5. z % q = 0
    BY <2>1, <2>2
  <2> QED BY <2>2, <2>4, <2>5
<1>5. q % 2 = 0
  <2>1. q \in 2..Word
    BY <1>2, <1>3, WordPositive
  <2> QED BY <1>4, <2>1, DeltaAssumption DEF Word
<1>6. PICK r : r = q \div 2
  OBVIOUS
<1>7. r \in Nat /\ q = 2 * r
  BY <1>5, <1>6
<1>8. Word = (2 * v) * r
  BY <1>1, <1>7
<1> QED BY <1>7, <1>8 DEF Divides

\* next_power_of_two, a doubling at a time.
LEMMA PowerSteps ==
    ASSUME NEW b \in Nat
    PROVE  \E f : /\ NextPowerOfTwo(b) = f[b] /\ f[0] = 1
                  /\ \A n \in 1..(b) : f[n] = IF f[n - 1] >= b THEN f[n - 1] ELSE 2 * f[n - 1]
                  /\ \A n \in 0..(b) : f[n] \in {v \in 1..(2 * b + 1) : Power(v)}
<1> DEFINE Top == b
           Dom == {v \in 1..(2 * b + 1) : Power(v)}
           G(n, v) == IF v >= b THEN v ELSE 2 * v
           Go(n, v) == IF n < Top THEN G(n + 1, v) ELSE v
           D == [y \in Nat \X Dom |-> Go(y[1], y[2])]
<1>0. Top \in Nat
  OBVIOUS
<1>1. 1 \in Dom
  <2>1. Word = 1 * Word /\ Word \in Nat
    BY WordPositive
  <2>2. Power(1)
    BY <2>1 DEF Power, Divides
  <2> QED BY <2>2
<1>2. ASSUME NEW n \in 1..Top, NEW v \in Dom PROVE G(n, v) \in Dom
  <2>1. v \in Nat \ {0} /\ Power(v)
    OBVIOUS
  <2>2. Power(2 * v)
    BY <2>1, Doubling
  <2> QED BY <2>1, <2>2
<1> HIDE DEF Top, Dom, G
<1>21. ASSUME NEW n \in Nat, NEW v \in Dom PROVE Go(n, v) \in Dom
  <2>1. n < Top => n + 1 \in 1..Top
    BY <1>0
  <2> QED BY <1>2, <2>1
<1> HIDE DEF Go
<1>3. D \in [Nat \X Dom -> Dom] /\ \A n \in Nat, v \in Dom : D[<<n, v>>] = Go(n, v)
  <2>1. ASSUME NEW y \in Nat \X Dom PROVE Go(y[1], y[2]) \in Dom
    BY <1>21
  <2> QED BY <2>1
<1> HIDE DEF D
<1>4. PICK g : g \in [0..Top -> Dom] /\ g = [n \in 0..Top |-> IF n = 0 THEN 1 ELSE D[<<n - 1, g[n - 1]>>]]
  <2>1. PICK g : LooksBack(g, Top, Dom, 1, D)
    BY <1>0, <1>1, <1>3, BoundedRecursion
  <2> QED BY <2>1 DEF LooksBack
<1> DEFINE Row(h, n) == IF n = 0 THEN 1 ELSE G(n, h[n - 1])
<1>5. g = [n \in 0..Top |-> Row(g, n)]
  <2>1. ASSUME NEW n \in 0..Top PROVE (IF n = 0 THEN 1 ELSE D[<<n - 1, g[n - 1]>>]) = Row(g, n)
    <3>1. CASE n = 0
      BY <3>1
    <3>2. CASE n # 0
      <4>1. n - 1 \in Nat /\ n - 1 \in 0..Top /\ n - 1 < Top /\ (n - 1) + 1 = n
        BY <1>0, <3>2
      <4>2. g[n - 1] \in Dom
        BY <1>4, <4>1
      <4> QED BY <1>3, <3>2, <4>1, <4>2 DEF Go
    <3> QED BY <3>1, <3>2
  <2> HIDE DEF Row
  <2> QED BY <1>4, <2>1
<1> DEFINE f[n \in 0..Top] == Row(f, n)
<1>6. f = [n \in 0..Top |-> Row(f, n)]
  <2> HIDE DEF Row
  <2> QED BY <1>5
<1>7. NextPowerOfTwo(b) = f[Top]
  BY DEF NextPowerOfTwo, Top, G
<1> HIDE DEF f
<1>8. f[0] = 1 /\ \A n \in 1..Top : f[n] = G(n, f[n - 1])
  <2>1. 0 \in 0..Top /\ \A n \in 1..Top : n \in 0..Top /\ n # 0
    BY <1>0
  <2>2. \A n \in 0..Top : f[n] = Row(f, n)
    <3> HIDE DEF Row
    <3> QED BY <1>6
  <2> QED BY <2>1, <2>2
<1> HIDE DEF Row
<1>9. \A n \in 1..Top : f[n - 1] \in Dom => f[n] \in Dom
  BY <1>2, <1>8
<1>10. \A n \in 0..Top : f[n] \in Dom
  BY <1>0, <1>1, <1>8, <1>9, BackTyped
<1> QED BY <1>7, <1>8, <1>10 DEF Top, Dom, G

LEMMA HomesFit ==
    ASSUME NEW b, b \in Seq(Nat), Len(b) <= MaxBase
    PROVE  Homes(b) \in Nat \ {0} /\ Homes(b) <= Word /\ Divides(Homes(b))
<1>1. PICK q : q = Len(b) \div MinCopy
  OBVIOUS
<1>2. q \in Nat /\ 2 * q <= Len(b) /\ Len(b) \in Nat
  <2>1. Len(b) \in Nat /\ MinCopy \in Nat \ {0} /\ MinCopy >= 2
    BY DeltaAssumption
  <2>2. q \in Nat /\ Len(b) = MinCopy * q + (Len(b) % MinCopy) /\ Len(b) % MinCopy \in 0..(MinCopy - 1)
    BY <1>1, <2>1, DivNat, Zenon
  <2>3. MinCopy * q >= 2 * q
    BY <2>1, <2>2
  <2>4. PICK r, z : r = Len(b) % MinCopy /\ z = MinCopy * q
    OBVIOUS
  <2> QED BY <2>1, <2>2, <2>3, <2>4
<1>3. PICK p : p = NextPowerOfTwo(4 * q)
  OBVIOUS
<1>4. p \in 1..(8 * q + 1) /\ Power(p)
  <2>1. PICK n : n = 4 * q
    OBVIOUS
  <2>2. n \in Nat /\ 2 * n + 1 = 8 * q + 1 /\ n \in 0..n
    BY <1>2, <2>1
  <2>3. PICK f : NextPowerOfTwo(n) = f[n] /\ \A k \in 0..n : f[k] \in {v \in 1..(2 * n + 1) : Power(v)}
    BY <2>2, PowerSteps
  <2> QED BY <1>3, <2>1, <2>2, <2>3
<1>5. p <= Word
  <2>1. 4 * MaxBase < Word /\ MaxBase \in Nat /\ Word \in Nat \ {0}
    BY DeltaAssumption, WordPositive DEF Word
  <2>2. p <= 8 * q + 1
    BY <1>2, <1>4
  <2>3. 8 * q <= 4 * MaxBase
    BY <1>2, <2>1
  <2> QED BY <1>2, <1>4, <2>1, <2>2, <2>3
<1>6. ProbeWindow \in Nat \ {0} /\ ProbeWindow <= Word /\ Power(ProbeWindow)
  <2>1. ProbeWindow \in {2, 4, 8} /\ ProbeWindow <= Word
    BY DeltaAssumption DEF Word
  <2>2. Word = 1 * Word /\ Word \in Nat
    BY WordPositive
  <2>3. Power(1)
    BY <2>2 DEF Power, Divides
  <2>4. 2 * 1 = 2 /\ 2 * 2 = 4 /\ 2 * 4 = 8
    OBVIOUS
  <2>5. Power(2)
    BY <2>3, <2>4, Doubling
  <2>6. Power(4)
    BY <2>4, <2>5, Doubling
  <2>7. Power(8)
    BY <2>4, <2>6, Doubling
  <2> QED BY <2>1, <2>5, <2>6, <2>7
<1>7. Max({ProbeWindow, p}) \in {ProbeWindow, p}
  <2>1. {ProbeWindow, p} \in SUBSET Nat /\ IsFiniteSet({ProbeWindow, p}) /\ {ProbeWindow, p} # {}
    <3>1. IsFiniteSet({ProbeWindow}) /\ IsFiniteSet({ProbeWindow} \cup {p})
      BY FS_Singleton, FS_AddElement
    <3>2. {ProbeWindow} \cup {p} = {ProbeWindow, p}
      OBVIOUS
    <3>3. p \in Nat
      BY <1>2, <1>4
    <3> QED BY <1>6, <3>1, <3>2, <3>3
  <2> QED BY <2>1, MaxNat
<1>8. Homes(b) = Max({ProbeWindow, p})
  BY <1>1, <1>3 DEF Homes
<1>9. p \in Nat \ {0}
  BY <1>4, <1>2
<1>10. PICK h : h = Homes(b)
  OBVIOUS
<1>11. h \in Nat \ {0} /\ h <= Word /\ Power(h)
  BY <1>4, <1>5, <1>6, <1>7, <1>8, <1>9, <1>10
<1>12. Divides(h)
  BY <1>11, WordPositive DEF Power
<1> QED BY <1>10, <1>11, <1>12

Probed(f, homes) == HomeOf(f, homes)..(HomeOf(f, homes) + ProbeWindow - 1)
LEMMA HomeType ==
    ASSUME NEW f \in Nat, NEW homes \in Nat \ {0}, homes <= Word, Divides(homes)
    PROVE  HomeOf(f, homes) \in Nat /\ HomeOf(f, homes) < homes
<1>1. PICK a, d : a = (f * HashBase) % Word /\ d = Word \div homes
  OBVIOUS
<1>2. a \in Nat /\ a < Word
  <2>1. f * HashBase \in Nat /\ Word \in Nat \ {0}
    BY WordPositive
  <2>2. a \in 0..(Word - 1)
    BY <1>1, <2>1, DivNat, Zenon
  <2> QED BY <2>1, <2>2
<1>3. d \in Nat \ {0} /\ Word = homes * d
  <2>1. PICK q \in Nat : Word = homes * q
    BY DEF Divides
  <2>2. PICK r : r = Word % homes
    OBVIOUS
  <2>3. Word \in Nat \ {0}
    BY WordPositive
  <2>4. d \in Nat /\ Word = homes * d + r /\ r \in 0..(homes - 1)
    BY <1>1, <2>2, <2>3, DivNat, Zenon
  <2>5. homes * q + 0 = homes * d + r /\ 0 \in 0..(homes - 1)
    BY <2>1, <2>4
  <2>6. q = d
    <3>1. PICK z : z = 0
      OBVIOUS
    <3>2. homes * q + z = homes * d + r /\ z \in 0..(homes - 1) /\ q \in Int /\ d \in Int
      BY <2>1, <2>4, <2>5, <3>1
    <3> QED BY <2>4, <3>2, DivisionUnique
  <2>7. homes * 0 = 0
    OBVIOUS
  <2> QED BY <2>1, <2>3, <2>4, <2>6, <2>7
<1>4. PICK h, r : h = a \div d /\ r = a % d
  OBVIOUS
<1>5. h \in Nat /\ r \in 0..(d - 1) /\ a = d * h + r
  BY <1>2, <1>3, <1>4, DivNat, Zenon
<1>6. h < homes
  <2> SUFFICES ASSUME homes <= h PROVE FALSE
    BY <1>5
  <2>1. d * homes <= d * h
    BY <1>3, <1>5
  <2>2. PICK A, B : A = d * homes /\ B = d * h
    OBVIOUS
  <2>3. A \in Nat /\ B \in Nat /\ A = Word /\ r \in Nat
    BY <1>3, <1>5, <2>2
  <2> QED BY <1>2, <1>5, <2>1, <2>2, <2>3
<1> QED BY <1>1, <1>4, <1>5, <1>6 DEF HomeOf

Slot == [tag : Int, next : Nat]
Fingerprint(b, o) == BlockHash(Slice(b, o, o + MinCopy))

\* What slot i says of the base b.
Names(b, i, e, o) ==
    /\ e.next = o + 1 /\ o + MinCopy <= Len(b)
    /\ e.tag = Tag(Fingerprint(b, o)) /\ i \in Probed(Fingerprint(b, o), Homes(b))
Faithful(b, i, e) == e.next # 0 => \E o \in Nat : Names(b, i, e, o)
Places(b) == 0..(Homes(b) + ProbeWindow - 1)
IndexesOf(b) == {x \in [Places(b) -> Slot] : \A i \in Places(b) : Faithful(b, i, x[i])}

LEMMA FingerprintType ==
    ASSUME NEW b, b \in Seq(Nat), NEW o \in Nat, o + MinCopy <= Len(b)
    PROVE  Fingerprint(b, o) \in 0..(Word - 1) /\ Fingerprint(b, o) \in Nat /\ Tag(Fingerprint(b, o)) \in Int
<1>1. PICK j : j = o + MinCopy
  OBVIOUS
<1>2. j \in Nat /\ o <= j /\ j <= Len(b)
  BY <1>1, WordPositive
<1>3. Slice(b, o, j) \in Seq(Nat)
  BY <1>2, SliceFacts
<1>4. Fingerprint(b, o) \in 0..(Word - 1)
  BY <1>1, <1>3, HashType DEF Fingerprint
<1>5. Fingerprint(b, o) \in Nat
  BY <1>4, WordPositive
<1>6. HalfWord \in Nat \ {0}
  BY DeltaAssumption
<1>7. Fingerprint(b, o) \div HalfWord \in Nat
  BY <1>5, <1>6, DivNat, Zenon
<1> QED BY <1>4, <1>5, <1>7 DEF Tag

LEMMA InsertKeeps ==
    ASSUME NEW b, b \in Seq(Nat), Len(b) <= MaxBase, NEW x \in IndexesOf(b), NEW o \in Nat, o + MinCopy <= Len(b),
           NEW f, f = Fingerprint(b, o)
    PROVE  InsertBlock(x, Homes(b), f, o) \in IndexesOf(b)
<1>1. f \in Nat /\ Tag(f) \in Int
  BY FingerprintType
<1>2. Homes(b) \in Nat \ {0} /\ Homes(b) <= Word /\ Divides(Homes(b))
  BY HomesFit
<1>3. HomeOf(f, Homes(b)) \in Nat
  BY <1>1, <1>2, HomeType
<1> DEFINE window == HomeOf(f, Homes(b))..(HomeOf(f, Homes(b)) + ProbeWindow - 1)
           free == {s \in window : x[s] = Free}
           y == [x EXCEPT ![Min(free)] = [tag |-> Tag(f), next |-> o + 1]]
<1>4. InsertBlock(x, Homes(b), f, o) = x \/ (free # {} /\ InsertBlock(x, Homes(b), f, o) = y)
  BY DEF InsertBlock
<1>5. CASE free # {}
  <2>1. window \in SUBSET Nat
    BY <1>3, DeltaAssumption
  <2>2. Min(free) \in free
    <3>1. free \in SUBSET Nat
      BY <2>1
    <3> HIDE DEF free
    <3> QED BY <1>5, <3>1, LeastNat DEF Min
  <2>3. Min(free) \in Probed(f, Homes(b))
    BY <2>2 DEF Probed
  <2>4. PICK m, e : m = Min(free) /\ e = [tag |-> Tag(f), next |-> o + 1]
    OBVIOUS
  <2>5. e \in Slot /\ e.next = o + 1 /\ e.tag = Tag(f)
    BY <1>1, <2>4 DEF Slot
  <2>6. Faithful(b, m, e)
    <3>1. Names(b, m, e, o)
      BY <2>3, <2>4, <2>5 DEF Names
    <3> QED BY <3>1 DEF Faithful
  <2>7. y = [x EXCEPT ![m] = e]
    BY <2>4
  <2> HIDE DEF y
  <2>8. y \in [Places(b) -> Slot]
    BY <2>5, <2>7 DEF IndexesOf
  <2>9. ASSUME NEW i \in Places(b) PROVE Faithful(b, i, y[i])
    <3>1. x[i] = y[i] \/ (i = m /\ y[i] = e)
      BY <2>7, <2>9 DEF IndexesOf
    <3>2. Faithful(b, i, x[i])
      BY <2>9 DEF IndexesOf
    <3> QED BY <2>6, <3>1, <3>2, Zenon
  <2> QED BY <1>4, <2>8, <2>9 DEF IndexesOf
<1> QED BY <1>4, <1>5

\* The index, a block of the base at a time.
LEMMA IndexSteps ==
    ASSUME NEW b, b \in Seq(Nat), Len(b) <= MaxBase
    PROVE  \E f : /\ BlockIndex(b) = f[Len(b) \div MinCopy] /\ f[0] = [s \in 0..(Homes(b) + ProbeWindow - 1) |-> Free]
                  /\ \A n \in 1..(Len(b) \div MinCopy) : f[n] = InsertBlock(f[n - 1], Homes(b), BlockHash(Slice(b, (n - 1) * MinCopy, (n - 1) * MinCopy + MinCopy)), (n - 1) * MinCopy)
                  /\ \A n \in 0..(Len(b) \div MinCopy) : f[n] \in IndexesOf(b)
<1> DEFINE Top == Len(b) \div MinCopy
           Dom == IndexesOf(b)
           G(n, v) == InsertBlock(v, Homes(b), BlockHash(Slice(b, (n - 1) * MinCopy, (n - 1) * MinCopy + MinCopy)), (n - 1) * MinCopy)
           Go(n, v) == IF n < Top THEN G(n + 1, v) ELSE v
           D == [y \in Nat \X Dom |-> Go(y[1], y[2])]
<1>0. Top \in Nat
  <2>1. Len(b) \in Nat /\ MinCopy \in Nat \ {0}
    BY DeltaAssumption
  <2> QED BY <2>1, DivNat, Zenon
<1>1. [s \in 0..(Homes(b) + ProbeWindow - 1) |-> Free] \in Dom
  <2>1. Free \in Slot /\ Free.next = 0
    BY DEF Free, Slot
  <2> QED BY <2>1 DEF IndexesOf, Places, Faithful
<1>2. ASSUME NEW n \in 1..Top, NEW v \in Dom PROVE G(n, v) \in Dom
  <2>1. PICK q, o, r : q = Len(b) \div MinCopy /\ o = (n - 1) * MinCopy /\ r = Len(b) % MinCopy
    OBVIOUS
  <2>2. Len(b) \in Nat /\ MinCopy \in Nat \ {0}
    BY DeltaAssumption
  <2>3. q \in Nat /\ r \in 0..(MinCopy - 1) /\ Len(b) = MinCopy * q + r
    BY <2>1, <2>2, DivNat, Zenon
  <2>4. n \in Nat /\ n >= 1 /\ n <= q
    BY <1>0, <2>1
  <2>5. o \in Nat /\ o + MinCopy = MinCopy * n
    BY <2>1, <2>2, <2>4
  <2>6. MinCopy * n <= MinCopy * q
    BY <2>2, <2>3, <2>4
  <2>7. o + MinCopy <= Len(b)
    <3>1. PICK A, B : A = MinCopy * n /\ B = MinCopy * q
      OBVIOUS
    <3>2. A \in Nat /\ B \in Nat /\ r \in Nat
      BY <2>2, <2>3, <2>4, <3>1
    <3> QED BY <2>2, <2>3, <2>5, <2>6, <3>1, <3>2
  <2>8. InsertBlock(v, Homes(b), Fingerprint(b, o), o) \in IndexesOf(b)
    BY <2>5, <2>7, InsertKeeps
  <2> QED BY <2>1, <2>8 DEF Fingerprint
<1> HIDE DEF Top, Dom, G
<1>21. ASSUME NEW n \in Nat, NEW v \in Dom PROVE Go(n, v) \in Dom
  <2>1. n < Top => n + 1 \in 1..Top
    BY <1>0
  <2> QED BY <1>2, <2>1
<1> HIDE DEF Go
<1>3. D \in [Nat \X Dom -> Dom] /\ \A n \in Nat, v \in Dom : D[<<n, v>>] = Go(n, v)
  <2>1. ASSUME NEW y \in Nat \X Dom PROVE Go(y[1], y[2]) \in Dom
    BY <1>21
  <2> QED BY <2>1
<1> HIDE DEF D
<1>4. PICK g : g \in [0..Top -> Dom] /\ g = [n \in 0..Top |-> IF n = 0 THEN [s \in 0..(Homes(b) + ProbeWindow - 1) |-> Free] ELSE D[<<n - 1, g[n - 1]>>]]
  <2>1. PICK g : LooksBack(g, Top, Dom, [s \in 0..(Homes(b) + ProbeWindow - 1) |-> Free], D)
    BY <1>0, <1>1, <1>3, BoundedRecursion
  <2> QED BY <2>1 DEF LooksBack
<1> DEFINE Row(h, n) == IF n = 0 THEN [s \in 0..(Homes(b) + ProbeWindow - 1) |-> Free] ELSE G(n, h[n - 1])
<1>5. g = [n \in 0..Top |-> Row(g, n)]
  <2>1. ASSUME NEW n \in 0..Top PROVE (IF n = 0 THEN [s \in 0..(Homes(b) + ProbeWindow - 1) |-> Free] ELSE D[<<n - 1, g[n - 1]>>]) = Row(g, n)
    <3>1. CASE n = 0
      BY <3>1
    <3>2. CASE n # 0
      <4>1. n - 1 \in Nat /\ n - 1 \in 0..Top /\ n - 1 < Top /\ (n - 1) + 1 = n
        BY <1>0, <3>2
      <4>2. g[n - 1] \in Dom
        BY <1>4, <4>1
      <4> QED BY <1>3, <3>2, <4>1, <4>2 DEF Go
    <3> QED BY <3>1, <3>2
  <2> HIDE DEF Row
  <2> QED BY <1>4, <2>1
<1> DEFINE f[n \in 0..Top] == Row(f, n)
<1>6. f = [n \in 0..Top |-> Row(f, n)]
  <2> HIDE DEF Row
  <2> QED BY <1>5
<1>7. BlockIndex(b) = f[Top]
  BY DEF BlockIndex, Top, G
<1> HIDE DEF f
<1>8. f[0] = [s \in 0..(Homes(b) + ProbeWindow - 1) |-> Free] /\ \A n \in 1..Top : f[n] = G(n, f[n - 1])
  <2>1. 0 \in 0..Top /\ \A n \in 1..Top : n \in 0..Top /\ n # 0
    BY <1>0
  <2>2. \A n \in 0..Top : f[n] = Row(f, n)
    <3> HIDE DEF Row
    <3> QED BY <1>6
  <2> QED BY <2>1, <2>2
<1> HIDE DEF Row
<1>9. \A n \in 1..Top : f[n - 1] \in Dom => f[n] \in Dom
  BY <1>2, <1>8
<1>10. \A n \in 0..Top : f[n] \in Dom
  BY <1>0, <1>1, <1>8, <1>9, BackTyped, SMTT(40), ZenonT(40)
<1> QED BY <1>7, <1>8, <1>10 DEF Top, Dom, G

LEMMA IndexIsFaithful ==
    ASSUME NEW b, b \in Seq(Nat), Len(b) <= MaxBase
    PROVE  BlockIndex(b) \in IndexesOf(b)
<1>1. PICK q : q = Len(b) \div MinCopy
  OBVIOUS
<1>2. q \in Nat
  <2>1. Len(b) \in Nat /\ MinCopy \in Nat \ {0}
    BY DeltaAssumption
  <2> QED BY <1>1, <2>1, DivNat, Zenon
<1>3. PICK f : BlockIndex(b) = f[q] /\ \A n \in 0..q : f[n] \in IndexesOf(b)
  BY <1>1, IndexSteps
<1>4. q \in 0..q
  BY <1>2
<1> QED BY <1>3, <1>4

LEMMA ProbedPlaces ==
    ASSUME NEW b, b \in Seq(Nat), Len(b) <= MaxBase, NEW f \in Nat
    PROVE  Probed(f, Homes(b)) \subseteq Places(b)
<1>1. PICK n, h : n = Homes(b) /\ h = HomeOf(f, n)
  OBVIOUS
<1>2. n \in Nat \ {0} /\ n <= Word /\ Divides(n)
  BY <1>1, HomesFit
<1>3. h \in Nat /\ h < n
  BY <1>1, <1>2, HomeType
<1>4. ProbeWindow \in Nat
  BY DeltaAssumption
<1>5. h..(h + ProbeWindow - 1) \subseteq 0..(n + ProbeWindow - 1)
  BY <1>2, <1>3, <1>4
<1> QED BY <1>1, <1>5 DEF Probed, Places

-----------------------------------------------------------------------------
(* Matches *)

Agree(b, o, t, c, n) == o + n <= Len(b) /\ c + n <= Len(t) /\ \A i \in 1..n : b[o + i] = t[c + i]

LEMMA PrefixFacts ==
    ASSUME NEW a, NEW b, a \in Seq(Nat), b \in Seq(Nat)
    PROVE  /\ CommonPrefix(a, b) \in Nat /\ Agree(a, 0, b, 0, CommonPrefix(a, b))
           /\ \A n \in Nat : Agree(a, 0, b, 0, n) => n <= CommonPrefix(a, b)
<1> DEFINE R == {n \in 0..Len(a) : n <= Len(b) /\ \A i \in 1..n : a[i] = b[i]}
<1>0. Len(a) \in Nat /\ Len(b) \in Nat
  OBVIOUS
<1>1. R \in SUBSET Nat /\ 0 \in R
  BY <1>0
<1>2. IsFiniteSet(R)
  <2>1. IsFiniteSet(0..Len(a))
    BY <1>0, FS_Interval
  <2>2. R \subseteq 0..Len(a)
    OBVIOUS
  <2> QED BY <2>1, <2>2, FS_Subset
<1>3. CommonPrefix(a, b) = Max(R)
  BY DEF CommonPrefix
<1>4. Max(R) \in R /\ \A y \in R : Max(R) >= y
  <2> HIDE DEF R
  <2> QED BY <1>1, <1>2, MaxNat
<1>5. PICK m : m = Max(R)
  OBVIOUS
<1>6. m \in R /\ \A y \in R : m >= y
  BY <1>4, <1>5
<1>7. m \in Nat /\ 0 + m = m
  BY <1>1, <1>6
<1>8. Agree(a, 0, b, 0, m)
  <2>1. \A i \in 1..m : 0 + i = i
    OBVIOUS
  <2>2. m <= Len(a)
    BY <1>0, <1>6
  <2> QED BY <1>6, <1>7, <2>1, <2>2 DEF Agree
<1>9. ASSUME NEW n \in Nat, Agree(a, 0, b, 0, n) PROVE n <= m
  <2>1. 0 + n = n /\ \A i \in 1..n : 0 + i = i
    OBVIOUS
  <2>2. n \in 0..Len(a) /\ n <= Len(b) /\ \A i \in 1..n : a[i] = b[i]
    BY <1>0, <1>9, <2>1 DEF Agree
  <2>3. n \in R
    BY <2>2
  <2> QED BY <1>6, <2>3
<1> QED BY <1>3, <1>5, <1>7, <1>8, <1>9

LEMMA MatchFacts ==
    ASSUME NEW b, NEW t, b \in Seq(Nat), t \in Seq(Nat), NEW o \in Nat, NEW c \in Nat, o <= Len(b), c <= Len(t),
           NEW m, m = CommonPrefix(Slice(b, o, Len(b)), Slice(t, c, Len(t)))
    PROVE  /\ m \in Nat /\ Agree(b, o, t, c, m)
           /\ \A n \in Nat : Agree(b, o, t, c, n) => n <= m
<1>1. PICK u, v, p, q : u = Slice(b, o, Len(b)) /\ v = Slice(t, c, Len(t)) /\ p = Len(b) /\ q = Len(t)
  OBVIOUS
<1>2. p \in Nat /\ q \in Nat /\ o <= p /\ c <= q /\ p <= Len(b) /\ q <= Len(t) /\ u = Slice(b, o, p) /\ v = Slice(t, c, q)
  BY <1>1
<1>3. u \in Seq(Nat) /\ Len(u) = p - o /\ \A n \in 1..(p - o) : u[n] = b[o + n]
  <2> HIDE <1>1
  <2>1. SliceOf(u, b, o, p)
    BY <1>2, SliceIs
  <2> QED BY <2>1 DEF SliceOf
<1>4. v \in Seq(Nat) /\ Len(v) = q - c /\ \A n \in 1..(q - c) : v[n] = t[c + n]
  <2> HIDE <1>1
  <2>1. SliceOf(v, t, c, q)
    BY <1>2, SliceIs
  <2> QED BY <2>1 DEF SliceOf
<1>5. m \in Nat /\ Agree(u, 0, v, 0, m) /\ \A n \in Nat : Agree(u, 0, v, 0, n) => n <= m
  BY <1>1, <1>3, <1>4, PrefixFacts
<1>6. ASSUME NEW n \in Nat PROVE Agree(u, 0, v, 0, n) <=> Agree(b, o, t, c, n)
  <2>1. 0 + n = n /\ (n <= p - o <=> o + n <= p) /\ (n <= q - c <=> c + n <= q)
    BY <1>2
  <2>2. (n <= Len(u) /\ n <= Len(v)) <=> (o + n <= Len(b) /\ c + n <= Len(t))
    BY <1>1, <1>3, <1>4, <2>1
  <2>3. ASSUME n <= Len(u), n <= Len(v), NEW i \in 1..n PROVE 0 + i = i /\ u[i] = b[o + i] /\ v[i] = t[c + i]
    <3>1. i \in 1..(p - o) /\ i \in 1..(q - c)
      BY <1>2, <1>3, <1>4, <2>3
    <3> QED BY <1>3, <1>4, <3>1
  <2> QED BY <2>1, <2>2, <2>3 DEF Agree
<1> QED BY <1>5, <1>6

-----------------------------------------------------------------------------
(* The scan *)

DeltaInv ==
    /\ base \in Seq(Nat) /\ Len(base) <= MaxBase /\ target \in Seq(Nat) /\ slots = BlockIndex(base)
    /\ DLTypeOK
    /\ primed /\ cursor + MinCopy <= Len(target) => hash = Fingerprint(target, cursor)

LEMMA WindowIsFingerprint ==
    ASSUME DeltaInv, cursor + MinCopy <= Len(target)
    PROVE  WindowHash = Fingerprint(target, cursor) /\ WindowHash \in Nat /\ WindowHash \in 0..(Word - 1)
<1>1. WindowHash = Fingerprint(target, cursor)
  BY DEF DeltaInv, DLTypeOK, WindowHash, Fingerprint
<1>2. cursor \in Nat
  BY DEF DeltaInv, DLTypeOK
<1>3. Fingerprint(target, cursor) \in Nat /\ Fingerprint(target, cursor) \in 0..(Word - 1)
  BY <1>2, FingerprintType DEF DeltaInv
<1> QED BY <1>1, <1>3

Matches(o, len) ==
    /\ o \in Nat /\ len \in Nat /\ o + MinCopy <= Len(base) /\ len >= MinCopy
    /\ Agree(base, o, target, cursor, len)

\* A nominated slot names a block of the base, and the match is one.
LEMMA NominatedMatches ==
    ASSUME DeltaInv, Scanning, NEW s \in Nominated
    PROVE  Matches(slots[s].next - 1, MatchLen(slots[s].next - 1))
<1>1. WindowHash \in Nat
  BY WindowIsFingerprint DEF Scanning
<1>2. s \in Probed(WindowHash, Homes(base)) /\ slots[s].next # 0 /\ MatchLen(slots[s].next - 1) >= MinCopy
  BY DEF Nominated, Probed
<1>3. s \in Places(base)
  BY <1>1, <1>2, ProbedPlaces DEF DeltaInv
<1>4. slots \in IndexesOf(base)
  BY IndexIsFaithful DEF DeltaInv
<1>5. PICK o \in Nat : Names(base, s, slots[s], o)
  BY <1>2, <1>3, <1>4 DEF IndexesOf, Faithful
<1>6. slots[s].next = o + 1 /\ o + MinCopy <= Len(base)
  BY <1>5 DEF Names
<1>7. slots[s].next - 1 = o
  BY <1>6
<1>8. PICK m : m = MatchLen(o)
  OBVIOUS
<1>9. base \in Seq(Nat) /\ target \in Seq(Nat) /\ o <= Len(base) /\ cursor \in Nat /\ cursor <= Len(target)
  BY <1>6, WordPositive DEF DeltaInv, DLTypeOK
<1>10. m \in Nat /\ Agree(base, o, target, cursor, m)
  BY <1>8, <1>9, MatchFacts DEF MatchLen
<1> QED BY <1>2, <1>6, <1>7, <1>8, <1>10 DEF Matches

LEMMA DeltaInit ==
    ASSUME DLInit PROVE DeltaInv
<1>1. ASSUME NEW x, NEW max, max \in Nat, x \in Sequences(max) PROVE x \in Seq(Nat) /\ Len(x) <= max
  <2>1. PICK n \in 0..max : x \in [1..n -> Byte]
    BY <1>1 DEF Sequences
  <2>2. Byte \subseteq Nat /\ n \in Nat /\ n <= max
    BY <1>1, DeltaAssumption
  <2>3. x \in [1..n -> Nat]
    BY <2>1, <2>2
  <2> QED BY <2>2, <2>3, IsSequence
<1>2. MaxBase \in Nat /\ MaxTarget \in Nat
  BY DeltaAssumption
<1>3. base \in Seq(Nat) /\ Len(base) <= MaxBase /\ target \in Seq(Nat)
  BY <1>1, <1>2 DEF DLInit, DLScene
<1>4. slots = BlockIndex(base) /\ primed = FALSE /\ pc = "scan" /\ cursor = 0 /\ insertStart = 0 /\ hash = 0
  BY DEF DLInit, DLStart
<1>5. 0 \in 0..(Word - 1) /\ 0 \in 0..0 /\ 0 \in 0..Len(target)
  BY <1>3, WordPositive
<1>6. DLTypeOK
  BY <1>4, <1>5 DEF DLTypeOK
<1> QED BY <1>3, <1>4, <1>6, Zenon DEF DeltaInv

LEMMA DeltaStep ==
    ASSUME DeltaInv, [DLNext]_dlVars PROVE DeltaInv'
<1>0. UNCHANGED inputs
  BY DEF DLNext, GiveUp, Match, Slide, Finish, dlVars
<1>1. (base \in Seq(Nat) /\ Len(base) <= MaxBase /\ target \in Seq(Nat) /\ slots = BlockIndex(base))'
  BY <1>0 DEF DeltaInv, inputs
<1>2. UNCHANGED <<base, target, slots>> /\ Len(target) \in Nat
  BY <1>0 DEF inputs, DeltaInv
<1>3. CASE UNCHANGED dlVars
  BY <1>3 DEF dlVars, inputs, DeltaInv, DLTypeOK, Fingerprint
<1>4. CASE GiveUp
  <2>1. UNCHANGED <<cursor, insertStart, hash, primed>> /\ pc' = "none"
    BY <1>4 DEF GiveUp
  <2> QED BY <1>1, <1>2, <2>1 DEF DeltaInv, DLTypeOK, Fingerprint
<1>5. CASE Finish
  <2>1. UNCHANGED <<cursor, insertStart, hash, primed>> /\ pc' \in {"some", "none"}
    BY <1>5 DEF Finish
  <2> QED BY <1>1, <1>2, <2>1 DEF DeltaInv, DLTypeOK, Fingerprint
<1>6. CASE Match
  <2>1. PICK s \in Nominated : cursor' = cursor + MatchLen(slots[s].next - 1)
    BY <1>6 DEF Match
  <2>2. Matches(slots[s].next - 1, MatchLen(slots[s].next - 1))
    BY <1>6, <2>1, NominatedMatches DEF Match
  <2>3. PICK m : m = MatchLen(slots[s].next - 1)
    OBVIOUS
  <2>4. m \in Nat /\ cursor + m <= Len(target) /\ cursor' = cursor + m
    BY <2>1, <2>2, <2>3 DEF Matches, Agree
  <2>5. insertStart' = cursor' /\ primed' = FALSE /\ UNCHANGED <<pc, hash>>
    BY <1>6 DEF Match
  <2>6. DLTypeOK'
    <3>1. cursor \in Nat /\ pc \in {"scan", "some", "none"} /\ hash \in 0..(Word - 1)
      BY DEF DeltaInv, DLTypeOK
    <3>2. cursor' \in 0..cursor' /\ cursor' \in 0..Len(target')
      BY <1>2, <2>4, <3>1
    <3> QED BY <2>5, <3>1, <3>2 DEF DLTypeOK, Word
  <2> QED BY <1>1, <2>5, <2>6 DEF DeltaInv
<1>7. CASE Slide
  <2>1. cursor + MinCopy <= Len(target) /\ primed' = TRUE /\ cursor' = cursor + 1 /\ UNCHANGED <<pc, insertStart>>
    BY <1>7 DEF Slide, Scanning
  <2>2. WindowHash = Fingerprint(target, cursor) /\ WindowHash \in 0..(Word - 1)
    BY <2>1, WindowIsFingerprint
  <2>3. cursor \in Nat /\ MinCopy \in Nat /\ MinCopy >= 2 /\ target \in Seq(Nat)
    BY WordPositive DEF DeltaInv, DLTypeOK
  <2>4. CASE cursor + MinCopy < Len(target)
    <3>1. hash' = RollHash(WindowHash, target[cursor + 1], target[cursor + MinCopy + 1])
      BY <1>7, <2>4 DEF Slide
    <3>2. hash' = Fingerprint(target, cursor + 1)
      BY <2>2, <2>3, <2>4, <3>1, RollIsHash DEF Fingerprint
    <3>3. Fingerprint(target, cursor + 1) \in 0..(Word - 1)
      <4>1. cursor + 1 \in Nat /\ (cursor + 1) + MinCopy <= Len(target)
        BY <1>2, <2>3, <2>4
      <4> QED BY <2>3, <4>1, FingerprintType
    <3>4. DLTypeOK'
      BY <1>2, <2>1, <2>3, <3>2, <3>3 DEF DeltaInv, DLTypeOK
    <3>5. hash' = Fingerprint(target', cursor')
      BY <1>2, <2>1, <3>2
    <3> QED BY <1>1, <3>4, <3>5 DEF DeltaInv, Fingerprint
  <2>5. CASE ~(cursor + MinCopy < Len(target))
    <3>1. hash' = WindowHash
      BY <1>7, <2>5 DEF Slide
    <3>2. DLTypeOK'
      BY <1>2, <2>1, <2>2, <2>3, <3>1 DEF DeltaInv, DLTypeOK
    <3>3. ~(cursor' + MinCopy <= Len(target'))
      BY <1>2, <2>1, <2>3, <2>5
    <3> QED BY <1>1, <3>2, <3>3 DEF DeltaInv
  <2> QED BY <2>4, <2>5
<1> QED BY <1>3, <1>4, <1>5, <1>6, <1>7 DEF DLNext

\* The types of the scan, and: while the window is primed and a window is
\* left, the rolled hash is the hash of the bytes at the cursor; every slot
\* of the index names a block of the base, under its tag and within the
\* window of its home.
THEOREM ScanInvariant == DLSpec => []DeltaInv
<1>1. DLInit => DeltaInv
  BY DeltaInit
<1>2. DeltaInv /\ [DLNext]_dlVars => DeltaInv'
  BY DeltaStep
<1> QED BY <1>1, <1>2, PTL DEF DLSpec

\* The scan slides past a position only when no indexed block of the base
\* equals the bytes there.
THEOREM NoBlockIsMissed == DLSpec => NoMissedBlock
<1> DEFINE A == cursor' = cursor + 1 =>
                ~\E s \in DOMAIN slots :
                    /\ slots[s].next # 0
                    /\ Slice(base, slots[s].next - 1, slots[s].next - 1 + MinCopy)
                         = Slice(target, cursor, cursor + MinCopy)
<1>1. ASSUME DeltaInv, DLNext PROVE A
  <2> SUFFICES ASSUME cursor' = cursor + 1, NEW s \in DOMAIN slots, slots[s].next # 0,
                      Slice(base, slots[s].next - 1, slots[s].next - 1 + MinCopy)
                         = Slice(target, cursor, cursor + MinCopy)
               PROVE  FALSE
    OBVIOUS
  <2>1. cursor \in Nat /\ cursor <= Len(target) /\ base \in Seq(Nat) /\ target \in Seq(Nat) /\ Len(base) <= MaxBase
    BY <1>1 DEF DeltaInv, DLTypeOK
  <2>2. ~GiveUp /\ ~Finish
    <3>1. cursor' # cursor
      BY <2>1
    <3> QED BY <3>1 DEF GiveUp, Finish
  <2>3. ~Match
    <3> SUFFICES ASSUME Match PROVE FALSE
      OBVIOUS
    <3>1. PICK x \in Nominated : cursor' = cursor + MatchLen(slots[x].next - 1)
      BY DEF Match
    <3>2. Matches(slots[x].next - 1, MatchLen(slots[x].next - 1))
      BY <1>1, <3>1, NominatedMatches DEF Match
    <3>3. PICK m : m = MatchLen(slots[x].next - 1)
      OBVIOUS
    <3>4. m \in Nat /\ m >= 2 /\ cursor' = cursor + m
      BY <3>1, <3>2, <3>3, WordPositive DEF Matches
    <3> QED BY <2>1, <3>4
  <2>4. Slide
    BY <1>1, <2>2, <2>3 DEF DLNext
  <2>5. Nominated = {} /\ cursor + MinCopy <= Len(target)
    BY <2>4 DEF Slide, Scanning
  <2>6. slots \in IndexesOf(base)
    BY <1>1, IndexIsFaithful DEF DeltaInv
  <2>7. PICK o \in Nat : Names(base, s, slots[s], o)
    BY <2>6 DEF IndexesOf, Faithful
  <2>8. slots[s].next = o + 1 /\ o + MinCopy <= Len(base)
    BY <2>7 DEF Names
  <2>9. slots[s].next - 1 = o
    BY <2>8
  <2>10. Slice(base, o, o + MinCopy) = Slice(target, cursor, cursor + MinCopy)
    BY <2>9
  <2>11. WindowHash = Fingerprint(base, o)
    <3>1. WindowHash = Fingerprint(target, cursor)
      BY <1>1, <2>5, WindowIsFingerprint
    <3> QED BY <2>10, <3>1 DEF Fingerprint
  <2>12. slots[s].tag = Tag(WindowHash) /\ s \in Probed(WindowHash, Homes(base))
    BY <2>7, <2>11 DEF Names
  <2>13. Agree(base, o, target, cursor, MinCopy)
    <3>1. PICK i, j, u : i = o + MinCopy /\ j = cursor + MinCopy /\ u = Slice(base, o, i)
      OBVIOUS
    <3>2. /\ i \in Nat /\ o <= i /\ i <= Len(base) /\ i - o = MinCopy
          /\ j \in Nat /\ cursor <= j /\ j <= Len(target) /\ j - cursor = MinCopy
      BY <2>1, <2>5, <2>8, <3>1, WordPositive
    <3>3. \A n \in 1..(i - o) : Slice(base, o, i)[n] = base[o + n]
      <4>1. SliceOf(Slice(base, o, i), base, o, i)
        BY <2>1, <3>2, SliceIs
      <4> QED BY <4>1 DEF SliceOf
    <3>4. \A n \in 1..(j - cursor) : Slice(target, cursor, j)[n] = target[cursor + n]
      <4>1. SliceOf(Slice(target, cursor, j), target, cursor, j)
        BY <2>1, <3>2, SliceIs
      <4> QED BY <4>1 DEF SliceOf
    <3>5. u = Slice(target, cursor, j)
      BY <2>10, <3>1
    <3>6. \A n \in 1..MinCopy : u[n] = base[o + n] /\ u[n] = target[cursor + n]
      BY <3>1, <3>2, <3>3, <3>4, <3>5
    <3> QED BY <2>5, <2>8, <3>6 DEF Agree
  <2>14. MatchLen(o) >= MinCopy
    <3>1. PICK m : m = MatchLen(o)
      OBVIOUS
    <3>2. o <= Len(base)
      BY <2>1, <2>8, WordPositive
    <3>3. m \in Nat /\ \A n \in Nat : Agree(base, o, target, cursor, n) => n <= m
      BY <2>1, <3>1, <3>2, MatchFacts DEF MatchLen
    <3>4. MinCopy \in Nat /\ MinCopy <= m
      BY <2>13, <3>3, WordPositive
    <3> QED BY <3>1, <3>3, <3>4
  <2>15. s \in Nominated
    BY <2>9, <2>12, <2>14 DEF Nominated, Probed
  <2> QED BY <2>5, <2>15
<1>2. DeltaInv /\ [DLNext]_dlVars => [A]_dlVars
  BY <1>1
<1>3. DLSpec => [][A]_dlVars
  BY <1>2, ScanInvariant, PTL DEF DLSpec
<1> QED BY <1>3 DEF NoMissedBlock

-----------------------------------------------------------------------------
(* The decoder *)

FlagSets == SUBSET (0..6)
Octet == [top : BOOLEAN, value : Nat, flags : FlagSets]
Modes == {"baseSize", "targetSize", "op", "insert", "copy", "bad"}
Decoders == [mode : Modes, scale : Nat, baseSize : Nat, targetSize : Nat, left : Int,
             flags : FlagSets, offset : Nat, len : Nat, result : Seq(Nat)]

LEMMA DecoderFields ==
    ASSUME NEW d \in Decoders
    PROVE  /\ d.mode \in Modes /\ d.scale \in Nat /\ d.baseSize \in Nat /\ d.targetSize \in Nat /\ d.left \in Int
           /\ d.flags \in FlagSets /\ d.offset \in Nat /\ d.len \in Nat /\ d.result \in Seq(Nat)
BY DEF Decoders

LEMMA OctetFields ==
    ASSUME NEW c \in Octet
    PROVE  c.top \in BOOLEAN /\ c.value \in Nat /\ c.flags \in FlagSets
BY DEF Octet

\* A number with one more digit v of weight w.
Moved(o, v, w) == o + v * w

LEMMA MovedType ==
    ASSUME NEW o \in Nat, NEW v \in Nat, NEW w \in Nat
    PROVE  Moved(o, v, w) \in Nat
<1>1. v * w \in Nat
  OBVIOUS
<1> QED BY <1>1 DEF Moved

LEMMA WeightType ==
    /\ ChunkMax \in Nat \ {0} /\ Digit \in Nat /\ Digit >= 2 /\ SizeDigit \in Nat /\ SizeDigit >= 2
    /\ \A k : Weight(k) \in Nat \ {0} /\ OffsetWeight(k) \in Nat /\ LenWeight(k) \in Nat
<1>1. Digit \in Nat /\ Digit >= 2 /\ SizeDigit \in Nat /\ SizeDigit >= 2
  BY DeltaAssumption
<1>2. Digit * Digit \in Nat /\ Digit * Digit > 0
  BY <1>1
<1>3. Digit * Digit * Digit \in Nat /\ Digit * Digit * Digit > 0
  BY <1>1, <1>2
<1>4. ASSUME NEW k PROVE Weight(k) \in Nat \ {0}
  <2>1. Weight(k) \in {1, Digit, Digit * Digit, Digit * Digit * Digit}
    BY DEF Weight
  <2> QED BY <1>1, <1>2, <1>3, <2>1
<1>5. ASSUME NEW k PROVE OffsetWeight(k) \in Nat /\ LenWeight(k) \in Nat
  BY <1>4 DEF OffsetWeight, LenWeight
<1> QED BY <1>1, <1>2, <1>4, <1>5 DEF ChunkMax

LEMMA SettledType ==
    ASSUME NEW b, b \in Seq(Nat), NEW d \in Decoders
    PROVE  Settled(b, d) \in Decoders
<1>1. CASE d.flags # {}
  BY <1>1 DEF Settled
<1>2. CASE d.flags = {}
  <2>1. PICK len, j : len = (IF d.len = 0 THEN ChunkMax ELSE d.len) /\ j = d.offset + len
    OBVIOUS
  <2>2. len \in Nat /\ j \in Nat /\ d.offset \in Nat /\ d.offset <= j
    <3>1. d.len \in Nat /\ d.offset \in Nat /\ ChunkMax \in Nat
      BY DecoderFields, WeightType
    <3>2. len \in Nat
      BY <2>1, <3>1
    <3> QED BY <2>1, <3>1, <3>2
  <2>3. CASE j > Len(b)
    <3>1. Settled(b, d) = [d EXCEPT !.mode = "bad"]
      BY <1>2, <2>1, <2>3 DEF Settled
    <3> QED BY <3>1 DEF Decoders, Modes
  <2>4. CASE ~(j > Len(b))
    <3>1. Settled(b, d) = [d EXCEPT !.mode = "op", !.result = @ \o Slice(b, d.offset, j)]
      BY <1>2, <2>1, <2>4 DEF Settled
    <3>2. PICK o : o = d.offset
      OBVIOUS
    <3>3. Slice(b, o, j) \in Seq(Nat)
      <4>1. o \in Nat /\ j \in Nat /\ o <= j /\ j <= Len(b)
        BY <2>2, <2>4, <3>2
      <4> QED BY <4>1, SliceFacts
    <3>4. PICK x : x = d.result \o Slice(b, d.offset, j)
      OBVIOUS
    <3>5. x \in Seq(Nat)
      <4>1. d.result \in Seq(Nat)
        BY DEF Decoders, Modes
      <4> QED BY <3>2, <3>3, <3>4, <4>1
    <3>6. Settled(b, d) = [d EXCEPT !.mode = "op", !.result = x]
      BY <3>1, <3>4
    <3> QED BY <3>5, <3>6 DEF Decoders, Modes
  <2> QED BY <2>3, <2>4
<1> QED BY <1>1, <1>2

AfterBase(d, c, e) ==
    /\ e.mode = (IF c.top THEN "baseSize" ELSE "targetSize")
    /\ e.scale = (IF c.top THEN Moved(0, d.scale, SizeDigit) ELSE 1)
    /\ e.baseSize = Moved(d.baseSize, c.value, d.scale)
    /\ e.targetSize = d.targetSize /\ e.result = d.result

LEMMA StepBase ==
    ASSUME NEW b, NEW d \in Decoders, NEW c \in Octet, d.mode = "baseSize", NEW e, e = Step(b, d, c)
    PROVE  e \in Decoders /\ AfterBase(d, c, e)
<1>1. e = [AfterSize(d, c, "targetSize") EXCEPT !.baseSize = @ + c.value * d.scale]
  BY DEF Step
<1>2. PICK sc, m, n : /\ sc = (IF c.top THEN Moved(0, d.scale, SizeDigit) ELSE 1)
                      /\ m = (IF c.top THEN d.mode ELSE "targetSize") /\ n = Moved(d.baseSize, c.value, d.scale)
  OBVIOUS
<1>3. sc \in Nat /\ m \in Modes /\ n \in Nat
  <2>1. c.value \in Nat /\ d.scale \in Nat /\ d.baseSize \in Nat /\ d.targetSize \in Nat /\ d.mode \in Modes /\ SizeDigit \in Nat
    BY DecoderFields, OctetFields, WeightType
  <2>2. n \in Nat
    BY <1>2, <2>1, MovedType
  <2>3. Moved(0, d.scale, SizeDigit) \in Nat
    BY <2>1, MovedType
  <2>4. sc \in Nat
    BY <1>2, <2>3
  <2>5. m \in Modes
    BY <1>2, <2>1 DEF Modes
  <2> QED BY <2>2, <2>4, <2>5
<1>4. e = [d EXCEPT !.scale = sc, !.mode = m, !.baseSize = n]
  <2>1. d.scale \in Nat /\ SizeDigit \in Nat
    BY DecoderFields, WeightType
  <2>2. d.scale * SizeDigit = Moved(0, d.scale, SizeDigit)
    <3>1. PICK z, y : z = d.scale /\ y = z * SizeDigit
      OBVIOUS
    <3>2. z \in Nat /\ y \in Int
      BY <2>1, <3>1
    <3>3. 0 + y = y
      BY <3>2
    <3> QED BY <3>1, <3>3 DEF Moved
  <2>3. d.baseSize + c.value * d.scale = Moved(d.baseSize, c.value, d.scale)
    BY DEF Moved
  <2> QED BY <1>1, <1>2, <2>2, <2>3 DEF AfterSize, Decoders, Modes
<1> QED BY <1>2, <1>3, <1>4 DEF Decoders, Modes, AfterBase

AfterTarget(d, c, e) ==
    /\ e.mode = (IF c.top THEN "targetSize" ELSE "op")
    /\ e.scale = (IF c.top THEN Moved(0, d.scale, SizeDigit) ELSE 1)
    /\ e.targetSize = Moved(d.targetSize, c.value, d.scale)
    /\ e.baseSize = d.baseSize /\ e.result = d.result

LEMMA StepTarget ==
    ASSUME NEW b, NEW d \in Decoders, NEW c \in Octet, d.mode = "targetSize", NEW e, e = Step(b, d, c)
    PROVE  e \in Decoders /\ AfterTarget(d, c, e)
<1>1. e = [AfterSize(d, c, "op") EXCEPT !.targetSize = @ + c.value * d.scale]
  BY DEF Step
<1>2. PICK sc, m, n : /\ sc = (IF c.top THEN Moved(0, d.scale, SizeDigit) ELSE 1)
                      /\ m = (IF c.top THEN d.mode ELSE "op") /\ n = Moved(d.targetSize, c.value, d.scale)
  OBVIOUS
<1>3. sc \in Nat /\ m \in Modes /\ n \in Nat
  <2>1. c.value \in Nat /\ d.scale \in Nat /\ d.baseSize \in Nat /\ d.targetSize \in Nat /\ d.mode \in Modes /\ SizeDigit \in Nat
    BY DecoderFields, OctetFields, WeightType
  <2>2. n \in Nat
    BY <1>2, <2>1, MovedType
  <2>3. Moved(0, d.scale, SizeDigit) \in Nat
    BY <2>1, MovedType
  <2>4. sc \in Nat
    BY <1>2, <2>3
  <2>5. m \in Modes
    BY <1>2, <2>1 DEF Modes
  <2> QED BY <2>2, <2>4, <2>5
<1>4. e = [d EXCEPT !.scale = sc, !.mode = m, !.targetSize = n]
  <2>1. d.scale \in Nat /\ SizeDigit \in Nat
    BY DecoderFields, WeightType
  <2>2. d.scale * SizeDigit = Moved(0, d.scale, SizeDigit)
    <3>1. PICK z, y : z = d.scale /\ y = z * SizeDigit
      OBVIOUS
    <3>2. z \in Nat /\ y \in Int
      BY <2>1, <3>1
    <3>3. 0 + y = y
      BY <3>2
    <3> QED BY <3>1, <3>3 DEF Moved
  <2>3. d.targetSize + c.value * d.scale = Moved(d.targetSize, c.value, d.scale)
    BY DEF Moved
  <2> QED BY <1>1, <1>2, <2>2, <2>3 DEF AfterSize, Decoders, Modes
<1> QED BY <1>2, <1>3, <1>4 DEF Decoders, Modes, AfterTarget

LEMMA StepLiteral ==
    ASSUME NEW b, NEW d \in Decoders, NEW c \in Octet, d.mode = "op", ~c.top, NEW e, e = Step(b, d, c)
    PROVE  /\ e \in Decoders
           /\ e.mode = (IF c.value = 0 THEN "bad" ELSE "insert") /\ e.left = c.value
           /\ e.targetSize = d.targetSize /\ e.baseSize = d.baseSize /\ e.result = d.result
<1>1. e = [d EXCEPT !.mode = IF c.value = 0 THEN "bad" ELSE "insert", !.left = c.value]
  BY DEF Step
<1>2. PICK m, v : m = (IF c.value = 0 THEN "bad" ELSE "insert") /\ v = c.value
  OBVIOUS
<1>3. m \in Modes /\ v \in Int /\ e = [d EXCEPT !.mode = m, !.left = v]
  BY <1>1, <1>2, OctetFields DEF Modes
<1>4. e \in Decoders /\ e.mode = m /\ e.left = v /\ e.targetSize = d.targetSize /\ e.baseSize = d.baseSize /\ e.result = d.result
  BY <1>3 DEF Decoders
<1> QED BY <1>2, <1>4

AfterInsert(d, v, e) ==
    /\ e.mode = (IF d.left = 1 THEN "op" ELSE "insert") /\ e.left = d.left - 1
    /\ e.targetSize = d.targetSize /\ e.baseSize = d.baseSize /\ e.result = Append(d.result, v)

LEMMA StepInsert ==
    ASSUME NEW b, NEW d \in Decoders, NEW c \in Octet, d.mode = "insert"
    PROVE  Step(b, d, c) \in Decoders /\ AfterInsert(d, c.value, Step(b, d, c))
<1>0. PICK e : e = Step(b, d, c)
  OBVIOUS
<1>1. e = [d EXCEPT !.mode = IF d.left = 1 THEN "op" ELSE "insert", !.left = d.left - 1,
                    !.result = Append(d.result, c.value)]
  BY <1>0 DEF Step, Decoders, Modes
<1>2. PICK x : x = Append(d.result, c.value)
  OBVIOUS
<1>3. x \in Seq(Nat)
  <2>1. d.result \in Seq(Nat) /\ c.value \in Nat
    BY DecoderFields, OctetFields
  <2> QED BY <1>2, <2>1
<1>4. PICK m, v : m = (IF d.left = 1 THEN "op" ELSE "insert") /\ v = d.left - 1
  OBVIOUS
<1>5. m \in Modes /\ v \in Int
  <2>1. d.left \in Int
    BY DecoderFields
  <2> QED BY <1>4, <2>1 DEF Modes
<1>6. e = [d EXCEPT !.mode = m, !.left = v, !.result = x]
  BY <1>1, <1>2, <1>4
<1>7. e \in Decoders /\ e.result = x /\ e.mode = m /\ e.left = v /\ e.targetSize = d.targetSize /\ e.baseSize = d.baseSize
  BY <1>3, <1>5, <1>6 DEF Decoders
<1> QED BY <1>0, <1>2, <1>4, <1>7 DEF AfterInsert

Copying(d, F, o, n) == [d EXCEPT !.mode = "copy", !.flags = F, !.offset = o, !.len = n]

LEMMA CopyingType ==
    ASSUME NEW d \in Decoders, NEW F \in FlagSets, NEW o \in Nat, NEW n \in Nat
    PROVE  /\ Copying(d, F, o, n) \in Decoders /\ Copying(d, F, o, n).mode = "copy"
           /\ Copying(d, F, o, n).flags = F /\ Copying(d, F, o, n).offset = o /\ Copying(d, F, o, n).len = n
           /\ Copying(d, F, o, n).baseSize = d.baseSize /\ Copying(d, F, o, n).targetSize = d.targetSize
           /\ Copying(d, F, o, n).result = d.result
BY DEF Copying, Decoders, Modes

LEMMA StepCopyStart ==
    ASSUME NEW b, NEW d \in Decoders, NEW c \in Octet, d.mode = "op", c.top
    PROVE  Step(b, d, c) = Settled(b, Copying(d, c.flags, 0, 0))
BY DEF Step, Copying

\* The copy after an operand byte v.
Fed(d, F, o, n, v) ==
    Copying(d, F \ {Min(F)}, Moved(o, v, OffsetWeight(Min(F))), Moved(n, v, LenWeight(Min(F))))

LEMMA StepCopy ==
    ASSUME NEW b, NEW d \in Decoders, NEW c \in Octet, NEW F \in FlagSets, NEW o \in Nat, NEW n \in Nat
    PROVE  Step(b, Copying(d, F, o, n), c) = Settled(b, Fed(d, F, o, n, c.value))
<1>0. PICK k : k = Min(F)
  OBVIOUS
<1>1. PICK x : x = Copying(d, F, o, n)
  OBVIOUS
<1>2. x \in Decoders /\ x.mode = "copy" /\ x.flags = F /\ x.offset = o /\ x.len = n
  BY <1>1, CopyingType
<1>3. Step(b, x, c) = Settled(b, [x EXCEPT !.flags = x.flags \ {k}, !.offset = x.offset + c.value * OffsetWeight(k),
                                    !.len = x.len + c.value * LenWeight(k)])
  BY <1>0, <1>2 DEF Step, Decoders, Modes
<1>4. PICK G, p, m : G = F \ {k} /\ p = Moved(o, c.value, OffsetWeight(k)) /\ m = Moved(n, c.value, LenWeight(k))
  OBVIOUS
<1>5. Step(b, x, c) = Settled(b, [x EXCEPT !.flags = G, !.offset = p, !.len = m])
  BY <1>2, <1>3, <1>4 DEF Moved
<1>6. [x EXCEPT !.flags = G, !.offset = p, !.len = m] = Copying(d, G, p, m)
  BY <1>1 DEF Copying, Decoders, Modes
<1> QED BY <1>0, <1>1, <1>4, <1>5, <1>6 DEF Fed

LEMMA StepType ==
    ASSUME NEW b, b \in Seq(Nat), NEW d \in Decoders, NEW c \in Octet
    PROVE  Step(b, d, c) \in Decoders
<1>1. CASE d.mode = "baseSize"
  BY <1>1, StepBase
<1>2. CASE d.mode = "targetSize"
  BY <1>2, StepTarget
<1>3. CASE d.mode = "op" /\ ~c.top
  BY <1>3, StepLiteral
<1>4. CASE d.mode = "op" /\ c.top
  <2>1. Copying(d, c.flags, 0, 0) \in Decoders
    BY CopyingType DEF Octet
  <2> QED BY <1>4, <2>1, StepCopyStart, SettledType
<1>5. CASE d.mode = "insert"
  BY <1>5, StepInsert
<1>6. CASE d.mode = "copy"
  <2>1. PICK F, o, n : F = d.flags /\ o = d.offset /\ n = d.len
    OBVIOUS
  <2>2. F \in FlagSets /\ o \in Nat /\ n \in Nat
    BY <2>1 DEF Decoders, Modes
  <2>3. d = Copying(d, F, o, n)
    BY <1>6, <2>1 DEF Copying, Decoders, Modes
  <2>4. Step(b, Copying(d, F, o, n), c) = Settled(b, Fed(d, F, o, n, c.value))
    BY <2>2, StepCopy
  <2>5. PICK G, p, m : /\ G = F \ {Min(F)} /\ p = Moved(o, c.value, OffsetWeight(Min(F)))
                       /\ m = Moved(n, c.value, LenWeight(Min(F)))
    OBVIOUS
  <2>6. G \in FlagSets /\ p \in Nat /\ m \in Nat
    <3>1. c.value \in Nat /\ OffsetWeight(Min(F)) \in Nat /\ LenWeight(Min(F)) \in Nat
      BY OctetFields, WeightType
    <3> QED BY <2>2, <2>5, <3>1, MovedType DEF FlagSets
  <2>7. Copying(d, G, p, m) \in Decoders
    BY <2>6, CopyingType
  <2> QED BY <2>3, <2>4, <2>5, <2>7, SettledType DEF Fed
<1>7. CASE d.mode \notin {"baseSize", "targetSize", "op", "insert", "copy"}
  <2>1. Step(b, d, c) = d
    BY <1>7 DEF Step
  <2> QED BY <2>1
<1> QED BY <1>1, <1>2, <1>3, <1>4, <1>5, <1>6, <1>7

\* A run, a byte at a time.
Goes(b, d, s, f) ==
    /\ f[0] = d
    /\ \A n \in 1..Len(s) : f[n] = Step(b, f[n - 1], s[n])
    /\ \A n \in 0..Len(s) : f[n] \in Decoders

LEMMA RunGoes ==
    ASSUME NEW b, b \in Seq(Nat), NEW d \in Decoders, NEW s, s \in Seq(Octet)
    PROVE  \E f : Goes(b, d, s, f) /\ Run(b, d, s) = f[Len(s)]
<1> DEFINE Top == Len(s)
           Dom == Decoders
           G(n, v) == Step(b, v, s[n])
           Go(n, v) == IF n < Top THEN G(n + 1, v) ELSE v
           D == [y \in Nat \X Dom |-> Go(y[1], y[2])]
<1>0. Top \in Nat
  OBVIOUS
<1>1. d \in Dom
  OBVIOUS
<1>2. ASSUME NEW n \in 1..Top, NEW v \in Dom PROVE G(n, v) \in Dom
  <2>1. s[n] \in Octet
    OBVIOUS
  <2> QED BY <2>1, StepType
<1> HIDE DEF Top, Dom, G
<1>21. ASSUME NEW n \in Nat, NEW v \in Dom PROVE Go(n, v) \in Dom
  <2>1. n < Top => n + 1 \in 1..Top
    BY <1>0
  <2> QED BY <1>2, <2>1
<1> HIDE DEF Go
<1>3. D \in [Nat \X Dom -> Dom] /\ \A n \in Nat, v \in Dom : D[<<n, v>>] = Go(n, v)
  <2>1. ASSUME NEW y \in Nat \X Dom PROVE Go(y[1], y[2]) \in Dom
    BY <1>21
  <2> QED BY <2>1
<1> HIDE DEF D
<1>4. PICK g : g \in [0..Top -> Dom] /\ g = [n \in 0..Top |-> IF n = 0 THEN d ELSE D[<<n - 1, g[n - 1]>>]]
  <2>1. PICK g : LooksBack(g, Top, Dom, d, D)
    BY <1>0, <1>1, <1>3, BoundedRecursion
  <2> QED BY <2>1 DEF LooksBack
<1> DEFINE Row(h, n) == IF n = 0 THEN d ELSE G(n, h[n - 1])
<1>5. g = [n \in 0..Top |-> Row(g, n)]
  <2>1. ASSUME NEW n \in 0..Top PROVE (IF n = 0 THEN d ELSE D[<<n - 1, g[n - 1]>>]) = Row(g, n)
    <3>1. CASE n = 0
      BY <3>1
    <3>2. CASE n # 0
      <4>1. n - 1 \in Nat /\ n - 1 \in 0..Top /\ n - 1 < Top /\ (n - 1) + 1 = n
        BY <1>0, <3>2
      <4>2. g[n - 1] \in Dom
        BY <1>4, <4>1
      <4> QED BY <1>3, <3>2, <4>1, <4>2 DEF Go
    <3> QED BY <3>1, <3>2
  <2> HIDE DEF Row
  <2> QED BY <1>4, <2>1
<1> DEFINE f[n \in 0..Top] == Row(f, n)
<1>6. f = [n \in 0..Top |-> Row(f, n)]
  <2> HIDE DEF Row
  <2> QED BY <1>5
<1>7. Run(b, d, s) = f[Top]
  BY DEF Run, Top, G
<1> HIDE DEF f
<1>8. f[0] = d /\ \A n \in 1..Top : f[n] = G(n, f[n - 1])
  <2>1. 0 \in 0..Top /\ \A n \in 1..Top : n \in 0..Top /\ n # 0
    BY <1>0
  <2>2. \A n \in 0..Top : f[n] = Row(f, n)
    <3> HIDE DEF Row
    <3> QED BY <1>6
  <2> QED BY <2>1, <2>2
<1> HIDE DEF Row
<1>9. \A n \in 1..Top : f[n - 1] \in Dom => f[n] \in Dom
  BY <1>2, <1>8
<1>10. \A n \in 0..Top : f[n] \in Dom
  BY <1>0, <1>1, <1>8, <1>9, BackTyped
<1>11. Goes(b, d, s, f)
  BY <1>7, <1>8, <1>10 DEF Top, Dom, G, Goes
<1> QED BY <1>7, <1>11 DEF Top

LEMMA RunUnique ==
    ASSUME NEW b, NEW d, NEW s, s \in Seq(Octet), NEW t, t \in Seq(Octet), Len(s) <= Len(t),
           \A n \in 1..Len(s) : s[n] = t[n],
           NEW f, Goes(b, d, s, f), NEW g, Goes(b, d, t, g)
    PROVE  f[Len(s)] = g[Len(s)]
<1> DEFINE Q(n) == n <= Len(s) => f[n] = g[n]
           U == {n \in Nat : Q(n)}
<1>0. Len(s) \in Nat /\ Len(t) \in Nat
  OBVIOUS
<1>1. Q(0)
  BY DEF Goes
<1>2. ASSUME NEW n \in Nat, Q(n) PROVE Q(n + 1)
  <2> SUFFICES ASSUME n + 1 <= Len(s) PROVE f[n + 1] = g[n + 1]
    OBVIOUS
  <2>1. n + 1 \in 1..Len(s) /\ n + 1 \in 1..Len(t) /\ (n + 1) - 1 = n /\ n <= Len(s)
    BY <1>0
  <2>2. f[n] = g[n] /\ s[n + 1] = t[n + 1]
    BY <1>2, <2>1
  <2>3. f[n + 1] = Step(b, f[n], s[n + 1]) /\ g[n + 1] = Step(b, g[n], t[n + 1])
    BY <2>1 DEF Goes
  <2> QED BY <2>2, <2>3
<1>3. U = Nat
  <2>1. 0 \in U /\ \A n \in U : n + 1 \in U
    <3> HIDE DEF Q
    <3> QED BY <1>1, <1>2
  <2> HIDE DEF U
  <2> QED BY <2>1, Induction DEF U
<1>4. Q(Len(s))
  BY <1>0, <1>3
<1> QED BY <1>0, <1>4

LEMMA RunEmpty ==
    ASSUME NEW b, b \in Seq(Nat), NEW d \in Decoders
    PROVE  Run(b, d, <<>>) = d
<1>1. PICK s : s = <<>>
  OBVIOUS
<1>2. s \in Seq(Octet) /\ Len(s) = 0
  BY <1>1
<1>3. PICK f : Goes(b, d, s, f) /\ Run(b, d, s) = f[Len(s)]
  BY <1>2, RunGoes
<1> QED BY <1>1, <1>2, <1>3 DEF Goes

LEMMA RunAppend ==
    ASSUME NEW b, b \in Seq(Nat), NEW d \in Decoders, NEW s, s \in Seq(Octet), NEW c \in Octet
    PROVE  Run(b, d, Append(s, c)) = Step(b, Run(b, d, s), c)
<1>1. PICK t : t = Append(s, c)
  OBVIOUS
<1>2. /\ t \in Seq(Octet) /\ Len(t) = Len(s) + 1 /\ t[Len(s) + 1] = c /\ Len(s) \in Nat
      /\ \A n \in 1..Len(s) : s[n] = t[n]
  BY <1>1
<1>3. PICK f : Goes(b, d, s, f) /\ Run(b, d, s) = f[Len(s)]
  BY RunGoes
<1>4. PICK g : Goes(b, d, t, g) /\ Run(b, d, t) = g[Len(t)]
  BY <1>2, RunGoes
<1>5. f[Len(s)] = g[Len(s)]
  <2>1. Len(s) <= Len(t)
    BY <1>2
  <2> QED BY <1>2, <1>3, <1>4, <2>1, RunUnique
<1>6. g[Len(s) + 1] = Step(b, g[Len(s)], c)
  <2>1. Len(s) + 1 \in 1..Len(t) /\ (Len(s) + 1) - 1 = Len(s)
    BY <1>2
  <2> QED BY <1>2, <1>4, <2>1 DEF Goes
<1> QED BY <1>1, <1>2, <1>3, <1>4, <1>5, <1>6

LEMMA RunType ==
    ASSUME NEW b, b \in Seq(Nat), NEW d \in Decoders, NEW s, s \in Seq(Octet)
    PROVE  Run(b, d, s) \in Decoders
<1>1. PICK f : Goes(b, d, s, f) /\ Run(b, d, s) = f[Len(s)]
  BY RunGoes
<1>2. Len(s) \in 0..Len(s)
  OBVIOUS
<1> QED BY <1>1, <1>2 DEF Goes

\* A stream in two parts.
LEMMA RunCat ==
    ASSUME NEW b, b \in Seq(Nat), NEW d \in Decoders, NEW s, s \in Seq(Octet), NEW t, t \in Seq(Octet)
    PROVE  Run(b, d, Cat(s, t)) = Run(b, Run(b, d, s), t)
<1> DEFINE Part(n) == SubSeq(t, 1, n)
           Q(n) == n <= Len(t) => Run(b, d, Cat(s, Part(n))) = Run(b, Run(b, d, s), Part(n))
           U == {n \in Nat : Q(n)}
<1>0. Len(t) \in Nat
  OBVIOUS
<1>00. PICK e : e = Run(b, d, s)
  OBVIOUS
<1>01. e \in Decoders
  BY <1>00, RunType
<1>1. Q(0)
  <2>1. Part(0) = <<>>
    OBVIOUS
  <2>2. Cat(s, <<>>) = s
    BY CatEmpty
  <2>3. Run(b, e, <<>>) = e
    BY <1>01, RunEmpty
  <2> QED BY <1>00, <2>1, <2>2, <2>3
<1>2. ASSUME NEW n \in Nat, Q(n) PROVE Q(n + 1)
  <2> SUFFICES ASSUME n + 1 <= Len(t)
               PROVE  Run(b, d, Cat(s, Part(n + 1))) = Run(b, e, Part(n + 1))
    BY <1>00
  <2>1. n < Len(t) /\ n <= Len(t) /\ n + 1 \in 1..Len(t)
    BY <1>0
  <2>2. PICK u, c : u = SubSeq(t, 1, n) /\ c = t[n + 1]
    OBVIOUS
  <2>3. SubSeq(t, 1, n + 1) = Append(u, c)
    BY <2>1, <2>2, SubSeqGrows
  <2>4. c \in Octet
    BY <2>1, <2>2
  <2>5. u \in Seq(Octet)
    <3>1. \A i \in 1..n : t[i] \in Octet
      BY <2>1
    <3> QED BY <2>2, <3>1, SubSeqProperties
  <2>6. Cat(s, Append(u, c)) = Append(Cat(s, u), c)
    BY <2>4, <2>5, ConcatAppend DEF Cat
  <2>7. Cat(s, u) \in Seq(Octet)
    BY <2>5, CatType
  <2>8. Run(b, d, Append(Cat(s, u), c)) = Step(b, Run(b, d, Cat(s, u)), c)
    BY <2>4, <2>7, RunAppend
  <2>9. Run(b, e, Append(u, c)) = Step(b, Run(b, e, u), c)
    BY <1>01, <2>4, <2>5, RunAppend
  <2>10. Run(b, d, Cat(s, u)) = Run(b, e, u)
    BY <1>00, <1>2, <2>1, <2>2
  <2> QED BY <2>3, <2>6, <2>8, <2>9, <2>10, Zenon
<1>3. U = Nat
  <2>1. 0 \in U /\ \A n \in U : n + 1 \in U
    <3> HIDE DEF Q
    <3> QED BY <1>1, <1>2
  <2> HIDE DEF U
  <2> QED BY <2>1, Induction DEF U
<1>4. Q(Len(t))
  BY <1>0, <1>3
<1>5. SubSeq(t, 1, Len(t)) = t
  <2>1. PICK u, n : u = SubSeq(t, 1, n) /\ n = Len(t)
    OBVIOUS
  <2>2. u \in Seq(Octet) /\ Len(u) = n /\ \A i \in 1..n : u[i] = t[i]
    <3>1. \A i \in 1..n : t[i] \in Octet
      BY <2>1
    <3>2. /\ u \in Seq(Octet) /\ Len(u) = IF 1 <= n THEN n - 1 + 1 ELSE 0
          /\ \A i \in 1..(n - 1 + 1) : u[i] = t[1 + i - 1]
      <4>1. n \in Int /\ 1 \in Int
        BY <2>1
      <4> QED BY <2>1, <3>1, <4>1, SubSeqProperties
    <3>3. n - 1 + 1 = n /\ n \in Nat /\ \A i \in 1..n : 1 + i - 1 = i
      BY <2>1
    <3> QED BY <3>2, <3>3
  <2>3. Len(u) = Len(t) /\ \A i \in 1..Len(u) : u[i] = t[i]
    BY <2>1, <2>2
  <2>4. u = t
    <3> HIDE <2>1
    <3> QED BY <2>2, <2>3, SeqEqual
  <2> QED BY <2>1, <2>4
<1>6. Len(t) <= Len(t)
  BY <1>0
<1>7. Run(b, d, Cat(s, Part(Len(t)))) = Run(b, Run(b, d, s), Part(Len(t)))
  BY <1>4, <1>6, Zenon
<1>8. Part(Len(t)) = t
  BY <1>5
<1> HIDE DEF Part
<1> QED BY <1>7, <1>8, Zenon

\* A stream in pieces that takes a state through a sequence of sets.
LEMMA RunFlatten ==
    ASSUME NEW b, b \in Seq(Nat), NEW s, s \in Seq(Seq(Octet)), NEW Q, NEW d \in Decoders, d \in Q[0],
           \A i \in 1..Len(s) : \A e \in Decoders : e \in Q[i - 1] => Run(b, e, s[i]) \in Q[i]
    PROVE  Run(b, d, FlattenSeq(s)) \in Q[Len(s)]
<1>1. PICK f \in [0..Len(s) -> Seq(Octet)] :
              /\ f[0] = <<>> /\ FlattenSeq(s) = f[Len(s)]
              /\ \A i \in 1..Len(s) : f[i] = Cat(f[i - 1], s[i])
  BY FlattenSteps
<1> DEFINE P(n) == n <= Len(s) => Run(b, d, f[n]) \in Q[n]
           U == {n \in Nat : P(n)}
<1>0. Len(s) \in Nat
  OBVIOUS
<1>2. P(0)
  BY <1>1, RunEmpty
<1>3. ASSUME NEW n \in Nat, P(n) PROVE P(n + 1)
  <2> SUFFICES ASSUME n + 1 <= Len(s) PROVE Run(b, d, f[n + 1]) \in Q[n + 1]
    OBVIOUS
  <2>1. n + 1 \in 1..Len(s) /\ (n + 1) - 1 = n /\ n <= Len(s) /\ n \in 0..Len(s)
    BY <1>0
  <2>2. f[n + 1] = Cat(f[n], s[n + 1])
    BY <1>1, <2>1
  <2>3. PICK e : e = Run(b, d, f[n])
    OBVIOUS
  <2>4. f[n] \in Seq(Octet)
    BY <1>1, <2>1
  <2>5. s[n + 1] \in Seq(Octet)
    BY <2>1
  <2>6. e \in Decoders
    BY <2>3, <2>4, RunType
  <2>7. e \in Q[n]
    BY <1>3, <2>1, <2>3
  <2>8. Run(b, e, s[n + 1]) \in Q[n + 1]
    BY <2>1, <2>6, <2>7
  <2>9. Run(b, d, Cat(f[n], s[n + 1])) = Run(b, e, s[n + 1])
    BY <2>3, <2>4, <2>5, RunCat
  <2> QED BY <2>2, <2>8, <2>9
<1>4. U = Nat
  <2>1. 0 \in U /\ \A n \in U : n + 1 \in U
    <3> HIDE DEF P
    <3> QED BY <1>2, <1>3
  <2> HIDE DEF U
  <2> QED BY <2>1, Induction DEF U
<1>5. P(Len(s))
  BY <1>0, <1>4
<1> QED BY <1>0, <1>1, <1>5

-----------------------------------------------------------------------------
(* Inserts *)

Added(t, x) == Append(t, x)

LEMMA CatAppend ==
    ASSUME NEW s, s \in Seq(Nat), NEW t, t \in Seq(Nat), NEW x, x \in Nat
    PROVE  Cat(s, Added(t, x)) = Added(Cat(s, t), x)
<1>1. PICK V : V = Nat
  OBVIOUS
<1>2. s \in Seq(V) /\ t \in Seq(V) /\ x \in V
  BY <1>1
<1> QED BY <1>2, ConcatAppend DEF Cat, Added

LEMMA SliceJoin ==
    ASSUME NEW t, t \in Seq(Nat), NEW a \in Nat, NEW i \in Nat, NEW j \in Nat, a <= i, i <= j, j <= Len(t)
    PROVE  Cat(Slice(t, a, i), Slice(t, i, j)) = Slice(t, a, j)
<1>1. PICK u, v, w : u = Slice(t, a, i) /\ v = Slice(t, i, j) /\ w = Slice(t, a, j)
  OBVIOUS
<1>2. i <= Len(t) /\ a <= j
  OBVIOUS
<1>3. u \in Seq(Nat) /\ Len(u) = i - a /\ \A n \in 1..(i - a) : u[n] = t[a + n]
  <2>1. SliceOf(u, t, a, i)
    BY <1>1, <1>2, SliceIs
  <2> QED BY <2>1 DEF SliceOf
<1>4. v \in Seq(Nat) /\ Len(v) = j - i /\ \A n \in 1..(j - i) : v[n] = t[i + n]
  <2>1. SliceOf(v, t, i, j)
    BY <1>1, SliceIs
  <2> QED BY <2>1 DEF SliceOf
<1>5. w \in Seq(Nat) /\ Len(w) = j - a /\ \A n \in 1..(j - a) : w[n] = t[a + n]
  <2>1. SliceOf(w, t, a, j)
    BY <1>1, <1>2, SliceIs
  <2> QED BY <2>1 DEF SliceOf
<1>6. Len(w) = Len(u) + Len(v)
  BY <1>3, <1>4, <1>5
<1>7. \A n \in 1..Len(u) : w[n] = u[n]
  <2>1. \A n \in 1..(i - a) : n \in 1..(j - a)
    OBVIOUS
  <2> QED BY <1>3, <1>5, <2>1
<1>8. \A n \in 1..Len(v) : w[Len(u) + n] = v[n]
  <2> SUFFICES ASSUME NEW n \in 1..Len(v) PROVE w[(i - a) + n] = v[n]
    BY <1>3
  <2>1. n \in 1..(j - i) /\ (i - a) + n \in 1..(j - a) /\ a + ((i - a) + n) = i + n
    BY <1>4
  <2> QED BY <1>4, <1>5, <2>1
<1>9. w = u \o v
  <2> HIDE <1>1
  <2> QED BY <1>3, <1>4, <1>5, <1>6, <1>7, <1>8, ConcatIs
<1> QED BY <1>1, <1>9 DEF Cat

LEMMA SliceCat ==
    ASSUME NEW t, t \in Seq(Nat), NEW i \in Nat, NEW j \in Nat, i <= j, j <= Len(t)
    PROVE  Cat(Slice(t, 0, i), Slice(t, i, j)) = Slice(t, 0, j)
<1>1. PICK z : z = 0
  OBVIOUS
<1>2. z \in Nat /\ z <= i
  BY <1>1
<1>3. Cat(Slice(t, z, i), Slice(t, i, j)) = Slice(t, z, j)
  BY <1>2, SliceJoin
<1> QED BY <1>1, <1>3

LEMMA SliceEmpty ==
    ASSUME NEW t, t \in Seq(Nat), NEW i \in Nat, i <= Len(t)
    PROVE  Slice(t, i, i) = <<>>
<1>1. PICK u : u = Slice(t, i, i)
  OBVIOUS
<1>2. i <= i /\ i - i = 0
  OBVIOUS
<1>3. u \in Seq(Nat) /\ Len(u) = i - i
  BY <1>1, <1>2, SliceFacts
<1> QED BY <1>1, <1>2, <1>3

LEMMA SliceEnds ==
    ASSUME NEW t, t \in Seq(Nat)
    PROVE  Slice(t, 0, 0) = <<>> /\ Slice(t, 0, Len(t)) = t
<1>1. PICK u, w, z, n : u = Slice(t, z, z) /\ w = Slice(t, z, n) /\ z = 0 /\ n = Len(t)
  OBVIOUS
<1>2. /\ z \in Nat /\ n \in Nat /\ z <= z /\ z <= n /\ n <= Len(t) /\ z <= Len(t) /\ n - z = n /\ z - z = 0
      /\ u = Slice(t, z, z) /\ w = Slice(t, z, n)
  BY <1>1
<1>3. u \in Seq(Nat) /\ Len(u) = z - z
  <2>1. SliceOf(u, t, z, z)
    BY <1>2, SliceIs
  <2> QED BY <2>1 DEF SliceOf
<1>4. w \in Seq(Nat) /\ Len(w) = n - z /\ \A i \in 1..(n - z) : w[i] = t[z + i]
  <2>1. SliceOf(w, t, z, n)
    BY <1>2, SliceIs
  <2> QED BY <2>1 DEF SliceOf
<1>5. u = <<>>
  BY <1>2, <1>3
<1>6. Len(w) = Len(t) /\ \A i \in 1..Len(w) : w[i] = t[i]
  BY <1>1, <1>2, <1>4
<1>7. w = t
  <2> HIDE <1>1
  <2> QED BY <1>4, <1>6, SeqEqual
<1> QED BY <1>1, <1>5, <1>7

Ready(B, T, r) == {d \in Decoders : d.mode = "op" /\ d.baseSize = B /\ d.targetSize = T /\ d.result = r}

LEMMA ByteTypes ==
    ASSUME NEW n \in Nat
    PROVE  /\ InsertByte(n) \in Octet /\ ~InsertByte(n).top /\ InsertByte(n).value = n
           /\ Plain(n) \in Octet /\ Plain(n).value = n
           /\ \A more \in BOOLEAN : /\ SizeByte(more, n) \in Octet /\ SizeByte(more, n).top = more
                                    /\ SizeByte(more, n).value = n
           /\ \A F \in FlagSets : CopyByte(F) \in Octet /\ CopyByte(F).top /\ CopyByte(F).flags = F
<1>1. {} \in FlagSets
  BY DEF FlagSets
<1> QED BY <1>1 DEF InsertByte, Plain, SizeByte, CopyByte, Octet

LEMMA RunOne ==
    ASSUME NEW b, b \in Seq(Nat), NEW d \in Decoders, NEW c \in Octet
    PROVE  Run(b, d, <<c>>) = Step(b, d, c) /\ <<c>> \in Seq(Octet)
<1>1. PICK s : s = <<>>
  OBVIOUS
<1>2. s \in Seq(Octet) /\ Append(s, c) = <<c>>
  BY <1>1
<1>3. Run(b, d, Append(s, c)) = Step(b, Run(b, d, s), c)
  BY <1>2, RunAppend
<1>4. Run(b, d, s) = d
  BY <1>1, RunEmpty
<1> QED BY <1>2, <1>3, <1>4

Inserting(e, B, T, r, left) ==
    /\ e.mode = (IF left = 0 THEN "op" ELSE "insert") /\ e.left = left
    /\ e.baseSize = B /\ e.targetSize = T /\ e.result = r

LEMMA InsertedByte ==
    ASSUME NEW b, NEW d \in Decoders, NEW x \in Nat, NEW B, NEW T, NEW r, r \in Seq(Nat), NEW v, v \in Seq(Nat),
           NEW l \in Int, l # 0, Inserting(d, B, T, Cat(r, v), l)
    PROVE  Inserting(Step(b, d, Plain(x)), B, T, Cat(r, Append(v, x)), l - 1)
<1>1. PICK e, c : e = Step(b, d, c) /\ c = Plain(x)
  OBVIOUS
<1>2. c \in Octet /\ c.value = x
  BY <1>1, ByteTypes
<1>3. d.mode = "insert" /\ d.left = l
  BY DEF Inserting
<1>4. /\ e.mode = (IF d.left = 1 THEN "op" ELSE "insert") /\ e.left = d.left - 1
      /\ e.targetSize = d.targetSize /\ e.baseSize = d.baseSize /\ e.result = Append(d.result, c.value)
  <2>1. c \in Octet /\ d.mode = "insert" /\ e = Step(b, d, c)
    BY <1>1, <1>2, <1>3
  <2>2. AfterInsert(d, c.value, Step(b, d, c))
    BY <2>1, StepInsert
  <2> QED BY <2>1, <2>2 DEF AfterInsert
<1>5. l - 1 = 0 <=> l = 1
  OBVIOUS
<1>6. Cat(r, Added(v, x)) = Added(Cat(r, v), x)
  BY CatAppend
<1>7. Cat(r, Append(v, x)) = Append(Cat(r, v), x)
  BY <1>6, Zenon DEF Added
<1> QED BY <1>1, <1>2, <1>3, <1>4, <1>5, <1>7 DEF Inserting

Plains(chunk) == [i \in DOMAIN chunk |-> Plain(chunk[i])]
LEMMA PlainsType ==
    ASSUME NEW chunk, chunk \in Seq(Nat)
    PROVE  Plains(chunk) \in Seq(Octet) /\ Len(Plains(chunk)) = Len(chunk)
           /\ \A i \in 1..Len(chunk) : Plains(chunk)[i] = Plain(chunk[i])
<1>1. DOMAIN chunk = 1..Len(chunk) /\ Len(chunk) \in Nat
  OBVIOUS
<1>2. \A i \in 1..Len(chunk) : Plain(chunk[i]) \in Octet
  BY ByteTypes
<1>3. Plains(chunk) \in [1..Len(chunk) -> Octet]
  BY <1>1, <1>2 DEF Plains
<1>4. \A i \in 1..Len(chunk) : Plains(chunk)[i] = Plain(chunk[i])
  BY <1>1 DEF Plains
<1> QED BY <1>1, <1>3, <1>4, IsSequence

LEMMA LiteralRuns ==
    ASSUME NEW b, b \in Seq(Nat), NEW B, NEW T, NEW r, r \in Seq(Nat), NEW d \in Ready(B, T, r),
           NEW chunk, chunk \in Seq(Nat), Len(chunk) > 0
    PROVE  Literal(chunk) \in Seq(Octet) /\ Run(b, d, Literal(chunk)) \in Ready(B, T, Cat(r, chunk))
<1>0. d \in Decoders /\ d.mode = "op" /\ d.baseSize = B /\ d.targetSize = T /\ d.result = r
  BY DEF Ready
<1>1. PICK n, c, u : n = Len(chunk) /\ c = InsertByte(n) /\ u = Plains(chunk)
  OBVIOUS
<1>2. n \in Nat /\ n > 0 /\ c \in Octet /\ ~c.top /\ c.value = n
  BY <1>1, ByteTypes
<1>3. u \in Seq(Octet) /\ Len(u) = n /\ \A i \in 1..n : u[i] = Plain(chunk[i])
  BY <1>1, PlainsType
<1>4. <<c>> \in Seq(Octet) /\ Run(b, d, <<c>>) = Step(b, d, c)
  BY <1>0, <1>2, RunOne
<1>5. Literal(chunk) = Cat(<<c>>, u)
  BY <1>1 DEF Literal, Cat, Plains
<1>6. PICK e : e = Step(b, d, c)
  OBVIOUS
<1>7. e \in Decoders /\ Inserting(e, B, T, r, n)
  <2>1. /\ e \in Decoders /\ e.mode = (IF c.value = 0 THEN "bad" ELSE "insert") /\ e.left = c.value
        /\ e.targetSize = d.targetSize /\ e.baseSize = d.baseSize /\ e.result = d.result
    BY <1>0, <1>2, <1>6, StepLiteral
  <2>2. n # 0
    BY <1>2
  <2> QED BY <1>0, <1>2, <2>1, <2>2 DEF Inserting
<1>8. Run(b, d, Literal(chunk)) = Run(b, e, u)
  <2>1. PICK w : w = <<c>>
    OBVIOUS
  <2>2. w \in Seq(Octet) /\ Run(b, d, w) = e /\ Literal(chunk) = Cat(w, u)
    BY <1>4, <1>5, <1>6, <2>1
  <2>3. Run(b, d, Cat(w, u)) = Run(b, Run(b, d, w), u)
    BY <1>0, <1>3, <2>2, RunCat
  <2> QED BY <2>2, <2>3
<1>9. PICK f : Goes(b, e, u, f) /\ Run(b, e, u) = f[Len(u)]
  BY <1>3, <1>7, RunGoes
<1> DEFINE Part(i) == SubSeq(chunk, 1, i)
           Q(i) == i <= n => Inserting(f[i], B, T, Cat(r, Part(i)), n - i)
           U == {i \in Nat : Q(i)}
<1>10. Q(0)
  <2>1. Part(0) = <<>> /\ n - 0 = n
    BY <1>2
  <2>2. Cat(r, <<>>) = r
    BY CatEmpty
  <2> QED BY <1>7, <1>9, <2>1, <2>2 DEF Goes
<1>11. ASSUME NEW i \in Nat, Q(i) PROVE Q(i + 1)
  <2> SUFFICES ASSUME i + 1 <= n PROVE Inserting(f[i + 1], B, T, Cat(r, Part(i + 1)), n - (i + 1))
    OBVIOUS
  <2>1. i < Len(chunk) /\ i <= n /\ i + 1 \in 1..n /\ (i + 1) - 1 = i /\ i \in 0..n /\ n - i # 0 /\ n - i \in Int
    BY <1>1, <1>2
  <2>2. PICK v, x, g, l : v = SubSeq(chunk, 1, i) /\ x = chunk[i + 1] /\ g = f[i] /\ l = n - i
    OBVIOUS
  <2>3. SubSeq(chunk, 1, i + 1) = Append(v, x)
    BY <2>1, <2>2, SubSeqGrows
  <2>4. x \in Nat
    BY <1>1, <2>1, <2>2
  <2>5. v \in Seq(Nat)
    <3>1. \A k \in 1..i : chunk[k] \in Nat
      BY <2>1
    <3> QED BY <2>2, <3>1, SubSeqProperties
  <2>6. g \in Decoders /\ f[i + 1] = Step(b, g, Plain(x))
    <3>1. u[i + 1] = Plain(x)
      BY <1>3, <2>1, <2>2
    <3> QED BY <1>3, <1>9, <2>1, <2>2, <3>1 DEF Goes
  <2>7. Inserting(g, B, T, Cat(r, v), l) /\ l \in Int /\ l # 0
    BY <1>11, <2>1, <2>2
  <2>8. Inserting(f[i + 1], B, T, Cat(r, Append(v, x)), l - 1)
    <3>1. Inserting(Step(b, g, Plain(x)), B, T, Cat(r, Append(v, x)), l - 1)
      BY <2>4, <2>5, <2>6, <2>7, InsertedByte, Zenon
    <3> QED BY <2>6, <3>1
  <2>9. l - 1 = n - (i + 1)
    BY <1>2, <2>2
  <2> QED BY <2>3, <2>8, <2>9, Zenon
<1>12. U = Nat
  <2>1. 0 \in U /\ \A i \in U : i + 1 \in U
    <3> HIDE DEF Q
    <3> QED BY <1>10, <1>11
  <2> HIDE DEF U
  <2> QED BY <2>1, Induction DEF U
<1>13. Inserting(f[n], B, T, Cat(r, Part(n)), n - n)
  <2>1. Q(n)
    <3>1. n \in U
      BY <1>2, <1>12
    <3> QED BY <3>1
  <2>2. n <= n
    BY <1>2
  <2> QED BY <2>1, <2>2, Zenon
<1>14. Part(n) = chunk /\ n - n = 0
  <2>1. SubSeq(chunk, 1, n) = Slice(chunk, 0, n)
    <3>1. 0 + 1 = 1
      OBVIOUS
    <3> QED BY <3>1, Zenon DEF Slice
  <2>2. Slice(chunk, 0, n) = chunk
    BY <1>1, SliceEnds
  <2> QED BY <1>2, <2>1, <2>2
<1> HIDE DEF Part
<1>15. f[n] \in Decoders
  <2>1. n \in 0..Len(u)
    BY <1>2, <1>3
  <2> QED BY <1>9, <2>1 DEF Goes
<1>16. f[n] \in Ready(B, T, Cat(r, chunk))
  BY <1>13, <1>14, <1>15 DEF Ready, Inserting
<1>17. Literal(chunk) \in Seq(Octet)
  BY <1>3, <1>4, <1>5, CatType
<1> QED BY <1>3, <1>8, <1>9, <1>16, <1>17

Cut(k, n, M) == PieceTo(k, n, M)

LEMMA PieceFacts ==
    ASSUME NEW n \in Nat, NEW M \in Nat \ {0}
    PROVE  /\ Pieces(n, M) \in Nat /\ Cut(0, n, M) = 0 /\ Cut(Pieces(n, M), n, M) = n
           /\ \A k \in 1..Pieces(n, M) :
                /\ PieceFrom(k, M) = Cut(k - 1, n, M) /\ Cut(k, n, M) - Cut(k - 1, n, M) <= M
                /\ Cut(k - 1, n, M) < Cut(k, n, M) /\ Cut(k - 1, n, M) \in Nat /\ Cut(k, n, M) \in Nat /\ Cut(k, n, M) <= n
<1>1. PICK K, r, a : K = Pieces(n, M) /\ r = a % M /\ a = n + M - 1
  OBVIOUS
<1>2. a \in Nat /\ M \in Nat \ {0}
  BY <1>1
<1>3. K = a \div M
  BY <1>1 DEF Pieces
<1>4. K \in Nat /\ r \in 0..(M - 1) /\ a = M * K + r
  <2>1. a \div M \in Nat /\ a % M \in 0..(M - 1) /\ a = M * (a \div M) + (a % M)
    BY <1>2, DivNat
  <2>2. r = a % M
    BY <1>1
  <2> QED BY <1>3, <2>1, <2>2
<1>5. PICK z : z = M * K
  OBVIOUS
<1>6. z \in Nat /\ z >= n /\ z < n + M /\ z = K * M
  BY <1>1, <1>4, <1>5
<1>7. Cut(0, n, M) = 0
  BY DEF Cut, PieceTo
<1>8. Cut(K, n, M) = n
  BY <1>6 DEF Cut, PieceTo
<1>9. ASSUME NEW k \in 1..K
      PROVE  /\ PieceFrom(k, M) = Cut(k - 1, n, M) /\ Cut(k, n, M) - Cut(k - 1, n, M) <= M
             /\ Cut(k - 1, n, M) < Cut(k, n, M) /\ Cut(k - 1, n, M) \in Nat /\ Cut(k, n, M) \in Nat /\ Cut(k, n, M) <= n
  <2>1. PICK x, y : x = (k - 1) * M /\ y = k * M
    OBVIOUS
  <2>2. k \in Nat /\ k >= 1 /\ k <= K
    BY <1>4
  <2>3. x \in Nat /\ y \in Nat /\ y = x + M
    BY <2>1, <2>2
  <2>4. y <= z
    <3>1. k * M <= K * M
      BY <1>4, <2>2
    <3> QED BY <1>6, <2>1, <3>1
  <2>5. x < n
    BY <1>6, <2>3, <2>4
  <2>6. Cut(k - 1, n, M) = x /\ PieceFrom(k, M) = x
    BY <2>1, <2>5 DEF Cut, PieceTo, PieceFrom
  <2>7. Cut(k, n, M) = IF y < n THEN y ELSE n
    BY <2>1 DEF Cut, PieceTo
  <2>8. PICK p, q : p = Cut(k - 1, n, M) /\ q = Cut(k, n, M)
    OBVIOUS
  <2>9. q \in Nat /\ q <= n /\ p = x /\ p < q /\ q - p <= M
    BY <2>3, <2>5, <2>6, <2>7, <2>8
  <2> QED BY <2>3, <2>6, <2>8, <2>9
<1> QED BY <1>1, <1>4, <1>7, <1>8, <1>9

LEMMA FlattenType ==
    ASSUME NEW s, s \in Seq(Seq(Octet))
    PROVE  FlattenSeq(s) \in Seq(Octet)
<1>1. PICK x : x = <<>>
  OBVIOUS
<1>2. x \in Seq(Octet)
  BY <1>1
<1> QED BY <1>2, FlattenAppend

\* append_insert: the client appends the bytes.
LEMMA InsertRuns ==
    ASSUME NEW b, b \in Seq(Nat), NEW B, NEW T, NEW r, r \in Seq(Nat), NEW d \in Ready(B, T, r),
           NEW x, x \in Seq(Nat)
    PROVE  AppendInsert(x) \in Seq(Octet) /\ Run(b, d, AppendInsert(x)) \in Ready(B, T, Cat(r, x))
<1>0. PICK n, M, K : n = Len(x) /\ M = InsertMax /\ K = Pieces(n, M)
  OBVIOUS
<1>1. n \in Nat /\ M \in Nat \ {0}
  BY <1>0, DeltaAssumption
<1>2. K \in Nat /\ Cut(0, n, M) = 0 /\ Cut(K, n, M) = n
  BY <1>0, <1>1, PieceFacts
<1>3. ASSUME NEW k \in 1..K
      PROVE  /\ PieceFrom(k, M) = Cut(k - 1, n, M) /\ Cut(k - 1, n, M) < Cut(k, n, M)
             /\ Cut(k - 1, n, M) \in Nat /\ Cut(k, n, M) \in Nat /\ Cut(k, n, M) <= n
  BY <1>0, <1>1, PieceFacts
<1> DEFINE Chunk(k) == Slice(x, Cut(k - 1, n, M), Cut(k, n, M))
           s == [k \in 1..K |-> Literal(Chunk(k))]
           Q == [k \in 0..K |-> Ready(B, T, Cat(r, Slice(x, 0, Cut(k, n, M))))]
<1>4. AppendInsert(x) = FlattenSeq(s)
  <2>1. ASSUME NEW k \in 1..K PROVE Slice(x, PieceFrom(k, M), PieceTo(k, n, M)) = Chunk(k)
    BY <1>3 DEF Cut
  <2>2. [k \in 1..K |-> Literal(Slice(x, PieceFrom(k, M), PieceTo(k, n, M)))] = s
    <3> HIDE DEF Chunk
    <3> QED BY <2>1
  <2> HIDE DEF s
  <2> QED BY <1>0, <2>2, Zenon DEF AppendInsert
<1>5. ASSUME NEW k \in 1..K
      PROVE  /\ Chunk(k) \in Seq(Nat) /\ Len(Chunk(k)) > 0
             /\ Cat(Slice(x, 0, Cut(k - 1, n, M)), Chunk(k)) = Slice(x, 0, Cut(k, n, M))
             /\ Slice(x, 0, Cut(k - 1, n, M)) \in Seq(Nat)
  <2>1. PICK i, j, z : i = Cut(k - 1, n, M) /\ j = Cut(k, n, M) /\ z = 0
    OBVIOUS
  <2>2. i \in Nat /\ j \in Nat /\ i < j /\ i <= j /\ j <= Len(x) /\ i <= Len(x) /\ z \in Nat /\ z <= i
    BY <1>0, <1>3, <2>1
  <2>3. Slice(x, i, j) \in Seq(Nat) /\ Len(Slice(x, i, j)) = j - i
    BY <2>2, SliceFacts
  <2>4. Cat(Slice(x, 0, i), Slice(x, i, j)) = Slice(x, 0, j)
    BY <2>2, SliceCat
  <2>5. Slice(x, z, i) \in Seq(Nat)
    BY <2>2, SliceFacts
  <2>6. j - i > 0
    BY <2>2
  <2> QED BY <2>1, <2>3, <2>4, <2>5, <2>6
<1> HIDE DEF Chunk
<1>6. \A k \in 1..K : \A e \in Decoders : e \in Q[k - 1] => /\ Literal(Chunk(k)) \in Seq(Octet)
                                                           /\ Run(b, e, Literal(Chunk(k))) \in Q[k]
  <2> SUFFICES ASSUME NEW k \in 1..K, NEW e \in Decoders, e \in Q[k - 1]
               PROVE  Literal(Chunk(k)) \in Seq(Octet) /\ Run(b, e, Literal(Chunk(k))) \in Q[k]
    OBVIOUS
  <2>1. k \in 0..K /\ k - 1 \in 0..K
    BY <1>2
  <2>2. PICK u, v : u = Slice(x, 0, Cut(k - 1, n, M)) /\ v = Chunk(k)
    OBVIOUS
  <2>3. u \in Seq(Nat) /\ v \in Seq(Nat) /\ Len(v) > 0 /\ Cat(u, v) = Slice(x, 0, Cut(k, n, M))
    BY <1>5, <2>2
  <2>4. Q[k - 1] = Ready(B, T, Cat(r, u)) /\ Q[k] = Ready(B, T, Cat(r, Cat(u, v)))
    BY <2>1, <2>2, <2>3
  <2>5. Cat(r, u) \in Seq(Nat) /\ Cat(Cat(r, u), v) = Cat(r, Cat(u, v))
    BY <2>3, CatType, CatAssociative
  <2>6. PICK w : w = Cat(r, u)
    OBVIOUS
  <2>7. w \in Seq(Nat) /\ e \in Ready(B, T, w) /\ Cat(w, v) = Cat(r, Cat(u, v))
    BY <2>4, <2>5, <2>6
  <2>8. Literal(v) \in Seq(Octet) /\ Run(b, e, Literal(v)) \in Ready(B, T, Cat(w, v))
    BY <2>3, <2>7, LiteralRuns
  <2> QED BY <2>2, <2>4, <2>7, <2>8
<1>7. d \in Decoders /\ d \in Q[0]
  <2>1. 0 \in 0..K
    BY <1>2
  <2>2. Cat(r, Slice(x, 0, Cut(0, n, M))) = r
    BY <1>2, SliceEnds, CatEmpty
  <2> QED BY <2>1, <2>2 DEF Ready
<1>8. ASSUME NEW k \in 1..K PROVE Literal(Chunk(k)) \in Seq(Octet)
  <2>1. PICK v : v = Chunk(k)
    OBVIOUS
  <2>2. v \in Seq(Nat) /\ Len(v) > 0
    BY <1>5, <2>1
  <2>3. Literal(v) \in Seq(Octet)
    BY <2>2, LiteralRuns
  <2> QED BY <2>1, <2>3
<1>9. s \in Seq(Seq(Octet)) /\ Len(s) = K /\ \A k \in 1..K : s[k] = Literal(Chunk(k))
  <2>1. s \in [1..K -> Seq(Octet)]
    BY <1>8
  <2>2. \A k \in 1..K : s[k] = Literal(Chunk(k))
    OBVIOUS
  <2> HIDE DEF s
  <2> QED BY <1>2, <2>1, <2>2, IsSequence
<1> HIDE DEF s
<1>10. Q[K] = Ready(B, T, Cat(r, x))
  <2>1. K \in 0..K
    BY <1>2
  <2>2. Slice(x, 0, Cut(K, n, M)) = x
    BY <1>0, <1>2, SliceEnds
  <2> QED BY <2>1, <2>2
<1> HIDE DEF Q
<1>11. Run(b, d, FlattenSeq(s)) \in Q[K]
  <2>1. \A i \in 1..Len(s) : \A e \in Decoders : e \in Q[i - 1] => Run(b, e, s[i]) \in Q[i]
    BY <1>6, <1>9
  <2>2. Run(b, d, FlattenSeq(s)) \in Q[Len(s)]
    BY <1>7, <1>9, <2>1, RunFlatten
  <2> QED BY <1>9, <2>2
<1>12. FlattenSeq(s) \in Seq(Octet)
  BY <1>9, FlattenType
<1> QED BY <1>4, <1>10, <1>11, <1>12

-----------------------------------------------------------------------------
(* Copies *)

Divided(a, w, q, r) == q \in Int /\ r \in 0..(w - 1) /\ a = w * q + r
LEMMA DividedUnique ==
    ASSUME NEW a, NEW w, w \in Nat \ {0}, NEW q, NEW p, NEW r, NEW s, Divided(a, w, q, r), Divided(a, w, p, s)
    PROVE  q = p /\ r = s
<1>1. q \in Int /\ p \in Int /\ r \in 0..(w - 1) /\ s \in 0..(w - 1) /\ w * q + r = w * p + s
  BY DEF Divided
<1> QED BY <1>1, DivisionUnique

Times(w, v) == w * v

\* The remainder by one more digit.
LEMMA RemainderGrows ==
    ASSUME NEW a \in Nat, NEW w \in Nat \ {0}, NEW D \in Nat \ {0}
    PROVE  a % Times(w, D) = Moved(a % w, (a \div w) % D, w) /\ (a \div w) % D \in Nat /\ a % w \in Nat
<1>0. PICK x : x = w * D
  OBVIOUS
<1>1. PICK q, r, p, e, s, t :
         q = a \div w /\ r = a % w /\ p = q \div D /\ e = q % D /\ s = a \div x /\ t = a % x
  OBVIOUS
<1>2. x \in Nat \ {0}
  <2>1. w * D > 0 /\ w * D \in Nat
    OBVIOUS
  <2> QED BY <1>0, <2>1
<1>3. q \in Nat /\ r \in 0..(w - 1) /\ a = w * q + r
  BY <1>1, DivNat, Zenon
<1>4. p \in Nat /\ e \in 0..(D - 1) /\ q = D * p + e
  BY <1>1, <1>3, DivNat, ZenonT(40)
<1>5. s \in Nat /\ t \in 0..(x - 1) /\ a = x * s + t
  BY <1>1, <1>2, DivNat, Zenon
<1>6. PICK y, v : y = w * e /\ v = y + r
  OBVIOUS
<1>7. y \in Nat /\ r \in Nat /\ v \in Nat
  BY <1>3, <1>4, <1>6
<1>8. v < x
  <2>1. w * e <= w * (D - 1)
    BY <1>4
  <2>2. w * (D - 1) = x - w
    BY <1>0
  <2> QED BY <1>2, <1>3, <1>6, <1>7, <2>1, <2>2
<1>9. a = x * p + v
  <2>1. w * (D * p + e) = (w * D) * p + w * e
    BY <1>4
  <2>2. w * q = x * p + y
    BY <1>0, <1>4, <1>6, <2>1
  <2>3. PICK A, C : A = w * q /\ C = x * p
    OBVIOUS
  <2>4. A \in Int /\ C \in Int
    BY <1>2, <1>3, <1>4, <2>3
  <2>5. a = A + r /\ A = C + y /\ v = y + r
    BY <1>3, <1>6, <2>2, <2>3
  <2>6. a = C + v
    BY <1>7, <2>4, <2>5
  <2> QED BY <2>3, <2>6
<1>10. t = v
  <2>1. v \in 0..(x - 1) /\ s \in Int /\ p \in Int
    BY <1>2, <1>4, <1>5, <1>7, <1>8
  <2>2. Divided(a, x, s, t) /\ Divided(a, x, p, v)
    BY <1>5, <1>9, <2>1 DEF Divided
  <2> QED BY <1>2, <2>2, DividedUnique
<1>11. v = Moved(r, e, w)
  <2>1. w * e = e * w
    BY <1>4
  <2> QED BY <1>6, <1>7, <2>1 DEF Moved
<1>12. e \in Nat
  BY <1>4
<1> QED BY <1>0, <1>1, <1>7, <1>10, <1>11, <1>12 DEF Times

LEMMA Weights ==
    /\ Weight(0) = 1 /\ Weight(1) = Weight(0) * Digit /\ Weight(2) = Weight(1) * Digit /\ Weight(3) = Weight(2) * Digit
    /\ Weight(2) = ChunkMax /\ ChunkMax <= Weight(3) /\ MaxBase < Weight(3) * Digit
    /\ \A k \in 0..3 : Weight(k) \in Nat \ {0}
<1>1. Weight(0) = 1 /\ Weight(1) = Digit /\ Weight(2) = Digit * Digit /\ Weight(3) = Digit * Digit * Digit
  BY DEF Weight
<1>2. Digit \in Nat /\ Digit >= 2 /\ MaxBase < Digit * Digit * Digit * Digit
  BY DeltaAssumption
<1>3. Digit * Digit \in Nat /\ 1 * Digit = Digit
  BY <1>2
<1>4. Digit * Digit <= Digit * Digit * Digit
  BY <1>2, <1>3
<1>5. \A k \in 0..3 : Weight(k) \in Nat \ {0}
  BY WeightType
<1> QED BY <1>1, <1>2, <1>3, <1>4, <1>5 DEF ChunkMax

\* The operands a client has after the flags below k.
PartOffset(o, k) == IF k >= 4 THEN o ELSE o % Weight(k)
PartLen(n, k) == IF k <= 4 \/ n = ChunkMax THEN 0 ELSE n % Weight(k - 4)

LEMMA PartsType ==
    ASSUME NEW o \in Nat, NEW n \in Nat, NEW k \in 0..7
    PROVE  PartOffset(o, k) \in Nat /\ PartLen(n, k) \in Nat
<1>1. Weight(k) \in Nat \ {0} /\ Weight(k - 4) \in Nat \ {0}
  BY WeightType
<1>2. o % Weight(k) \in 0..(Weight(k) - 1)
  BY <1>1, DivNat, Zenon
<1>3. n % Weight(k - 4) \in 0..(Weight(k - 4) - 1)
  BY <1>1, DivNat, Zenon
<1>4. o % Weight(k) \in Nat /\ n % Weight(k - 4) \in Nat
  BY <1>1, <1>2, <1>3
<1> QED BY <1>4 DEF PartOffset, PartLen

LEMMA SmallRemainder ==
    ASSUME NEW a \in Nat, NEW w \in Nat \ {0}, a < w
    PROVE  a % w = a
<1>1. PICK q, r, z : q = a \div w /\ r = a % w /\ z = 0
  OBVIOUS
<1>2. q \in Nat /\ r \in 0..(w - 1) /\ a = w * q + r
  BY <1>1, DivNat, Zenon
<1>3. a \in 0..(w - 1) /\ w * z + a = w * q + r /\ z \in Int /\ q \in Int
  BY <1>1, <1>2
<1>4. r = a
  BY <1>2, <1>3, DivisionUnique
<1> QED BY <1>1, <1>4

LEMMA MovedByZero ==
    ASSUME NEW o \in Nat, NEW v \in Nat
    PROVE  Moved(o, v, 0) = o /\ Moved(o, 0, v) = o
<1>1. v * 0 = 0 /\ 0 * v = 0 /\ o + 0 = o
  OBVIOUS
<1> QED BY <1>1 DEF Moved

Fits(o, n) == o \in Nat /\ n \in Nat /\ o <= MaxBase /\ n >= 1 /\ n <= ChunkMax

LEMMA OffsetMoves ==
    ASSUME NEW o, NEW n, Fits(o, n), NEW k \in 0..6
    PROVE  /\ CopyDigit(o, n, k) \in Nat
           /\ Moved(PartOffset(o, k), CopyDigit(o, n, k), OffsetWeight(k)) = PartOffset(o, k + 1)
<1>0. o \in Nat /\ n \in Nat /\ Digit \in Nat \ {0} /\ MaxBase \in Nat
  BY DeltaAssumption DEF Fits
<1>1. CASE k \in 4..6
  <2>1. ~(k < 4) /\ k >= 4 /\ k + 1 >= 4
    BY <1>1
  <2>2. CopyDigit(o, n, k) \in Nat
    <3>1. PICK w, q : w = Weight(k - 4) /\ q = n \div w
      OBVIOUS
    <3>2. w \in Nat \ {0}
      BY <3>1, WeightType
    <3>3. q \in Nat
      BY <1>0, <3>1, <3>2, DivNat, Zenon
    <3>4. q % Digit \in 0..(Digit - 1)
      BY <1>0, <3>3, DivNat, Zenon
    <3>5. q % Digit \in Nat
      BY <1>0, <3>4
    <3> QED BY <2>1, <3>1, <3>5 DEF CopyDigit, DigitOf
  <2>3. OffsetWeight(k) = 0 /\ PartOffset(o, k) = o /\ PartOffset(o, k + 1) = o
    BY <2>1 DEF OffsetWeight, PartOffset
  <2> QED BY <1>0, <2>2, <2>3, MovedByZero
<1>2. CASE k \in 0..3
  <2>1. k < 4 /\ ~(k >= 4)
    BY <1>2
  <2>2. PICK w, x : w = Weight(k) /\ x = Times(w, Digit)
    OBVIOUS
  <2>3. w \in Nat \ {0}
    BY <2>2, WeightType
  <2>4. o % x = Moved(o % w, (o \div w) % Digit, w) /\ (o \div w) % Digit \in Nat
    BY <1>0, <2>2, <2>3, RemainderGrows
  <2>5. CopyDigit(o, n, k) = (o \div w) % Digit /\ PartOffset(o, k) = o % w /\ OffsetWeight(k) = w
    BY <2>1, <2>2 DEF CopyDigit, DigitOf, PartOffset, OffsetWeight
  <2>6. PartOffset(o, k + 1) = o % x
    <3>1. CASE k = 3
      <4>1. o < x /\ x \in Nat \ {0}
        <5>1. MaxBase < x
          BY <2>2, <3>1, Weights DEF Times
        <5>2. x \in Nat
          BY <1>0, <2>2, <2>3 DEF Times
        <5> QED BY <1>0, <5>1, <5>2 DEF Fits
      <4>2. o % x = o
        BY <1>0, <4>1, SmallRemainder
      <4>3. PartOffset(o, k + 1) = o
        BY <3>1 DEF PartOffset
      <4> QED BY <4>2, <4>3
    <3>2. CASE k # 3
      <4>1. ~(k + 1 >= 4) /\ k \in {0, 1, 2}
        BY <1>2, <3>2
      <4>2. Weight(k + 1) = x
        BY <2>2, <4>1, Weights DEF Times
      <4> QED BY <4>1, <4>2 DEF PartOffset
    <3> QED BY <3>1, <3>2
  <2> QED BY <2>4, <2>5, <2>6
<1> QED BY <1>1, <1>2

LEMMA LenMoves ==
    ASSUME NEW o, NEW n, Fits(o, n), NEW k \in 0..6
    PROVE  Moved(PartLen(n, k), CopyDigit(o, n, k), LenWeight(k)) = PartLen(n, k + 1)
<1>0. o \in Nat /\ n \in Nat /\ Digit \in Nat \ {0} /\ k \in 0..7 /\ k + 1 \in 0..7
  BY DeltaAssumption DEF Fits
<1>00. CopyDigit(o, n, k) \in Nat /\ PartLen(n, k) \in Nat
  BY <1>0, OffsetMoves, PartsType
<1>1. CASE k \in 0..3
  <2>1. LenWeight(k) = 0 /\ PartLen(n, k) = 0 /\ PartLen(n, k + 1) = 0
    BY <1>1 DEF LenWeight, PartLen
  <2> QED BY <1>00, <2>1, MovedByZero
<1>2. CASE k \in 4..6 /\ n = ChunkMax
  <2>1. CopyDigit(o, n, k) = 0 /\ PartLen(n, k) = 0 /\ PartLen(n, k + 1) = 0
    BY <1>2 DEF CopyDigit, PartLen
  <2>2. LenWeight(k) \in Nat
    BY WeightType
  <2> QED BY <1>00, <2>1, <2>2, MovedByZero
<1>3. CASE k \in 4..6 /\ n # ChunkMax
  <2>1. ~(k < 4) /\ ~(k + 1 <= 4) /\ (k + 1) - 4 = (k - 4) + 1 /\ k - 4 \in {0, 1, 2}
    BY <1>3
  <2>2. PICK w, x, j : j = k - 4 /\ w = Weight(j) /\ x = Times(w, Digit)
    OBVIOUS
  <2>3. w \in Nat \ {0}
    BY <2>2, WeightType
  <2>4. n % x = Moved(n % w, (n \div w) % Digit, w)
    BY <1>0, <2>2, <2>3, RemainderGrows
  <2>5. CopyDigit(o, n, k) = (n \div w) % Digit /\ LenWeight(k) = w
    BY <1>3, <2>1, <2>2 DEF CopyDigit, DigitOf, LenWeight
  <2>6. PartLen(n, k) = n % w
    <3>1. CASE k = 4
      <4>1. w = 1
        BY <2>2, <3>1, Weights
      <4>2. n % w = 0
        <5>1. n % w \in 0..(w - 1)
          BY <1>0, <2>3, DivNat, Zenon
        <5> QED BY <4>1, <5>1
      <4>3. PartLen(n, k) = 0
        BY <3>1 DEF PartLen
      <4> QED BY <4>2, <4>3
    <3>2. CASE k # 4
      <4>1. ~(k <= 4)
        BY <1>3, <3>2
      <4> QED BY <1>3, <2>2, <4>1 DEF PartLen
    <3> QED BY <3>1, <3>2
  <2>7. PartLen(n, k + 1) = n % x
    <3>1. Weight((k + 1) - 4) = x
      <4>1. j \in {0, 1, 2} /\ (k + 1) - 4 = j + 1
        BY <2>1, <2>2
      <4>2. Weight(j + 1) = x
        BY <2>2, <4>1, Weights DEF Times
      <4> QED BY <4>1, <4>2
    <3> QED BY <1>3, <2>1, <3>1 DEF PartLen
  <2> QED BY <2>4, <2>5, <2>6, <2>7
<1> QED BY <1>1, <1>2, <1>3

Later(F, k) == F \cap (k..6)
CopyState(d, F, o, n, k) == Copying(d, Later(F, k), PartOffset(o, k), PartLen(n, k))

LEMMA LaterFacts ==
    ASSUME NEW F, F \in FlagSets, NEW k \in 0..6
    PROVE  /\ Later(F, k) \in FlagSets
           /\ k \in F => Later(F, k) # {} /\ Min(Later(F, k)) = k /\ Later(F, k) \ {k} = Later(F, k + 1)
           /\ k \notin F => Later(F, k) = Later(F, k + 1)
<1>1. Later(F, k) \in FlagSets
  BY DEF Later, FlagSets
<1>2. ASSUME k \in F PROVE Later(F, k) # {} /\ Min(Later(F, k)) = k /\ Later(F, k) \ {k} = Later(F, k + 1)
  <2>1. k \in Later(F, k) /\ \A j \in Later(F, k) : j \in Int /\ k <= j
    BY <1>2 DEF Later, FlagSets
  <2>2. PICK G : G = Later(F, k)
    OBVIOUS
  <2>3. k \in G /\ \A j \in G : j \in Int /\ k <= j
    BY <2>1, <2>2
  <2>4. Min(G) = k
    <3>1. ASSUME NEW x \in G, \A y \in G : x <= y PROVE x = k
      BY <2>3, <3>1
    <3> QED BY <2>3, <3>1 DEF Min
  <2>5. Later(F, k) \ {k} = Later(F, k + 1)
    BY DEF Later, FlagSets
  <2> QED BY <2>1, <2>2, <2>4, <2>5
<1>3. ASSUME k \notin F PROVE Later(F, k) = Later(F, k + 1)
  BY <1>3 DEF Later, FlagSets
<1> QED BY <1>1, <1>2, <1>3

Operand(o, n, k) == IF CopyDigit(o, n, k) = 0 THEN <<>> ELSE <<Plain(CopyDigit(o, n, k))>>

\* An operand byte.
LEMMA CopyOperand ==
    ASSUME NEW b, b \in Seq(Nat), NEW d \in Decoders, NEW o, NEW n, Fits(o, n), NEW k \in 0..6,
           NEW F, F \in FlagSets, k \in F <=> CopyDigit(o, n, k) # 0
    PROVE  Run(b, Settled(b, CopyState(d, F, o, n, k)), Operand(o, n, k)) = Settled(b, CopyState(d, F, o, n, k + 1))
<1>0. F \in FlagSets /\ o \in Nat /\ n \in Nat /\ k \in 0..7
  BY DEF Fits
<1>1. PICK G, x, y, v, c : /\ G = Later(F, k) /\ x = PartOffset(o, k) /\ y = PartLen(n, k)
                           /\ v = CopyDigit(o, n, k) /\ c = Plain(v)
  OBVIOUS
<1>2. G \in FlagSets /\ x \in Nat /\ y \in Nat /\ v \in Nat
  BY <1>0, <1>1, LaterFacts, PartsType, OffsetMoves
<1>3. Moved(x, v, OffsetWeight(k)) = PartOffset(o, k + 1) /\ Moved(y, v, LenWeight(k)) = PartLen(n, k + 1)
  BY <1>1, OffsetMoves, LenMoves
<1>4. c \in Octet /\ c.value = v
  BY <1>1, <1>2, ByteTypes
<1>5. PICK e : e = Copying(d, G, x, y)
  OBVIOUS
<1>6. e \in Decoders /\ e.flags = G /\ e = CopyState(d, F, o, n, k)
  <2>1. Copying(d, G, x, y) \in Decoders /\ Copying(d, G, x, y).flags = G
    BY <1>2 DEF Copying, Decoders, Modes
  <2> QED BY <1>1, <1>5, <2>1 DEF CopyState
<1>7. CASE v = 0
  <2>1. k \notin F
    BY <1>1, <1>7
  <2>2. G = Later(F, k + 1)
    BY <1>0, <1>1, <2>1, LaterFacts
  <2>3. OffsetWeight(k) \in Nat /\ LenWeight(k) \in Nat
    BY WeightType
  <2>4. x = PartOffset(o, k + 1) /\ y = PartLen(n, k + 1)
    BY <1>2, <1>3, <1>7, <2>3, MovedByZero
  <2>5. e = CopyState(d, F, o, n, k + 1)
    BY <1>5, <2>2, <2>4 DEF CopyState
  <2>6. Settled(b, e) \in Decoders
    BY <1>6, SettledType
  <2>7. Run(b, Settled(b, e), <<>>) = Settled(b, e)
    BY <2>6, RunEmpty
  <2> QED BY <1>1, <1>6, <1>7, <2>5, <2>7 DEF Operand
<1>8. CASE v # 0
  <2>1. k \in F
    BY <1>1, <1>8
  <2>2. G # {} /\ Min(G) = k /\ G \ {k} = Later(F, k + 1)
    BY <1>0, <1>1, <2>1, LaterFacts
  <2>3. Settled(b, e) = e
    BY <1>6, <2>2 DEF Settled
  <2>4. Run(b, e, <<c>>) = Step(b, e, c)
    BY <1>4, <1>6, RunOne
  <2>5. Step(b, e, c) = Settled(b, Fed(d, G, x, y, c.value))
    BY <1>2, <1>4, <1>5, StepCopy
  <2>6. Fed(d, G, x, y, v) = CopyState(d, F, o, n, k + 1)
    BY <1>3, <2>2 DEF Fed, CopyState
  <2>7. Operand(o, n, k) = <<c>>
    BY <1>1, <1>8 DEF Operand
  <2>8. Run(b, e, <<c>>) = Settled(b, CopyState(d, F, o, n, k + 1))
    BY <1>4, <2>4, <2>5, <2>6
  <2> QED BY <1>6, <2>3, <2>7, <2>8
<1> QED BY <1>7, <1>8

LEMMA CopyChunkRuns ==
    ASSUME NEW b, b \in Seq(Nat), NEW B, NEW T, NEW r, r \in Seq(Nat), NEW d \in Ready(B, T, r),
           NEW o, NEW n, Fits(o, n), o + n <= Len(b)
    PROVE  /\ CopyChunk(o, n) \in Seq(Octet)
           /\ Run(b, d, CopyChunk(o, n)) \in Ready(B, T, Cat(r, Slice(b, o, o + n)))
<1>0. d \in Decoders /\ d.mode = "op" /\ d.baseSize = B /\ d.targetSize = T /\ d.result = r
  BY DEF Ready
<1>00. o \in Nat /\ n \in Nat /\ n >= 1 /\ n <= ChunkMax
  BY DEF Fits
<1>1. PICK F, c : F = {k \in 0..6 : CopyDigit(o, n, k) # 0} /\ c = CopyByte(F)
  OBVIOUS
<1>2. F \in FlagSets
  BY <1>1 DEF FlagSets
<1>3. c \in Octet /\ c.top /\ c.flags = F
  <2>1. 0 \in Nat
    OBVIOUS
  <2> QED BY <1>1, <1>2, <2>1, ByteTypes
<1> DEFINE s == [k \in 1..7 |-> Operand(o, n, k - 1)]
           Q == [k \in 0..7 |-> {Settled(b, CopyState(d, F, o, n, k))}]
<1>4. CopyChunk(o, n) = Cat(<<c>>, FlattenSeq(s))
  BY <1>1, Zenon DEF CopyChunk, Cat, Operand
<1>5. ASSUME NEW k \in 0..6 PROVE Operand(o, n, k) \in Seq(Octet)
  <2>1. CopyDigit(o, n, k) \in Nat
    BY OffsetMoves
  <2>2. Plain(CopyDigit(o, n, k)) \in Octet
    BY <2>1, ByteTypes
  <2>3. PICK p : p = Plain(CopyDigit(o, n, k))
    OBVIOUS
  <2>4. <<p>> \in Seq(Octet) /\ <<>> \in Seq(Octet)
    BY <2>2, <2>3
  <2> QED BY <2>3, <2>4, Zenon DEF Operand
<1>6. s \in Seq(Seq(Octet)) /\ Len(s) = 7 /\ \A k \in 1..7 : s[k] = Operand(o, n, k - 1)
  <2>1. \A k \in 1..7 : k - 1 \in 0..6
    OBVIOUS
  <2>2. s \in [1..7 -> Seq(Octet)]
    BY <1>5, <2>1
  <2>3. \A k \in 1..7 : s[k] = Operand(o, n, k - 1)
    OBVIOUS
  <2>4. 7 \in Nat
    OBVIOUS
  <2> HIDE DEF s
  <2> QED BY <2>2, <2>3, <2>4, IsSequence
<1> HIDE DEF s
<1>7. PICK e : e = Step(b, d, c)
  OBVIOUS
<1>8. e = Settled(b, CopyState(d, F, o, n, 0)) /\ e \in Decoders
  <2>1. Step(b, d, c) = Settled(b, Copying(d, c.flags, 0, 0))
    BY <1>0, <1>3, StepCopyStart
  <2>2. Later(F, 0) = F
    BY <1>2 DEF Later, FlagSets
  <2>3. PartOffset(o, 0) = 0
    <3>1. o % Weight(0) \in 0..(Weight(0) - 1)
      <4>1. Weight(0) \in Nat \ {0}
        BY WeightType
      <4> QED BY <1>00, <4>1, DivNat, Zenon
    <3>2. Weight(0) = 1
      BY Weights
    <3>3. o % Weight(0) = 0
      BY <3>1, <3>2
    <3> QED BY <3>3 DEF PartOffset
  <2>4. PartLen(n, 0) = 0
    BY DEF PartLen
  <2>5. e \in Decoders
    BY <1>0, <1>3, <1>7, StepType
  <2> QED BY <1>3, <1>7, <2>1, <2>2, <2>3, <2>4, <2>5 DEF CopyState
<1>9. \A i \in 1..Len(s) : \A x \in Decoders : x \in Q[i - 1] => Run(b, x, s[i]) \in Q[i]
  <2> SUFFICES ASSUME NEW i \in 1..7, NEW x \in Decoders, x \in Q[i - 1] PROVE Run(b, x, s[i]) \in Q[i]
    BY <1>6
  <2>1. PICK k : k = i - 1
    OBVIOUS
  <2>2. k \in 0..6 /\ i = k + 1 /\ k \in 0..7 /\ i \in 0..7 /\ i \in 1..7
    BY <2>1
  <2>3. x = Settled(b, CopyState(d, F, o, n, k))
    BY <2>1, <2>2
  <2>4. Run(b, x, Operand(o, n, k)) = Settled(b, CopyState(d, F, o, n, k + 1))
    <3>1. k \in F <=> CopyDigit(o, n, k) # 0
      BY <1>1, <2>2
    <3>2. PICK z : z = CopyState(d, F, o, n, k)
      OBVIOUS
    <3> QED BY <1>0, <1>2, <2>2, <2>3, <3>1, CopyOperand
  <2>5. s[i] = Operand(o, n, k)
    BY <1>6, <2>1, <2>2
  <2>6. Q[i] = {Settled(b, CopyState(d, F, o, n, k + 1))}
    BY <2>2
  <2> QED BY <2>4, <2>5, <2>6
<1>10. e \in Q[0]
  BY <1>8
<1>11. Q[7] = {Settled(b, CopyState(d, F, o, n, 7))}
  OBVIOUS
<1> HIDE DEF Q
<1>12. Run(b, e, FlattenSeq(s)) = Settled(b, CopyState(d, F, o, n, 7))
  <2>1. Run(b, e, FlattenSeq(s)) \in Q[Len(s)]
    BY <1>6, <1>8, <1>9, <1>10, RunFlatten
  <2> QED BY <1>6, <1>11, <2>1
<1>13. PICK g : g = CopyState(d, F, o, n, 7)
  OBVIOUS
<1>14. g = Copying(d, {}, o, IF n = ChunkMax THEN 0 ELSE n)
  <2>1. Later(F, 7) = {}
    BY DEF Later
  <2>2. PartOffset(o, 7) = o
    BY DEF PartOffset
  <2>3. PartLen(n, 7) = IF n = ChunkMax THEN 0 ELSE n
    <3>1. CASE n = ChunkMax
      BY <3>1 DEF PartLen
    <3>2. CASE n # ChunkMax
      <4>1. Weight(3) \in Nat \ {0} /\ ChunkMax <= Weight(3) /\ ChunkMax \in Nat
        BY Weights, WeightType
      <4>2. n < Weight(3)
        BY <1>00, <3>2, <4>1
      <4>3. n % Weight(3) = n
        BY <1>00, <4>1, <4>2, SmallRemainder
      <4>4. 7 - 4 = 3 /\ ~(7 <= 4)
        OBVIOUS
      <4> QED BY <3>2, <4>3, <4>4 DEF PartLen
    <3> QED BY <3>1, <3>2
  <2> QED BY <1>13, <2>1, <2>2, <2>3 DEF CopyState
<1>15. PICK l, j : l = (IF n = ChunkMax THEN 0 ELSE n) /\ j = o + n
  OBVIOUS
<1>16. /\ g \in Decoders /\ g.flags = {} /\ g.offset = o /\ g.len = l /\ g.baseSize = B /\ g.targetSize = T
       /\ g.result = r
  <2>0. PICK H : H = {}
    OBVIOUS
  <2>1. H \in FlagSets /\ l \in Nat /\ g = Copying(d, H, o, l)
    BY <1>00, <1>14, <1>15, <2>0 DEF FlagSets
  <2>2. /\ g \in Decoders /\ g.flags = H /\ g.offset = o /\ g.len = l /\ g.baseSize = d.baseSize /\ g.targetSize = d.targetSize
        /\ g.result = d.result
    <3>1. /\ Copying(d, H, o, l) \in Decoders
          /\ Copying(d, H, o, l).flags = H /\ Copying(d, H, o, l).offset = o /\ Copying(d, H, o, l).len = l
          /\ Copying(d, H, o, l).baseSize = d.baseSize /\ Copying(d, H, o, l).targetSize = d.targetSize
          /\ Copying(d, H, o, l).result = d.result
      <4>1. d \in Decoders /\ H \in FlagSets /\ o \in Nat /\ l \in Nat
        BY <1>0, <1>00, <2>1
      <4> QED BY <4>1, CopyingType
    <3> QED BY <2>1, <3>1
  <2> QED BY <1>0, <2>0, <2>2
<1>17. (IF g.len = 0 THEN ChunkMax ELSE g.len) = n
  BY <1>00, <1>15, <1>16
<1>18. Settled(b, g) = [g EXCEPT !.mode = "op", !.result = g.result \o Slice(b, g.offset, g.offset + n)]
  <2>1. ~(g.offset + n > Len(b))
    BY <1>00, <1>16
  <2> QED BY <1>16, <1>17, <2>1 DEF Settled
<1>19. PICK w : w = Cat(r, Slice(b, o, j))
  OBVIOUS
<1>20. w \in Seq(Nat)
  <2>1. j \in Nat /\ o <= j /\ j <= Len(b)
    BY <1>00, <1>15
  <2>2. Slice(b, o, j) \in Seq(Nat)
    BY <1>00, <2>1, SliceFacts
  <2> QED BY <1>19, <2>2, CatType
<1>21. Settled(b, g) = [g EXCEPT !.mode = "op", !.result = w]
  BY <1>15, <1>16, <1>18, <1>19 DEF Cat
<1>22. Settled(b, g) \in Ready(B, T, w)
  BY <1>16, <1>20, <1>21 DEF Ready, Decoders, Modes
<1>23. CopyChunk(o, n) \in Seq(Octet) /\ Run(b, d, CopyChunk(o, n)) = Run(b, e, FlattenSeq(s))
  <2>1. PICK u, z : u = <<c>> /\ z = FlattenSeq(s)
    OBVIOUS
  <2>2. u \in Seq(Octet) /\ Run(b, d, u) = e
    BY <1>0, <1>3, <1>7, <2>1, RunOne
  <2>3. z \in Seq(Octet)
    BY <1>6, <2>1, FlattenType
  <2>4. CopyChunk(o, n) = Cat(u, z)
    BY <1>4, <2>1
  <2>5. Run(b, d, Cat(u, z)) = Run(b, Run(b, d, u), z) /\ Cat(u, z) \in Seq(Octet)
    BY <1>0, <2>2, <2>3, RunCat, CatType
  <2> QED BY <2>1, <2>2, <2>4, <2>5
<1> QED BY <1>12, <1>13, <1>15, <1>19, <1>22, <1>23

\* append_copy: the client appends the bytes of the base.
LEMMA CopyRuns ==
    ASSUME NEW b, b \in Seq(Nat), Len(b) <= MaxBase, NEW B, NEW T, NEW r, r \in Seq(Nat), NEW d \in Ready(B, T, r),
           NEW o \in Nat, NEW n \in Nat, o + n <= Len(b)
    PROVE  /\ AppendCopy(o, n) \in Seq(Octet)
           /\ Run(b, d, AppendCopy(o, n)) \in Ready(B, T, Cat(r, Slice(b, o, o + n)))
<1>0. PICK M, K : M = ChunkMax /\ K = Pieces(n, M)
  OBVIOUS
<1>1. M \in Nat \ {0} /\ Len(b) \in Nat /\ MaxBase \in Nat
  BY <1>0, WeightType, DeltaAssumption
<1>2. K \in Nat /\ Cut(0, n, M) = 0 /\ Cut(K, n, M) = n
  BY <1>0, <1>1, PieceFacts
<1>3. ASSUME NEW k \in 1..K
      PROVE  /\ PieceFrom(k, M) = Cut(k - 1, n, M) /\ Cut(k - 1, n, M) < Cut(k, n, M)
             /\ Cut(k - 1, n, M) \in Nat /\ Cut(k, n, M) \in Nat /\ Cut(k, n, M) <= n
             /\ Cut(k, n, M) - Cut(k - 1, n, M) <= M
  BY <1>0, <1>1, PieceFacts
<1> DEFINE Chunk(k) == CopyChunk(o + Cut(k - 1, n, M), Cut(k, n, M) - Cut(k - 1, n, M))
           s == [k \in 1..K |-> Chunk(k)]
           Done(k) == Slice(b, o, o + Cut(k, n, M))
           Q == [k \in 0..K |-> Ready(B, T, Cat(r, Done(k)))]
<1>4. AppendCopy(o, n) = FlattenSeq(s)
  <2>1. ASSUME NEW k \in 1..K PROVE CopyChunk(o + PieceFrom(k, M), PieceTo(k, n, M) - PieceFrom(k, M)) = Chunk(k)
    BY <1>3 DEF Cut
  <2>2. [k \in 1..K |-> CopyChunk(o + PieceFrom(k, M), PieceTo(k, n, M) - PieceFrom(k, M))] = s
    <3> HIDE DEF Chunk
    <3> QED BY <2>1
  <2> HIDE DEF s
  <2> QED BY <1>0, <2>2, Zenon DEF AppendCopy
<1>5. ASSUME NEW k \in 1..K, NEW w, w \in Seq(Nat), NEW e \in Ready(B, T, w)
      PROVE  /\ Chunk(k) \in Seq(Octet) /\ Done(k - 1) \in Seq(Nat)
             /\ \E v : v \in Seq(Nat) /\ Cat(Done(k - 1), v) = Done(k) /\ Run(b, e, Chunk(k)) \in Ready(B, T, Cat(w, v))
  <2>1. PICK i, j, p, m, q : /\ i = Cut(k - 1, n, M) /\ j = Cut(k, n, M) /\ p = o + i /\ m = j - i /\ q = o + j
    OBVIOUS
  <2>2. i \in Nat /\ j \in Nat /\ i < j /\ j <= n /\ j - i <= M
    BY <1>3, <2>1
  <2>3. /\ p \in Nat /\ m \in Nat /\ m >= 1 /\ m <= M /\ p + m <= Len(b) /\ p <= MaxBase /\ p + m = q /\ q \in Nat
        /\ o <= p /\ p <= q /\ q <= Len(b) /\ p <= Len(b)
    <3>1. PICK l : l = Len(b)
      OBVIOUS
    <3>2. l \in Nat /\ o + n <= l /\ l <= MaxBase /\ MaxBase \in Nat
      BY <1>1, <3>1
    <3>3. p = o + i /\ m = j - i /\ q = o + j
      BY <2>1
    <3>4. /\ p \in Nat /\ m \in Nat /\ m >= 1 /\ m <= M /\ p + m <= l /\ p <= MaxBase /\ p + m = q /\ q \in Nat
          /\ o <= p /\ p <= q /\ q <= l /\ p <= l
      BY <1>1, <2>2, <3>2, <3>3
    <3> QED BY <3>1, <3>4
  <2>4. Fits(p, m)
    BY <1>0, <2>3 DEF Fits
  <2>5. CopyChunk(p, m) \in Seq(Octet) /\ Run(b, e, CopyChunk(p, m)) \in Ready(B, T, Cat(w, Slice(b, p, p + m)))
    BY <1>5, <2>3, <2>4, CopyChunkRuns
  <2>6. Slice(b, p, q) \in Seq(Nat)
    BY <2>3, SliceFacts
  <2>7. Cat(Slice(b, o, p), Slice(b, p, q)) = Slice(b, o, q)
    BY <2>3, SliceJoin
  <2>8. Slice(b, o, p) \in Seq(Nat)
    BY <2>3, SliceFacts
  <2>9. Chunk(k) = CopyChunk(p, m) /\ Done(k - 1) = Slice(b, o, p) /\ Done(k) = Slice(b, o, q)
    BY <2>1
  <2> HIDE DEF Chunk, Done
  <2>10. Run(b, e, Chunk(k)) \in Ready(B, T, Cat(w, Slice(b, p, q)))
    BY <2>3, <2>5, <2>9
  <2> QED BY <2>5, <2>6, <2>7, <2>8, <2>9, <2>10
<1> HIDE DEF Chunk
<1>6. \A k \in 1..K : \A e \in Decoders : e \in Q[k - 1] => Run(b, e, Chunk(k)) \in Q[k]
  <2> SUFFICES ASSUME NEW k \in 1..K, NEW e \in Decoders, e \in Q[k - 1] PROVE Run(b, e, Chunk(k)) \in Q[k]
    OBVIOUS
  <2>1. k \in 0..K /\ k - 1 \in 0..K
    BY <1>2
  <2>2. PICK u, w : u = Done(k - 1) /\ w = Cat(r, u)
    OBVIOUS
  <2>3. Q[k - 1] = Ready(B, T, w) /\ Q[k] = Ready(B, T, Cat(r, Done(k)))
    BY <2>1, <2>2
  <2> HIDE DEF Done, Q
  <2>4. u \in Seq(Nat)
    BY <1>5, <2>2
  <2>5. w \in Seq(Nat)
    BY <2>2, <2>4, CatType
  <2>6. PICK v : v \in Seq(Nat) /\ Cat(u, v) = Done(k) /\ Run(b, e, Chunk(k)) \in Ready(B, T, Cat(w, v))
    BY <1>5, <2>2, <2>3, <2>5
  <2>7. Cat(w, v) = Cat(r, Cat(u, v))
    BY <2>2, <2>4, <2>6, CatAssociative
  <2> QED BY <2>3, <2>6, <2>7
<1>7. d \in Decoders /\ d \in Q[0]
  <2>1. 0 \in 0..K
    BY <1>2
  <2>2. Done(0) = <<>>
    <3>1. o + 0 = o /\ o <= Len(b)
      BY <1>1
    <3> QED BY <1>2, <3>1, SliceEmpty
  <2>3. Cat(r, Done(0)) = r
    <3> HIDE DEF Done
    <3> QED BY <2>2, CatEmpty
  <2> HIDE DEF Done
  <2> QED BY <2>1, <2>3 DEF Ready
<1>8. s \in Seq(Seq(Octet)) /\ Len(s) = K /\ \A k \in 1..K : s[k] = Chunk(k)
  <2>1. \A k \in 1..K : Chunk(k) \in Seq(Octet)
    BY <1>5
  <2>2. s \in [1..K -> Seq(Octet)]
    BY <2>1
  <2>3. \A k \in 1..K : s[k] = Chunk(k)
    OBVIOUS
  <2> HIDE DEF s
  <2> QED BY <1>2, <2>2, <2>3, IsSequence
<1> HIDE DEF s
<1>9. Q[K] = Ready(B, T, Cat(r, Slice(b, o, o + n)))
  <2>1. K \in 0..K
    BY <1>2
  <2> QED BY <1>2, <2>1
<1> HIDE DEF Q, Done
<1>10. Run(b, d, FlattenSeq(s)) \in Q[K]
  <2>1. \A i \in 1..Len(s) : \A e \in Decoders : e \in Q[i - 1] => Run(b, e, s[i]) \in Q[i]
    BY <1>6, <1>8
  <2>2. Run(b, d, FlattenSeq(s)) \in Q[Len(s)]
    BY <1>7, <1>8, <2>1, RunFlatten
  <2> QED BY <1>8, <2>2
<1>11. FlattenSeq(s) \in Seq(Octet)
  BY <1>8, FlattenType
<1> QED BY <1>4, <1>9, <1>10, <1>11

Encoded(f, n) ==
    LET last == Min({k \in 1..(n + 1) : f[k] = 0})
    IN [k \in 1..last |-> SizeByte(k < last, f[k - 1] % SizeDigit)]

\* The quotients an encoded size is made of.
LEMMA SizeSteps ==
    ASSUME NEW total, total \in Nat
    PROVE  \E f : /\ EncodeSize(total) = Encoded(f, total) /\ f[0] = total
                  /\ \A n \in 1..(total + 1) : f[n] = (f[n - 1]) \div SizeDigit
                  /\ \A n \in 0..(total + 1) : f[n] \in Nat
<1> DEFINE Top == total + 1
           Dom == Nat
           G(n, v) == (v) \div SizeDigit
           Go(n, v) == IF n < Top THEN G(n + 1, v) ELSE v
           D == [y \in Nat \X Dom |-> Go(y[1], y[2])]
<1>0. Top \in Nat
  BY DEF Top
<1>1. total \in Dom
  BY DEF Dom
<1>2. ASSUME NEW n \in 1..Top, NEW v \in Dom PROVE G(n, v) \in Dom
  <2>1. v \in Nat /\ SizeDigit \in Nat \ {0}
    BY DeltaAssumption DEF Dom
  <2> QED BY <2>1, DivNat DEF Dom
<1> HIDE DEF Top, Dom, G
<1>21. ASSUME NEW n \in Nat, NEW v \in Dom PROVE Go(n, v) \in Dom
  <2>1. n < Top => n + 1 \in 1..Top
    BY <1>0
  <2> QED BY <1>2, <2>1
<1> HIDE DEF Go
<1>3. D \in [Nat \X Dom -> Dom] /\ \A n \in Nat, v \in Dom : D[<<n, v>>] = Go(n, v)
  <2>1. ASSUME NEW y \in Nat \X Dom PROVE Go(y[1], y[2]) \in Dom
    BY <1>21
  <2> QED BY <2>1
<1> HIDE DEF D
<1>4. PICK g : g \in [0..Top -> Dom] /\ g = [n \in 0..Top |-> IF n = 0 THEN total ELSE D[<<n - 1, g[n - 1]>>]]
  <2>1. PICK g : LooksBack(g, Top, Dom, total, D)
    BY <1>0, <1>1, <1>3, BoundedRecursion
  <2> QED BY <2>1 DEF LooksBack
<1> DEFINE Row(h, n) == IF n = 0 THEN total ELSE G(n, h[n - 1])
<1>5. g = [n \in 0..Top |-> Row(g, n)]
  <2>1. ASSUME NEW n \in 0..Top PROVE (IF n = 0 THEN total ELSE D[<<n - 1, g[n - 1]>>]) = Row(g, n)
    <3>1. CASE n = 0
      BY <3>1
    <3>2. CASE n # 0
      <4>1. n - 1 \in Nat /\ n - 1 \in 0..Top /\ n - 1 < Top /\ (n - 1) + 1 = n
        BY <1>0, <3>2
      <4>2. g[n - 1] \in Dom
        BY <1>4, <4>1
      <4> QED BY <1>3, <3>2, <4>1, <4>2 DEF Go
    <3> QED BY <3>1, <3>2
  <2> HIDE DEF Row
  <2> QED BY <1>4, <2>1
<1> DEFINE f[n \in 0..Top] == Row(f, n)
<1>6. f = [n \in 0..Top |-> Row(f, n)]
  <2> HIDE DEF Row
  <2> QED BY <1>5
<1>7. EncodeSize(total) = Encoded(f, total)
  BY DEF EncodeSize, Encoded, Top, G
<1> HIDE DEF f
<1>8. f[0] = total /\ \A n \in 1..Top : f[n] = G(n, f[n - 1])
  <2>1. 0 \in 0..Top /\ \A n \in 1..Top : n \in 0..Top /\ n # 0
    BY <1>0
  <2>2. \A n \in 0..Top : f[n] = Row(f, n)
    <3> HIDE DEF Row
    <3> QED BY <1>6
  <2> QED BY <2>1, <2>2
<1> HIDE DEF Row
<1>9. \A n \in 1..Top : f[n - 1] \in Dom => f[n] \in Dom
  BY <1>2, <1>8
<1>10. \A n \in 0..Top : f[n] \in Dom
  BY <1>0, <1>1, <1>8, <1>9, BackTyped
<1> QED BY <1>7, <1>8, <1>10 DEF Top, Dom, G

LEMMA QuotientFalls ==
    ASSUME NEW a, a \in Nat, NEW w, w \in Nat, w >= 2
    PROVE  a \div w \in Nat /\ a % w \in Nat /\ (a # 0 => a \div w < a)
           /\ (a \div w = 0 => a % w = a) /\ (a = 0 => a \div w = 0)
<1>1. PICK q, r, p : q = a \div w /\ r = a % w /\ p = w * q
  OBVIOUS
<1>2. w \in Nat \ {0}
  OBVIOUS
<1>3. q \in Nat /\ r \in 0..(w - 1) /\ a = w * q + r
  BY <1>1, <1>2, DivNat, Zenon
<1>4. p \in Nat /\ r \in Nat /\ a = p + r /\ p >= q + q
  <2>1. p \in Nat /\ w * q >= 2 * q
    BY <1>1, <1>3
  <2>2. 2 * q = q + q
    BY <1>3
  <2> QED BY <1>1, <1>3, <2>1, <2>2
<1>5. q = 0 => p = 0
  BY <1>1
<1> QED BY <1>1, <1>3, <1>4, <1>5

\* The encoding of n in last bytes, by its quotients q.
Digits(q, last, n) ==
    /\ last \in Nat \ {0} /\ q[0] = n /\ q[last] = 0
    /\ \A k \in 0..last : q[k] \in Nat
    /\ \A k \in 1..last : q[k] = q[k - 1] \div SizeDigit
    /\ EncodeSize(n) = [k \in 1..last |-> SizeByte(k < last, q[k - 1] % SizeDigit)]

LEMMA SizeIs ==
    ASSUME NEW n, n \in Nat
    PROVE  \E q, last : Digits(q, last, n)
<1>1. PICK f : /\ EncodeSize(n) = Encoded(f, n) /\ f[0] = n
               /\ \A k \in 1..(n + 1) : f[k] = f[k - 1] \div SizeDigit
               /\ \A k \in 0..(n + 1) : f[k] \in Nat
  BY SizeSteps
<1> DEFINE Q(k) == k <= n + 1 => f[k] + k <= n \/ f[k] = 0
           U == {k \in Nat : Q(k)}
<1>2. Q(0)
  BY <1>1
<1>3. ASSUME NEW k \in Nat, Q(k) PROVE Q(k + 1)
  <2> SUFFICES ASSUME k + 1 <= n + 1 PROVE f[k + 1] + (k + 1) <= n \/ f[k + 1] = 0
    OBVIOUS
  <2>1. k <= n + 1 /\ k + 1 \in 1..(n + 1) /\ (k + 1) - 1 = k /\ k \in 0..(n + 1)
    OBVIOUS
  <2>2. PICK a, c : a = f[k] /\ c = f[k + 1]
    OBVIOUS
  <2>3. a \in Nat /\ c = a \div SizeDigit
    BY <1>1, <2>1, <2>2
  <2>4. c \in Nat /\ (a # 0 => c < a) /\ (a = 0 => c = 0)
    <3>1. SizeDigit \in Nat /\ SizeDigit >= 2
      BY WeightType
    <3> QED BY <2>3, <3>1, QuotientFalls
  <2>5. a + k <= n \/ a = 0
    BY <1>3, <2>1, <2>2
  <2> QED BY <2>2, <2>3, <2>4, <2>5
<1>4. U = Nat
  <2>1. 0 \in U /\ \A k \in U : k + 1 \in U
    <3> HIDE DEF Q
    <3> QED BY <1>2, <1>3
  <2> HIDE DEF U
  <2> QED BY <2>1, Induction DEF U
<1>5. f[n + 1] = 0
  <2>1. n + 1 \in Nat /\ n + 1 \in 0..(n + 1) /\ n + 1 <= n + 1
    OBVIOUS
  <2>2. Q(n + 1)
    <3>1. n + 1 \in U
      BY <1>4, <2>1
    <3> QED BY <3>1
  <2>3. f[n + 1] \in Nat
    BY <1>1, <2>1
  <2> QED BY <2>2, <2>3
<1> HIDE DEF Q, U
<1>6. PICK S, last : S = {k \in 1..(n + 1) : f[k] = 0} /\ last = Min(S)
  OBVIOUS
<1>7. last \in S
  <2>1. S \in SUBSET Nat /\ S # {}
    <3>1. n + 1 \in 1..(n + 1)
      OBVIOUS
    <3> QED BY <1>5, <1>6, <3>1
  <2>2. \E x \in S : \A y \in S : x <= y
    BY <2>1, LeastNat
  <2> QED BY <1>6, <2>2 DEF Min
<1>8. last \in 1..(n + 1) /\ f[last] = 0
  BY <1>6, <1>7
<1>9. EncodeSize(n) = [k \in 1..last |-> SizeByte(k < last, f[k - 1] % SizeDigit)]
  BY <1>1, <1>6 DEF Encoded
<1>10. last \in Nat \ {0} /\ 1..last \subseteq 1..(n + 1) /\ 0..last \subseteq 0..(n + 1)
  BY <1>8
<1>11. (\A k \in 0..last : f[k] \in Nat) /\ (\A k \in 1..last : f[k] = f[k - 1] \div SizeDigit)
  BY <1>1, <1>10
<1>12. Digits(f, last, n)
  BY <1>1, <1>8, <1>9, <1>10, <1>11, Zenon DEF Digits
<1> QED BY <1>12

DigitIsRead(n, v, a, s) ==
    /\ Moved(Moved(v, a % SizeDigit, s), a \div SizeDigit, Moved(0, s, SizeDigit)) = n
    /\ a \div SizeDigit = 0 => Moved(v, a % SizeDigit, s) = n

\* Reading the low digit of a leaves its quotient to come, at the next scale.
LEMMA DigitRead ==
    ASSUME NEW n, NEW v, v \in Nat, NEW a, a \in Nat, NEW s, s \in Nat, Moved(v, a, s) = n
    PROVE  DigitIsRead(n, v, a, s)
<1>1. PICK q, r, w, t : q = a \div SizeDigit /\ r = a % SizeDigit /\ w = SizeDigit /\ t = s * w
  OBVIOUS
<1>2. w \in Nat /\ w >= 2 /\ w \in Nat \ {0}
  BY <1>1, WeightType
<1>3. q \in Nat /\ r \in Nat /\ a = w * q + r /\ t \in Nat
  <2>1. a \div w \in Nat /\ a % w \in 0..(w - 1) /\ a = w * (a \div w) + (a % w)
    BY <1>2, DivNat
  <2> QED BY <1>1, <1>2, <2>1
<1>4. Moved(0, s, SizeDigit) = t
  BY <1>1, <1>3 DEF Moved
<1>5. a * s = r * s + q * t
  <2>1. a * s = (w * q + r) * s
    BY <1>3
  <2>2. (w * q + r) * s = r * s + q * (s * w)
    BY <1>2, <1>3
  <2> QED BY <1>1, <2>1, <2>2
<1>6. PICK x, y : x = r * s /\ y = q * t
  OBVIOUS
<1>7. x \in Int /\ y \in Int
  BY <1>3, <1>6
<1>8. n = v + (x + y)
  BY <1>5, <1>6 DEF Moved
<1>9. (v + x) + y = n
  BY <1>7, <1>8
<1>10. Moved(Moved(v, r, s), q, t) = n
  BY <1>6, <1>9 DEF Moved
<1>11. q = 0 => Moved(v, r, s) = n
  <2> SUFFICES ASSUME q = 0 PROVE v + x = n
    BY <1>6 DEF Moved
  <2>1. y = 0
    BY <1>3, <1>6
  <2> QED BY <1>7, <1>9, <2>1
<1> QED BY <1>1, <1>4, <1>10, <1>11 DEF DigitIsRead

\* What reading the bytes of a size does to sets of decoders: At holds those
\* that have read a value and are at a scale, Read those that have read it all.
ReadsSizes(b, At, Read) ==
    \A v \in Nat : \A s \in Nat : \A low \in Nat : \A e \in At[<<v, s>>] :
        /\ Step(b, e, SizeByte(TRUE, low)) \in At[<<Moved(v, low, s), Moved(0, s, SizeDigit)>>]
        /\ Step(b, e, SizeByte(FALSE, low)) \in Read[Moved(v, low, s)]

LEMMA SizeType ==
    ASSUME NEW n, n \in Nat
    PROVE  EncodeSize(n) \in Seq(Octet)
<1>0. PICK q, last : Digits(q, last, n)
  BY SizeIs
<1>1. /\ last \in Nat \ {0} /\ \A k \in 0..last : q[k] \in Nat
      /\ EncodeSize(n) = [k \in 1..last |-> SizeByte(k < last, q[k - 1] % SizeDigit)]
  BY <1>0 DEF Digits
<1>2. ASSUME NEW k \in 1..last PROVE SizeByte(k < last, q[k - 1] % SizeDigit) \in Octet
  <2>1. k - 1 \in 0..last
    BY <1>1
  <2>2. q[k - 1] % SizeDigit \in Nat
    <3>1. PICK a : a = q[k - 1]
      OBVIOUS
    <3>2. a \in Nat /\ SizeDigit \in Nat /\ SizeDigit >= 2
      BY <1>1, <2>1, <3>1, WeightType
    <3>3. a % SizeDigit \in Nat
      BY <3>2, QuotientFalls
    <3> QED BY <3>1, <3>3
  <2>3. (k < last) \in BOOLEAN
    OBVIOUS
  <2>4. PICK more, low : more = (k < last) /\ low = q[k - 1] % SizeDigit
    OBVIOUS
  <2>5. more \in BOOLEAN /\ low \in Nat
    BY <2>2, <2>3, <2>4, Zenon
  <2>6. SizeByte(more, low) \in Octet
    BY <2>5, ByteTypes
  <2> QED BY <2>4, <2>6, Zenon
<1>3. EncodeSize(n) \in [1..last -> Octet]
  BY <1>1, <1>2
<1> QED BY <1>1, <1>3, IsSequence

LEMMA SizeRuns ==
    ASSUME NEW b, b \in Seq(Nat), NEW n, n \in Nat, NEW At, NEW Read, ReadsSizes(b, At, Read),
           NEW d \in Decoders, d \in At[<<0, 1>>]
    PROVE  Run(b, d, EncodeSize(n)) \in Read[n]
<1>0. PICK q, last : Digits(q, last, n)
  BY SizeIs
<1>1. /\ last \in Nat \ {0} /\ q[0] = n /\ q[last] = 0
      /\ \A k \in 0..last : q[k] \in Nat
      /\ \A k \in 1..last : q[k] = q[k - 1] \div SizeDigit
      /\ EncodeSize(n) = [k \in 1..last |-> SizeByte(k < last, q[k - 1] % SizeDigit)]
  BY <1>0 DEF Digits
<1>2. PICK u : u = EncodeSize(n)
  OBVIOUS
<1>3. u \in Seq(Octet) /\ Len(u) = last /\ \A k \in 1..last : u[k] = SizeByte(k < last, q[k - 1] % SizeDigit)
  <2>1. u \in Seq(Octet) /\ DOMAIN u = 1..last
    BY <1>1, <1>2, SizeType
  <2>2. Len(u) = last
    BY <1>1, <2>1
  <2> QED BY <1>1, <1>2, <2>1, <2>2
<1>4. PICK f : Goes(b, d, u, f) /\ Run(b, d, u) = f[Len(u)]
  BY <1>3, RunGoes
<1>5. \A k \in 1..last : f[k] = Step(b, f[k - 1], u[k])
  BY <1>3, <1>4 DEF Goes
<1>50. last \in Nat
  BY <1>1
<1>51. ASSUME NEW k \in Nat, k < last PROVE k + 1 \in 1..last /\ (k + 1) - 1 = k /\ k \in 0..last
  BY <1>50, <1>51
<1> DEFINE Holds(k, v, s) == f[k] \in At[<<v, s>>] /\ Moved(v, q[k], s) = n
           Q(k) == k < last => \E v \in Nat, s \in Nat : Holds(k, v, s)
           U == {k \in Nat : Q(k)}
<1>6. Q(0)
  <2>1. f[0] = d /\ Moved(0, n, 1) = n
    BY <1>4 DEF Goes, Moved
  <2>2. Holds(0, 0, 1)
    BY <1>1, <2>1
  <2> HIDE DEF Holds
  <2> QED BY <2>2
<1>7. ASSUME NEW k \in Nat, k < last, NEW v \in Nat, NEW s \in Nat, Holds(k, v, s)
      PROVE  /\ k + 1 < last => \E x \in Nat, y \in Nat : Holds(k + 1, x, y)
             /\ k + 1 = last => f[last] \in Read[n]
  <2>1. k + 1 \in 1..last /\ (k + 1) - 1 = k /\ k \in 0..last
    BY <1>51, <1>7
  <2>2. PICK a, low, e : a = q[k] /\ low = a % SizeDigit /\ e = f[k]
    OBVIOUS
  <2>3. a \in Nat /\ q[k + 1] = a \div SizeDigit
    BY <1>1, <2>1, <2>2
  <2>4. low \in Nat
    <3>1. SizeDigit \in Nat /\ SizeDigit >= 2
      BY WeightType
    <3> QED BY <2>2, <2>3, <3>1, QuotientFalls
  <2>5. u[k + 1] = SizeByte(k + 1 < last, low) /\ f[k + 1] = Step(b, e, u[k + 1])
    BY <1>3, <1>5, <2>1, <2>2
  <2>6. e \in At[<<v, s>>] /\ Moved(v, a, s) = n
    BY <1>7, <2>2
  <2>7. PICK x, y : x = Moved(v, low, s) /\ y = Moved(0, s, SizeDigit)
    OBVIOUS
  <2>8. x \in Nat /\ y \in Nat
    <3>1. SizeDigit \in Nat /\ 0 \in Nat
      BY WeightType
    <3> QED BY <2>4, <2>7, <3>1, MovedType
  <2>9. Moved(x, q[k + 1], y) = n /\ (q[k + 1] = 0 => x = n)
    <3>1. /\ Moved(Moved(v, a % SizeDigit, s), a \div SizeDigit, Moved(0, s, SizeDigit)) = n
          /\ a \div SizeDigit = 0 => Moved(v, a % SizeDigit, s) = n
      <4>1. DigitIsRead(n, v, a, s)
        BY <2>3, <2>6, DigitRead
      <4> QED BY <4>1, Zenon DEF DigitIsRead
    <3> QED BY <2>2, <2>3, <2>7, <3>1, Zenon
  <2>10. Step(b, e, SizeByte(TRUE, low)) \in At[<<x, y>>] /\ Step(b, e, SizeByte(FALSE, low)) \in Read[x]
    <3>1. /\ Step(b, e, SizeByte(TRUE, low)) \in At[<<Moved(v, low, s), Moved(0, s, SizeDigit)>>]
          /\ Step(b, e, SizeByte(FALSE, low)) \in Read[Moved(v, low, s)]
      BY <2>4, <2>6, Zenon DEF ReadsSizes
    <3> QED BY <2>7, <3>1, Zenon
  <2>11. CASE k + 1 < last
    <3>1. f[k + 1] = Step(b, e, SizeByte(TRUE, low))
      BY <2>5, <2>11
    <3>2. Holds(k + 1, x, y)
      BY <2>9, <2>10, <3>1
    <3>3. k + 1 # last
      BY <1>1, <2>11
    <3> HIDE DEF Holds
    <3> QED BY <2>8, <3>2, <3>3
  <2>12. CASE k + 1 = last
    <3>1. ~(k + 1 < last)
      BY <1>1, <2>12
    <3>2. f[k + 1] = Step(b, e, SizeByte(FALSE, low))
      <4>1. (k + 1 < last) = FALSE
        BY <3>1
      <4> QED BY <2>5, <4>1, Zenon
    <3>3. x = n
      BY <1>1, <2>9, <2>12
    <3> QED BY <2>10, <2>12, <3>1, <3>2, <3>3
  <2> QED BY <2>11, <2>12
<1> HIDE DEF Holds
<1>8. ASSUME NEW k \in Nat, Q(k) PROVE Q(k + 1)
  <2> SUFFICES ASSUME k + 1 < last PROVE \E v \in Nat, s \in Nat : Holds(k + 1, v, s)
    OBVIOUS
  <2>1. k < last
    BY <1>1
  <2>2. PICK v \in Nat, s \in Nat : Holds(k, v, s)
    BY <1>8, <2>1
  <2> QED BY <1>7, <2>1, <2>2
<1>9. U = Nat
  <2>1. 0 \in U /\ \A k \in U : k + 1 \in U
    <3> HIDE DEF Q
    <3> QED BY <1>6, <1>8
  <2> HIDE DEF U
  <2> QED BY <2>1, Induction DEF U
<1>10. PICK k : k = last - 1
  OBVIOUS
<1>11. k \in Nat /\ k < last /\ k + 1 = last
  BY <1>1, <1>10
<1>12. Q(k)
  <2>1. k \in U
    BY <1>9, <1>11
  <2> QED BY <2>1
<1>13. PICK v \in Nat, s \in Nat : Holds(k, v, s)
  BY <1>11, <1>12
<1>14. f[last] \in Read[n]
  BY <1>7, <1>11, <1>13
<1> QED BY <1>2, <1>3, <1>4, <1>14

\* The sizes at the head of the stream are read back as they were written.
BaseAt(T, r, v, s) ==
    {e \in Decoders : e.mode = "baseSize" /\ e.baseSize = v /\ e.scale = s /\ e.targetSize = T /\ e.result = r}
TargetAt(B, r, v, s) ==
    {e \in Decoders : e.mode = "targetSize" /\ e.targetSize = v /\ e.scale = s /\ e.baseSize = B /\ e.result = r}

LEMMA BaseRead ==
    ASSUME NEW b, b \in Seq(Nat), NEW n, n \in Nat, NEW r, NEW d, d \in BaseAt(0, r, 0, 1)
    PROVE  Run(b, d, EncodeSize(n)) \in TargetAt(n, r, 0, 1)
<1>1. PICK At, Read : At = [p \in Nat \X Nat |-> BaseAt(0, r, p[1], p[2])] /\ Read = [v \in Nat |-> TargetAt(v, r, 0, 1)]
  OBVIOUS
<1>2. (\A v \in Nat, s \in Nat : At[<<v, s>>] = BaseAt(0, r, v, s)) /\ \A v \in Nat : Read[v] = TargetAt(v, r, 0, 1)
  BY <1>1
<1>3. ASSUME NEW v \in Nat, NEW s \in Nat, NEW low \in Nat, NEW e \in At[<<v, s>>]
      PROVE  /\ Step(b, e, SizeByte(TRUE, low)) \in At[<<Moved(v, low, s), Moved(0, s, SizeDigit)>>]
             /\ Step(b, e, SizeByte(FALSE, low)) \in Read[Moved(v, low, s)]
  <2>1. e \in Decoders /\ e.mode = "baseSize" /\ e.baseSize = v /\ e.scale = s /\ e.targetSize = 0 /\ e.result = r
    BY <1>2 DEF BaseAt
  <2>2. PICK x, y : x = Moved(v, low, s) /\ y = Moved(0, s, SizeDigit)
    OBVIOUS
  <2>3. x \in Nat /\ y \in Nat
    <3>1. SizeDigit \in Nat /\ 0 \in Nat
      BY WeightType
    <3> QED BY <2>2, <3>1, MovedType
  <2>4. PICK c, g : c = SizeByte(TRUE, low) /\ g = Step(b, e, c)
    OBVIOUS
  <2>5. c \in Octet /\ c.top = TRUE /\ c.value = low
    BY <2>4, ByteTypes
  <2>6. g \in Decoders /\ g.mode = "baseSize" /\ g.scale = y /\ g.baseSize = x /\ g.targetSize = 0 /\ g.result = r
    <3>1. /\ g \in Decoders
          /\ g.mode = (IF c.top THEN "baseSize" ELSE "targetSize")
          /\ g.scale = (IF c.top THEN Moved(0, e.scale, SizeDigit) ELSE 1)
          /\ g.baseSize = Moved(e.baseSize, c.value, e.scale)
          /\ g.targetSize = e.targetSize /\ g.result = e.result
      <4>1. g \in Decoders /\ AfterBase(e, c, g)
        BY <2>1, <2>4, <2>5, StepBase
      <4> QED BY <4>1 DEF AfterBase
    <3> QED BY <2>1, <2>2, <2>5, <3>1
  <2>7. g \in At[<<x, y>>]
    <3>1. At[<<x, y>>] = BaseAt(0, r, x, y)
      BY <1>2, <2>3, Zenon
    <3> QED BY <2>6, <3>1 DEF BaseAt
  <2>8. PICK k, h : k = SizeByte(FALSE, low) /\ h = Step(b, e, k)
    OBVIOUS
  <2>9. k \in Octet /\ k.top = FALSE /\ k.value = low
    BY <2>8, ByteTypes
  <2>10. h \in Decoders /\ h.mode = "targetSize" /\ h.scale = 1 /\ h.baseSize = x /\ h.targetSize = 0 /\ h.result = r
    <3>1. /\ h \in Decoders
          /\ h.mode = (IF k.top THEN "baseSize" ELSE "targetSize")
          /\ h.scale = (IF k.top THEN Moved(0, e.scale, SizeDigit) ELSE 1)
          /\ h.baseSize = Moved(e.baseSize, k.value, e.scale)
          /\ h.targetSize = e.targetSize /\ h.result = e.result
      <4>1. h \in Decoders /\ AfterBase(e, k, h)
        BY <2>1, <2>8, <2>9, StepBase
      <4> QED BY <4>1 DEF AfterBase
    <3> QED BY <2>1, <2>2, <2>9, <3>1
  <2>11. h \in Read[x]
    BY <1>2, <2>3, <2>10 DEF TargetAt
  <2> QED BY <2>2, <2>4, <2>7, <2>8, <2>11, Zenon
<1>4. ReadsSizes(b, At, Read)
  BY <1>3, Zenon DEF ReadsSizes
<1>5. d \in Decoders /\ d \in At[<<0, 1>>]
  BY <1>2 DEF BaseAt
<1>6. Run(b, d, EncodeSize(n)) \in Read[n]
  BY <1>4, <1>5, SizeRuns
<1> QED BY <1>2, <1>6

LEMMA TargetRead ==
    ASSUME NEW b, b \in Seq(Nat), NEW n, n \in Nat, NEW B, NEW r, NEW d, d \in TargetAt(B, r, 0, 1)
    PROVE  Run(b, d, EncodeSize(n)) \in Ready(B, n, r)
<1>1. PICK At, Read : At = [p \in Nat \X Nat |-> TargetAt(B, r, p[1], p[2])] /\ Read = [v \in Nat |-> Ready(B, v, r)]
  OBVIOUS
<1>2. (\A v \in Nat, s \in Nat : At[<<v, s>>] = TargetAt(B, r, v, s)) /\ \A v \in Nat : Read[v] = Ready(B, v, r)
  BY <1>1
<1>3. ASSUME NEW v \in Nat, NEW s \in Nat, NEW low \in Nat, NEW e \in At[<<v, s>>]
      PROVE  /\ Step(b, e, SizeByte(TRUE, low)) \in At[<<Moved(v, low, s), Moved(0, s, SizeDigit)>>]
             /\ Step(b, e, SizeByte(FALSE, low)) \in Read[Moved(v, low, s)]
  <2>1. e \in Decoders /\ e.mode = "targetSize" /\ e.targetSize = v /\ e.scale = s /\ e.baseSize = B /\ e.result = r
    BY <1>2 DEF TargetAt
  <2>2. PICK x, y : x = Moved(v, low, s) /\ y = Moved(0, s, SizeDigit)
    OBVIOUS
  <2>3. x \in Nat /\ y \in Nat
    <3>1. SizeDigit \in Nat /\ 0 \in Nat
      BY WeightType
    <3> QED BY <2>2, <3>1, MovedType
  <2>4. PICK c, g : c = SizeByte(TRUE, low) /\ g = Step(b, e, c)
    OBVIOUS
  <2>5. c \in Octet /\ c.top = TRUE /\ c.value = low
    BY <2>4, ByteTypes
  <2>6. g \in Decoders /\ g.mode = "targetSize" /\ g.scale = y /\ g.targetSize = x /\ g.baseSize = B /\ g.result = r
    <3>1. /\ g \in Decoders
          /\ g.mode = (IF c.top THEN "targetSize" ELSE "op")
          /\ g.scale = (IF c.top THEN Moved(0, e.scale, SizeDigit) ELSE 1)
          /\ g.targetSize = Moved(e.targetSize, c.value, e.scale)
          /\ g.baseSize = e.baseSize /\ g.result = e.result
      <4>1. g \in Decoders /\ AfterTarget(e, c, g)
        BY <2>1, <2>4, <2>5, StepTarget
      <4> QED BY <4>1 DEF AfterTarget
    <3> QED BY <2>1, <2>2, <2>5, <3>1
  <2>7. g \in At[<<x, y>>]
    <3>1. At[<<x, y>>] = TargetAt(B, r, x, y)
      BY <1>2, <2>3, Zenon
    <3> QED BY <2>6, <3>1 DEF TargetAt
  <2>8. PICK k, h : k = SizeByte(FALSE, low) /\ h = Step(b, e, k)
    OBVIOUS
  <2>9. k \in Octet /\ k.top = FALSE /\ k.value = low
    BY <2>8, ByteTypes
  <2>10. h \in Decoders /\ h.mode = "op" /\ h.targetSize = x /\ h.baseSize = B /\ h.result = r
    <3>1. /\ h \in Decoders
          /\ h.mode = (IF k.top THEN "targetSize" ELSE "op")
          /\ h.targetSize = Moved(e.targetSize, k.value, e.scale)
          /\ h.baseSize = e.baseSize /\ h.result = e.result
      <4>1. h \in Decoders /\ AfterTarget(e, k, h)
        BY <2>1, <2>8, <2>9, StepTarget
      <4> QED BY <4>1 DEF AfterTarget
    <3> QED BY <2>1, <2>2, <2>9, <3>1
  <2>11. h \in Read[x]
    BY <1>2, <2>3, <2>10 DEF Ready
  <2> QED BY <2>2, <2>4, <2>7, <2>8, <2>11, Zenon
<1>4. ReadsSizes(b, At, Read)
  BY <1>3, Zenon DEF ReadsSizes
<1>5. d \in Decoders /\ d \in At[<<0, 1>>]
  BY <1>2 DEF TargetAt
<1>6. Run(b, d, EncodeSize(n)) \in Read[n]
  BY <1>4, <1>5, SizeRuns
<1> QED BY <1>2, <1>6

\* The stream s rebuilds the first n bytes of t from b, under the true sizes.
Rebuilds(b, t, s, n) ==
    /\ s \in Seq(Octet) /\ n \in 0..Len(t)
    /\ Apply(b, s) \in Ready(Len(b), Len(t), Slice(t, 0, n))

LEMMA StartIsFresh == Start \in BaseAt(0, <<>>, 0, 1) /\ Start \in Decoders
<1>1. {} \in FlagSets
  BY DEF FlagSets
<1>2. <<>> \in Seq(Nat)
  OBVIOUS
<1> QED BY <1>1, <1>2 DEF Start, BaseAt, Decoders, Modes

LEMMA HeaderRebuilds ==
    ASSUME NEW b, b \in Seq(Nat), NEW t, t \in Seq(Nat)
    PROVE  Rebuilds(b, t, Cat(EncodeSize(Len(b)), EncodeSize(Len(t))), 0)
<1>1. PICK B, T, x, y, z : B = Len(b) /\ T = Len(t) /\ x = EncodeSize(B) /\ y = EncodeSize(T) /\ z = <<>>
  OBVIOUS
<1>2. B \in Nat /\ T \in Nat
  BY <1>1
<1>3. x \in Seq(Octet) /\ y \in Seq(Octet)
  BY <1>1, <1>2, SizeType
<1>4. Start \in Decoders /\ Start \in BaseAt(0, z, 0, 1)
  BY <1>1, StartIsFresh
<1>5. PICK d : d = Run(b, Start, x)
  OBVIOUS
<1>6. d \in TargetAt(B, z, 0, 1)
  BY <1>1, <1>2, <1>4, <1>5, BaseRead
<1>7. Run(b, d, y) \in Ready(B, T, z)
  BY <1>1, <1>2, <1>6, TargetRead
<1>8. Run(b, Start, Cat(x, y)) = Run(b, d, y)
  BY <1>3, <1>4, <1>5, RunCat
<1>9. Slice(t, 0, 0) = z
  BY <1>1, SliceEnds
<1>10. Cat(x, y) \in Seq(Octet)
  BY <1>3, CatType
<1>11. 0 \in 0..Len(t)
  BY <1>1, <1>2
<1>12. Apply(b, Cat(x, y)) \in Ready(Len(b), Len(t), Slice(t, 0, 0))
  BY <1>1, <1>7, <1>8, <1>9, Zenon DEF Apply
<1> QED BY <1>1, <1>10, <1>11, <1>12, Zenon DEF Rebuilds

LEMMA RebuildsMore ==
    ASSUME NEW b, b \in Seq(Nat), NEW t, t \in Seq(Nat), NEW s, NEW n, Rebuilds(b, t, s, n),
           NEW m, m \in Nat, n <= m, m <= Len(t), NEW w, w \in Seq(Octet),
           \A d \in Ready(Len(b), Len(t), Slice(t, 0, n)) :
               Run(b, d, w) \in Ready(Len(b), Len(t), Cat(Slice(t, 0, n), Slice(t, n, m)))
    PROVE  Rebuilds(b, t, Cat(s, w), m)
<1>1. s \in Seq(Octet) /\ n \in 0..Len(t) /\ Apply(b, s) \in Ready(Len(b), Len(t), Slice(t, 0, n))
  BY DEF Rebuilds
<1>2. n \in Nat /\ m \in 0..Len(t)
  BY <1>1
<1>3. Run(b, Start, Cat(s, w)) = Run(b, Run(b, Start, s), w)
  BY <1>1, RunCat, StartIsFresh
<1>4. Run(b, Start, Cat(s, w)) \in Ready(Len(b), Len(t), Cat(Slice(t, 0, n), Slice(t, n, m)))
  BY <1>1, <1>3, Zenon DEF Apply
<1>5. Cat(Slice(t, 0, n), Slice(t, n, m)) = Slice(t, 0, m)
  BY <1>2, SliceCat
<1>6. Cat(s, w) \in Seq(Octet)
  BY <1>1, CatType
<1>7. Apply(b, Cat(s, w)) \in Ready(Len(b), Len(t), Slice(t, 0, m))
  BY <1>4, <1>5, Zenon DEF Apply
<1> QED BY <1>2, <1>6, <1>7, Zenon DEF Rebuilds

LEMMA InsertRebuilds ==
    ASSUME NEW b, b \in Seq(Nat), NEW t, t \in Seq(Nat), NEW s, NEW n, Rebuilds(b, t, s, n),
           NEW m, m \in Nat, n <= m, m <= Len(t)
    PROVE  Rebuilds(b, t, Cat(s, AppendInsert(Slice(t, n, m))), m)
<1>0. n \in Nat /\ n <= Len(t)
  BY DEF Rebuilds
<1>1. PICK B, T, z, r, x, w : /\ B = Len(b) /\ T = Len(t) /\ z = 0 /\ r = Slice(t, z, n) /\ x = Slice(t, n, m)
                              /\ w = AppendInsert(x)
  OBVIOUS
<1>2. r \in Seq(Nat) /\ x \in Seq(Nat)
  <2>1. z \in Nat /\ z <= n
    BY <1>0, <1>1
  <2>2. Slice(t, z, n) \in Seq(Nat) /\ Slice(t, n, m) \in Seq(Nat)
    BY <1>0, <2>1, SliceFacts
  <2> QED BY <1>1, <2>2
<1>3. r = Slice(t, 0, n)
  BY <1>1
<1>4. \E d : d \in Ready(B, T, r)
  BY <1>1, <1>3 DEF Rebuilds
<1>5. \A d \in Ready(B, T, r) : w \in Seq(Octet) /\ Run(b, d, w) \in Ready(B, T, Cat(r, x))
  BY <1>1, <1>2, InsertRuns
<1>6. w \in Seq(Octet)
  BY <1>4, <1>5
<1>7. \A d \in Ready(Len(b), Len(t), Slice(t, 0, n)) :
          Run(b, d, w) \in Ready(Len(b), Len(t), Cat(Slice(t, 0, n), Slice(t, n, m)))
  BY <1>1, <1>3, <1>5, Zenon
<1>8. Rebuilds(b, t, Cat(s, w), m)
  BY <1>6, <1>7, RebuildsMore
<1> QED BY <1>1, <1>8, Zenon

LEMMA CopyRebuilds ==
    ASSUME NEW b, b \in Seq(Nat), Len(b) <= MaxBase, NEW t, t \in Seq(Nat), NEW s, NEW n, Rebuilds(b, t, s, n),
           NEW o, o \in Nat, NEW l, l \in Nat, Agree(b, o, t, n, l), NEW m, m = n + l
    PROVE  Rebuilds(b, t, Cat(s, AppendCopy(o, l)), m)
<1>0. n \in Nat /\ n <= Len(t) /\ o + l <= Len(b) /\ m <= Len(t) /\ m \in Nat /\ n <= m /\ m - n = l
  BY DEF Rebuilds, Agree
<1>1. PICK B, T, z, r, x, w, e : /\ B = Len(b) /\ T = Len(t) /\ z = 0 /\ r = Slice(t, z, n) /\ x = Slice(t, n, m)
                                 /\ w = AppendCopy(o, l) /\ e = o + l
  OBVIOUS
<1>2. r \in Seq(Nat)
  <2>1. z \in Nat /\ z <= n
    BY <1>0, <1>1
  <2>2. Slice(t, z, n) \in Seq(Nat)
    BY <1>0, <2>1, SliceFacts
  <2> QED BY <1>1, <2>2
<1>3. r = Slice(t, 0, n)
  BY <1>1
<1>4. x = Slice(b, o, e)
  <2>1. e \in Nat /\ o <= e /\ e <= Len(b) /\ e - o = l
    BY <1>0, <1>1
  <2>2. PICK y : y = Slice(b, o, e)
    OBVIOUS
  <2>3. y \in Seq(Nat) /\ Len(y) = e - o /\ \A i \in 1..(e - o) : y[i] = b[o + i]
    <3>1. SliceOf(y, b, o, e)
      BY <2>1, <2>2, SliceIs
    <3> QED BY <3>1 DEF SliceOf
  <2>4. x \in Seq(Nat) /\ Len(x) = m - n /\ \A i \in 1..(m - n) : x[i] = t[n + i]
    <3>1. ASSUME NEW k, k \in Nat, n <= k, k <= Len(t)
          PROVE  Slice(t, n, k) \in Seq(Nat) /\ Len(Slice(t, n, k)) = k - n /\ \A i \in 1..(k - n) : Slice(t, n, k)[i] = t[n + i]
      <4>1. n \in Nat
        BY <1>0
      <4> QED BY <3>1, <4>1, SliceFacts
    <3>2. Slice(t, n, m) \in Seq(Nat) /\ Len(Slice(t, n, m)) = m - n /\ \A i \in 1..(m - n) : Slice(t, n, m)[i] = t[n + i]
      BY <1>0, <3>1, Zenon
    <3> QED BY <1>1, <3>2, Zenon
  <2>5. \A i \in 1..l : b[o + i] = t[n + i]
    BY DEF Agree
  <2>6. Len(x) = Len(y) /\ \A i \in 1..Len(x) : x[i] = y[i]
    BY <1>0, <2>1, <2>3, <2>4, <2>5
  <2>7. x = y
    BY <2>3, <2>4, <2>6, SeqEqual
  <2> QED BY <2>2, <2>7
<1>5. \E d : d \in Ready(B, T, r)
  BY <1>1, <1>3 DEF Rebuilds
<1>6. \A d \in Ready(B, T, r) : w \in Seq(Octet) /\ Run(b, d, w) \in Ready(B, T, Cat(r, x))
  <2> TAKE d \in Ready(B, T, r)
  <2>1. AppendCopy(o, l) \in Seq(Octet) /\ Run(b, d, AppendCopy(o, l)) \in Ready(B, T, Cat(r, Slice(b, o, o + l)))
    BY <1>0, <1>2, CopyRuns
  <2> QED BY <1>1, <1>4, <2>1
<1>7. w \in Seq(Octet)
  BY <1>5, <1>6
<1>8. \A d \in Ready(Len(b), Len(t), Slice(t, 0, n)) :
          Run(b, d, w) \in Ready(Len(b), Len(t), Cat(Slice(t, 0, n), Slice(t, n, m)))
  BY <1>1, <1>3, <1>6, Zenon
<1>9. Rebuilds(b, t, Cat(s, w), m)
  BY <1>0, <1>7, <1>8, RebuildsMore
<1> QED BY <1>1, <1>9, Zenon

------------------------------------------------------------------------------
(* What the stream rebuilds, at every step of the scan.                     *)

Rebuilt(n) ==
    /\ Rebuilds(base, target, out, n)
    /\ (pc = "scan" => n = insertStart) /\ (pc = "some" => n = Len(target))

RebuiltInv == DeltaInv /\ \E n : Rebuilt(n)

LEMMA RebuiltStep ==
    ASSUME DeltaInv, NEW n, Rebuilt(n), DLNext
    PROVE  \E m : Rebuilt(m)'
<1>0. PICK b, t, s, i, c : b = base /\ t = target /\ s = out /\ i = insertStart /\ c = cursor
  OBVIOUS
<1>1. /\ b \in Seq(Nat) /\ Len(b) <= MaxBase /\ t \in Seq(Nat) /\ Len(t) \in Nat
      /\ c \in Nat /\ c <= Len(t) /\ i \in Nat /\ i <= c
  BY <1>0 DEF DeltaInv, DLTypeOK
<1>2. base' = b /\ target' = t
  BY <1>0 DEF DLNext, GiveUp, Match, Slide, Finish, inputs
<1>3. Rebuilds(b, t, s, n) /\ (pc = "scan" => n = i)
  BY <1>0 DEF Rebuilt
<1>4. CASE GiveUp
  <2>1. out' = s /\ pc' = "none"
    BY <1>0, <1>4 DEF GiveUp
  <2>2. Rebuilds(base', target', out', n)
    BY <1>2, <1>3, <2>1
  <2>3. Rebuilt(n)'
    BY <2>1, <2>2 DEF Rebuilt
  <2> QED BY <2>3
<1>5. CASE Slide
  <2>1. out' = s /\ pc = "scan" /\ pc' = "scan" /\ insertStart' = i
    BY <1>0, <1>5 DEF Slide, Scanning
  <2>2. Rebuilds(base', target', out', n) /\ n = i
    BY <1>2, <1>3, <2>1
  <2>3. Rebuilt(n)'
    BY <2>1, <2>2 DEF Rebuilt
  <2> QED BY <2>3
<1>6. CASE Finish
  <2>1. PICK m, w : m = Len(t) /\ w = AppendInsert(Slice(t, n, m))
    OBVIOUS
  <2>2. n = i /\ pc' \in {"some", "none"} /\ out' = Cat(s, AppendInsert(Slice(t, i, Len(t))))
    BY <1>0, <1>3, <1>6 DEF Finish, Cat
  <2>3. out' = Cat(s, w)
    BY <2>1, <2>2
  <2>4. m \in Nat /\ n <= m /\ m <= Len(t)
    BY <1>1, <2>1, <2>2
  <2>5. Rebuilds(b, t, Cat(s, AppendInsert(Slice(t, n, m))), m)
    BY <1>1, <1>3, <2>4, InsertRebuilds
  <2>6. Rebuilds(base', target', out', m) /\ m = Len(target')
    BY <1>2, <2>1, <2>3, <2>5
  <2>7. Rebuilt(m)'
    BY <2>2, <2>6 DEF Rebuilt
  <2> QED BY <2>7
<1>7. CASE Match
  <2>1. PICK x \in Nominated :
            /\ out' = (out \o AppendInsert(Slice(target, insertStart, cursor)))
                          \o AppendCopy(slots[x].next - 1, MatchLen(slots[x].next - 1))
            /\ cursor' = cursor + MatchLen(slots[x].next - 1)
    BY <1>7 DEF Match
  <2>2. Matches(slots[x].next - 1, MatchLen(slots[x].next - 1))
    BY <1>7, <2>1, NominatedMatches DEF Match
  <2>3. PICK o, l, m, u : /\ o = slots[x].next - 1 /\ l = MatchLen(slots[x].next - 1) /\ m = c + l
                          /\ u = Cat(s, AppendInsert(Slice(t, n, c)))
    OBVIOUS
  <2>4. n = i /\ pc = "scan" /\ pc' = "scan" /\ insertStart' = m
    BY <1>0, <1>3, <1>7, <2>1, <2>3 DEF Match, Scanning
  <2>5. o \in Nat /\ l \in Nat /\ Agree(b, o, t, c, l)
    BY <1>0, <2>2, <2>3 DEF Matches
  <2>6. out' = Cat(u, AppendCopy(o, l))
    BY <1>0, <2>1, <2>3, <2>4 DEF Cat
  <2>7. Rebuilds(b, t, u, c)
    <3>1. n <= c
      BY <1>1, <2>4
    <3>2. Rebuilds(b, t, Cat(s, AppendInsert(Slice(t, n, c))), c)
      BY <1>1, <1>3, <3>1, InsertRebuilds
    <3> QED BY <2>3, <3>2
  <2>8. Rebuilds(b, t, Cat(u, AppendCopy(o, l)), m)
    BY <1>1, <2>3, <2>5, <2>7, CopyRebuilds
  <2>9. Rebuilds(base', target', out', m)
    BY <1>2, <2>6, <2>8
  <2>10. Rebuilt(m)'
    BY <2>4, <2>9 DEF Rebuilt
  <2> QED BY <2>10
<1> QED BY <1>4, <1>5, <1>6, <1>7 DEF DLNext

\* At every turn of make_delta's loop the instructions written so far rebuild
\* the target up to the pending literal run from the base, and a returned
\* delta rebuilds the whole target, under the true sizes: a client that
\* applies the delta gets the blob.
THEOREM DeltasRebuild == DLSpec => []Reconstructs
<1>1. DLInit => RebuiltInv
  <2> SUFFICES ASSUME DLInit PROVE RebuiltInv
    OBVIOUS
  <2>1. DeltaInv
    BY DeltaInit
  <2>2. base \in Seq(Nat) /\ target \in Seq(Nat)
    BY <2>1 DEF DeltaInv
  <2>3. pc = "scan" /\ insertStart = 0 /\ out = Cat(EncodeSize(Len(base)), EncodeSize(Len(target)))
    BY DEF DLInit, DLStart, Cat
  <2>4. Rebuilds(base, target, out, 0)
    BY <2>2, <2>3, HeaderRebuilds
  <2>5. Rebuilt(0)
    BY <2>3, <2>4 DEF Rebuilt
  <2> QED BY <2>1, <2>5 DEF RebuiltInv
<1>2. RebuiltInv /\ [DLNext]_dlVars => RebuiltInv'
  <2> SUFFICES ASSUME RebuiltInv, [DLNext]_dlVars PROVE RebuiltInv'
    OBVIOUS
  <2>1. DeltaInv'
    BY DeltaStep DEF RebuiltInv
  <2>2. PICK n : Rebuilt(n)
    BY DEF RebuiltInv
  <2>3. CASE UNCHANGED dlVars
    <3>1. Rebuilt(n)'
      BY <2>2, <2>3 DEF Rebuilt, dlVars, inputs
    <3> QED BY <2>1, <3>1 DEF RebuiltInv
  <2>4. CASE DLNext
    <3>1. \E m : Rebuilt(m)'
      BY <2>2, <2>4, RebuiltStep DEF RebuiltInv
    <3> QED BY <2>1, <3>1 DEF RebuiltInv
  <2> QED BY <2>3, <2>4
<1>3. RebuiltInv => Reconstructs
  <2> SUFFICES ASSUME RebuiltInv PROVE Reconstructs
    OBVIOUS
  <2>1. PICK n : Rebuilt(n)
    BY DEF RebuiltInv
  <2>2. PICK d : d = Apply(base, out)
    OBVIOUS
  <2>3. DLTypeOK /\ target \in Seq(Nat)
    BY DEF RebuiltInv, DeltaInv
  <2>4. /\ d.mode = "op" /\ d.baseSize = Len(base) /\ d.targetSize = Len(target) /\ d.result = Slice(target, 0, n)
        /\ n \in Nat /\ n <= Len(target) /\ (pc = "scan" => n = insertStart) /\ (pc = "some" => n = Len(target))
    BY <2>1, <2>2 DEF Rebuilt, Rebuilds, Ready
  <2>5. Len(d.result) = n
    <3>1. PICK z : z = 0
      OBVIOUS
    <3>2. z \in Nat /\ z <= n /\ n - z = n
      BY <2>4, <3>1
    <3>3. Len(Slice(target, z, n)) = n - z
      BY <2>3, <2>4, <3>2, SliceFacts
    <3> QED BY <2>4, <3>1, <3>2, <3>3
  <2> QED BY <2>2, <2>3, <2>4, <2>5, Zenon DEF Reconstructs
<1> QED BY <1>1, <1>2, <1>3, PTL DEF DLSpec

(***************************************************************************)
(* The order of a pack.  The schedule lists every object and keeps the     *)
(* revisions of a path together; the entries follow it; the window holds   *)
(* the latest blobs that were written in full; a delta rests on one of     *)
(* them, and none that the window offered was smaller.                     *)
(***************************************************************************)

------------------------------------------------------------------------------
(* The schedule *)

KeyType == Int \X Int \X Int \X Int

LEMMA BeforeOrders ==
    ASSUME NEW x \in KeyType, NEW y \in KeyType, NEW z \in KeyType
    PROVE  /\ ~Before(x, x)
           /\ Before(x, y) /\ Before(y, z) => Before(x, z)
           /\ x # y => Before(x, y) \/ Before(y, x)
<1>1. PICK a1, a2, a3, a4, b1, b2, b3, b4, c1, c2, c3, c4 :
         /\ x = <<a1, a2, a3, a4>> /\ y = <<b1, b2, b3, b4>> /\ z = <<c1, c2, c3, c4>>
         /\ {a1, a2, a3, a4, b1, b2, b3, b4, c1, c2, c3, c4} \subseteq Int
  BY DEF KeyType
<1>2. /\ x[1] = a1 /\ x[2] = a2 /\ x[3] = a3 /\ x[4] = a4
      /\ y[1] = b1 /\ y[2] = b2 /\ y[3] = b3 /\ y[4] = b4
      /\ z[1] = c1 /\ z[2] = c2 /\ z[3] = c3 /\ z[4] = c4
  BY <1>1
<1>3. x # y => a1 # b1 \/ a2 # b2 \/ a3 # b3 \/ a4 # b4
  BY <1>1
<1> QED BY <1>1, <1>2, <1>3 DEF Before

\* How many come before a key tells where it is.
Ranks(keys) == [k \in keys |-> Cardinality({x \in keys : Before(x, k)}) + 1]

LEMMA RankType ==
    ASSUME NEW keys \in SUBSET KeyType, IsFiniteSet(keys), NEW k \in keys
    PROVE  /\ Ranks(keys)[k] \in 1..Cardinality(keys)
           /\ \A x \in keys : Before(x, k) => Ranks(keys)[x] < Ranks(keys)[k]
<1> DEFINE Below(y) == {x \in keys : Before(x, y)}
<1>0. \A y \in keys : /\ IsFiniteSet(Below(y)) /\ Cardinality(Below(y)) \in Nat
                      /\ Ranks(keys)[y] = Cardinality(Below(y)) + 1
  <2>1. ASSUME NEW y \in keys PROVE IsFiniteSet(Below(y))
    <3>1. Below(y) \in SUBSET keys
      OBVIOUS
    <3> QED BY <3>1, FS_Subset
  <2>2. ASSUME NEW y \in keys PROVE Cardinality(Below(y)) \in Nat
    BY <2>1, FS_CardinalityType
  <2> QED BY <2>1, <2>2 DEF Ranks
<1>1. Ranks(keys)[k] \in 1..Cardinality(keys)
  <2>1. Below(k) \in SUBSET (keys \ {k})
    BY BeforeOrders
  <2>2. IsFiniteSet(keys \ {k}) /\ Cardinality(keys \ {k}) = Cardinality(keys) - 1
    BY FS_RemoveElement
  <2>3. Cardinality(Below(k)) <= Cardinality(keys) - 1
    BY <2>1, <2>2, FS_Subset
  <2>4. Cardinality(keys) \in Nat
    BY FS_CardinalityType
  <2> HIDE DEF Below
  <2>5. Cardinality(Below(k)) \in Nat /\ Ranks(keys)[k] = Cardinality(Below(k)) + 1
    BY <1>0
  <2> QED BY <2>3, <2>4, <2>5
<1>2. ASSUME NEW x \in keys, Before(x, k) PROVE Ranks(keys)[x] < Ranks(keys)[k]
  <2>1. Below(x) \cup {x} \in SUBSET Below(k)
    <3>1. ASSUME NEW y \in Below(x) PROVE y \in Below(k)
      BY <1>2, BeforeOrders
    <3> QED BY <1>2, <3>1
  <2>2. x \notin Below(x)
    BY BeforeOrders
  <2>3. Cardinality(Below(x) \cup {x}) = Cardinality(Below(x)) + 1
    BY <1>0, <2>2, FS_AddElement
  <2> HIDE DEF Below
  <2>30. IsFiniteSet(Below(k))
    BY <1>0
  <2>4. Cardinality(Below(x) \cup {x}) <= Cardinality(Below(k))
    BY <2>1, <2>30, FS_Subset
  <2> QED BY <1>0, <2>3, <2>4
<1> QED BY <1>1, <1>2

\* Sorted lists every key once, in the order of Before.
LEMMA SortedFacts ==
    ASSUME NEW keys \in SUBSET KeyType, IsFiniteSet(keys), NEW n, n = Cardinality(keys)
    PROVE  /\ n \in Nat /\ Sorted(keys) \in [1..n -> keys]
           /\ \A k \in keys : \E i \in 1..n : Sorted(keys)[i] = k
           /\ \A i, j \in 1..n : i < j => Before(Sorted(keys)[i], Sorted(keys)[j])
<1> DEFINE r == Ranks(keys)
           s == Sorted(keys)
<1>0. n \in Nat
  BY FS_CardinalityType
<1>1. r \in [keys -> 1..n] /\ \A x, k \in keys : Before(x, k) => r[x] < r[k]
  <2>1. r = [k \in keys |-> r[k]]
    BY DEF Ranks
  <2> HIDE DEF r
  <2>2. \A k \in keys : r[k] \in 1..n /\ \A x \in keys : Before(x, k) => r[x] < r[k]
    BY RankType DEF r
  <2> QED BY <2>1, <2>2
<1>2. \A x, k \in keys : r[x] = r[k] => x = k
  <2> HIDE DEF r
  <2> SUFFICES ASSUME NEW x \in keys, NEW k \in keys, r[x] = r[k], x # k PROVE FALSE
    OBVIOUS
  <2>1. Before(x, k) \/ Before(k, x)
    BY BeforeOrders
  <2>2. r[x] \in Nat /\ r[k] \in Nat
    BY <1>0, <1>1
  <2> QED BY <1>1, <2>1, <2>2
<1>3. \A i \in 1..n : \E k \in keys : r[k] = i
  <2> HIDE DEF r
  <2>1. r \in Injection(keys, 1..n)
    BY <1>1, <1>2 DEF Injection, IsInjective
  <2>2. IsFiniteSet(1..n) /\ Cardinality(1..n) = n
    BY <1>0, FS_Interval
  <2>3. r \in Surjection(keys, 1..n)
    BY <2>1, <2>2, FS_Injection
  <2> QED BY <2>3 DEF Surjection
<1>4. s = [i \in 1..n |-> CHOOSE k \in keys : Cardinality({x \in keys : Before(x, k)}) = i - 1]
  BY DEF Sorted
<1>5. ASSUME NEW i \in 1..n PROVE s[i] \in keys /\ r[s[i]] = i
  <2> DEFINE Card(k) == Cardinality({x \in keys : Before(x, k)})
  <2>1. \A k \in keys : r[k] = Card(k) + 1 /\ Card(k) \in Nat
    <3>1. ASSUME NEW k \in keys PROVE IsFiniteSet({x \in keys : Before(x, k)})
      <4>1. {x \in keys : Before(x, k)} \in SUBSET keys
        OBVIOUS
      <4> QED BY <4>1, FS_Subset
    <3> QED BY <3>1, FS_CardinalityType DEF Ranks
  <2>2. s[i] = CHOOSE k \in keys : Card(k) = i - 1
    BY <1>4
  <2> HIDE DEF s, r, Card
  <2>3. \E k \in keys : Card(k) = i - 1
    BY <1>3, <2>1
  <2>4. s[i] \in keys /\ Card(s[i]) = i - 1
    BY <2>2, <2>3
  <2> QED BY <1>0, <2>1, <2>4
<1> HIDE DEF s, r
<1>6. s \in [1..n -> keys]
  BY <1>4, <1>5
<1>7. ASSUME NEW k \in keys PROVE \E i \in 1..n : s[i] = k
  BY <1>1, <1>2, <1>5
<1>8. ASSUME NEW i \in 1..n, NEW j \in 1..n, i < j PROVE Before(s[i], s[j])
  <2>1. s[i] \in keys /\ s[j] \in keys /\ r[s[i]] = i /\ r[s[j]] = j
    BY <1>5
  <2>2. ~Before(s[j], s[i]) /\ s[i] # s[j]
    BY <1>0, <1>1, <1>8, <2>1
  <2> QED BY <2>1, <2>2, BeforeOrders
<1> QED BY <1>0, <1>6, <1>7, <1>8 DEF s

LEMMA Parameters ==
    /\ Collected \in Nat /\ Paths \subseteq Nat /\ NameHash \in [Paths -> Nat]
    /\ RawSizes \subseteq Nat \ {0} /\ Window \in Nat /\ Window > 0
    /\ MinBlob \in Nat /\ MaxBlob \in Nat /\ CacheBytes \in Nat /\ MaxBlob <= CacheBytes
BY PackOutAssumption DEF PackOutAssumption

GivenTypes ==
    /\ kind \in [Objects -> {"blob", "other"}] /\ path \in [Objects -> Paths \cup {NoPath}]
    /\ size \in [Objects -> Nat] /\ corrupt \in SUBSET Objects /\ ofs \in BOOLEAN

LEMMA KeyFacts ==
    ASSUME GivenTypes, NEW o \in Objects
    PROVE  /\ SortKey(o) \in KeyType /\ SortKey(o)[4] = o
           /\ Scheduled(o) => SortKey(o)[1] = NameHash[path[o]] /\ SortKey(o)[1] \in Nat /\ SortKey(o)[2] = path[o]
           /\ ~Scheduled(o) => SortKey(o)[1] = NoGroup
<1>1. o \in Int
  BY Parameters DEF Objects
<1>2. CASE Scheduled(o)
  <2>1. path[o] \in Paths
    BY <1>2 DEF GivenTypes, Scheduled
  <2>2. path[o] \in Int /\ NameHash[path[o]] \in Nat /\ size[o] \in Int
    <3>1. size[o] \in Int
      BY DEF GivenTypes
    <3>2. path[o] \in Nat /\ NameHash[path[o]] \in Nat
      BY <2>1, Parameters
    <3> QED BY <3>1, <3>2
  <2>3. SortKey(o) = <<NameHash[path[o]], path[o], size[o], o>>
    BY <1>2 DEF SortKey
  <2> QED BY <1>1, <1>2, <2>2, <2>3 DEF KeyType
<1>3. CASE ~Scheduled(o)
  <2>1. SortKey(o) = <<NoGroup, NoPath, 0, o>>
    BY <1>3 DEF SortKey
  <2> QED BY <1>1, <1>3, <2>1 DEF KeyType, NoGroup, NoPath
<1> QED BY <1>2, <1>3

\* There are as many keys as objects.
LEMMA KeysFacts ==
    ASSUME GivenTypes, NEW keys, keys = {SortKey(o) : o \in Objects}
    PROVE  /\ keys \in SUBSET KeyType /\ IsFiniteSet(keys) /\ Cardinality(keys) = Collected
           /\ \A k \in keys : k[4] \in Objects /\ k = SortKey(k[4])
<1>1. keys \in SUBSET KeyType /\ \A k \in keys : k[4] \in Objects /\ k = SortKey(k[4])
  BY KeyFacts
<1>2. IsFiniteSet(Objects) /\ Cardinality(Objects) = Collected
  <2>1. Collected \in Int /\ 1 \in Int /\ Collected >= 0
    BY Parameters
  <2> QED BY <2>1, FS_Interval DEF Objects
<1> DEFINE f == [o \in Objects |-> SortKey(o)]
<1>3. f \in Bijection(Objects, keys)
  <2>1. f \in [Objects -> keys] /\ \A k \in keys : \E o \in Objects : f[o] = k
    OBVIOUS
  <2>2. \A a, b \in Objects : f[a] = f[b] => a = b
    <3>1. \A a \in Objects : f[a][4] = a
      BY KeyFacts
    <3> HIDE DEF f
    <3> QED BY <3>1
  <2> HIDE DEF f
  <2> QED BY <2>1, <2>2 DEF Bijection, Injection, Surjection, IsInjective
<1>4. ExistsBijection(Objects, keys)
  BY <1>3 DEF ExistsBijection
<1> QED BY <1>1, <1>2, <1>4, FS_Bijection

\* The revisions of a path follow each other.
Together(s) ==
    \A i, j \in Objects : \A k \in i..j :
        Scheduled(s[i].oid) /\ Scheduled(s[j].oid) /\ path[s[i].oid] = path[s[j].oid]
            => path[s[k].oid] = path[s[i].oid]

LEMMA ScheduleFacts ==
    ASSUME GivenTypes
    PROVE  /\ ScheduleForOfs \in [Objects -> [oid : Objects, group : Int]]
           /\ \A o \in Objects : \E i \in Objects : ScheduleForOfs[i].oid = o
           /\ Together(ScheduleForOfs)
<1>1. PICK keys : keys = {SortKey(o) : o \in Objects}
  OBVIOUS
<1>2. /\ keys \in SUBSET KeyType /\ IsFiniteSet(keys) /\ Cardinality(keys) = Collected
      /\ \A k \in keys : k[4] \in Objects /\ k = SortKey(k[4])
  BY <1>1, KeysFacts
<1>3. PICK s : s = Sorted(keys)
  OBVIOUS
<1>4. PICK t : t = ScheduleForOfs
  OBVIOUS
<1>5. /\ s \in [Objects -> keys] /\ \A k \in keys : \E i \in Objects : s[i] = k
      /\ \A i, j \in Objects : i < j => Before(s[i], s[j])
  BY <1>2, <1>3, SortedFacts DEF Objects
<1>6. t = [i \in Objects |-> [oid |-> s[i][4], group |-> s[i][1]]]
  BY <1>1, <1>3, <1>4 DEF ScheduleForOfs
<1>7. \A i \in Objects : /\ s[i] \in KeyType /\ s[i][4] \in Objects /\ s[i][1] \in Int /\ s[i][2] \in Int
                         /\ t[i].oid = s[i][4] /\ t[i].group = s[i][1] /\ s[i] = SortKey(t[i].oid)
  <2> SUFFICES ASSUME NEW i \in Objects
               PROVE  /\ s[i] \in KeyType /\ s[i][4] \in Objects /\ s[i][1] \in Int /\ s[i][2] \in Int
                      /\ t[i].oid = s[i][4] /\ t[i].group = s[i][1] /\ s[i] = SortKey(t[i].oid)
    OBVIOUS
  <2>1. PICK k \in keys : k = s[i]
    BY <1>5
  <2>2. k \in KeyType /\ k[4] \in Objects /\ k = SortKey(k[4])
    BY <1>2
  <2>3. k[1] \in Int /\ k[2] \in Int
    BY <2>2 DEF KeyType
  <2>4. t[i].oid = s[i][4] /\ t[i].group = s[i][1]
    BY <1>6
  <2> QED BY <2>1, <2>2, <2>3, <2>4
<1>8. t \in [Objects -> [oid : Objects, group : Int]]
  BY <1>6, <1>7
<1>9. ASSUME NEW o \in Objects PROVE \E i \in Objects : t[i].oid = o
  <2>1. PICK i \in Objects : s[i] = SortKey(o)
    BY <1>1, <1>5
  <2> QED BY <1>7, <2>1, KeyFacts
<1>10. ASSUME NEW i \in Objects, NEW j \in Objects, NEW k \in i..j, Scheduled(t[i].oid), Scheduled(t[j].oid),
              path[t[i].oid] = path[t[j].oid]
       PROVE  path[t[k].oid] = path[t[i].oid]
  <2>1. k \in Objects /\ i \in Int /\ j \in Int
    BY Parameters DEF Objects
  <2>2. PICK x, y, z : x = s[i] /\ y = s[j] /\ z = s[k]
    OBVIOUS
  <2>3. /\ x[1] \in Int /\ x[2] \in Int /\ y[1] \in Int /\ y[2] \in Int /\ z[1] \in Int /\ z[2] \in Int
        /\ x = SortKey(t[i].oid) /\ y = SortKey(t[j].oid) /\ z = SortKey(t[k].oid)
        /\ t[i].oid \in Objects /\ t[j].oid \in Objects /\ t[k].oid \in Objects
    BY <1>7, <2>1, <2>2
  <2>4. /\ x[1] = NameHash[path[t[i].oid]] /\ x[1] \in Nat /\ x[2] = path[t[i].oid]
        /\ y[1] = NameHash[path[t[j].oid]] /\ y[2] = path[t[j].oid]
    BY <1>10, <2>3, KeyFacts
  <2>5. (x = z \/ Before(x, z)) /\ (z = y \/ Before(z, y))
    BY <1>5, <2>1, <2>2
  <2>6. x[1] = y[1] /\ x[2] = y[2]
    BY <1>10, <2>4
  <2>7. z[1] = x[1] /\ z[2] = x[2]
    BY <2>3, <2>5, <2>6 DEF Before
  <2>8. Scheduled(t[k].oid)
    BY <2>3, <2>4, <2>7, KeyFacts DEF NoGroup
  <2> QED BY <2>3, <2>4, <2>7, <2>8, KeyFacts
<1> QED BY <1>4, <1>8, <1>9, <1>10 DEF Together

------------------------------------------------------------------------------
(* The window *)

CandType == [oid : Objects, group : Int, index : Nat]

\* Held, a candidate at a time.
LEMMA HeldSteps ==
    ASSUME GivenTypes, NEW c \in Seq(CandType)
    PROVE  \E f : /\ Held(size, c) = f[Len(c)] /\ f[0] = 0
                  /\ \A n \in 1..(Len(c)) : f[n] = f[n - 1] + size[c[n].oid]
                  /\ \A n \in 0..(Len(c)) : f[n] \in Nat
<1> DEFINE Top == Len(c)
           Dom == Nat
           G(n, v) == v + size[c[n].oid]
           Go(n, v) == IF n < Top THEN G(n + 1, v) ELSE v
           D == [y \in Nat \X Dom |-> Go(y[1], y[2])]
<1>0. Top \in Nat
  OBVIOUS
<1>1. 0 \in Dom
  OBVIOUS
<1>2. ASSUME NEW n \in 1..Top, NEW v \in Dom PROVE G(n, v) \in Dom
  <2>1. n \in 1..Len(c)
    BY DEF Top
  <2>2. c[n] \in CandType
    BY <2>1
  <2>3. c[n].oid \in Objects
    BY <2>2 DEF CandType
  <2>4. size[c[n].oid] \in Nat
    BY <2>3 DEF GivenTypes
  <2> QED BY <2>4
<1> HIDE DEF Top, Dom, G
<1>21. ASSUME NEW n \in Nat, NEW v \in Dom PROVE Go(n, v) \in Dom
  <2>1. n < Top => n + 1 \in 1..Top
    BY <1>0
  <2> QED BY <1>2, <2>1
<1> HIDE DEF Go
<1>3. D \in [Nat \X Dom -> Dom] /\ \A n \in Nat, v \in Dom : D[<<n, v>>] = Go(n, v)
  <2>1. ASSUME NEW y \in Nat \X Dom PROVE Go(y[1], y[2]) \in Dom
    BY <1>21
  <2> QED BY <2>1
<1> HIDE DEF D
<1>4. PICK g : g \in [0..Top -> Dom] /\ g = [n \in 0..Top |-> IF n = 0 THEN 0 ELSE D[<<n - 1, g[n - 1]>>]]
  <2>1. PICK g : LooksBack(g, Top, Dom, 0, D)
    BY <1>0, <1>1, <1>3, BoundedRecursion
  <2> QED BY <2>1 DEF LooksBack
<1> DEFINE Row(h, n) == IF n = 0 THEN 0 ELSE G(n, h[n - 1])
<1>5. g = [n \in 0..Top |-> Row(g, n)]
  <2>1. ASSUME NEW n \in 0..Top PROVE (IF n = 0 THEN 0 ELSE D[<<n - 1, g[n - 1]>>]) = Row(g, n)
    <3>1. CASE n = 0
      BY <3>1
    <3>2. CASE n # 0
      <4>1. n - 1 \in Nat /\ n - 1 \in 0..Top /\ n - 1 < Top /\ (n - 1) + 1 = n
        BY <1>0, <3>2
      <4>2. g[n - 1] \in Dom
        BY <1>4, <4>1
      <4> QED BY <1>3, <3>2, <4>1, <4>2 DEF Go
    <3> QED BY <3>1, <3>2
  <2> HIDE DEF Row
  <2> QED BY <1>4, <2>1
<1> DEFINE f[n \in 0..Top] == Row(f, n)
<1>6. f = [n \in 0..Top |-> Row(f, n)]
  <2> HIDE DEF Row
  <2> QED BY <1>5
<1>7. Held(size, c) = f[Top]
  BY DEF Held, Top, G
<1> HIDE DEF f
<1>8. f[0] = 0 /\ \A n \in 1..Top : f[n] = G(n, f[n - 1])
  <2>1. 0 \in 0..Top /\ \A n \in 1..Top : n \in 0..Top /\ n # 0
    BY <1>0
  <2>2. \A n \in 0..Top : f[n] = Row(f, n)
    <3> HIDE DEF Row
    <3> QED BY <1>6
  <2> QED BY <2>1, <2>2
<1> HIDE DEF Row
<1>9. \A n \in 1..Top : f[n - 1] \in Dom => f[n] \in Dom
  BY <1>2, <1>8
<1>10. \A n \in 0..Top : f[n] \in Dom
  BY <1>0, <1>1, <1>8, <1>9, BackTyped
<1> QED BY <1>7, <1>8, <1>10 DEF Top, Dom, G

\* BytesAfter, a candidate at a time.
LEMMA BytesSteps ==
    ASSUME GivenTypes, cache \in Seq(CandType), bytes \in Int, NEW pops \in 0..Len(cache)
    PROVE  \E f : /\ BytesAfter(pops) = f[pops] /\ f[0] = bytes
                  /\ \A n \in 1..(pops) : f[n] = f[n - 1] - size[cache[n].oid]
                  /\ \A n \in 0..(pops) : f[n] \in Int
<1> DEFINE Top == pops
           Dom == Int
           G(n, v) == v - size[cache[n].oid]
           Go(n, v) == IF n < Top THEN G(n + 1, v) ELSE v
           D == [y \in Nat \X Dom |-> Go(y[1], y[2])]
<1>0. Top \in Nat
  OBVIOUS
<1>1. bytes \in Dom
  OBVIOUS
<1>2. ASSUME NEW n \in 1..Top, NEW v \in Dom PROVE G(n, v) \in Dom
  <2>1. n \in 1..Len(cache)
    BY DEF Top
  <2>2. cache[n] \in CandType
    BY <2>1
  <2>3. cache[n].oid \in Objects
    BY <2>2 DEF CandType
  <2>4. size[cache[n].oid] \in Nat
    BY <2>3 DEF GivenTypes
  <2> QED BY <2>4
<1> HIDE DEF Top, Dom, G
<1>21. ASSUME NEW n \in Nat, NEW v \in Dom PROVE Go(n, v) \in Dom
  <2>1. n < Top => n + 1 \in 1..Top
    BY <1>0
  <2> QED BY <1>2, <2>1
<1> HIDE DEF Go
<1>3. D \in [Nat \X Dom -> Dom] /\ \A n \in Nat, v \in Dom : D[<<n, v>>] = Go(n, v)
  <2>1. ASSUME NEW y \in Nat \X Dom PROVE Go(y[1], y[2]) \in Dom
    BY <1>21
  <2> QED BY <2>1
<1> HIDE DEF D
<1>4. PICK g : g \in [0..Top -> Dom] /\ g = [n \in 0..Top |-> IF n = 0 THEN bytes ELSE D[<<n - 1, g[n - 1]>>]]
  <2>1. PICK g : LooksBack(g, Top, Dom, bytes, D)
    BY <1>0, <1>1, <1>3, BoundedRecursion
  <2> QED BY <2>1 DEF LooksBack
<1> DEFINE Row(h, n) == IF n = 0 THEN bytes ELSE G(n, h[n - 1])
<1>5. g = [n \in 0..Top |-> Row(g, n)]
  <2>1. ASSUME NEW n \in 0..Top PROVE (IF n = 0 THEN bytes ELSE D[<<n - 1, g[n - 1]>>]) = Row(g, n)
    <3>1. CASE n = 0
      BY <3>1
    <3>2. CASE n # 0
      <4>1. n - 1 \in Nat /\ n - 1 \in 0..Top /\ n - 1 < Top /\ (n - 1) + 1 = n
        BY <1>0, <3>2
      <4>2. g[n - 1] \in Dom
        BY <1>4, <4>1
      <4> QED BY <1>3, <3>2, <4>1, <4>2 DEF Go
    <3> QED BY <3>1, <3>2
  <2> HIDE DEF Row
  <2> QED BY <1>4, <2>1
<1> DEFINE f[n \in 0..Top] == Row(f, n)
<1>6. f = [n \in 0..Top |-> Row(f, n)]
  <2> HIDE DEF Row
  <2> QED BY <1>5
<1>7. BytesAfter(pops) = f[Top]
  BY DEF BytesAfter, Top, G
<1> HIDE DEF f
<1>8. f[0] = bytes /\ \A n \in 1..Top : f[n] = G(n, f[n - 1])
  <2>1. 0 \in 0..Top /\ \A n \in 1..Top : n \in 0..Top /\ n # 0
    BY <1>0
  <2>2. \A n \in 0..Top : f[n] = Row(f, n)
    <3> HIDE DEF Row
    <3> QED BY <1>6
  <2> QED BY <2>1, <2>2
<1> HIDE DEF Row
<1>9. \A n \in 1..Top : f[n - 1] \in Dom => f[n] \in Dom
  BY <1>2, <1>8
<1>10. \A n \in 0..Top : f[n] \in Dom
  BY <1>0, <1>1, <1>8, <1>9, BackTyped
<1> QED BY <1>7, <1>8, <1>10 DEF Top, Dom, G

\* Best, a candidate at a time.
LEMMA BestSteps ==
    ASSUME cache \in Seq(CandType), NEW group, NEW raw, NEW limit
    PROVE  \E f : /\ Best(group, raw, limit) = f[Len(cache)] /\ f[0] = 0
                  /\ \A n \in 1..(Len(cache)) : f[n] = IF Displaces(cache[n], f[n - 1], group, raw, limit) THEN cache[n].index ELSE f[n - 1]
                  /\ \A n \in 0..(Len(cache)) : f[n] \in Nat
<1> DEFINE Top == Len(cache)
           Dom == Nat
           G(n, v) == IF Displaces(cache[n], v, group, raw, limit) THEN cache[n].index ELSE v
           Go(n, v) == IF n < Top THEN G(n + 1, v) ELSE v
           D == [y \in Nat \X Dom |-> Go(y[1], y[2])]
<1>0. Top \in Nat
  OBVIOUS
<1>1. 0 \in Dom
  OBVIOUS
<1>2. ASSUME NEW n \in 1..Top, NEW v \in Dom PROVE G(n, v) \in Dom
  <2>1. n \in 1..Len(cache)
    BY DEF Top
  <2>2. cache[n] \in CandType
    BY <2>1
  <2>3. cache[n].index \in Nat
    BY <2>2 DEF CandType
  <2> QED BY <2>3
<1> HIDE DEF Top, Dom, G
<1>21. ASSUME NEW n \in Nat, NEW v \in Dom PROVE Go(n, v) \in Dom
  <2>1. n < Top => n + 1 \in 1..Top
    BY <1>0
  <2> QED BY <1>2, <2>1
<1> HIDE DEF Go
<1>3. D \in [Nat \X Dom -> Dom] /\ \A n \in Nat, v \in Dom : D[<<n, v>>] = Go(n, v)
  <2>1. ASSUME NEW y \in Nat \X Dom PROVE Go(y[1], y[2]) \in Dom
    BY <1>21
  <2> QED BY <2>1
<1> HIDE DEF D
<1>4. PICK g : g \in [0..Top -> Dom] /\ g = [n \in 0..Top |-> IF n = 0 THEN 0 ELSE D[<<n - 1, g[n - 1]>>]]
  <2>1. PICK g : LooksBack(g, Top, Dom, 0, D)
    BY <1>0, <1>1, <1>3, BoundedRecursion
  <2> QED BY <2>1 DEF LooksBack
<1> DEFINE Row(h, n) == IF n = 0 THEN 0 ELSE G(n, h[n - 1])
<1>5. g = [n \in 0..Top |-> Row(g, n)]
  <2>1. ASSUME NEW n \in 0..Top PROVE (IF n = 0 THEN 0 ELSE D[<<n - 1, g[n - 1]>>]) = Row(g, n)
    <3>1. CASE n = 0
      BY <3>1
    <3>2. CASE n # 0
      <4>1. n - 1 \in Nat /\ n - 1 \in 0..Top /\ n - 1 < Top /\ (n - 1) + 1 = n
        BY <1>0, <3>2
      <4>2. g[n - 1] \in Dom
        BY <1>4, <4>1
      <4> QED BY <1>3, <3>2, <4>1, <4>2 DEF Go
    <3> QED BY <3>1, <3>2
  <2> HIDE DEF Row
  <2> QED BY <1>4, <2>1
<1> DEFINE f[n \in 0..Top] == Row(f, n)
<1>6. f = [n \in 0..Top |-> Row(f, n)]
  <2> HIDE DEF Row
  <2> QED BY <1>5
<1>7. Best(group, raw, limit) = f[Top]
  BY DEF Best, Top, G
<1> HIDE DEF f
<1>8. f[0] = 0 /\ \A n \in 1..Top : f[n] = G(n, f[n - 1])
  <2>1. 0 \in 0..Top /\ \A n \in 1..Top : n \in 0..Top /\ n # 0
    BY <1>0
  <2>2. \A n \in 0..Top : f[n] = Row(f, n)
    <3> HIDE DEF Row
    <3> QED BY <1>6
  <2> QED BY <2>1, <2>2
<1> HIDE DEF Row
<1>9. \A n \in 1..Top : f[n - 1] \in Dom => f[n] \in Dom
  BY <1>2, <1>8
<1>10. \A n \in 0..Top : f[n] \in Dom
  BY <1>0, <1>1, <1>8, <1>9, BackTyped
<1> QED BY <1>7, <1>8, <1>10 DEF Top, Dom, G

SumsTo(f, c, n) ==
    /\ f[0] = 0 /\ \A i \in 1..n : f[i] = f[i - 1] + size[c[i].oid]
    /\ \A i \in 0..n : f[i] \in Nat

LEMMA HeldSums ==
    ASSUME GivenTypes, NEW c, c \in Seq(CandType), NEW n, n = Len(c)
    PROVE  \E f : Held(size, c) = f[n] /\ SumsTo(f, c, n)
BY HeldSteps DEF SumsTo

\* Two recursions that take the same steps agree.
SameSteps(f, g, m) == f[0] = g[0] /\ \A n \in 1..m : f[n - 1] = g[n - 1] => f[n] = g[n]

LEMMA StepsAgree ==
    ASSUME NEW m, m \in Nat, NEW f, NEW g, SameSteps(f, g, m)
    PROVE  f[m] = g[m]
<1> DEFINE Same(n) == n <= m => f[n] = g[n]
           U == {n \in Nat : Same(n)}
<1>1. Same(0)
  BY DEF SameSteps
<1>2. ASSUME NEW n \in Nat, Same(n) PROVE Same(n + 1)
  <2> SUFFICES ASSUME n + 1 <= m PROVE f[n + 1] = g[n + 1]
    OBVIOUS
  <2>1. n + 1 \in 1..m /\ (n + 1) - 1 = n /\ n <= m
    OBVIOUS
  <2> QED BY <1>2, <2>1 DEF SameSteps
<1>3. U = Nat
  <2>1. 0 \in U /\ \A n \in U : n + 1 \in U
    <3> HIDE DEF Same
    <3> QED BY <1>1, <1>2
  <2> HIDE DEF U
  <2> QED BY <2>1, Induction DEF U
<1> QED BY <1>3

LEMMA HeldAppend ==
    ASSUME GivenTypes, NEW c \in Seq(CandType), NEW x \in CandType
    PROVE  /\ Held(size, <<>>) = 0 /\ Held(size, c) \in Nat
           /\ Held(size, Append(c, x)) = Held(size, c) + size[x.oid]
<1>1. PICK n, d : n = Len(c) /\ d = Append(c, x)
  OBVIOUS
<1>2. /\ n \in Nat /\ d \in Seq(CandType) /\ Len(d) = n + 1 /\ d[n + 1] = x
      /\ \A i \in 1..n : d[i] = c[i]
  BY <1>1
<1>3. PICK f : /\ Held(size, c) = f[n] /\ f[0] = 0 /\ \A i \in 1..n : f[i] = f[i - 1] + size[c[i].oid]
               /\ \A i \in 0..n : f[i] \in Nat
  <2>1. n = Len(c) /\ c \in Seq(CandType)
    BY <1>1
  <2>2. PICK f : Held(size, c) = f[n] /\ SumsTo(f, c, n)
    BY <2>1, HeldSums
  <2> QED BY <2>2 DEF SumsTo
<1>4. PICK g : /\ Held(size, d) = g[n + 1] /\ g[0] = 0 /\ \A i \in 1..(n + 1) : g[i] = g[i - 1] + size[d[i].oid]
  <2>1. n + 1 = Len(d)
    BY <1>2
  <2>2. PICK g : Held(size, d) = g[n + 1] /\ SumsTo(g, d, n + 1)
    BY <1>2, <2>1, HeldSums
  <2> QED BY <2>2 DEF SumsTo
<1>5. \A i \in 1..n : f[i - 1] = g[i - 1] => f[i] = g[i]
  <2>1. \A i \in 1..n : i \in 1..(n + 1)
    BY <1>2
  <2> QED BY <1>2, <1>3, <1>4, <2>1
<1>6. f[n] = g[n]
  <2>1. SameSteps(f, g, n)
    BY <1>3, <1>4, <1>5 DEF SameSteps
  <2> QED BY <1>2, <2>1, StepsAgree
<1>7. g[n + 1] = g[n] + size[x.oid]
  <2>1. n + 1 \in 1..(n + 1) /\ (n + 1) - 1 = n
    BY <1>2
  <2> QED BY <1>2, <1>4, <2>1
<1>8. Held(size, <<>>) = 0
  <2>1. <<>> \in Seq(CandType) /\ Len(<<>>) = 0
    OBVIOUS
  <2> QED BY <2>1, HeldSteps
<1>9. Held(size, c) \in Nat
  <2>1. n \in 0..n
    BY <1>2
  <2> QED BY <1>3, <2>1
<1> QED BY <1>1, <1>3, <1>4, <1>6, <1>7, <1>8, <1>9

\* What is counted down from bytes as candidates leave is what the rest holds.
LEMMA BytesLeft ==
    ASSUME GivenTypes, cache \in Seq(CandType), bytes = Held(size, cache), NEW pops \in 0..Len(cache)
    PROVE  BytesAfter(pops) = Held(size, SubSeq(cache, pops + 1, Len(cache)))
<1>1. PICK n, m, c, d : n = Len(cache) /\ m = n - pops /\ c = cache /\ d = SubSeq(cache, pops + 1, n)
  OBVIOUS
<1>2. /\ n \in Nat /\ m \in Nat /\ pops \in Nat /\ pops + m = n /\ c \in Seq(CandType)
      /\ d \in Seq(CandType) /\ Len(d) = m /\ \A i \in 1..m : d[i] = c[pops + i]
  <2>1. PICK V : V = CandType
    OBVIOUS
  <2>2. n \in Nat /\ m \in Nat /\ pops \in Nat /\ pops + m = n /\ c \in Seq(V) /\ n = Len(c)
    BY <1>1, <2>1
  <2>3. d = SubSeq(c, pops + 1, n)
    BY <1>1
  <2>4. d \in Seq(V) /\ Len(d) = m /\ \A i \in 1..m : d[i] = c[pops + i]
    <3>1. /\ \A i \in (pops + 1)..n : c[i] \in V
          /\ pops + 1 \in Int /\ n \in Int
      BY <2>2
    <3>2. /\ d \in Seq(V) /\ Len(d) = IF pops + 1 <= n THEN n - (pops + 1) + 1 ELSE 0
          /\ \A i \in 1..(n - (pops + 1) + 1) : d[i] = c[pops + 1 + i - 1]
      BY <2>3, <3>1, SubSeqProperties
    <3>3. ASSUME NEW i \in 1..m PROVE d[i] = c[pops + i]
      <4>1. i \in 1..(n - (pops + 1) + 1) /\ pops + 1 + i - 1 = pops + i
        BY <2>2
      <4> QED BY <3>2, <4>1
    <3>4. (IF pops + 1 <= n THEN n - (pops + 1) + 1 ELSE 0) = m
      BY <2>2
    <3>5. d \in Seq(V) /\ Len(d) = m
      BY <3>2, <3>4
    <3> QED BY <3>3, <3>5
  <2> QED BY <2>1, <2>2, <2>4
<1>3. PICK p : /\ Held(size, c) = p[n] /\ p[0] = 0 /\ \A i \in 1..n : p[i] = p[i - 1] + size[c[i].oid]
               /\ \A i \in 0..n : p[i] \in Nat
  <2>1. n = Len(c)
    BY <1>1
  <2>2. PICK p : Held(size, c) = p[n] /\ SumsTo(p, c, n)
    BY <1>2, <2>1, HeldSums
  <2> QED BY <2>2 DEF SumsTo
<1>4. PICK g : /\ Held(size, d) = g[m] /\ g[0] = 0 /\ \A i \in 1..m : g[i] = g[i - 1] + size[d[i].oid]
  <2>1. m = Len(d)
    BY <1>2
  <2>2. PICK g : Held(size, d) = g[m] /\ SumsTo(g, d, m)
    BY <1>2, <2>1, HeldSums
  <2> QED BY <2>2 DEF SumsTo
<1>5. bytes = p[n] /\ bytes \in Int
  <2>1. n \in 0..n
    BY <1>2
  <2> QED BY <1>1, <1>3, <2>1
<1>6. PICK f : /\ BytesAfter(pops) = f[pops] /\ f[0] = p[n] /\ \A i \in 1..pops : f[i] = f[i - 1] - size[c[i].oid]
  BY <1>1, <1>5, BytesSteps
<1>60. \A i \in 1..n : c[i] \in CandType /\ size[c[i].oid] \in Nat
  <2>1. \A i \in 1..n : c[i] \in CandType
    BY <1>1, <1>2
  <2>2. \A x \in CandType : x.oid \in Objects
    BY DEF CandType
  <2>3. \A o \in Objects : size[o] \in Nat
    BY DEF GivenTypes
  <2> QED BY <2>1, <2>2, <2>3
<1>7. f[pops] = p[n] - p[pops]
  <2> DEFINE h == [i \in 0..pops |-> p[n] - p[i]]
  <2>1. h[0] = f[0]
    BY <1>2, <1>3, <1>5, <1>6
  <2>2. ASSUME NEW i \in 1..pops, f[i - 1] = h[i - 1] PROVE f[i] = h[i]
    <3>1. i - 1 \in 0..pops /\ i \in 0..pops /\ i \in 1..n /\ i - 1 \in 0..n /\ i \in 0..n
      BY <1>2
    <3>2. /\ p[i] = p[i - 1] + size[c[i].oid] /\ f[i] = f[i - 1] - size[c[i].oid] /\ f[i - 1] = p[n] - p[i - 1]
          /\ h[i] = p[n] - p[i]
      BY <1>3, <1>6, <2>2, <3>1
    <3>3. p[i] \in Int /\ p[i - 1] \in Int /\ size[c[i].oid] \in Int /\ p[n] \in Int
      BY <1>3, <1>5, <1>60, <3>1
    <3> QED BY <3>2, <3>3
  <2>3. pops \in 0..pops
    BY <1>2
  <2>4. h[pops] = p[n] - p[pops]
    BY <2>3
  <2> HIDE DEF h
  <2>5. SameSteps(f, h, pops)
    BY <2>1, <2>2 DEF SameSteps
  <2>6. f[pops] = h[pops]
    BY <1>2, <2>5, StepsAgree
  <2> QED BY <2>4, <2>6
<1>8. g[m] = p[pops + m] - p[pops]
  <2> DEFINE h == [i \in 0..m |-> p[pops + i] - p[pops]]
  <2>0. pops \in 0..n /\ p[pops] \in Int
    BY <1>2, <1>3
  <2>1. h[0] = g[0]
    <3>1. h[0] = p[pops + 0] - p[pops] /\ pops + 0 = pops
      BY <1>2
    <3> QED BY <1>4, <2>0, <3>1
  <2>2. ASSUME NEW i \in 1..m, g[i - 1] = h[i - 1] PROVE g[i] = h[i]
    <3>1. i - 1 \in 0..m /\ i \in 0..m /\ pops + i \in 1..n /\ pops + (i - 1) = (pops + i) - 1
          /\ pops + i \in 0..n /\ (pops + i) - 1 \in 0..n
      <4>1. pops \in Nat /\ m \in Nat /\ n = pops + m
        BY <1>2
      <4>2. i \in Nat /\ 1 <= i /\ i <= m
        BY <4>1
      <4>3. n \in Nat /\ pops + i <= n
        BY <4>1, <4>2
      <4> QED BY <4>1, <4>2, <4>3
    <3>2. PICK j : j = pops + i
      OBVIOUS
    <3>3. /\ p[j] = p[j - 1] + size[c[j].oid] /\ g[i] = g[i - 1] + size[d[i].oid] /\ d[i] = c[j]
          /\ g[i - 1] = p[j - 1] - p[pops] /\ h[i] = p[j] - p[pops]
      <4>1. p[j] = p[j - 1] + size[c[j].oid]
        BY <1>3, <3>1, <3>2
      <4>2. g[i] = g[i - 1] + size[d[i].oid]
        BY <1>4
      <4>3. d[i] = c[j]
        BY <1>2, <3>2
      <4>4. g[i - 1] = p[j - 1] - p[pops] /\ h[i] = p[j] - p[pops]
        BY <2>2, <3>1, <3>2
      <4> QED BY <4>1, <4>2, <4>3, <4>4
    <3>4. p[j] \in Int /\ p[j - 1] \in Int /\ size[c[j].oid] \in Int
      <4>1. j \in 1..n /\ j \in 0..n /\ j - 1 \in 0..n
        BY <3>1, <3>2
      <4>2. p[j] \in Nat /\ p[j - 1] \in Nat
        BY <1>3, <4>1
      <4>3. size[c[j].oid] \in Nat
        BY <1>60, <4>1
      <4> QED BY <4>2, <4>3
    <3> QED BY <2>0, <3>3, <3>4
  <2>3. m \in 0..m
    BY <1>2
  <2>4. h[m] = p[pops + m] - p[pops]
    BY <2>3
  <2> HIDE DEF h
  <2>5. SameSteps(g, h, m)
    BY <2>1, <2>2 DEF SameSteps
  <2>6. g[m] = h[m]
    BY <1>2, <2>5, StepsAgree
  <2> QED BY <2>4, <2>6
<1> QED BY <1>1, <1>2, <1>4, <1>6, <1>7, <1>8

\* Enough candidates leave: at the latest when all have left.
LEMMA EvictedFacts ==
    ASSUME GivenTypes, cache \in Seq(CandType), bytes = Held(size, cache), NEW o \in Objects, size[o] <= CacheBytes
    PROVE  /\ Evicted(o) \in 0..Len(cache) /\ Len(cache) - Evicted(o) < Window
           /\ BytesAfter(Evicted(o)) + size[o] <= CacheBytes
<1> DEFINE K == {k \in 0..Len(cache) : BytesAfter(k) + size[o] <= CacheBytes /\ Len(cache) - k < Window}
<1>1. PICK n : n = Len(cache)
  OBVIOUS
<1>2. n \in Nat /\ n \in 0..Len(cache)
  BY <1>1
<1>3. BytesAfter(n) = 0
  <2>1. SubSeq(cache, n + 1, Len(cache)) = <<>>
    BY <1>1, <1>2
  <2>2. Held(size, <<>>) = 0
    <3>2. <<>> \in Seq(CandType)
      OBVIOUS
    <3>3. PICK f : Held(size, <<>>) = f[0] /\ SumsTo(f, <<>>, 0)
      <4>1. 0 = Len(<<>>)
        OBVIOUS
      <4> QED BY <3>2, <4>1, HeldSums
    <3> QED BY <3>3 DEF SumsTo
  <2> QED BY <1>2, <2>1, <2>2, BytesLeft
<1>4. n \in K
  <2>1. size[o] \in Nat /\ n - n = 0 /\ Window > 0
    BY <1>2, Parameters DEF GivenTypes
  <2> QED BY <1>1, <1>2, <1>3, <2>1
<1>5. \E k \in K : \A j \in K : k <= j
  <2>1. K \in SUBSET Nat /\ K # {}
    BY <1>4
  <2> HIDE DEF K
  <2> QED BY <2>1, LeastNat
<1>6. Evicted(o) = CHOOSE k \in K : \A j \in K : k <= j
  BY DEF Evicted, Min
<1>7. Evicted(o) \in K
  <2> HIDE DEF K
  <2> QED BY <1>5, <1>6
<1> QED BY <1>7

\* What insert leaves: the candidates after some at the front, and the new one.
Shifted(old, new, e, x) ==
    /\ e \in 0..Len(old) /\ new \in Seq(CandType) /\ Len(new) = Len(old) - e + 1
    /\ \A m \in 1..(Len(old) - e) : new[m] = old[e + m]
    /\ new[Len(old) - e + 1] = x

LEMMA InsertFacts ==
    ASSUME GivenTypes, cache \in Seq(CandType), bytes = Held(size, cache), NEW Record, entries \in Seq(Record),
           NEW item \in [oid : Objects, group : Int], size[item.oid] <= CacheBytes, Insert(item)
    PROVE  \E e, new : /\ cache' = new /\ Shifted(cache, new, e, Candidate(item)) /\ Len(new) <= Window
                       /\ bytes' = Held(size, new) /\ Held(size, new) \in 0..CacheBytes
<1>1. PICK c, n, o, e, x, sub, new :
         /\ c = cache /\ n = Len(cache) /\ o = item.oid /\ e = Evicted(o) /\ x = Candidate(item)
         /\ sub = SubSeq(cache, e + 1, n) /\ new = Append(sub, x)
  OBVIOUS
<1>2. o \in Objects /\ size[o] \in Nat /\ size[o] <= CacheBytes
  BY <1>1 DEF GivenTypes
<1>3. e \in 0..n /\ n - e < Window /\ BytesAfter(e) + size[o] <= CacheBytes
  BY <1>1, <1>2, EvictedFacts
<1>4. n \in Nat /\ c \in Seq(CandType) /\ e \in Nat /\ Len(c) = n
  BY <1>1, <1>3
<1>5. x \in CandType /\ x.oid = o
  <2>1. Len(entries) \in Nat
    OBVIOUS
  <2>2. x = [oid |-> o, group |-> item.group, index |-> Len(entries) + 1]
    BY <1>1 DEF Candidate
  <2> QED BY <1>2, <2>1, <2>2 DEF CandType
<1>6. sub \in Seq(CandType) /\ Len(sub) = n - e /\ \A m \in 1..(n - e) : sub[m] = c[e + m]
  <2>1. PICK V : V = CandType
    OBVIOUS
  <2>2. c \in Seq(V) /\ n = Len(c) /\ sub = SubSeq(c, e + 1, n)
    BY <1>1, <1>4, <2>1
  <2>3. (\A i \in (e + 1)..n : c[i] \in V) /\ e + 1 \in Int /\ n \in Int
    BY <1>3, <1>4, <2>2
  <2>4. /\ sub \in Seq(V) /\ Len(sub) = IF e + 1 <= n THEN n - (e + 1) + 1 ELSE 0
        /\ \A i \in 1..(n - (e + 1) + 1) : sub[i] = c[e + 1 + i - 1]
    BY <2>2, <2>3, SubSeqProperties
  <2>5. ASSUME NEW i \in 1..(n - e) PROVE sub[i] = c[e + i]
    <3>1. i \in 1..(n - (e + 1) + 1) /\ e + 1 + i - 1 = e + i
      BY <1>4
    <3> QED BY <2>4, <3>1
  <2>6. (IF e + 1 <= n THEN n - (e + 1) + 1 ELSE 0) = n - e
    BY <1>3, <1>4
  <2>7. Len(sub) = n - e
    BY <2>4, <2>6
  <2> QED BY <2>1, <2>4, <2>5, <2>7
<1>7. /\ new \in Seq(CandType) /\ Len(new) = n - e + 1 /\ new[n - e + 1] = x
      /\ \A m \in 1..(n - e) : new[m] = c[e + m]
  <2>1. PICK V, k : V = CandType /\ k = n - e
    OBVIOUS
  <2>2. sub \in Seq(V) /\ x \in V /\ new = Append(sub, x) /\ Len(sub) = k
    BY <1>1, <1>5, <1>6, <2>1
  <2>3. new \in Seq(V) /\ Len(new) = k + 1 /\ new[k + 1] = x /\ \A m \in 1..k : new[m] = sub[m]
    BY <2>2, AppendProperties
  <2>4. \A m \in 1..k : new[m] = c[e + m]
    BY <1>6, <2>1, <2>3
  <2> QED BY <2>1, <2>3, <2>4
<1>8. Held(size, new) = BytesAfter(e) + size[o] /\ Held(size, sub) \in Nat
  <2>1. Held(size, new) = Held(size, sub) + size[o] /\ Held(size, sub) \in Nat
    BY <1>1, <1>5, <1>6, HeldAppend
  <2>2. BytesAfter(e) = Held(size, sub)
    BY <1>1, <1>3, BytesLeft
  <2> QED BY <2>1, <2>2
<1>9. cache' = new /\ bytes' = Held(size, new)
  BY <1>1, <1>8 DEF Insert
<1>10. Len(new) <= Window
  BY <1>3, <1>4, <1>7, Parameters
<1>11. Held(size, new) \in 0..CacheBytes
  <2>1. BytesAfter(e) \in Nat
    BY <1>1, <1>3, <1>8, BytesLeft
  <2> QED BY <1>2, <1>3, <1>8, <2>1, Parameters
<1>12. Shifted(c, new, e, x)
  BY <1>3, <1>4, <1>7 DEF Shifted
<1> QED BY <1>1, <1>9, <1>10, <1>11, <1>12

------------------------------------------------------------------------------
(* The best candidate *)

Offers(group) == {n \in 1..Len(cache) : cache[n].group = group}

\* The winner is within the budget and none of the group does better.
LEMMA BestFacts ==
    ASSUME cache \in Seq(CandType), \A n \in 1..Len(cache) : cache[n].index > 0,
           NEW group, NEW raw, NEW limit \in Nat, \A n \in Offers(group) : raw[cache[n].index] \in Nat,
           NEW b, b = Best(group, raw, limit), b # 0
    PROVE  /\ \E n \in Offers(group) : b = cache[n].index
           /\ raw[b] <= limit /\ \A n \in Offers(group) : raw[b] <= raw[cache[n].index]
<1>1. PICK c, len : c = cache /\ len = Len(cache)
  OBVIOUS
<1>2. /\ c \in Seq(CandType) /\ len \in Nat /\ \A n \in 1..len : c[n].index \in Nat /\ c[n].index > 0
      /\ \A n \in 1..len : c[n].group = group => raw[c[n].index] \in Nat
  <2>1. c \in Seq(CandType) /\ len = Len(c) /\ len \in Nat
    BY <1>1
  <2>2. \A n \in 1..len : c[n] \in CandType
    BY <2>1
  <2>3. \A x \in CandType : x.index \in Nat
    BY DEF CandType
  <2>4. \A n \in 1..len : c[n].index > 0
    BY <1>1
  <2>5. \A n \in 1..len : c[n].group = group => raw[c[n].index] \in Nat
    BY <1>1 DEF Offers
  <2> QED BY <2>1, <2>2, <2>3, <2>4, <2>5
<1>3. PICK f : /\ b = f[len] /\ f[0] = 0
               /\ \A n \in 1..len : f[n] = IF Displaces(c[n], f[n - 1], group, raw, limit) THEN c[n].index ELSE f[n - 1]
  <2>1. PICK f : /\ Best(group, raw, limit) = f[Len(cache)] /\ f[0] = 0
                 /\ \A n \in 1..(Len(cache)) : f[n] = IF Displaces(cache[n], f[n - 1], group, raw, limit) THEN cache[n].index ELSE f[n - 1]
    BY BestSteps
  <2>2. b = f[len] /\ f[0] = 0
    BY <1>1, <2>1
  <2>3. \A n \in 1..len : f[n] = IF Displaces(c[n], f[n - 1], group, raw, limit) THEN c[n].index ELSE f[n - 1]
    BY <1>1, <2>1
  <2> QED BY <2>2, <2>3
<1> DEFINE Wins(k) == /\ f[k] = 0 => \A n \in 1..k : c[n].group = group => raw[c[n].index] > limit
                      /\ f[k] # 0 => /\ \E n \in 1..k : c[n].group = group /\ f[k] = c[n].index
                                     /\ raw[f[k]] <= limit
                                     /\ \A n \in 1..k : c[n].group = group => raw[f[k]] <= raw[c[n].index]
           Good(k) == k <= len => Wins(k)
           U == {k \in Nat : Good(k)}
<1>4. Good(0)
  BY <1>3
<1>5. ASSUME NEW k \in Nat, Good(k) PROVE Good(k + 1)
  <2> SUFFICES ASSUME k + 1 <= len PROVE Wins(k + 1)
    OBVIOUS
  <2>1. k + 1 \in 1..len /\ (k + 1) - 1 = k /\ k <= len /\ \A n \in 1..k : n \in 1..len /\ n \in 1..(k + 1)
    BY <1>2
  <2>2. PICK j, v, w, g, r : j = k + 1 /\ v = f[k] /\ w = f[j] /\ g = c[j].group /\ r = raw[c[j].index]
    OBVIOUS
  <2>3. w = IF Displaces(c[j], v, group, raw, limit) THEN c[j].index ELSE v
    BY <1>3, <2>1, <2>2
  <2>4. j \in 1..len /\ c[j].index \in Nat /\ c[j].index # 0 /\ (g = group => r \in Nat)
    BY <1>2, <2>1, <2>2
  <2>5. \A n \in 1..j : n \in 1..k \/ n = j
    BY <2>1, <2>2
  <2>6. Displaces(c[j], v, group, raw, limit) <=> g = group /\ r <= IF v = 0 THEN limit ELSE raw[v] - 1
    BY <2>2 DEF Displaces
  <2>7. Wins(k)
    BY <1>5, <2>1
  <2>8. v # 0 => raw[v] \in Nat /\ raw[v] <= limit
    <3>1. ASSUME v # 0 PROVE raw[v] \in Nat
      <4>1. PICK n \in 1..k : c[n].group = group /\ v = c[n].index
        BY <2>2, <2>7, <3>1
      <4> QED BY <1>2, <2>1, <4>1
    <3> QED BY <2>2, <2>7, <3>1
  <2>9. \A n \in 1..k : c[n].group = group => raw[c[n].index] \in Nat
    BY <1>2, <2>1
  <2>10. CASE Displaces(c[j], v, group, raw, limit)
    <3>1. w = c[j].index /\ w # 0 /\ raw[w] = r /\ g = group /\ r \in Nat
          /\ r <= IF v = 0 THEN limit ELSE raw[v] - 1
      BY <2>2, <2>3, <2>4, <2>6, <2>10
    <3>2. r <= limit
      BY <2>8, <3>1
    <3>3. \A n \in 1..k : c[n].group = group => r <= raw[c[n].index]
      <4>1. CASE v = 0
        <5>1. \A n \in 1..k : c[n].group = group => raw[c[n].index] > limit
          BY <2>2, <2>7, <4>1
        <5> QED BY <2>9, <3>1, <3>2, <5>1
      <4>2. CASE v # 0
        <5>1. \A n \in 1..k : c[n].group = group => raw[v] <= raw[c[n].index]
          BY <2>2, <2>7, <4>2
        <5>2. r <= raw[v] - 1 /\ raw[v] \in Nat
          BY <2>8, <3>1, <4>2
        <5> QED BY <2>9, <3>1, <5>1, <5>2
      <4> QED BY <4>1, <4>2
    <3>4. \A n \in 1..j : c[n].group = group => r <= raw[c[n].index]
      BY <2>2, <2>5, <3>1, <3>3
    <3>5. j \in 1..j
      BY <2>1, <2>2
    <3> QED BY <2>2, <3>1, <3>2, <3>4, <3>5
  <2>11. CASE ~Displaces(c[j], v, group, raw, limit)
    <3>1. w = v
      BY <2>3, <2>11
    <3>2. CASE v = 0
      <4>1. g = group => r > limit
        BY <2>4, <2>6, <2>11, <3>2
      <4>2. \A n \in 1..k : c[n].group = group => raw[c[n].index] > limit
        BY <2>2, <2>7, <3>2
      <4>3. \A n \in 1..j : c[n].group = group => raw[c[n].index] > limit
        BY <2>2, <2>5, <4>1, <4>2
      <4> QED BY <2>2, <3>1, <3>2, <4>3
    <3>3. CASE v # 0
      <4>1. g = group => raw[v] <= r
        BY <2>4, <2>6, <2>8, <2>11, <3>3
      <4>2. /\ \E n \in 1..k : c[n].group = group /\ v = c[n].index
            /\ \A n \in 1..k : c[n].group = group => raw[v] <= raw[c[n].index]
        BY <2>2, <2>7, <3>3
      <4>3. \A n \in 1..j : c[n].group = group => raw[v] <= raw[c[n].index]
        BY <2>2, <2>5, <4>1, <4>2
      <4>4. \E n \in 1..j : c[n].group = group /\ v = c[n].index
        BY <2>1, <2>2, <4>2
      <4> QED BY <2>2, <2>8, <3>1, <3>3, <4>3, <4>4
    <3> QED BY <3>2, <3>3
  <2> QED BY <2>10, <2>11
<1>6. U = Nat
  <2>1. 0 \in U /\ \A n \in U : n + 1 \in U
    <3> HIDE DEF Good
    <3>1. \A n \in Nat : Good(n) => Good(n + 1)
      BY <1>5
    <3> QED BY <1>4, <3>1
  <2> HIDE DEF U
  <2> QED BY <2>1, Induction DEF U
<1>7. Wins(len)
  <2>1. len \in U
    BY <1>2, <1>6
  <2> QED BY <1>2, <2>1
<1> QED BY <1>1, <1>3, <1>7 DEF Offers

------------------------------------------------------------------------------
(* The invariant *)

EntryType == [oid : Objects, base : Nat, raw : Nat, rivals : SUBSET RawSizes]

PackTypes ==
    /\ GivenTypes
    /\ entries \in Seq(EntryType) /\ Len(entries) <= Collected /\ cache \in Seq(CandType)
    /\ packing \in {"write", "done", "failed"} /\ (packing = "done" => Len(entries) = Collected)

ScheduleInv ==
    /\ schedule \in [Objects -> [oid : Objects, group : Int]]
    /\ \A o \in Objects : \E i \in Objects : schedule[i].oid = o
    /\ ofs => Together(schedule)

\* What another entry may be a delta of.
BaseOk(i) ==
    /\ i \in 1..Len(entries) /\ entries[i].base = 0 /\ entries[i].oid = schedule[i].oid
    /\ Eligible(schedule[i]) /\ schedule[i].oid \notin corrupt

DeltaOk(i) ==
    LET b == entries[i].base
    IN /\ b < i /\ BaseOk(b) /\ schedule[b].group = schedule[i].group
       /\ \A r \in entries[i].rivals : entries[i].raw <= r
       /\ 2 * entries[i].raw <= size[entries[i].oid]

EntryInv ==
    \A i \in 1..Len(entries) : entries[i].oid = schedule[i].oid /\ (entries[i].base # 0 => DeltaOk(i))

\* The candidates are entries that were written in full.
WindowInv ==
    /\ \A n \in 1..Len(cache) :
          /\ BaseOk(cache[n].index) /\ cache[n].oid = schedule[cache[n].index].oid
          /\ cache[n].group = schedule[cache[n].index].group
    /\ bytes = Held(size, cache) /\ bytes \in 0..CacheBytes /\ Len(cache) <= Window

Full == {i \in 1..Len(entries) : entries[i].base = 0 /\ Eligible(schedule[i])}

\* They are the latest ones, in the order of the pack.
LatestInv ==
    /\ \A m, n \in 1..Len(cache) : m < n => cache[m].index < cache[n].index
    /\ \A n \in 1..Len(cache) : \A j \in Full :
          j > cache[n].index => \E m \in 1..Len(cache) : cache[m].index = j
    /\ \A j \in Full : \E n \in 1..Len(cache) : cache[n].index >= j

OrderInv == PackTypes /\ ScheduleInv /\ EntryInv /\ WindowInv /\ LatestInv

Kept == UNCHANGED <<given, schedule>>

LEMMA KeptFacts ==
    ASSUME Kept
    PROVE  /\ kind' = kind /\ path' = path /\ size' = size /\ corrupt' = corrupt /\ ofs' = ofs /\ schedule' = schedule
           /\ \A i : Eligible(schedule[i])' <=> Eligible(schedule[i])
           /\ ScheduleInv => ScheduleInv'
           /\ GivenTypes => GivenTypes'
<1>1. kind' = kind /\ path' = path /\ size' = size /\ corrupt' = corrupt /\ ofs' = ofs /\ schedule' = schedule
  BY DEF Kept, given
<1>2. ASSUME NEW i PROVE Eligible(schedule[i])' <=> Eligible(schedule[i])
  BY <1>1 DEF Eligible
<1>3. ScheduleInv => ScheduleInv'
  BY <1>1 DEF ScheduleInv, Together, Scheduled
<1>4. GivenTypes => GivenTypes'
  BY <1>1 DEF GivenTypes
<1> QED BY <1>1, <1>2, <1>3, <1>4

\* What writing an entry does to the entries.
Grown(n, x) ==
    /\ n = Len(entries) + 1 /\ n \in Objects /\ entries' \in Seq(EntryType) /\ Len(entries') = n /\ entries'[n] = x
    /\ \A i \in 1..(n - 1) : i \in 1..n /\ entries'[i] = entries[i] /\ (BaseOk(i) => BaseOk(i)')
    /\ \A i \in 1..n : i \in 1..(n - 1) \/ i = n
    /\ n \in Nat /\ n \in 1..n /\ Len(entries) = n - 1

LEMMA WrittenFacts ==
    ASSUME PackTypes, ScheduleInv, Kept, Len(entries) < Len(schedule), NEW x \in EntryType, Write(x)
    PROVE  /\ Grown(Len(entries) + 1, x) /\ Item = schedule[Len(entries) + 1]
           /\ Item \in [oid : Objects, group : Int] /\ Item.oid \in Objects
           /\ cache' \in Seq(CandType) => PackTypes'
<1>1. PICK n, s : n = Len(entries) + 1 /\ s = entries
  OBVIOUS
<1>2. s \in Seq(EntryType) /\ Len(s) \in Nat /\ n \in Nat /\ Len(s) = n - 1
  BY <1>1 DEF PackTypes
<1>3. Len(schedule) = Collected /\ Collected \in Nat
  BY Parameters DEF ScheduleInv, Objects
<1>4. n \in Objects /\ n <= Collected
  BY <1>1, <1>2, <1>3 DEF Objects
<1>5. entries' \in Seq(EntryType) /\ Len(entries') = n /\ entries'[n] = x /\ \A i \in 1..(n - 1) : entries'[i] = s[i]
  <2>1. entries' = Append(s, x) /\ n = Len(s) + 1
    BY <1>1, <1>2 DEF Write
  <2> QED BY <1>2, <2>1, AppendProperties
<1>6. ASSUME NEW i \in 1..(n - 1), BaseOk(i) PROVE BaseOk(i)'
  <2>1. i \in 1..n /\ entries'[i] = entries[i]
    BY <1>1, <1>2, <1>5
  <2>2. Eligible(schedule[i])' /\ schedule' = schedule /\ corrupt' = corrupt
    BY <1>6, KeptFacts DEF BaseOk
  <2> QED BY <1>5, <1>6, <2>1, <2>2 DEF BaseOk
<1>7. Grown(n, x)
  <2>1. /\ \A i \in 1..(n - 1) : i \in 1..n
        /\ \A i \in 1..n : i \in 1..(n - 1) \/ i = n
        /\ n \in 1..n
    BY <1>2, <1>4 DEF Objects
  <2> QED BY <1>1, <1>2, <1>4, <1>5, <1>6, <2>1 DEF Grown
<1>8. ASSUME cache' \in Seq(CandType) PROVE PackTypes'
  <2>1. GivenTypes'
    BY KeptFacts DEF PackTypes
  <2>2. packing' = (IF n = Collected THEN "done" ELSE "write")
    BY <1>3, <1>5 DEF Write
  <2> QED BY <1>3, <1>4, <1>5, <1>8, <2>1, <2>2 DEF PackTypes
<1>9. Item = schedule[n] /\ Item \in [oid : Objects, group : Int] /\ Item.oid \in Objects
  BY <1>1, <1>4 DEF Item, ScheduleInv
<1> QED BY <1>1, <1>7, <1>8, <1>9

\* A delta that is about to be written as entry n.
NewDeltaOk(n, x) ==
    /\ x.base < n /\ BaseOk(x.base) /\ schedule[x.base].group = schedule[n].group
    /\ (\A r \in x.rivals : x.raw <= r) /\ 2 * x.raw <= size[x.oid]

LEMMA EntriesGrow ==
    ASSUME OrderInv, Kept, NEW n, NEW x \in EntryType, Grown(n, x), x.oid = schedule[n].oid,
           x.base # 0 => NewDeltaOk(n, x)
    PROVE  EntryInv'
<1>1. /\ n \in Nat /\ Len(entries') = n /\ entries'[n] = x /\ Len(entries) = n - 1
      /\ \A i \in 1..(n - 1) : entries'[i] = entries[i] /\ (BaseOk(i) => BaseOk(i)')
      /\ \A i \in 1..n : i \in 1..(n - 1) \/ i = n
  BY DEF Grown
<1>2. size' = size /\ schedule' = schedule
  BY KeptFacts
<1>3. \A b : BaseOk(b) => b \in 1..(n - 1)
  BY <1>1 DEF BaseOk
<1>4. ASSUME NEW i \in 1..n PROVE entries'[i].oid = schedule'[i].oid /\ (entries'[i].base # 0 => DeltaOk(i)')
  <2>1. CASE i = n
    <3>1. entries'[i] = x
      BY <1>1, <2>1
    <3>2. ASSUME x.base # 0 PROVE DeltaOk(i)'
      <4>1. PICK b : b = x.base
        OBVIOUS
      <4>2. /\ b < n /\ BaseOk(b) /\ schedule[b].group = schedule[n].group
            /\ (\A r \in x.rivals : x.raw <= r) /\ 2 * x.raw <= size[x.oid]
        BY <3>2, <4>1 DEF NewDeltaOk
      <4>3. BaseOk(b)'
        BY <1>1, <1>3, <4>2
      <4> QED BY <1>2, <2>1, <3>1, <4>1, <4>2, <4>3 DEF DeltaOk
    <3> QED BY <1>2, <2>1, <3>1, <3>2
  <2>2. CASE i \in 1..(n - 1)
    <3>1. entries'[i] = entries[i] /\ entries[i].oid = schedule[i].oid /\ (entries[i].base # 0 => DeltaOk(i))
      BY <1>1, <2>2 DEF OrderInv, EntryInv
    <3>2. ASSUME entries[i].base # 0 PROVE DeltaOk(i)'
      <4>1. PICK b : b = entries[i].base
        OBVIOUS
      <4>2. /\ b < i /\ BaseOk(b) /\ schedule[b].group = schedule[i].group
            /\ (\A r \in entries[i].rivals : entries[i].raw <= r) /\ 2 * entries[i].raw <= size[entries[i].oid]
        BY <3>1, <3>2, <4>1 DEF DeltaOk
      <4>3. BaseOk(b)'
        BY <1>1, <1>3, <4>2
      <4> QED BY <1>2, <3>1, <4>1, <4>2, <4>3 DEF DeltaOk
    <3> QED BY <1>2, <3>1, <3>2
  <2> QED BY <1>1, <2>1, <2>2
<1> QED BY <1>1, <1>4 DEF EntryInv

\* An entry that is no candidate leaves the window as it is.
LEMMA WindowStays ==
    ASSUME OrderInv, Kept, NEW n, NEW x, Grown(n, x), cache' = cache, bytes' = bytes,
           x.base # 0 \/ ~Eligible(schedule[n])
    PROVE  WindowInv' /\ LatestInv'
<1>1. /\ n \in Nat /\ Len(entries') = n /\ entries'[n] = x /\ Len(entries) = n - 1
      /\ \A i \in 1..(n - 1) : i \in 1..n /\ entries'[i] = entries[i] /\ (BaseOk(i) => BaseOk(i)')
      /\ \A i \in 1..n : i \in 1..(n - 1) \/ i = n
  BY DEF Grown
<1>2. size' = size /\ schedule' = schedule /\ \A i : Eligible(schedule[i])' <=> Eligible(schedule[i])
  BY KeptFacts
<1>3. \A b : BaseOk(b) => BaseOk(b)'
  BY <1>1 DEF BaseOk
<1>4. WindowInv'
  <2>1. Held(size, cache)' = Held(size, cache)
    <3>1. PICK h, z, c : h = Held(z, c) /\ z = size /\ c = cache
      OBVIOUS
    <3>2. size' = z /\ cache' = c
      BY <1>2, <3>1
    <3> QED BY <3>1, <3>2
  <2> QED BY <1>2, <1>3, <2>1 DEF OrderInv, WindowInv
<1>5. Full' = Full
  <2>1. ASSUME NEW i PROVE i \in Full' <=> i \in Full
    BY <1>1, <1>2 DEF Full
  <2> QED BY <2>1 DEF Full
<1>6. LatestInv'
  BY <1>5 DEF OrderInv, LatestInv
<1> QED BY <1>4, <1>6

LEMMA WindowGrows ==
    ASSUME OrderInv, Kept, NEW n, NEW x \in EntryType, Grown(n, x), x.base = 0, x.oid = schedule[n].oid,
           Eligible(schedule[n]), schedule[n].oid \notin corrupt, Insert(schedule[n])
    PROVE  cache' \in Seq(CandType) /\ WindowInv' /\ LatestInv'
<1>1. /\ n \in Nat /\ Len(entries') = n /\ entries'[n] = x /\ Len(entries) = n - 1 /\ n \in Objects /\ n \in 1..n
      /\ \A i \in 1..(n - 1) : i \in 1..n /\ entries'[i] = entries[i] /\ (BaseOk(i) => BaseOk(i)')
      /\ \A i \in 1..n : i \in 1..(n - 1) \/ i = n
  BY DEF Grown
<1>2. size' = size /\ schedule' = schedule /\ corrupt' = corrupt /\ \A i : Eligible(schedule[i])' <=> Eligible(schedule[i])
  BY KeptFacts
<1>3. \A b : BaseOk(b) => BaseOk(b)' /\ b \in 1..(n - 1)
  BY <1>1 DEF BaseOk
<1>4. BaseOk(n)'
  BY <1>1, <1>2 DEF BaseOk
<1>5. PICK item, c : item = schedule[n] /\ c = cache
  OBVIOUS
<1>6. /\ item \in [oid : Objects, group : Int] /\ size[item.oid] <= CacheBytes /\ GivenTypes
      /\ cache \in Seq(CandType) /\ bytes = Held(size, cache) /\ entries \in Seq(EntryType)
  <2>1. item \in [oid : Objects, group : Int]
    BY <1>1, <1>5 DEF OrderInv, ScheduleInv
  <2>2. item.oid \in Objects /\ size[item.oid] \in MinBlob..MaxBlob
    BY <1>5, <2>1 DEF Eligible
  <2>3. size[item.oid] <= CacheBytes
    BY <2>2, Parameters
  <2> QED BY <2>1, <2>3 DEF OrderInv, PackTypes, WindowInv
<1>7. PICK e, new : /\ cache' = new /\ Shifted(cache, new, e, Candidate(item)) /\ Len(new) <= Window
                    /\ bytes' = Held(size, new) /\ Held(size, new) \in 0..CacheBytes
  <2>1. Insert(item)
    BY <1>5
  <2> QED BY <1>6, <2>1, InsertFacts
<1>8. PICK k, l, y : k = Len(c) - e /\ l = Len(c) /\ y = Candidate(item)
  OBVIOUS
<1>9. /\ e \in 0..l /\ l \in Nat /\ k \in Nat /\ e + k = l /\ new \in Seq(CandType) /\ Len(new) = k + 1
      /\ new[k + 1] = y /\ y.oid = item.oid /\ y.group = item.group /\ y.index = n
      /\ \A m \in 1..k : new[m] = c[e + m] /\ e + m \in 1..l
      /\ \A m \in 1..(k + 1) : m \in 1..k \/ m = k + 1
      /\ \A m \in 1..k : m \in 1..(k + 1)
      /\ k + 1 \in 1..(k + 1)
  <2>1. l \in Nat
    BY <1>5, <1>6, <1>8
  <2>2. /\ e \in 0..l /\ new \in Seq(CandType) /\ Len(new) = k + 1 /\ new[k + 1] = y
        /\ \A m \in 1..k : new[m] = c[e + m]
    BY <1>5, <1>7, <1>8 DEF Shifted
  <2>3. k \in Nat /\ e + k = l
    BY <1>8, <2>1, <2>2
  <2>4. y.oid = item.oid /\ y.group = item.group /\ y.index = n
    <3>1. y = [oid |-> item.oid, group |-> item.group, index |-> n]
      BY <1>1, <1>8 DEF Candidate
    <3> QED BY <3>1
  <2>5. /\ \A m \in 1..k : e + m \in 1..l /\ m \in 1..(k + 1)
        /\ \A m \in 1..(k + 1) : m \in 1..k \/ m = k + 1
        /\ k + 1 \in 1..(k + 1)
    BY <2>1, <2>2, <2>3
  <2> QED BY <2>1, <2>2, <2>3, <2>4, <2>5
<1>10. \A m \in 1..l : /\ BaseOk(c[m].index) /\ c[m].oid = schedule[c[m].index].oid
                       /\ c[m].group = schedule[c[m].index].group
  BY <1>5, <1>8 DEF OrderInv, WindowInv
<1>11. WindowInv'
  <2>1. ASSUME NEW m \in 1..(k + 1)
        PROVE  /\ BaseOk(new[m].index)' /\ new[m].oid = schedule[new[m].index].oid
               /\ new[m].group = schedule[new[m].index].group
    <3>1. CASE m \in 1..k
      <4>1. new[m] = c[e + m] /\ e + m \in 1..l
        BY <1>9, <3>1
      <4>2. PICK i, d : d = c[e + m] /\ i = d.index
        OBVIOUS
      <4>3. BaseOk(i) /\ d.oid = schedule[i].oid /\ d.group = schedule[i].group
        BY <1>10, <4>1, <4>2
      <4>4. BaseOk(i)'
        BY <1>3, <4>3
      <4> QED BY <4>1, <4>2, <4>3, <4>4
    <3>2. CASE m = k + 1
      BY <1>4, <1>5, <1>9, <3>2
    <3> QED BY <1>9, <3>1, <3>2
  <2>2. Held(size, cache)' = Held(size, new)
    <3>1. PICK h, z : h = Held(z, new) /\ z = size
      OBVIOUS
    <3>2. size' = z /\ cache' = new
      BY <1>2, <1>7, <3>1
    <3> QED BY <3>1, <3>2
  <2>3. Len(cache') = k + 1 /\ cache' = new
    BY <1>7, <1>9
  <2> QED BY <1>2, <1>7, <2>1, <2>2, <2>3 DEF WindowInv
<1>12. ASSUME NEW j \in Full' PROVE j \in Full \/ j = n
  BY <1>1, <1>2 DEF Full
<1>120. \A j \in Full : j \in 1..(n - 1)
  BY <1>1 DEF Full
<1>13. \A m \in 1..l : c[m].index \in Nat /\ c[m].index < n /\ c[m].index \in 1..(n - 1)
  BY <1>1, <1>3, <1>10
<1>14. /\ \A p, q \in 1..l : p < q => c[p].index < c[q].index
       /\ \A p \in 1..l : \A j \in Full : j > c[p].index => \E q \in 1..l : c[q].index = j
       /\ \A j \in Full : \E p \in 1..l : c[p].index >= j
  BY <1>5, <1>8 DEF OrderInv, LatestInv
<1>15. \A p, q \in 1..(k + 1) : p < q => new[p].index < new[q].index
  <2> SUFFICES ASSUME NEW p \in 1..(k + 1), NEW q \in 1..(k + 1), p < q PROVE new[p].index < new[q].index
    OBVIOUS
  <2>1. p \in 1..k /\ new[p] = c[e + p] /\ e + p \in 1..l
    BY <1>9
  <2>2. CASE q = k + 1
    BY <1>9, <1>13, <2>1, <2>2
  <2>3. CASE q \in 1..k
    <3>1. new[q] = c[e + q] /\ e + q \in 1..l /\ e + p < e + q
      BY <1>9, <2>1, <2>3
    <3> QED BY <1>14, <2>1, <3>1
  <2> QED BY <1>9, <2>2, <2>3
<1>16. ASSUME NEW p \in 1..(k + 1), NEW j \in Full', j > new[p].index
       PROVE  \E q \in 1..(k + 1) : new[q].index = j
  <2>1. CASE j = n
    BY <1>9, <2>1
  <2>2. CASE j \in Full
    <3>1. p \in 1..k
      <4>1. j < n
        BY <1>1, <1>120, <2>2
      <4>2. CASE p = k + 1
        BY <1>1, <1>9, <1>16, <1>120, <2>2, <4>1, <4>2
      <4> QED BY <1>9, <4>2
    <3>2. new[p] = c[e + p] /\ e + p \in 1..l
      BY <1>9, <3>1
    <3>3. PICK q \in 1..l : c[q].index = j
      BY <1>14, <1>16, <2>2, <3>2
    <3>4. q > e + p
      <4>1. c[e + p].index \in Nat /\ c[q].index \in Nat /\ c[e + p].index < c[q].index
        BY <1>13, <1>16, <3>2, <3>3
      <4>2. ~(q < e + p) /\ q # e + p
        BY <1>14, <3>2, <4>1
      <4> QED BY <3>2, <4>2
    <3>5. PICK r : r = q - e
      OBVIOUS
    <3>6. r \in 1..k /\ e + r = q
      BY <1>9, <3>1, <3>4, <3>5
    <3> QED BY <1>9, <3>3, <3>6
  <2> QED BY <1>12, <2>1, <2>2
<1>17. ASSUME NEW j \in Full' PROVE \E p \in 1..(k + 1) : new[p].index >= j
  <2>1. j \in 1..n
    BY <1>1, <1>12, <1>120
  <2> QED BY <1>1, <1>9, <2>1
<1>18. LatestInv'
  <2>1. cache' = new /\ Len(cache') = k + 1
    BY <1>7, <1>9
  <2> QED BY <1>15, <1>16, <1>17, <2>1 DEF LatestInv
<1> QED BY <1>7, <1>9, <1>11, <1>18

------------------------------------------------------------------------------
(* The writer *)

LEMMA FullEntryFacts ==
    ASSUME NEW o \in Objects
    PROVE  FullEntry(o) \in EntryType /\ FullEntry(o).base = 0 /\ FullEntry(o).oid = o
<1>1. FullEntry(o) = [oid |-> o, base |-> 0, raw |-> 0, rivals |-> {}]
  BY DEF FullEntry
<1> QED BY <1>1 DEF EntryType

LEMMA OrderInit == POInit => OrderInv
<1> SUFFICES ASSUME POInit PROVE OrderInv
  OBVIOUS
<1>1. GivenTypes
  <2>1. PICK shape \in [Objects -> Shapes] :
          /\ kind = [o \in Objects |-> shape[o].kind] /\ path = [o \in Objects |-> shape[o].path]
          /\ size = [o \in Objects |-> shape[o].size]
    BY DEF POInit, POScene
  <2>2. \A o \in Objects : shape[o] \in [kind : {"blob", "other"}, path : Paths \cup {NoPath}, size : Nat]
    BY PackOutAssumption DEF PackOutAssumption
  <2>3. \A o \in Objects : shape[o].kind \in {"blob", "other"} /\ shape[o].path \in Paths \cup {NoPath} /\ shape[o].size \in Nat
    BY <2>2
  <2>4. corrupt \in SUBSET Objects /\ ofs \in BOOLEAN
    BY DEF POInit, POScene
  <2> QED BY <2>1, <2>3, <2>4 DEF GivenTypes
<1>2. /\ schedule = IF ofs THEN ScheduleForOfs ELSE PlainSchedule
      /\ entries = <<>> /\ cache = <<>> /\ bytes = 0 /\ packing = "write"
  BY DEF POInit, POStart
<1>3. ScheduleInv
  <2>1. CASE ofs
    BY <1>1, <1>2, <2>1, ScheduleFacts DEF ScheduleInv
  <2>2. CASE ~ofs
    <3>1. schedule = [i \in Objects |-> [oid |-> i, group |-> NoGroup]]
      BY <1>2, <2>2 DEF PlainSchedule
    <3>2. NoGroup \in Int
      BY DEF NoGroup
    <3> QED BY <2>2, <3>1, <3>2 DEF ScheduleInv
  <2> QED BY <2>1, <2>2
<1>4. /\ <<>> \in Seq(EntryType) /\ <<>> \in Seq(CandType) /\ Len(<<>>) = 0
      /\ \A i \in 1..0 : FALSE
  OBVIOUS
<1>5. PackTypes
  BY <1>1, <1>2, <1>4, Parameters DEF PackTypes
<1>6. EntryInv
  BY <1>2, <1>4 DEF EntryInv
<1>7. WindowInv
  <2>1. 0 = Len(<<>>)
    OBVIOUS
  <2>2. PICK f : Held(size, <<>>) = f[0] /\ SumsTo(f, <<>>, 0)
    BY <1>1, <1>4, <2>1, HeldSums
  <2>3. Held(size, <<>>) = 0
    BY <2>2 DEF SumsTo
  <2> QED BY <1>2, <1>4, <2>3, Parameters DEF WindowInv
<1>8. LatestInv
  BY <1>2, <1>4 DEF LatestInv, Full
<1> QED BY <1>3, <1>5, <1>6, <1>7, <1>8 DEF OrderInv

LEMMA VerbatimStep ==
    ASSUME OrderInv, WriteVerbatim
    PROVE  OrderInv'
<1>1. PICK n, x : n = Len(entries) + 1 /\ x = FullEntry(Item.oid)
  OBVIOUS
<1>2. Kept /\ Len(entries) < Len(schedule) /\ Write(x) /\ cache' = cache /\ bytes' = bytes /\ ~Eligible(Item)
  BY <1>1 DEF WriteVerbatim, Kept
<1>3. n \in Objects /\ Item = schedule[n] /\ Item.oid \in Objects
  <2>1. Len(schedule) = Collected /\ Len(entries) \in Nat
    BY Parameters DEF OrderInv, ScheduleInv, PackTypes, Objects
  <2>2. n \in Objects
    BY <1>1, <1>2, <2>1, Parameters DEF Objects
  <2> QED BY <1>1, <2>2 DEF Item, OrderInv, ScheduleInv
<1>4. x \in EntryType /\ x.base = 0 /\ x.oid = Item.oid
  BY <1>1, <1>3, FullEntryFacts
<1>5. Grown(n, x) /\ PackTypes'
  BY <1>1, <1>2, <1>4, WrittenFacts DEF OrderInv, PackTypes
<1>6. EntryInv'
  BY <1>2, <1>3, <1>4, <1>5, EntriesGrow
<1>7. WindowInv' /\ LatestInv'
  BY <1>2, <1>3, <1>4, <1>5, WindowStays
<1> QED BY <1>2, <1>5, <1>6, <1>7, KeptFacts DEF OrderInv

LEMMA FullStep ==
    ASSUME OrderInv, Kept, Len(entries) < Len(schedule), Eligible(Item), Item.oid \notin corrupt, WriteFull
    PROVE  OrderInv'
<1>1. PICK n, x : n = Len(entries) + 1 /\ x = FullEntry(Item.oid)
  OBVIOUS
<1>2. Write(x) /\ Insert(Item)
  BY <1>1 DEF WriteFull
<1>3. n \in Objects /\ Item = schedule[n] /\ Item.oid \in Objects
  <2>1. Len(schedule) = Collected /\ Len(entries) \in Nat
    BY Parameters DEF OrderInv, ScheduleInv, PackTypes, Objects
  <2>2. n \in Objects
    BY <1>1, <2>1, Parameters DEF Objects
  <2> QED BY <1>1, <2>2 DEF Item, OrderInv, ScheduleInv
<1>4. x \in EntryType /\ x.base = 0 /\ x.oid = Item.oid
  BY <1>1, <1>3, FullEntryFacts
<1>5. Grown(n, x) /\ (cache' \in Seq(CandType) => PackTypes')
  BY <1>1, <1>2, <1>4, WrittenFacts DEF OrderInv
<1>6. EntryInv'
  BY <1>3, <1>4, <1>5, EntriesGrow
<1>7. cache' \in Seq(CandType) /\ WindowInv' /\ LatestInv'
  BY <1>2, <1>3, <1>4, <1>5, WindowGrows
<1> QED BY <1>5, <1>6, <1>7, KeptFacts DEF OrderInv

\* What the offers of a group are, to Best and to WriteBlob.
LEMMA OfferFacts ==
    ASSUME OrderInv, NEW group, NEW raw \in [{c.index : c \in Matching(group)} -> RawSizes]
    PROVE  /\ \A n \in Offers(group) : raw[cache[n].index] \in Nat
           /\ \A n \in 1..Len(cache) : cache[n].index > 0 /\ cache[n].index \in 1..Len(entries)
           /\ \A r \in Range(raw) : \E n \in Offers(group) : r = raw[cache[n].index]
           /\ Range(raw) \in SUBSET RawSizes
<1>1. PICK c, I : c = cache /\ I = {d.index : d \in Matching(group)}
  OBVIOUS
<1>2. c \in Seq(CandType) /\ DOMAIN c = 1..Len(c)
  BY <1>1 DEF OrderInv, PackTypes
<1>3. I = {c[n].index : n \in Offers(group)}
  BY <1>1, <1>2 DEF Matching, Range, Offers
<1>4. raw \in [I -> RawSizes] /\ RawSizes \subseteq Nat
  BY <1>1, Parameters
<1>5. \A n \in Offers(group) : raw[cache[n].index] \in Nat
  BY <1>1, <1>3, <1>4
<1>6. \A r \in Range(raw) : r \in RawSizes /\ \E n \in Offers(group) : r = raw[cache[n].index]
  BY <1>1, <1>3, <1>4 DEF Range
<1>7. \A n \in 1..Len(cache) : cache[n].index \in 1..Len(entries)
  BY DEF OrderInv, WindowInv, BaseOk
<1>8. Len(entries) \in Nat
  BY DEF OrderInv, PackTypes
<1> QED BY <1>5, <1>6, <1>7, <1>8

LEMMA WriteDeltaStep ==
    ASSUME OrderInv, Kept, Len(entries) < Len(schedule), Eligible(Item), Item.oid \notin corrupt,
           NEW raw \in [{c.index : c \in Matching(Item.group)} -> RawSizes],
           NEW best, best = Best(Item.group, raw, size[Item.oid] \div 2),
           WriteDelta(best, IF best = 0 THEN 0 ELSE raw[best], Range(raw))
    PROVE  OrderInv'
<1>1. PICK n, x, g, z : /\ n = Len(entries) + 1 /\ g = Item.group /\ z = size[Item.oid]
                        /\ x = [oid |-> Item.oid, base |-> best, raw |-> raw[best], rivals |-> Range(raw)]
  OBVIOUS
<1>2. best # 0 /\ Write(x) /\ cache' = cache /\ bytes' = bytes
  BY <1>1 DEF WriteDelta
<1>3. n \in Objects /\ Item = schedule[n] /\ Item.oid \in Objects /\ Len(entries) \in Nat
  <2>1. Len(schedule) = Collected /\ Len(entries) \in Nat
    BY Parameters DEF OrderInv, ScheduleInv, PackTypes, Objects
  <2>2. n \in Objects
    BY <1>1, <2>1, Parameters DEF Objects
  <2> QED BY <1>1, <2>1, <2>2 DEF Item, OrderInv, ScheduleInv
<1>4. z \in Nat /\ z \div 2 \in Nat /\ 2 * (z \div 2) <= z
  <2>1. size \in [Objects -> Nat]
    BY DEF OrderInv, PackTypes, GivenTypes
  <2>2. z \in Nat
    BY <1>1, <1>3, <2>1
  <2> QED BY <2>2
<1>5. /\ \A m \in Offers(g) : raw[cache[m].index] \in Nat
      /\ \A m \in 1..Len(cache) : cache[m].index > 0 /\ cache[m].index \in 1..Len(entries)
      /\ \A r \in Range(raw) : \E m \in Offers(g) : r = raw[cache[m].index]
      /\ Range(raw) \in SUBSET RawSizes
  <2>1. g = Item.group
    BY <1>1
  <2>2. /\ \A m \in Offers(Item.group) : raw[cache[m].index] \in Nat
        /\ \A m \in 1..Len(cache) : cache[m].index > 0 /\ cache[m].index \in 1..Len(entries)
        /\ \A r \in Range(raw) : \E m \in Offers(Item.group) : r = raw[cache[m].index]
        /\ Range(raw) \in SUBSET RawSizes
    BY OfferFacts
  <2> QED BY <2>1, <2>2, Zenon
<1>6. PICK l : l = z \div 2
  OBVIOUS
<1>7. /\ \E m \in Offers(g) : best = cache[m].index
      /\ raw[best] <= l /\ \A k \in Offers(g) : raw[best] <= raw[cache[k].index]
  <2>1. cache \in Seq(CandType)
    BY DEF OrderInv, PackTypes
  <2>2. best = Best(g, raw, l)
    BY <1>1, <1>6
  <2>3. l \in Nat /\ best # 0
    BY <1>2, <1>4, <1>6
  <2>4. \A m \in 1..Len(cache) : cache[m].index > 0
    BY <1>5
  <2>5. \A m \in Offers(g) : raw[cache[m].index] \in Nat
    BY <1>5
  <2>6. l \in Nat
    BY <2>3
  <2>7. best # 0
    BY <2>3
  <2> QED BY <2>1, <2>2, <2>4, <2>5, <2>6, <2>7, BestFacts, Zenon
<1>8. PICK m \in Offers(g) : best = cache[m].index
  BY <1>7
<1>9. raw[best] <= z \div 2 /\ \A k \in Offers(g) : raw[best] <= raw[cache[k].index]
  BY <1>6, <1>7
<1>10. raw[best] \in Nat /\ 2 * raw[best] <= z
  BY <1>4, <1>5, <1>8, <1>9
<1>11. BaseOk(best) /\ schedule[best].group = g /\ best \in 1..Len(entries)
  BY <1>8 DEF Offers, OrderInv, WindowInv, BaseOk
<1>12. x \in EntryType /\ x.base = best /\ x.oid = Item.oid /\ x.raw = raw[best] /\ x.rivals = Range(raw)
  <2>1. PICK o, w, rs : o = Item.oid /\ w = raw[best] /\ rs = Range(raw)
    OBVIOUS
  <2>2. x = [oid |-> o, base |-> best, raw |-> w, rivals |-> rs]
    BY <1>1, <2>1
  <2>3. o \in Objects /\ w \in Nat /\ rs \in SUBSET RawSizes
    BY <1>3, <1>5, <1>10, <2>1
  <2>4. best \in Nat
    <3>1. PICK top, b : top = Len(entries) /\ b = best
      OBVIOUS
    <3>2. top \in Nat /\ b \in 1..top
      BY <1>3, <1>11, <3>1
    <3>3. b \in Nat
      BY <3>2
    <3> QED BY <3>1, <3>3
  <2>5. x \in EntryType
    BY <2>2, <2>3, <2>4 DEF EntryType
  <2> QED BY <2>1, <2>2, <2>5
<1>13. NewDeltaOk(n, x)
  <2>1. best < n
    <3>1. PICK top, b : top = Len(entries) /\ b = best
      OBVIOUS
    <3>2. n = top + 1 /\ top \in Nat /\ b \in 1..top
      BY <1>1, <1>3, <1>11, <3>1
    <3>3. b < n
      BY <3>2
    <3> QED BY <3>1, <3>3
  <2>2. \A r \in Range(raw) : raw[best] <= r
    BY <1>5, <1>9
  <2> QED BY <1>1, <1>3, <1>10, <1>11, <1>12, <2>1, <2>2 DEF NewDeltaOk
<1>14. Grown(n, x) /\ PackTypes'
  BY <1>1, <1>2, <1>12, WrittenFacts DEF OrderInv, PackTypes
<1>15. EntryInv'
  BY <1>3, <1>12, <1>13, <1>14, EntriesGrow
<1>16. WindowInv' /\ LatestInv'
  BY <1>2, <1>12, <1>14, WindowStays
<1> QED BY <1>14, <1>15, <1>16, KeptFacts DEF OrderInv

LEMMA StillStep ==
    ASSUME OrderInv, Kept, entries' = entries, cache' = cache, bytes' = bytes, packing' \in {packing, "failed"}
    PROVE  OrderInv'
<1>1. /\ kind' = kind /\ path' = path /\ size' = size /\ corrupt' = corrupt /\ ofs' = ofs /\ schedule' = schedule
      /\ ScheduleInv' /\ GivenTypes' /\ \A i : Eligible(schedule[i])' <=> Eligible(schedule[i])
  BY KeptFacts DEF OrderInv, PackTypes
<1>2. PackTypes'
  BY <1>1 DEF OrderInv, PackTypes
<1>3. \A i : BaseOk(i)' <=> BaseOk(i)
  BY <1>1 DEF BaseOk
<1>4. EntryInv'
  BY <1>1, <1>3 DEF OrderInv, EntryInv, DeltaOk
<1>5. WindowInv'
  <2>1. Held(size, cache)' = Held(size, cache)
    <3>1. PICK h, z, c : h = Held(z, c) /\ z = size /\ c = cache
      OBVIOUS
    <3>2. size' = z /\ cache' = c
      BY <1>1, <3>1
    <3> QED BY <3>1, <3>2
  <2> QED BY <1>1, <1>3, <2>1 DEF OrderInv, WindowInv
<1>6. LatestInv'
  <2>1. Full' = Full
    BY <1>1 DEF Full
  <2> QED BY <2>1 DEF OrderInv, LatestInv
<1> QED BY <1>1, <1>2, <1>4, <1>5, <1>6 DEF OrderInv

\* The schedule holds every object and keeps paths together; entries follow
\* it; the window is what it says and holds the latest full blobs; a delta is
\* the best of what the window offered.
THEOREM OrderInvariant == POSpec => []OrderInv
<1>1. POInit => OrderInv
  BY OrderInit
<1>2. OrderInv /\ [PONext]_poVars => OrderInv'
  <2> SUFFICES ASSUME OrderInv, [PONext]_poVars PROVE OrderInv'
    OBVIOUS
  <2>1. CASE WriteVerbatim
    BY <2>1, VerbatimStep
  <2>2. CASE WriteBlob
    <3>1. Kept /\ Len(entries) < Len(schedule) /\ Eligible(Item) /\ Item.oid \notin corrupt
      BY <2>2 DEF WriteBlob, Kept
    <3>2. PICK raw \in [{c.index : c \in Matching(Item.group)} -> RawSizes] :
             LET best == Best(Item.group, raw, size[Item.oid] \div 2)
             IN WriteFull \/ WriteDelta(best, IF best = 0 THEN 0 ELSE raw[best], Range(raw))
      BY <2>2 DEF WriteBlob
    <3> QED BY <3>1, <3>2, FullStep, WriteDeltaStep
  <2>3. CASE CorruptZlib
    BY <2>3, StillStep DEF CorruptZlib, Kept
  <2>4. CASE UNCHANGED poVars
    BY <2>4, StillStep DEF poVars, Kept
  <2> QED BY <2>1, <2>2, <2>3, <2>4 DEF PONext
<1> QED BY <1>1, <1>2, PTL DEF POSpec

------------------------------------------------------------------------------
(* A pack that follows its plan *)

LEMMA PackTyped ==
    ASSUME OrderInv
    PROVE  /\ POTypeOK
           /\ DOMAIN entries = 1..Len(entries) /\ Len(entries) \in Nat /\ DOMAIN schedule = Objects
           /\ \A i \in DOMAIN entries : i \in Objects /\ entries[i].oid \in Objects
           /\ \A i \in Objects : i \in Nat
<1>1. entries \in Seq(EntryType) /\ Len(entries) <= Collected /\ Collected \in Nat
  BY Parameters DEF OrderInv, PackTypes
<1>2. DOMAIN schedule = Objects /\ Len(schedule) = Collected
  BY <1>1 DEF OrderInv, ScheduleInv, Objects
<1>3. DOMAIN entries = 1..Len(entries) /\ Len(entries) \in Nat
  BY <1>1
<1>4. \A i \in DOMAIN entries : i \in Objects
  BY <1>1, <1>3 DEF Objects
<1>5. \A i \in DOMAIN entries : entries[i].oid \in Objects
  <2> SUFFICES ASSUME NEW i \in DOMAIN entries PROVE entries[i].oid \in Objects
    OBVIOUS
  <2>1. entries[i] \in EntryType
    BY <1>1
  <2> QED BY <2>1 DEF EntryType
<1>6. POTypeOK
  BY <1>1, <1>2 DEF POTypeOK, OrderInv, PackTypes, WindowInv
<1> QED BY <1>1, <1>2, <1>3, <1>4, <1>5, <1>6 DEF Objects

LEMMA EntriesWellFormed ==
    ASSUME OrderInv
    PROVE  BasesPrecede /\ DeltaIsSmallest
<1> SUFFICES ASSUME NEW i \in DOMAIN entries, entries[i].base # 0
             PROVE  /\ LET b == entries[i].base
                       IN /\ b < i /\ entries[b].base = 0
                          /\ entries[b].oid \notin corrupt /\ kind[entries[b].oid] = "blob"
                          /\ schedule[b].group = schedule[i].group /\ schedule[b].group # NoGroup
                          /\ ofs
                    /\ \A r \in entries[i].rivals : entries[i].raw <= r
                    /\ 2 * entries[i].raw <= size[entries[i].oid]
  BY DEF BasesPrecede, DeltaIsSmallest
<1>1. DeltaOk(i)
  BY PackTyped DEF OrderInv, EntryInv
<1>2. BaseOk(entries[i].base)
  BY <1>1 DEF DeltaOk
<1> QED BY <1>1, <1>2 DEF DeltaOk, BaseOk, Eligible

LEMMA DoneIsThePlan ==
    ASSUME OrderInv
    PROVE  PackIsThePlan
<1> SUFFICES ASSUME packing = "done"
             PROVE  Len(entries) = Collected /\ {entries[i].oid : i \in DOMAIN entries} = Objects
  BY DEF PackIsThePlan
<1>1. Len(entries) = Collected
  BY DEF OrderInv, PackTypes
<1>2. DOMAIN entries = Objects
  BY <1>1, PackTyped DEF Objects
<1>3. \A i \in DOMAIN entries : entries[i].oid = schedule[i].oid
  BY PackTyped DEF OrderInv, EntryInv
<1>4. ASSUME NEW o \in Objects PROVE \E i \in DOMAIN entries : entries[i].oid = o
  <2>1. PICK i \in Objects : schedule[i].oid = o
    BY DEF OrderInv, ScheduleInv
  <2> QED BY <1>2, <1>3, <2>1
<1>5. \A i \in DOMAIN entries : entries[i].oid \in Objects
  BY PackTyped
<1> QED BY <1>1, <1>4, <1>5

LEMMA WindowWritten ==
    ASSUME OrderInv
    PROVE  WindowIsWritten
<1>1. bytes = Held(size, cache)
  BY DEF OrderInv, WindowInv
<1>2. ASSUME NEW c \in Range(cache) PROVE entries[c.index].oid = c.oid /\ entries[c.index].base = 0
  <2>1. PICK n \in 1..Len(cache) : c = cache[n]
    BY DEF Range, OrderInv, PackTypes
  <2>2. BaseOk(c.index) /\ c.oid = schedule[c.index].oid
    BY <2>1 DEF OrderInv, WindowInv
  <2> QED BY <2>2 DEF BaseOk
<1> QED BY <1>1, <1>2 DEF WindowIsWritten

LEMMA LatestHeld ==
    ASSUME OrderInv
    PROVE  LatestAreCandidates
<1>1. PICK full, held : /\ full = {i \in DOMAIN entries : entries[i].base = 0 /\ Eligible(schedule[i])}
                        /\ held = {c.index : c \in Range(cache)}
  OBVIOUS
<1>2. full = Full
  BY <1>1, PackTyped DEF Full
<1>3. PICK c : c = cache
  OBVIOUS
<1>4. c \in Seq(CandType) /\ DOMAIN c = 1..Len(c)
  BY <1>3 DEF OrderInv, PackTypes
<1>5. held = {c[n].index : n \in 1..Len(c)}
  BY <1>1, <1>3, <1>4 DEF Range
<1>6. ASSUME NEW i \in held, NEW j \in full, j > i PROVE j \in held
  <2>1. PICK n \in 1..Len(c) : i = c[n].index
    BY <1>5
  <2>2. \E m \in 1..Len(c) : c[m].index = j
    BY <1>2, <1>3, <1>6, <2>1 DEF OrderInv, LatestInv
  <2> QED BY <1>5, <2>2
<1>7. ASSUME full # {} PROVE Max(full) \in held
  <2>1. full \in SUBSET (1..Len(entries)) /\ Len(entries) \in Nat
    BY <1>2, PackTyped DEF Full
  <2>2. IsFiniteSet(full) /\ full \subseteq Nat
    <3>1. IsFiniteSet(1..Len(entries))
      BY <2>1, FS_Interval
    <3>2. IsFiniteSet(full)
      BY <2>1, <3>1, FS_Subset
    <3> QED BY <2>1, <3>2
  <2>3. PICK j : j = Max(full)
    OBVIOUS
  <2>4. j \in full /\ \A i \in full : j >= i
    BY <1>7, <2>2, <2>3, MaxNat
  <2>5. PICK n \in 1..Len(c) : c[n].index >= j
    BY <1>2, <1>3, <2>4 DEF OrderInv, LatestInv
  <2>6. BaseOk(c[n].index)
    BY <1>3 DEF OrderInv, WindowInv
  <2>7. c[n].index \in full
    BY <1>2, <2>6 DEF Full, BaseOk
  <2>8. c[n].index = j
    <3>1. PICK x : x = c[n].index
      OBVIOUS
    <3>2. x >= j /\ x \in full
      BY <2>5, <2>7, <3>1
    <3>3. j >= x /\ x \in Nat /\ j \in Nat
      BY <2>2, <2>4, <3>2
    <3>4. x = j
      BY <3>2, <3>3
    <3> QED BY <3>1, <3>4
  <2> QED BY <1>5, <2>3, <2>8
<1>8. ASSUME NEW i \in DOMAIN schedule, NEW j \in DOMAIN schedule, NEW k \in i..j,
             ofs, Scheduled(schedule[i].oid), Scheduled(schedule[j].oid),
             path[schedule[i].oid] = path[schedule[j].oid]
      PROVE  path[schedule[k].oid] = path[schedule[i].oid]
  <2>1. i \in Objects /\ j \in Objects
    BY PackTyped
  <2>2. Together(schedule)
    BY <1>8 DEF OrderInv, ScheduleInv
  <2> QED BY <1>8, <2>1, <2>2 DEF Together
<1>9. /\ \A i \in held, j \in full : j > i => j \in held
      /\ full # {} => Max(full) \in held
  BY <1>6, <1>7
<1> HIDE DEF Full
<1> QED BY <1>1, <1>8, <1>9 DEF LatestAreCandidates

\* The pack can be read front to back by a client that has nothing else, has
\* every object of the plan once when it is done, and its deltas come from a
\* window that is what it claims to be.
THEOREM PacksAreWellFormed == POSpec => []PackWellFormed
<1>1. OrderInv => PackWellFormed
  BY PackTyped, EntriesWellFormed, DoneIsThePlan, WindowWritten, LatestHeld DEF PackWellFormed
<1> QED BY <1>1, OrderInvariant, PTL
===============================================================================
