-------------------------------- MODULE Delta --------------------------------
(***************************************************************************)
(* make_delta: the instruction stream that rebuilds a target blob from a   *)
(* base blob.  One step is one turn of the scan loop.  Word, digit and     *)
(* instruction sizes are parameters, scaled down for TLC with their        *)
(* relations kept: a word splits in two halves, a copy length of zero      *)
(* means Digit^2, an insert carries at most InsertMax bytes.               *)
(***************************************************************************)
EXTENDS Integers, Sequences, FiniteSets, SequencesExt, FiniteSetsExt

CONSTANTS
    Byte, MaxBase, MaxTarget,   \* the inputs
    Budgets,                    \* raw sizes the caller still accepts
    MinCopy, ProbeWindow, MaxBlockMatches, InsertMax,
    HalfWord, HashBase,         \* a word is HalfWord^2
    Digit,                      \* 256 in the code
    SizeDigit                   \* 128 in the code

ASSUME DeltaAssumption ==
    /\ Byte \subseteq Nat /\ {MaxBase, MaxTarget} \subseteq Nat /\ Budgets \subseteq Nat
    /\ MinCopy \in Nat /\ MinCopy >= 2 /\ ProbeWindow \in {2, 4, 8} /\ InsertMax \in Nat \ {0}
    /\ MaxBlockMatches \in 1..ProbeWindow
    /\ HalfWord \in Nat \ {0} /\ HashBase \in Nat /\ HashBase % 2 = 1
    /\ Digit \in Nat /\ Digit >= 2 /\ SizeDigit \in Nat /\ SizeDigit >= 2
    /\ MaxBase < Digit * Digit * Digit * Digit
    \* A word holds an index, and is a power of two: its divisors but 1 are even.
    /\ ProbeWindow <= HalfWord * HalfWord /\ 4 * MaxBase < HalfWord * HalfWord
    /\ \A divisor \in 2..(HalfWord * HalfWord) :
            (HalfWord * HalfWord) % divisor = 0 => divisor % 2 = 0

VARIABLES
    base, target, budget,
    slots,           \* the base's block index
    pc,              \* "scan", "some" (a delta was returned) or "none"
    cursor, insertStart, hash, primed,
    out

inputs == <<base, target, budget, slots>>
dlVars == <<inputs, pc, cursor, insertStart, hash, primed, out>>

Slice(s, from, to) == SubSeq(s, from + 1, to)
Word == HalfWord * HalfWord

------------------------------------------------------------------------------
(* The fingerprint and the block index.                                    *)

BlockHash(window) ==
    LET h[n \in 0..Len(window)] ==
            IF n = 0 THEN 0 ELSE (h[n - 1] * HashBase + window[n]) % Word
    IN h[Len(window)]

WrappingPow(exp) ==
    LET acc[n \in 0..exp] == IF n = 0 THEN 1 ELSE (acc[n - 1] * HashBase) % Word
    IN acc[exp]
HashTop == WrappingPow(MinCopy - 1)

\* (Mutant of RollHash: the leaving byte is taken out at the wrong power.)
RollHashFlat(h, leaving, arriving) == ((h - leaving) * HashBase + arriving) % Word

RollHash(h, leaving, arriving) == ((h - leaving * HashTop) * HashBase + arriving) % Word

Free == [tag |-> 0, next |-> 0]
NextPowerOfTwo(n) ==
    LET p[k \in 0..n] == IF k = 0 THEN 1 ELSE IF p[k - 1] >= n THEN p[k - 1] ELSE 2 * p[k - 1]
    IN p[n]
Homes(b) == Max({ProbeWindow, NextPowerOfTwo(4 * (Len(b) \div MinCopy))})
HomeOf(fingerprint, homes) == ((fingerprint * HashBase) % Word) \div (Word \div homes)
Tag(fingerprint) == fingerprint \div HalfWord

\* The first free slot of the window takes the block, unless the window
\* already shows MaxBlockMatches of its tag, or is full.
InsertBlock(index, homes, fingerprint, offset) ==
    LET home == HomeOf(fingerprint, homes)
        window == home..(home + ProbeWindow - 1)
        free == {s \in window : index[s] = Free}
        before == {s \in window : s < Min(free) /\ index[s].tag = Tag(fingerprint)}
    IN IF free = {} \/ Cardinality(before) >= MaxBlockMatches THEN index
       ELSE [index EXCEPT ![Min(free)] = [tag |-> Tag(fingerprint), next |-> offset + 1]]

BlockIndex(b) ==
    LET homes == Homes(b)
        from[k \in 0..(Len(b) \div MinCopy)] ==
            IF k = 0 THEN [s \in 0..(homes + ProbeWindow - 1) |-> Free]
            ELSE LET offset == (k - 1) * MinCopy
                 IN InsertBlock(from[k - 1], homes,
                                BlockHash(Slice(b, offset, offset + MinCopy)), offset)
    IN from[Len(b) \div MinCopy]

------------------------------------------------------------------------------
(* The instructions.  A byte of the stream is its top bit and the other     *)
(* bits, as a number or as flags.                                           *)

SizeByte(more, low) == [top |-> more, value |-> low, flags |-> {}]
InsertByte(n) == [top |-> FALSE, value |-> n, flags |-> {}]
CopyByte(flags) == [top |-> TRUE, value |-> 0, flags |-> flags]
Plain(b) == [top |-> FALSE, value |-> b, flags |-> {}]

EncodeSize(n) ==
    LET size[k \in 0..(n + 1)] == IF k = 0 THEN n ELSE size[k - 1] \div SizeDigit
        last == Min({k \in 1..(n + 1) : size[k] = 0})
    IN [k \in 1..last |-> SizeByte(k < last, size[k - 1] % SizeDigit)]

\* The pieces of at most max that make up len, and the bounds of each.
Pieces(len, max) == (len + max - 1) \div max
PieceFrom(k, max) == (k - 1) * max
PieceTo(k, len, max) == IF k * max < len THEN k * max ELSE len

Literal(chunk) == <<InsertByte(Len(chunk))>> \o [i \in DOMAIN chunk |-> Plain(chunk[i])]

AppendInsert(bytes) ==
    FlattenSeq([k \in 1..Pieces(Len(bytes), InsertMax) |->
        Literal(Slice(bytes, PieceFrom(k, InsertMax), PieceTo(k, Len(bytes), InsertMax)))])

ChunkMax == Digit * Digit
Weight(k) == CASE k = 0 -> 1 [] k = 1 -> Digit [] k = 2 -> Digit * Digit [] OTHER -> Digit * Digit * Digit
DigitOf(n, k) == (n \div Weight(k)) % Digit

\* The flags 0..3 stand for digits of the offset, 4..6 for those of the
\* length; a chunk of exactly ChunkMax bytes has none of the latter.
CopyDigit(offset, len, k) ==
    IF k < 4 THEN DigitOf(offset, k) ELSE IF len = ChunkMax THEN 0 ELSE DigitOf(len, k - 4)

CopyChunk(offset, len) ==
    LET digit(k) == CopyDigit(offset, len, k)
    IN <<CopyByte({k \in 0..6 : digit(k) # 0})>>
       \o FlattenSeq([k \in 1..7 |-> IF digit(k - 1) = 0 THEN <<>> ELSE <<Plain(digit(k - 1))>>])

\* (Mutant of AppendCopy: the second chunk copies from the first's offset.)
AppendCopyStill(offset, len) ==
    FlattenSeq([k \in 1..Pieces(len, ChunkMax) |->
        CopyChunk(offset, PieceTo(k, len, ChunkMax) - PieceFrom(k, ChunkMax))])

AppendCopy(offset, len) ==
    FlattenSeq([k \in 1..Pieces(len, ChunkMax) |->
        CopyChunk(offset + PieceFrom(k, ChunkMax), PieceTo(k, len, ChunkMax) - PieceFrom(k, ChunkMax))])

------------------------------------------------------------------------------
(* The scan.                                                               *)

Sequences(max) == UNION {[1..n -> Byte] : n \in 0..max}

DLScene == base \in Sequences(MaxBase) /\ target \in Sequences(MaxTarget) /\ budget \in Budgets

DLStart ==
    /\ slots = BlockIndex(base)
    /\ pc = "scan" /\ cursor = 0 /\ insertStart = 0 /\ hash = 0 /\ primed = FALSE
    /\ out = EncodeSize(Len(base)) \o EncodeSize(Len(target))

DLInit == DLScene /\ DLStart

CommonPrefix(a, b) ==
    Max({n \in 0..Len(a) : n <= Len(b) /\ \A i \in 1..n : a[i] = b[i]})

WindowHash == IF primed THEN hash ELSE BlockHash(Slice(target, cursor, cursor + MinCopy))

MatchLen(offset) == CommonPrefix(Slice(base, offset, Len(base)), Slice(target, cursor, Len(target)))

\* The slots of the window whose block the bytes confirm.
Nominated ==
    LET home == HomeOf(WindowHash, Homes(base))
    IN {s \in home..(home + ProbeWindow - 1) :
          /\ slots[s].next # 0 /\ slots[s].tag = Tag(WindowHash)
          /\ MatchLen(slots[s].next - 1) >= MinCopy}

Scanning == pc = "scan" /\ cursor + MinCopy <= Len(target)
OverBudget == Len(out) + (cursor - insertStart) > budget

\* This comparison has already lost.
GiveUp ==
    /\ Scanning /\ OverBudget
    /\ pc' = "none"
    /\ UNCHANGED <<inputs, cursor, insertStart, hash, primed, out>>

\* The longest match, the first of its length, is copied.
Match ==
    /\ Scanning /\ ~OverBudget
    /\ \E s \in Nominated :
          LET offset == slots[s].next - 1
              len == MatchLen(offset)
          IN /\ \A t \in Nominated : MatchLen(slots[t].next - 1) < (IF t < s THEN len ELSE len + 1)
             /\ out' = out \o AppendInsert(Slice(target, insertStart, cursor))
                           \o AppendCopy(offset, len)
             /\ cursor' = cursor + len
    /\ insertStart' = cursor'
    /\ primed' = FALSE
    /\ UNCHANGED <<inputs, pc, hash>>

Slide ==
    /\ Scanning /\ ~OverBudget /\ Nominated = {}
    /\ LET arriving == cursor + MinCopy
       IN hash' = IF arriving < Len(target)
                  THEN RollHash(WindowHash, target[cursor + 1], target[arriving + 1])
                  ELSE WindowHash
    /\ primed' = TRUE
    /\ cursor' = cursor + 1
    /\ UNCHANGED <<inputs, pc, insertStart, out>>

\* The tail that can no longer form a window is an insert.
Finish ==
    /\ pc = "scan" /\ cursor + MinCopy > Len(target)
    /\ out' = out \o AppendInsert(Slice(target, insertStart, Len(target)))
    /\ pc' = IF Len(out') <= budget THEN "some" ELSE "none"
    /\ UNCHANGED <<inputs, cursor, insertStart, hash, primed>>

DLNext == GiveUp \/ Match \/ Slide \/ Finish
DLSpec == DLInit /\ [][DLNext]_dlVars

------------------------------------------------------------------------------
(* How a client applies a delta to the base b, a byte at a time.           *)

Start ==
    [mode |-> "baseSize", scale |-> 1, baseSize |-> 0, targetSize |-> 0, left |-> 0,
     flags |-> {}, offset |-> 0, len |-> 0, result |-> <<>>]

AfterSize(d, c, next) ==
    [d EXCEPT !.scale = IF c.top THEN d.scale * SizeDigit ELSE 1,
              !.mode = IF c.top THEN d.mode ELSE next]

\* A copy whose operands are all there.
Settled(b, d) ==
    LET len == IF d.len = 0 THEN ChunkMax ELSE d.len
    IN IF d.flags # {} THEN d
       ELSE IF d.offset + len > Len(b) THEN [d EXCEPT !.mode = "bad"]
       ELSE [d EXCEPT !.mode = "op", !.result = @ \o Slice(b, d.offset, d.offset + len)]

OffsetWeight(k) == IF k < 4 THEN Weight(k) ELSE 0
LenWeight(k) == IF k < 4 THEN 0 ELSE Weight(k - 4)

Step(b, d, c) ==
    CASE d.mode = "baseSize" ->
            [AfterSize(d, c, "targetSize") EXCEPT !.baseSize = @ + c.value * d.scale]
      [] d.mode = "targetSize" ->
            [AfterSize(d, c, "op") EXCEPT !.targetSize = @ + c.value * d.scale]
      [] d.mode = "op" /\ c.top ->
            Settled(b, [d EXCEPT !.mode = "copy", !.flags = c.flags, !.offset = 0, !.len = 0])
      [] d.mode = "op" /\ ~c.top ->
            [d EXCEPT !.mode = IF c.value = 0 THEN "bad" ELSE "insert", !.left = c.value]
      [] d.mode = "insert" ->
            [d EXCEPT !.mode = IF d.left = 1 THEN "op" ELSE "insert", !.left = @ - 1,
                      !.result = Append(@, c.value)]
      [] d.mode = "copy" ->
            LET k == Min(d.flags)
            IN Settled(b, [d EXCEPT !.flags = @ \ {k}, !.offset = @ + c.value * OffsetWeight(k),
                                    !.len = @ + c.value * LenWeight(k)])
      [] OTHER -> d

Run(b, d, s) ==
    LET after[n \in 0..Len(s)] == IF n = 0 THEN d ELSE Step(b, after[n - 1], s[n])
    IN after[Len(s)]

Apply(b, s) == Run(b, Start, s)

------------------------------------------------------------------------------
(* Properties                                                              *)

DLTypeOK ==
    /\ pc \in {"scan", "some", "none"} /\ primed \in BOOLEAN
    /\ hash \in 0..(Word - 1)
    /\ insertStart \in 0..cursor /\ cursor \in 0..Len(target)

\* At every turn of the loop the instructions written so far rebuild exactly
\* the target up to the pending literal run, and a delta that is returned
\* rebuilds the whole target under a header with the true sizes: zero digits
\* left out, the zero that means Digit^2, split copies and split inserts
\* included.
Reconstructs ==
    LET d == Apply(base, out)
    IN /\ DLTypeOK /\ d.mode = "op"
       /\ d.baseSize = Len(base) /\ d.targetSize = Len(target)
       /\ d.result = Slice(target, 0, IF pc = "some" THEN Len(target)
                                      ELSE IF pc = "scan" THEN insertStart ELSE Len(d.result))

\* The scan slides past a position only when no indexed block of the base
\* equals the bytes there: the rolled fingerprint, the tag and the probe
\* window together never hide a block that was indexed.
NoMissedBlock ==
    [][cursor' = cursor + 1 =>
         ~\E s \in DOMAIN slots :
             /\ slots[s].next # 0
             /\ Slice(base, slots[s].next - 1, slots[s].next - 1 + MinCopy)
                  = Slice(target, cursor, cursor + MinCopy)]_dlVars

==============================================================================
