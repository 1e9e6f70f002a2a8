------------------------- MODULE FrameStreamProofs -------------------------
(***************************************************************************)
(* Proofs about FrameStream, for any limit and any bounds.                 *)
(***************************************************************************)
EXTENDS FrameStream, SequenceTheorems, FiniteSetTheorems, TLAPS

\* Where the decoder is in the stream.
InPlace ==
  /\ InStream(till)
  /\ pos.rec <= till.rec
  /\ pos.rec = till.rec => pos.at <= till.at
  /\ pos.rec <= Len(sent) => pos.at <= sent[pos.rec].size
  /\ ~feeding => pos = till

\* What it keeps is the beginning of the current record, up to where it is.
Kept ==
  IF parts = <<>>
  THEN pos.at = 0
  ELSE /\ parts[1].from = 0 /\ parts[Len(parts)].to = pos.at
       /\ \A i \in 1..Len(parts) : parts[i].of = pos.rec
       /\ \A i \in 1..Len(parts) - 1 : parts[i + 1].from = parts[i].to

\* It skips only what is too large.
DecoderInv ==
  /\ InPlace
  /\ IF skippingOversized
     THEN /\ parts = <<>> /\ partsBytes = 0
          /\ pos.rec <= Len(sent) /\ sent[pos.rec].size > MaxFrameBytes
     ELSE partsBytes = pos.at /\ Kept

\* Writing leaves what was written.
LEMMA WriteKeeps ==
  ASSUME TypeOK, NEW r \in Record, Write(r)
  PROVE  /\ sent' \in Seq(Record) /\ Len(sent') = Len(sent) + 1 /\ Len(sent') <= MaxRecords
         /\ \A n \in 1..Len(sent) : sent'[n] = sent[n]
         /\ sent'[Len(sent) + 1] = r
<1>1. sent \in Seq(Record) /\ Len(sent) < MaxRecords
  BY DEF Write, TypeOK
<1>2. sent' = Append(sent, r)
  BY DEF Write
<1>. QED
  BY <1>1, <1>2, AppendProperties, ConstantsAssumption

\* What a result does keeps types.
LEMMA ReturnType ==
  ASSUME TypeOK, pos.rec \in Number, NEW is \in {"frame", "heartbeat", "bad", "frame_too_large"},
         Return(is)
  PROVE  /\ results' \in Seq(Result) /\ pending' \in Seq(Number)
         /\ handled' \in Seq(Number) /\ replies' \in Seq(Number)
<1>1. [of |-> pos.rec, is |-> is] \in Result
  BY DEF Result
<1>2. results' \in Seq(Result)
  BY <1>1 DEF Return, TypeOK
<1>3. Append(handled, pos.rec) \in Seq(Number) /\ Append(pending, pos.rec) \in Seq(Number)
      /\ Append(replies, pos.rec) \in Seq(Number)
  BY DEF TypeOK
<1>4. handled \in Seq(Number) /\ pending \in Seq(Number) /\ replies \in Seq(Number)
  BY DEF TypeOK
<1>5. CASE is = "frame"
  BY <1>2, <1>3, <1>4, <1>5 DEF Return
<1>6. CASE is # "frame"
  BY <1>2, <1>3, <1>4, <1>6 DEF Return
<1>. QED
  BY <1>5, <1>6

(***************************************************************************)
(* The line that is cut.                                                   *)
(***************************************************************************)

\* The bounds of the current record.
LEMMA CurrentRecord ==
  ASSUME TypeOK, pos.rec <= Len(sent)
  PROVE  /\ pos.rec \in 1..Len(sent) /\ pos.rec \in Number
         /\ sent[pos.rec] \in Record
         /\ sent[pos.rec].size \in 0..MaxSize
         /\ sent[pos.rec].kind \in {"frame", "heartbeat", "bad", "blank"}
<1>1. pos.rec \in 1..Len(sent) /\ Len(sent) \in Nat /\ Len(sent) <= MaxRecords
  BY ConstantsAssumption DEF TypeOK, Position
<1>2. sent[pos.rec] \in Record
  BY <1>1, ElementOfSeq DEF TypeOK
<1>. QED
  BY <1>1, <1>2, ConstantsAssumption DEF Record, Number

\* Unless an oversized record is being skipped, the pieces and the tail up to the newline
\* are the current record, whole.
LEMMA LineIsRecord ==
  ASSUME TypeOK, DecoderInv, ~skippingOversized, pos.rec <= Len(sent)
  PROVE  Parse(Append(parts, PieceTo(sent[pos.rec].size))) = sent[pos.rec].kind
<1>. DEFINE tail == PieceTo(sent[pos.rec].size)
            line == Append(parts, tail)
<1>1. parts \in Seq(Piece) /\ tail \in Piece
  BY CurrentRecord DEF PieceTo, Piece, TypeOK, Position
<1>2. /\ line \in Seq(Piece) /\ Len(line) = Len(parts) + 1 /\ Len(parts) \in Nat
      /\ line[Len(parts) + 1] = tail
      /\ \A i \in 1..Len(parts) : line[i] = parts[i]
  BY <1>1, AppendProperties, LenProperties
<1>3. tail.of = pos.rec /\ tail.from = pos.at /\ tail.to = sent[pos.rec].size
  BY DEF PieceTo
<1>4. Kept
  BY DEF DecoderInv
<1>5. CASE parts = <<>>
  <2>1. Len(parts) = 0 /\ pos.at = 0
    BY <1>4, <1>5 DEF Kept
  <2>2. line[1] = tail /\ Len(line) = 1
    BY <1>2, <2>1
  <2>3. Whole(line)
    BY <1>3, <2>1, <2>2 DEF Whole
  <2>. QED
    BY <1>3, <2>2, <2>3 DEF Parse
<1>6. CASE parts # <<>>
  <2>1. Len(parts) > 0
    BY <1>1, <1>2, <1>6, EmptySeq
  <2>2. /\ parts[1].from = 0 /\ parts[Len(parts)].to = pos.at
        /\ \A i \in 1..Len(parts) : parts[i].of = pos.rec
        /\ \A i \in 1..Len(parts) - 1 : parts[i + 1].from = parts[i].to
    BY <1>4, <1>6 DEF Kept
  <2>3. line[1] = parts[1] /\ line[Len(line)] = tail
    BY <1>2, <2>1
  <2>4. ASSUME NEW i \in 1..Len(line) - 1
        PROVE  line[i + 1].of = line[i].of /\ line[i + 1].from = line[i].to
    <3>1. i \in 1..Len(parts) /\ line[i] = parts[i]
      BY <1>2
    <3>2. CASE i = Len(parts)
      BY <1>2, <1>3, <2>2, <3>1, <3>2
    <3>3. CASE i < Len(parts)
      <4>1. i \in 1..Len(parts) - 1 /\ line[i + 1] = parts[i + 1] /\ i + 1 \in 1..Len(parts)
        BY <1>2, <3>1, <3>3
      <4>. QED
        BY <2>2, <3>1, <4>1
    <3>. QED
      BY <1>2, <3>1, <3>2, <3>3
  <2>5. line[1].of = pos.rec
    BY <1>2, <2>1, <2>2, <2>3
  <2>6. Whole(line)
    BY <1>3, <2>2, <2>3, <2>4, <2>5 DEF Whole
  <2>. QED
    BY <2>5, <2>6 DEF Parse
<1>. QED
  BY <1>5, <1>6

(***************************************************************************)
(* Types and the decoder's invariant.                                      *)
(***************************************************************************)

\* The rest of a chunk is counted and kept.
LEMMA KeepRestInv ==
  ASSUME TypeOK, DecoderInv, KeepRest
  PROVE  TypeOK' /\ DecoderInv'
<1>1. /\ till.rec = pos.rec /\ pos.at <= till.at
      /\ feeding' = FALSE /\ pos' = till /\ UNCHANGED <<sent, till, heard>>
  BY DEF KeepRest, DecoderInv, InPlace
<1>2. /\ till.at \in 0..MaxSize /\ pos.at \in 0..MaxSize /\ MaxSize \in Nat
      /\ till \in Position /\ pos \in Position
      /\ Len(sent) \in Nat /\ MaxFrameBytes \in Nat
  BY ConstantsAssumption DEF TypeOK, Position
<1>3. InPlace'
  BY <1>1, <1>2 DEF DecoderInv, InPlace, InStream, Position
<1>4. CASE till.at = pos.at \/ skippingOversized
  <2>1. UNCHANGED <<parts, partsBytes, skippingOversized, results, pending, handled, replies>>
    BY <1>4 DEF KeepRest, ReturnNothing
  <2>2. TypeOK'
    BY <1>1, <2>1 DEF TypeOK
  <2>3. CASE skippingOversized
    <3>1. skippingOversized' /\ parts' = parts /\ partsBytes' = partsBytes
      BY <2>1, <2>3
    <3>2. pos'.rec = pos.rec /\ sent' = sent
      BY <1>1
    <3>3. /\ parts = <<>> /\ partsBytes = 0
          /\ pos.rec <= Len(sent) /\ sent[pos.rec].size > MaxFrameBytes
      BY <2>3 DEF DecoderInv
    <3>4. /\ parts' = <<>> /\ partsBytes' = 0
          /\ pos'.rec <= Len(sent') /\ sent'[pos'.rec].size > MaxFrameBytes
      BY <3>1, <3>2, <3>3
    <3>. QED
      BY <1>3, <2>2, <3>1, <3>4, Zenon DEF DecoderInv
  <2>4. CASE ~skippingOversized
    <3>1. pos' = pos
      BY <1>1, <1>2, <1>4, <2>4 DEF Position
    <3>2. ~skippingOversized' /\ parts' = parts /\ partsBytes' = partsBytes
      BY <2>1, <2>4
    <3>3. partsBytes = pos.at /\ Kept
      BY <2>4 DEF DecoderInv
    <3>4. Kept'
      BY <3>1, <3>2, <3>3 DEF Kept
    <3>. QED
      <4>1. partsBytes' = pos'.at
        BY <3>1, <3>2, <3>3
      <4>. QED
        BY <1>3, <2>2, <3>2, <3>4, <4>1, Zenon DEF DecoderInv
  <2>. QED
    BY <2>2, <2>3, <2>4
<1>5. CASE till.at # pos.at /\ ~skippingOversized
  <2>1. partsBytes = pos.at /\ Kept
    BY <1>5 DEF DecoderInv
  <2>2. partsBytes + till.at - pos.at = till.at
    BY <1>2, <2>1
  <2>3. till.at > 0
    BY <1>1, <1>2, <1>5
  <2>4. pos.rec <= Len(sent) /\ till.at <= sent[pos.rec].size
    BY <1>1, <1>2, <2>3 DEF DecoderInv, InPlace, InStream
  <2>5. CASE till.at > MaxFrameBytes
    <3>1. /\ skippingOversized' = TRUE /\ parts' = <<>> /\ partsBytes' = 0
          /\ Return("frame_too_large")
      BY <1>5, <2>2, <2>5 DEF KeepRest
    <3>2. TypeOK'
      <4>1. /\ results' \in Seq(Result) /\ pending' \in Seq(Number)
            /\ handled' \in Seq(Number) /\ replies' \in Seq(Number)
        BY <2>4, <3>1, CurrentRecord, ReturnType
      <4>2. parts' \in Seq(Piece) /\ partsBytes' \in 0..MaxFrameBytes
        BY <1>2, <3>1
      <4>. QED
        BY <1>1, <3>1, <4>1, <4>2 DEF TypeOK
    <3>3. sent[pos.rec].size > MaxFrameBytes
      BY <1>2, <2>4, <2>5, CurrentRecord
    <3>. QED
      BY <1>1, <1>3, <2>4, <3>1, <3>2, <3>3 DEF DecoderInv
  <2>6. CASE ~(till.at > MaxFrameBytes)
    <3>1. /\ parts' = Append(parts, PieceTo(till.at)) /\ partsBytes' = till.at
          /\ UNCHANGED <<skippingOversized, results, pending, handled, replies>>
      BY <1>5, <2>2, <2>6 DEF KeepRest, ReturnNothing
    <3>2. PieceTo(till.at) \in Piece /\ parts \in Seq(Piece)
      BY <1>2, <2>4, CurrentRecord DEF PieceTo, Piece, TypeOK
    <3>3. /\ parts' \in Seq(Piece) /\ Len(parts') = Len(parts) + 1 /\ Len(parts) \in Nat
          /\ parts'[Len(parts) + 1] = PieceTo(till.at)
          /\ \A i \in 1..Len(parts) : parts'[i] = parts[i]
      BY <3>1, <3>2, AppendProperties, LenProperties
    <3>4. partsBytes' \in 0..MaxFrameBytes
      BY <1>2, <2>6, <3>1
    <3>5. TypeOK'
      BY <1>1, <1>2, <3>1, <3>3, <3>4 DEF TypeOK
    <3>6. Kept'
      <4>1. parts' # <<>>
        BY <3>3
      <4>2. parts'[Len(parts')].to = till.at /\ parts'[Len(parts')].of = pos.rec
        BY <3>3 DEF PieceTo
      <4>3. CASE parts = <<>>
        <5>1. Len(parts) = 0 /\ pos.at = 0
          BY <2>1, <4>3 DEF Kept
        <5>2. parts'[1].from = 0
          BY <3>3, <5>1 DEF PieceTo
        <5>. QED
          BY <1>1, <3>3, <4>1, <4>2, <5>1, <5>2 DEF Kept
      <4>4. CASE parts # <<>>
        <5>1. Len(parts) > 0
          BY <3>2, <3>3, <4>4, EmptySeq
        <5>2. /\ parts[1].from = 0 /\ parts[Len(parts)].to = pos.at
              /\ \A i \in 1..Len(parts) : parts[i].of = pos.rec
              /\ \A i \in 1..Len(parts) - 1 : parts[i + 1].from = parts[i].to
          BY <2>1, <4>4 DEF Kept
        <5>3. parts'[1].from = 0
          BY <3>3, <5>1, <5>2
        <5>4. \A i \in 1..Len(parts') : parts'[i].of = pos.rec
          BY <3>3, <4>2, <5>2
        <5>5. ASSUME NEW i \in 1..Len(parts') - 1
              PROVE  parts'[i + 1].from = parts'[i].to
          <6>1. i \in 1..Len(parts) /\ parts'[i] = parts[i]
            BY <3>3
          <6>2. CASE i = Len(parts)
            BY <3>3, <5>2, <6>1, <6>2 DEF PieceTo
          <6>3. CASE i < Len(parts)
            <7>1. i \in 1..Len(parts) - 1 /\ parts'[i + 1] = parts[i + 1]
              BY <3>3, <6>1, <6>3
            <7>. QED
              BY <5>2, <6>1, <7>1
          <6>. QED
            BY <3>3, <6>1, <6>2, <6>3
        <5>. QED
          BY <1>1, <4>1, <4>2, <5>3, <5>4, <5>5 DEF Kept
      <4>. QED
        BY <4>3, <4>4
    <3>. QED
      BY <1>1, <1>3, <1>5, <3>1, <3>5, <3>6 DEF DecoderInv
  <2>. QED
    BY <2>5, <2>6
<1>. QED
  BY <1>4, <1>5

\* What CutLine returns for the current record is its outcome.
LEMMA CutLineReturns ==
  ASSUME TypeOK, DecoderInv, CutLine, ~skippingOversized
  PROVE  /\ pos.rec <= Len(sent)
         /\ parts' = <<>> /\ partsBytes' = 0
         /\ IF sent[pos.rec].size > MaxFrameBytes THEN Return("frame_too_large")
            ELSE IF sent[pos.rec].kind = "blank" THEN ReturnNothing
            ELSE Return(sent[pos.rec].kind)
<1>1. pos.rec <= Len(sent)
  BY SMTT(40) DEF CutLine, DecoderInv, InPlace, InStream, TypeOK, Position
<1>2. partsBytes = pos.at
  BY DEF DecoderInv
<1>3. partsBytes + sent[pos.rec].size - pos.at = sent[pos.rec].size
  BY <1>1, <1>2, CurrentRecord, ConstantsAssumption, SMTT(40) DEF TypeOK, Position
<1>. QED
  BY <1>1, <1>3, LineIsRecord DEF CutLine

\* A newline begins a record anew.
LEMMA CutLineInv ==
  ASSUME TypeOK, DecoderInv, CutLine
  PROVE  TypeOK' /\ DecoderInv'
<1>1. /\ feeding /\ till.rec > pos.rec /\ pos' = [rec |-> pos.rec + 1, at |-> 0]
      /\ skippingOversized' = FALSE /\ UNCHANGED <<sent, till, feeding, heard>>
  BY DEF CutLine
<1>2. /\ till \in Position /\ pos \in Position /\ MaxSize \in Nat /\ MaxRecords \in Nat
      /\ Len(sent) \in Nat /\ sent \in Seq(Record)
  BY ConstantsAssumption DEF TypeOK
<1>3. pos.rec <= Len(sent)
  BY <1>1, <1>2 DEF DecoderInv, InPlace, InStream, Position
<1>4. pos' \in Position
  BY <1>1, <1>2 DEF Position
<1>5. InPlace'
  <2>1. pos'.rec = pos.rec + 1 /\ pos'.at = 0
    BY <1>1
  <2>2. pos'.rec <= till.rec
    BY <1>1, <1>2, <2>1 DEF Position
  <2>3. pos'.rec <= Len(sent) => 0 <= sent[pos'.rec].size
    <3>. SUFFICES ASSUME pos'.rec <= Len(sent)
                  PROVE  0 <= sent[pos'.rec].size
      OBVIOUS
    <3>1. pos'.rec \in 1..Len(sent)
      BY <1>2, <2>1 DEF Position
    <3>2. sent[pos'.rec] \in Record
      BY <1>2, <3>1, ElementOfSeq
    <3>. QED
      BY <1>2, <3>2 DEF Record
  <2>4. 0 <= till.at
    BY <1>2 DEF Position
  <2>. QED
    BY <1>1, <2>1, <2>2, <2>3, <2>4 DEF DecoderInv, InPlace, InStream
<1>6. CASE skippingOversized
  <2>1. parts = <<>> /\ partsBytes = 0
        /\ UNCHANGED <<parts, partsBytes, results, pending, handled, replies>>
    BY <1>6 DEF CutLine, ReturnNothing, DecoderInv
  <2>2. TypeOK'
    BY <1>1, <1>4, <2>1 DEF TypeOK
  <2>. QED
    BY <1>1, <1>5, <2>1, <2>2 DEF DecoderInv, Kept
<1>7. CASE ~skippingOversized
  <2>1. parts' = <<>> /\ partsBytes' = 0
    BY <1>7, CutLineReturns
  <2>2. /\ results' \in Seq(Result) /\ pending' \in Seq(Number)
        /\ handled' \in Seq(Number) /\ replies' \in Seq(Number)
    <3>1. pos.rec \in Number /\ sent[pos.rec].kind \in {"frame", "heartbeat", "bad", "blank"}
      BY <1>3, CurrentRecord
    <3>2. \/ ReturnNothing
          \/ \E is \in {"frame", "heartbeat", "bad", "frame_too_large"} : Return(is)
      BY <1>7, <3>1, CutLineReturns
    <3>3. CASE ReturnNothing
      BY <3>3 DEF ReturnNothing, TypeOK
    <3>. QED
      BY <3>1, <3>2, <3>3, ReturnType
  <2>3. parts' \in Seq(Piece) /\ partsBytes' \in 0..MaxFrameBytes
    BY <2>1, ConstantsAssumption
  <2>4. TypeOK'
    BY <1>1, <1>4, <2>2, <2>3 DEF TypeOK
  <2>. QED
    BY <1>1, <1>5, <2>1, <2>4 DEF DecoderInv, Kept
<1>. QED
  BY <1>6, <1>7

\* Writing and arriving move only the end of the stream.
LEMMA StreamInv ==
  ASSUME TypeOK, DecoderInv,
         (\E r \in Record : Write(r)) \/ (\E p \in Position : Arrive(p))
  PROVE  TypeOK' /\ DecoderInv'
<1>1. /\ till \in Position /\ pos \in Position /\ MaxSize \in Nat
      /\ Len(sent) \in Nat /\ sent \in Seq(Record)
  BY ConstantsAssumption DEF TypeOK
<1>2. ASSUME NEW r \in Record, Write(r)
      PROVE  TypeOK' /\ DecoderInv'
  <2>1. UNCHANGED <<till, decoderVars, connectionVars>>
    BY <1>2 DEF Write
  <2>2. /\ sent' \in Seq(Record) /\ Len(sent') = Len(sent) + 1 /\ Len(sent') <= MaxRecords
        /\ \A n \in 1..Len(sent) : sent'[n] = sent[n]
        /\ sent'[Len(sent) + 1] = r
    BY <1>2, WriteKeeps
  <2>3. TypeOK'
    BY <2>1, <2>2 DEF TypeOK, decoderVars, connectionVars
  <2>4. r.size >= 0
    BY <1>1 DEF Record
  <2>5. InStream(till)'
    <3>1. till.rec \in Nat \ {0} /\ till.at \in Nat
      BY <1>1, ConstantsAssumption DEF Position
    <3>2. CASE till.rec <= Len(sent)
      BY <1>1, <2>1, <2>2, <3>1, <3>2 DEF DecoderInv, InPlace, InStream
    <3>3. CASE till.rec > Len(sent)
      <4>1. till.rec = Len(sent) + 1 /\ till.at = 0
        BY <1>1, <3>1, <3>3 DEF DecoderInv, InPlace, InStream
      <4>. QED
        BY <1>1, <2>1, <2>2, <2>4, <4>1 DEF InStream
    <3>. QED
      BY <1>1, <3>1, <3>2, <3>3
  <2>6. (pos.rec <= Len(sent) => pos.at <= sent[pos.rec].size)'
    <3>1. pos.rec \in Nat \ {0} /\ pos.at \in Nat /\ pos' = pos
      BY <1>1, <2>1, ConstantsAssumption DEF Position, decoderVars
    <3>2. CASE pos.rec <= Len(sent)
      BY <1>1, <2>2, <3>1, <3>2 DEF DecoderInv, InPlace
    <3>3. CASE pos.rec = Len(sent) + 1
      <4>1. till.rec = Len(sent) + 1 /\ till.at = 0 /\ pos.at <= till.at
        BY <1>1, <3>1, <3>3 DEF DecoderInv, InPlace, InStream, Position
      <4>. QED
        BY <2>2, <2>4, <3>1, <3>3, <4>1
    <3>. QED
      BY <1>1, <2>2, <3>1, <3>2, <3>3
  <2>7. InPlace'
    BY <2>1, <2>5, <2>6 DEF DecoderInv, InPlace, decoderVars
  <2>8. skippingOversized => pos.rec <= Len(sent') /\ sent'[pos.rec].size > MaxFrameBytes
    BY <1>1, <2>2 DEF DecoderInv, Position
  <2>. QED
    BY <2>1, <2>3, <2>7, <2>8 DEF DecoderInv, Kept, decoderVars
<1>3. ASSUME NEW p \in Position, Arrive(p)
      PROVE  TypeOK' /\ DecoderInv'
  <2>1. /\ till' = p /\ feeding' = TRUE /\ InStream(p) /\ After(p, till) /\ pos = till
        /\ UNCHANGED <<sent, pos, parts, partsBytes, skippingOversized, results, connectionVars>>
    BY <1>3 DEF Arrive, DecoderInv, InPlace
  <2>2. TypeOK'
    BY <2>1 DEF TypeOK, connectionVars
  <2>3. InPlace'
    BY <1>1, <2>1 DEF DecoderInv, InPlace, InStream, After, Position
  <2>. QED
    BY <2>1, <2>2, <2>3 DEF DecoderInv, Kept
<1>. QED
  BY <1>2, <1>3

\* The late handler changes nothing of the decoder.
LEMMA OnFrameInv ==
  ASSUME TypeOK, DecoderInv, OnFrame
  PROVE  TypeOK' /\ DecoderInv'
<1>1. handled \o pending \in Seq(Number) /\ <<>> \in Seq(Number)
  BY DEF TypeOK
<1>. QED
  BY <1>1 DEF OnFrame, TypeOK, DecoderInv, InPlace, InStream, Kept, decoderVars

\* Every step keeps both.
LEMMA DecoderNext == TypeOK /\ DecoderInv /\ [Next]_vars => TypeOK' /\ DecoderInv'
<1>. SUFFICES ASSUME TypeOK, DecoderInv, [Next]_vars
              PROVE  TypeOK' /\ DecoderInv'
  OBVIOUS
<1>1. CASE UNCHANGED vars
  BY <1>1 DEF vars, decoderVars, connectionVars, TypeOK, DecoderInv, InPlace, InStream, Kept
<1>2. CASE Next
  BY <1>2, KeepRestInv, CutLineInv, StreamInv, OnFrameInv DEF Next
<1>. QED
  BY <1>1, <1>2

\* The start.
LEMMA DecoderInit == Init => TypeOK /\ DecoderInv
<1>. SUFFICES ASSUME Init
              PROVE  TypeOK /\ DecoderInv
  OBVIOUS
<1>1. Start \in Position /\ 0 \in 0..MaxFrameBytes /\ 0 <= MaxRecords
  BY ConstantsAssumption DEF Start, Position
<1>2. TypeOK
  <2>1. /\ <<>> \in Seq(Record) /\ Len(<<>>) = 0 /\ <<>> \in Seq(Piece)
        /\ <<>> \in Seq(Result) /\ <<>> \in Seq(Number)
    BY EmptySeq
  <2>. QED
    BY <1>1, <2>1 DEF Init, TypeOK
<1>3. DecoderInv
  BY DEF Init, Start, DecoderInv, InPlace, InStream, Kept
<1>. QED
  BY <1>2, <1>3

\* Every variable keeps its type; what the decoder keeps of an incomplete record stays
\* below the limit.
THEOREM TypeCorrect == Spec => []TypeOK
<1>. QED
  BY DecoderInit, DecoderNext, PTL DEF Spec

(***************************************************************************)
(* The refinement.                                                         *)
(***************************************************************************)

\* How many records have been answered.
Answered == IF skippingOversized THEN pos.rec ELSE pos.rec - 1

\* A result that is the outcome of the current record is an answer.
LEMMA ReturnAnswers ==
  ASSUME TypeOK, pos.rec <= Len(sent), ~skippingOversized, UNCHANGED sent,
         Answered' = pos.rec,
         IF sent[pos.rec].size > MaxFrameBytes THEN Return("frame_too_large")
         ELSE IF sent[pos.rec].kind = "blank" THEN ReturnNothing
         ELSE Return(sent[pos.rec].kind)
  PROVE  Records!Answer
<1>. DEFINE r == sent[pos.rec]
<1>1. Answered = pos.rec - 1 /\ pos.rec - 1 < Len(sent) /\ (pos.rec - 1) + 1 = pos.rec
      /\ Len(sent) \in Nat
  BY ConstantsAssumption, SMTT(40) DEF Answered, TypeOK, Position
<1>2. results' = results \o Outcome(pos.rec, r)
  <2>1. results \in Seq(Result) /\ r \in Record /\ pos.rec \in Number
    BY CurrentRecord DEF TypeOK
  <2>2. \A is : Append(results, [of |-> pos.rec, is |-> is])
                  = results \o <<[of |-> pos.rec, is |-> is]>>
    BY <2>1
  <2>3. results \o <<>> = results
    BY <2>1, ConcatEmptySeq
  <2>4. CASE r.size > MaxFrameBytes
    BY <2>2, <2>4 DEF Return, Outcome
  <2>5. CASE ~(r.size > MaxFrameBytes) /\ r.kind = "blank"
    BY <2>3, <2>5 DEF ReturnNothing, Outcome
  <2>6. CASE ~(r.size > MaxFrameBytes) /\ r.kind # "blank"
    BY <2>2, <2>6 DEF Return, Outcome
  <2>. QED
    BY <2>4, <2>5, <2>6
<1>. QED
  BY <1>1, <1>2 DEF Records!Answer, Answered

\* Every step is a step of the reader of records, or none.
LEMMA StepImplements ==
  TypeOK /\ DecoderInv /\ [Next]_vars => [Records!Next]_(Records!vars)
<1>. SUFFICES ASSUME TypeOK, DecoderInv, [Next]_vars
              PROVE  [Records!Next]_(Records!vars)
  OBVIOUS
<1>. USE DEF Records!vars
<1>1. CASE UNCHANGED vars
  BY <1>1 DEF vars, decoderVars
<1>2. ASSUME NEW r \in Record, Write(r)
      PROVE  Records!Next
  BY <1>2 DEF Write, decoderVars, Records!Next, Records!Write
<1>3. ASSUME NEW p \in Position, Arrive(p)
      PROVE  UNCHANGED Records!vars
  BY <1>3 DEF Arrive
<1>4. CASE OnFrame
  BY <1>4 DEF OnFrame, decoderVars
<1>5. CASE KeepRest
  <2>1. /\ till.rec = pos.rec /\ pos' = till /\ UNCHANGED sent
    BY <1>5 DEF KeepRest
  <2>2. CASE till.at = pos.at \/ skippingOversized
    BY <1>5, <2>1, <2>2 DEF KeepRest, ReturnNothing
  <2>3. CASE till.at # pos.at /\ ~skippingOversized
    <3>1. /\ till.at \in Nat /\ pos.at \in Nat /\ till.at > pos.at /\ partsBytes = pos.at
          /\ Len(sent) \in Nat /\ pos.rec \in Nat /\ till.rec \in Nat
      BY <2>1, <2>3, ConstantsAssumption, SMTT(30) DEF DecoderInv, InPlace, TypeOK, Position
    <3>2. partsBytes + till.at - pos.at = till.at
      BY <3>1
    <3>3. CASE till.at > MaxFrameBytes
      <4>1. skippingOversized' = TRUE /\ Return("frame_too_large")
        BY <1>5, <2>3, <3>2, <3>3 DEF KeepRest
      <4>2. pos.rec <= Len(sent) /\ till.at <= sent[pos.rec].size
        BY <2>1, <3>1 DEF DecoderInv, InPlace, InStream
      <4>3. sent[pos.rec].size > MaxFrameBytes
        BY <3>1, <3>3, <4>2, CurrentRecord, ConstantsAssumption
      <4>4. Answered' = pos.rec
        BY <2>1, <4>1 DEF Answered
      <4>. QED
        BY <2>1, <2>3, <4>1, <4>2, <4>3, <4>4, ReturnAnswers DEF Records!Next
    <3>4. CASE ~(till.at > MaxFrameBytes)
      BY <1>5, <2>1, <2>3, <3>2, <3>4 DEF KeepRest, ReturnNothing
    <3>. QED
      BY <3>3, <3>4
  <2>. QED
    BY <2>2, <2>3
<1>6. CASE CutLine
  <2>1. pos'.rec = pos.rec + 1 /\ skippingOversized' = FALSE /\ UNCHANGED sent
    BY <1>6 DEF CutLine
  <2>2. pos.rec \in Nat /\ pos'.rec - 1 = pos.rec
    BY <2>1, ConstantsAssumption, SMTT(40) DEF TypeOK, Position
  <2>3. CASE skippingOversized
    BY <1>6, <2>1, <2>2, <2>3 DEF CutLine, ReturnNothing
  <2>4. CASE ~skippingOversized
    <3>1. Answered' = pos.rec
      BY <2>1, <2>2 DEF Answered
    <3>. QED
      BY <1>6, <2>1, <2>4, <3>1, CutLineReturns, ReturnAnswers DEF Records!Next
  <2>. QED
    BY <2>3, <2>4
<1>. QED
  BY <1>1, <1>2, <1>3, <1>4, <1>5, <1>6 DEF Next

\* However the stream is cut into chunks, each record is answered once, in order, by its
\* own worth (the safety part of ImplementsRecordReader, which adds that it is answered).
THEOREM Refinement == Spec => Records!Init /\ [][Records!Next]_(Records!vars)
<1>1. Init => Records!Init
  BY DEF Init, Start, Records!Init
<1>. QED
  BY <1>1, DecoderInit, DecoderNext, StepImplements, PTL DEF Spec

(***************************************************************************)
(* What encodeFrame lets pass.                                             *)
(***************************************************************************)

\* A frame within the decoder's limit that has been answered is among the results.
Answers ==
  \A n \in 1..Answered :
    sent[n].size <= MaxFrameBytes /\ sent[n].kind = "frame" =>
      \E i \in 1..Len(results) : results[i] = [of |-> n, is |-> "frame"]

\* The records answered are among those that are written.
LEMMA AnsweredBound ==
  ASSUME TypeOK, DecoderInv
  PROVE  Answered \in 0..Len(sent) /\ pos.rec - 1 \in 0..Answered
<1>1. Len(sent) \in Nat /\ pos.rec \in Nat \ {0} /\ till.rec \in Nat \ {0} /\ MaxRecords \in Nat
  BY ConstantsAssumption DEF TypeOK, Position
<1>2. till.rec <= Len(sent) + 1
  <2>1. InStream(till)
    BY DEF DecoderInv, InPlace
  <2>. QED
    BY <1>1, <2>1 DEF InStream
<1>3. pos.rec <= Len(sent) + 1
  BY <1>1, <1>2 DEF DecoderInv, InPlace
<1>4. CASE skippingOversized
  BY <1>1, <1>4 DEF DecoderInv, Answered
<1>5. CASE ~skippingOversized
  BY <1>1, <1>3, <1>5 DEF Answered
<1>. QED
  BY <1>4, <1>5

\* A step of the reader of records keeps the results and adds the next one.
LEMMA AnswersNext ==
  TypeOK /\ TypeOK' /\ DecoderInv /\ Answers /\ [Next]_vars => Answers'
<1>. SUFFICES ASSUME TypeOK, TypeOK', DecoderInv, Answers, [Records!Next]_(Records!vars)
              PROVE  Answers'
  BY StepImplements
<1>1. /\ results \in Seq(Result) /\ sent \in Seq(Record) /\ Len(sent) \in Nat
      /\ Answered \in 0..Len(sent) /\ Len(sent) <= MaxRecords
  BY AnsweredBound DEF TypeOK
<1>2. CASE UNCHANGED Records!vars
  BY <1>2 DEF Answers, Answered, Records!vars
<1>3. CASE Records!Write
  <2>1. PICK r \in Record : sent' = Append(sent, r)
    BY <1>3 DEF Records!Write
  <2>2. \A n \in 1..Len(sent) : sent'[n] = sent[n]
    BY <1>1, <2>1, AppendProperties
  <2>3. Answered' = Answered /\ results' = results
    BY <1>3 DEF Records!Write, Answered
  <2>. QED
    BY <1>1, <2>2, <2>3 DEF Answers
<1>4. CASE Records!Answer
  <2>. DEFINE m == Answered + 1
              new == Outcome(m, sent[m])
  <2>1. Answered' = m /\ sent' = sent /\ results' = results \o new /\ Answered < Len(sent)
    BY <1>4 DEF Records!Answer, Answered
  <2>2. new \in Seq(Result)
    <3>1. m \in 1..Len(sent)
      BY <1>1, <2>1
    <3>3. sent[m] \in Record
      BY <1>1, <3>1, ElementOfSeq
    <3>2. m \in Number
      BY <1>1, <3>1, ConstantsAssumption DEF Number
    <3>4. /\ [of |-> m, is |-> "frame_too_large"] \in Result
          /\ sent[m].kind # "blank" => [of |-> m, is |-> sent[m].kind] \in Result
      BY <3>2, <3>3 DEF Result, Record
    <3>. QED
      BY <3>4 DEF Outcome
  <2>3. /\ Len(results') = Len(results) + Len(new) /\ Len(results) \in Nat /\ Len(new) \in Nat
        /\ \A i \in 1..Len(results) : results'[i] = results[i]
        /\ \A j \in 1..Len(new) : results'[Len(results) + j] = new[j]
    BY <1>1, <2>1, <2>2, ConcatProperties, LenProperties
  <2>4. ASSUME NEW n \in 1..Answered', sent'[n].size <= MaxFrameBytes, sent'[n].kind = "frame"
        PROVE  \E i \in 1..Len(results') : results'[i] = [of |-> n, is |-> "frame"]
    <3>1. CASE n = m
      <4>1. new = <<[of |-> n, is |-> "frame"]>>
        <5>1. ~(sent[m].size > MaxFrameBytes)
          <6>1. sent[m] \in Record
            <7>1. m \in 1..Len(sent)
              BY <1>1, <2>1
            <7>. QED
              BY <1>1, <7>1, ElementOfSeq
          <6>. QED
            BY <2>1, <2>4, <3>1, <6>1, ConstantsAssumption DEF Record
        <5>. QED
          BY <2>1, <2>4, <3>1, <5>1 DEF Outcome
      <4>2. Len(new) = 1 /\ new[1] = [of |-> n, is |-> "frame"]
        BY <4>1
      <4>3. results'[Len(results) + 1] = [of |-> n, is |-> "frame"]
        BY <2>3, <4>2
      <4>4. Len(results) + 1 \in 1..Len(results')
        BY <2>3, <4>2
      <4>. QED
        BY <4>3, <4>4
    <3>2. CASE n # m
      <4>1. n \in 1..Answered
        BY <1>1, <2>1, <3>2
      <4>2. PICK i \in 1..Len(results) : results[i] = [of |-> n, is |-> "frame"]
        BY <2>1, <2>4, <4>1 DEF Answers
      <4>. QED
        BY <2>3, <4>2
    <3>. QED
      BY <3>1, <3>2
  <2>. QED
    BY <2>4 DEF Answers
<1>. QED
  BY <1>2, <1>3, <1>4 DEF Records!Next

\* A frame that encodeFrame lets pass is decoded at the other end, as a frame.
THEOREM EncodedIsDecoded == Spec => []SentIsHeard
<1>1. Init => Answers
  BY DEF Init, Start, Answers, Answered
<1>2. TypeOK /\ DecoderInv /\ Answers => SentIsHeard
  <2>. SUFFICES ASSUME TypeOK, DecoderInv, Answers, NEW n \in 1..pos.rec - 1,
                       Encodable(sent[n]), sent[n].kind = "frame"
                PROVE  \E i \in 1..Len(results) : results[i] = [of |-> n, is |-> "frame"]
    BY DEF SentIsHeard
  <2>1. n \in 1..Answered /\ n \in 1..Len(sent)
    BY AnsweredBound DEF TypeOK
  <2>2. sent[n] \in Record
    BY <2>1, ElementOfSeq DEF TypeOK
  <2>3. sent[n].size <= MaxFrameBytes
    BY <2>2, ConstantsAssumption DEF Encodable, Record
  <2>. QED
    BY <2>1, <2>3 DEF Answers
<1>. QED
  BY <1>1, <1>2, DecoderInit, DecoderNext, AnswersNext, PTL DEF Spec

(***************************************************************************)
(* What the connection makes of the results.                               *)
(***************************************************************************)

\* One more result of a kind is served by its record, and one of another kind by nothing.
LEMMA ServesMore ==
  ASSUME NEW these \in Seq(Result), NEW served \in Seq(Number), NEW kinds, NEW r \in Result,
         Serves(served, kinds, these)
  PROVE  /\ r.is \in kinds => Serves(Append(served, r.of), kinds, Append(these, r))
         /\ r.is \notin kinds => Serves(served, kinds, Append(these, r))
<1>. DEFINE L == Len(these)
            more == Append(these, r)
            old == {i \in 1..L : these[i].is \in kinds}
            new == {i \in 1..Len(more) : more[i].is \in kinds}
            turn(S, i) == {j \in S : j <= i}
<1>1. /\ L \in Nat /\ Len(more) = L + 1 /\ more[L + 1] = r
      /\ \A i \in 1..L : more[i] = these[i]
  OBVIOUS
<1>2. /\ Len(served) = Cardinality(old)
      /\ \A i \in old : served[Cardinality(turn(old, i))] = these[i].of
  BY DEF Serves
<1>3. /\ IsFiniteSet(old) /\ \A i \in old : i \in 1..L
      /\ \A i \in old : IsFiniteSet(turn(old, i))
  <2>1. IsFiniteSet(1..L) /\ old \in SUBSET (1..L)
    BY <1>1, FS_Interval
  <2>2. IsFiniteSet(old)
    BY <2>1, FS_Subset
  <2>3. \A i \in old : turn(old, i) \in SUBSET old
    OBVIOUS
  <2>. QED
    BY <2>1, <2>2, <2>3, FS_Subset
<1>4. new = IF r.is \in kinds THEN old \cup {L + 1} ELSE old
  BY <1>1
<1>5. \A i \in old : turn(new, i) = turn(old, i)
  <2>. HIDE DEF old, new
  <2>. QED
    BY <1>1, <1>3, <1>4
<1>6. CASE r.is \notin kinds
  <2>1. new = old
    BY <1>4, <1>6
  <2>2. \A i \in old : served[Cardinality(turn(new, i))] = more[i].of
    BY <1>1, <1>2, <1>3, <1>5
  <2>3. Serves(served, kinds, more)
    <3>. HIDE DEF old, turn
    <3>1. Len(served) = Cardinality(new)
      BY <1>2, <2>1
    <3>2. \A i \in new : served[Cardinality(turn(new, i))] = more[i].of
      BY <2>1, <2>2
    <3>. QED
      BY <3>1, <3>2 DEF Serves, turn
  <2>. QED
    BY <1>6, <2>3
<1>7. CASE r.is \in kinds
  <2>. DEFINE longer == Append(served, r.of)
              n == Cardinality(old)
  <2>1. r.of \in Number
    BY DEF Result
  <2>2. /\ Len(longer) = n + 1 /\ longer[n + 1] = r.of /\ n \in Nat
        /\ \A k \in 1..n : longer[k] = served[k]
    <3>1. n = Len(served)
      BY <1>2
    <3>. HIDE DEF n
    <3>. QED
      BY <2>1, <3>1
  <2>3. new = old \cup {L + 1} /\ L + 1 \notin old
    BY <1>1, <1>4, <1>7
  <2>4. Cardinality(new) = n + 1
    BY <1>3, <2>3, FS_AddElement
  <2>5. turn(new, L + 1) = new
    <3>. HIDE DEF old, new
    <3>. QED
      BY <1>1, <1>3, <2>3
  <2>6. \A i \in old : Cardinality(turn(old, i)) \in 1..n
    <3>. SUFFICES ASSUME NEW i \in old
                  PROVE  Cardinality(turn(old, i)) \in 1..n
      OBVIOUS
    <3>1. turn(old, i) \in SUBSET old /\ i \in turn(old, i)
      BY <1>1, <1>3
    <3>. HIDE DEF old, turn
    <3>2. Cardinality(turn(old, i)) <= n /\ Cardinality(turn(old, i)) # 0
      BY <1>3, <3>1, FS_Subset, FS_EmptySet
    <3>3. Cardinality(turn(old, i)) \in Nat
      BY <1>3, FS_CardinalityType
    <3>. QED
      BY <2>2, <3>2, <3>3
  <2>. HIDE DEF longer, n, old, turn
  <2>7. \A i \in old : longer[Cardinality(turn(new, i))] = more[i].of
    BY <1>1, <1>2, <1>3, <1>5, <2>2, <2>6
  <2>8. longer[Cardinality(turn(new, L + 1))] = more[L + 1].of
    BY <1>1, <2>2, <2>4, <2>5
  <2>9. \A i \in new : longer[Cardinality(turn(new, i))] = more[i].of
    BY <2>3, <2>7, <2>8
  <2>10. Serves(longer, kinds, more)
    <3>1. Len(longer) = Cardinality(new)
      BY <2>2, <2>4
    <3>. QED
      BY <2>9, <3>1 DEF Serves, turn
  <2>. QED
    BY <1>7, <2>10 DEF longer
<1>. QED
  BY <1>6, <1>7

\* A frame goes to the handler or, before there is one, to what is kept for it; anything
\* else but a heartbeat is answered.
LEMMA ReturnServed ==
  ASSUME TypeOK, EveryResultServed, pos.rec \in Number, UNCHANGED heard,
         NEW is \in {"frame", "heartbeat", "bad", "frame_too_large"}, Return(is)
  PROVE  EveryResultServed'
<1>. DEFINE r == [of |-> pos.rec, is |-> is]
            errors == {"bad", "frame_too_large"}
<1>1. /\ results \in Seq(Result) /\ replies \in Seq(Number)
      /\ handled \in Seq(Number) /\ pending \in Seq(Number)
      /\ handled \o pending \in Seq(Number)
  BY DEF TypeOK
<1>2. r \in Result /\ r.of = pos.rec /\ r.is = is /\ results' = Append(results, r)
  BY DEF Result, Return
<1>. HIDE DEF r
<1>3. /\ is = "frame" => Serves(Append(handled \o pending, pos.rec), {"frame"}, results')
      /\ is # "frame" => Serves(handled \o pending, {"frame"}, results')
  <2>1. Serves(handled \o pending, {"frame"}, results)
    BY DEF EveryResultServed
  <2>2. /\ r.is \in {"frame"} => Serves(Append(handled \o pending, r.of), {"frame"}, Append(results, r))
        /\ r.is \notin {"frame"} => Serves(handled \o pending, {"frame"}, Append(results, r))
    BY <1>1, <1>2, <2>1, ServesMore
  <2>. QED
    BY <1>2, <2>2, Zenon
<1>4. /\ is \in errors => Serves(Append(replies, pos.rec), errors, results')
      /\ is \notin errors => Serves(replies, errors, results')
  <2>1. Serves(replies, errors, results)
    BY DEF EveryResultServed
  <2>2. /\ r.is \in errors => Serves(Append(replies, r.of), errors, Append(results, r))
        /\ r.is \notin errors => Serves(replies, errors, Append(results, r))
    BY <1>1, <1>2, <2>1, ServesMore
  <2>. QED
    BY <1>2, <2>2, Zenon
<1>5. replies' = (IF is \in errors THEN Append(replies, pos.rec) ELSE replies)
  BY DEF Return
<1>6. /\ handled' \o pending' = (IF is = "frame" THEN Append(handled \o pending, pos.rec)
                                 ELSE handled \o pending)
      /\ heard' => pending' = <<>>
  <2>1. heard => pending = <<>>
    BY DEF EveryResultServed
  <2>2. CASE is # "frame"
    BY <2>1, <2>2 DEF Return
  <2>3. CASE is = "frame" /\ heard
    <3>1. handled' = Append(handled, pos.rec) /\ pending' = <<>> /\ pending = <<>>
      BY <2>1, <2>3 DEF Return
    <3>2. handled \o <<>> = handled /\ Append(handled, pos.rec) \o <<>> = Append(handled, pos.rec)
      <4>1. Append(handled, pos.rec) \in Seq(Number)
        BY <1>1
      <4>. QED
        BY <1>1, <4>1, ConcatEmptySeq
    <3>. QED
      BY <2>3, <3>1, <3>2
  <2>4. CASE is = "frame" /\ ~heard
    <3>1. handled' = handled /\ pending' = Append(pending, pos.rec)
      BY <2>4 DEF Return
    <3>2. handled \o Append(pending, pos.rec) = Append(handled \o pending, pos.rec)
      BY <1>1
    <3>. QED
      BY <2>4, <3>1, <3>2
  <2>. QED
    BY <2>2, <2>3, <2>4
<1>7. Serves(handled' \o pending', {"frame"}, results')
  BY <1>3, <1>6
<1>8. Serves(replies', errors, results')
  BY <1>4, <1>5
<1>. QED
  BY <1>6, <1>7, <1>8 DEF EveryResultServed

\* Every step serves what it decodes; the late handler is given what was kept, in order.
LEMMA ServedNext ==
  TypeOK /\ DecoderInv /\ EveryResultServed /\ [Next]_vars => EveryResultServed'
<1>. SUFFICES ASSUME TypeOK, DecoderInv, EveryResultServed, [Next]_vars
              PROVE  EveryResultServed'
  OBVIOUS
<1>1. CASE UNCHANGED <<results, heard, pending, handled, replies>>
  BY <1>1 DEF EveryResultServed
<1>2. CASE OnFrame
  <2>1. handled \o pending \in Seq(Number)
    BY DEF TypeOK
  <2>2. (handled \o pending) \o <<>> = handled \o pending
    BY <2>1, ConcatEmptySeq
  <2>3. handled' = handled \o pending /\ pending' = <<>> /\ UNCHANGED <<results, replies>>
    BY <1>2 DEF OnFrame, decoderVars
  <2>4. handled' \o pending' = handled \o pending
    BY <2>2, <2>3
  <2>. QED
    BY <2>3, <2>4 DEF EveryResultServed
<1>3. CASE KeepRest
  <2>1. UNCHANGED heard /\ (ReturnNothing \/ (till.at # pos.at /\ Return("frame_too_large")))
    BY <1>3 DEF KeepRest
  <2>2. till.at # pos.at => pos.rec <= Len(sent)
    <3>1. /\ till.rec = pos.rec /\ pos.at <= till.at /\ InStream(till)
          /\ till.at \in 0..MaxSize /\ pos.at \in 0..MaxSize /\ pos.rec \in Int
      BY <1>3, ConstantsAssumption DEF KeepRest, DecoderInv, InPlace, TypeOK, Position
    <3>. QED
      BY <3>1, ConstantsAssumption DEF InStream
  <2>3. CASE ReturnNothing
    BY <1>1, <2>1, <2>3 DEF ReturnNothing
  <2>4. CASE till.at # pos.at /\ Return("frame_too_large")
    BY <2>1, <2>2, <2>4, CurrentRecord, ReturnServed
  <2>. QED
    BY <2>1, <2>3, <2>4
<1>4. CASE CutLine
  <2>1. UNCHANGED heard
    BY <1>4 DEF CutLine
  <2>2. CASE skippingOversized
    BY <1>1, <1>4, <2>1, <2>2 DEF CutLine, ReturnNothing
  <2>3. CASE ~skippingOversized
    <3>1. /\ pos.rec \in Number
          /\ \/ ReturnNothing
             \/ \E is \in {"frame", "heartbeat", "bad", "frame_too_large"} : Return(is)
      BY <1>4, <2>3, CutLineReturns, CurrentRecord
    <3>2. CASE ReturnNothing
      BY <1>1, <2>1, <3>2 DEF ReturnNothing
    <3>. QED
      BY <2>1, <3>1, <3>2, ReturnServed
  <2>. QED
    BY <2>2, <2>3
<1>5. (UNCHANGED vars \/ (\E r \in Record : Write(r)) \/ \E p \in Position : Arrive(p))
        => UNCHANGED <<results, heard, pending, handled, replies>>
  BY DEF Write, Arrive, vars, decoderVars, connectionVars
<1>. QED
  BY <1>1, <1>2, <1>3, <1>4, <1>5 DEF Next

\* The handler gets every frame once and in order, whenever it is set, and every error is
\* answered, however the stream is cut.
THEOREM ResultsServed == Spec => []EveryResultServed
<1>1. Init => EveryResultServed
  <2>. SUFFICES ASSUME Init
                PROVE  EveryResultServed
    OBVIOUS
  <2>1. results = <<>> /\ handled \o pending = <<>> /\ replies = <<>> /\ ~heard
    BY DEF Init
  <2>2. ASSUME NEW kinds
        PROVE  Serves(<<>>, kinds, <<>>)
    <3>1. {i \in 1..Len(<<>>) : <<>>[i].is \in kinds} = {}
      OBVIOUS
    <3>. QED
      BY <3>1, FS_EmptySet DEF Serves
  <2>. QED
    BY <2>1, <2>2 DEF EveryResultServed
<1>. QED
  BY <1>1, DecoderInit, DecoderNext, ServedNext, PTL DEF Spec
=============================================================================
