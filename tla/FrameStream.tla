---------------------------- MODULE FrameStream ----------------------------
(***************************************************************************)
(* Frames on a socket: the records one end writes, the chunks the network  *)
(* makes of them, the decoder that cuts the chunks at newlines and keeps   *)
(* what is left over, and the connection that hands frames to a handler    *)
(* which may come late.                                                    *)
(*                                                                         *)
(* The stream is the records one after the other, each followed by its     *)
(* newline.  A position in it is a record's number and how many of its     *)
(* bytes lie before the position; a piece of a Buffer is where in the      *)
(* stream its bytes came from.  One step of the model is one turn of the   *)
(* loop in FrameDecoder.feed.                                              *)
(***************************************************************************)
EXTENDS Integers, Sequences, FiniteSets

CONSTANTS
  MaxFrameBytes, \* MAX_FRAME_BYTES
  MaxSize,       \* bound: the size of a record
  MaxRecords     \* bound: records written

ASSUME ConstantsAssumption == MaxFrameBytes \in Nat \ {0} /\ MaxSize \in Nat /\ MaxRecords \in Nat

\* A record by what JSON.parse and parseFrame make of it.  The size counts a carriage
\* return, not the newline; a blank record has nothing else.
Record ==
  {r \in [kind : {"frame", "heartbeat", "bad", "blank"}, size : 0..MaxSize] :
     IF r.kind = "blank" THEN r.size <= 1 ELSE r.size >= 1}

VARIABLES
  sent,      \* the records written so far
  till,      \* the position up to which the stream has arrived
  feeding,   \* feed() is in its loop
  pos,       \* the position of start
  parts,     \* the pieces of a record that is not complete
  partsBytes,
  skippingOversized,
  results,   \* history: what feed() has returned so far
  heard,     \* frameHandler is set
  pending,   \* pendingFrames
  handled,   \* the frames given to the handler
  replies    \* the protocol errors sent back

decoderVars == <<feeding, pos, parts, partsBytes, skippingOversized, results>>
connectionVars == <<heard, pending, handled, replies>>
vars == <<sent, till, decoderVars, connectionVars>>

Number == 1..MaxRecords
Position == [rec : 1..MaxRecords + 1, at : 0..MaxSize]
Piece == [of : Number, from : 0..MaxSize, to : 0..MaxSize]
Result == [of : Number, is : {"frame", "heartbeat", "bad", "frame_too_large"}]

\* What is kept of a record that is not complete stays below the limit.
TypeOK ==
  /\ sent \in Seq(Record) /\ Len(sent) <= MaxRecords
  /\ till \in Position /\ pos \in Position
  /\ feeding \in BOOLEAN /\ skippingOversized \in BOOLEAN /\ heard \in BOOLEAN
  /\ parts \in Seq(Piece) /\ partsBytes \in 0..MaxFrameBytes
  /\ results \in Seq(Result)
  /\ pending \in Seq(Number) /\ handled \in Seq(Number) /\ replies \in Seq(Number)

Start == [rec |-> 1, at |-> 0]

Init ==
  /\ sent = <<>> /\ till = Start
  /\ feeding = FALSE /\ pos = Start
  /\ parts = <<>> /\ partsBytes = 0 /\ skippingOversized = FALSE
  /\ results = <<>>
  /\ heard = FALSE /\ pending = <<>> /\ handled = <<>> /\ replies = <<>>

-----------------------------------------------------------------------------
(***************************************************************************)
(* The other end and the network.                                          *)
(***************************************************************************)

\* Mutant of Encodable: the newline is taken off where it should be added.
EncodableShort(r) == r.size - 1 <= MaxFrameBytes

\* encodeFrame throws unless the record fits with its newline.
Encodable(r) == r.size + 1 <= MaxFrameBytes

\* The other end writes a record.  It may be another version, whose limit is higher.
Write(r) ==
  /\ Len(sent) < MaxRecords
  /\ sent' = Append(sent, r)
  /\ UNCHANGED <<till, decoderVars, connectionVars>>

\* The position lies in the stream written so far.
InStream(p) ==
  IF p.rec <= Len(sent) THEN p.at <= sent[p.rec].size ELSE p = [rec |-> Len(sent) + 1, at |-> 0]

After(p, q) == p.rec > q.rec \/ (p.rec = q.rec /\ p.at > q.at)

\* A chunk arrives: what the stream holds up to any later position.
Arrive(p) ==
  /\ ~feeding
  /\ InStream(p) /\ After(p, till)
  /\ till' = p
  /\ feeding' = TRUE
  /\ UNCHANGED <<sent, pos, parts, partsBytes, skippingOversized, results, connectionVars>>

-----------------------------------------------------------------------------
(***************************************************************************)
(* The decoder and the connection's data handler.                          *)
(***************************************************************************)

\* The pieces are one record from its first byte to its last.
Whole(line) ==
  /\ line[1].from = 0
  /\ line[Len(line)].to = sent[line[1].of].size
  /\ \A i \in 1..Len(line) - 1 : line[i + 1].of = line[i].of /\ line[i + 1].from = line[i].to

\* What JSON.parse and parseFrame make of a line: bytes of several records, or of a part
\* of one, are no JSON.
Parse(line) == IF Whole(line) THEN sent[line[1].of].kind ELSE "bad"

\* Mutant of Return: a handler that has not come yet misses the frame.
ReturnUnheard(is) ==
  /\ results' = Append(results, [of |-> pos.rec, is |-> is])
  /\ UNCHANGED pending
  /\ IF is = "frame"
     THEN handled' = (IF heard THEN Append(handled, pos.rec) ELSE handled) /\ UNCHANGED replies
     ELSE /\ UNCHANGED handled
          /\ replies' = IF is = "heartbeat" THEN replies ELSE Append(replies, pos.rec)

\* feed() has a result.  The data handler drops a heartbeat, answers an error, and hands
\* a frame to the handler or keeps it until there is one.
Return(is) ==
  /\ results' = Append(results, [of |-> pos.rec, is |-> is])
  /\ IF is = "frame"
     THEN IF heard
          THEN handled' = Append(handled, pos.rec) /\ UNCHANGED <<pending, replies>>
          ELSE pending' = Append(pending, pos.rec) /\ UNCHANGED <<handled, replies>>
     ELSE /\ UNCHANGED <<pending, handled>>
          /\ replies' = IF is = "heartbeat" THEN replies ELSE Append(replies, pos.rec)

ReturnNothing == UNCHANGED <<results, pending, handled, replies>>

\* The bytes from the position of start up to the given one.
PieceTo(to) == [of |-> pos.rec, from |-> pos.at, to |-> to]

\* Mutant of KeepRest: only a newline shows that a record is oversized.
KeepRestWhatever ==
  /\ feeding
  /\ till.rec = pos.rec
  /\ feeding' = FALSE
  /\ pos' = till
  /\ IF till.at = pos.at
     THEN UNCHANGED <<parts, partsBytes, skippingOversized>> /\ ReturnNothing
     ELSE /\ parts' = Append(parts, PieceTo(till.at))
          /\ partsBytes' = partsBytes + till.at - pos.at
          /\ UNCHANGED skippingOversized
          /\ ReturnNothing
  /\ UNCHANGED <<sent, till, heard>>

\* No newline in the rest of the chunk: the rest waits for the next chunk, unless the
\* record is oversized already.
KeepRest ==
  /\ feeding
  /\ till.rec = pos.rec
  /\ feeding' = FALSE
  /\ pos' = till
  /\ IF till.at = pos.at \/ skippingOversized
     THEN UNCHANGED <<parts, partsBytes, skippingOversized>> /\ ReturnNothing
     ELSE LET bytes == partsBytes + till.at - pos.at
          IN  IF bytes > MaxFrameBytes
              THEN /\ skippingOversized' = TRUE
                   /\ parts' = <<>> /\ partsBytes' = 0
                   /\ Return("frame_too_large")
              ELSE /\ parts' = Append(parts, PieceTo(till.at))
                   /\ partsBytes' = bytes
                   /\ UNCHANGED skippingOversized
                   /\ ReturnNothing
  /\ UNCHANGED <<sent, till, heard>>

\* Mutant of CutLine: after the rest of an oversized record the next one is skipped too.
CutLineSkipsOn ==
  /\ feeding
  /\ till.rec > pos.rec
  /\ pos' = [rec |-> pos.rec + 1, at |-> 0]
  /\ UNCHANGED skippingOversized
  /\ IF skippingOversized
     THEN UNCHANGED <<parts, partsBytes>> /\ ReturnNothing
     ELSE LET size == sent[pos.rec].size
              bytes == partsBytes + size - pos.at
              line == Append(parts, PieceTo(size))
          IN  /\ parts' = <<>> /\ partsBytes' = 0
              /\ IF bytes > MaxFrameBytes
                 THEN Return("frame_too_large")
                 ELSE IF Parse(line) = "blank" THEN ReturnNothing ELSE Return(Parse(line))
  /\ UNCHANGED <<sent, till, feeding, heard>>

\* A newline: the record is complete, or the rest of an oversized one ends.
CutLine ==
  /\ feeding
  /\ till.rec > pos.rec
  /\ pos' = [rec |-> pos.rec + 1, at |-> 0]
  /\ skippingOversized' = FALSE
  /\ IF skippingOversized
     THEN UNCHANGED <<parts, partsBytes>> /\ ReturnNothing
     ELSE LET size == sent[pos.rec].size
              bytes == partsBytes + size - pos.at
              line == Append(parts, PieceTo(size))
          IN  /\ parts' = <<>> /\ partsBytes' = 0
              /\ IF bytes > MaxFrameBytes
                 THEN Return("frame_too_large")
                 ELSE IF Parse(line) = "blank" THEN ReturnNothing ELSE Return(Parse(line))
  /\ UNCHANGED <<sent, till, feeding, heard>>

\* onFrame(): the handler gets what was kept for it.
OnFrame ==
  /\ ~heard /\ ~feeding
  /\ heard' = TRUE
  /\ handled' = handled \o pending
  /\ pending' = <<>>
  /\ UNCHANGED <<sent, till, decoderVars, replies>>

Next ==
  \/ \E r \in Record : Write(r)
  \/ \E p \in Position : Arrive(p)
  \/ KeepRest
  \/ CutLine
  \/ OnFrame

Spec == Init /\ [][Next]_vars

\* TCP delivers the rest of what was written, in chunks of its own making, and the event
\* loop feeds each chunk to the decoder.
Fairness == WF_vars(\E p \in Position : Arrive(p)) /\ WF_vars(KeepRest) /\ WF_vars(CutLine)

FairSpec == Spec /\ Fairness

-----------------------------------------------------------------------------
\* What a record is worth, by itself: too large, nothing, or what its bytes say.
Outcome(n, r) ==
  IF r.size > MaxFrameBytes THEN <<[of |-> n, is |-> "frame_too_large"]>>
  ELSE IF r.kind = "blank" THEN <<>>
  ELSE <<[of |-> n, is |-> r.kind]>>

Records == INSTANCE RecordReader WITH
  written <- sent, out <- results,
  answered <- IF skippingOversized THEN pos.rec ELSE pos.rec - 1

\* However the stream is cut into chunks, every record is answered once, in order, by its
\* own worth: an oversized record costs one error and nothing of the next record.
ImplementsRecordReader == Records!Spec

\* A frame that encodeFrame lets pass is never refused by the decoder at the other end,
\* whose limit is counted otherwise.
SentIsHeard ==
  \A n \in 1..pos.rec - 1 :
    Encodable(sent[n]) /\ sent[n].kind = "frame" =>
      \E i \in 1..Len(results) : results[i] = [of |-> n, is |-> "frame"]

\* What is served are the records of the results of these kinds: one for each, in its turn.
Serves(served, kinds, these) ==
  LET turns == {i \in 1..Len(these) : these[i].is \in kinds}
  IN  /\ Len(served) = Cardinality(turns)
      /\ \A i \in turns : served[Cardinality({j \in turns : j <= i})] = these[i].of

\* The handler gets every frame once and in order, also those that were decoded before it
\* was set, and every error is answered.
EveryResultServed ==
  /\ Serves(handled \o pending, {"frame"}, results)
  /\ Serves(replies, {"bad", "frame_too_large"}, results)
  /\ heard => pending = <<>>
=============================================================================
