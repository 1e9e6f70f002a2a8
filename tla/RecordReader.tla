---------------------------- MODULE RecordReader ----------------------------
(***************************************************************************)
(* What a stream of records promises: every record that is written is      *)
(* answered once, in the order of writing, and the answer depends on the   *)
(* record alone, however the stream is cut into chunks.                    *)
(***************************************************************************)
EXTENDS Naturals, Sequences

CONSTANTS
  Record,        \* what may be written
  Outcome(_, _)  \* what the reader makes of the n-th record: at most one result

VARIABLES
  written,   \* the records in the order of writing
  answered,  \* how many of them have been answered
  out        \* the results so far

vars == <<written, answered, out>>

Init == written = <<>> /\ answered = 0 /\ out = <<>>

Write ==
  /\ \E r \in Record : written' = Append(written, r)
  /\ UNCHANGED <<answered, out>>

Answer ==
  /\ answered < Len(written)
  /\ answered' = answered + 1
  /\ out' = out \o Outcome(answered + 1, written[answered + 1])
  /\ UNCHANGED written

Next == Write \/ Answer

Spec == Init /\ [][Next]_vars /\ WF_vars(Answer)
=============================================================================
