---------------------------- MODULE AtLeastOnce ----------------------------
(***************************************************************************)
(* What the durable notification layer promises, with nothing of how it    *)
(* does it (docs/plan.md, "Task completion & verification", item 2): a     *)
(* notice that was recorded stays held until some receiver has been told   *)
(* of it.  A receiver may be told of a notice several times.               *)
(***************************************************************************)

CONSTANTS
  Receiver,  \* the orchestrators that can be told
  Notice     \* the notices that can be recorded

VARIABLES
  recorded,  \* notices that reached stable storage at some time
  held,      \* notices that stable storage still holds
  told       \* the pairs <<receiver, notice>> of every handler call so far

vars == <<recorded, held, told>>

TypeOK ==
  /\ recorded \subseteq Notice
  /\ held \subseteq recorded
  /\ told \subseteq Receiver \X recorded

Init ==
  /\ recorded = {}
  /\ held = {}
  /\ told = {}

Record(n) ==
  /\ recorded' = recorded \cup {n}
  /\ held' = held \cup {n}
  /\ UNCHANGED told

Tell(r, n) ==
  /\ n \in recorded
  /\ told' = told \cup {<<r, n>>}
  /\ UNCHANGED <<recorded, held>>

Forget(n) ==
  /\ \E r \in Receiver : <<r, n>> \in told
  /\ held' = held \ {n}
  /\ UNCHANGED <<recorded, told>>

Next ==
  \E n \in Notice :
    \/ Record(n)
    \/ \E r \in Receiver : Tell(r, n)
    \/ Forget(n)

Spec == Init /\ [][Next]_vars

\* No notice that was recorded disappears before somebody was told of it.
NoticeKept ==
  \A n \in recorded : n \in held \/ \E r \in Receiver : <<r, n>> \in told
=============================================================================
