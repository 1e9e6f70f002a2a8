-------------------------- MODULE RemoteExecProofs --------------------------
(***************************************************************************)
(* Proofs about RemoteExec, for any number of executions and connections   *)
(* and any amount of output.                                               *)
(***************************************************************************)
EXTENDS RemoteExec, SequenceTheorems, TLAPS

(***************************************************************************)
(* Types.                                                                  *)
(***************************************************************************)

\* A start the agent has read, or will, was asked for once, on the connection
\* that owns it; only a command that was launched has a process and output, and
\* only a live process is due to be killed.
OwnerKnown ==
  /\ \A x \in Exec : phase[x] # "none" => call[x] # "none" /\ via[x] \in Conn
  /\ \A c \in Conn, x \in Exec : <<"start", x>> \in requests[c] =>
       call[x] # "none" /\ via[x] = c /\ phase[x] = "none"
  /\ \A x \in Exec : process[x] # "none" \/ printed[x] > 0 =>
       phase[x] \in {"active", "finished", "lost"}
  /\ \A x \in Exec : killing[x] => x \in Living

TypeInv == TypeOK /\ OwnerKnown

\* Frames sent keep the wires well typed.
LEMMA SendType ==
  ASSUME TypeOK, NEW c \in Conn, NEW frames \in Seq(Frame), Send(c, frames)
  PROVE  wire' \in [Conn -> Seq(Frame)]
<1>1. wire[c] \o frames \in Seq(Frame)
  BY DEF TypeOK
<1>. QED
  BY <1>1 DEF Send, TypeOK

\* The frames the agent sends.
LEMMA FrameType ==
  ASSUME NEW x \in Exec
  PROVE  /\ \A k \in {"started", "error", "exit"} : Plain(k, x) \in Frame
         /\ \A n \in Nat : Output(x, n) \in Frame
  BY ConstantsAssumption DEF Plain, Output, Frame

\* The error event keeps the types, and so do the frames that tell of it.
LEMMA ErrorType ==
  ASSUME TypeOK, NEW xs, ErrorEvent(xs)
  PROVE  /\ phase' \in [Exec -> {"none", "starting", "active", "finished", "refused", "lost"}]
         /\ printed' \in [Exec -> Nat]
         /\ emitted' \in [Exec -> Nat]
BY DEF TypeOK, ErrorEvent

LEMMA LastWordsType ==
  ASSUME TypeOK, NEW x \in Exec
  PROVE  /\ LastWords(x) \in Seq(Frame) /\ Len(LastWords(x)) = 2
         /\ LastWords(x)[1] = Output(x, emitted[x] + 1)
         /\ LastWords(x)[2] = Plain("exit", x)
<1>1. Output(x, emitted[x] + 1) \in Frame /\ Plain("exit", x) \in Frame
  <2>1. emitted[x] + 1 \in Nat
    BY DEF TypeOK
  <2>. QED
    BY <2>1, FrameType
<1>. QED
  BY <1>1 DEF LastWords

\* What a step does that kills xs, which are active: those that may not be
\* signalled are finished, and the killing goes on for the living.
LEMMA KillType ==
  ASSUME TypeInv, NEW xs, KillTree(xs), UNCHANGED <<process, call, via>>,
         \A c \in Conn : requests'[c] \subseteq requests[c]
  PROVE  /\ phase' \in [Exec -> {"none", "starting", "active", "finished", "refused", "lost"}]
         /\ printed' \in [Exec -> Nat]
         /\ emitted' \in [Exec -> Nat]
         /\ killing' \in [Exec -> BOOLEAN]
         /\ OwnerKnown'
<1>1. ErrorEvent(xs \cap Refusing) /\ TypeOK /\ OwnerKnown
  BY DEF KillTree, TypeInv
<1>2. \A x \in Exec : killing'[x] = (killing[x] \/ x \in xs \cap Living)
  BY DEF KillTree
<1>3. killing' \in [Exec -> BOOLEAN] /\ Living' = Living
  BY <1>1 DEF KillTree, TypeOK, Living
<1>4. \A x \in Exec : \/ phase'[x] = phase[x] /\ printed'[x] = printed[x]
                      \/ phase[x] = "active" /\ phase'[x] = "finished"
  BY <1>1 DEF ErrorEvent, Refusing, Active
<1>5. OwnerKnown'
  BY <1>1, <1>2, <1>3, <1>4, SMTT(30) DEF OwnerKnown
<1>. QED
  BY <1>1, <1>3, <1>5, ErrorType

\* Telling of it keeps the wires well typed.
LEMMA TellType ==
  ASSUME TypeInv, NEW x \in Exec, TellRefused(x)
  PROVE  wire' \in [Conn -> Seq(Frame)]
<1>1. CASE x \in Refusing
  <2>1. via[x] \in Conn /\ Send(via[x], LastWords(x))
    BY <1>1 DEF TellRefused, Refusing, Active, TypeInv, OwnerKnown
  <2>. QED
    BY <2>1, LastWordsType, SendType DEF TypeInv
<1>2. CASE x \notin Refusing
  BY <1>2 DEF TellRefused, TypeInv, TypeOK
<1>. QED
  BY <1>1, <1>2

\* Retaining the tail of an output keeps its type.
LEMMA RetainedType ==
  ASSUME NEW output \in Seq(Nat)
  PROVE  RetainedTail(output) \in Seq(Nat)
<1>1. CASE Len(output) > Retain
  <2>1. Len(output) - Retain + 1 \in 1..Len(output) /\ Len(output) \in Nat
    BY <1>1, ConstantsAssumption
  <2>2. \A i \in (Len(output) - Retain + 1)..Len(output) : output[i] \in Nat
    <3>1. (Len(output) - Retain + 1)..Len(output) \subseteq 1..Len(output)
      BY <2>1
    <3>. QED
      BY <3>1, ElementOfSeq
  <2>3. SubSeq(output, Len(output) - Retain + 1, Len(output)) \in Seq(Nat)
    BY <2>1, <2>2, SubSeqProperties
  <2>. QED
    BY <1>1, <2>3 DEF RetainedTail
<1>2. CASE ~(Len(output) > Retain)
  BY <1>2 DEF RetainedTail
<1>. QED
  BY <1>1, <1>2

\* Applying well typed frames keeps the projection well typed.
LEMMA ApplyType ==
  ASSUME TypeOK, NEW x \in Exec,
         NEW frames \in [chunks: Seq(Nat), exited: BOOLEAN],
         ApplyExecFrames(x, frames)
  PROVE  /\ shown' \in [Exec -> Seq(Nat)]
         /\ truncated' \in [Exec -> BOOLEAN]
         /\ state' \in [Exec -> {"running", "exited"}]
         /\ waiting' \in [Exec -> BOOLEAN]
<1>1. shown[x] \o frames.chunks \in Seq(Nat)
  BY DEF TypeOK
<1>2. RetainedTail(shown[x] \o frames.chunks) \in Seq(Nat)
  BY <1>1, RetainedType
<1>. QED
  BY <1>2 DEF ApplyExecFrames, TypeOK

\* Handling an output or exit frame keeps the projection well typed.
LEMMA HandleType ==
  ASSUME TypeOK, NEW x \in Exec, NEW f, f.chunk \in Nat, HandleExecFrame(x, f)
  PROVE  /\ buffered' \in [Exec -> [chunks: Seq(Nat), exited: BOOLEAN]]
         /\ shown' \in [Exec -> Seq(Nat)]
         /\ truncated' \in [Exec -> BOOLEAN]
         /\ state' \in [Exec -> {"running", "exited"}]
         /\ waiting' \in [Exec -> BOOLEAN]
         /\ received' \in [Exec -> Nat]
<1>. DEFINE frame == [chunks |-> IF f.kind = "output" THEN <<f.chunk>> ELSE <<>>,
                      exited |-> f.kind = "exit"]
<1>1. frame \in [chunks: Seq(Nat), exited: BOOLEAN]
  <2>1. <<f.chunk>> \in Seq(Nat) /\ << >> \in Seq(Nat)
    OBVIOUS
  <2>. QED
    BY <2>1
<1>2. received' \in [Exec -> Nat]
  BY DEF HandleExecFrame, TypeOK
<1>3. CASE call[x] = "tracked"
  <2>1. ApplyExecFrames(x, frame) /\ UNCHANGED buffered
    BY <1>3 DEF HandleExecFrame
  <2>. QED
    BY <1>1, <1>2, <2>1, ApplyType DEF TypeOK
<1>4. CASE call[x] # "tracked"
  <2>. DEFINE all == [chunks |-> buffered[x].chunks \o frame.chunks,
                      exited |-> buffered[x].exited \/ frame.exited]
  <2>1. buffered[x] \in [chunks: Seq(Nat), exited: BOOLEAN]
    BY DEF TypeOK
  <2>2. all \in [chunks: Seq(Nat), exited: BOOLEAN]
    <3>. HIDE DEF frame
    <3>1. buffered[x].chunks \o frame.chunks \in Seq(Nat)
      BY <1>1, <2>1
    <3>. QED
      BY <1>1, <2>1, <3>1
  <2>3. buffered' = [buffered EXCEPT ![x] = all]
    BY <1>4 DEF HandleExecFrame
  <2>4. buffered' \in [Exec -> [chunks: Seq(Nat), exited: BOOLEAN]]
    <3>. HIDE DEF all
    <3>. QED
      BY <2>2, <2>3 DEF TypeOK
  <2>. QED
    BY <1>2, <1>4, <2>4 DEF HandleExecFrame, TypeOK
<1>. QED
  BY <1>3, <1>4

\* Nothing was asked for and nothing runs at the start.
LEMMA TypeInit == Init => TypeInv
  BY ConstantsAssumption DEF Init, TypeInv, TypeOK, OwnerKnown, Nothing

\* Every step keeps the types and the owners.
LEMMA TypeNext == TypeInv /\ [Next]_vars => TypeInv'
<1>. SUFFICES ASSUME TypeInv, [Next]_vars
              PROVE  TypeInv'
  OBVIOUS
<1>. USE DEF agentVars, connVars, trackVars
<1>1. ASSUME NEW c \in Conn, NEW x \in Exec, ReceiveStart(c, x)
      PROVE  TypeInv'
  <2>1. <<Plain("error", x)>> \in Seq(Frame)
    BY FrameType, ConstantsAssumption DEF TypeInv, TypeOK, ReceiveStart
  <2>2. c \in Conn
    BY <1>1 DEF ReceiveStart, TypeInv, TypeOK, OwnerKnown
  <2>3. wire' \in [Conn -> Seq(Frame)]
    BY <1>1, <2>1, <2>2, SendType DEF ReceiveStart, TypeInv, TypeOK
  <2>31. phase' \in [Exec -> {"none", "starting", "active", "finished", "refused", "lost"}]
    BY <1>1 DEF ReceiveStart, TypeInv, TypeOK
  <2>32. requests' \in [Conn -> SUBSET ({"start", "abort"} \X Exec)]
    BY <1>1 DEF ReceiveStart, TypeInv, TypeOK
  <2>33. UNCHANGED <<process, printed, emitted, killing, agentEnd, serverEnd, current,
                     call, via, trackVars>>
    BY <1>1 DEF ReceiveStart
  <2>4. TypeOK'
    BY <2>3, <2>31, <2>32, <2>33 DEF TypeInv, TypeOK
  <2>5. /\ call[x] # "none" /\ via[x] = c /\ phase[x] = "none"
        /\ process[x] = "none" /\ ~(printed[x] > 0)
    BY <1>1 DEF ReceiveStart, TypeInv, OwnerKnown
  <2>51. /\ UNCHANGED <<call, via, process, printed, killing>>
         /\ \A y \in Exec \ {x} : phase'[y] = phase[y]
    BY <1>1 DEF ReceiveStart, TypeInv, TypeOK
  <2>6. \A y \in Exec : phase'[y] # "none" => call'[y] # "none" /\ via'[y] \in Conn
    <3>. TAKE y \in Exec
    <3>1. CASE y = x
      BY <2>5, <2>51, <3>1
    <3>2. CASE y # x
      BY <2>51, <3>2 DEF TypeInv, OwnerKnown
    <3>. QED
      BY <3>1, <3>2
  <2>7. ASSUME NEW d \in Conn, NEW y \in Exec, <<"start", y>> \in requests'[d]
        PROVE  call'[y] # "none" /\ via'[y] = d /\ phase'[y] = "none"
    <3>1. <<"start", y>> \in requests[d] /\ (d = c => y # x)
      BY <1>1, <2>7 DEF ReceiveStart, TypeInv, TypeOK
    <3>2. call[y] # "none" /\ via[y] = d /\ phase[y] = "none"
      BY <3>1 DEF TypeInv, OwnerKnown
    <3>3. y # x
      BY <2>5, <3>1, <3>2
    <3>. QED
      BY <1>1, <3>2, <3>3 DEF ReceiveStart, TypeInv, TypeOK
  <2>8. \A y \in Exec : process'[y] # "none" \/ printed'[y] > 0 =>
          phase'[y] \in {"active", "finished", "lost"}
    <3>. TAKE y \in Exec
    <3>1. CASE y = x
      BY <2>5, <2>51, <3>1
    <3>2. CASE y # x
      BY <2>51, <3>2 DEF TypeInv, OwnerKnown
    <3>. QED
      BY <3>1, <3>2
  <2>9. OwnerKnown'
    BY <1>1, <2>6, <2>7, <2>8 DEF OwnerKnown, Living, ReceiveStart, TypeInv
  <2>. QED
    BY <2>4, <2>9 DEF TypeInv
<1>2. ASSUME NEW c \in Conn, NEW x \in Exec, ReceiveAbort(c, x)
      PROVE  TypeInv'
  <2>1. /\ KillTree({x} \cap Active) /\ TellRefused(x)
        /\ UNCHANGED <<process, agentEnd, serverEnd, current, call, via, trackVars>>
        /\ requests' = [requests EXCEPT ![c] = @ \ {<<"abort", x>>}]
    BY <1>2 DEF ReceiveAbort
  <2>2. /\ requests' \in [Conn -> SUBSET ({"start", "abort"} \X Exec)]
        /\ \A d \in Conn : requests'[d] \subseteq requests[d]
    BY <2>1 DEF TypeInv, TypeOK
  <2>3. /\ phase' \in [Exec -> {"none", "starting", "active", "finished", "refused", "lost"}]
        /\ printed' \in [Exec -> Nat] /\ emitted' \in [Exec -> Nat]
        /\ killing' \in [Exec -> BOOLEAN] /\ OwnerKnown'
    BY <2>1, <2>2, KillType
  <2>4. wire' \in [Conn -> Seq(Frame)]
    BY <2>1, TellType
  <2>5. TypeOK'
    BY <2>1, <2>2, <2>3, <2>4 DEF TypeInv, TypeOK
  <2>. QED
    BY <2>3, <2>5 DEF TypeInv
<1>3. ASSUME NEW x \in Exec, StartFails(x)
      PROVE  TypeInv'
  <2>1. <<Plain("error", x)>> \in Seq(Frame)
    BY FrameType, ConstantsAssumption DEF TypeInv, TypeOK, StartFails
  <2>2. via[x] \in Conn
    BY <1>3 DEF StartFails, TypeInv, TypeOK, OwnerKnown
  <2>3. wire' \in [Conn -> Seq(Frame)]
    BY <1>3, <2>1, <2>2, SendType DEF StartFails, TypeInv, TypeOK
  <2>4. TypeOK'
    BY <1>3, <2>3, ConstantsAssumption DEF StartFails, TypeInv, TypeOK
  <2>5. OwnerKnown'
    BY <1>3 DEF StartFails, TypeInv, TypeOK, OwnerKnown, Living
  <2>. QED
    BY <2>4, <2>5 DEF TypeInv
<1>4. ASSUME NEW x \in Exec, Launch(x)
      PROVE  TypeInv'
  <2>1. <<Plain("started", x)>> \in Seq(Frame)
    BY FrameType, ConstantsAssumption DEF TypeInv, TypeOK, Launch
  <2>2. via[x] \in Conn
    BY <1>4 DEF Launch, TypeInv, TypeOK, OwnerKnown
  <2>3. wire' \in [Conn -> Seq(Frame)]
    BY <1>4, <2>1, <2>2, SendType DEF Launch, TypeInv, TypeOK
  <2>4. TypeOK'
    BY <1>4, <2>3, ConstantsAssumption, SMTT(40) DEF Launch, TypeInv, TypeOK
  <2>41. UNCHANGED <<call, via, requests, printed, killing>> /\ call[x] # "none" /\ via[x] \in Conn
    BY <1>4 DEF Launch, TypeInv, OwnerKnown
  <2>42. /\ phase'[x] = "active" /\ process'[x] # "none"
         /\ \A y \in Exec \ {x} : phase'[y] = phase[y] /\ process'[y] = process[y]
    BY <1>4 DEF Launch, TypeInv, TypeOK
  <2>43. ~killing[x]
    BY <1>4 DEF Launch, TypeInv, OwnerKnown, Living
  <2>44. \A c \in Conn : <<"start", x>> \notin requests[c]
    BY <1>4 DEF Launch, TypeInv, OwnerKnown
  <2>5. OwnerKnown'
    BY <2>41, <2>42, <2>43, <2>44 DEF TypeInv, OwnerKnown, Living
  <2>. QED
    BY <2>4, <2>5 DEF TypeInv
<1>5. ASSUME NEW x \in Exec, WriteOutput(x)
      PROVE  TypeInv'
  <2>0. printed[x] + 1 \in Nat
    BY <1>5, ConstantsAssumption DEF WriteOutput, TypeInv, TypeOK
  <2>1. TypeOK'
    BY <1>5, <2>0 DEF WriteOutput, TypeInv, TypeOK
  <2>2. OwnerKnown'
    BY <1>5 DEF WriteOutput, TypeInv, TypeOK, OwnerKnown, Living
  <2>. QED
    BY <2>1, <2>2 DEF TypeInv
<1>6. ASSUME NEW x \in Exec, ProcessExits(x)
      PROVE  TypeInv'
  <2>1. TypeOK'
    BY <1>6, ConstantsAssumption DEF ProcessExits, TypeInv, TypeOK
  <2>2. OwnerKnown'
    BY <1>6 DEF ProcessExits, TypeInv, TypeOK, OwnerKnown, Living
  <2>. QED
    BY <2>1, <2>2 DEF TypeInv
<1>7. ASSUME NEW x \in Exec, EmitChunk(x)
      PROVE  TypeInv'
  <2>0. emitted[x] + 1 \in Nat /\ printed[x] > 0
    BY <1>7, ConstantsAssumption DEF EmitChunk, TypeInv, TypeOK
  <2>1. <<Output(x, emitted[x] + 1)>> \in Seq(Frame)
    BY <2>0, FrameType
  <2>2. via[x] \in Conn
    <3>1. phase[x] \in {"active", "finished"}
      BY <1>7, <2>0 DEF EmitChunk, TypeInv, OwnerKnown, Living
    <3>. QED
      BY <3>1 DEF TypeInv, OwnerKnown
  <2>3. wire' \in [Conn -> Seq(Frame)]
    BY <1>7, <2>1, <2>2, SendType DEF EmitChunk, TypeInv, TypeOK
  <2>4. TypeOK'
    BY <1>7, <2>0, <2>3 DEF EmitChunk, TypeInv, TypeOK
  <2>5. OwnerKnown'
    BY <1>7 DEF EmitChunk, TypeInv, TypeOK, OwnerKnown, Living
  <2>. QED
    BY <2>4, <2>5 DEF TypeInv
<1>8. ASSUME NEW x \in Exec, Finish(x)
      PROVE  TypeInv'
  <2>1. <<Plain("exit", x)>> \in Seq(Frame)
    BY FrameType, ConstantsAssumption DEF TypeInv, TypeOK, Finish
  <2>2. via[x] \in Conn
    BY <1>8 DEF Finish, TypeInv, TypeOK, OwnerKnown
  <2>3. wire' \in [Conn -> Seq(Frame)]
    BY <1>8, <2>1, <2>2, SendType DEF Finish, TypeInv, TypeOK
  <2>4. TypeOK'
    BY <1>8, <2>3, ConstantsAssumption DEF Finish, TypeInv, TypeOK
  <2>5. OwnerKnown'
    BY <1>8 DEF Finish, TypeInv, TypeOK, OwnerKnown, Living
  <2>. QED
    BY <2>4, <2>5 DEF TypeInv
<1>9. ASSUME NEW x \in Exec, FinishFailed(x) \/ EscalateRefused(x)
      PROVE  TypeInv'
  <2>1. /\ phase[x] = "active" /\ ErrorEvent({x}) /\ Send(via[x], LastWords(x))
        /\ UNCHANGED <<process, agentEnd, serverEnd, requests, current, call, via, trackVars>>
        /\ killing' = killing \/ killing' = [killing EXCEPT ![x] = FALSE]
    BY <1>9 DEF FinishFailed, EscalateRefused, Refusing, Active
  <2>2. via[x] \in Conn
    BY <2>1 DEF TypeInv, OwnerKnown
  <2>3. wire' \in [Conn -> Seq(Frame)]
    BY <2>1, <2>2, LastWordsType, SendType DEF TypeInv
  <2>4. /\ phase' \in [Exec -> {"none", "starting", "active", "finished", "refused", "lost"}]
        /\ printed' \in [Exec -> Nat] /\ emitted' \in [Exec -> Nat]
    BY <2>1, ErrorType DEF TypeInv
  <2>5. killing' \in [Exec -> BOOLEAN] /\ \A y \in Exec : killing'[y] => killing[y]
    BY <2>1, ZenonT(60) DEF TypeInv, TypeOK
  <2>6. TypeOK'
    BY <2>1, <2>3, <2>4, <2>5 DEF TypeInv, TypeOK
  <2>7. \A y \in Exec : \/ phase'[y] = phase[y] /\ printed'[y] = printed[y]
                        \/ phase[y] = "active" /\ phase'[y] = "finished"
    BY <2>1 DEF ErrorEvent
  <2>8. OwnerKnown'
    BY <2>1, <2>5, <2>7, SMTT(30) DEF TypeInv, OwnerKnown, Living
  <2>. QED
    BY <2>6, <2>8 DEF TypeInv
<1>10. ASSUME NEW x \in Exec, Escalate(x) \/ TurnForeign(x) \/ EscalateThrows(x)
      PROVE  TypeInv'
  <2>1. TypeOK'
    <3>1. CASE Escalate(x)
      BY <3>1 DEF Escalate, TypeInv, TypeOK
    <3>2. CASE TurnForeign(x)
      BY <3>2 DEF TurnForeign, TypeInv, TypeOK
    <3>3. CASE EscalateThrows(x)
      BY <3>3 DEF EscalateThrows, TypeInv, TypeOK
    <3>. QED
      BY <1>10, <3>1, <3>2, <3>3
  <2>2. phase[x] \in {"active", "finished", "lost"}
    BY <1>10 DEF Escalate, TurnForeign, EscalateThrows, TypeInv, OwnerKnown
  <2>3. CASE Escalate(x)
    BY <2>2, <2>3, SMTT(30) DEF Escalate, TypeInv, TypeOK, OwnerKnown, Living
  <2>4. CASE TurnForeign(x)
    BY <2>2, <2>4, SMTT(30) DEF TurnForeign, TypeInv, TypeOK, OwnerKnown, Living
  <2>5. CASE EscalateThrows(x)
    BY <2>1, <2>2, <2>5, SMTT(30) DEF EscalateThrows, TypeInv, TypeOK, OwnerKnown, Living
  <2>. QED
    BY <1>10, <2>1, <2>3, <2>4, <2>5 DEF TypeInv
<1>11. ASSUME NEW x \in Exec, ExecTimeout(x)
      PROVE  TypeInv'
  <2>1. /\ KillTree({x}) /\ TellRefused(x)
        /\ UNCHANGED <<process, agentEnd, serverEnd, requests, current, call, via, trackVars>>
    BY <1>11 DEF ExecTimeout
  <2>2. /\ phase' \in [Exec -> {"none", "starting", "active", "finished", "refused", "lost"}]
        /\ printed' \in [Exec -> Nat] /\ emitted' \in [Exec -> Nat]
        /\ killing' \in [Exec -> BOOLEAN] /\ OwnerKnown'
    BY <2>1, KillType
  <2>3. wire' \in [Conn -> Seq(Frame)]
    BY <2>1, TellType
  <2>4. TypeOK'
    BY <2>1, <2>2, <2>3 DEF TypeInv, TypeOK
  <2>. QED
    BY <2>2, <2>4 DEF TypeInv
<1>12. ASSUME NEW c \in Conn, AgentClose(c)
      PROVE  TypeInv'
  <2>. DEFINE owned == {x \in Active : via[x] = c}
  <2>1. /\ KillTree(owned)
        /\ UNCHANGED <<process, serverEnd, wire, current, call, via, trackVars>>
        /\ agentEnd' = [agentEnd EXCEPT ![c] = "closed"]
        /\ requests' = [requests EXCEPT ![c] = {}]
    BY <1>12 DEF AgentClose
  <2>. HIDE DEF owned
  <2>2. /\ requests' \in [Conn -> SUBSET ({"start", "abort"} \X Exec)]
        /\ \A d \in Conn : requests'[d] \subseteq requests[d]
        /\ agentEnd' \in [Conn -> {"none", "open", "closed"}]
    BY <2>1 DEF TypeInv, TypeOK
  <2>3. /\ phase' \in [Exec -> {"none", "starting", "active", "finished", "refused", "lost"}]
        /\ printed' \in [Exec -> Nat] /\ emitted' \in [Exec -> Nat]
        /\ killing' \in [Exec -> BOOLEAN] /\ OwnerKnown'
    BY <2>1, <2>2, KillType
  <2>4. TypeOK'
    BY <2>1, <2>2, <2>3 DEF TypeInv, TypeOK
  <2>. QED
    BY <2>3, <2>4 DEF TypeInv
<1>23. ASSUME NEW x \in Exec, AgentDies(x)
      PROVE  TypeInv'
  <2>1. /\ killing' \in [Exec -> BOOLEAN] /\ \A y \in Exec : ~killing'[y]
        /\ phase' \in [Exec -> {"none", "starting", "active", "finished", "refused", "lost"}]
        /\ \A y \in Exec : \/ phase'[y] = phase[y]
                           \/ phase[y] \in {"starting", "active"} /\ phase'[y] = "lost"
        /\ agentEnd' \in [Conn -> {"none", "open", "closed"}]
        /\ requests' \in [Conn -> SUBSET ({"start", "abort"} \X Exec)]
        /\ \A d \in Conn : requests'[d] = {}
        /\ UNCHANGED <<process, printed, emitted, serverEnd, wire, current, call, via, trackVars>>
    BY <1>23 DEF AgentDies, TypeInv, TypeOK
  <2>2. TypeOK'
    BY <2>1 DEF TypeInv, TypeOK
  <2>3. OwnerKnown'
    BY <2>1, SMTT(30) DEF TypeInv, OwnerKnown
  <2>. QED
    BY <2>2, <2>3 DEF TypeInv
<1>13. ASSUME NEW c \in Conn, ServerClose(c)
      PROVE  TypeInv'
  <2>1. TypeOK'
    BY <1>13, ConstantsAssumption DEF ServerClose, TypeInv, TypeOK
  <2>2. OwnerKnown'
    BY <1>13 DEF ServerClose, TypeInv, TypeOK, OwnerKnown, Living
  <2>. QED
    BY <2>1, <2>2 DEF TypeInv
<1>14. ASSUME NEW c \in Conn, Connect(c)
      PROVE  TypeInv'
  <2>1. TypeOK'
    BY <1>14, ConstantsAssumption DEF Connect, TypeInv, TypeOK
  <2>2. OwnerKnown'
    BY <1>14 DEF Connect, TypeInv, TypeOK, OwnerKnown, Living
  <2>. QED
    BY <2>1, <2>2 DEF TypeInv
<1>15. ASSUME NEW c \in Conn, ReadFrame(c)
      PROVE  TypeInv'
  <2>. DEFINE f == Head(wire[c])
  <2>1. f \in Frame /\ Tail(wire[c]) \in Seq(Frame)
    BY <1>15, HeadTailProperties DEF ReadFrame, TypeInv, TypeOK
  <2>2. f.exec \in Exec /\ f.chunk \in Nat
    BY <2>1 DEF Frame
  <2>. HIDE DEF f
  <2>3. ASSUME HandleExecFrame(f.exec, f)
        PROVE  /\ buffered' \in [Exec -> [chunks: Seq(Nat), exited: BOOLEAN]]
               /\ shown' \in [Exec -> Seq(Nat)]
               /\ truncated' \in [Exec -> BOOLEAN]
               /\ state' \in [Exec -> {"running", "exited"}]
               /\ waiting' \in [Exec -> BOOLEAN]
               /\ received' \in [Exec -> Nat]
    BY <2>2, <2>3, HandleType DEF TypeInv
  <2>4. /\ wire' = [wire EXCEPT ![c] = Tail(wire[c])]
        /\ UNCHANGED <<agentVars, agentEnd, serverEnd, requests, current, via>>
    BY <1>15 DEF ReadFrame
  <2>5. \/ /\ \E answer \in {"answered", "failed"} :
               call' = [call EXCEPT ![f.exec] = IF call[f.exec] = "requested" THEN answer
                                               ELSE call[f.exec]]
           /\ UNCHANGED trackVars
        \/ HandleExecFrame(f.exec, f) /\ UNCHANGED call
    BY <1>15 DEF ReadFrame, f
  <2>6. /\ call' \in [Exec -> {"none", "requested", "answered", "tracked", "failed"}]
        /\ \A x \in Exec : call[x] # "none" => call'[x] # "none"
    <3>1. CASE UNCHANGED call
      BY <3>1 DEF TypeInv, TypeOK
    <3>2. ASSUME NEW answer \in {"answered", "failed"},
                 call' = [call EXCEPT ![f.exec] = IF call[f.exec] = "requested" THEN answer
                                                  ELSE call[f.exec]]
          PROVE  /\ call' \in [Exec -> {"none", "requested", "answered", "tracked", "failed"}]
                 /\ \A x \in Exec : call[x] # "none" => call'[x] # "none"
      BY <2>2, <3>2 DEF TypeInv, TypeOK
    <3>. QED
      BY <2>5, <3>1, <3>2
  <2>7. wire' \in [Conn -> Seq(Frame)]
    BY <2>1, <2>4 DEF TypeInv, TypeOK
  <2>8. CASE UNCHANGED trackVars
    BY <2>4, <2>6, <2>7, <2>8 DEF TypeInv, TypeOK, OwnerKnown, Living
  <2>9. CASE HandleExecFrame(f.exec, f)
    BY <2>3, <2>4, <2>6, <2>7, <2>9 DEF TypeInv, TypeOK, OwnerKnown, Living
  <2>. QED
    BY <2>5, <2>8, <2>9
<1>16. ASSUME NEW x \in Exec, StartExec(x)
      PROVE  TypeInv'
  <2>0. PICK c \in Conn : via' = [via EXCEPT ![x] = c] /\ Ask(c, <<"start", x>>)
    BY <1>16 DEF StartExec, LiveClient
  <2>1. TypeOK'
    <3>1. call' \in [Exec -> {"none", "requested", "answered", "tracked", "failed"}]
      BY <1>16 DEF StartExec, TypeInv, TypeOK
    <3>2. via' \in [Exec -> Conn \cup {None}]
      BY <2>0 DEF TypeInv, TypeOK
    <3>3. requests' \in [Conn -> SUBSET ({"start", "abort"} \X Exec)]
      BY <2>0 DEF Ask, TypeInv, TypeOK
    <3>4. UNCHANGED <<agentVars, agentEnd, serverEnd, wire, current, trackVars>>
      BY <1>16 DEF StartExec
    <3>. QED
      BY <3>1, <3>2, <3>3, <3>4 DEF TypeInv, TypeOK
  <2>2. OwnerKnown'
    BY <1>16, SMTT(30) DEF StartExec, Ask, LiveClient, TypeInv, TypeOK, OwnerKnown, Living
  <2>. QED
    BY <2>1, <2>2 DEF TypeInv
<1>17. ASSUME NEW x \in Exec, CallTimeout(x)
      PROVE  TypeInv'
  <2>1. TypeOK'
    BY <1>17, ConstantsAssumption DEF CallTimeout, TypeInv, TypeOK
  <2>2. OwnerKnown'
    BY <1>17 DEF CallTimeout, TypeInv, TypeOK, OwnerKnown, Living
  <2>. QED
    BY <2>1, <2>2 DEF TypeInv
<1>18. ASSUME NEW x \in Exec, TrackExec(x)
      PROVE  TypeInv'
  <2>1. buffered[x] \in [chunks: Seq(Nat), exited: BOOLEAN]
    BY DEF TypeInv, TypeOK
  <2>2. /\ shown' \in [Exec -> Seq(Nat)]
        /\ truncated' \in [Exec -> BOOLEAN]
        /\ state' \in [Exec -> {"running", "exited"}]
        /\ waiting' \in [Exec -> BOOLEAN]
    BY <1>18, <2>1, ApplyType DEF TrackExec, TypeInv
  <2>3. TypeOK'
    <3>1. buffered' \in [Exec -> [chunks: Seq(Nat), exited: BOOLEAN]]
      BY <1>18 DEF TrackExec, TypeInv, TypeOK, Nothing
    <3>2. call' \in [Exec -> {"none", "requested", "answered", "tracked", "failed"}]
      BY <1>18 DEF TrackExec, TypeInv, TypeOK
    <3>3. UNCHANGED <<agentVars, connVars, current, via, received>>
      BY <1>18 DEF TrackExec
    <3>. QED
      BY <2>2, <3>1, <3>2, <3>3 DEF TypeInv, TypeOK
  <2>4. OwnerKnown'
    BY <1>18 DEF TrackExec, TypeInv, TypeOK, OwnerKnown, Living
  <2>. QED
    BY <2>3, <2>4 DEF TypeInv
<1>19. ASSUME NEW x \in Exec, WaitExec(x)
      PROVE  TypeInv'
  <2>1. TypeOK'
    BY <1>19, ConstantsAssumption DEF WaitExec, TypeInv, TypeOK
  <2>2. OwnerKnown'
    BY <1>19 DEF WaitExec, TypeInv, TypeOK, OwnerKnown, Living
  <2>. QED
    BY <2>1, <2>2 DEF TypeInv
<1>20. ASSUME NEW x \in Exec, WaitEnds(x)
      PROVE  TypeInv'
  <2>1. TypeOK'
    BY <1>20, ConstantsAssumption DEF WaitEnds, TypeInv, TypeOK
  <2>2. OwnerKnown'
    BY <1>20 DEF WaitEnds, TypeInv, TypeOK, OwnerKnown, Living
  <2>. QED
    BY <2>1, <2>2 DEF TypeInv
<1>21. ASSUME NEW x \in Exec, AbortExec(x)
      PROVE  TypeInv'
  <2>0. requests' \in [Conn -> SUBSET ({"start", "abort"} \X Exec)]
    BY <1>21 DEF AbortExec, Ask, LiveClient, TypeInv, TypeOK
  <2>1. TypeOK'
    BY <1>21, <2>0 DEF AbortExec, TypeInv, TypeOK
  <2>2. OwnerKnown'
    BY <1>21 DEF AbortExec, Ask, LiveClient, TypeInv, TypeOK, OwnerKnown, Living
  <2>. QED
    BY <2>1, <2>2 DEF TypeInv
<1>22. CASE UNCHANGED vars
  BY <1>22 DEF vars, TypeInv, TypeOK, OwnerKnown, Living
<1>. QED
  BY <1>1, <1>2, <1>3, <1>4, <1>5, <1>6, <1>7, <1>8, <1>9, <1>10, <1>11, <1>12, <1>13, <1>14,
     <1>15, <1>16, <1>17, <1>18, <1>19, <1>20, <1>21, <1>22, <1>23 DEF Next

\* Every reachable state is well typed.
THEOREM TypeCorrect == Spec => []TypeOK
<1>1. Spec => []TypeInv
  BY TypeInit, TypeNext, PTL DEF Spec
<1>2. TypeInv => TypeOK
  BY DEF TypeInv
<1>. QED
  BY <1>1, <1>2, PTL

(***************************************************************************)
(* Waiters.                                                                *)
(***************************************************************************)

\* Only a tracked command is shown exited or waited for, and never both.
WaitInv ==
  \A x \in Exec :
    /\ call[x] # "tracked" => state[x] = "running" /\ ~waiting[x]
    /\ state[x] = "exited" => ~waiting[x]

\* What the orchestrator shows of a command and who waits for it move only by
\* these steps; a call that is tracked stays so.
LEMMA WaitNext == TypeOK /\ WaitInv /\ [Next]_vars => WaitInv'
<1>. SUFFICES ASSUME TypeOK, WaitInv, [Next]_vars
              PROVE  WaitInv'
  OBVIOUS
<1>. USE DEF agentVars, connVars, trackVars
<1>0. ASSUME UNCHANGED <<call, state, waiting>>
      PROVE  WaitInv'
  BY <1>0 DEF WaitInv
<1>1. ASSUME NEW x \in Exec, NEW frames, frames.exited \in BOOLEAN,
             ApplyExecFrames(x, frames), call'[x] = "tracked",
             \A y \in Exec \ {x} : call'[y] = call[y]
      PROVE  WaitInv'
  <2>1. /\ state'[x] = IF frames.exited THEN "exited" ELSE state[x]
        /\ waiting'[x] = (waiting[x] /\ ~frames.exited)
        /\ \A y \in Exec \ {x} : state'[y] = state[y] /\ waiting'[y] = waiting[y]
    BY <1>1 DEF ApplyExecFrames, TypeOK
  <2>. QED
    BY <1>1, <2>1 DEF WaitInv
<1>2. ASSUME NEW c \in Conn, ReadFrame(c)
      PROVE  WaitInv'
  <2>. DEFINE f == Head(wire[c])
  <2>1. f.exec \in Exec
    <3>1. f \in Frame
      BY <1>2, HeadTailProperties DEF ReadFrame, TypeOK
    <3>. QED
      BY <3>1 DEF Frame
  <2>. HIDE DEF f
  <2>2. \/ /\ \E answer \in {"answered", "failed"} :
               call' = [call EXCEPT ![f.exec] = IF call[f.exec] = "requested" THEN answer
                                               ELSE call[f.exec]]
           /\ UNCHANGED trackVars
        \/ HandleExecFrame(f.exec, f) /\ UNCHANGED call
    BY <1>2 DEF ReadFrame, f
  <2>3. CASE UNCHANGED trackVars
    <3>1. CASE UNCHANGED call
      BY <1>0, <2>3, <3>1
    <3>2. ASSUME NEW answer \in {"answered", "failed"},
                 call' = [call EXCEPT ![f.exec] = IF call[f.exec] = "requested" THEN answer
                                                  ELSE call[f.exec]]
          PROVE  WaitInv'
      <4>1. /\ UNCHANGED <<state, waiting>>
            /\ \A y \in Exec : call'[y] = "tracked" <=> call[y] = "tracked"
        BY <2>1, <2>3, <3>2 DEF TypeOK
      <4>. QED
        BY <4>1 DEF WaitInv
    <3>. QED
      BY <2>2, <3>1, <3>2
  <2>4. CASE HandleExecFrame(f.exec, f) /\ UNCHANGED call
    <3>1. CASE call[f.exec] = "tracked"
      <4>. DEFINE frame == [chunks |-> IF f.kind = "output" THEN <<f.chunk>> ELSE <<>>,
                            exited |-> f.kind = "exit"]
      <4>1. ApplyExecFrames(f.exec, frame)
        BY <2>4, <3>1 DEF HandleExecFrame
      <4>2. frame.exited \in BOOLEAN
        OBVIOUS
      <4>. HIDE DEF frame
      <4>. QED
        BY <1>1, <2>1, <2>4, <3>1, <4>1, <4>2
    <3>2. CASE call[f.exec] # "tracked"
      BY <1>0, <2>4, <3>2 DEF HandleExecFrame
    <3>. QED
      BY <3>1, <3>2
  <2>. QED
    BY <2>2, <2>3, <2>4
<1>3. ASSUME NEW x \in Exec, TrackExec(x)
      PROVE  WaitInv'
  <2>1. buffered[x].exited \in BOOLEAN
    BY DEF TypeOK
  <2>2. call'[x] = "tracked" /\ \A y \in Exec \ {x} : call'[y] = call[y]
    BY <1>3 DEF TrackExec, TypeOK
  <2>3. ApplyExecFrames(x, buffered[x])
    BY <1>3 DEF TrackExec
  <2>. QED
    BY <1>1, <2>1, <2>2, <2>3
<1>4. ASSUME UNCHANGED <<state, waiting>>,
             \A x \in Exec : call'[x] = "tracked" <=> call[x] = "tracked"
      PROVE  WaitInv'
  BY <1>4 DEF WaitInv
<1>5. ASSUME NEW x \in Exec, StartExec(x) \/ CallTimeout(x)
      PROVE  WaitInv'
  <2>1. UNCHANGED <<state, waiting>>
    BY <1>5 DEF StartExec, CallTimeout
  <2>2. \A y \in Exec : call'[y] = "tracked" <=> call[y] = "tracked"
    BY <1>5 DEF StartExec, CallTimeout, TypeOK
  <2>. QED
    BY <1>4, <2>1, <2>2
<1>6. ASSUME NEW c \in Conn, ServerClose(c)
      PROVE  WaitInv'
  <2>1. UNCHANGED <<state, waiting>>
    BY <1>6 DEF ServerClose
  <2>2. \A y \in Exec : call'[y] = "tracked" <=> call[y] = "tracked"
    BY <1>6 DEF ServerClose, TypeOK
  <2>. QED
    BY <1>4, <2>1, <2>2
<1>7. ASSUME NEW x \in Exec, WaitExec(x) \/ WaitEnds(x)
       PROVE  WaitInv'
  <2>1. UNCHANGED <<call, state>>
    BY <1>7 DEF WaitExec, WaitEnds
  <2>2. \A y \in Exec \ {x} : waiting'[y] = waiting[y]
    BY <1>7 DEF WaitExec, WaitEnds, TypeOK
  <2>3. waiting'[x] => call[x] = "tracked" /\ state[x] # "exited"
    BY <1>7 DEF WaitExec, WaitEnds, WaitInv, TypeOK
  <2>. QED
    BY <2>1, <2>2, <2>3 DEF WaitInv
<1>8. ASSUME NEW c \in Conn, NEW x \in Exec, ReceiveStart(c, x) \/ ReceiveAbort(c, x)
      PROVE  WaitInv'
  BY <1>0, <1>8 DEF ReceiveStart, ReceiveAbort
<1>9. ASSUME NEW x \in Exec,
             \/ StartFails(x) \/ Launch(x) \/ WriteOutput(x) \/ ProcessExits(x) \/ EmitChunk(x)
             \/ Finish(x) \/ FinishFailed(x) \/ Escalate(x) \/ ExecTimeout(x)
             \/ TurnForeign(x) \/ EscalateRefused(x) \/ EscalateThrows(x) \/ AgentDies(x)
      PROVE  WaitInv'
  BY <1>0, <1>9 DEF StartFails, Launch, WriteOutput, ProcessExits, EmitChunk, Finish,
                    FinishFailed, Escalate, ExecTimeout, TurnForeign, EscalateRefused,
                    EscalateThrows, AgentDies
<1>10. ASSUME NEW c \in Conn, AgentClose(c) \/ Connect(c)
      PROVE  WaitInv'
  BY <1>0, <1>10 DEF AgentClose, Connect
<1>11. ASSUME NEW x \in Exec, AbortExec(x)
       PROVE  WaitInv'
  BY <1>0, <1>11 DEF AbortExec
<1>12. CASE UNCHANGED vars
  BY <1>0, <1>12 DEF vars
<1>. QED
  BY <1>2, <1>3, <1>5, <1>6, <1>8, <1>9, <1>10, <1>11, <1>12, <1>7 DEF Next

\* Nobody is left waiting for a command that is shown exited.
THEOREM NoneMissed == Spec => []NoWaiterMissed
<1>1. Init => TypeInv /\ WaitInv
  BY TypeInit DEF Init, WaitInv
<1>2. TypeInv => TypeOK
  BY DEF TypeInv
<1>3. TypeInv /\ WaitInv /\ [Next]_vars => TypeInv' /\ WaitInv'
  BY <1>2, TypeNext, WaitNext
<1>4. TypeInv /\ WaitInv => NoWaiterMissed
  BY DEF WaitInv, NoWaiterMissed
<1>. QED
  BY <1>1, <1>3, <1>4, PTL DEF Spec

(***************************************************************************)
(* Exits.                                                                  *)
(***************************************************************************)

\* The exits on the wires are of finished commands.
ExitsFinished == \A c \in Conn : \A i \in 1..Len(wire[c]) :
                   wire[c][i].kind = "exit" => phase[wire[c][i].exec] = "finished"

\* No step takes a command back from finished.
FinishedStays == \A x \in Exec : phase[x] = "finished" => phase'[x] = "finished"

\* A step that sends nothing leaves the exits on the wires of finished commands.
LEMMA KeepExits ==
  ASSUME TypeOK, ExitsFinished, FinishedStays, UNCHANGED wire
  PROVE  ExitsFinished'
<1>. SUFFICES ASSUME NEW c \in Conn, NEW i \in 1..Len(wire[c]), wire[c][i].kind = "exit"
              PROVE  phase'[wire[c][i].exec] = "finished"
  BY DEF ExitsFinished
<1>1. wire[c][i] \in Frame
  BY ElementOfSeq DEF TypeOK
<1>. QED
  BY <1>1 DEF Frame, ExitsFinished, FinishedStays

\* A step that sends to one connection, an exit only of a command it leaves
\* finished, does too.
LEMMA SendExits ==
  ASSUME TypeOK, ExitsFinished, FinishedStays,
         NEW c \in Conn, NEW frames \in Seq(Frame), Send(c, frames),
         \A i \in 1..Len(frames) :
           frames[i].kind = "exit" => phase'[frames[i].exec] = "finished"
  PROVE  ExitsFinished'
<1>1. CASE UNCHANGED wire
  BY <1>1, KeepExits
<1>2. CASE wire' = [wire EXCEPT ![c] = wire[c] \o frames]
  <2>. SUFFICES ASSUME NEW d \in Conn, NEW i \in 1..Len(wire'[d]), wire'[d][i].kind = "exit"
                PROVE  phase'[wire'[d][i].exec] = "finished"
    BY DEF ExitsFinished
  <2>1. ASSUME NEW e \in Conn, NEW j \in 1..Len(wire[e]), wire[e][j].kind = "exit"
        PROVE  phase'[wire[e][j].exec] = "finished"
    <3>1. wire[e][j] \in Frame
      BY ElementOfSeq DEF TypeOK
    <3>. QED
      BY <2>1, <3>1 DEF Frame, ExitsFinished, FinishedStays
  <2>2. CASE d # c
    BY <1>2, <2>1, <2>2 DEF TypeOK
  <2>3. CASE d = c
    <3>1. wire'[d] = wire[c] \o frames /\ wire[c] \in Seq(Frame)
      BY <1>2, <2>3 DEF TypeOK
    <3>2. \/ i \in 1..Len(wire[c]) /\ wire'[d][i] = wire[c][i]
          \/ i - Len(wire[c]) \in 1..Len(frames) /\ wire'[d][i] = frames[i - Len(wire[c])]
      BY <3>1
    <3>. QED
      BY <2>1, <3>2
  <2>. QED
    BY <2>2, <2>3
<1>. QED
  BY <1>1, <1>2 DEF Send

\* A command whose exit is on its way, was read early or is shown has finished
\* at the agent, and what has finished has no process that it may signal.
ExitInv ==
  /\ ExitsFinished
  /\ \A x \in Exec : buffered[x].exited \/ state[x] = "exited" => phase[x] = "finished"
  /\ \A x \in Exec : phase[x] = "finished" => process[x] \in {"dead", "failed", "foreign"}

\* Only a finished command's exit is sent, and no step makes a process one that
\* may be signalled.
LEMMA ExitNext == TypeInv /\ ExitInv /\ [Next]_vars => ExitInv'
<1>. SUFFICES ASSUME TypeInv, ExitInv, [Next]_vars
              PROVE  ExitInv'
  OBVIOUS
<1>. USE DEF agentVars, connVars, trackVars
<1>0. TypeOK /\ ExitsFinished
  BY DEF TypeInv, ExitInv
<1>1. ASSUME UNCHANGED <<buffered, state>>, FinishedStays, ExitsFinished',
             \A x \in Exec : phase'[x] = "finished" => process'[x] \in {"dead", "failed", "foreign"}
      PROVE  ExitInv'
  BY <1>1 DEF ExitInv, FinishedStays
<1>2. ASSUME NEW c \in Conn, NEW x \in Exec, ReceiveStart(c, x)
      PROVE  ExitInv'
  <2>1. phase[x] = "none"
    BY <1>2 DEF ReceiveStart, TypeInv, OwnerKnown
  <2>2. /\ UNCHANGED <<buffered, state, process>>
        /\ \A y \in Exec \ {x} : phase'[y] = phase[y]
        /\ phase'[x] # "finished"
    BY <1>2 DEF ReceiveStart, TypeInv, TypeOK
  <2>3. FinishedStays
    BY <2>1, <2>2 DEF FinishedStays
  <2>4. ExitsFinished'
    <3>1. CASE UNCHANGED wire
      BY <1>0, <2>3, <3>1, KeepExits
    <3>2. CASE Send(c, <<Plain("error", x)>>)
      <4>. DEFINE frames == <<Plain("error", x)>>
      <4>1. frames \in Seq(Frame)
        BY FrameType
      <4>2. \A i \in 1..Len(frames) : frames[i].kind # "exit"
        BY DEF Plain
      <4>. HIDE DEF frames
      <4>3. Send(c, frames)
        BY <3>2 DEF frames
      <4>. QED
        BY <1>0, <2>3, <4>1, <4>2, <4>3, SendExits
    <3>. QED
      BY <1>2, <3>1, <3>2 DEF ReceiveStart
  <2>. QED
    BY <1>1, <2>2, <2>3, <2>4 DEF ExitInv
<1>3. ASSUME NEW x \in Exec, NEW frames \in Seq(Frame), Send(via[x], frames),
             phase[x] \in {"starting", "active", "finished"}, FinishedStays,
             \A i \in 1..Len(frames) :
               frames[i].kind = "exit" => phase'[frames[i].exec] = "finished"
      PROVE  ExitsFinished'
  <2>1. via[x] \in Conn
    BY <1>3 DEF TypeInv, OwnerKnown
  <2>. QED
    BY <1>0, <1>3, <2>1, SendExits
<1>4. ASSUME NEW x \in Exec, StartFails(x)
      PROVE  ExitInv'
  <2>. DEFINE frames == <<Plain("error", x)>>
  <2>1. frames \in Seq(Frame) /\ \A i \in 1..Len(frames) : frames[i].kind # "exit"
    <3>1. frames \in Seq(Frame)
      BY FrameType
    <3>2. \A i \in 1..Len(frames) : frames[i].kind # "exit"
      BY DEF Plain
    <3>. QED
      BY <3>1, <3>2
  <2>2. /\ Send(via[x], frames) /\ phase[x] = "starting"
        /\ UNCHANGED <<buffered, state, process>>
    BY <1>4 DEF StartFails
  <2>3. FinishedStays /\ \A y \in Exec : phase'[y] = "finished" => phase[y] = "finished"
    BY <1>4 DEF StartFails, FinishedStays, TypeInv, TypeOK
  <2>. HIDE DEF frames
  <2>4. ExitsFinished'
    BY <1>3, <2>1, <2>2, <2>3
  <2>. QED
    BY <1>1, <2>2, <2>3, <2>4 DEF ExitInv
<1>5. ASSUME NEW x \in Exec, Launch(x)
      PROVE  ExitInv'
  <2>. DEFINE frames == <<Plain("started", x)>>
  <2>1. frames \in Seq(Frame) /\ \A i \in 1..Len(frames) : frames[i].kind # "exit"
    <3>1. frames \in Seq(Frame)
      BY FrameType
    <3>2. \A i \in 1..Len(frames) : frames[i].kind # "exit"
      BY DEF Plain
    <3>. QED
      BY <3>1, <3>2
  <2>2. /\ Send(via[x], frames) /\ phase[x] = "starting"
        /\ UNCHANGED <<buffered, state>>
    BY <1>5 DEF Launch
  <2>3. /\ FinishedStays
        /\ \A y \in Exec : phase'[y] = "finished" =>
             phase[y] = "finished" /\ process'[y] = process[y]
    BY <1>5 DEF Launch, FinishedStays, TypeInv, TypeOK
  <2>. HIDE DEF frames
  <2>4. ExitsFinished'
    BY <1>3, <2>1, <2>2, <2>3
  <2>. QED
    BY <1>1, <2>2, <2>3, <2>4 DEF ExitInv
<1>6. ASSUME NEW x \in Exec, EmitChunk(x)
      PROVE  ExitInv'
  <2>. DEFINE frames == <<Output(x, emitted[x] + 1)>>
  <2>1. frames \in Seq(Frame) /\ \A i \in 1..Len(frames) : frames[i].kind # "exit"
    <3>1. emitted[x] + 1 \in Nat
      BY <1>6, ConstantsAssumption DEF EmitChunk, TypeInv, TypeOK
    <3>. QED
      BY <3>1, FrameType DEF Output
  <2>2. phase[x] \in {"active", "finished"}
    <3>1. printed[x] > 0
      BY <1>6 DEF EmitChunk, TypeInv, TypeOK
    <3>. QED
      BY <1>6, <3>1 DEF EmitChunk, TypeInv, OwnerKnown
  <2>3. Send(via[x], frames) /\ UNCHANGED <<buffered, state, phase, process>>
    BY <1>6 DEF EmitChunk
  <2>4. FinishedStays
    BY <2>3 DEF FinishedStays
  <2>. HIDE DEF frames
  <2>5. ExitsFinished'
    BY <1>3, <2>1, <2>2, <2>3, <2>4
  <2>. QED
    BY <1>1, <2>3, <2>4, <2>5 DEF ExitInv
<1>7. ASSUME NEW x \in Exec, Finish(x)
      PROVE  ExitInv'
  <2>. DEFINE frames == <<Plain("exit", x)>>
  <2>1. /\ phase[x] = "active" /\ process[x] = "dead" /\ phase'[x] = "finished"
        /\ UNCHANGED <<buffered, state, process>> /\ Send(via[x], frames)
        /\ \A y \in Exec \ {x} : phase'[y] = phase[y]
    BY <1>7 DEF Finish, TypeInv, TypeOK
  <2>2. frames \in Seq(Frame) /\ \A i \in 1..Len(frames) : frames[i].exec = x
    <3>1. frames \in Seq(Frame)
      BY FrameType
    <3>2. \A i \in 1..Len(frames) : frames[i].exec = x
      BY DEF Plain
    <3>. QED
      BY <3>1, <3>2
  <2>3. FinishedStays
    BY <2>1 DEF FinishedStays
  <2>. HIDE DEF frames
  <2>4. ExitsFinished'
    BY <1>3, <2>1, <2>2, <2>3
  <2>. QED
    BY <1>1, <2>1, <2>3, <2>4 DEF ExitInv
<1>8. ASSUME NEW xs, xs \subseteq Exec, ErrorEvent(xs), UNCHANGED <<buffered, state, process>>,
             \A y \in xs : process[y] \in {"failed", "foreign"},
             \/ UNCHANGED wire
             \/ \E x \in xs : /\ phase[x] = "active" /\ Send(via[x], LastWords(x))
      PROVE  ExitInv'
  <2>1. /\ FinishedStays
        /\ \A y \in Exec : phase'[y] = "finished" => phase[y] = "finished" \/ y \in xs
        /\ \A y \in xs : phase'[y] = "finished"
    BY <1>8 DEF ErrorEvent, FinishedStays, TypeInv, TypeOK
  <2>2. CASE UNCHANGED wire
    <3>1. ExitsFinished'
      BY <1>0, <2>1, <2>2, KeepExits
    <3>. QED
      BY <1>1, <1>8, <2>1, <3>1 DEF ExitInv
  <2>3. ASSUME NEW x \in xs, phase[x] = "active", Send(via[x], LastWords(x))
        PROVE  ExitInv'
    <3>1. x \in Exec /\ phase'[x] = "finished"
      BY <1>8, <2>1
    <3>2. LastWords(x) \in Seq(Frame) /\ \A i \in 1..Len(LastWords(x)) : LastWords(x)[i].exec = x
      <4>1. /\ LastWords(x) \in Seq(Frame) /\ Len(LastWords(x)) = 2
            /\ LastWords(x)[1] = Output(x, emitted[x] + 1)
            /\ LastWords(x)[2] = Plain("exit", x)
        BY <1>0, <3>1, LastWordsType
      <4>2. Output(x, emitted[x] + 1).exec = x /\ Plain("exit", x).exec = x
        BY DEF Output, Plain
      <4>3. \A i \in 1..2 : i = 1 \/ i = 2
        OBVIOUS
      <4>. QED
        BY <4>1, <4>2, <4>3
    <3>3. ExitsFinished'
      BY <1>3, <2>1, <2>3, <3>1, <3>2
    <3>. QED
      BY <1>1, <1>8, <2>1, <3>3 DEF ExitInv
  <2>. QED
    BY <1>8, <2>2, <2>3
<1>81. ASSUME NEW x \in Exec, FinishFailed(x) \/ EscalateRefused(x)
       PROVE  ExitInv'
  <2>1. /\ phase[x] = "active" /\ process[x] \in {"failed", "foreign"}
        /\ ErrorEvent({x}) /\ Send(via[x], LastWords(x))
        /\ UNCHANGED <<buffered, state, process>>
    BY <1>81 DEF FinishFailed, EscalateRefused, Refusing, Active
  <2>. QED
    BY <1>8, <2>1
<1>82. ASSUME NEW x \in Exec, NEW xs, xs = {x} \/ xs = {x} \cap Active, KillTree(xs),
              TellRefused(x), UNCHANGED <<buffered, state, process>>
       PROVE  ExitInv'
  <2>1. /\ ErrorEvent(xs \cap Refusing) /\ xs \cap Refusing \subseteq Exec
        /\ \A y \in xs \cap Refusing : process[y] = "foreign" /\ phase[y] = "active"
        /\ x \in Refusing => x \in xs
    BY <1>82 DEF KillTree, Refusing, Active
  <2>2. CASE x \in Refusing
    BY <1>8, <1>82, <2>1, <2>2 DEF TellRefused
  <2>3. CASE x \notin Refusing
    BY <1>8, <1>82, <2>1, <2>3 DEF TellRefused
  <2>. QED
    BY <2>2, <2>3
<1>83. ASSUME NEW x \in Exec, ExecTimeout(x) \/ \E c \in Conn : ReceiveAbort(c, x)
       PROVE  ExitInv'
  <2>1. \/ KillTree({x})
        \/ KillTree({x} \cap Active)
    BY <1>83 DEF ExecTimeout, ReceiveAbort
  <2>2. TellRefused(x) /\ UNCHANGED <<buffered, state, process>>
    BY <1>83 DEF ExecTimeout, ReceiveAbort
  <2>. QED
    BY <1>82, <2>1, <2>2
<1>84. ASSUME NEW c \in Conn, AgentClose(c)
       PROVE  ExitInv'
  <2>. DEFINE owned == {x \in Active : via[x] = c}
  <2>1. /\ ErrorEvent(owned \cap Refusing) /\ owned \cap Refusing \subseteq Exec
        /\ \A y \in owned \cap Refusing : process[y] = "foreign"
        /\ UNCHANGED <<wire, buffered, state, process>>
    BY <1>84 DEF AgentClose, KillTree, Refusing, Active
  <2>. HIDE DEF owned
  <2>. QED
    BY <1>8, <2>1
<1>9. ASSUME UNCHANGED <<wire, buffered, state>>, FinishedStays,
             \A x \in Exec :
               /\ phase'[x] = "finished" => phase[x] = "finished"
               /\ process'[x] = process[x] \/ process'[x] \in {"dead", "foreign"}
      PROVE  ExitInv'
  <2>1. ExitsFinished'
    BY <1>0, <1>9, KeepExits
  <2>. QED
    BY <1>1, <1>9, <2>1 DEF ExitInv
<1>10. ASSUME NEW x \in Exec,
              \/ ProcessExits(x) \/ Escalate(x) \/ TurnForeign(x) \/ EscalateThrows(x)
              \/ AgentDies(x)
       PROVE  ExitInv'
  <2>1. /\ UNCHANGED <<wire, buffered, state>>
        /\ \A y \in Exec : process'[y] = process[y] \/ process'[y] \in {"dead", "foreign"}
    BY <1>10 DEF ProcessExits, Escalate, TurnForeign, EscalateThrows, AgentDies, TypeInv, TypeOK
  <2>2. /\ FinishedStays
        /\ \A y \in Exec : phase'[y] = "finished" => phase[y] = "finished"
    BY <1>10 DEF ProcessExits, Escalate, TurnForeign, EscalateThrows, AgentDies, FinishedStays
  <2>. QED
    BY <1>9, <2>1, <2>2
<1>11. ASSUME NEW x \in Exec,
              \/ WriteOutput(x) \/ StartExec(x) \/ CallTimeout(x)
              \/ WaitExec(x) \/ WaitEnds(x) \/ AbortExec(x)
       PROVE  ExitInv'
  BY <1>9, <1>11 DEF WriteOutput, StartExec, CallTimeout, WaitExec, WaitEnds,
                     AbortExec, FinishedStays
<1>12. ASSUME NEW c \in Conn, Connect(c)
       PROVE  ExitInv'
  BY <1>9, <1>12 DEF Connect, FinishedStays
<1>13. ASSUME UNCHANGED <<phase, process>>, NEW c \in Conn, NEW rest \in Seq(Frame),
              wire' = [wire EXCEPT ![c] = rest],
              \A i \in 1..Len(rest) : \E j \in 1..Len(wire[c]) : rest[i] = wire[c][j]
       PROVE  ExitsFinished'
  <2>. SUFFICES ASSUME NEW d \in Conn, NEW i \in 1..Len(wire'[d]), wire'[d][i].kind = "exit"
                PROVE  phase[wire'[d][i].exec] = "finished"
    BY <1>13 DEF ExitsFinished
  <2>1. CASE d = c
    <3>1. wire'[d] = rest
      BY <1>0, <1>13, <2>1 DEF TypeOK
    <3>2. PICK j \in 1..Len(wire[c]) : rest[i] = wire[c][j]
      BY <1>13, <3>1
    <3>. QED
      BY <1>0, <3>1, <3>2 DEF ExitsFinished
  <2>2. CASE d # c
    BY <1>0, <1>13, <2>2 DEF ExitsFinished, TypeOK
  <2>. QED
    BY <2>1, <2>2
<1>14. ASSUME NEW c \in Conn, ServerClose(c)
       PROVE  ExitInv'
  <2>1. UNCHANGED <<phase, process, buffered, state>> /\ wire' = [wire EXCEPT ![c] = <<>>]
    BY <1>14 DEF ServerClose
  <2>2. ExitsFinished'
    <3>. DEFINE rest == <<>>
    <3>1. rest \in Seq(Frame) /\ Len(rest) = 0
      OBVIOUS
    <3>. HIDE DEF rest
    <3>2. wire' = [wire EXCEPT ![c] = rest]
      BY <2>1 DEF rest
    <3>3. \A i \in 1..Len(rest) : \E j \in 1..Len(wire[c]) : rest[i] = wire[c][j]
      BY <3>1
    <3>4. UNCHANGED <<phase, process>>
      BY <2>1
    <3>. QED
      BY <1>13, <3>1, <3>2, <3>3, <3>4
  <2>. QED
    BY <1>1, <2>1, <2>2 DEF FinishedStays, ExitInv
<1>15. ASSUME NEW x \in Exec, NEW frames \in [chunks: Seq(Nat), exited: BOOLEAN],
              frames.exited => phase[x] = "finished",
              ApplyExecFrames(x, frames), UNCHANGED phase
       PROVE  \A y \in Exec : state'[y] = "exited" => phase'[y] = "finished"
  <2>1. \A y \in Exec : state'[y] = "exited" =>
          state[y] = "exited" \/ (y = x /\ frames.exited)
    BY <1>15 DEF ApplyExecFrames, TypeInv, TypeOK
  <2>. QED
    BY <1>15, <2>1 DEF ExitInv
<1>16. ASSUME NEW x \in Exec, TrackExec(x)
       PROVE  ExitInv'
  <2>1. /\ UNCHANGED <<phase, process, wire>> /\ ApplyExecFrames(x, buffered[x])
        /\ \A y \in Exec : buffered'[y].exited => buffered[y].exited
    BY <1>16 DEF TrackExec, Nothing, TypeInv, TypeOK
  <2>2. /\ buffered[x] \in [chunks: Seq(Nat), exited: BOOLEAN]
        /\ buffered[x].exited => phase[x] = "finished"
    BY DEF ExitInv, TypeInv, TypeOK
  <2>3. \A y \in Exec : state'[y] = "exited" => phase'[y] = "finished"
    BY <1>15, <2>1, <2>2
  <2>4. ExitsFinished'
    BY <1>0, <2>1, KeepExits DEF FinishedStays
  <2>. QED
    BY <2>1, <2>3, <2>4 DEF ExitInv
<1>17. ASSUME NEW c \in Conn, ReadFrame(c)
       PROVE  ExitInv'
  <2>. DEFINE f == Head(wire[c])
  <2>1. /\ wire[c] # <<>> /\ wire[c] \in Seq(Frame)
        /\ f \in Frame /\ Tail(wire[c]) \in Seq(Frame)
        /\ Len(Tail(wire[c])) = Len(wire[c]) - 1
        /\ \A i \in 1..Len(Tail(wire[c])) : Tail(wire[c])[i] = wire[c][i + 1]
        /\ 1 \in 1..Len(wire[c]) /\ f = wire[c][1]
    BY <1>17, HeadTailProperties DEF ReadFrame, TypeInv, TypeOK
  <2>2. f.exec \in Exec /\ f.chunk \in Nat
    BY <2>1 DEF Frame
  <2>3. f.kind = "exit" => phase[f.exec] = "finished"
    BY <1>0, <2>1 DEF ExitsFinished
  <2>4. /\ wire' = [wire EXCEPT ![c] = Tail(wire[c])]
        /\ UNCHANGED <<agentVars, agentEnd, serverEnd, requests, current, via>>
        /\ UNCHANGED trackVars \/ HandleExecFrame(f.exec, f)
    BY <1>17 DEF ReadFrame
  <2>. HIDE DEF f
  <2>5. ExitsFinished'
    <3>1. \A i \in 1..Len(Tail(wire[c])) : \E j \in 1..Len(wire[c]) :
            Tail(wire[c])[i] = wire[c][j]
      BY <2>1
    <3>. QED
      BY <1>13, <2>1, <2>4, <3>1
  <2>6. CASE UNCHANGED trackVars
    BY <1>1, <2>4, <2>5, <2>6 DEF FinishedStays, ExitInv
  <2>7. CASE HandleExecFrame(f.exec, f)
    <3>. DEFINE frame == [chunks |-> IF f.kind = "output" THEN <<f.chunk>> ELSE <<>>,
                          exited |-> f.kind = "exit"]
    <3>1. frame \in [chunks: Seq(Nat), exited: BOOLEAN]
      <4>1. <<f.chunk>> \in Seq(Nat) /\ << >> \in Seq(Nat)
        BY <2>2
      <4>. QED
        BY <4>1
    <3>2. frame.exited <=> f.kind = "exit"
      OBVIOUS
    <3>3. CASE call[f.exec] = "tracked"
      <4>1. ApplyExecFrames(f.exec, frame) /\ UNCHANGED buffered
        BY <2>7, <3>3 DEF HandleExecFrame
      <4>. HIDE DEF frame
      <4>2. \A y \in Exec : state'[y] = "exited" => phase'[y] = "finished"
        BY <1>15, <2>2, <2>3, <2>4, <3>1, <3>2, <4>1
      <4>. QED
        BY <2>4, <2>5, <4>1, <4>2 DEF ExitInv
    <3>4. CASE call[f.exec] # "tracked"
      <4>1. UNCHANGED state /\
            buffered' = [buffered EXCEPT ![f.exec] =
                           [chunks |-> buffered[f.exec].chunks \o frame.chunks,
                            exited |-> buffered[f.exec].exited \/ frame.exited]]
        BY <2>7, <3>4 DEF HandleExecFrame
      <4>. HIDE DEF frame
      <4>2. \A y \in Exec : buffered'[y].exited =>
              buffered[y].exited \/ (y = f.exec /\ frame.exited)
        BY <2>2, <4>1 DEF TypeInv, TypeOK
      <4>. QED
        BY <2>3, <2>4, <2>5, <3>2, <4>1, <4>2 DEF ExitInv
    <3>. QED
      BY <3>3, <3>4
  <2>. QED
    BY <2>4, <2>6, <2>7
<1>18. CASE UNCHANGED vars
  BY <1>9, <1>18 DEF vars, FinishedStays
<1>. QED
  BY <1>2, <1>4, <1>5, <1>6, <1>7, <1>81, <1>83, <1>84, <1>10, <1>11, <1>12, <1>14, <1>16, <1>17,
     <1>18 DEF Next

\* A command is shown exited only when its process is gone or is one the agent
\* may not signal, whatever the order of answers, frames, timers, closes, failed
\* kills and deaths of the agent.
THEOREM ExitsAreTrue == Spec => []NoFalseExit
<1>1. Init => TypeInv /\ ExitInv
  BY TypeInit DEF Init, ExitInv, ExitsFinished, Nothing
<1>2. TypeInv /\ ExitInv /\ [Next]_vars => TypeInv' /\ ExitInv'
  BY TypeNext, ExitNext
<1>3. TypeInv /\ ExitInv => NoFalseExit
  BY DEF ExitInv, NoFalseExit
<1>. QED
  BY <1>1, <1>2, <1>3, PTL DEF Spec

(***************************************************************************)
(* Output.  The chunks of a command on the wire of its owner follow the    *)
(* last one received one by one; the wire ends with the last one emitted   *)
(* as long as both ends are open, and once one is closed nothing is sent   *)
(* any more.  So what is read is always the next chunk.                    *)
(***************************************************************************)

IsOutput(f, x) == f.kind = "output" /\ f.exec = x

\* No output of x is in these frames.
Silent(w, x) == \A i \in 1..Len(w) : ~IsOutput(w[i], x)

\* The chunks of x in these frames: from n + 1, each after the one before, up to m.
Stream(w, x, n, m) ==
  /\ \A i \in 1..Len(w) : IsOutput(w[i], x) =>
       /\ n < w[i].chunk /\ w[i].chunk <= m
       /\ w[i].chunk # n + 1 =>
            \E j \in 1..Len(w) : j < i /\ IsOutput(w[j], x) /\ w[j].chunk = w[i].chunk - 1
  /\ \A i, j \in 1..Len(w) :
       i < j /\ IsOutput(w[i], x) /\ IsOutput(w[j], x) => w[i].chunk < w[j].chunk

\* Chunk m is among them, unless n is m already.
Arrives(w, x, n, m) ==
  n < m => \E i \in 1..Len(w) : IsOutput(w[i], x) /\ w[i].chunk = m

\* Without output of x there is nothing to be out of order.
LEMMA SilentStreams ==
  ASSUME NEW w, NEW x, NEW n, NEW m, Silent(w, x)
  PROVE  Stream(w, x, n, m)
BY DEF Silent, Stream

\* A frame that is no output of x changes nothing for x.
LEMMA StreamPasses ==
  ASSUME NEW w \in Seq(Frame), NEW f \in Frame, NEW x \in Exec, ~IsOutput(f, x),
         NEW n \in Nat, NEW m \in Nat
  PROVE  /\ Silent(w, x) => Silent(w \o <<f>>, x)
         /\ Stream(w, x, n, m) => Stream(w \o <<f>>, x, n, m)
         /\ Arrives(w, x, n, m) => Arrives(w \o <<f>>, x, n, m)
<1>. DEFINE v == w \o <<f>>
<1>1. /\ Len(v) = Len(w) + 1 /\ Len(w) \in Nat
      /\ \A i \in 1..Len(w) : v[i] = w[i]
      /\ v[Len(w) + 1] = f
  OBVIOUS
<1>2. \A i \in 1..Len(v) : IsOutput(v[i], x) => i \in 1..Len(w) /\ IsOutput(w[i], x)
  BY <1>1
<1>. HIDE DEF v
<1>3. Silent(w, x) => Silent(v, x)
  BY <1>2 DEF Silent
<1>4. Stream(w, x, n, m) => Stream(v, x, n, m)
  <2>. HAVE Stream(w, x, n, m)
  <2>1. ASSUME NEW i \in 1..Len(v), IsOutput(v[i], x)
        PROVE  /\ n < v[i].chunk /\ v[i].chunk <= m
               /\ v[i].chunk # n + 1 =>
                    \E j \in 1..Len(v) : j < i /\ IsOutput(v[j], x) /\ v[j].chunk = v[i].chunk - 1
    BY <1>1, <1>2, <2>1, SMTT(40) DEF Stream
  <2>2. \A i, j \in 1..Len(v) :
          i < j /\ IsOutput(v[i], x) /\ IsOutput(v[j], x) => v[i].chunk < v[j].chunk
    BY <1>1, <1>2 DEF Stream
  <2>. QED
    BY <2>1, <2>2 DEF Stream
<1>5. Arrives(w, x, n, m) => Arrives(v, x, n, m)
  BY <1>1 DEF Arrives
<1>. QED
  BY <1>3, <1>4, <1>5 DEF v

\* The chunk after the last one extends the stream.
LEMMA StreamExtends ==
  ASSUME NEW w \in Seq(Frame), NEW x \in Exec, NEW n \in Nat, NEW m \in Nat, n <= m,
         Stream(w, x, n, m), Arrives(w, x, n, m)
  PROVE  /\ Stream(w \o <<Output(x, m + 1)>>, x, n, m + 1)
         /\ Arrives(w \o <<Output(x, m + 1)>>, x, n, m + 1)
<1>. DEFINE f == Output(x, m + 1)
            v == w \o <<f>>
<1>1. /\ Len(v) = Len(w) + 1 /\ Len(w) \in Nat
      /\ \A i \in 1..Len(w) : v[i] = w[i]
      /\ v[Len(w) + 1] = f
  OBVIOUS
<1>2. IsOutput(f, x) /\ f.chunk = m + 1
  BY DEF Output, IsOutput
<1>. HIDE DEF v, f
<1>3. \A i \in 1..Len(v) : i \in 1..Len(w) \/ i = Len(w) + 1
  BY <1>1
<1>4. ASSUME NEW i \in 1..Len(v), IsOutput(v[i], x)
      PROVE  /\ n < v[i].chunk /\ v[i].chunk <= m + 1
             /\ v[i].chunk # n + 1 =>
                  \E j \in 1..Len(v) : j < i /\ IsOutput(v[j], x) /\ v[j].chunk = v[i].chunk - 1
  <2>1. CASE i \in 1..Len(w)
    <3>1. IsOutput(w[i], x) /\ n < w[i].chunk /\ w[i].chunk <= m
      BY <1>1, <1>4, <2>1 DEF Stream
    <3>2. w[i].chunk \in Nat
      <4>1. w[i] \in Frame
        BY <2>1, ElementOfSeq
      <4>. QED
        BY <4>1, ConstantsAssumption DEF Frame
    <3>3. v[i] = w[i] /\ n < v[i].chunk /\ v[i].chunk <= m + 1
      BY <1>1, <2>1, <3>1, <3>2
    <3>4. ASSUME v[i].chunk # n + 1
          PROVE  \E j \in 1..Len(v) : j < i /\ IsOutput(v[j], x) /\ v[j].chunk = v[i].chunk - 1
      <4>1. PICK j \in 1..Len(w) : j < i /\ IsOutput(w[j], x) /\ w[j].chunk = w[i].chunk - 1
        BY <2>1, <3>1, <3>3, <3>4 DEF Stream
      <4>2. j \in 1..Len(v) /\ v[j] = w[j]
        BY <1>1
      <4>. WITNESS j \in 1..Len(v)
      <4>. QED
        BY <3>3, <4>1, <4>2
    <3>. QED
      BY <3>3, <3>4
  <2>2. CASE i = Len(w) + 1
    <3>1. v[i].chunk = m + 1
      BY <1>1, <1>2, <2>2
    <3>2. m + 1 # n + 1 => \E j \in 1..Len(w) : IsOutput(w[j], x) /\ w[j].chunk = m
      BY DEF Arrives
    <3>3. m + 1 # n + 1 => \E j \in 1..Len(v) : j < i /\ IsOutput(v[j], x) /\ v[j].chunk = m
      BY <1>1, <2>2, <3>2
    <3>. QED
      BY <3>1, <3>3
  <2>. QED
    BY <1>3, <2>1, <2>2
<1>5. ASSUME NEW i \in 1..Len(v), NEW j \in 1..Len(v), i < j, IsOutput(v[i], x), IsOutput(v[j], x)
      PROVE  v[i].chunk < v[j].chunk
  <2>1. i \in 1..Len(w) /\ v[i] = w[i]
    BY <1>1, <1>5
  <2>2. w[i].chunk <= m /\ w[i].chunk \in Nat
    <3>1. w[i] \in Frame
      BY <2>1, ElementOfSeq
    <3>. QED
      BY <1>5, <2>1, <3>1, ConstantsAssumption DEF Frame, Stream
  <2>3. CASE j \in 1..Len(w)
    BY <1>1, <1>5, <2>1, <2>3 DEF Stream
  <2>4. CASE j = Len(w) + 1
    BY <1>1, <1>2, <2>1, <2>2, <2>4
  <2>. QED
    BY <1>3, <2>3, <2>4
<1>6. Stream(v, x, n, m + 1)
  BY <1>4, <1>5 DEF Stream
<1>7. Arrives(v, x, n, m + 1)
  BY <1>1, <1>2 DEF Arrives
<1>. QED
  BY <1>6, <1>7 DEF v, f

\* A chunk that is lost leaves the others in order.
LEMMA StreamLoses ==
  ASSUME NEW w \in Seq(Frame), NEW x \in Exec, NEW n \in Nat, NEW m \in Nat,
         Stream(w, x, n, m)
  PROVE  Stream(w, x, n, m + 1)
<1>1. \A i \in 1..Len(w) : w[i].chunk \in Nat
  <2>1. \A i \in 1..Len(w) : w[i] \in Frame
    BY ElementOfSeq
  <2>. QED
    BY <2>1, ConstantsAssumption DEF Frame
<1>. QED
  BY <1>1, SMTT(40) DEF Stream

\* The next frame read is the next chunk, or none of this command.
LEMMA StreamReads ==
  ASSUME NEW w \in Seq(Frame), w # <<>>, NEW x \in Exec, NEW n \in Nat, NEW m \in Nat
  PROVE  /\ Silent(w, x) => Silent(Tail(w), x) /\ ~IsOutput(Head(w), x)
         /\ Stream(w, x, n, m) /\ ~IsOutput(Head(w), x) =>
              /\ Stream(Tail(w), x, n, m)
              /\ Arrives(w, x, n, m) => Arrives(Tail(w), x, n, m)
         /\ Stream(w, x, n, m) /\ IsOutput(Head(w), x) =>
              /\ Head(w).chunk = n + 1 /\ n + 1 <= m
              /\ Stream(Tail(w), x, n + 1, m)
              /\ Arrives(w, x, n, m) => Arrives(Tail(w), x, n + 1, m)
<1>. DEFINE v == Tail(w)
            h == Head(w)
<1>1. /\ Len(w) \in Nat \ {0} /\ Len(v) = Len(w) - 1
      /\ \A i \in 1..Len(v) : v[i] = w[i + 1]
      /\ h = w[1]
  OBVIOUS
<1>2. \A i \in 1..Len(w) : w[i].chunk \in Nat
  <2>1. \A i \in 1..Len(w) : w[i] \in Frame
    BY ElementOfSeq
  <2>. QED
    BY <2>1, ConstantsAssumption DEF Frame
<1>. HIDE DEF v, h
<1>3. \A i \in 1..Len(w) : i = 1 \/ (i - 1 \in 1..Len(v) /\ w[i] = v[i - 1])
  BY <1>1
<1>4. \A i \in 1..Len(v) : i + 1 \in 1..Len(w) /\ v[i] = w[i + 1]
  BY <1>1
<1>5. Silent(w, x) => Silent(v, x) /\ ~IsOutput(h, x)
  BY <1>1, <1>4 DEF Silent
<1>6. ASSUME Stream(w, x, n, m), ~IsOutput(h, x)
      PROVE  Stream(v, x, n, m) /\ (Arrives(w, x, n, m) => Arrives(v, x, n, m))
  <2>1. ASSUME NEW i \in 1..Len(v), IsOutput(v[i], x)
        PROVE  /\ n < v[i].chunk /\ v[i].chunk <= m
               /\ v[i].chunk # n + 1 =>
                    \E j \in 1..Len(v) : j < i /\ IsOutput(v[j], x) /\ v[j].chunk = v[i].chunk - 1
    <3>1. i + 1 \in 1..Len(w) /\ v[i] = w[i + 1]
      BY <1>4
    <3>2. /\ n < v[i].chunk /\ v[i].chunk <= m
          /\ v[i].chunk # n + 1 =>
               \E k \in 1..Len(w) : k < i + 1 /\ IsOutput(w[k], x) /\ w[k].chunk = v[i].chunk - 1
      BY <1>6, <2>1, <3>1 DEF Stream
    <3>3. ASSUME NEW k \in 1..Len(w), k < i + 1, IsOutput(w[k], x)
          PROVE  k - 1 \in 1..Len(v) /\ k - 1 < i /\ v[k - 1] = w[k]
      BY <1>1, <1>3, <1>6, <3>3
    <3>. QED
      BY <3>2, <3>3
  <2>2. ASSUME NEW i \in 1..Len(v), NEW j \in 1..Len(v), i < j, IsOutput(v[i], x), IsOutput(v[j], x)
        PROVE  v[i].chunk < v[j].chunk
    BY <1>4, <1>6, <2>2, SMTT(30) DEF Stream
  <2>3. Arrives(w, x, n, m) => Arrives(v, x, n, m)
    BY <1>1, <1>3, <1>6 DEF Arrives
  <2>. QED
    BY <2>1, <2>2, <2>3 DEF Stream
<1>7. ASSUME Stream(w, x, n, m), IsOutput(h, x)
      PROVE  /\ h.chunk = n + 1 /\ n + 1 <= m
             /\ Stream(v, x, n + 1, m)
             /\ Arrives(w, x, n, m) => Arrives(v, x, n + 1, m)
  <2>1. h.chunk = n + 1 /\ n + 1 <= m
    <3>1. 1 \in 1..Len(w) /\ ~(\E j \in 1..Len(w) : j < 1)
      BY <1>1
    <3>. QED
      BY <1>1, <1>7, <3>1 DEF Stream
  <2>2. ASSUME NEW i \in 1..Len(v), IsOutput(v[i], x)
        PROVE  /\ n + 1 < v[i].chunk /\ v[i].chunk <= m
               /\ v[i].chunk # n + 2 =>
                    \E j \in 1..Len(v) : j < i /\ IsOutput(v[j], x) /\ v[j].chunk = v[i].chunk - 1
    <3>1. i + 1 \in 1..Len(w) /\ v[i] = w[i + 1] /\ 1 < i + 1 /\ 1 \in 1..Len(w)
      BY <1>1, <1>4
    <3>2. n + 1 < v[i].chunk /\ v[i].chunk <= m /\ v[i].chunk \in Nat
      <4>1. IsOutput(w[1], x) /\ IsOutput(w[i + 1], x) /\ w[1].chunk = n + 1
        BY <1>1, <1>7, <2>1, <2>2, <3>1
      <4>2. w[1].chunk < w[i + 1].chunk /\ w[i + 1].chunk <= m
        BY <1>7, <3>1, <4>1 DEF Stream
      <4>. QED
        BY <1>2, <3>1, <4>1, <4>2
    <3>3. \E k \in 1..Len(w) : k < i + 1 /\ IsOutput(w[k], x) /\ w[k].chunk = v[i].chunk - 1
      <4>1. IsOutput(w[i + 1], x) /\ w[i + 1].chunk # n + 1
        BY <2>2, <3>1, <3>2
      <4>2. \E k \in 1..Len(w) : k < i + 1 /\ IsOutput(w[k], x) /\ w[k].chunk = w[i + 1].chunk - 1
        BY <1>7, <3>1, <4>1 DEF Stream
      <4>. QED
        BY <3>1, <4>2
    <3>4. ASSUME NEW k \in 1..Len(w), k < i + 1, w[k].chunk = v[i].chunk - 1,
                 v[i].chunk # n + 2
          PROVE  k - 1 \in 1..Len(v) /\ k - 1 < i /\ v[k - 1] = w[k]
      <4>1. k # 1
        BY <1>1, <2>1, <3>2, <3>4
      <4>. QED
        BY <1>3, <3>4, <4>1
    <3>. QED
      BY <3>2, <3>3, <3>4
  <2>3. ASSUME NEW i \in 1..Len(v), NEW j \in 1..Len(v), i < j, IsOutput(v[i], x), IsOutput(v[j], x)
        PROVE  v[i].chunk < v[j].chunk
    <3>1. /\ i + 1 \in 1..Len(w) /\ j + 1 \in 1..Len(w) /\ i + 1 < j + 1
          /\ v[i] = w[i + 1] /\ v[j] = w[j + 1]
      BY <1>4, <2>3
    <3>. QED
      BY <1>7, <2>3, <3>1 DEF Stream
  <2>4. Arrives(w, x, n, m) => Arrives(v, x, n + 1, m)
    <3>. SUFFICES ASSUME Arrives(w, x, n, m), n + 1 < m
                  PROVE  \E i \in 1..Len(v) : IsOutput(v[i], x) /\ v[i].chunk = m
      BY DEF Arrives
    <3>1. PICK i \in 1..Len(w) : IsOutput(w[i], x) /\ w[i].chunk = m
      BY DEF Arrives
    <3>2. i # 1
      BY <1>1, <2>1, <3>1
    <3>. QED
      BY <1>3, <3>1, <3>2
  <2>5. Stream(v, x, n + 1, m)
    <3>1. (n + 1) + 1 = n + 2
      OBVIOUS
    <3>. QED
      BY <2>2, <2>3, <3>1 DEF Stream
  <2>. QED
    BY <2>1, <2>4, <2>5
<1>. QED
  BY <1>5, <1>6, <1>7 DEF v, h

\* The orchestrator received no more of a command than the agent passed on of
\* what there was; what a connection owns was asked for when it was open.
Counted ==
  \A x \in Exec :
    /\ received[x] <= emitted[x] /\ emitted[x] <= printed[x]
    /\ via[x] \in Conn => serverEnd[via[x]] # "none"

InOrder ==
  \A x \in Exec, c \in Conn :
    /\ via[x] # c => Silent(wire[c], x)
    /\ Stream(wire[c], x, received[x], emitted[x])
    /\ via[x] = c /\ Open(c) /\ serverEnd[c] = "open" =>
         Arrives(wire[c], x, received[x], emitted[x])

\* A step that opens no end and sends, reads and starts nothing keeps the order.
LEMMA OrderKept ==
  ASSUME InOrder, UNCHANGED <<wire, emitted, received, via, serverEnd>>,
         \A c \in Conn : Open(c)' => Open(c)
  PROVE  InOrder'
BY DEF InOrder

\* A step that sends a frame that is no output keeps the order.
LEMMA OrderPasses ==
  ASSUME TypeOK, InOrder, UNCHANGED <<emitted, received, via, agentEnd, serverEnd>>,
         NEW d \in Conn, NEW f \in Frame, f.kind # "output", Send(d, <<f>>)
  PROVE  InOrder'
<1>1. CASE UNCHANGED wire
  BY <1>1, OrderKept DEF Open
<1>2. CASE wire' = [wire EXCEPT ![d] = wire[d] \o <<f>>]
  <2>. SUFFICES ASSUME NEW x \in Exec, NEW c \in Conn
                PROVE  /\ via[x] # c => Silent(wire'[c], x)
                       /\ Stream(wire'[c], x, received[x], emitted[x])
                       /\ via[x] = c /\ Open(c) /\ serverEnd[c] = "open" =>
                            Arrives(wire'[c], x, received[x], emitted[x])
    BY DEF InOrder, Open
  <2>1. /\ via[x] # c => Silent(wire[c], x)
        /\ Stream(wire[c], x, received[x], emitted[x])
        /\ via[x] = c /\ Open(c) /\ serverEnd[c] = "open" =>
             Arrives(wire[c], x, received[x], emitted[x])
    BY DEF InOrder
  <2>2. CASE c # d
    BY <1>2, <2>1, <2>2 DEF TypeOK
  <2>3. CASE c = d
    <3>1. wire'[c] = wire[c] \o <<f>>
      BY <1>2, <2>3 DEF TypeOK
    <3>2. wire[c] \in Seq(Frame) /\ received[x] \in Nat /\ emitted[x] \in Nat /\ ~IsOutput(f, x)
      BY ConstantsAssumption DEF TypeOK, IsOutput
    <3>. QED
      BY <2>1, <3>1, <3>2, StreamPasses
  <2>. QED
    BY <2>2, <2>3
<1>. QED
  BY <1>1, <1>2 DEF Send

\* A step that sends the next chunk of a command to its owner keeps the order,
\* also when the chunk is lost, or when an exit is sent along.
LEMMA OrderExtends ==
  ASSUME TypeOK, InOrder, UNCHANGED <<received, via, agentEnd, serverEnd>>,
         NEW y \in Exec, via[y] \in Conn, emitted[y] + 1 \in Nat,
         received[y] <= emitted[y],
         \A x \in Exec : emitted'[x] = IF x = y THEN emitted[x] + 1 ELSE emitted[x],
         NEW more \in {<<>>, <<Plain("exit", y)>>},
         Send(via[y], <<Output(y, emitted[y] + 1)>> \o more)
  PROVE  InOrder'
<1>. DEFINE d == via[y]
            f == Output(y, emitted[y] + 1)
            g == Plain("exit", y)
<1>0. /\ f \in Frame /\ g \in Frame
      /\ f.kind = "output" /\ f.exec = y /\ g.kind = "exit"
  BY FrameType DEF Output, Plain
<1>1. \A x \in Exec : emitted'[x] = IF x = y THEN emitted[x] + 1 ELSE emitted[x]
  OBVIOUS
<1>2. /\ \A c \in Conn : wire[c] \in Seq(Frame)
      /\ \A x \in Exec : received[x] \in Nat /\ emitted[x] \in Nat
  BY ConstantsAssumption DEF TypeOK
<1>3. CASE UNCHANGED wire /\ ~(Open(d) /\ serverEnd[d] = "open")
  <2>1. \A x \in Exec, c \in Conn : Stream(wire[c], x, received[x], emitted'[x])
    BY <1>1, <1>2, StreamLoses DEF InOrder
  <2>2. \A x \in Exec, c \in Conn : via[x] = c /\ Open(c) /\ serverEnd[c] = "open" => x # y
    BY <1>3
  <2>. QED
    BY <1>1, <1>3, <2>1, <2>2 DEF InOrder, Open
<1>4. CASE /\ wire' = [wire EXCEPT ![d] = wire[d] \o (<<f>> \o more)]
           /\ Open(d) /\ serverEnd[d] = "open"
  <2>1. \A c \in Conn : c # d => wire'[c] = wire[c]
    BY <1>4 DEF TypeOK
  <2>2. \/ wire'[d] = wire[d] \o <<f>>
        \/ wire'[d] = (wire[d] \o <<f>>) \o <<g>>
    <3>. HIDE DEF f, g
    <3>1. wire'[d] = wire[d] \o (<<f>> \o more) /\ wire[d] \in Seq(Frame)
      BY <1>4, SMTT(40) DEF TypeOK
    <3>2. CASE more = <<>>
      BY <1>0, <3>1, <3>2
    <3>3. CASE more = <<g>>
      BY <1>0, <3>1, <3>3, SMTT(40)
    <3>. QED
      BY <3>2, <3>3 DEF g
  <2>3. wire[d] \o <<f>> \in Seq(Frame)
    BY <1>0, <1>2
  <2>4. ASSUME NEW x \in Exec
        PROVE  /\ via[x] # d => Silent(wire'[d], x)
               /\ Stream(wire'[d], x, received[x], emitted'[x])
               /\ via[x] = d => Arrives(wire'[d], x, received[x], emitted'[x])
    <3>1. /\ via[x] # d => Silent(wire[d], x)
          /\ Stream(wire[d], x, received[x], emitted[x])
          /\ via[x] = d => Arrives(wire[d], x, received[x], emitted[x])
      BY <1>4 DEF InOrder
    <3>2. emitted'[x] \in Nat
      BY <1>1, <1>2
    <3>3. /\ via[x] # d => Silent(wire[d] \o <<f>>, x)
          /\ Stream(wire[d] \o <<f>>, x, received[x], emitted'[x])
          /\ via[x] = d => Arrives(wire[d] \o <<f>>, x, received[x], emitted'[x])
      <4>1. CASE x = y
        BY <1>1, <1>2, <3>1, <4>1, StreamExtends
      <4>2. CASE x # y
        <5>1. ~IsOutput(f, x) /\ emitted'[x] = emitted[x]
          BY <1>0, <1>1, <4>2 DEF IsOutput
        <5>. QED
          BY <1>0, <1>2, <3>1, <5>1, StreamPasses
      <4>. QED
        BY <4>1, <4>2
    <3>4. ~IsOutput(g, x)
      BY <1>0 DEF IsOutput
    <3>. QED
      BY <1>0, <1>2, <2>2, <2>3, <3>2, <3>3, <3>4, StreamPasses, ZenonT(60)
  <2>5. ASSUME NEW x \in Exec, NEW c \in Conn, c # d
        PROVE  /\ via[x] # c => Silent(wire'[c], x)
               /\ Stream(wire'[c], x, received[x], emitted'[x])
               /\ via[x] = c /\ Open(c) /\ serverEnd[c] = "open" =>
                    Arrives(wire'[c], x, received[x], emitted'[x])
    <3>1. CASE x = y
      BY <1>1, <1>2, <2>1, <2>5, <3>1, SilentStreams DEF InOrder
    <3>2. CASE x # y
      BY <1>1, <2>1, <2>5, <3>2 DEF InOrder
    <3>. QED
      BY <3>1, <3>2
  <2>. QED
    BY <2>4, <2>5 DEF InOrder, Open
<1>. QED
  BY <1>3, <1>4 DEF Send

\* A chunk that cannot be sent any more keeps the order.
LEMMA OrderLoses ==
  ASSUME TypeOK, InOrder, UNCHANGED <<wire, received, via, serverEnd>>,
         \A c \in Conn : agentEnd'[c] = "open" => agentEnd[c] = "open",
         \A x \in Exec :
           \/ emitted'[x] = emitted[x]
           \/ emitted'[x] = emitted[x] + 1 /\ ~(via[x] \in Conn /\ agentEnd'[via[x]] = "open")
  PROVE  InOrder'
<1>. SUFFICES ASSUME NEW x \in Exec, NEW c \in Conn
              PROVE  /\ via[x] # c => Silent(wire[c], x)
                     /\ Stream(wire[c], x, received[x], emitted'[x])
                     /\ via[x] = c /\ Open(c)' /\ serverEnd[c] = "open" =>
                          Arrives(wire[c], x, received[x], emitted'[x])
  BY DEF InOrder
<1>1. /\ via[x] # c => Silent(wire[c], x)
      /\ Stream(wire[c], x, received[x], emitted[x])
      /\ via[x] = c /\ Open(c) /\ serverEnd[c] = "open" =>
           Arrives(wire[c], x, received[x], emitted[x])
      /\ wire[c] \in Seq(Frame) /\ received[x] \in Nat /\ emitted[x] \in Nat
  BY DEF InOrder, TypeOK
<1>2. CASE emitted'[x] = emitted[x]
  BY <1>1, <1>2 DEF Open
<1>3. CASE emitted'[x] = emitted[x] + 1 /\ ~(via[x] \in Conn /\ agentEnd'[via[x]] = "open")
  <2>1. Stream(wire[c], x, received[x], emitted'[x])
    BY <1>1, <1>3, StreamLoses
  <2>. QED
    BY <1>1, <1>3, <2>1 DEF Open
<1>. QED
  BY <1>2, <1>3

\* What a read takes off a wire: the next chunk of a command, or no output.
LEMMA ReadsNext ==
  ASSUME TypeOK, InOrder, NEW c \in Conn, ReadFrame(c)
  PROVE  LET f == Head(wire[c]) IN
         /\ f \in Frame
         /\ f.kind = "output" =>
              /\ via[f.exec] = c
              /\ f.chunk = received[f.exec] + 1
              /\ received[f.exec] + 1 <= emitted[f.exec]
              /\ received' = [received EXCEPT ![f.exec] = f.chunk]
         /\ f.kind # "output" => UNCHANGED received
         /\ wire' = [wire EXCEPT ![c] = Tail(wire[c])]
         /\ UNCHANGED <<emitted, via, agentEnd, serverEnd>>
<1>. DEFINE f == Head(wire[c])
<1>1. wire[c] \in Seq(Frame) /\ wire[c] # <<>>
  BY DEF ReadFrame, TypeOK
<1>2. f \in Frame /\ f.exec \in Exec
  <2>1. f \in Frame
    BY <1>1, HeadTailProperties
  <2>. QED
    BY <2>1 DEF Frame
<1>3. received[f.exec] \in Nat /\ emitted[f.exec] \in Nat
  BY <1>2, ConstantsAssumption DEF TypeOK
<1>4. f.kind = "output" => HandleExecFrame(f.exec, f)
  BY DEF ReadFrame
<1>5. f.kind # "output" => UNCHANGED received
  BY <1>2 DEF ReadFrame, HandleExecFrame, trackVars, TypeOK
<1>6. /\ wire' = [wire EXCEPT ![c] = Tail(wire[c])]
      /\ UNCHANGED <<emitted, via, agentEnd, serverEnd>>
  BY DEF ReadFrame, agentVars
<1>7. ASSUME f.kind = "output"
      PROVE  /\ via[f.exec] = c
             /\ f.chunk = received[f.exec] + 1
             /\ received[f.exec] + 1 <= emitted[f.exec]
             /\ received' = [received EXCEPT ![f.exec] = f.chunk]
  <2>1. IsOutput(f, f.exec)
    BY <1>7 DEF IsOutput
  <2>2. /\ via[f.exec] # c => Silent(wire[c], f.exec)
        /\ Stream(wire[c], f.exec, received[f.exec], emitted[f.exec])
    BY <1>2 DEF InOrder
  <2>3. via[f.exec] = c
    BY <1>1, <1>2, <1>3, <2>1, <2>2, StreamReads
  <2>4. f.chunk = received[f.exec] + 1 /\ received[f.exec] + 1 <= emitted[f.exec]
    BY <1>1, <1>2, <1>3, <2>1, <2>2, StreamReads, SMTT(40)
  <2>5. received' = [received EXCEPT ![f.exec] = received[f.exec] + 1]
    BY <1>4, <1>7 DEF HandleExecFrame
  <2>. QED
    BY <2>3, <2>4, <2>5
<1>. QED
  BY <1>2, <1>5, <1>6, <1>7

\* A read keeps the order.
LEMMA OrderReads ==
  ASSUME TypeOK, InOrder, NEW c \in Conn, ReadFrame(c)
  PROVE  InOrder'
<1>. DEFINE f == Head(wire[c])
<1>1. /\ f \in Frame /\ f.exec \in Exec
      /\ f.kind = "output" =>
           /\ via[f.exec] = c
           /\ received' = [received EXCEPT ![f.exec] = received[f.exec] + 1]
      /\ f.kind # "output" => UNCHANGED received
      /\ wire' = [wire EXCEPT ![c] = Tail(wire[c])]
      /\ UNCHANGED <<emitted, via, agentEnd, serverEnd>>
  <2>1. f \in Frame => f.exec \in Exec
    BY DEF Frame
  <2>. QED
    BY <2>1, ReadsNext
<1>2. wire[c] \in Seq(Frame) /\ wire[c] # <<>>
  BY DEF ReadFrame, TypeOK
<1>3. \A x \in Exec : received[x] \in Nat /\ emitted[x] \in Nat
  BY ConstantsAssumption DEF TypeOK
<1>4. /\ wire'[c] = Tail(wire[c])
      /\ \A d \in Conn : d # c => wire'[d] = wire[d]
  BY <1>1 DEF TypeOK
<1>. HIDE DEF f
<1>5. \A x \in Exec :
        received'[x] = IF IsOutput(f, x) THEN received[x] + 1 ELSE received[x]
  BY <1>1, SMTT(40) DEF IsOutput, TypeOK
<1>. SUFFICES ASSUME NEW x \in Exec, NEW d \in Conn
              PROVE  /\ via[x] # d => Silent(wire'[d], x)
                     /\ Stream(wire'[d], x, received'[x], emitted[x])
                     /\ via[x] = d /\ Open(d) /\ serverEnd[d] = "open" =>
                          Arrives(wire'[d], x, received'[x], emitted[x])
  BY <1>1 DEF InOrder, Open
<1>6. /\ via[x] # d => Silent(wire[d], x)
      /\ Stream(wire[d], x, received[x], emitted[x])
      /\ via[x] = d /\ Open(d) /\ serverEnd[d] = "open" =>
           Arrives(wire[d], x, received[x], emitted[x])
  BY DEF InOrder
<1>7. CASE d = c /\ IsOutput(f, x)
  <2>1. received'[x] = received[x] + 1 /\ via[x] = c
    BY <1>1, <1>5, <1>7 DEF IsOutput
  <2>. QED
    BY <1>2, <1>3, <1>4, <1>6, <1>7, <2>1, StreamReads DEF f
<1>8. CASE d = c /\ ~IsOutput(f, x)
  <2>1. received'[x] = received[x]
    BY <1>5, <1>8
  <2>. QED
    BY <1>2, <1>3, <1>4, <1>6, <1>8, <2>1, StreamReads DEF f
<1>9. CASE d # c /\ IsOutput(f, x)
  <2>1. via[x] # d
    BY <1>1, <1>9 DEF IsOutput
  <2>. QED
    BY <1>4, <1>6, <1>9, <2>1, SilentStreams
<1>10. CASE d # c /\ ~IsOutput(f, x)
  BY <1>4, <1>5, <1>6, <1>10
<1>. QED
  BY <1>7, <1>8, <1>9, <1>10

\* Every step keeps the counts in their order.
LEMMA CountedNext == TypeInv /\ Counted /\ InOrder /\ [Next]_vars => Counted'
<1>. SUFFICES ASSUME TypeInv, Counted, InOrder, [Next]_vars
              PROVE  Counted'
  OBVIOUS
<1>. USE DEF agentVars, connVars, trackVars
<1>a. TypeOK /\ OwnerKnown
  BY DEF TypeInv
<1>b. /\ \A x \in Exec : received[x] \in Nat /\ emitted[x] \in Nat /\ printed[x] \in Nat
      /\ DOMAIN received = Exec /\ DOMAIN emitted = Exec /\ DOMAIN printed = Exec
      /\ DOMAIN phase = Exec /\ DOMAIN process = Exec /\ DOMAIN via = Exec
      /\ DOMAIN serverEnd = Conn
  BY <1>a, ConstantsAssumption DEF TypeOK
<1>1. ASSUME UNCHANGED <<printed, emitted, via, serverEnd, received>>
      PROVE  Counted'
  BY <1>1 DEF Counted
<1>2. ASSUME NEW xs, ErrorEvent(xs), UNCHANGED <<via, serverEnd, received>>
      PROVE  Counted'
  BY <1>2, <1>b DEF ErrorEvent, Counted
<1>3. ASSUME NEW x \in Exec, StartFails(x) \/ Launch(x) \/ Finish(x)
      PROVE  Counted'
  BY <1>1, <1>3 DEF StartFails, Launch, Finish
<1>4. ASSUME NEW c \in Conn, NEW x \in Exec, ReceiveStart(c, x) \/ ReceiveAbort(c, x)
      PROVE  Counted'
  BY <1>1, <1>2, <1>4 DEF ReceiveStart, ReceiveAbort, KillTree
<1>5. ASSUME NEW x \in Exec, WriteOutput(x) \/ EmitChunk(x)
      PROVE  Counted'
  BY <1>5, <1>b DEF WriteOutput, EmitChunk, Counted
<1>6. ASSUME NEW x \in Exec, FinishFailed(x) \/ EscalateRefused(x) \/ ExecTimeout(x)
      PROVE  Counted'
  BY <1>2, <1>6 DEF FinishFailed, EscalateRefused, ExecTimeout, KillTree
<1>7. ASSUME NEW x \in Exec,
             \/ ProcessExits(x) \/ Escalate(x) \/ TurnForeign(x) \/ EscalateThrows(x)
             \/ AgentDies(x)
      PROVE  Counted'
  BY <1>1, <1>7 DEF ProcessExits, Escalate, TurnForeign, EscalateThrows, AgentDies
<1>8. ASSUME NEW c \in Conn, AgentClose(c)
      PROVE  Counted'
  BY <1>2, <1>8 DEF AgentClose, KillTree
<1>9. ASSUME NEW c \in Conn, ServerClose(c) \/ Connect(c)
      PROVE  Counted'
  BY <1>9, <1>b DEF ServerClose, Connect, Counted
<1>10. ASSUME NEW c \in Conn, ReadFrame(c)
       PROVE  Counted'
  <2>. DEFINE f == Head(wire[c])
  <2>1. /\ f.exec \in Exec
        /\ f.kind = "output" =>
             /\ received[f.exec] + 1 <= emitted[f.exec]
             /\ received' = [received EXCEPT ![f.exec] = received[f.exec] + 1]
        /\ f.kind # "output" => UNCHANGED received
    <3>1. f \in Frame => f.exec \in Exec
      BY DEF Frame
    <3>. QED
      BY <1>10, <1>a, <3>1, ReadsNext
  <2>2. UNCHANGED <<phase, process, printed, emitted, serverEnd, via>>
    BY <1>10 DEF ReadFrame
  <2>. HIDE DEF f
  <2>3. \A x \in Exec : received'[x] = received[x]
                        \/ (received'[x] = received[x] + 1 /\ received[x] + 1 <= emitted[x])
    BY <1>b, <2>1
  <2>. QED
    BY <1>b, <2>2, <2>3 DEF Counted
<1>11. ASSUME NEW x \in Exec, StartExec(x)
       PROVE  Counted'
  BY <1>11, <1>b DEF StartExec, LiveClient, Counted
<1>12. ASSUME NEW x \in Exec,
              CallTimeout(x) \/ TrackExec(x) \/ WaitExec(x) \/ WaitEnds(x) \/ AbortExec(x)
       PROVE  Counted'
  BY <1>1, <1>12 DEF CallTimeout, TrackExec, WaitExec, WaitEnds, AbortExec
<1>13. CASE UNCHANGED vars
  BY <1>1, <1>13 DEF vars
<1>. QED
  BY <1>2, <1>3, <1>4, <1>5, <1>6, <1>7, <1>8, <1>9, <1>10, <1>11, <1>12, <1>13 DEF Next

\* Two frames sent together are one and then the other.
LEMMA TwoFrames ==
  ASSUME NEW a \in Frame, NEW b \in Frame
  PROVE  <<a>> \o <<b>> = <<a, b>>
<1>1. <<a>> \in Seq(Frame) /\ <<b>> \in Seq(Frame) /\ <<a, b>> \in Seq(Frame)
  OBVIOUS
<1>2. Len(<<a>> \o <<b>>) = 2 /\ (<<a>> \o <<b>>)[1] = a /\ (<<a>> \o <<b>>)[2] = b
  BY <1>1
<1>3. <<a>> \o <<b>> \in Seq(Frame)
  BY <1>1
<1>4. \A i \in 1..2 : (<<a>> \o <<b>>)[i] = <<a, b>>[i]
  BY <1>2
<1>. QED
  BY <1>1, <1>2, <1>3, <1>4, SeqEqual

\* Every step keeps the order of what is on the wires.
LEMMA OrderNext == TypeInv /\ Counted /\ InOrder /\ [Next]_vars => InOrder'
<1>. SUFFICES ASSUME TypeInv, Counted, InOrder, [Next]_vars
              PROVE  InOrder'
  OBVIOUS
<1>. USE DEF agentVars, connVars, trackVars
<1>a. TypeOK /\ OwnerKnown
  BY DEF TypeInv
<1>b. \A x \in Exec : /\ received[x] \in Nat /\ emitted[x] \in Nat /\ printed[x] \in Nat
                      /\ emitted[x] \in Nat
                      /\ received[x] <= emitted[x] /\ emitted[x] <= printed[x]
  BY <1>a, ConstantsAssumption DEF TypeOK, Counted
<1>1. ASSUME NEW x \in Exec, NEW k \in {"started", "error", "exit"}, Send(via[x], <<Plain(k, x)>>),
             via[x] \in Conn,
             UNCHANGED <<emitted, received, via, agentEnd, serverEnd>>
      PROVE  InOrder'
  <2>1. Plain(k, x) \in Frame /\ Plain(k, x).kind # "output"
    BY FrameType DEF Plain
  <2>. QED
    BY <1>a, <1>1, <2>1, OrderPasses
<1>2. ASSUME NEW c \in Conn, NEW x \in Exec, ReceiveStart(c, x)
      PROVE  InOrder'
  <2>1. via[x] = c
    BY <1>2, <1>a DEF ReceiveStart, OwnerKnown
  <2>. QED
    BY <1>1, <1>2, <2>1, OrderKept DEF ReceiveStart, Open
<1>3. ASSUME NEW x \in Exec, StartFails(x) \/ Launch(x) \/ Finish(x)
      PROVE  InOrder'
  <2>1. via[x] \in Conn
    BY <1>3, <1>a DEF StartFails, Launch, Finish, OwnerKnown
  <2>. QED
    BY <1>1, <1>3, <2>1 DEF StartFails, Launch, Finish
<1>4. ASSUME NEW x \in Exec, EmitChunk(x)
      PROVE  InOrder'
  <2>1. printed[x] > 0 /\ emitted[x] + 1 \in Nat
    BY <1>4, <1>a, <1>b, ConstantsAssumption DEF EmitChunk, TypeOK
  <2>2. via[x] \in Conn
    BY <1>a, <2>1 DEF OwnerKnown
  <2>3. <<Output(x, emitted[x] + 1)>> \o <<>> = <<Output(x, emitted[x] + 1)>>
    OBVIOUS
  <2>4. Send(via[x], <<Output(x, emitted[x] + 1)>> \o <<>>)
    BY <1>4, <2>3 DEF EmitChunk
  <2>5. /\ \A y \in Exec : emitted'[y] = IF y = x THEN emitted[y] + 1 ELSE emitted[y]
        /\ UNCHANGED <<received, via, agentEnd, serverEnd>>
    BY <1>4, <1>a DEF EmitChunk, TypeOK
  <2>. QED
    BY <1>a, <1>b, <2>1, <2>2, <2>4, <2>5, OrderExtends
<1>5. ASSUME NEW x \in Exec, phase[x] = "active", ErrorEvent({x}), Send(via[x], LastWords(x)),
             UNCHANGED <<received, via, agentEnd, serverEnd>>
      PROVE  InOrder'
  <2>1. via[x] \in Conn
    BY <1>5, <1>a DEF OwnerKnown
  <2>2. emitted[x] + 1 \in Nat
    BY <1>b
  <2>3. Send(via[x], <<Output(x, emitted[x] + 1)>> \o <<Plain("exit", x)>>)
    <3>1. Output(x, emitted[x] + 1) \in Frame /\ Plain("exit", x) \in Frame
      BY <2>2, FrameType
    <3>2. <<Output(x, emitted[x] + 1)>> \o <<Plain("exit", x)>> = LastWords(x)
      BY <3>1, TwoFrames, Zenon DEF LastWords
    <3>. QED
      BY <1>5, <3>2, Zenon
  <2>4. \A y \in Exec : emitted'[y] = IF y = x THEN emitted[y] + 1 ELSE emitted[y]
    BY <1>5 DEF ErrorEvent
  <2>. QED
    BY <1>a, <1>b, <1>5, <2>1, <2>2, <2>3, <2>4, OrderExtends
<1>51. ASSUME NEW x \in Exec, FinishFailed(x) \/ EscalateRefused(x)
       PROVE  InOrder'
  BY <1>5, <1>51 DEF FinishFailed, EscalateRefused, Refusing, Active
<1>52. ASSUME NEW x \in Exec, ExecTimeout(x) \/ \E c \in Conn : ReceiveAbort(c, x)
       PROVE  InOrder'
  <2>1. /\ ErrorEvent({x} \cap Refusing) /\ TellRefused(x)
        /\ UNCHANGED <<received, via, agentEnd, serverEnd>>
    <3>1. {x} \cap Active \cap Refusing = {x} \cap Refusing
      BY DEF Refusing, Active
    <3>. QED
      BY <1>52, <3>1 DEF ExecTimeout, ReceiveAbort, KillTree
  <2>2. CASE x \in Refusing
    <3>1. {x} \cap Refusing = {x} /\ phase[x] = "active"
      BY <2>2 DEF Refusing, Active
    <3>. QED
      BY <1>5, <2>1, <2>2, <3>1 DEF TellRefused
  <2>3. CASE x \notin Refusing
    <3>1. \A y \in Exec : emitted'[y] = emitted[y]
      BY <2>1, <2>3 DEF ErrorEvent
    <3>. QED
      BY <1>a, <2>1, <2>3, <3>1, OrderLoses DEF TellRefused
  <2>. QED
    BY <2>2, <2>3
<1>6. ASSUME NEW x \in Exec,
             \/ WriteOutput(x) \/ TurnForeign(x) \/ ProcessExits(x) \/ Escalate(x)
             \/ EscalateThrows(x)
             \/ CallTimeout(x) \/ TrackExec(x) \/ WaitExec(x) \/ WaitEnds(x) \/ AbortExec(x)
      PROVE  InOrder'
  BY <1>6, OrderKept
  DEF WriteOutput, TurnForeign, ProcessExits, Escalate, EscalateThrows, CallTimeout, TrackExec,
      WaitExec, WaitEnds, AbortExec, Open
<1>61. ASSUME NEW x \in Exec, AgentDies(x)
       PROVE  InOrder'
  <2>1. \A d \in Conn : Open(d)' => Open(d)
    BY <1>61 DEF AgentDies, Open
  <2>. QED
    BY <1>61, <2>1, OrderKept DEF AgentDies
<1>7. ASSUME NEW c \in Conn, AgentClose(c)
      PROVE  InOrder'
  <2>. DEFINE owned == {x \in Active : via[x] = c}
  <2>1. /\ ErrorEvent(owned \cap Refusing) /\ agentEnd' = [agentEnd EXCEPT ![c] = "closed"]
        /\ UNCHANGED <<wire, received, via, serverEnd>>
    BY <1>7 DEF AgentClose, KillTree
  <2>2. /\ agentEnd'[c] # "open"
        /\ \A d \in Conn : agentEnd'[d] = "open" => agentEnd[d] = "open"
    BY <1>a, <2>1 DEF TypeOK
  <2>3. \A x \in Exec : \/ emitted'[x] = emitted[x]
                        \/ emitted'[x] = emitted[x] + 1 /\ via[x] = c
    BY <2>1 DEF ErrorEvent
  <2>. HIDE DEF owned
  <2>4. \A x \in Exec : \/ emitted'[x] = emitted[x]
                        \/ /\ emitted'[x] = emitted[x] + 1
                           /\ ~(via[x] \in Conn /\ agentEnd'[via[x]] = "open")
    BY <2>2, <2>3
  <2>. QED
    BY <1>a, <2>1, <2>2, <2>4, OrderLoses
<1>8. ASSUME NEW c \in Conn, ServerClose(c)
      PROVE  InOrder'
  <2>1. /\ wire'[c] = <<>> /\ serverEnd'[c] = "closed"
        /\ \A d \in Conn : d # c => wire'[d] = wire[d] /\ serverEnd'[d] = serverEnd[d]
        /\ UNCHANGED <<emitted, received, via, agentEnd>>
    BY <1>8, <1>a DEF ServerClose, TypeOK
  <2>2. \A x \in Exec : Silent(wire'[c], x)
    BY <2>1 DEF Silent
  <2>3. \A x \in Exec : Stream(wire'[c], x, received[x], emitted[x])
    BY <2>2, SilentStreams
  <2>. QED
    BY <2>1, <2>2, <2>3 DEF InOrder, Open
<1>9. ASSUME NEW c \in Conn, Connect(c)
      PROVE  InOrder'
  <2>1. \A x \in Exec : via[x] # c
    BY <1>9 DEF Connect, Counted
  <2>2. \A d \in Conn : d # c => agentEnd'[d] = agentEnd[d] /\ serverEnd'[d] = serverEnd[d]
    BY <1>9, <1>a DEF Connect, TypeOK
  <2>. QED
    BY <1>9, <2>1, <2>2 DEF Connect, InOrder, Open
<1>10. ASSUME NEW c \in Conn, ReadFrame(c)
       PROVE  InOrder'
  BY <1>10, <1>a, OrderReads
<1>11. ASSUME NEW y \in Exec, StartExec(y)
       PROVE  InOrder'
  <2>1. phase[y] = "none" /\ printed[y] = 0
    BY <1>11, <1>a, <1>b DEF StartExec, OwnerKnown
  <2>2. received[y] = 0 /\ emitted[y] = 0
    BY <1>b, <2>1
  <2>3. /\ \A x \in Exec : x # y => via'[x] = via[x]
        /\ UNCHANGED <<wire, emitted, received, agentEnd, serverEnd>>
    BY <1>11, <1>a DEF StartExec, TypeOK
  <2>4. \A c \in Conn : Silent(wire[c], y)
    <3>. SUFFICES ASSUME NEW c \in Conn, NEW i \in 1..Len(wire[c]), IsOutput(wire[c][i], y)
                  PROVE  FALSE
      BY DEF Silent
    <3>1. 0 < wire[c][i].chunk /\ wire[c][i].chunk <= 0
      BY <2>2 DEF InOrder, Stream
    <3>2. wire[c][i].chunk \in Int
      <4>1. wire[c][i] \in Frame
        BY <1>a, ElementOfSeq DEF TypeOK
      <4>. QED
        BY <4>1 DEF Frame
    <3>. QED
      BY <3>1, <3>2
  <2>5. \A c \in Conn : /\ Stream(wire[c], y, received[y], emitted[y])
                        /\ Arrives(wire[c], y, received[y], emitted[y])
    BY <2>2, <2>4, SilentStreams DEF Arrives
  <2>6. ASSUME NEW x \in Exec, NEW c \in Conn
        PROVE  /\ via'[x] # c => Silent(wire'[c], x)
               /\ Stream(wire'[c], x, received'[x], emitted'[x])
               /\ via'[x] = c /\ Open(c)' /\ serverEnd'[c] = "open" =>
                    Arrives(wire'[c], x, received'[x], emitted'[x])
    <3>1. CASE x = y
      BY <2>3, <2>4, <2>5, <3>1
    <3>2. CASE x # y
      BY <2>3, <3>2 DEF InOrder, Open
    <3>. QED
      BY <3>1, <3>2
  <2>. QED
    BY <2>6 DEF InOrder
<1>12. CASE UNCHANGED vars
  BY <1>12, OrderKept DEF vars, Open
<1>. QED
  BY <1>2, <1>3, <1>4, <1>51, <1>52, <1>6, <1>61, <1>7, <1>8, <1>9, <1>10, <1>11, <1>12 DEF Next

FirstChunks(n) == [i \in 1..n |-> i]

\* What was received and not applied yet is everything received; what is shown
\* is the end of it.
ShownInv ==
  \A x \in Exec :
    IF call[x] = "tracked"
    THEN shown[x] = LastChunks(received[x]) /\ (truncated[x] <=> received[x] > Retain)
    ELSE buffered[x].chunks = FirstChunks(received[x]) /\ shown[x] = <<>> /\ ~truncated[x]

\* The first chunks and the last chunks are sequences, of these lengths.
LEMMA ChunkSeqs ==
  ASSUME NEW n \in Nat
  PROVE  /\ FirstChunks(n) \in Seq(Nat) /\ Len(FirstChunks(n)) = n
         /\ LastChunks(n) \in Seq(Nat)
         /\ Len(LastChunks(n)) = IF n > Retain THEN Retain ELSE n
         /\ \A i \in 1..Len(FirstChunks(n)) : FirstChunks(n)[i] = i
         /\ \A i \in 1..Len(LastChunks(n)) : LastChunks(n)[i] = n - Len(LastChunks(n)) + i
<1>1. FirstChunks(n) \in Seq(Nat) /\ Len(FirstChunks(n)) = n
  BY DEF FirstChunks
<1>2. ASSUME NEW k \in Nat, k <= n
      PROVE  /\ [i \in 1..k |-> n - k + i] \in Seq(Nat)
             /\ Len([i \in 1..k |-> n - k + i]) = k
  <2>1. \A i \in 1..k : n - k + i \in Nat
    BY <1>2
  <2>. QED
    BY <2>1
<1>3. CASE n > Retain
  <2>1. LastChunks(n) = [i \in 1..Retain |-> n - Retain + i]
    BY <1>3 DEF LastChunks
  <2>2. Retain \in Nat /\ Retain <= n
    BY <1>3, ConstantsAssumption
  <2>. QED
    BY <1>1, <1>2, <1>3, <2>1, <2>2 DEF FirstChunks
<1>4. CASE ~(n > Retain)
  <2>1. LastChunks(n) = [i \in 1..n |-> n - n + i]
    BY <1>4 DEF LastChunks
  <2>. QED
    BY <1>1, <1>2, <1>4, <2>1 DEF FirstChunks
<1>. QED
  BY <1>3, <1>4

\* One chunk more.
LEMMA FirstChunksGrow ==
  ASSUME NEW n \in Nat
  PROVE  FirstChunks(n) \o <<n + 1>> = FirstChunks(n + 1)
<1>. DEFINE u == FirstChunks(n)
            v == FirstChunks(n + 1)
<1>1. /\ u \in Seq(Nat) /\ Len(u) = n /\ \A i \in 1..Len(u) : u[i] = i
      /\ v \in Seq(Nat) /\ Len(v) = n + 1 /\ \A i \in 1..Len(v) : v[i] = i
  <2>1. n + 1 \in Nat
    OBVIOUS
  <2>. QED
    BY <2>1, ChunkSeqs
<1>. HIDE DEF u, v
<1>2. /\ u \o <<n + 1>> \in Seq(Nat) /\ Len(u \o <<n + 1>>) = n + 1
      /\ \A i \in 1..(n + 1) : (u \o <<n + 1>>)[i] = IF i <= n THEN u[i] ELSE n + 1
  BY <1>1
<1>3. \A i \in 1..(n + 1) : (u \o <<n + 1>>)[i] = v[i]
  BY <1>1, <1>2
<1>4. u \o <<n + 1>> = v
  BY <1>1, <1>2, <1>3, SeqEqual
<1>. QED
  BY <1>4 DEF u, v

\* The last elements of a sequence.
LEMMA EndOfSeq ==
  ASSUME NEW s \in Seq(Nat), NEW k \in Nat \ {0}, k < Len(s)
  PROVE  /\ SubSeq(s, Len(s) - k + 1, Len(s)) \in Seq(Nat)
         /\ Len(SubSeq(s, Len(s) - k + 1, Len(s))) = k
         /\ \A i \in 1..k : SubSeq(s, Len(s) - k + 1, Len(s))[i] = s[Len(s) - k + i]
OBVIOUS

\* Retaining keeps the last elements.
LEMMA RetainedIs ==
  ASSUME NEW s \in Seq(Nat), NEW k \in Nat, k = IF Len(s) > Retain THEN Retain ELSE Len(s)
  PROVE  /\ RetainedTail(s) \in Seq(Nat) /\ Len(RetainedTail(s)) = k
         /\ \A i \in 1..k : RetainedTail(s)[i] = s[Len(s) - k + i]
<1>1. CASE Len(s) > Retain
  <2>1. k = Retain /\ k \in Nat \ {0} /\ k < Len(s)
    BY <1>1, ConstantsAssumption
  <2>2. RetainedTail(s) = SubSeq(s, Len(s) - k + 1, Len(s))
    BY <1>1, <2>1 DEF RetainedTail
  <2>. QED
    BY <2>1, <2>2, EndOfSeq, ZenonT(60)
<1>2. CASE ~(Len(s) > Retain)
  BY <1>2 DEF RetainedTail
<1>. QED
  BY <1>1, <1>2

\* The end of the first chunks is the last chunks.
LEMMA RetainedFirst ==
  ASSUME NEW n \in Nat
  PROVE  RetainedTail(FirstChunks(n)) = LastChunks(n)
<1>. DEFINE u == FirstChunks(n)
            v == LastChunks(n)
            k == Len(v)
<1>1. /\ u \in Seq(Nat) /\ Len(u) = n /\ \A i \in 1..Len(u) : u[i] = i
      /\ v \in Seq(Nat) /\ k \in Nat
      /\ k = IF n > Retain THEN Retain ELSE n
      /\ \A i \in 1..k : v[i] = n - k + i
  <2>1. /\ u \in Seq(Nat) /\ Len(u) = n /\ \A i \in 1..Len(u) : u[i] = i
    BY ChunkSeqs
  <2>2. /\ v \in Seq(Nat) /\ k = (IF n > Retain THEN Retain ELSE n)
        /\ \A i \in 1..k : v[i] = n - k + i
    BY ChunkSeqs
  <2>. QED
    BY <2>1, <2>2, ConstantsAssumption
<1>. HIDE DEF u, v
<1>2. /\ RetainedTail(u) \in Seq(Nat) /\ Len(RetainedTail(u)) = k
      /\ \A i \in 1..k : RetainedTail(u)[i] = u[n - k + i]
  BY <1>1, RetainedIs
<1>3. \A i \in 1..k : n - k + i \in 1..n
  BY <1>1, ConstantsAssumption
<1>4. \A i \in 1..k : RetainedTail(u)[i] = v[i]
  BY <1>1, <1>2, <1>3
<1>5. RetainedTail(u) = v
  BY <1>1, <1>2, <1>4, SeqEqual
<1>. QED
  BY <1>5 DEF u, v

\* The end of the last chunks and one more is again the last chunks.
LEMMA RetainedMoves ==
  ASSUME NEW n \in Nat
  PROVE  /\ RetainedTail(LastChunks(n) \o <<n + 1>>) = LastChunks(n + 1)
         /\ n > Retain \/ Len(LastChunks(n) \o <<n + 1>>) > Retain <=> n + 1 > Retain
<1>. DEFINE u == LastChunks(n)
            k == Len(u)
            v == LastChunks(n + 1)
            l == Len(v)
            s == u \o <<n + 1>>
<1>1. /\ u \in Seq(Nat) /\ k \in Nat /\ k = (IF n > Retain THEN Retain ELSE n)
      /\ \A i \in 1..k : u[i] = n - k + i
      /\ v \in Seq(Nat) /\ l \in Nat /\ l = (IF n + 1 > Retain THEN Retain ELSE n + 1)
      /\ \A i \in 1..l : v[i] = n + 1 - l + i
  <2>1. /\ u \in Seq(Nat) /\ k = (IF n > Retain THEN Retain ELSE n)
        /\ \A i \in 1..k : u[i] = n - k + i
    BY ChunkSeqs
  <2>2. PICK m \in Nat : m = n + 1
    OBVIOUS
  <2>3. /\ v = LastChunks(m)
        /\ v \in Seq(Nat) /\ l = (IF m > Retain THEN Retain ELSE m)
        /\ \A i \in 1..l : v[i] = m - l + i
    BY <2>2, ChunkSeqs
  <2>. QED
    BY <2>1, <2>2, <2>3, ConstantsAssumption
<1>. HIDE DEF u, v
<1>2. /\ s \in Seq(Nat) /\ Len(s) = k + 1
      /\ \A i \in 1..(k + 1) : s[i] = IF i <= k THEN u[i] ELSE n + 1
  BY <1>1
<1>. HIDE DEF s, k, l
<1>3. ASSUME NEW i \in 1..(k + 1)
      PROVE  s[i] = n - k + i
  <2>1. CASE i <= k
    <3>1. i \in 1..k
      BY <1>1, <2>1
    <3>. QED
      BY <1>1, <1>2, <2>1, <3>1
  <2>2. CASE ~(i <= k)
    <3>1. i = k + 1 /\ n - k + i = n + 1
      BY <1>1, <2>2
    <3>. QED
      BY <1>2, <2>2, <3>1
  <2>. QED
    BY <2>1, <2>2
<1>4. l = IF Len(s) > Retain THEN Retain ELSE Len(s)
  BY <1>1, <1>2, ConstantsAssumption
<1>5. /\ RetainedTail(s) \in Seq(Nat) /\ Len(RetainedTail(s)) = l
      /\ \A i \in 1..l : RetainedTail(s)[i] = s[k + 1 - l + i]
  <2>1. /\ RetainedTail(s) \in Seq(Nat) /\ Len(RetainedTail(s)) = l
        /\ \A i \in 1..l : RetainedTail(s)[i] = s[Len(s) - l + i]
    BY <1>1, <1>2, <1>4, RetainedIs
  <2>2. Len(s) = k + 1
    BY <1>2
  <2>3. ASSUME NEW i \in 1..l
        PROVE  RetainedTail(s)[i] = s[k + 1 - l + i]
    <3>1. Len(s) - l + i = k + 1 - l + i
      BY <1>1, <2>2
    <3>2. RetainedTail(s)[i] = s[Len(s) - l + i]
      BY <2>1
    <3>. QED
      BY <3>1, <3>2
  <2>. QED
    BY <2>1, <2>3, Zenon
<1>6. l <= k + 1
  BY <1>1, ConstantsAssumption
<1>7. \A i \in 1..l : k + 1 - l + i \in 1..(k + 1)
  BY <1>1, <1>6
<1>8. \A i \in 1..l : RetainedTail(s)[i] = v[i]
  <2>. TAKE i \in 1..l
  <2>1. s[k + 1 - l + i] = n - k + (k + 1 - l + i)
    BY <1>3, <1>7
  <2>2. n - k + (k + 1 - l + i) = n + 1 - l + i
    BY <1>1
  <2>. QED
    BY <1>1, <1>5, <2>1, <2>2
<1>9. RetainedTail(s) = v
  BY <1>1, <1>5, <1>8, SeqEqual DEF l
<1>10. n > Retain \/ Len(s) > Retain <=> n + 1 > Retain
  BY <1>1, <1>2, ConstantsAssumption
<1>. QED
  BY <1>9, <1>10 DEF s, u, v

\* Applying nothing leaves the last chunks.
LEMMA RetainedStays ==
  ASSUME NEW n \in Nat
  PROVE  /\ RetainedTail(LastChunks(n) \o <<>>) = LastChunks(n)
         /\ ~(Len(LastChunks(n) \o <<>>) > Retain)
<1>1. LastChunks(n) \in Seq(Nat) /\ ~(Len(LastChunks(n)) > Retain)
  BY ChunkSeqs, ConstantsAssumption
<1>2. LastChunks(n) \o <<>> = LastChunks(n)
  BY <1>1
<1>. QED
  BY <1>1, <1>2 DEF RetainedTail

\* The next chunk, an exit and the start of the tracking leave what is shown
\* the end of what was received.
LEMMA ShownNext == TypeInv /\ InOrder /\ ShownInv /\ [Next]_vars => ShownInv'
<1>. SUFFICES ASSUME TypeInv, InOrder, ShownInv, [Next]_vars
              PROVE  ShownInv'
  OBVIOUS
<1>. USE DEF agentVars, connVars, trackVars
<1>a. TypeOK /\ \A x \in Exec : received[x] \in Nat
  BY DEF TypeInv, TypeOK
<1>1. ASSUME UNCHANGED <<buffered, shown, truncated, received>>,
             \A x \in Exec : call'[x] = "tracked" <=> call[x] = "tracked"
      PROVE  ShownInv'
  BY <1>1 DEF ShownInv
<1>2. ASSUME NEW c \in Conn, ReadFrame(c)
      PROVE  ShownInv'
  <2>. DEFINE f == Head(wire[c])
              x == f.exec
              n == received[x]
              more == IF f.kind = "output" THEN <<f.chunk>> ELSE <<>>
              frame == [chunks |-> more, exited |-> f.kind = "exit"]
  <2>1. /\ f \in Frame
        /\ f.kind = "output" =>
             f.chunk = received[f.exec] + 1 /\ received' = [received EXCEPT ![f.exec] = f.chunk]
        /\ f.kind # "output" => UNCHANGED received
    BY <1>2, <1>a, ReadsNext
  <2>2. x \in Exec
    BY <2>1 DEF Frame
  <2>3. CASE f.kind \in {"started", "error"}
    <3>1. UNCHANGED <<buffered, shown, truncated, received>>
      BY <1>2, <2>3 DEF ReadFrame
    <3>2. \A y \in Exec : call'[y] = "tracked" <=> call[y] = "tracked"
      BY <1>2, <1>a, <2>2, <2>3 DEF ReadFrame, TypeOK
    <3>. QED
      BY <1>1, <3>1, <3>2
  <2>4. CASE f.kind \notin {"started", "error"}
    <3>1. HandleExecFrame(x, f) /\ UNCHANGED call
      BY <1>2, <2>4 DEF ReadFrame
    <3>2. /\ n \in Nat
          /\ \/ more = <<n + 1>> /\ received'[x] = n + 1
             \/ more = <<>> /\ received'[x] = n
      <4>1. n \in Nat /\ DOMAIN received = Exec
        BY <1>a, <2>2 DEF TypeOK
      <4>2. CASE f.kind = "output"
        <5>1. more = <<n + 1>>
          BY <2>1, <4>2
        <5>2. received'[x] = n + 1
          BY <2>1, <2>2, <4>1, <4>2
        <5>. QED
          BY <4>1, <5>1, <5>2
      <4>3. CASE f.kind # "output"
        <5>1. more = <<>>
          BY <4>3
        <5>2. received'[x] = n
          BY <2>1, <4>3
        <5>. QED
          BY <4>1, <5>1, <5>2
      <4>. QED
        BY <4>2, <4>3
    <3>3. \A y \in Exec : y # x => received'[y] = received[y]
      BY <1>a, <2>1, <2>2 DEF TypeOK
    <3>4. CASE call[x] = "tracked"
      <4>1. ApplyExecFrames(x, frame) /\ UNCHANGED buffered
        BY <3>1, <3>4 DEF HandleExecFrame
      <4>. HIDE DEF n, x, f, more
      <4>2. shown[x] = LastChunks(n) /\ (truncated[x] <=> n > Retain)
        BY <2>2, <3>4 DEF ShownInv, n
      <4>3. /\ shown'[x] = RetainedTail(shown[x] \o more)
            /\ truncated'[x] = (truncated[x] \/ Len(shown[x] \o more) > Retain)
            /\ \A y \in Exec : y # x => shown'[y] = shown[y] /\ truncated'[y] = truncated[y]
        BY <1>a, <2>2, <4>1 DEF ApplyExecFrames, TypeOK
      <4>4. shown'[x] = LastChunks(received'[x]) /\ (truncated'[x] <=> received'[x] > Retain)
        <5>1. CASE more = <<n + 1>> /\ received'[x] = n + 1
          BY <3>2, <4>2, <4>3, <5>1, RetainedMoves
        <5>2. CASE more = <<>> /\ received'[x] = n
          BY <3>2, <4>2, <4>3, <5>2, RetainedStays
        <5>. QED
          BY <3>2, <5>1, <5>2
      <4>. QED
        BY <2>2, <3>1, <3>3, <3>4, <4>1, <4>3, <4>4 DEF ShownInv
    <3>5. CASE call[x] # "tracked"
      <4>1. /\ UNCHANGED <<shown, truncated>>
            /\ buffered' = [buffered EXCEPT ![x] =
                              [chunks |-> buffered[x].chunks \o more,
                               exited |-> buffered[x].exited \/ f.kind = "exit"]]
        BY <3>1, <3>5 DEF HandleExecFrame
      <4>. HIDE DEF n, x, f, more
      <4>2. buffered'[x].chunks = buffered[x].chunks \o more
            /\ \A y \in Exec : y # x => buffered'[y] = buffered[y]
        BY <1>a, <2>2, <4>1 DEF TypeOK
      <4>3. buffered[x].chunks = FirstChunks(n)
        BY <2>2, <3>5 DEF ShownInv, n
      <4>4. buffered'[x].chunks = FirstChunks(received'[x])
        <5>1. CASE more = <<n + 1>> /\ received'[x] = n + 1
          BY <3>2, <4>2, <4>3, <5>1, FirstChunksGrow
        <5>2. CASE more = <<>> /\ received'[x] = n
          <6>1. FirstChunks(n) \o <<>> = FirstChunks(n)
            BY <3>2, ChunkSeqs
          <6>. QED
            BY <4>2, <4>3, <5>2, <6>1
        <5>. QED
          BY <3>2, <5>1, <5>2
      <4>. QED
        BY <2>2, <3>1, <3>3, <3>5, <4>1, <4>2, <4>4, SMTT(40) DEF ShownInv
    <3>. QED
      BY <3>4, <3>5
  <2>. QED
    BY <2>3, <2>4
<1>3. ASSUME NEW x \in Exec, TrackExec(x)
      PROVE  ShownInv'
  <2>. DEFINE n == received[x]
              chunks == buffered[x].chunks
  <2>1. /\ call'[x] = "tracked" /\ UNCHANGED received
        /\ \A y \in Exec : y # x => call'[y] = call[y] /\ buffered'[y] = buffered[y]
    BY <1>3, <1>a DEF TrackExec, TypeOK
  <2>2. chunks = FirstChunks(n) /\ shown[x] = <<>> /\ ~truncated[x]
    BY <1>3 DEF TrackExec, ShownInv
  <2>3. /\ shown'[x] = RetainedTail(shown[x] \o chunks)
        /\ truncated'[x] = (truncated[x] \/ Len(shown[x] \o chunks) > Retain)
        /\ \A y \in Exec : y # x => shown'[y] = shown[y] /\ truncated'[y] = truncated[y]
    BY <1>3, <1>a DEF TrackExec, ApplyExecFrames, TypeOK
  <2>4. /\ FirstChunks(n) \in Seq(Nat) /\ Len(FirstChunks(n)) = n
        /\ <<>> \o FirstChunks(n) = FirstChunks(n)
    <3>1. FirstChunks(n) \in Seq(Nat) /\ Len(FirstChunks(n)) = n
      BY <1>a, ChunkSeqs
    <3>2. <<>> \o FirstChunks(n) = FirstChunks(n)
      BY <3>1, ConcatEmptySeq
    <3>. QED
      BY <3>1, <3>2
  <2>5. shown'[x] = LastChunks(n) /\ (truncated'[x] <=> n > Retain)
    BY <1>a, <2>2, <2>3, <2>4, RetainedFirst
  <2>. QED
    BY <2>1, <2>3, <2>5 DEF ShownInv
<1>4. ASSUME NEW x \in Exec, StartExec(x) \/ CallTimeout(x)
      PROVE  ShownInv'
  <2>1. \A y \in Exec : call'[y] = "tracked" <=> call[y] = "tracked"
    BY <1>4, <1>a DEF StartExec, CallTimeout, TypeOK
  <2>. QED
    BY <1>1, <1>4, <2>1 DEF StartExec, CallTimeout
<1>5. ASSUME NEW c \in Conn, ServerClose(c)
      PROVE  ShownInv'
  <2>1. \A y \in Exec : call'[y] = "tracked" <=> call[y] = "tracked"
    BY <1>5, <1>a DEF ServerClose, TypeOK
  <2>. QED
    BY <1>1, <1>5, <2>1 DEF ServerClose
<1>6. ASSUME NEW x \in Exec,
             \/ StartFails(x) \/ Launch(x) \/ WriteOutput(x) \/ ProcessExits(x) \/ EmitChunk(x)
             \/ Finish(x) \/ FinishFailed(x) \/ Escalate(x) \/ ExecTimeout(x)
             \/ TurnForeign(x) \/ EscalateRefused(x) \/ EscalateThrows(x) \/ AgentDies(x)
             \/ WaitExec(x) \/ WaitEnds(x) \/ AbortExec(x)
             \/ \E c \in Conn : ReceiveStart(c, x) \/ ReceiveAbort(c, x)
      PROVE  ShownInv'
  BY <1>1, <1>6
  DEF StartFails, Launch, WriteOutput, ProcessExits, EmitChunk, Finish, FinishFailed, Escalate,
      ExecTimeout, TurnForeign, EscalateRefused, EscalateThrows, AgentDies, WaitExec, WaitEnds,
      AbortExec, ReceiveStart, ReceiveAbort
<1>7. ASSUME NEW c \in Conn, AgentClose(c) \/ Connect(c)
      PROVE  ShownInv'
  BY <1>1, <1>7 DEF AgentClose, Connect
<1>8. CASE UNCHANGED vars
  BY <1>1, <1>8 DEF vars
<1>. QED
  BY <1>2, <1>3, <1>4, <1>5, <1>6, <1>7, <1>8 DEF Next

\* What is shown of a command is the end of what was received of it, in the
\* order it was printed, nothing twice and nothing skipped, however early its
\* frames came and whichever were lost.
THEOREM TailIsShown == Spec => []TailShown
<1>1. Init => Counted /\ InOrder /\ ShownInv
  <2>. SUFFICES ASSUME Init
                PROVE  Counted /\ InOrder /\ ShownInv
    OBVIOUS
  <2>1. Counted
    BY ConstantsAssumption DEF Init, Counted
  <2>2. InOrder
    BY DEF Init, InOrder, Silent, Stream, Arrives
  <2>3. FirstChunks(0) = <<>>
    BY DEF FirstChunks
  <2>4. ShownInv
    BY <2>3 DEF Init, ShownInv, Nothing
  <2>. QED
    BY <2>1, <2>2, <2>4
<1>2. ShownInv => TailShown
  BY DEF ShownInv, TailShown
<1>. QED
  BY <1>1, <1>2, TypeInit, TypeNext, CountedNext, OrderNext, ShownNext, PTL DEF Spec
=============================================================================
