------------------------- MODULE FleetSessionProofs -------------------------
(***************************************************************************)
(* Proofs about FleetSession, for any number of tool calls and workers and *)
(* any bounds.                                                             *)
(***************************************************************************)
EXTENDS FleetSession, SequenceTheorems, TLAPS

(***************************************************************************)
(* Types.                                                                  *)
(***************************************************************************)

\* The frames the agent sends, and the requests the tools send.
LEMMA MessageTypes ==
  ASSUME TypeOK, NEW c \in Call, NEW i \in Instance
  PROVE  /\ Answer("spawned", c, i) \in Frame
         /\ Answer("stopped", c, i) \in Frame
         /\ Answer("refused", c, None) \in Frame
         /\ Settled(i) \in Frame
         /\ [kind |-> "spawn", call |-> c, worker |-> None] \in Request
         /\ [kind |-> "prompt", call |-> c, worker |-> i] \in Request
         /\ [kind |-> "abort", call |-> c, worker |-> i] \in Request
         /\ [kind |-> "stop", call |-> c, worker |-> i] \in Request
<1>1. run[i] \in SUBSET Call
  BY DEF TypeOK
<1>. QED
  BY <1>1 DEF Answer, Settled, Frame, Request

\* A frame sent keeps the wire well typed.
LEMMA SendType ==
  ASSUME TypeOK, NEW f \in Frame, Send(<<f>>)
  PROVE  wire' \in Seq(Frame)
<1>1. <<f>> \in Seq(Frame)
  OBVIOUS
<1>2. wire \o <<f>> \in Seq(Frame)
  BY <1>1 DEF TypeOK
<1>. QED
  BY <1>2 DEF Send, TypeOK

\* What is at the head of the two queues.
LEMMA HeadTypes ==
  ASSUME TypeOK
  PROVE  /\ wire # <<>> => /\ Head(wire) \in Frame
                           /\ Tail(wire) \in Seq(Frame)
         /\ requests # <<>> => /\ Head(requests) \in Request
                               /\ Tail(requests) \in Seq(Request)
<1>1. wire \in Seq(Frame) /\ requests \in Seq(Request)
  BY DEF TypeOK
<1>. QED
  BY <1>1, HeadTailProperties

\* The end of a stop keeps types.
LEMMA StopReturnsType ==
  ASSUME TypeOK, NEW i \in Instance, StopReturns(i)
  PROVE  wire' \in Seq(Frame) /\ stopping' \in [Instance -> Call \cup {None}]
<1>1. stopping' \in [Instance -> Call \cup {None}]
  BY DEF StopReturns, TypeOK
<1>2. CASE stopping[i] = None
  BY <1>1, <1>2 DEF StopReturns, TypeOK
<1>3. CASE stopping[i] # None
  <2>1. stopping[i] \in Call
    BY <1>3 DEF TypeOK
  <2>2. Answer("stopped", stopping[i], i) \in Frame
    BY <2>1, MessageTypes
  <2>. QED
    BY <1>1, <1>3, <2>2, SendType DEF StopReturns
<1>. QED
  BY <1>2, <1>3

\* The end of a run keeps types.
LEMMA RunSettlesType ==
  ASSUME TypeOK, NEW i \in Instance, RunSettles(i)
  PROVE  /\ wire' \in Seq(Frame)
         /\ run' \in [Instance -> SUBSET Call]
         /\ answered' \subseteq Call
         /\ burn' \in [Instance -> Nat]
<1>1. Settled(i) \in Frame
  <2>1. run[i] \in SUBSET Call
    BY DEF TypeOK
  <2>. QED
    BY <2>1 DEF Settled, Frame
<1>2. wire' \in Seq(Frame)
  BY <1>1, SendType DEF RunSettles
<1>. QED
  BY <1>2 DEF RunSettles, TypeOK

\* Nothing runs and nothing is asked at the start.
LEMMA TypeInit == Init => TypeOK
<1>. SUFFICES ASSUME Init
              PROVE  TypeOK
  OBVIOUS
<1>1. <<>> \in Seq(Call \cup {Abort}) /\ <<>> \in Seq(Request) /\ <<>> \in Seq(Frame)
  OBVIOUS
<1>2. 0 \in 0..MaxSpent /\ 0 \in 0..MaxBreaks
  BY ConstantsAssumption
<1>3. /\ stdin \in [Instance -> Seq(Call \cup {Abort})]
      /\ requests \in Seq(Request) /\ wire \in Seq(Frame)
  BY <1>1 DEF Init
<1>. QED
  BY <1>2, <1>3 DEF Init, TypeOK

\* The steps of the connection and of the tools keep types.
LEMMA TypeTools ==
  ASSUME TypeOK,
         \/ Connect \/ Break
         \/ \E c \in Call : ToolSpawn(c) \/ CallTimeout(c)
         \/ \E c \in Call, i \in Instance, tool \in {"prompt", "send"} : Prompt(c, i, tool)
         \/ \E c \in Call, i \in Instance : ToolAbort(c, i) \/ ToolStop(c, i)
  PROVE  TypeOK'
<1>. USE DEF agentVars, workerVars, connVars, serverVars, historyVars
<1>1. CASE Connect
  BY <1>1 DEF Connect, TypeOK
<1>2. CASE Break
  <2>1. <<>> \in Seq(Request) /\ <<>> \in Seq(Frame)
    OBVIOUS
  <2>2. breaks' \in 0..MaxBreaks
    BY <1>2, ConstantsAssumption DEF Break, TypeOK
  <2>. QED
    BY <1>2, <2>1, <2>2 DEF Break, TypeOK
<1>3. ASSUME NEW c \in Call, ToolSpawn(c)
      PROVE  TypeOK'
  <2>1. requests' \in Seq(Request)
    <3>1. [kind |-> "spawn", call |-> c, worker |-> None] \in Request
      BY DEF Request
    <3>. QED
      BY <1>3, <3>1 DEF ToolSpawn, Ask, TypeOK
  <2>. QED
    BY <1>3, <2>1 DEF ToolSpawn, Ask, Begin, TypeOK
<1>4. ASSUME NEW c \in Call, CallTimeout(c)
      PROVE  TypeOK'
  BY <1>4 DEF CallTimeout, TypeOK
<1>5. ASSUME NEW c \in Call, NEW i \in Instance, NEW tool \in {"prompt", "send"},
             Prompt(c, i, tool)
      PROVE  TypeOK'
  <2>1. requests' \in Seq(Request)
    <3>1. [kind |-> "prompt", call |-> c, worker |-> i] \in Request
      BY MessageTypes
    <3>. QED
      BY <1>5, <3>1 DEF Prompt, Ask, TypeOK
  <2>2. pc' \in [Call -> {"none", "asked", "waiting", "settled", "done", "failed"}]
    BY <1>5 DEF Prompt, Ask, Begin, TypeOK
  <2>3. alone' \subseteq Call
    <3>. HIDE DEF Quiet
    <3>. QED
      BY <1>5 DEF Prompt, Ask, TypeOK
  <2>4. settled' \in [Instance -> BOOLEAN] /\ target' \in [Call -> Instance \cup {None}]
    BY <1>5 DEF Prompt, Ask, TypeOK
  <2>5. UNCHANGED <<agentVars, workerVars, up, breaks, wire, state, answered, burn>>
    BY <1>5 DEF Prompt, Ask
  <2>. QED
    BY <2>1, <2>2, <2>3, <2>4, <2>5 DEF TypeOK
<1>6. ASSUME NEW c \in Call, NEW i \in Instance, ToolAbort(c, i) \/ ToolStop(c, i)
      PROVE  TypeOK'
  <2>1. requests' \in Seq(Request)
    <3>. DEFINE abort == [kind |-> "abort", call |-> c, worker |-> i]
                stop == [kind |-> "stop", call |-> c, worker |-> i]
    <3>1. abort \in Request /\ stop \in Request
      BY MessageTypes
    <3>2. requests' = Append(requests, abort) \/ requests' = Append(requests, stop)
      BY <1>6 DEF ToolAbort, ToolStop, Ask
    <3>. HIDE DEF abort, stop
    <3>3. requests \in Seq(Request)
      BY DEF TypeOK
    <3>4. Append(requests, abort) \in Seq(Request) /\ Append(requests, stop) \in Seq(Request)
      BY <3>1, <3>3
    <3>. QED
      BY <3>2, <3>4
  <2>2. CASE ToolAbort(c, i)
    BY <2>1, <2>2 DEF ToolAbort, Ask, Begin, TypeOK
  <2>3. CASE ToolStop(c, i)
    BY <2>1, <2>3 DEF ToolStop, Ask, Begin, TypeOK
  <2>. QED
    BY <1>6, <2>2, <2>3
<1>. QED
  BY <1>1, <1>2, <1>3, <1>4, <1>5, <1>6

\* Reading a frame keeps types.
LEMMA TypeRead ==
  ASSUME TypeOK, ReadFrame
  PROVE  TypeOK'
<1>. USE DEF agentVars, workerVars, historyVars
<1>. DEFINE f == Head(wire)
<1>1. f \in Frame /\ wire' \in Seq(Frame)
  BY HeadTypes DEF ReadFrame, ReadSpawned, ReadStopped, ReadRefused, ReadSettled, Read
<1>. HIDE DEF f
<1>2. CASE ReadSpawned
  <2>1. f.kind = "spawned"
    BY <1>2 DEF ReadSpawned, f
  <2>2. f.call \in Call /\ f.worker \in Instance
    BY <1>1, <2>1 DEF Frame
  <2>3. /\ pc' \in [Call -> {"none", "asked", "waiting", "settled", "done", "failed"}]
        /\ target' \in [Call -> Instance \cup {None}]
        /\ state' \in [Instance -> {"none", "running", "stopped"}]
    <3>1. CASE pc[f.call] = "asked"
      <4>1. /\ pc' = [pc EXCEPT ![f.call] = "done"]
            /\ target' = [target EXCEPT ![f.call] = f.worker]
            /\ state' = [state EXCEPT ![f.worker] = "running"]
        BY <1>2, <3>1 DEF ReadSpawned, f
      <4>. QED
        BY <2>2, <4>1 DEF TypeOK
    <3>2. CASE pc[f.call] # "asked"
      BY <1>2, <3>2 DEF ReadSpawned, TypeOK, f
    <3>. QED
      BY <3>1, <3>2
  <2>. QED
    BY <1>1, <1>2, <2>3 DEF ReadSpawned, TypeOK
<1>3. CASE ReadStopped
  <2>1. /\ pc' \in [Call -> {"none", "asked", "waiting", "settled", "done", "failed"}]
        /\ state' \in [Instance -> {"none", "running", "stopped"}]
    <3>1. CASE pc[f.call] = "asked"
      <4>1. /\ pc' = [pc EXCEPT ![f.call] = "done"]
            /\ state' = [state EXCEPT ![f.worker] = "stopped"]
        BY <1>3, <3>1 DEF ReadStopped, f
      <4>. QED
        BY <4>1 DEF TypeOK
    <3>2. CASE pc[f.call] # "asked"
      BY <1>3, <3>2 DEF ReadStopped, TypeOK, f
    <3>. QED
      BY <3>1, <3>2
  <2>. QED
    BY <1>1, <1>3, <2>1 DEF ReadStopped, TypeOK
<1>4. CASE ReadRefused
  BY <1>1, <1>4 DEF ReadRefused, TypeOK
<1>5. CASE ReadSettled
  <2>1. /\ pc' \in [Call -> {"none", "asked", "waiting", "settled", "done", "failed"}]
        /\ settled' \in [Instance -> BOOLEAN]
    <3>1. CASE state[f.worker] = "none"
      BY <1>5, <3>1 DEF ReadSettled, TypeOK, f
    <3>2. CASE state[f.worker] # "none"
      <4>1. /\ settled' = [settled EXCEPT ![f.worker] = TRUE]
            /\ pc' = [c \in Call |-> IF c \in Waiters(f.worker) THEN "settled" ELSE pc[c]]
        BY <1>5, <3>2 DEF ReadSettled, f
      <4>. QED
        BY <4>1 DEF TypeOK
    <3>. QED
      BY <3>1, <3>2
  <2>. QED
    BY <1>1, <1>5, <2>1 DEF ReadSettled, TypeOK
<1>. QED
  BY <1>2, <1>3, <1>4, <1>5 DEF ReadFrame

\* Every step of the agent keeps types.
LEMMA TypeAgent ==
  ASSUME TypeOK,
         ReceiveRequest \/ (\E c \in Call : LaunchReturns(c)) \/ \E i \in Instance : StopGrace(i)
  PROVE  TypeOK'
<1>. USE DEF workerVars, serverVars, historyVars
<1>. DEFINE r == Head(requests)
<1>1. requests # <<>> => r \in Request /\ Tail(requests) \in Seq(Request)
  BY HeadTypes
<1>. HIDE DEF r
<1>2. CASE ReceiveSpawn
  <2>1. r.call \in Call /\ requests' \in Seq(Request)
    BY <1>1, <1>2 DEF ReceiveSpawn, Receive, Request
  <2>2. wire' \in Seq(Frame) /\ starting' \subseteq Call
    <3>1. CASE Cardinality(Running) >= MaxWorkers
      <4>1. Answer("refused", r.call, None) \in Frame
        BY <2>1 DEF Answer, Frame
      <4>2. Send(<<Answer("refused", r.call, None)>>) /\ UNCHANGED starting
        BY <1>2, <3>1 DEF ReceiveSpawn, r
      <4>. QED
        BY <4>1, <4>2, SendType DEF TypeOK
    <3>2. CASE ~(Cardinality(Running) >= MaxWorkers)
      BY <1>2, <2>1, <3>2 DEF ReceiveSpawn, TypeOK, r
    <3>. QED
      BY <3>1, <3>2
  <2>. QED
    BY <1>2, <2>1, <2>2 DEF ReceiveSpawn, TypeOK
<1>3. CASE ReceiveRpc
  <2>1. r.call \in Call /\ r.worker \in Instance /\ requests' \in Seq(Request)
    BY <1>1, <1>3 DEF ReceiveRpc, Receive, Request, r
  <2>. DEFINE command == IF r.kind = "prompt" THEN r.call ELSE Abort
  <2>2. Append(stdin[r.worker], command) \in Seq(Call \cup {Abort})
    BY <2>1 DEF TypeOK
  <2>3. stdin' \in [Instance -> Seq(Call \cup {Abort})]
    BY <1>3, <2>1, <2>2 DEF ReceiveRpc, WriteRpc, TypeOK, r
  <2>. QED
    BY <1>3, <2>1, <2>3 DEF ReceiveRpc, TypeOK, agentVars
<1>4. CASE ReceiveStop
  <2>1. r.call \in Call /\ r.worker \in Instance /\ requests' \in Seq(Request)
    BY <1>1, <1>4 DEF ReceiveStop, Receive, Request, r
  <2>2. CASE record[r.worker] = "running"
    <3>1. Append(stdin[r.worker], Abort) \in Seq(Call \cup {Abort})
      BY <2>1 DEF TypeOK
    <3>2. /\ stdin' \in [Instance -> Seq(Call \cup {Abort})]
          /\ record' \in [Instance -> {"none", "running", "stopped", "exited"}]
          /\ stopping' \in [Instance -> Call \cup {None}]
          /\ wire' = wire
      <4>1. /\ record' = [record EXCEPT ![r.worker] = "stopped"]
            /\ stopping' = [stopping EXCEPT ![r.worker] = r.call]
            /\ stdin' = [stdin EXCEPT ![r.worker] = Append(@, Abort)]
            /\ UNCHANGED wire
        BY <1>4, <2>2 DEF ReceiveStop, r
      <4>. QED
        BY <2>1, <3>1, <4>1 DEF TypeOK
    <3>. QED
      BY <1>4, <2>1, <3>2 DEF ReceiveStop, TypeOK
  <2>3. CASE record[r.worker] # "running"
    <3>1. Answer("stopped", r.call, r.worker) \in Frame
      BY <2>1, MessageTypes
    <3>2. Send(<<Answer("stopped", r.call, r.worker)>>) /\ UNCHANGED <<record, stopping, stdin>>
      BY <1>4, <2>3 DEF ReceiveStop, r
    <3>3. wire' \in Seq(Frame)
      BY <3>1, <3>2, SendType
    <3>. QED
      BY <1>4, <2>1, <3>2, <3>3 DEF ReceiveStop, TypeOK
  <2>. QED
    BY <2>2, <2>3
<1>5. ASSUME NEW c \in Call, LaunchFails(c)
      PROVE  TypeOK'
  <2>1. Answer("refused", c, None) \in Frame
    BY DEF Answer, Frame
  <2>2. wire' \in Seq(Frame)
    BY <1>5, <2>1, SendType DEF LaunchFails
  <2>. QED
    BY <1>5, <2>2 DEF LaunchFails, TypeOK
<1>6. ASSUME NEW c \in Call, NEW i \in Instance, Launch(c, i)
      PROVE  TypeOK'
  <2>1. wire' \in Seq(Frame)
    BY <1>6, MessageTypes, SendType DEF Launch, SpawnProcess
  <2>. QED
    BY <1>6, <2>1 DEF Launch, SpawnProcess, TypeOK
<1>7. ASSUME NEW i \in Instance, StopGrace(i)
      PROVE  TypeOK'
  <2>1. wire' \in Seq(Frame) /\ stopping' \in [Instance -> Call \cup {None}]
    BY <1>7, StopReturnsType DEF StopGrace
  <2>. QED
    BY <1>7, <2>1 DEF StopGrace, TypeOK
<1>. QED
  BY <1>2, <1>3, <1>4, <1>5, <1>6, <1>7 DEF ReceiveRequest, LaunchReturns

\* Every step of a worker keeps types.
LEMMA TypeWorker ==
  ASSUME TypeOK, NEW i \in Instance,
         TakePrompt(i) \/ TakeAbort(i) \/ Settle(i) \/ Usage(i) \/ WorkerExit(i)
  PROVE  TypeOK'
<1>. USE DEF agentVars, connVars, serverVars, historyVars
<1>1. stdin[i] \in Seq(Call \cup {Abort}) /\ run[i] \subseteq Call /\ spent[i] \in 0..MaxSpent
  BY DEF TypeOK
<1>2. stdin[i] # <<>> => /\ Head(stdin[i]) \in Call \cup {Abort}
                        /\ Tail(stdin[i]) \in Seq(Call \cup {Abort})
  BY <1>1, HeadTailProperties
<1>3. CASE TakePrompt(i)
  <2>1. stdin' \in [Instance -> Seq(Call \cup {Abort})]
    BY <1>2, <1>3 DEF TakePrompt, TypeOK
  <2>2. run' \in [Instance -> SUBSET Call]
    <3>. DEFINE joined == run[i] \cup {Head(stdin[i])}
    <3>1. joined \in SUBSET Call
      BY <1>1, <1>2, <1>3 DEF TakePrompt
    <3>2. run' = [run EXCEPT ![i] = joined] \/ run' = run
      BY <1>3 DEF TakePrompt
    <3>. HIDE DEF joined
    <3>. QED
      BY <3>1, <3>2 DEF TypeOK
  <2>. QED
    BY <1>3, <2>1, <2>2 DEF TakePrompt, TypeOK
<1>4. CASE TakeAbort(i)
  <2>1. stdin' \in [Instance -> Seq(Call \cup {Abort})]
    BY <1>2, <1>4 DEF TakeAbort, TypeOK
  <2>2. /\ wire' \in Seq(Frame)
        /\ run' \in [Instance -> SUBSET Call]
        /\ answered' \subseteq Call
        /\ burn' \in [Instance -> Nat]
    <3>1. CASE run[i] = {}
      BY <1>4, <3>1 DEF TakeAbort, TypeOK
    <3>2. CASE run[i] # {}
      <4>1. RunSettles(i)
        BY <1>4, <3>2 DEF TakeAbort
      <4>. QED
        BY <4>1, RunSettlesType
    <3>. QED
      BY <3>1, <3>2
  <2>. QED
    BY <1>4, <2>1, <2>2 DEF TakeAbort, TypeOK
<1>5. CASE Settle(i)
  <2>1. /\ wire' \in Seq(Frame)
        /\ run' \in [Instance -> SUBSET Call]
        /\ answered' \subseteq Call
        /\ burn' \in [Instance -> Nat]
    BY <1>5, RunSettlesType DEF Settle
  <2>. QED
    BY <1>5, <2>1 DEF Settle, TypeOK
<1>6. CASE Usage(i)
  <2>1. /\ spent' \in [Instance -> 0..MaxSpent]
        /\ burn' \in [Instance -> Nat]
    <3>1. /\ spent' = [spent EXCEPT ![i] = @ + 1] /\ spent[i] < MaxSpent
          /\ burn' = [burn EXCEPT ![i] = @ + 1]
      BY <1>6 DEF Usage
    <3>2. spent[i] + 1 \in 0..MaxSpent
      BY <1>1, <3>1, ConstantsAssumption
    <3>3. burn[i] + 1 \in Nat
      BY DEF TypeOK
    <3>. QED
      BY <3>1, <3>2, <3>3 DEF TypeOK
  <2>2. stdin' \in [Instance -> Seq(Call \cup {Abort})]
    <3>1. Append(stdin[i], Abort) \in Seq(Call \cup {Abort})
      BY <1>1
    <3>. QED
      BY <1>6, <3>1 DEF Usage, WriteRpc, TypeOK
  <2>3. over' \in [Instance -> BOOLEAN]
    <3>. DEFINE b == spent[i] + 1 > MaxCost /\ ~over[i]
    <3>1. over' = [over EXCEPT ![i] = @ \/ b] /\ over[i] \in BOOLEAN
      BY <1>6 DEF Usage, WriteRpc, TypeOK
    <3>2. (over[i] \/ b) \in BOOLEAN
      OBVIOUS
    <3>. HIDE DEF b
    <3>. QED
      BY <3>1, <3>2, Zenon DEF TypeOK
  <2>. QED
    BY <1>6, <2>1, <2>2, <2>3 DEF Usage, WriteRpc, TypeOK
<1>7. CASE WorkerExit(i)
  <2>1. wire' \in Seq(Frame) /\ stopping' \in [Instance -> Call \cup {None}]
    BY <1>7, StopReturnsType DEF WorkerExit
  <2>2. stdin' \in [Instance -> Seq(Call \cup {Abort})]
    <3>1. <<>> \in Seq(Call \cup {Abort})
      OBVIOUS
    <3>. QED
      BY <1>7, <3>1 DEF WorkerExit, TypeOK
  <2>3. /\ run' \in [Instance -> SUBSET Call]
        /\ burn' \in [Instance -> Nat]
        /\ record' \in [Instance -> {"none", "running", "stopped", "exited"}]
        /\ child' \in [Instance -> {"none", "alive", "signalled", "gone"}]
    BY <1>7 DEF WorkerExit, TypeOK
  <2>. QED
    BY <1>7, <2>1, <2>2, <2>3 DEF WorkerExit, TypeOK
<1>. QED
  BY <1>3, <1>4, <1>5, <1>6, <1>7

\* Every step keeps types.
LEMMA TypeNext == TypeOK /\ [Next]_vars => TypeOK'
<1>. SUFFICES ASSUME TypeOK, [Next]_vars
              PROVE  TypeOK'
  OBVIOUS
<1>1. CASE UNCHANGED vars
  BY <1>1 DEF vars, agentVars, workerVars, connVars, serverVars, historyVars, TypeOK
<1>. QED
  BY <1>1, TypeTools, TypeRead, TypeAgent, TypeWorker, Zenon DEF Next

\* Every variable keeps its type, whatever is asked, answered, lost or broken.
THEOREM TypeCorrect == Spec => []TypeOK
<1>. QED
  BY TypeInit, TypeNext, PTL DEF Spec

(***************************************************************************)
(* Waits.                                                                  *)
(***************************************************************************)

\* A wait is for a worker.
WaitersKnown == \A c \in Call : pc[c] = "waiting" => target[c] \in Instance

WaitInv == WaitersKnown /\ LatchEndsWaits

\* Steps that touch no latch and begin no wait disturb none.
LEMMA WaitFrame ==
  ASSUME WaitInv, UNCHANGED settled,
         \A c \in Call : pc'[c] = "waiting" => pc[c] = "waiting" /\ target'[c] = target[c]
  PROVE  WaitInv'
BY DEF WaitInv, WaitersKnown, LatchEndsWaits

\* A wait begins on a latch that was reset and a settle ends every wait for its worker.
LEMMA WaitNext == TypeOK /\ WaitInv /\ [Next]_vars => WaitInv'
<1>. SUFFICES ASSUME TypeOK, WaitInv, [Next]_vars
              PROVE  WaitInv'
  OBVIOUS
<1>1. CASE UNCHANGED serverVars
  BY <1>1, WaitFrame DEF serverVars
<1>2. CASE Break
  BY <1>2, WaitFrame DEF Break, TypeOK
<1>3. ASSUME NEW c \in Call, ToolSpawn(c) \/ CallTimeout(c)
      PROVE  WaitInv'
  BY <1>3, WaitFrame DEF ToolSpawn, Ask, Begin, CallTimeout, TypeOK
<1>4. ASSUME NEW c \in Call, NEW i \in Instance, ToolAbort(c, i) \/ ToolStop(c, i)
      PROVE  WaitInv'
  BY <1>4, WaitFrame DEF ToolAbort, ToolStop, Ask, Begin, TypeOK
<1>5. ASSUME NEW c \in Call, NEW i \in Instance, NEW tool \in {"prompt", "send"},
             Prompt(c, i, tool)
      PROVE  WaitInv'
  <2>1. /\ target' = [target EXCEPT ![c] = i]
        /\ settled' = [settled EXCEPT ![i] = FALSE]
        /\ \A d \in Call \ {c} : pc'[d] = pc[d]
    BY <1>5 DEF Prompt, Ask, Begin, TypeOK
  <2>2. ASSUME NEW d \in Call, pc'[d] = "waiting"
        PROVE  target'[d] \in Instance /\ ~settled'[target'[d]]
    <3>1. CASE d = c
      BY <2>1, <3>1 DEF TypeOK
    <3>2. CASE d # c
      BY <2>1, <2>2, <3>2 DEF WaitInv, WaitersKnown, LatchEndsWaits, TypeOK
    <3>. QED
      BY <3>1, <3>2
  <2>. QED
    BY <2>2 DEF WaitInv, WaitersKnown, LatchEndsWaits
<1>6. CASE ReadSpawned
  <2>. DEFINE f == Head(wire)
  <2>1. CASE pc[f.call] = "asked"
    <3>1. /\ pc' = [pc EXCEPT ![f.call] = "done"]
          /\ target' = [target EXCEPT ![f.call] = f.worker]
          /\ UNCHANGED settled
      BY <1>6, <2>1 DEF ReadSpawned
    <3>2. \A c \in Call : pc'[c] = "waiting" => pc[c] = "waiting" /\ target'[c] = target[c]
      <4>. HIDE DEF f
      <4>. QED
        BY <3>1 DEF TypeOK
    <3>. QED
      BY <3>1, <3>2, WaitFrame
  <2>2. CASE pc[f.call] # "asked"
    BY <1>6, <2>2, WaitFrame DEF ReadSpawned
  <2>. QED
    BY <2>1, <2>2
<1>7. CASE ReadStopped \/ ReadRefused
  BY <1>7, WaitFrame DEF ReadStopped, ReadRefused, TypeOK
<1>8. CASE ReadSettled
  <2>. DEFINE f == Head(wire)
  <2>1. CASE state[f.worker] = "none"
    BY <1>8, <2>1, WaitFrame DEF ReadSettled
  <2>2. CASE state[f.worker] # "none"
    <3>1. /\ settled' = [settled EXCEPT ![f.worker] = TRUE]
          /\ pc' = [c \in Call |-> IF c \in Waiters(f.worker) THEN "settled" ELSE pc[c]]
          /\ UNCHANGED target
      BY <1>8, <2>2 DEF ReadSettled
    <3>2. ASSUME NEW c \in Call, pc'[c] = "waiting"
          PROVE  target'[c] \in Instance /\ ~settled'[target'[c]]
      <4>. HIDE DEF f
      <4>1. pc[c] = "waiting" /\ target[c] # f.worker
        BY <3>1, <3>2 DEF Waiters
      <4>2. target[c] \in Instance /\ ~settled[target[c]]
        BY <4>1 DEF WaitInv, WaitersKnown, LatchEndsWaits
      <4>. QED
        BY <3>1, <4>1, <4>2 DEF TypeOK
    <3>. QED
      BY <3>2 DEF WaitInv, WaitersKnown, LatchEndsWaits
  <2>. QED
    BY <2>1, <2>2
<1>9. ASSUME NEW i \in Instance,
             StopGrace(i) \/ TakePrompt(i) \/ TakeAbort(i) \/ Settle(i) \/ Usage(i) \/ WorkerExit(i)
      PROVE  UNCHANGED serverVars
  BY <1>9 DEF StopGrace, TakePrompt, TakeAbort, Settle, Usage, WorkerExit
<1>10. ASSUME NEW c \in Call, LaunchReturns(c)
       PROVE  UNCHANGED serverVars
  BY <1>10 DEF LaunchReturns, LaunchFails, Launch
<1>11. CASE Connect \/ ReceiveRequest \/ UNCHANGED vars
  BY <1>1, <1>11 DEF Connect, ReceiveRequest, ReceiveSpawn, ReceiveRpc, ReceiveStop, vars
<1>. QED
  BY <1>1, <1>2, <1>3, <1>4, <1>5, <1>6, <1>7, <1>8, <1>9, <1>10, <1>11
     DEF Next, ReadFrame

\* A blocking prompt never sleeps on after its worker's settle has been read, whatever
\* other prompts reset the latch meanwhile.
THEOREM WaitersWoken == Spec => []LatchEndsWaits
<1>1. Init => WaitInv
  BY DEF Init, WaitInv, WaitersKnown, LatchEndsWaits
<1>2. WaitInv => LatchEndsWaits
  BY DEF WaitInv
<1>. QED
  BY <1>1, <1>2, WaitNext, TypeCorrect, PTL DEF Spec

(***************************************************************************)
(* Stops.                                                                  *)
(***************************************************************************)

Past == {"stopped", "exited"}

\* What the orchestrator knows of, or is told of, has been launched.
Started ==
  /\ \A f \in Range(wire) : f.kind = "spawned" => record[f.worker] # "none"
  /\ \A r \in Range(requests) : r.kind # "spawn" => record[r.worker] # "none"
  /\ \A i \in Instance : state[i] # "none" => record[i] # "none"

\* What is answered, or will be, has stopped.
Ended ==
  /\ \A f \in Range(wire) : f.kind = "stopped" => record[f.worker] \in Past
  /\ \A i \in Instance : stopping[i] # None => record[i] \in Past
  /\ \A i \in Instance : state[i] = "stopped" => record[i] \in Past

StopInv == Started /\ Ended

\* What a step may add to the two queues, to the stops and to what is shown.
GoodFrames ==
  \A f \in Range(wire') : \/ f \in Range(wire)
                          \/ f.kind = "spawned" /\ record'[f.worker] # "none"
                          \/ f.kind = "stopped" /\ record'[f.worker] \in Past
                          \/ f.kind \in {"refused", "settled"}
GoodRequests ==
  \A r \in Range(requests') : \/ r \in Range(requests)
                              \/ r.kind = "spawn"
                              \/ record[r.worker] # "none"
GoodStops ==
  \A i \in Instance : stopping'[i] \in {stopping[i], None} \/ record'[i] \in Past
GoodStates ==
  \A i \in Instance : \/ state'[i] = state[i]
                      \/ state'[i] = "running" /\ record[i] # "none"
                      \/ state'[i] = "stopped" /\ record[i] \in Past

\* The members of a queue after one is appended.
LEMMA AppendRange ==
  ASSUME NEW S, NEW queue \in Seq(S), NEW e \in S
  PROVE  Range(Append(queue, e)) = Range(queue) \cup {e}
<1>1. /\ Append(queue, e) \in Seq(S) /\ Len(Append(queue, e)) = Len(queue) + 1
      /\ \A k \in 1..Len(queue) : Append(queue, e)[k] = queue[k]
      /\ Append(queue, e)[Len(queue) + 1] = e
  OBVIOUS
<1>2. DOMAIN queue = 1..Len(queue) /\ DOMAIN Append(queue, e) = 1..(Len(queue) + 1)
  BY <1>1
<1>3. Len(queue) \in Nat
  OBVIOUS
<1>4. 1..(Len(queue) + 1) = 1..Len(queue) \cup {Len(queue) + 1}
  BY <1>3
<1>. QED
  BY <1>1, <1>2, <1>3, <1>4 DEF Range

\* The members of a queue after the head is taken.
LEMMA TailRange ==
  ASSUME NEW S, NEW queue \in Seq(S), queue # <<>>
  PROVE  Head(queue) \in Range(queue) /\ Range(Tail(queue)) \subseteq Range(queue)
<1>1. /\ Len(queue) \in Nat \ {0} /\ Head(queue) = queue[1]
      /\ Tail(queue) \in Seq(S) /\ Len(Tail(queue)) = Len(queue) - 1
      /\ \A k \in 1..(Len(queue) - 1) : Tail(queue)[k] = queue[k + 1]
  OBVIOUS
<1>2. DOMAIN queue = 1..Len(queue) /\ DOMAIN Tail(queue) = 1..(Len(queue) - 1)
  BY <1>1
<1>3. \A k \in 1..(Len(queue) - 1) : k + 1 \in 1..Len(queue)
  BY <1>1
<1>. QED
  BY <1>1, <1>2, <1>3 DEF Range

\* A frame sent is one of the frames on the wire afterwards; no other joins them.
LEMMA SendRange ==
  ASSUME TypeOK, NEW f \in Frame, Send(<<f>>)
  PROVE  Range(wire') \subseteq Range(wire) \cup {f}
<1>1. wire \in Seq(Frame)
  BY DEF TypeOK
<1>2. Range(Append(wire, f)) = Range(wire) \cup {f}
  BY <1>1, AppendRange
<1>3. wire \o <<f>> = Append(wire, f)
  BY <1>1
<1>. QED
  BY <1>2, <1>3 DEF Send

\* The frame read was on the wire; the others stay.
LEMMA ReadRange ==
  ASSUME TypeOK, Read
  PROVE  /\ Head(wire) \in Range(wire) /\ Head(wire) \in Frame
         /\ Range(wire') \subseteq Range(wire)
<1>1. wire # <<>> /\ wire' = Tail(wire) /\ wire \in Seq(Frame)
  BY DEF Read, TypeOK
<1>2. Head(wire) \in Frame
  BY <1>1, HeadTypes
<1>. QED
  BY <1>1, <1>2, TailRange

\* So it is with requests.
LEMMA ReceiveRange ==
  ASSUME TypeOK, NEW kinds, Receive(kinds)
  PROVE  /\ Head(requests) \in Range(requests) /\ Head(requests) \in Request
         /\ Range(requests') \subseteq Range(requests)
<1>1. requests # <<>> /\ requests' = Tail(requests) /\ requests \in Seq(Request)
  BY DEF Receive, TypeOK
<1>2. Head(requests) \in Request
  BY <1>1, HeadTypes
<1>. QED
  BY <1>1, <1>2, TailRange

\* A worker that was launched stays so, and one that has stopped stays so.
Onward ==
  \A i \in Instance : /\ record[i] # "none" => record'[i] # "none"
                      /\ record[i] \in Past => record'[i] \in Past

\* What is good keeps the invariant.
LEMMA GoodStep ==
  ASSUME TypeOK, TypeOK', StopInv, Onward, GoodFrames, GoodRequests, GoodStops, GoodStates
  PROVE  StopInv'
<1>1. ASSUME NEW f \in Range(wire)
      PROVE  f \in Frame
  BY <1>1 DEF TypeOK, Range
<1>2. ASSUME NEW r \in Range(requests')
      PROVE  r \in Request
  BY <1>2 DEF TypeOK, Range
<1>3. ASSUME NEW f \in Range(wire')
      PROVE  /\ f.kind = "spawned" => record'[f.worker] # "none"
             /\ f.kind = "stopped" => record'[f.worker] \in Past
  <2>1. CASE f \in Range(wire)
    <3>1. f.kind \in {"spawned", "stopped"} => f.worker \in Instance
      BY <1>1, <2>1 DEF Frame
    <3>. QED
      BY <2>1, <3>1 DEF StopInv, Started, Ended, Onward
  <2>2. CASE f \notin Range(wire)
    BY <1>3, <2>2 DEF GoodFrames, Past
  <2>. QED
    BY <2>1, <2>2
<1>4. ASSUME NEW r \in Range(requests'), r.kind # "spawn"
      PROVE  record'[r.worker] # "none"
  <2>1. r.worker \in Instance
    BY <1>2, <1>4 DEF Request
  <2>2. record[r.worker] # "none"
    BY <1>4 DEF GoodRequests, StopInv, Started
  <2>. QED
    BY <2>1, <2>2 DEF Onward
<1>5. ASSUME NEW i \in Instance
      PROVE  /\ stopping'[i] # None => record'[i] \in Past
             /\ state'[i] # "none" => record'[i] # "none"
             /\ state'[i] = "stopped" => record'[i] \in Past
  BY <1>5 DEF GoodStops, GoodStates, StopInv, Started, Ended, Onward, Past
<1>. QED
  BY <1>3, <1>4, <1>5 DEF StopInv, Started, Ended

\* A request is about a worker the tools know, so one that was launched.
LEMMA StopTools ==
  ASSUME TypeOK, StopInv,
         \/ Connect \/ Break
         \/ \E c \in Call : ToolSpawn(c) \/ CallTimeout(c)
         \/ \E c \in Call, i \in Instance, tool \in {"prompt", "send"} : Prompt(c, i, tool)
         \/ \E c \in Call, i \in Instance : ToolAbort(c, i) \/ ToolStop(c, i)
  PROVE  Onward /\ GoodFrames /\ GoodRequests /\ GoodStops /\ GoodStates
<1>1. /\ UNCHANGED <<record, stopping, state>>
      /\ wire' = wire \/ wire' = <<>>
  BY DEF Connect, Break, ToolSpawn, CallTimeout, Prompt, ToolAbort, ToolStop, agentVars, connVars,
         serverVars
<1>2. Onward /\ GoodFrames /\ GoodStops /\ GoodStates
  BY <1>1 DEF Onward, GoodFrames, GoodStops, GoodStates, Range
<1>3. ASSUME NEW r \in Request, requests' = Append(requests, r),
             r.kind = "spawn" \/ record[r.worker] # "none"
      PROVE  GoodRequests
  <2>1. requests \in Seq(Request)
    BY DEF TypeOK
  <2>2. Range(Append(requests, r)) = Range(requests) \cup {r}
    BY <2>1, AppendRange
  <2>. QED
    BY <1>3, <2>2 DEF GoodRequests
<1>4. CASE Connect \/ Break \/ \E c \in Call : CallTimeout(c)
  <2>1. requests' = requests \/ requests' = <<>>
    BY <1>4 DEF Connect, Break, CallTimeout, connVars
  <2>. QED
    BY <1>2, <2>1 DEF GoodRequests, Range
<1>5. ASSUME NEW c \in Call, ToolSpawn(c)
      PROVE  GoodRequests
  <2>. DEFINE r == [kind |-> "spawn", call |-> c, worker |-> None]
  <2>1. r \in Request /\ r.kind = "spawn" /\ requests' = Append(requests, r)
    BY <1>5 DEF ToolSpawn, Ask, Request
  <2>. HIDE DEF r
  <2>. QED
    BY <1>3, <2>1
<1>6. ASSUME NEW c \in Call, NEW i \in Instance, NEW tool \in {"prompt", "send"},
             Prompt(c, i, tool)
      PROVE  GoodRequests
  <2>. DEFINE r == [kind |-> "prompt", call |-> c, worker |-> i]
  <2>1. r \in Request /\ r.worker = i /\ requests' = Append(requests, r)
    BY <1>6 DEF Prompt, Ask, Request
  <2>2. record[i] # "none"
    BY <1>6 DEF Prompt, Ask, StopInv, Started
  <2>. HIDE DEF r
  <2>. QED
    BY <1>3, <2>1, <2>2
<1>7. ASSUME NEW c \in Call, NEW i \in Instance, ToolAbort(c, i) \/ ToolStop(c, i)
      PROVE  GoodRequests
  <2>. DEFINE r(kind) == [kind |-> kind, call |-> c, worker |-> i]
  <2>1. PICK kind \in {"abort", "stop"} : requests' = Append(requests, r(kind))
    BY <1>7 DEF ToolAbort, ToolStop, Ask
  <2>2. r(kind) \in Request /\ r(kind).worker = i
    BY DEF Request
  <2>3. record[i] # "none"
    BY <1>7 DEF ToolAbort, ToolStop, Ask, StopInv, Started
  <2>. HIDE DEF r
  <2>. QED
    BY <1>3, <2>1, <2>2, <2>3
<1>. QED
  BY <1>2, <1>4, <1>5, <1>6, <1>7

\* An answer read is about a worker that was launched, or has stopped.
LEMMA StopRead ==
  ASSUME TypeOK, StopInv, ReadFrame
  PROVE  Onward /\ GoodFrames /\ GoodRequests /\ GoodStops /\ GoodStates
<1>. DEFINE f == Head(wire)
<1>1. Read /\ UNCHANGED <<record, stopping, requests>>
  BY DEF ReadFrame, ReadSpawned, ReadStopped, ReadRefused, ReadSettled, agentVars
<1>2. f \in Range(wire) /\ f \in Frame /\ Range(wire') \subseteq Range(wire)
  BY <1>1, ReadRange
<1>3. Onward /\ GoodFrames /\ GoodRequests /\ GoodStops
  BY <1>1, <1>2 DEF Onward, GoodFrames, GoodRequests, GoodStops
<1>. HIDE DEF f
<1>4. CASE ReadSpawned
  <2>1. record[f.worker] # "none"
    BY <1>2, <1>4 DEF ReadSpawned, StopInv, Started, f
  <2>2. UNCHANGED state \/ state' = [state EXCEPT ![f.worker] = "running"]
    BY <1>4 DEF ReadSpawned, f
  <2>. QED
    BY <1>3, <2>1, <2>2 DEF GoodStates, TypeOK
<1>5. CASE ReadStopped
  <2>1. record[f.worker] \in Past
    BY <1>2, <1>5 DEF ReadStopped, StopInv, Ended, f
  <2>2. UNCHANGED state \/ state' = [state EXCEPT ![f.worker] = "stopped"]
    BY <1>5 DEF ReadStopped, f
  <2>. QED
    BY <1>3, <2>1, <2>2 DEF GoodStates, TypeOK
<1>6. CASE ReadRefused \/ ReadSettled
  BY <1>3, <1>6 DEF ReadRefused, ReadSettled, GoodStates
<1>. QED
  BY <1>4, <1>5, <1>6 DEF ReadFrame

\* The agent answers a stop after the record has left the running state.
LEMMA StopAgent ==
  ASSUME TypeOK, StopInv, ReceiveRequest \/ \E c \in Call : LaunchReturns(c)
  PROVE  Onward /\ GoodFrames /\ GoodRequests /\ GoodStops /\ GoodStates
<1>1. UNCHANGED state
  BY DEF ReceiveRequest, ReceiveSpawn, ReceiveRpc, ReceiveStop, LaunchReturns, LaunchFails,
         Launch, serverVars
<1>2. GoodStates
  BY <1>1 DEF GoodStates
<1>. DEFINE r == Head(requests)
<1>3. ASSUME ReceiveRequest
      PROVE  r \in Range(requests) /\ r \in Request /\ GoodRequests
  <2>1. Receive({"spawn"}) \/ Receive({"prompt", "abort"}) \/ Receive({"stop"})
    BY <1>3 DEF ReceiveRequest, ReceiveSpawn, ReceiveRpc, ReceiveStop
  <2>. QED
    BY <2>1, ReceiveRange DEF GoodRequests
<1>. HIDE DEF r
<1>4. CASE ReceiveSpawn
  <2>1. /\ UNCHANGED <<record, stopping>>
        /\ UNCHANGED wire \/ Send(<<Answer("refused", r.call, None)>>)
    BY <1>4 DEF ReceiveSpawn, r
  <2>2. r.call \in Call
    BY <1>3, <1>4 DEF ReceiveRequest, Request
  <2>3. Answer("refused", r.call, None) \in Frame
    BY <2>2 DEF Answer, Frame
  <2>4. GoodFrames
    <3>1. UNCHANGED wire \/ Range(wire') \subseteq Range(wire) \cup {Answer("refused", r.call, None)}
      BY <2>1, <2>3, SendRange
    <3>. QED
      BY <3>1 DEF GoodFrames, Answer
  <2>. QED
    BY <1>2, <1>3, <1>4, <2>1, <2>4 DEF ReceiveRequest, Onward, GoodStops
<1>5. CASE ReceiveRpc
  BY <1>2, <1>3, <1>5 DEF ReceiveRequest, ReceiveRpc, agentVars, Onward, GoodFrames, GoodStops
<1>6. CASE ReceiveStop
  <2>1. r.call \in Call /\ r.worker \in Instance /\ record[r.worker] # "none" /\ GoodRequests
    <3>1. r.kind = "stop"
      BY <1>6 DEF ReceiveStop, Receive, r
    <3>. QED
      BY <1>3, <1>6, <3>1 DEF ReceiveRequest, Request, StopInv, Started
  <2>2. CASE record[r.worker] = "running"
    <3>1. /\ record' = [record EXCEPT ![r.worker] = "stopped"]
          /\ stopping' = [stopping EXCEPT ![r.worker] = r.call]
          /\ UNCHANGED wire
      BY <1>6, <2>2 DEF ReceiveStop, r
    <3>. QED
      BY <1>2, <2>1, <3>1 DEF Onward, GoodFrames, GoodStops, Past, TypeOK
  <2>3. CASE record[r.worker] # "running"
    <3>1. UNCHANGED <<record, stopping>> /\ Send(<<Answer("stopped", r.call, r.worker)>>)
      BY <1>6, <2>3 DEF ReceiveStop, r
    <3>2. record[r.worker] \in Past
      BY <2>1, <2>3 DEF TypeOK, Past
    <3>3. Answer("stopped", r.call, r.worker) \in Frame
      BY <2>1, MessageTypes
    <3>4. Range(wire') \subseteq Range(wire) \cup {Answer("stopped", r.call, r.worker)}
      BY <3>1, <3>3, SendRange
    <3>5. GoodFrames
      BY <3>1, <3>2, <3>4 DEF GoodFrames, Answer
    <3>. QED
      BY <1>2, <2>1, <3>1, <3>5 DEF Onward, GoodStops
  <2>. QED
    BY <2>2, <2>3
<1>7. ASSUME NEW c \in Call, LaunchFails(c)
      PROVE  Onward /\ GoodFrames /\ GoodRequests /\ GoodStops /\ GoodStates
  <2>1. Answer("refused", c, None) \in Frame
    BY DEF Answer, Frame
  <2>2. Range(wire') \subseteq Range(wire) \cup {Answer("refused", c, None)}
    BY <1>7, <2>1, SendRange DEF LaunchFails
  <2>3. GoodFrames
    BY <2>2 DEF GoodFrames, Answer
  <2>. QED
    BY <1>2, <1>7, <2>3 DEF LaunchFails, Onward, GoodRequests, GoodStops
<1>8. ASSUME NEW c \in Call, NEW i \in Instance, Launch(c, i)
      PROVE  Onward /\ GoodFrames /\ GoodRequests /\ GoodStops /\ GoodStates
  <2>1. Range(wire') \subseteq Range(wire) \cup {Answer("spawned", c, i)}
    BY <1>8, MessageTypes, SendRange DEF Launch, SpawnProcess
  <2>2. record' = [record EXCEPT ![i] = "running"] /\ record[i] = "none"
    BY <1>8 DEF Launch, SpawnProcess
  <2>3. GoodFrames
    BY <2>1, <2>2 DEF GoodFrames, Answer, TypeOK
  <2>4. Onward
    BY <2>2 DEF Onward, Past, TypeOK
  <2>. QED
    BY <1>2, <1>8, <2>3, <2>4 DEF Launch, SpawnProcess, GoodRequests, GoodStops
<1>. QED
  BY <1>4, <1>5, <1>6, <1>7, <1>8 DEF ReceiveRequest, LaunchReturns

\* A stop that waits returns about a worker that has stopped.
LEMMA StopReturned ==
  ASSUME TypeOK, StopInv, Onward, NEW i \in Instance, StopReturns(i)
  PROVE  GoodFrames /\ GoodStops
<1>1. GoodStops
  BY DEF StopReturns, GoodStops, TypeOK
<1>2. CASE stopping[i] = None
  BY <1>1, <1>2 DEF StopReturns, GoodFrames
<1>3. CASE stopping[i] # None
  <2>1. stopping[i] \in Call /\ record[i] \in Past
    BY <1>3 DEF TypeOK, StopInv, Ended
  <2>2. Answer("stopped", stopping[i], i) \in Frame /\ Send(<<Answer("stopped", stopping[i], i)>>)
    BY <1>3, <2>1, MessageTypes DEF StopReturns
  <2>3. Range(wire') \subseteq Range(wire) \cup {Answer("stopped", stopping[i], i)}
    BY <2>2, SendRange
  <2>. QED
    BY <1>1, <2>1, <2>3 DEF GoodFrames, Answer, Onward
<1>. QED
  BY <1>2, <1>3

\* Workers answer no stop by themselves, and their exit keeps what stop() recorded.
LEMMA StopWorker ==
  ASSUME TypeOK, StopInv, NEW i \in Instance,
         \/ StopGrace(i) \/ TakePrompt(i) \/ TakeAbort(i) \/ Settle(i) \/ Usage(i)
         \/ WorkerExit(i)
  PROVE  Onward /\ GoodFrames /\ GoodRequests /\ GoodStops /\ GoodStates
<1>1. UNCHANGED <<state, requests>>
  BY DEF StopGrace, TakePrompt, TakeAbort, Settle, Usage, WorkerExit, serverVars, connVars
<1>2. GoodRequests /\ GoodStates
  BY <1>1 DEF GoodRequests, GoodStates
<1>3. Onward
  <2>1. CASE WorkerExit(i)
    BY <2>1 DEF WorkerExit, Onward, Past, TypeOK
  <2>2. CASE ~WorkerExit(i)
    BY <2>2 DEF StopGrace, TakePrompt, TakeAbort, Settle, Usage, agentVars, Onward
  <2>. QED
    BY <2>1, <2>2
<1>4. CASE StopGrace(i) \/ WorkerExit(i)
  BY <1>2, <1>3, <1>4, StopReturned DEF StopGrace, WorkerExit
<1>5. CASE TakePrompt(i) \/ TakeAbort(i) \/ Settle(i) \/ Usage(i)
  <2>1. UNCHANGED stopping
    BY <1>5 DEF TakePrompt, TakeAbort, Settle, Usage, agentVars
  <2>2. UNCHANGED wire \/ Send(<<Settled(i)>>)
    BY <1>5 DEF TakePrompt, TakeAbort, Settle, Usage, connVars, RunSettles
  <2>3. Settled(i) \in Frame
    <3>1. run[i] \in SUBSET Call
      BY DEF TypeOK
    <3>. QED
      BY <3>1 DEF Settled, Frame
  <2>4. UNCHANGED wire \/ Range(wire') \subseteq Range(wire) \cup {Settled(i)}
    BY <2>2, <2>3, SendRange
  <2>5. GoodFrames
    BY <2>4 DEF GoodFrames, Settled
  <2>. QED
    BY <1>2, <1>3, <2>1, <2>5 DEF GoodStops
<1>. QED
  BY <1>4, <1>5

\* Every step keeps what stopping promises.
LEMMA StopNext == TypeOK /\ TypeOK' /\ StopInv /\ [Next]_vars => StopInv'
<1>. SUFFICES ASSUME TypeOK, TypeOK', StopInv, [Next]_vars
              PROVE  StopInv'
  OBVIOUS
<1>1. CASE UNCHANGED vars
  BY <1>1 DEF vars, agentVars, connVars, serverVars, StopInv, Started, Ended
<1>2. CASE Next
  <2>1. Onward /\ GoodFrames /\ GoodRequests /\ GoodStops /\ GoodStates
    BY <1>2, StopTools, StopRead, StopAgent, StopWorker, Zenon DEF Next
  <2>. QED
    BY <2>1, GoodStep
<1>. QED
  BY <1>1, <1>2

\* A worker the orchestrator shows as stopped takes no prompt any more: by the time any
\* stop is answered, also a second one, its record has left the running state for good.
THEOREM StoppedStays == Spec => []StoppedForGood
<1>1. Init => StopInv
  BY DEF Init, StopInv, Started, Ended, Range
<1>2. StopInv => StoppedForGood
  BY DEF StopInv, Ended, Past, StoppedForGood
<1>. QED
  BY <1>1, <1>2, StopNext, TypeCorrect, PTL DEF Spec

(***************************************************************************)
(* Whose settle it is.                                                     *)
(***************************************************************************)

\* e is the first member of S in the queue.
IsFirst(e, S, queue) == \E k \in DOMAIN queue : queue[k] = e /\ \A j \in 1..(k - 1) : queue[j] \notin S

PromptOf(c, i) == [kind |-> "prompt", call |-> c, worker |-> i]
PromptsOf(i) == [kind: {"prompt"}, call: Call, worker: {i}]

\* Nothing on the wire would end a wait for the worker.
NoSettle(i) == \A f \in Range(wire) : ~(f.kind = "settled" /\ f.worker = i)

\* The prompt of c is in the present run, or the worker is idle and it is the next one
\* the worker takes, or the agent is about to write it, or it has been dropped for good.
Undecided(c, i) ==
  \/ c \in run[i]
  \/ /\ run[i] = {}
     /\ \/ IsFirst(c, Call, stdin[i])
        \/ /\ Range(stdin[i]) \cap Call = {}
           /\ \/ IsFirst(PromptOf(c, i), PromptsOf(i), requests)
              \/ record[i] \in Past

\* What holds of a prompt that was sent alone, until its run settles.
Unsettled(c) ==
  /\ pc[c] \notin {"none", "asked", "settled"}
  /\ target[c] \in Instance
  /\ NoSettle(target[c])
  /\ Undecided(c, target[c])

TruthInv == \A c \in alone \ answered : Unsettled(c)

\* The first stays the first when another joins the queue.
LEMMA FirstStays ==
  ASSUME NEW T, NEW S, NEW queue \in Seq(T), NEW e, NEW x \in T, IsFirst(e, S, queue)
  PROVE  IsFirst(e, S, Append(queue, x))
<1>1. /\ Append(queue, x) \in Seq(T) /\ Len(Append(queue, x)) = Len(queue) + 1
      /\ \A k \in 1..Len(queue) : Append(queue, x)[k] = queue[k]
  OBVIOUS
<1>2. Len(queue) \in Nat /\ DOMAIN queue = 1..Len(queue)
      /\ DOMAIN Append(queue, x) = 1..(Len(queue) + 1)
  BY <1>1
<1>3. PICK k \in 1..Len(queue) : queue[k] = e /\ \A j \in 1..(k - 1) : queue[j] \notin S
  BY <1>2 DEF IsFirst
<1>4. k \in 1..(Len(queue) + 1) /\ \A j \in 1..(k - 1) : j \in 1..Len(queue)
  BY <1>2
<1>. QED
  BY <1>1, <1>2, <1>3, <1>4 DEF IsFirst

\* What joins a queue without members of S is the first.
LEMMA FirstBegins ==
  ASSUME NEW T, NEW S, NEW queue \in Seq(T), NEW e \in T, Range(queue) \cap S = {}
  PROVE  IsFirst(e, S, Append(queue, e))
<1>1. /\ Append(queue, e) \in Seq(T) /\ Len(Append(queue, e)) = Len(queue) + 1
      /\ \A k \in 1..Len(queue) : Append(queue, e)[k] = queue[k]
      /\ Append(queue, e)[Len(queue) + 1] = e
  OBVIOUS
<1>2. Len(queue) \in Nat /\ DOMAIN queue = 1..Len(queue)
      /\ DOMAIN Append(queue, e) = 1..(Len(queue) + 1)
  BY <1>1
<1>3. \A j \in 1..Len(queue) : queue[j] \notin S
  BY <1>2 DEF Range
<1>4. Len(queue) + 1 \in DOMAIN Append(queue, e) /\ (Len(queue) + 1) - 1 = Len(queue)
  BY <1>2
<1>. QED
  BY <1>1, <1>3, <1>4 DEF IsFirst

\* The head of the queue is the first, or none of S and the first stays behind it.
LEMMA FirstTaken ==
  ASSUME NEW T, NEW S, NEW queue \in Seq(T), NEW e, queue # <<>>, IsFirst(e, S, queue)
  PROVE  Head(queue) = e \/ (Head(queue) \notin S /\ IsFirst(e, S, Tail(queue)))
<1>1. /\ Len(queue) \in Nat \ {0} /\ Head(queue) = queue[1]
      /\ Tail(queue) \in Seq(T) /\ Len(Tail(queue)) = Len(queue) - 1
      /\ \A k \in 1..(Len(queue) - 1) : Tail(queue)[k] = queue[k + 1]
  OBVIOUS
<1>2. DOMAIN queue = 1..Len(queue) /\ DOMAIN Tail(queue) = 1..(Len(queue) - 1)
  BY <1>1
<1>3. PICK k \in 1..Len(queue) : queue[k] = e /\ \A j \in 1..(k - 1) : queue[j] \notin S
  BY <1>2 DEF IsFirst
<1>4. CASE k = 1
  BY <1>1, <1>3, <1>4
<1>5. CASE k # 1
  <2>1. k - 1 \in 1..(Len(queue) - 1) /\ 1 \in 1..(k - 1) /\ (k - 1) + 1 = k
    BY <1>1, <1>5
  <2>2. Tail(queue)[k - 1] = e
    BY <1>1, <1>3, <2>1
  <2>3. ASSUME NEW j \in 1..((k - 1) - 1)
        PROVE  Tail(queue)[j] \notin S
    <3>1. j \in 1..(Len(queue) - 1) /\ j + 1 \in 1..(k - 1)
      BY <1>1
    <3>. QED
      BY <1>1, <1>3, <3>1
  <2>4. Head(queue) \notin S
    BY <1>1, <1>3, <2>1
  <2>. QED
    BY <1>2, <2>1, <2>2, <2>3, <2>4 DEF IsFirst
<1>. QED
  BY <1>4, <1>5

\* A prompt stays undecided when the process and the queues before it stay as they are.
LEMMA UndecidedFrame ==
  ASSUME NEW c, NEW i, Undecided(c, i), UNCHANGED <<run, stdin>>,
         record[i] \in Past => record'[i] \in Past,
         IsFirst(PromptOf(c, i), PromptsOf(i), requests)
           => IsFirst(PromptOf(c, i), PromptsOf(i), requests')
  PROVE  Undecided(c, i)'
BY DEF Undecided, PromptOf, PromptsOf

\* Nothing joins the wire, or what joins it is no settle of the worker.
LEMMA NoSettleSent ==
  ASSUME TypeOK, NEW i, NoSettle(i), NEW f \in Frame, ~(f.kind = "settled" /\ f.worker = i),
         UNCHANGED wire \/ Send(<<f>>)
  PROVE  NoSettle(i)'
<1>1. Range(wire') \subseteq Range(wire) \cup {f}
  BY SendRange
<1>. QED
  BY <1>1 DEF NoSettle

\* A request that joins the queue leaves the first prompt the first.
LEMMA RequestJoins ==
  ASSUME TypeOK, NEW c, NEW i, NEW r \in Request, requests' = Append(requests, r),
         IsFirst(PromptOf(c, i), PromptsOf(i), requests)
  PROVE  IsFirst(PromptOf(c, i), PromptsOf(i), requests')
<1>1. requests \in Seq(Request)
  BY DEF TypeOK
<1>2. IsFirst(PromptOf(c, i), PromptsOf(i), Append(requests, r))
  BY <1>1, FirstStays
<1>. QED
  BY <1>2

\* The connection and the tools that do not prompt decide no prompt.
LEMMA TruthTools ==
  ASSUME TypeOK, TruthInv,
         \/ Connect \/ Break
         \/ \E d \in Call : ToolSpawn(d) \/ CallTimeout(d)
         \/ \E d \in Call, i \in Instance : ToolAbort(d, i) \/ ToolStop(d, i),
         NEW c \in alone' \ answered'
  PROVE  Unsettled(c)'
<1>1. ~Break
  BY DEF Break
<1>2. c \in alone \ answered /\ Unsettled(c) /\ c \in Call
  BY <1>1 DEF Connect, ToolSpawn, CallTimeout, ToolAbort, ToolStop, historyVars, TruthInv, TypeOK
<1>3. UNCHANGED <<run, stdin, record, wire>>
  BY <1>1 DEF Connect, ToolSpawn, CallTimeout, ToolAbort, ToolStop, workerVars, agentVars, connVars
<1>4. /\ pc'[c] \notin {"none", "asked", "settled"}
      /\ target'[c] = target[c]
  <2>1. CASE Connect
    BY <1>2, <2>1 DEF Connect, serverVars, Unsettled
  <2>2. ASSUME NEW d \in Call, ToolSpawn(d) \/ CallTimeout(d)
        PROVE  pc'[c] \notin {"none", "asked", "settled"} /\ target'[c] = target[c]
    BY <1>2, <2>2 DEF ToolSpawn, Begin, CallTimeout, Unsettled, TypeOK
  <2>3. ASSUME NEW d \in Call, NEW i \in Instance, ToolAbort(d, i) \/ ToolStop(d, i)
        PROVE  pc'[c] \notin {"none", "asked", "settled"} /\ target'[c] = target[c]
    BY <1>2, <2>3 DEF ToolAbort, ToolStop, Begin, Unsettled, TypeOK
  <2>. QED
    BY <1>1, <2>1, <2>2, <2>3
<1>5. UNCHANGED requests \/ \E r \in Request : requests' = Append(requests, r)
  <2>1. CASE Connect \/ \E d \in Call : CallTimeout(d)
    BY <2>1 DEF Connect, CallTimeout, connVars
  <2>2. ASSUME NEW d \in Call, ToolSpawn(d)
        PROVE  \E r \in Request : requests' = Append(requests, r)
    <3>1. [kind |-> "spawn", call |-> d, worker |-> None] \in Request
      BY DEF Request
    <3>. QED
      BY <2>2, <3>1 DEF ToolSpawn, Ask
  <2>3. ASSUME NEW d \in Call, NEW i \in Instance, ToolAbort(d, i) \/ ToolStop(d, i)
        PROVE  \E r \in Request : requests' = Append(requests, r)
    BY <2>3, MessageTypes DEF ToolAbort, ToolStop, Ask
  <2>. QED
    BY <1>1, <2>1, <2>2, <2>3
<1>6. Undecided(c, target[c])'
  <2>1. Undecided(c, target[c])
    BY <1>2 DEF Unsettled
  <2>2. IsFirst(PromptOf(c, target[c]), PromptsOf(target[c]), requests)
          => IsFirst(PromptOf(c, target[c]), PromptsOf(target[c]), requests')
    BY <1>5, RequestJoins
  <2>3. \A i : Undecided(c, i) /\ (IsFirst(PromptOf(c, i), PromptsOf(i), requests)
                                     => IsFirst(PromptOf(c, i), PromptsOf(i), requests'))
               => Undecided(c, i)'
    BY <1>3, UndecidedFrame
  <2>. QED
    BY <1>4, <2>1, <2>2, <2>3 DEF Undecided
<1>. QED
  BY <1>2, <1>3, <1>4, <1>6 DEF Unsettled, NoSettle

\* A prompt that is sent alone is the first for its worker, which is idle; the others
\* stay before it.
LEMMA TruthPrompt ==
  ASSUME TypeOK, TruthInv, NEW d \in Call, NEW i \in Instance, NEW tool \in {"prompt", "send"},
         Prompt(d, i, tool), NEW c \in alone' \ answered'
  PROVE  Unsettled(c)'
<1>1. /\ pc[d] = "none" /\ pc'[d] \in {"waiting", "done"}
      /\ \A e \in Call \ {d} : pc'[e] = pc[e]
      /\ target' = [target EXCEPT ![d] = i]
      /\ requests' = Append(requests, PromptOf(d, i))
      /\ UNCHANGED <<run, stdin, record, wire, answered>>
  BY DEF Prompt, Begin, Ask, PromptOf, agentVars, workerVars, TypeOK
<1>2. PromptOf(d, i) \in Request /\ requests \in Seq(Request)
  BY MessageTypes DEF PromptOf, TypeOK
<1>3. CASE c \in alone
  <2>1. Unsettled(c) /\ c \in Call
    BY <1>1, <1>3 DEF TruthInv, TypeOK
  <2>2. c # d
    BY <1>1, <2>1 DEF Unsettled
  <2>3. pc'[c] = pc[c] /\ target'[c] = target[c]
    BY <1>1, <2>1, <2>2 DEF TypeOK
  <2>4. Undecided(c, target[c])'
    <3>1. Undecided(c, target[c])
      BY <2>1 DEF Unsettled
    <3>2. \A j : Undecided(c, j) => Undecided(c, j)'
      BY <1>1, <1>2, RequestJoins, UndecidedFrame
    <3>. QED
      BY <2>3, <3>1, <3>2 DEF Undecided
  <2>. QED
    BY <1>1, <2>1, <2>3, <2>4 DEF Unsettled, NoSettle
<1>4. CASE c \notin alone
  <2>1. c = d /\ Quiet(i)
    <3>. HIDE DEF Quiet
    <3>. QED
      BY <1>4 DEF Prompt, Ask
  <2>2. /\ run[i] = {}
        /\ Range(stdin[i]) \cap Call = {}
        /\ NoSettle(i)
    BY <2>1, ConstantsAssumption DEF Quiet, NoSettle
  <2>3. Range(requests) \cap PromptsOf(i) = {}
    BY <2>1 DEF Quiet, PromptsOf
  <2>4. IsFirst(PromptOf(c, i), PromptsOf(i), requests')
    BY <1>1, <1>2, <2>1, <2>3, FirstBegins
  <2>5. target'[c] = i
    BY <1>1, <2>1 DEF TypeOK
  <2>. QED
    BY <1>1, <2>1, <2>2, <2>4, <2>5 DEF Unsettled, Undecided, NoSettle
<1>. QED
  BY <1>3, <1>4

\* A frame that is read is no settle of a worker whose prompt is undecided.
LEMMA TruthRead ==
  ASSUME TypeOK, TruthInv, ReadFrame, NEW c \in alone' \ answered'
  PROVE  Unsettled(c)'
<1>. DEFINE f == Head(wire)
<1>1. Read /\ UNCHANGED <<run, stdin, record, requests, answered, alone>>
  BY DEF ReadFrame, ReadSpawned, ReadStopped, ReadRefused, ReadSettled, agentVars, workerVars,
         historyVars
<1>2. c \in alone \ answered /\ Unsettled(c) /\ c \in Call
  BY <1>1 DEF TruthInv, TypeOK
<1>3. f \in Range(wire) /\ Range(wire') \subseteq Range(wire)
  BY <1>1, ReadRange
<1>4. ~(f.kind = "settled" /\ f.worker = target[c])
  BY <1>2, <1>3 DEF Unsettled, NoSettle
<1>5. pc'[c] = pc[c] /\ target'[c] = target[c]
  <2>0. pc[c] # "asked"
    BY <1>2 DEF Unsettled
  <2>1. CASE ReadSpawned
    <3>1. \/ UNCHANGED <<pc, target>>
          \/ /\ pc[f.call] = "asked"
             /\ pc' = [pc EXCEPT ![f.call] = "done"]
             /\ target' = [target EXCEPT ![f.call] = f.worker]
      BY <2>1 DEF ReadSpawned
    <3>. HIDE DEF f
    <3>. QED
      BY <1>2, <2>0, <3>1 DEF TypeOK
  <2>2. CASE ReadStopped \/ ReadRefused
    <3>1. /\ UNCHANGED target
          /\ \/ UNCHANGED pc
             \/ /\ pc[f.call] = "asked"
                /\ \E to \in {"done", "failed"} : pc' = [pc EXCEPT ![f.call] = to]
      BY <2>2 DEF ReadStopped, ReadRefused
    <3>. HIDE DEF f
    <3>. QED
      BY <1>2, <2>0, <3>1 DEF TypeOK
  <2>3. CASE ReadSettled
    <3>1. /\ UNCHANGED target
          /\ f.kind = "settled"
          /\ \/ UNCHANGED pc
             \/ pc' = [d \in Call |-> IF d \in Waiters(f.worker) THEN "settled" ELSE pc[d]]
      BY <2>3 DEF ReadSettled
    <3>2. c \notin Waiters(f.worker)
      BY <1>4, <3>1 DEF Waiters
    <3>. HIDE DEF f
    <3>. QED
      BY <1>2, <3>1, <3>2
  <2>. QED
    BY <2>1, <2>2, <2>3 DEF ReadFrame
<1>6. NoSettle(target[c])'
  BY <1>2, <1>3, <1>5 DEF Unsettled, NoSettle
<1>. QED
  BY <1>1, <1>2, <1>5, <1>6 DEF Unsettled, Undecided

\* The agent writes an undecided prompt to an idle worker, or drops it for a worker that
\* takes no prompt any more.
LEMMA TruthReceive ==
  ASSUME TypeOK, TruthInv, StopInv, ReceiveRequest, NEW c \in alone' \ answered'
  PROVE  Unsettled(c)'
<1>. DEFINE r == Head(requests)
<1>1. /\ requests # <<>> /\ requests' = Tail(requests)
      /\ UNCHANGED <<run, pc, target, answered, alone>>
  BY DEF ReceiveRequest, ReceiveSpawn, ReceiveRpc, ReceiveStop, Receive, workerVars, serverVars,
         historyVars
<1>2. Unsettled(c) /\ c \in Call
  BY <1>1 DEF TruthInv, TypeOK
<1>. PICK i \in Instance : i = target[c] /\ i = target'[c] /\ NoSettle(i) /\ Undecided(c, i)
  BY <1>1, <1>2 DEF Unsettled
<1>. DEFINE first(queue) == IsFirst(PromptOf(c, i), PromptsOf(i), queue)
<1>3. r \in Request /\ r \in Range(requests)
  <2>1. \E kinds : Receive(kinds)
    BY DEF ReceiveRequest, ReceiveSpawn, ReceiveRpc, ReceiveStop
  <2>. QED
    BY <2>1, ReceiveRange
<1>4. first(requests) => r = PromptOf(c, i) \/ (r \notin PromptsOf(i) /\ first(Tail(requests)))
  BY <1>1, FirstTaken DEF TypeOK
<1>. HIDE DEF r
<1>5. NoSettle(i)'
  <2>1. CASE ReceiveSpawn
    <3>1. UNCHANGED wire \/ Send(<<Answer("refused", r.call, None)>>)
      BY <2>1 DEF ReceiveSpawn, r
    <3>2. Answer("refused", r.call, None) \in Frame
      BY <1>3, <2>1 DEF Request, Answer, Frame
    <3>. QED
      BY <3>1, <3>2, NoSettleSent DEF Answer
  <2>2. CASE ReceiveRpc
    BY <2>2 DEF ReceiveRpc, NoSettle
  <2>3. CASE ReceiveStop
    <3>1. UNCHANGED wire \/ Send(<<Answer("stopped", r.call, r.worker)>>)
      BY <2>3 DEF ReceiveStop, r
    <3>2. r.kind = "stop"
      BY <2>3 DEF ReceiveStop, Receive, r
    <3>3. Answer("stopped", r.call, r.worker) \in Frame
      BY <1>3, <3>2 DEF Request, Answer, Frame
    <3>. QED
      BY <3>1, <3>3, NoSettleSent DEF Answer
  <2>. QED
    BY <2>1, <2>2, <2>3 DEF ReceiveRequest
<1>. SUFFICES Undecided(c, i)'
  BY <1>1, <1>2, <1>5 DEF Unsettled, NoSettle, Undecided
<1>6. ASSUME stdin'[i] = stdin[i], record[i] \in Past => record'[i] \in Past,
             r = PromptOf(c, i) => record[i] # "running"
      PROVE  Undecided(c, i)'
  <2>1. r = PromptOf(c, i) => record[i] \in Past
    <3>1. r = PromptOf(c, i) => record[i] # "none"
      BY <1>3 DEF StopInv, Started, PromptOf, r
    <3>. QED
      BY <1>2, <1>6, <3>1 DEF TypeOK, Past
  <2>. QED
    BY <1>1, <1>4, <1>6, <2>1 DEF Undecided
<1>7. ASSUME NEW x \in Call \cup {Abort}, record[i] = "running",
             stdin' = [stdin EXCEPT ![i] = Append(@, x)],
             r = PromptOf(x, i) \/ (x = Abort /\ r \notin PromptsOf(i))
      PROVE  Undecided(c, i)'
  <2>1. stdin[i] \in Seq(Call \cup {Abort}) /\ stdin'[i] = Append(stdin[i], x)
    BY <1>2, <1>7 DEF TypeOK
  <2>2. IsFirst(c, Call, stdin[i]) => IsFirst(c, Call, stdin'[i])
    <3>1. IsFirst(c, Call, stdin[i]) => IsFirst(c, Call, Append(stdin[i], x))
      BY <2>1, FirstStays
    <3>. QED
      BY <2>1, <3>1, Zenon
  <2>3. Range(stdin[i]) \cap Call = {} /\ x = c => IsFirst(c, Call, stdin'[i])
    <3>1. Range(stdin[i]) \cap Call = {} => IsFirst(x, Call, Append(stdin[i], x))
      BY <2>1, FirstBegins, Zenon
    <3>. QED
      BY <2>1, <3>1, Zenon
  <2>4. Range(stdin[i]) \cap Call = {} /\ x = Abort => Range(stdin'[i]) \cap Call = {}
    BY <2>1, AppendRange, ConstantsAssumption
  <2>5. record[i] \notin Past
    BY <1>7 DEF Past
  <2>6. first(requests) => x = c \/ (x = Abort /\ first(requests'))
    <3>1. r = PromptOf(x, i) => x \in Call
      BY <1>3 DEF Request, PromptOf
    <3>2. r = PromptOf(x, i) => r \in PromptsOf(i)
      BY <3>1 DEF PromptOf, PromptsOf
    <3>3. r = PromptOf(c, i) => r \in PromptsOf(i) /\ (r = PromptOf(x, i) => x = c)
      BY <1>2 DEF PromptOf, PromptsOf
    <3>. QED
      BY <1>1, <1>4, <1>7, <3>2, <3>3
  <2>7. CASE c \in run[i]
    BY <1>1, <2>7 DEF Undecided
  <2>8. CASE c \notin run[i]
    <3>1. /\ run'[i] = {}
          /\ \/ IsFirst(c, Call, stdin[i])
             \/ Range(stdin[i]) \cap Call = {} /\ first(requests)
      BY <1>1, <2>5, <2>8 DEF Undecided
    <3>2. IsFirst(c, Call, stdin'[i]) \/ (Range(stdin'[i]) \cap Call = {} /\ first(requests'))
      BY <2>2, <2>3, <2>4, <2>6, <3>1
    <3>. QED
      BY <1>1, <3>1, <3>2 DEF Undecided
  <2>. QED
    BY <2>7, <2>8
<1>8. CASE ReceiveSpawn
  <2>1. r.kind = "spawn" /\ UNCHANGED <<stdin, record>>
    BY <1>8 DEF ReceiveSpawn, Receive, workerVars, r
  <2>. QED
    BY <1>6, <2>1 DEF PromptOf
<1>9. CASE ReceiveRpc
  <2>. DEFINE x == IF r.kind = "prompt" THEN r.call ELSE Abort
  <2>1. /\ r.kind \in {"prompt", "abort"} /\ UNCHANGED record
        /\ stdin' = IF record[r.worker] = "running"
                      THEN [stdin EXCEPT ![r.worker] = Append(@, x)] ELSE stdin
    BY <1>9 DEF ReceiveRpc, Receive, WriteRpc, agentVars, r
  <2>2. x \in Call \cup {Abort}
    BY <1>3, <2>1 DEF Request
  <2>3. CASE r.worker = i /\ record[i] = "running"
    <3>1. r = PromptOf(x, i) \/ (x = Abort /\ r \notin PromptsOf(i))
      BY <1>3, <2>1, <2>3 DEF Request, PromptOf, PromptsOf
    <3>2. stdin' = [stdin EXCEPT ![i] = Append(@, x)]
      BY <2>1, <2>3
    <3>. HIDE DEF x
    <3>. QED
      BY <1>7, <2>2, <2>3, <3>1, <3>2
  <2>4. CASE ~(r.worker = i /\ record[i] = "running")
    <3>1. stdin'[i] = stdin[i]
      BY <1>2, <2>1, <2>4 DEF TypeOK
    <3>. QED
      BY <1>6, <2>1, <2>4, <3>1 DEF PromptOf
  <2>. QED
    BY <2>3, <2>4
<1>10. CASE ReceiveStop
  <2>1. /\ r.kind = "stop"
        /\ IF record[r.worker] = "running"
           THEN /\ record' = [record EXCEPT ![r.worker] = "stopped"]
                /\ stdin' = [stdin EXCEPT ![r.worker] = Append(@, Abort)]
           ELSE UNCHANGED <<record, stdin>>
    BY <1>10 DEF ReceiveStop, Receive, r
  <2>2. CASE r.worker = i /\ record[i] = "running"
    BY <1>7, <2>1, <2>2 DEF PromptsOf
  <2>3. CASE ~(r.worker = i /\ record[i] = "running")
    <3>1. stdin'[i] = stdin[i] /\ record'[i] = record[i]
      BY <1>2, <2>1, <2>3, ZenonT(60) DEF TypeOK
    <3>. QED
      BY <1>6, <2>1, <3>1 DEF PromptOf
  <2>. QED
    BY <2>2, <2>3
<1>. QED
  BY <1>8, <1>9, <1>10 DEF ReceiveRequest

\* What a stop that returns sends is no settle.
LEMMA StopReturnsSilent ==
  ASSUME TypeOK, NEW j \in Instance, StopReturns(j), NEW i, NoSettle(i)
  PROVE  NoSettle(i)'
<1>1. CASE stopping[j] = None
  BY <1>1 DEF StopReturns, NoSettle
<1>2. CASE stopping[j] # None
  <2>1. stopping[j] \in Call
    BY <1>2 DEF TypeOK
  <2>2. Answer("stopped", stopping[j], j) \in Frame
    BY <2>1, MessageTypes
  <2>3. Send(<<Answer("stopped", stopping[j], j)>>)
    BY <1>2 DEF StopReturns
  <2>. QED
    BY <2>2, <2>3, NoSettleSent DEF Answer
<1>. QED
  BY <1>1, <1>2

\* A launch is of a worker that was never prompted, and a kill leaves stdin as it is.
LEMMA TruthLaunch ==
  ASSUME TypeOK, TruthInv,
         (\E d \in Call : LaunchReturns(d)) \/ \E j \in Instance : StopGrace(j),
         NEW c \in alone' \ answered'
  PROVE  Unsettled(c)'
<1>1. UNCHANGED <<run, stdin, requests, pc, target, answered, alone>>
  BY DEF LaunchReturns, LaunchFails, Launch, SpawnProcess, StopGrace, workerVars, serverVars,
         historyVars
<1>2. Unsettled(c)
  BY <1>1 DEF TruthInv
<1>. PICK i \in Instance : i = target[c] /\ i = target'[c] /\ NoSettle(i) /\ Undecided(c, i)
  BY <1>1, <1>2 DEF Unsettled
<1>3. record[i] \in Past => record'[i] \in Past
  <2>1. UNCHANGED record \/ \E j \in Instance : record[j] = "none"
                                                /\ record' = [record EXCEPT ![j] = "running"]
    BY DEF LaunchReturns, LaunchFails, Launch, SpawnProcess, StopGrace
  <2>. QED
    BY <2>1 DEF TypeOK, Past
<1>4. NoSettle(i)'
  <2>1. ASSUME NEW d \in Call, LaunchFails(d)
        PROVE  NoSettle(i)'
    <3>1. Answer("refused", d, None) \in Frame
      BY DEF Answer, Frame
    <3>. QED
      BY <2>1, <3>1, NoSettleSent DEF LaunchFails, Answer
  <2>2. ASSUME NEW d \in Call, NEW j \in Instance, Launch(d, j)
        PROVE  NoSettle(i)'
    BY <2>2, MessageTypes, NoSettleSent DEF Launch, SpawnProcess, Answer
  <2>3. ASSUME NEW j \in Instance, StopGrace(j)
        PROVE  NoSettle(i)'
    BY <2>3, StopReturnsSilent DEF StopGrace
  <2>. QED
    BY <2>1, <2>2, <2>3 DEF LaunchReturns
<1>5. Undecided(c, i)'
  BY <1>1, <1>3, UndecidedFrame
<1>. QED
  BY <1>1, <1>2, <1>4, <1>5 DEF Unsettled, NoSettle, Undecided

\* The worker takes an undecided prompt before any other, into an empty run; the run
\* settles with the prompt in it, or is lost with the worker.
LEMMA TruthWorker ==
  ASSUME TypeOK, TruthInv, NEW j \in Instance,
         TakePrompt(j) \/ TakeAbort(j) \/ Settle(j) \/ Usage(j) \/ WorkerExit(j),
         NEW c \in alone' \ answered'
  PROVE  Unsettled(c)'
<1>1. /\ UNCHANGED <<requests, pc, target, alone>>
      /\ answered \subseteq answered'
  BY DEF TakePrompt, TakeAbort, Settle, Usage, WorkerExit, RunSettles, connVars, serverVars,
         historyVars
<1>2. Unsettled(c) /\ c \in Call
  BY <1>1 DEF TruthInv, TypeOK
<1>. PICK i \in Instance : i = target[c] /\ i = target'[c] /\ NoSettle(i) /\ Undecided(c, i)
  BY <1>1, <1>2 DEF Unsettled
<1>. SUFFICES NoSettle(i)' /\ Undecided(c, i)'
  BY <1>1, <1>2 DEF Unsettled, NoSettle, Undecided
<1>3. Settled(j) \in Frame
  <2>1. run[j] \in SUBSET Call
    BY DEF TypeOK
  <2>. QED
    BY <2>1 DEF Settled, Frame
<1>4. stdin[i] \in Seq(Call \cup {Abort}) /\ stdin \in [Instance -> Seq(Call \cup {Abort})]
      /\ run \in [Instance -> SUBSET Call] /\ record \in [Instance -> {"none", "running", "stopped", "exited"}]
  BY DEF TypeOK
<1>5. CASE j # i
  <2>1. run'[i] = run[i] /\ stdin'[i] = stdin[i] /\ record'[i] = record[i]
    BY <1>4, <1>5 DEF TakePrompt, TakeAbort, Settle, Usage, WriteRpc, WorkerExit, RunSettles,
                      agentVars
  <2>2. Undecided(c, i)'
    BY <1>1, <2>1 DEF Undecided
  <2>3. UNCHANGED wire \/ Send(<<Settled(j)>>) \/ StopReturns(j)
    BY DEF TakePrompt, TakeAbort, Settle, Usage, WorkerExit, RunSettles, connVars
  <2>4. Settled(j).worker # i
    BY <1>5 DEF Settled
  <2>5. NoSettle(i)'
    BY <1>3, <2>3, <2>4, NoSettleSent, StopReturnsSilent
  <2>. QED
    BY <2>2, <2>5
<1>6. CASE TakePrompt(i)
  <2>1. /\ stdin[i] # <<>> /\ Head(stdin[i]) # Abort /\ UNCHANGED wire
        /\ \/ run'[i] = run[i] \cup {Head(stdin[i])}
           \/ run[i] # {} /\ UNCHANGED run
    BY <1>4, <1>6 DEF TakePrompt, connVars
  <2>2. CASE c \in run[i]
    BY <2>1, <2>2 DEF Undecided, NoSettle
  <2>3. CASE c \notin run[i]
    <3>1. Head(stdin[i]) \in Call /\ Head(stdin[i]) \in Range(stdin[i])
      BY <1>4, <2>1, TailRange, HeadTailProperties
    <3>2. run[i] = {} /\ IsFirst(c, Call, stdin[i])
      BY <2>3, <3>1 DEF Undecided
    <3>3. Head(stdin[i]) = c
      BY <1>4, <2>1, <3>1, <3>2, FirstTaken
    <3>. QED
      BY <2>1, <3>2, <3>3 DEF Undecided, NoSettle
  <2>. QED
    BY <2>2, <2>3
<1>7. CASE TakeAbort(i) \/ Settle(i)
  <2>1. c \notin run[i] \/ (UNCHANGED <<wire, run>> /\ run[i] = {})
    BY <1>7 DEF TakeAbort, Settle, RunSettles
  <2>2. run[i] = {}
    BY <2>1 DEF Undecided
  <2>3. /\ UNCHANGED <<wire, run>> /\ stdin[i] # <<>> /\ Head(stdin[i]) = Abort
        /\ stdin'[i] = Tail(stdin[i]) /\ UNCHANGED record
    BY <1>4, <1>7, <2>2 DEF TakeAbort, Settle, agentVars
  <2>4. IsFirst(c, Call, stdin[i]) => IsFirst(c, Call, stdin'[i])
    <3>1. Head(stdin[i]) # c
      BY <1>2, <2>3, ConstantsAssumption
    <3>2. IsFirst(c, Call, stdin[i]) => IsFirst(c, Call, Tail(stdin[i]))
      BY <1>4, <2>3, <3>1, FirstTaken
    <3>. QED
      BY <2>3, <3>2, Zenon
  <2>5. Range(stdin'[i]) \subseteq Range(stdin[i])
    <3>1. Range(Tail(stdin[i])) \subseteq Range(stdin[i])
      BY <1>4, <2>3, TailRange
    <3>. QED
      BY <2>3, <3>1, Zenon
  <2>. QED
    BY <1>1, <2>2, <2>3, <2>4, <2>5 DEF Undecided, NoSettle
<1>8. CASE Usage(i)
  BY <1>8 DEF Usage, Undecided, NoSettle, connVars
<1>9. CASE WorkerExit(i)
  <2>1. run'[i] = {} /\ stdin'[i] = <<>> /\ record'[i] \in Past
    BY <1>4, <1>9 DEF WorkerExit, Past
  <2>2. Range(<<>>) = {}
    BY DEF Range
  <2>3. NoSettle(i)'
    BY <1>9, StopReturnsSilent DEF WorkerExit
  <2>. QED
    BY <2>1, <2>2, <2>3 DEF Undecided
<1>. QED
  BY <1>5, <1>6, <1>7, <1>8, <1>9

\* Every step keeps each undecided prompt from another prompt's settle.
LEMMA TruthNext == TypeOK /\ StopInv /\ TruthInv /\ [Next]_vars => TruthInv'
<1>. SUFFICES ASSUME TypeOK, StopInv, TruthInv, [Next]_vars, NEW c \in alone' \ answered'
              PROVE  Unsettled(c)'
  BY DEF TruthInv
<1>1. CASE UNCHANGED vars
  BY <1>1 DEF vars, agentVars, workerVars, connVars, serverVars, historyVars, TruthInv, Unsettled,
              NoSettle, Undecided
<1>. QED
  BY <1>1, TruthTools, TruthPrompt, TruthRead, TruthReceive, TruthLaunch, TruthWorker, Zenon DEF Next

\* A blocking prompt sent to a quiet worker does not return on the settle of another one:
\* on a connection that lasts it is the first the worker takes, so the first settle of the
\* worker is that of the run it is in, whatever is prompted, aborted or stopped behind it.
THEOREM WaitsAreTrue == Spec => []WaitsTellTruth
<1>1. Init => TruthInv
  BY DEF Init, TruthInv
<1>2. TruthInv => WaitsTellTruth
  BY DEF TruthInv, Unsettled, WaitsTellTruth
<1>3. Init => StopInv
  BY DEF Init, StopInv, Started, Ended, Range
<1>. QED
  BY <1>1, <1>2, <1>3, StopNext, TruthNext, TypeCorrect, PTL DEF Spec

(***************************************************************************)
(* The budget.                                                             *)
(***************************************************************************)

\* A worker without a process has no run.
Unborn(i) == child[i] \in {"none", "gone"} => run[i] = {}

\* A record that runs was made with its process.
Recorded(i) == record[i] = "none" => child[i] = "none"

\* The cost of the present run is part of the worker's; without a run there is none.
BurnIsSpent(i) == burn[i] <= spent[i] /\ (run[i] = {} => burn[i] = 0)

\* The budget is marked as exceeded when it is.
OverIsSpent(i) == over[i] <=> spent[i] > MaxCost

\* In a worker's first run, over the budget, the abort is in its stdin if its record runs.
FirstBreach(i) ==
  (record[i] = "running" /\ burn[i] = spent[i] /\ burn[i] > MaxCost) => Abort \in Range(stdin[i])

\* The parts of the invariant, for one worker.
Budgeted(i) == Unborn(i) /\ Recorded(i) /\ BurnIsSpent(i) /\ OverIsSpent(i) /\ FirstBreach(i)

BudgetInv == \A i \in Instance : Budgeted(i)

\* A member of a queue stays in it until it is its head.
LEMMA TailKeeps ==
  ASSUME NEW S, NEW queue \in Seq(S), queue # <<>>, NEW e \in Range(queue), e # Head(queue)
  PROVE  e \in Range(Tail(queue))
<1>1. /\ Len(queue) \in Nat \ {0} /\ Head(queue) = queue[1]
      /\ Len(Tail(queue)) = Len(queue) - 1 /\ Tail(queue) \in Seq(S)
      /\ \A k \in 1..(Len(queue) - 1) : Tail(queue)[k] = queue[k + 1]
  OBVIOUS
<1>2. DOMAIN queue = 1..Len(queue) /\ DOMAIN Tail(queue) = 1..(Len(queue) - 1)
  BY <1>1
<1>3. PICK k \in 1..Len(queue) : queue[k] = e
  BY <1>2 DEF Range
<1>4. k - 1 \in 1..(Len(queue) - 1) /\ queue[(k - 1) + 1] = e
  BY <1>1, <1>3
<1>5. Tail(queue)[k - 1] = e
  BY <1>1, <1>4
<1>. QED
  BY <1>2, <1>4, <1>5 DEF Range

\* Writing to a worker takes nothing out of any stdin.
LEMMA StdinGrows ==
  ASSUME TypeOK, NEW i \in Instance, NEW j, NEW command \in Call \cup {Abort},
         \/ UNCHANGED stdin
         \/ stdin' = [stdin EXCEPT ![j] = Append(@, command)]
  PROVE  Range(stdin[i]) \subseteq Range(stdin'[i])
<1>1. stdin[i] \in Seq(Call \cup {Abort})
  BY DEF TypeOK
<1>2. CASE stdin'[i] = stdin[i]
  BY <1>2
<1>3. CASE stdin'[i] # stdin[i]
  <2>1. stdin'[i] = Append(stdin[i], command)
    BY <1>3 DEF TypeOK
  <2>2. Range(Append(stdin[i], command)) = Range(stdin[i]) \cup {command}
    BY <1>1, AppendRange
  <2>. QED
    BY <2>1, <2>2, Zenon
<1>. QED
  BY <1>2, <1>3

\* A worker keeps within the invariant if nothing of it changes, except that stdin may grow
\* and the record may stop running.
LEMMA BudgetFrame ==
  ASSUME TypeOK, NEW i \in Instance, Budgeted(i),
         child'[i] = child[i], run'[i] = run[i], burn'[i] = burn[i], spent'[i] = spent[i],
         over'[i] = over[i],
         record'[i] = record[i] \/ (record'[i] = "stopped" /\ record[i] = "running"),
         Range(stdin[i]) \subseteq Range(stdin'[i])
  PROVE  Budgeted(i)'
<1>1. Unborn(i)' /\ Recorded(i)'
  BY DEF Budgeted, Unborn, Recorded
<1>2. BurnIsSpent(i)' /\ OverIsSpent(i)'
  BY DEF Budgeted, BurnIsSpent, OverIsSpent
<1>3. FirstBreach(i)'
  BY DEF Budgeted, FirstBreach
<1>. QED
  BY <1>1, <1>2, <1>3 DEF Budgeted

\* What arrives at the agent or ends there: requests, stops, launches, and what the tools do.
LEMMA BudgetAgent ==
  ASSUME TypeOK, BudgetInv, NEW i \in Instance,
         \/ Connect \/ Break \/ ReadFrame \/ ReceiveRequest
         \/ \E c \in Call : ToolSpawn(c) \/ CallTimeout(c) \/ LaunchReturns(c)
         \/ \E c \in Call, j \in Instance, tool \in {"prompt", "send"} : Prompt(c, j, tool)
         \/ \E c \in Call, j \in Instance : ToolAbort(c, j) \/ ToolStop(c, j)
  PROVE  Budgeted(i)'
<1>. USE DEF agentVars, workerVars, connVars, serverVars, historyVars
<1>1. Budgeted(i)
  BY DEF BudgetInv
<1>2. ASSUME UNCHANGED <<record, spent, over, child, stdin, run, burn>>
      PROVE  Budgeted(i)'
  BY <1>1, <1>2, BudgetFrame
<1>3. CASE Connect \/ Break
  BY <1>2, <1>3 DEF Connect, Break
<1>4. CASE ReadFrame
  BY <1>2, <1>4 DEF ReadFrame, ReadSpawned, ReadStopped, ReadRefused, ReadSettled
<1>5. ASSUME NEW c \in Call, ToolSpawn(c) \/ CallTimeout(c) \/ LaunchFails(c)
      PROVE  Budgeted(i)'
  BY <1>2, <1>5 DEF ToolSpawn, CallTimeout, LaunchFails
<1>6. ASSUME NEW c \in Call, NEW j \in Instance,
             \/ \E tool \in {"prompt", "send"} : Prompt(c, j, tool)
             \/ ToolAbort(c, j) \/ ToolStop(c, j)
      PROVE  Budgeted(i)'
  BY <1>2, <1>6 DEF Prompt, ToolAbort, ToolStop
<1>7. ASSUME NEW c \in Call, NEW j \in Instance, Launch(c, j)
      PROVE  Budgeted(i)'
  <2>1. CASE i # j
    <3>1. child'[i] = child[i] /\ record'[i] = record[i]
      BY <1>7, <2>1 DEF Launch, SpawnProcess, TypeOK
    <3>. QED
      BY <1>1, <1>7, <3>1, BudgetFrame DEF Launch
  <2>2. CASE i = j
    <3>1. /\ record[i] = "none" /\ record'[i] = "running" /\ child'[i] = "alive"
          /\ UNCHANGED <<spent, over, run, burn>>
      BY <1>7, <2>2 DEF Launch, SpawnProcess, TypeOK
    <3>2. burn[i] = 0
      BY <1>1, <3>1 DEF Budgeted, Unborn, Recorded, BurnIsSpent
    <3>3. ~(burn'[i] > MaxCost)
      BY <3>1, <3>2, ConstantsAssumption
    <3>. QED
      BY <1>1, <3>1, <3>3 DEF Budgeted, Unborn, Recorded, BurnIsSpent, OverIsSpent, FirstBreach
  <2>. QED
    BY <2>1, <2>2
<1>8. CASE ReceiveSpawn
  BY <1>2, <1>8 DEF ReceiveSpawn
<1>9. CASE ReceiveRpc \/ ReceiveStop
  <2>1. /\ UNCHANGED <<spent, over, child, run, burn>>
        /\ record'[i] = record[i] \/ (record'[i] = "stopped" /\ record[i] = "running")
    BY <1>9 DEF ReceiveRpc, ReceiveStop, TypeOK
  <2>2. PICK r \in Request : r = Head(requests)
    BY <1>9, HeadTypes DEF ReceiveRpc, ReceiveStop, Receive
  <2>3. PICK command \in Call \cup {Abort} :
          \/ UNCHANGED stdin
          \/ stdin' = [stdin EXCEPT ![r.worker] = Append(@, command)]
    <3>1. r.call \in Call
      BY DEF Request
    <3>2. CASE ReceiveRpc
      BY <2>2, <3>1, <3>2 DEF ReceiveRpc, WriteRpc
    <3>3. CASE ReceiveStop
      BY <2>2, <3>3 DEF ReceiveStop
    <3>. QED
      BY <1>9, <3>2, <3>3
  <2>4. Range(stdin[i]) \subseteq Range(stdin'[i])
    BY <2>3, StdinGrows
  <2>. QED
    BY <1>1, <2>1, <2>4, BudgetFrame
<1>. QED
  BY <1>3, <1>4, <1>5, <1>6, <1>7, <1>8, <1>9 DEF ReceiveRequest, LaunchReturns

\* The steps of another worker.
LEMMA BudgetOther ==
  ASSUME TypeOK, BudgetInv, NEW i \in Instance, NEW j \in Instance, i # j,
         \/ StopGrace(j) \/ TakePrompt(j) \/ TakeAbort(j) \/ Settle(j) \/ Usage(j) \/ WorkerExit(j)
  PROVE  Budgeted(i)'
<1>. USE DEF agentVars, workerVars, connVars, serverVars, historyVars
<1>1. Budgeted(i)
  BY DEF BudgetInv
<1>2. /\ child'[i] = child[i] /\ run'[i] = run[i] /\ burn'[i] = burn[i] /\ spent'[i] = spent[i]
      /\ over'[i] = over[i] /\ record'[i] = record[i] /\ stdin'[i] = stdin[i]
  <2>1. CASE StopGrace(j)
    BY <2>1 DEF StopGrace, TypeOK
  <2>2. CASE TakePrompt(j)
    BY <2>2 DEF TakePrompt, TypeOK
  <2>3. CASE TakeAbort(j)
    BY <2>3 DEF TakeAbort, RunSettles, TypeOK
  <2>4. CASE Settle(j)
    BY <2>4 DEF Settle, RunSettles, TypeOK
  <2>5. CASE Usage(j)
    BY <2>5 DEF Usage, WriteRpc, TypeOK
  <2>6. CASE WorkerExit(j)
    BY <2>6 DEF WorkerExit, TypeOK
  <2>. QED
    BY <2>1, <2>2, <2>3, <2>4, <2>5, <2>6
<1>. QED
  BY <1>1, <1>2, BudgetFrame

\* A worker's own steps other than a message with its cost.
LEMMA BudgetWorker ==
  ASSUME TypeOK, BudgetInv, NEW i \in Instance,
         StopGrace(i) \/ TakePrompt(i) \/ TakeAbort(i) \/ Settle(i) \/ WorkerExit(i)
  PROVE  Budgeted(i)'
<1>. USE DEF agentVars, workerVars, connVars, serverVars, historyVars
<1>1. Budgeted(i)
  BY DEF BudgetInv
<1>2. /\ burn[i] \in Nat /\ spent[i] \in Nat /\ MaxCost \in Nat
      /\ stdin[i] \in Seq(Call \cup {Abort})
  BY ConstantsAssumption DEF TypeOK
<1>3. ASSUME run'[i] = {}, burn'[i] = 0,
             child'[i] \in {child[i], "gone"}, Live(i),
             spent'[i] = spent[i], over'[i] = over[i], record'[i] \in {record[i], "stopped", "exited"}
      PROVE  Budgeted(i)'
  <2>1. Unborn(i)' /\ Recorded(i)'
    BY <1>1, <1>3 DEF Budgeted, Unborn, Recorded, Live
  <2>2. BurnIsSpent(i)' /\ OverIsSpent(i)'
    BY <1>1, <1>2, <1>3 DEF Budgeted, BurnIsSpent, OverIsSpent
  <2>3. FirstBreach(i)'
    BY <1>2, <1>3 DEF FirstBreach
  <2>. QED
    BY <2>1, <2>2, <2>3 DEF Budgeted
<1>4. CASE StopGrace(i)
  <2>1. /\ child[i] = "alive" /\ child'[i] = "signalled"
        /\ UNCHANGED <<record, spent, over, stdin, run, burn>>
    BY <1>4 DEF StopGrace, TypeOK
  <2>. QED
    BY <1>1, <2>1 DEF Budgeted, Unborn, Recorded, BurnIsSpent, OverIsSpent, FirstBreach
<1>5. CASE TakePrompt(i)
  <2>1. /\ Live(i) /\ stdin[i] # <<>> /\ Head(stdin[i]) # Abort
        /\ stdin'[i] = Tail(stdin[i])
        /\ run[i] # {} => run'[i] # {}
        /\ UNCHANGED <<record, spent, over, child, burn>>
    BY <1>5 DEF TakePrompt, TypeOK
  <2>2. Unborn(i)' /\ Recorded(i)'
    BY <1>1, <2>1 DEF Budgeted, Unborn, Recorded, Live
  <2>3. BurnIsSpent(i)' /\ OverIsSpent(i)'
    BY <1>1, <2>1 DEF Budgeted, BurnIsSpent, OverIsSpent
  <2>4. Abort \in Range(stdin[i]) => Abort \in Range(stdin'[i])
    BY <1>2, <2>1, TailKeeps
  <2>5. FirstBreach(i)'
    BY <1>1, <2>1, <2>4 DEF Budgeted, FirstBreach
  <2>. QED
    BY <2>2, <2>3, <2>5 DEF Budgeted
<1>6. CASE TakeAbort(i)
  <2>1. Live(i) /\ UNCHANGED <<record, spent, over, child>>
    BY <1>6 DEF TakeAbort
  <2>2. run'[i] = {} /\ burn'[i] = 0
    <3>1. CASE run[i] = {}
      BY <1>1, <1>6, <3>1 DEF TakeAbort, Budgeted, BurnIsSpent
    <3>2. CASE run[i] # {}
      BY <1>6, <3>2 DEF TakeAbort, RunSettles, TypeOK
    <3>. QED
      BY <3>1, <3>2
  <2>. QED
    BY <1>3, <2>1, <2>2
<1>7. CASE Settle(i)
  <2>1. run'[i] = {} /\ burn'[i] = 0 /\ Live(i) /\ UNCHANGED <<record, spent, over, child>>
    BY <1>7 DEF Settle, RunSettles, TypeOK
  <2>. QED
    BY <1>3, <2>1
<1>8. CASE WorkerExit(i)
  <2>1. /\ run'[i] = {} /\ burn'[i] = 0 /\ Live(i) /\ child'[i] = "gone"
        /\ record'[i] \in {"stopped", "exited"} /\ UNCHANGED <<spent, over>>
    BY <1>8 DEF WorkerExit, TypeOK
  <2>. QED
    BY <1>3, <2>1
<1>. QED
  BY <1>4, <1>5, <1>6, <1>7, <1>8

\* A message with its cost: a breach that is new writes the abort, one that is not has.
LEMMA BudgetUsage ==
  ASSUME TypeOK, BudgetInv, NEW i \in Instance, Usage(i)
  PROVE  Budgeted(i)'
<1>. USE DEF agentVars, workerVars, connVars, serverVars, historyVars
<1>1. Budgeted(i)
  BY DEF BudgetInv
<1>2. /\ burn[i] \in Nat /\ spent[i] \in Nat /\ MaxCost \in Nat /\ over[i] \in BOOLEAN
      /\ stdin[i] \in Seq(Call \cup {Abort})
  BY ConstantsAssumption DEF TypeOK
<1>3. /\ run[i] # {} /\ UNCHANGED <<record, child, run>>
      /\ spent'[i] = spent[i] + 1 /\ burn'[i] = burn[i] + 1
      /\ over'[i] = (over[i] \/ (spent[i] + 1 > MaxCost /\ ~over[i]))
  BY DEF Usage, TypeOK
<1>4. Unborn(i)' /\ Recorded(i)'
  BY <1>1, <1>3 DEF Budgeted, Unborn, Recorded
<1>5. BurnIsSpent(i)' /\ OverIsSpent(i)'
  <2>1. BurnIsSpent(i)'
    BY <1>1, <1>2, <1>3 DEF Budgeted, BurnIsSpent
  <2>2. CASE over[i]
    <3>1. spent[i] > MaxCost /\ over'[i]
      BY <1>1, <1>3, <2>2 DEF Budgeted, OverIsSpent
    <3>2. spent'[i] > MaxCost
      BY <1>2, <1>3, <3>1
    <3>. QED
      BY <2>1, <3>1, <3>2 DEF OverIsSpent
  <2>3. CASE ~over[i]
    <3>1. over'[i] = (spent'[i] > MaxCost)
      BY <1>2, <1>3, <2>3
    <3>. QED
      BY <2>1, <3>1, Zenon DEF OverIsSpent
  <2>. QED
    BY <2>2, <2>3
<1>6. ASSUME record[i] = "running", burn[i] = spent[i], spent[i] + 1 > MaxCost
      PROVE  Abort \in Range(stdin'[i])
  <2>1. CASE over[i]
    <3>1. Abort \in Range(stdin[i])
      BY <1>1, <1>2, <1>6, <2>1 DEF Budgeted, OverIsSpent, FirstBreach
    <3>. QED
      BY <2>1, <3>1 DEF Usage
  <2>2. CASE ~over[i]
    <3>1. stdin'[i] = Append(stdin[i], Abort)
      BY <1>6, <2>2 DEF Usage, WriteRpc, TypeOK
    <3>2. Range(Append(stdin[i], Abort)) = Range(stdin[i]) \cup {Abort}
      BY <1>2, AppendRange
    <3>. QED
      BY <3>1, <3>2, Zenon
  <2>. QED
    BY <2>1, <2>2
<1>7. FirstBreach(i)'
  BY <1>2, <1>3, <1>6 DEF FirstBreach
<1>. QED
  BY <1>4, <1>5, <1>7 DEF Budgeted

\* Every step keeps the invariant.
LEMMA BudgetNext == TypeOK /\ BudgetInv /\ [Next]_vars => BudgetInv'
<1>. SUFFICES ASSUME TypeOK, BudgetInv, [Next]_vars, NEW i \in Instance
              PROVE  Budgeted(i)'
  BY DEF BudgetInv
<1>1. CASE UNCHANGED vars
  BY <1>1 DEF vars, agentVars, workerVars, connVars, serverVars, historyVars, BudgetInv, Budgeted,
              Unborn, Recorded, BurnIsSpent, OverIsSpent, FirstBreach
<1>2. ASSUME NEW j \in Instance,
             \/ StopGrace(j) \/ TakePrompt(j) \/ TakeAbort(j)
             \/ Settle(j) \/ Usage(j) \/ WorkerExit(j)
      PROVE  Budgeted(i)'
  <2>1. CASE i # j
    BY <1>2, <2>1, BudgetOther
  <2>2. CASE i = j
    <3>1. \/ StopGrace(i) \/ TakePrompt(i) \/ TakeAbort(i)
          \/ Settle(i) \/ Usage(i) \/ WorkerExit(i)
      BY <1>2, <2>2, Zenon
    <3>. QED
      BY <3>1, BudgetWorker, BudgetUsage
  <2>. QED
    BY <2>1, <2>2
<1>. QED
  BY <1>1, <1>2, BudgetAgent, Zenon DEF Next

\* In the first run of a worker no breach of its budget goes without an abort, for every
\* budget and however prompts and stops cross it.
THEOREM BreachAborts == Spec => []FirstBreachAborts
<1>1. Init => BudgetInv
  BY ConstantsAssumption DEF Init, BudgetInv, Budgeted, Unborn, Recorded, BurnIsSpent, OverIsSpent,
                             FirstBreach
<1>2. BudgetInv => FirstBreachAborts
  BY DEF BudgetInv, Budgeted, FirstBreach, FirstBreachAborts, Running
<1>. QED
  BY <1>1, <1>2, BudgetNext, TypeCorrect, PTL DEF Spec
=============================================================================
