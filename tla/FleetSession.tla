---------------------------- MODULE FleetSession ----------------------------
(***************************************************************************)
(* One agent, its workers and an orchestrator: tool calls spawn workers,   *)
(* prompt them, wait until they settle and stop them, while the connection *)
(* breaks and comes back, workers die, budgets run out and requests time   *)
(* out.                                                                    *)
(*                                                                         *)
(* Task records and completions are TaskDelivery's; so are several         *)
(* connections at a time.  There is one connection here or none.           *)
(***************************************************************************)
EXTENDS Integers, Sequences, FiniteSets, SequencesExt

CONSTANTS
  Call,       \* tool calls
  Instance,   \* workers: instance ids
  Tools,      \* bound: what each call may be
  MaxWorkers, \* maxWorkers of the agent
  MaxCost,    \* the budget of every worker
  MaxSpent,   \* bound: what a worker may spend
  MaxBreaks,  \* bound: breaks of the connection
  Abort,      \* the abort command in a worker's stdin
  None        \* no call, no worker

ASSUME ConstantsAssumption ==
  /\ Tools \in [Call -> SUBSET {"spawn", "prompt", "send", "abort", "stop"}]
  /\ MaxWorkers \in Nat
  /\ MaxCost \in Nat /\ MaxSpent \in Nat /\ MaxBreaks \in Nat
  /\ Abort \notin Call
  /\ None \notin Call /\ None \notin Instance

VARIABLES
  (* the agent *)
  record,    \* state of the instance record
  starting,  \* spawn requests past the comparison with maxWorkers
  stopping,  \* the stop request that waits for the worker's exit
  spent,     \* costs
  over,      \* budgetExceeded
  (* the workers *)
  child,     \* the process; "signalled": it was sent SIGTERM, which it may ignore
  stdin,     \* prompts and aborts it has yet to read
  run,       \* the prompts of its present run
  (* the connection *)
  up,        \* there is one
  breaks,    \* breaks so far
  requests,  \* frames on their way to the agent
  wire,      \* frames on their way to the orchestrator
  (* the orchestrator *)
  pc,        \* where each tool call is
  target,    \* the worker it is about
  state,     \* what is shown of each worker
  settled,   \* the latch of each worker
  (* history *)
  answered,  \* prompts whose run has settled
  alone,     \* prompts sent when nothing of another was under way, since when
             \* the connection lasted
  burn       \* the cost of each worker's present run

agentVars == <<record, starting, stopping, spent, over>>
workerVars == <<child, stdin, run>>
connVars == <<up, breaks, requests, wire>>
serverVars == <<pc, target, state, settled>>
historyVars == <<answered, alone, burn>>
vars == <<agentVars, workerVars, connVars, serverVars, historyVars>>

Request ==
  [kind: {"spawn"}, call: Call, worker: {None}] \cup
  [kind: {"prompt", "abort", "stop"}, call: Call, worker: Instance]
Frame ==
  [kind: {"spawned", "stopped"}, call: Call, worker: Instance, of: {{}}] \cup
  [kind: {"refused"}, call: Call, worker: {None}, of: {{}}] \cup
  [kind: {"settled"}, call: {None}, worker: Instance, of: SUBSET Call]

Answer(kind, c, i) == [kind |-> kind, call |-> c, worker |-> i, of |-> {}]
Settled(i) == [kind |-> "settled", call |-> None, worker |-> i, of |-> run[i]]

Running == {i \in Instance : record[i] = "running"}
Live(i) == child[i] \in {"alive", "signalled"}

TypeOK ==
  /\ record \in [Instance -> {"none", "running", "stopped", "exited"}]
  /\ starting \subseteq Call
  /\ stopping \in [Instance -> Call \cup {None}]
  /\ spent \in [Instance -> 0..MaxSpent]
  /\ over \in [Instance -> BOOLEAN]
  /\ child \in [Instance -> {"none", "alive", "signalled", "gone"}]
  /\ stdin \in [Instance -> Seq(Call \cup {Abort})]
  /\ run \in [Instance -> SUBSET Call]
  /\ up \in BOOLEAN
  /\ breaks \in 0..MaxBreaks
  /\ requests \in Seq(Request)
  /\ wire \in Seq(Frame)
  /\ pc \in [Call -> {"none", "asked", "waiting", "settled", "done", "failed"}]
  /\ target \in [Call -> Instance \cup {None}]
  /\ state \in [Instance -> {"none", "running", "stopped"}]
  /\ settled \in [Instance -> BOOLEAN]
  /\ answered \subseteq Call
  /\ alone \subseteq Call
  /\ burn \in [Instance -> Nat]

Init ==
  /\ record = [i \in Instance |-> "none"]
  /\ starting = {}
  /\ stopping = [i \in Instance |-> None]
  /\ spent = [i \in Instance |-> 0]
  /\ over = [i \in Instance |-> FALSE]
  /\ child = [i \in Instance |-> "none"]
  /\ stdin = [i \in Instance |-> <<>>]
  /\ run = [i \in Instance |-> {}]
  /\ up = FALSE
  /\ breaks = 0
  /\ requests = <<>>
  /\ wire = <<>>
  /\ pc = [c \in Call |-> "none"]
  /\ target = [c \in Call |-> None]
  /\ state = [i \in Instance |-> "none"]
  /\ settled = [i \in Instance |-> FALSE]
  /\ answered = {}
  /\ alone = {}
  /\ burn = [i \in Instance |-> 0]

-----------------------------------------------------------------------------
(***************************************************************************)
(* The connection.                                                         *)
(***************************************************************************)

\* FleetManager.agent, for a tool call or after a break.
Connect ==
  /\ ~up
  /\ up' = TRUE
  /\ UNCHANGED <<agentVars, workerVars, breaks, requests, wire, serverVars, historyVars>>

\* Mutant of Break: the pending requests are left to their timers.
BreakKeepsPending ==
  /\ up /\ breaks < MaxBreaks
  /\ up' = FALSE
  /\ breaks' = breaks + 1
  /\ requests' = <<>>
  /\ wire' = <<>>
  /\ alone' = {}
  /\ UNCHANGED <<agentVars, workerVars, serverVars, answered, burn>>

\* What is on its way is lost and the pending requests are rejected; waits go on.
Break ==
  /\ up /\ breaks < MaxBreaks
  /\ up' = FALSE
  /\ breaks' = breaks + 1
  /\ requests' = <<>>
  /\ wire' = <<>>
  /\ pc' = [c \in Call |-> IF pc[c] = "asked" THEN "failed" ELSE pc[c]]
  /\ alone' = {}
  /\ UNCHANGED <<agentVars, workerVars, target, state, settled, answered, burn>>

\* The agent's trySend.  An answer to a request of an earlier connection is not
\* sent in the code; nobody would take it here.
Send(frames) == wire' = IF up THEN wire \o frames ELSE wire

-----------------------------------------------------------------------------
(***************************************************************************)
(* The tools.                                                              *)
(***************************************************************************)

\* AgentClient.request and AgentClient.rpc
Ask(kind, c, i) ==
  requests' = Append(requests, [kind |-> kind, call |-> c, worker |-> i])

Begin(c, tool, to) ==
  /\ pc[c] = "none" /\ tool \in Tools[c]
  /\ up
  /\ pc' = [pc EXCEPT ![c] = to]

\* remote_spawn
ToolSpawn(c) ==
  /\ Begin(c, "spawn", "asked")
  /\ Ask("spawn", c, None)
  /\ UNCHANGED <<agentVars, workerVars, up, breaks, wire, target, state, settled, historyVars>>

\* No prompt for the worker is under way and no settle of its is to be read.
Quiet(i) ==
  /\ run[i] = {}
  /\ Range(stdin[i]) \subseteq {Abort}
  /\ \A r \in Range(requests) : ~(r.kind = "prompt" /\ r.worker = i)
  /\ \A f \in Range(wire) : ~(f.kind = "settled" /\ f.worker = i)

\* Mutant of Prompt: the latch of the last prompt stays.
PromptKeepsLatch(c, i, tool) ==
  /\ state[i] # "none"
  /\ Begin(c, tool, IF tool = "send" THEN "done" ELSE IF settled[i] THEN "settled" ELSE "waiting")
  /\ target' = [target EXCEPT ![c] = i]
  /\ Ask("prompt", c, i)
  /\ alone' = IF Quiet(i) THEN alone \cup {c} ELSE alone
  /\ UNCHANGED <<agentVars, workerVars, up, breaks, wire, state, settled, answered, burn>>

\* remote_prompt with and without wait, and remote_reject: the latch is reset and
\* the prompt sent, whatever the state of the worker; waitSettled starts at once.
Prompt(c, i, tool) ==
  /\ state[i] # "none"
  /\ Begin(c, tool, IF tool = "send" THEN "done" ELSE "waiting")
  /\ target' = [target EXCEPT ![c] = i]
  /\ settled' = [settled EXCEPT ![i] = FALSE]
  /\ Ask("prompt", c, i)
  /\ alone' = IF Quiet(i) THEN alone \cup {c} ELSE alone
  /\ UNCHANGED <<agentVars, workerVars, up, breaks, wire, state, answered, burn>>

\* remote_abort
ToolAbort(c, i) ==
  /\ state[i] # "none"
  /\ Begin(c, "abort", "done")
  /\ target' = [target EXCEPT ![c] = i]
  /\ Ask("abort", c, i)
  /\ UNCHANGED <<agentVars, workerVars, up, breaks, wire, state, settled, historyVars>>

\* remote_stop and remote_accept
ToolStop(c, i) ==
  /\ state[i] # "none"
  /\ Begin(c, "stop", "asked")
  /\ target' = [target EXCEPT ![c] = i]
  /\ Ask("stop", c, i)
  /\ UNCHANGED <<agentVars, workerVars, up, breaks, wire, state, settled, historyVars>>

\* A request or a wait takes too long, or the call is aborted.
CallTimeout(c) ==
  /\ pc[c] \in {"asked", "waiting"}
  /\ pc' = [pc EXCEPT ![c] = "failed"]
  /\ UNCHANGED <<agentVars, workerVars, connVars, target, state, settled, historyVars>>

Read == wire # <<>> /\ wire' = Tail(wire)

ReadSpawned ==
  LET f == Head(wire) IN
  /\ Read
  /\ f.kind = "spawned"
  /\ IF pc[f.call] = "asked"
     THEN /\ pc' = [pc EXCEPT ![f.call] = "done"]
          /\ target' = [target EXCEPT ![f.call] = f.worker]
          /\ state' = [state EXCEPT ![f.worker] = "running"]
     ELSE UNCHANGED <<pc, target, state>>
  /\ UNCHANGED <<agentVars, workerVars, up, breaks, requests, settled, historyVars>>

\* An answer nobody waits for any more is dropped: stop() has thrown before it sets
\* the state.
ReadStopped ==
  LET f == Head(wire) IN
  /\ Read
  /\ f.kind = "stopped"
  /\ IF pc[f.call] = "asked"
     THEN /\ pc' = [pc EXCEPT ![f.call] = "done"]
          /\ state' = [state EXCEPT ![f.worker] = "stopped"]
     ELSE UNCHANGED <<pc, state>>
  /\ UNCHANGED <<agentVars, workerVars, up, breaks, requests, target, settled, historyVars>>

ReadRefused ==
  LET f == Head(wire) IN
  /\ Read
  /\ f.kind = "refused"
  /\ pc' = IF pc[f.call] = "asked" THEN [pc EXCEPT ![f.call] = "failed"] ELSE pc
  /\ UNCHANGED <<agentVars, workerVars, up, breaks, requests, target, state, settled, historyVars>>

Waiters(i) == {c \in Call : pc[c] = "waiting" /\ target[c] = i}

\* Mutant of ReadSettled: one waiter is woken.
ReadSettledOne ==
  LET f == Head(wire) IN
  /\ Read
  /\ f.kind = "settled"
  /\ settled' = [settled EXCEPT ![f.worker] = state[f.worker] # "none"]
  /\ \/ \E c \in Waiters(f.worker) : pc' = [pc EXCEPT ![c] = "settled"]
     \/ Waiters(f.worker) = {} /\ UNCHANGED pc
  /\ UNCHANGED <<agentVars, workerVars, up, breaks, requests, target, state, historyVars>>

\* Mutant of ReadSettled: a worker that was stopped is not listened to any more.
ReadSettledOfRunning ==
  LET f == Head(wire) IN
  /\ Read
  /\ f.kind = "settled"
  /\ IF state[f.worker] # "running"
     THEN UNCHANGED <<settled, pc>>
     ELSE /\ settled' = [settled EXCEPT ![f.worker] = TRUE]
          /\ pc' = [c \in Call |-> IF c \in Waiters(f.worker) THEN "settled" ELSE pc[c]]
  /\ UNCHANGED <<agentVars, workerVars, up, breaks, requests, target, state, historyVars>>

\* handleEvent: the latch is set and every waiter woken, unless the worker is unknown.
ReadSettled ==
  LET f == Head(wire) IN
  /\ Read
  /\ f.kind = "settled"
  /\ IF state[f.worker] = "none"
     THEN UNCHANGED <<settled, pc>>
     ELSE /\ settled' = [settled EXCEPT ![f.worker] = TRUE]
          /\ pc' = [c \in Call |-> IF c \in Waiters(f.worker) THEN "settled" ELSE pc[c]]
  /\ UNCHANGED <<agentVars, workerVars, up, breaks, requests, target, state, historyVars>>

-----------------------------------------------------------------------------
(***************************************************************************)
(* The agent.  Requests are handled in the order they come in; one that    *)
(* awaits lets the next one begin.                                         *)
(***************************************************************************)

Receive(kinds) ==
  requests # <<>> /\ Head(requests).kind \in kinds /\ requests' = Tail(requests)

\* dispatch, spawn: the records that run are counted, then the command is resolved.
ReceiveSpawn ==
  LET c == Head(requests).call IN
  /\ Receive({"spawn"})
  /\ IF Cardinality(Running) >= MaxWorkers
     THEN Send(<<Answer("refused", c, None)>>) /\ UNCHANGED starting
     ELSE starting' = starting \cup {c} /\ UNCHANGED wire
  /\ UNCHANGED <<record, stopping, spent, over, workerVars, up, breaks, serverVars, historyVars>>

\* InstanceSupervisor.spawn: the record and the process.
SpawnProcess(i) ==
  /\ record[i] = "none"
  /\ record' = [record EXCEPT ![i] = "running"]
  /\ child' = [child EXCEPT ![i] = "alive"]

\* spawn: the process has started.
Launch(c, i) ==
  /\ c \in starting
  /\ starting' = starting \ {c}
  /\ SpawnProcess(i)
  /\ Send(<<Answer("spawned", c, i)>>)
  /\ UNCHANGED <<stopping, spent, over, stdin, run, up, breaks, requests, serverVars, historyVars>>

\* spawn: resolving the command or starting the process fails.
LaunchFails(c) ==
  /\ c \in starting
  /\ starting' = starting \ {c}
  /\ Send(<<Answer("refused", c, None)>>)
  /\ UNCHANGED <<record, stopping, spent, over, workerVars, up, breaks, requests, serverVars,
                 historyVars>>

WriteRpc(i, command) ==
  stdin' = IF record[i] = "running" THEN [stdin EXCEPT ![i] = Append(@, command)] ELSE stdin

\* dispatch, rpc.  The error for an instance that does not run has no id: the
\* orchestrator drops it.
ReceiveRpc ==
  LET r == Head(requests) IN
  /\ Receive({"prompt", "abort"})
  /\ WriteRpc(r.worker, IF r.kind = "prompt" THEN r.call ELSE Abort)
  /\ UNCHANGED <<agentVars, child, run, up, breaks, wire, serverVars, historyVars>>

\* Mutant of ReceiveStop: the record is left to the exit handler.
ReceiveStopUnmarked ==
  LET r == Head(requests) IN
  /\ Receive({"stop"})
  /\ IF record[r.worker] = "running"
     THEN /\ stopping' = [stopping EXCEPT ![r.worker] = r.call]
          /\ stdin' = [stdin EXCEPT ![r.worker] = Append(@, Abort)]
          /\ UNCHANGED wire
     ELSE Send(<<Answer("stopped", r.call, r.worker)>>) /\ UNCHANGED <<stopping, stdin>>
  /\ UNCHANGED <<record, starting, spent, over, child, run, up, breaks, serverVars, historyVars>>

\* dispatch, stop: abort, end of stdin, and a wait for the exit; a second stop does
\* not wait.
ReceiveStop ==
  LET r == Head(requests) IN
  /\ Receive({"stop"})
  /\ IF record[r.worker] = "running"
     THEN /\ record' = [record EXCEPT ![r.worker] = "stopped"]
          /\ stopping' = [stopping EXCEPT ![r.worker] = r.call]
          /\ stdin' = [stdin EXCEPT ![r.worker] = Append(@, Abort)]
          /\ UNCHANGED wire
     ELSE Send(<<Answer("stopped", r.call, r.worker)>>) /\ UNCHANGED <<record, stopping, stdin>>
  /\ UNCHANGED <<starting, spent, over, child, run, up, breaks, serverVars, historyVars>>

\* What the end of a stop changes, however it ends.
StopReturns(i) ==
  /\ stopping' = [stopping EXCEPT ![i] = None]
  /\ IF stopping[i] = None THEN UNCHANGED wire
     ELSE Send(<<Answer("stopped", stopping[i], i)>>)

\* Mutant of StopGrace: the worker is sent no signal.
StopGraceSpares(i) ==
  /\ stopping[i] # None /\ child[i] = "alive"
  /\ StopReturns(i)
  /\ UNCHANGED <<record, starting, spent, over, workerVars, up, breaks, requests, serverVars,
                 historyVars>>

\* stop: the grace window is over.  One SIGTERM is sent and the stop returns; a
\* worker that ignores it works on.
StopGrace(i) ==
  /\ stopping[i] # None /\ child[i] = "alive"
  /\ child' = [child EXCEPT ![i] = "signalled"]
  /\ StopReturns(i)
  /\ UNCHANGED <<record, starting, spent, over, stdin, run, up, breaks, requests, serverVars,
                 historyVars>>

-----------------------------------------------------------------------------
(***************************************************************************)
(* The workers.                                                            *)
(***************************************************************************)

\* What changes when the run of i settles: an event for the orchestrator.
RunSettles(i) ==
  /\ run' = [run EXCEPT ![i] = {}]
  /\ Send(<<Settled(i)>>)
  /\ answered' = answered \cup run[i]
  /\ burn' = [burn EXCEPT ![i] = 0]

\* A prompt begins a run, joins the present one, or is refused because there is one.
TakePrompt(i) ==
  /\ Live(i) /\ stdin[i] # <<>> /\ Head(stdin[i]) # Abort
  /\ stdin' = [stdin EXCEPT ![i] = Tail(@)]
  /\ \/ run' = [run EXCEPT ![i] = @ \cup {Head(stdin[i])}]
     \/ run[i] # {} /\ UNCHANGED run
  /\ UNCHANGED <<agentVars, child, connVars, serverVars, historyVars>>

\* An abort ends the present run, if there is one.
TakeAbort(i) ==
  /\ Live(i) /\ stdin[i] # <<>> /\ Head(stdin[i]) = Abort
  /\ stdin' = [stdin EXCEPT ![i] = Tail(@)]
  /\ IF run[i] = {}
     THEN UNCHANGED <<run, wire, answered, burn>>
     ELSE RunSettles(i)
  /\ UNCHANGED <<agentVars, child, up, breaks, requests, serverVars, alone>>

\* The run comes to its end.
Settle(i) ==
  /\ Live(i) /\ run[i] # {}
  /\ RunSettles(i)
  /\ UNCHANGED <<agentVars, child, stdin, up, breaks, requests, serverVars, alone>>

\* Mutant of Usage: the budget is compared with the cost before the message.
UsageComparedFirst(i) ==
  LET breach == spent[i] > MaxCost /\ ~over[i] IN
  /\ Live(i) /\ run[i] # {} /\ spent[i] < MaxSpent
  /\ spent' = [spent EXCEPT ![i] = @ + 1]
  /\ burn' = [burn EXCEPT ![i] = @ + 1]
  /\ over' = [over EXCEPT ![i] = @ \/ breach]
  /\ IF breach THEN WriteRpc(i, Abort) ELSE UNCHANGED stdin
  /\ UNCHANGED <<record, starting, stopping, child, run, connVars, serverVars, answered, alone>>

\* onEvent, a message with its cost: the first one over the budget writes an abort.
Usage(i) ==
  LET breach == spent[i] + 1 > MaxCost /\ ~over[i] IN
  /\ Live(i) /\ run[i] # {} /\ spent[i] < MaxSpent
  /\ spent' = [spent EXCEPT ![i] = @ + 1]
  /\ burn' = [burn EXCEPT ![i] = @ + 1]
  /\ over' = [over EXCEPT ![i] = @ \/ breach]
  /\ IF breach THEN WriteRpc(i, Abort) ELSE UNCHANGED stdin
  /\ UNCHANGED <<record, starting, stopping, child, run, connVars, serverVars, answered, alone>>

\* The process ends, by itself or by a signal; the exit handler, and stop() if it waits.
WorkerExit(i) ==
  /\ Live(i)
  /\ child' = [child EXCEPT ![i] = "gone"]
  /\ record' = [record EXCEPT ![i] = IF @ = "stopped" THEN "stopped" ELSE "exited"]
  /\ stdin' = [stdin EXCEPT ![i] = <<>>]
  /\ run' = [run EXCEPT ![i] = {}]
  /\ burn' = [burn EXCEPT ![i] = 0]
  /\ StopReturns(i)
  /\ UNCHANGED <<starting, spent, over, up, breaks, requests, serverVars, answered, alone>>

-----------------------------------------------------------------------------
ReadFrame == ReadSpawned \/ ReadStopped \/ ReadRefused \/ ReadSettled
ReceiveRequest == ReceiveSpawn \/ ReceiveRpc \/ ReceiveStop
LaunchReturns(c) == LaunchFails(c) \/ \E i \in Instance : Launch(c, i)

Next ==
  \/ Connect
  \/ Break
  \/ \E c \in Call : ToolSpawn(c) \/ CallTimeout(c) \/ LaunchReturns(c)
  \/ \E c \in Call, i \in Instance, tool \in {"prompt", "send"} : Prompt(c, i, tool)
  \/ \E c \in Call, i \in Instance : ToolAbort(c, i) \/ ToolStop(c, i)
  \/ ReadFrame
  \/ ReceiveRequest
  \/ \E i \in Instance :
       \/ StopGrace(i)
       \/ TakePrompt(i)
       \/ TakeAbort(i)
       \/ Settle(i)
       \/ Usage(i)
       \/ WorkerExit(i)

Spec == Init /\ [][Next]_vars

\* Both event loops serve what has arrived, the promise of a launch is settled and the
\* grace timer fires.  Nothing is assumed of the tools, their timers, the connection, or
\* a worker: it need not end when it is sent SIGTERM.
Fairness ==
  /\ WF_vars(ReadFrame)
  /\ WF_vars(ReceiveRequest)
  /\ \A c \in Call : WF_vars(LaunchReturns(c))
  /\ \A i \in Instance : WF_vars(StopGrace(i))

FairSpec == Spec /\ Fairness

-----------------------------------------------------------------------------
\* No wait sleeps beside a latch that is set: a settle that is read ends every wait
\* there is, and a wait begins on a latch its prompt has reset, whatever other tool
\* calls prompt the same worker meanwhile.
LatchEndsWaits == \A c \in Call : pc[c] = "waiting" => ~settled[target[c]]

\* A blocking prompt that was sent when nothing of another prompt was under way returns
\* only after its own run has settled, whatever is prompted after it, if the connection
\* lasts.
WaitsTellTruth == \A c \in alone : pc[c] = "settled" => c \in answered

\* A worker shown as stopped takes no prompt any more: the agent has left the running
\* state before it answers any stop, also the second of two.
StoppedForGood == \A i \in Instance : state[i] = "stopped" => record[i] # "running"

\* A worker that has cost more than its budget in its first run is about to be aborted,
\* whatever prompts, aborts and stops it is sent meanwhile: the abort is written with the
\* message that breaches, and only the worker takes it away.
FirstBreachAborts ==
  \A i \in Running : (burn[i] = spent[i] /\ burn[i] > MaxCost) => Abort \in Range(stdin[i])

\* A run that has cost more than the budget allows is about to be aborted.
BudgetEnforced ==
  \A i \in Running : burn[i] > MaxCost => Abort \in Range(stdin[i])

\* A blocking prompt returns only after the worker has settled it.
SettledIsAnswered == \A c \in Call : pc[c] = "settled" => c \in answered

\* A prompt that its worker has settled ends its wait, without the help of the timer, if
\* the connection lasts.
AnswerHeard ==
  \A c \in Call :
    (pc[c] = "waiting" /\ c \in alone \cap answered) ~> (pc[c] # "waiting" \/ c \notin alone)

\* A spawn or stop request ends without the help of its timer: it is answered, or the
\* connection it was sent on closes.
RequestsEnd == \A c \in Call : pc[c] = "asked" ~> pc[c] # "asked"

\* A worker that was told to stop is gone in the end or has been sent a signal, whether
\* or not it reads its abort, however many stops ask for it and whoever hangs up.
StopEnds == \A i \in Instance : record[i] = "stopped" ~> child[i] \in {"signalled", "gone"}
=============================================================================
