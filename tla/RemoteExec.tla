----------------------------- MODULE RemoteExec -----------------------------
(***************************************************************************)
(* Commands run directly on an agent's machine: the agent's ExecSupervisor *)
(* and the frames it sends to the connection that owns a command, and the  *)
(* orchestrator's FleetManager, which tracks what it started and lets      *)
(* tools wait for it.                                                      *)
(*                                                                         *)
(* A chunk is what one read of a command's output gives; one stream stands *)
(* for stdout and stderr, which are kept apart all the way.                *)
(***************************************************************************)
EXTENDS Integers, Sequences, FiniteSets

CONSTANTS
  Exec,          \* executions
  Conn,          \* connections, each used once
  MaxConcurrent, \* the agent's maxConcurrent
  Retain,        \* chunks of output the orchestrator retains
  MaxOutput,     \* bound: chunks a command prints
  Watched,       \* bound: executions that print, may become another user's, and that
                 \* tools wait for and abort
  None           \* no connection

ASSUME ConstantsAssumption ==
  /\ MaxConcurrent \in Nat \ {0}
  /\ Retain \in Nat \ {0}
  /\ MaxOutput \in Nat \ {0}
  /\ Watched \subseteq Exec
  /\ None \notin Conn

VARIABLES
  (* the agent *)
  phase,    \* of each start() at the agent; "lost": the agent died since
  process,  \* the child process; "foreign": it refuses the agent's signals
  printed,  \* chunks there are to pass on: output, and the message of an error
  emitted,  \* chunks the agent passed on
  killing,  \* a killTree waits before it sends SIGKILL to the process
  (* connections *)
  agentEnd,  \* the agent's end
  serverEnd, \* the orchestrator's end
  requests,  \* exec_start and exec_abort frames in transit
  wire,      \* frames in transit to the orchestrator
  (* the orchestrator *)
  current,   \* FleetManager.agents
  call,      \* of each FleetManager.exec
  via,       \* the connection it was sent on, which owns the execution
  buffered,  \* pendingExecFrames
  shown,     \* TrackedExecution: the output retained
  truncated, \* TrackedExecution.truncated
  state,     \* TrackedExecution.state
  waiting,   \* execWaiters: is somebody waiting for it
  (* history *)
  received   \* chunks read from the wire

agentVars == <<phase, process, printed, emitted, killing>>
connVars == <<agentEnd, serverEnd, requests, wire>>
trackVars == <<buffered, shown, truncated, state, waiting, received>>
vars == <<agentVars, connVars, current, call, via, trackVars>>

Frame == [kind: {"started", "error", "output", "exit"}, exec: Exec, chunk: Nat]
Plain(k, x) == [kind |-> k, exec |-> x, chunk |-> 0]
Output(x, n) == [kind |-> "output", exec |-> x, chunk |-> n]

\* Frames of one execution: its chunks in order, and whether it exited.
Nothing == [chunks |-> <<>>, exited |-> FALSE]

Active == {x \in Exec : phase[x] = "active"}
Living == {x \in Exec : process[x] \in {"alive", "foreign"}}
Open(c) == agentEnd[c] = "open"
LiveClient == {c \in Conn : current = c /\ serverEnd[c] = "open"}

TypeOK ==
  /\ phase \in [Exec -> {"none", "starting", "active", "finished", "refused", "lost"}]
  /\ process \in [Exec -> {"none", "alive", "foreign", "dead", "failed"}]
  /\ printed \in [Exec -> Nat]
  /\ emitted \in [Exec -> Nat]
  /\ killing \in [Exec -> BOOLEAN]
  /\ agentEnd \in [Conn -> {"none", "open", "closed"}]
  /\ serverEnd \in [Conn -> {"none", "open", "closed"}]
  /\ requests \in [Conn -> SUBSET ({"start", "abort"} \X Exec)]
  /\ wire \in [Conn -> Seq(Frame)]
  /\ current \in Conn \cup {None}
  /\ call \in [Exec -> {"none", "requested", "answered", "tracked", "failed"}]
  /\ via \in [Exec -> Conn \cup {None}]
  /\ buffered \in [Exec -> [chunks: Seq(Nat), exited: BOOLEAN]]
  /\ shown \in [Exec -> Seq(Nat)]
  /\ truncated \in [Exec -> BOOLEAN]
  /\ state \in [Exec -> {"running", "exited"}]
  /\ waiting \in [Exec -> BOOLEAN]
  /\ received \in [Exec -> Nat]

Init ==
  /\ phase = [x \in Exec |-> "none"]
  /\ process = [x \in Exec |-> "none"]
  /\ printed = [x \in Exec |-> 0]
  /\ emitted = [x \in Exec |-> 0]
  /\ killing = [x \in Exec |-> FALSE]
  /\ agentEnd = [c \in Conn |-> "none"]
  /\ serverEnd = [c \in Conn |-> "none"]
  /\ requests = [c \in Conn |-> {}]
  /\ wire = [c \in Conn |-> <<>>]
  /\ current = None
  /\ call = [x \in Exec |-> "none"]
  /\ via = [x \in Exec |-> None]
  /\ buffered = [x \in Exec |-> Nothing]
  /\ shown = [x \in Exec |-> <<>>]
  /\ truncated = [x \in Exec |-> FALSE]
  /\ state = [x \in Exec |-> "running"]
  /\ waiting = [x \in Exec |-> FALSE]
  /\ received = [x \in Exec |-> 0]

-----------------------------------------------------------------------------
(***************************************************************************)
(* The agent.                                                              *)
(***************************************************************************)

\* trySend to a connection: nothing once the agent's end is closed; lost if the
\* orchestrator's end is gone.
Send(c, frames) ==
  wire' = IF Open(c) /\ serverEnd[c] = "open"
          THEN [wire EXCEPT ![c] = @ \o frames] ELSE wire

\* exec_start is read: start() looks at the capacity and then awaits.
ReceiveStart(c, x) ==
  /\ Open(c)
  /\ <<"start", x>> \in requests[c]
  /\ requests' = [requests EXCEPT ![c] = @ \ {<<"start", x>>}]
  /\ IF Cardinality(Active) >= MaxConcurrent
     THEN /\ phase' = [phase EXCEPT ![x] = "refused"]
          /\ Send(c, <<Plain("error", x)>>)
     ELSE /\ phase' = [phase EXCEPT ![x] = "starting"]
          /\ UNCHANGED wire
  /\ UNCHANGED <<process, printed, emitted, killing, agentEnd, serverEnd, current,
                 call, via, trackVars>>

\* The working directory is missing or outside the roots, or the audit fails.
StartFails(x) ==
  /\ phase[x] = "starting"
  /\ phase' = [phase EXCEPT ![x] = "refused"]
  /\ Send(via[x], <<Plain("error", x)>>)
  /\ UNCHANGED <<process, printed, emitted, killing, agentEnd, serverEnd, requests,
                 current, call, via, trackVars>>

\* start() goes on after the audit: the process is spawned, or fails to, which
\* shows later, and exec_started is sent.
Launch(x) ==
  /\ phase[x] = "starting"
  /\ phase' = [phase EXCEPT ![x] = "active"]
  /\ \E p \in {"alive", "failed"} : process' = [process EXCEPT ![x] = p]
  /\ Send(via[x], <<Plain("started", x)>>)
  /\ UNCHANGED <<printed, emitted, killing, agentEnd, serverEnd, requests,
                 current, call, via, trackVars>>

WriteOutput(x) ==
  /\ x \in Watched \cap Living
  /\ printed[x] < MaxOutput
  /\ printed' = [printed EXCEPT ![x] = @ + 1]
  /\ UNCHANGED <<phase, process, emitted, killing, connVars, current, call, via,
                 trackVars>>

\* The process becomes another user's, as sudo does: the agent may not signal it.
TurnForeign(x) ==
  /\ x \in Watched
  /\ process[x] = "alive"
  /\ process' = [process EXCEPT ![x] = "foreign"]
  /\ UNCHANGED <<phase, printed, emitted, killing, connVars, current, call, via, trackVars>>

ProcessExits(x) ==
  /\ x \in Living
  /\ process' = [process EXCEPT ![x] = "dead"]
  /\ killing' = [killing EXCEPT ![x] = FALSE]
  /\ UNCHANGED <<phase, printed, emitted, connVars, current, call, via,
                 trackVars>>

\* emitChunks: the pipe is read for as long as it holds output, which may be
\* after the process exited and after finish.
EmitChunk(x) ==
  /\ phase[x] # "lost"
  /\ emitted[x] < printed[x]
  /\ emitted' = [emitted EXCEPT ![x] = @ + 1]
  /\ Send(via[x], <<Output(x, emitted[x] + 1)>>)
  /\ UNCHANGED <<phase, process, printed, killing, agentEnd, serverEnd, requests,
                 current, call, via, trackVars>>

\* Mutant of Finish: an execution that is being killed counts as finished.
FinishKilled(x) ==
  /\ phase[x] = "active"
  /\ process[x] = "dead" \/ killing[x]
  /\ phase' = [phase EXCEPT ![x] = "finished"]
  /\ Send(via[x], <<Plain("exit", x)>>)
  /\ UNCHANGED <<process, printed, emitted, killing, agentEnd, serverEnd,
                 requests, current, call, via, trackVars>>

\* The exit event.
Finish(x) ==
  /\ phase[x] = "active"
  /\ process[x] = "dead"
  /\ phase' = [phase EXCEPT ![x] = "finished"]
  /\ Send(via[x], <<Plain("exit", x)>>)
  /\ UNCHANGED <<process, printed, emitted, killing, agentEnd, serverEnd, requests,
                 current, call, via, trackVars>>

\* The error event: its message is output, and these executions are finished.
\* There is a listener for the first one only.
ErrorEvent(xs) ==
  /\ phase' = [x \in Exec |-> IF x \in xs THEN "finished" ELSE phase[x]]
  /\ printed' = [x \in Exec |-> IF x \in xs THEN printed[x] + 1 ELSE printed[x]]
  /\ emitted' = [x \in Exec |-> IF x \in xs THEN emitted[x] + 1 ELSE emitted[x]]

LastWords(x) == <<Output(x, emitted[x] + 1), Plain("exit", x)>>

\* The error event of a process that did not start.
FinishFailed(x) ==
  /\ phase[x] = "active"
  /\ process[x] = "failed"
  /\ ErrorEvent({x})
  /\ Send(via[x], LastWords(x))
  /\ UNCHANGED <<process, killing, agentEnd, serverEnd, requests, current, call, via,
                 trackVars>>

\* Executions whose next signal is refused with an error event that is heard.
Refusing == {x \in Active : process[x] = "foreign"}

\* killTree, up to its wait: SIGTERM is sent, which a process may ignore.  It
\* does nothing to a process that did not start or is gone; one that may not be
\* signalled, as its group may not, emits the error event.
KillTree(targets) ==
  /\ killing' = [x \in Exec |-> killing[x] \/ x \in targets \cap Living]
  /\ ErrorEvent(targets \cap Refusing)

TellRefused(x) == IF x \in Refusing THEN Send(via[x], LastWords(x)) ELSE UNCHANGED wire

\* Mutant of Escalate: SIGTERM is thought to be enough.
EscalateNever(x) ==
  /\ killing[x]
  /\ process[x] = "alive"
  /\ killing' = [killing EXCEPT ![x] = FALSE]
  /\ UNCHANGED <<phase, process, printed, emitted, connVars, current, call,
                 via, trackVars>>

\* killTree, after its wait: SIGKILL.
Escalate(x) ==
  /\ killing[x]
  /\ process[x] = "alive"
  /\ killing' = [killing EXCEPT ![x] = FALSE]
  /\ process' = [process EXCEPT ![x] = "dead"]
  /\ UNCHANGED <<phase, printed, emitted, connVars, current, call, via,
                 trackVars>>

\* SIGKILL is refused, and the error event is heard.
EscalateRefused(x) ==
  /\ killing[x]
  /\ x \in Refusing
  /\ killing' = [killing EXCEPT ![x] = FALSE]
  /\ ErrorEvent({x})
  /\ Send(via[x], LastWords(x))
  /\ UNCHANGED <<process, agentEnd, serverEnd, requests, current, call, via, trackVars>>

\* SIGKILL is refused too: the error event has no listener any more and is
\* thrown.  exec_abort answers with it ...
EscalateThrows(x) ==
  /\ killing[x]
  /\ process[x] = "foreign"
  /\ phase[x] # "active"
  /\ killing' = [killing EXCEPT ![x] = FALSE]
  /\ UNCHANGED <<phase, process, printed, emitted, connVars, current, call, via, trackVars>>

\* ... but nobody awaits the killTree of the timer and of abortOwner: the
\* rejection ends the agent, and its processes live on.  It can be dialled again
\* when it was restarted.  Who asked for the kill is not kept.
AgentDies(x) ==
  /\ killing[x]
  /\ process[x] = "foreign"
  /\ phase[x] # "active"
  /\ killing' = [y \in Exec |-> FALSE]
  /\ phase' = [y \in Exec |-> IF phase[y] \in {"starting", "active"} THEN "lost" ELSE phase[y]]
  /\ agentEnd' = [c \in Conn |-> IF Open(c) THEN "closed" ELSE agentEnd[c]]
  /\ requests' = [c \in Conn |-> {}]
  /\ UNCHANGED <<process, printed, emitted, serverEnd, wire, current, call, via, trackVars>>

\* The timer of an execution.
ExecTimeout(x) ==
  /\ x \in Active \cap Living
  /\ ~killing[x]
  /\ KillTree({x})
  /\ TellRefused(x)
  /\ UNCHANGED <<process, agentEnd, serverEnd, requests, current, call, via, trackVars>>

\* exec_abort is read.  Its reply, and the marks that abort and the timer leave
\* on the record, are only displayed.
ReceiveAbort(c, x) ==
  /\ Open(c)
  /\ <<"abort", x>> \in requests[c]
  /\ requests' = [requests EXCEPT ![c] = @ \ {<<"abort", x>>}]
  /\ KillTree({x} \cap Active)
  /\ TellRefused(x)
  /\ UNCHANGED <<process, agentEnd, serverEnd, current, call, via, trackVars>>

\* The agent's end goes away: abortOwner.  Nothing can be sent any more.
AgentClose(c) ==
  LET owned == {x \in Active : via[x] = c} IN
  /\ Open(c)
  /\ agentEnd' = [agentEnd EXCEPT ![c] = "closed"]
  /\ requests' = [requests EXCEPT ![c] = {}]
  /\ KillTree(owned)
  /\ UNCHANGED <<process, serverEnd, wire, current, call, via, trackVars>>

-----------------------------------------------------------------------------
(***************************************************************************)
(* The orchestrator.                                                       *)
(***************************************************************************)

\* FleetManager.agent connects when it has no live client.
Connect(c) ==
  /\ serverEnd[c] = "none"
  /\ LiveClient = {}
  /\ serverEnd' = [serverEnd EXCEPT ![c] = "open"]
  /\ agentEnd' = [agentEnd EXCEPT ![c] = "open"]
  /\ current' = c
  /\ UNCHANGED <<agentVars, requests, wire, call, via, trackVars>>

Ask(c, request) ==
  requests' = IF Open(c) THEN [requests EXCEPT ![c] = @ \cup {request}] ELSE requests

\* FleetManager.exec, up to its wait for exec_started.
StartExec(x) ==
  /\ call[x] = "none"
  /\ call' = [call EXCEPT ![x] = "requested"]
  /\ \E c \in LiveClient :
       /\ via' = [via EXCEPT ![x] = c]
       /\ Ask(c, <<"start", x>>)
  /\ UNCHANGED <<agentVars, agentEnd, serverEnd, wire, current, trackVars>>

\* AgentClient.request gives up.
CallTimeout(x) ==
  /\ call[x] = "requested"
  /\ call' = [call EXCEPT ![x] = "failed"]
  /\ UNCHANGED <<agentVars, connVars, current, via, trackVars>>

\* Mutant of RetainedTail: the head is kept.
RetainedHead(output) == IF Len(output) > Retain THEN SubSeq(output, 1, Retain) ELSE output

\* What applyExecFrame keeps of the output.
RetainedTail(output) ==
  IF Len(output) > Retain THEN SubSeq(output, Len(output) - Retain + 1, Len(output)) ELSE output

\* applyExecFrame for each of these frames in turn.
ApplyExecFrames(x, frames) ==
  LET combined == shown[x] \o frames.chunks IN
  /\ shown' = [shown EXCEPT ![x] = RetainedTail(combined)]
  /\ truncated' = [truncated EXCEPT ![x] = @ \/ Len(combined) > Retain]
  /\ state' = [state EXCEPT ![x] = IF frames.exited THEN "exited" ELSE @]
  /\ waiting' = [waiting EXCEPT ![x] = @ /\ ~frames.exited]

\* handleExecFrame.
HandleExecFrame(x, f) ==
  LET frame == [chunks |-> IF f.kind = "output" THEN <<f.chunk>> ELSE <<>>,
                exited |-> f.kind = "exit"]
  IN
  /\ received' = [received EXCEPT ![x] = IF f.kind = "output" THEN @ + 1 ELSE @]
  /\ IF call[x] = "tracked"
     THEN ApplyExecFrames(x, frame) /\ UNCHANGED buffered
     ELSE /\ buffered' = [buffered EXCEPT ![x] = [chunks |-> @.chunks \o frame.chunks,
                                                 exited |-> @.exited \/ frame.exited]]
          /\ UNCHANGED <<shown, truncated, state, waiting>>

\* AgentClient.handleFrame: an answer settles the request if it still waits.
ReadFrame(c) ==
  LET f == Head(wire[c])
      answer == IF f.kind = "started" THEN "answered" ELSE "failed"
  IN
  /\ wire[c] # <<>>
  /\ wire' = [wire EXCEPT ![c] = Tail(@)]
  /\ IF f.kind \in {"started", "error"}
     THEN /\ call' = [call EXCEPT ![f.exec] = IF @ = "requested" THEN answer ELSE @]
          /\ UNCHANGED trackVars
     ELSE HandleExecFrame(f.exec, f) /\ UNCHANGED call
  /\ UNCHANGED <<agentVars, agentEnd, serverEnd, requests, current, via>>

\* Mutant of TrackExec: the frames that were early are dropped.
TrackExecAfresh(x) ==
  /\ call[x] = "answered"
  /\ call' = [call EXCEPT ![x] = "tracked"]
  /\ buffered' = [buffered EXCEPT ![x] = Nothing]
  /\ UNCHANGED <<agentVars, connVars, current, via, shown, truncated, state, waiting, received>>

\* FleetManager.exec goes on after exec_started: more frames may have been read.
TrackExec(x) ==
  /\ call[x] = "answered"
  /\ call' = [call EXCEPT ![x] = "tracked"]
  /\ ApplyExecFrames(x, buffered[x])
  /\ buffered' = [buffered EXCEPT ![x] = Nothing]
  /\ UNCHANGED <<agentVars, connVars, current, via, received>>

\* Mutant of WaitExec: no look at the state.
WaitExecBlind(x) ==
  /\ x \in Watched
  /\ call[x] = "tracked"
  /\ waiting' = [waiting EXCEPT ![x] = TRUE]
  /\ UNCHANGED <<agentVars, connVars, current, call, via, buffered, shown, truncated, state,
                 received>>

\* waitExec; it returns at once if the command exited.
WaitExec(x) ==
  /\ x \in Watched
  /\ call[x] = "tracked"
  /\ state[x] # "exited"
  /\ waiting' = [waiting EXCEPT ![x] = TRUE]
  /\ UNCHANGED <<agentVars, connVars, current, call, via, buffered, shown, truncated, state,
                 received>>

\* The timer of waitExec, or the abort signal of the tool call.
WaitEnds(x) ==
  /\ waiting[x]
  /\ waiting' = [waiting EXCEPT ![x] = FALSE]
  /\ UNCHANGED <<agentVars, connVars, current, call, via, buffered, shown, truncated, state,
                 received>>

AbortExec(x) ==
  /\ x \in Watched
  /\ call[x] = "tracked"
  /\ \E c \in LiveClient : Ask(c, <<"abort", x>>)
  /\ UNCHANGED <<agentVars, agentEnd, serverEnd, wire, current, call, via, trackVars>>

\* The orchestrator's end goes away: requests that wait are rejected.
ServerClose(c) ==
  /\ serverEnd[c] = "open"
  /\ serverEnd' = [serverEnd EXCEPT ![c] = "closed"]
  /\ wire' = [wire EXCEPT ![c] = <<>>]
  /\ call' = [x \in Exec |-> IF call[x] = "requested" /\ via[x] = c THEN "failed" ELSE call[x]]
  /\ UNCHANGED <<agentVars, agentEnd, requests, current, via, trackVars>>

-----------------------------------------------------------------------------

Next ==
  \/ \E c \in Conn, x \in Exec : ReceiveStart(c, x) \/ ReceiveAbort(c, x)
  \/ \E x \in Exec : StartFails(x) \/ Launch(x)
  \/ \E x \in Exec : WriteOutput(x) \/ TurnForeign(x) \/ ProcessExits(x) \/ EmitChunk(x)
  \/ \E x \in Exec : Finish(x) \/ FinishFailed(x)
  \/ \E x \in Exec : Escalate(x) \/ EscalateRefused(x) \/ EscalateThrows(x) \/ AgentDies(x)
  \/ \E x \in Exec : ExecTimeout(x)
  \/ \E c \in Conn : AgentClose(c) \/ ServerClose(c) \/ Connect(c) \/ ReadFrame(c)
  \/ \E x \in Exec : StartExec(x) \/ CallTimeout(x) \/ TrackExec(x)
  \/ \E x \in Exec : WaitExec(x) \/ WaitEnds(x) \/ AbortExec(x)

Spec == Init /\ [][Next]_vars

(***************************************************************************)
(* Fairness.  Timers fire, events of a process are seen, frames that       *)
(* arrived are read and promises that are settled resume.  No process is   *)
(* obliged to end by itself, and nobody to call, to wait or to stay.       *)
(***************************************************************************)
Fairness ==
  /\ \A x \in Exec :
       /\ WF_vars(StartFails(x) \/ Launch(x))
       /\ WF_vars(EmitChunk(x))
       /\ WF_vars(Finish(x))
       /\ WF_vars(FinishFailed(x))
       /\ WF_vars(ExecTimeout(x))
       /\ WF_vars(Escalate(x) \/ EscalateRefused(x) \/ EscalateThrows(x) \/ AgentDies(x))
       /\ WF_vars(TrackExec(x))
  /\ \A c \in Conn : WF_vars(ReadFrame(c)) /\ \A x \in Exec : WF_vars(ReceiveStart(c, x))

FairSpec == Spec /\ Fairness

-----------------------------------------------------------------------------
(***************************************************************************)
(* Properties.                                                             *)
(***************************************************************************)

\* What the orchestrator shows of a command is the end of what it received, in
\* the order it was printed, nothing twice and nothing skipped, however early
\* the frames came; and it says so when there was more.
LastChunks(n) ==
  LET kept == IF n > Retain THEN Retain ELSE n IN [i \in 1..kept |-> n - kept + i]
TailShown ==
  \A x \in Exec : call[x] = "tracked" =>
    /\ shown[x] = LastChunks(received[x])
    /\ truncated[x] <=> received[x] > Retain

\* A command is shown exited only when its process is gone, or is one that the
\* agent may not signal: a kill of that one failed, which the agent takes for
\* the end of the command.
NoFalseExit ==
  \A x \in Exec : state[x] = "exited" => process[x] \in {"dead", "failed", "foreign"}

\* Nobody waits for a command that is shown exited: the look at its state, the
\* registration of the waiter and the exit frame cannot miss one another.
NoWaiterMissed ==
  \A x \in Exec : state[x] = "exited" => ~waiting[x]

\* Every command that was started ends, and its process with it unless the
\* agent may not signal it, also when its owner went away while it was starting:
\* its timer and the SIGKILL remain.  Only the agent's own end leaves it behind.
EveryCommandEnds ==
  \A x \in Exec : phase[x] = "active" ~>
    phase[x] = "lost" \/ (phase[x] = "finished" /\ process[x] # "alive")

\* A tracked command is shown exited in the end, unless its connection breaks.
ExitArrives ==
  \A x \in Exec : call[x] = "tracked" ~>
    state[x] = "exited" \/ \E c \in Conn : c = via[x] /\ "closed" \in {agentEnd[c], serverEnd[c]}

(***************************************************************************)
(* What the repository says and the code does not do.                      *)
(***************************************************************************)

\* remote-exec-plan.md, 15: commands owned by a disconnected connection are
\* aborted.
AbortedWithOwner ==
  \A x \in Active : agentEnd[via[x]] = "closed" => killing[x] \/ x \notin Living
=============================================================================
