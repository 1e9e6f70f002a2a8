---------------------------- MODULE TaskDelivery ----------------------------
(***************************************************************************)
(* Tracked tasks from the prompt to the orchestrator's wake-up: the agent  *)
(* daemon's task table, its instance registry and its task_done outbox on  *)
(* disk, the connections of several orchestrators, and the orchestrators'  *)
(* AgentClient and FleetManager.  Agents and orchestrators crash and come  *)
(* back, either end of a connection can go away first.                     *)
(*                                                                         *)
(* Faults names what the environment may do beyond that; without a fault   *)
(* the environment is better behaved than the code can rely on:            *)
(*   "coalesced_read"  hello and task_done arrive in one socket read       *)
(*   "slow_hello"      the agent's hello comes after the client gave up    *)
(*   "half_open"       an orchestrator reconnects before the agent noticed *)
(*                     that its previous connection is dead                *)
(*   "double_connect"  an orchestrator opens two connections at a time     *)
(*   "late_prompt"     a prompt reaches the agent after its worker died    *)
(*   "double_prompt"   a worker is prompted before its last task came back *)
(*   "slow_disk"       saves of the registry overtake one another, and a   *)
(*                     crash hits the agent while it writes a file         *)
(***************************************************************************)
EXTENDS Integers

CONSTANTS
  Server,    \* orchestrators: pi sessions on the pinned server machine
  Conn,      \* connections, each used once
  Instance,  \* instance ids
  Task,      \* task ids
  MaxLife,   \* bound: processes the agent runs through, one after the other
  Faults,    \* what the environment may do, see above
  None,      \* no task, no instance, no connection, no server
  Absent     \* no record in the instance registry

AllFaults == {"coalesced_read", "slow_hello", "half_open", "double_connect",
              "late_prompt", "double_prompt", "slow_disk"}

ASSUME ConstantsAssumption ==
  /\ MaxLife \in Nat \ {0}
  /\ Faults \subseteq AllFaults
  /\ None \notin Server \cup Conn \cup Instance \cup Task
  /\ Absent \notin Task \cup {None}

(***************************************************************************)
(* seq is Date.now() in the code: here the agent's life, as only that a    *)
(* later life has a later clock is used.  "settled" stands for             *)
(* "budget_exceeded" too.                                                  *)
(***************************************************************************)
Frame == [task: Task, instance: Instance, seq: 1..MaxLife, status: {"settled", "aborted"}]

\* Mutant of FileFor: outbox files named after the task alone.
FileForTask(f) == <<f.task, 1>>

FileFor(f) == <<f.task, f.seq>>

\* Mutant of SeenKey: a later verdict on the same task counts as seen.
SeenKeyTask(f) == <<f.instance, f.task, 1>>

SeenKey(f) == <<f.instance, f.task, f.seq>>

Registry == [Instance -> Task \cup {None, Absent}]
EmptyRegistry == [i \in Instance |-> Absent]

VARIABLES
  (* the agent process *)
  up,        \* is it running
  life,      \* which of its lives this is
  run,       \* supervisor: the state of each worker
  busy,      \* workers that are working on a prompt
  pending,   \* pendingTasks
  owner,     \* taskOwners
  persisted, \* the instance registry in memory: the taskId of each record
  saving,    \* registry snapshots of this life that may be the last to be written
  putting,   \* completions being written to the outbox
  (* the agent's disk *)
  registryFile, \* instances.json
  outbox,       \* the outbox directory
  (* connections *)
  agentEnd,  \* the agent's end: handleConnection
  serverEnd, \* the orchestrator's end: AgentClient
  client,    \* the orchestrator that opened it
  hello,     \* connections with the agent's hello in transit
  down,      \* task_done frames in transit
  acks,      \* task_done_ack frames in transit
  replay,    \* what outbox.pending() returned
  (* prompts *)
  stage,     \* of each task's rpc frame
  target,    \* the instance each task is for
  via,       \* the connection each task was sent on
  excused,   \* history: accepted tasks that may be forgotten, see AcceptPrompt and AgentCrash
  (* the orchestrators *)
  current,   \* FleetManager.agents
  tracked,   \* FleetManager.instances: who spawned it
  seen,      \* seenTaskDone
  (* history *)
  emitted,   \* completions so far
  stored,    \* completions that reached the outbox
  handled,   \* <<server, completion>> of all onTaskDone calls
  unheard    \* completions read by a client that had no handler for them

taskVars == <<run, busy, pending, owner>>
registryVars == <<persisted, saving, registryFile>>
outboxVars == <<putting, outbox, emitted, stored>>
connVars == <<agentEnd, serverEnd, client, hello, down, acks, replay>>
promptVars == <<stage, target, via, excused>>
serverVars == <<current, tracked, seen, handled, unheard>>
agentVars == <<up, life, taskVars, registryVars, outboxVars>>
vars == <<agentVars, connVars, promptVars, serverVars>>

Live == {"running", "stopped"}
AgentOpen(c) == agentEnd[c] \in {"accepted", "replaying", "ready"}
ServerOpen(c) == serverEnd[c] \in {"connecting", "greeted", "ready", "abandoned"}

\* The client FleetManager.agent hands out without connecting.
LiveClient(s) == {c \in Conn : current[s] = c /\ ServerOpen(c)}

TypeOK ==
  /\ up \in BOOLEAN
  /\ life \in 1..MaxLife
  /\ run \in [Instance -> Live \cup {"none", "exited", "lost"}]
  /\ busy \in [Instance -> BOOLEAN]
  /\ pending \in [Instance -> Task \cup {None}]
  /\ owner \in [Task -> Conn \cup {None}]
  /\ persisted \in Registry
  /\ saving \in SUBSET Registry
  /\ registryFile \in Registry
  /\ putting \in SUBSET Frame
  /\ outbox \in SUBSET Frame
  /\ agentEnd \in [Conn -> {"none", "accepted", "replaying", "ready", "closed"}]
  /\ serverEnd \in [Conn -> {"none", "connecting", "greeted", "ready", "abandoned", "closed"}]
  /\ client \in [Conn -> Server \cup {None}]
  /\ hello \in SUBSET Conn
  /\ down \in [Conn -> SUBSET Frame]
  /\ acks \in [Conn -> SUBSET (Task \X (1..MaxLife))]
  /\ replay \in [Conn -> SUBSET Frame]
  /\ stage \in [Task -> {"new", "sent", "accepted", "lost"}]
  /\ target \in [Task -> Instance \cup {None}]
  /\ via \in [Task -> Conn \cup {None}]
  /\ excused \in SUBSET Task
  /\ current \in [Server -> Conn \cup {None}]
  /\ tracked \in [Instance -> Server \cup {None}]
  /\ seen \in [Server -> SUBSET (Instance \X Task \X (1..MaxLife))]
  /\ emitted \in SUBSET Frame
  /\ stored \in SUBSET Frame
  /\ handled \in SUBSET (Server \X Frame)
  /\ unheard \in SUBSET Frame

Init ==
  /\ up = TRUE
  /\ life = 1
  /\ run = [i \in Instance |-> "none"]
  /\ busy = [i \in Instance |-> FALSE]
  /\ pending = [i \in Instance |-> None]
  /\ owner = [t \in Task |-> None]
  /\ persisted = EmptyRegistry
  /\ saving = {}
  /\ registryFile = EmptyRegistry
  /\ putting = {}
  /\ outbox = {}
  /\ agentEnd = [c \in Conn |-> "none"]
  /\ serverEnd = [c \in Conn |-> "none"]
  /\ client = [c \in Conn |-> None]
  /\ hello = {}
  /\ down = [c \in Conn |-> {}]
  /\ acks = [c \in Conn |-> {}]
  /\ replay = [c \in Conn |-> {}]
  /\ stage = [t \in Task |-> "new"]
  /\ target = [t \in Task |-> None]
  /\ via = [t \in Task |-> None]
  /\ excused = {}
  /\ current = [s \in Server |-> None]
  /\ tracked = [i \in Instance |-> None]
  /\ seen = [s \in Server |-> {}]
  /\ emitted = {}
  /\ stored = {}
  /\ handled = {}
  /\ unheard = {}

-----------------------------------------------------------------------------
(***************************************************************************)
(* The agent: what its handlers share.                                     *)
(***************************************************************************)

\* persist(): writes of instances.json are not serialised, so any snapshot of
\* this life may be the one the file ends up with; what it holds matters to the
\* next life only.  Without "slow_disk" a write is over at once.
Save(registry) ==
  /\ persisted' = registry
  /\ IF "slow_disk" \in Faults
     THEN saving' = saving \cup {registry} /\ UNCHANGED registryFile
     ELSE registryFile' = registry /\ UNCHANGED saving

\* Mutant of Completion: seq counts from 1 in every life of the agent.
CompletionCounted(t, i, n, st) == [task |-> t, instance |-> i, seq |-> 1, status |-> st]

Completion(t, i, n, st) == [task |-> t, instance |-> i, seq |-> n, status |-> st]

\* Mutant of Closing: the exit of a worker reports nothing.
ClosingSettled(i, st) ==
  {Completion(t, i, life, st) : t \in IF st = "aborted" THEN {} ELSE {pending[i]} \ {None}}

\* The completion of the task an instance has pending, if it has one.
Closing(i, st) ==
  {Completion(t, i, life, st) : t \in {pending[i]} \ {None}}

\* emitTaskDone, up to the write of the outbox file.
Emit(frames) ==
  /\ putting' = putting \cup frames
  /\ emitted' = emitted \cup frames
  /\ UNCHANGED <<outbox, stored>>

\* Mutant of Transmit: connections the agent does not listen to yet are skipped.
TransmitReady(conns, frames) ==
  down' = [c \in Conn |->
             IF c \in conns /\ ServerOpen(c) /\ agentEnd[c] = "ready"
             THEN down[c] \cup frames ELSE down[c]]

\* What is written to a connection whose other end is gone goes nowhere.
Transmit(conns, frames) ==
  down' = [c \in Conn |-> IF c \in conns /\ ServerOpen(c) THEN down[c] \cup frames ELSE down[c]]

(***************************************************************************)
(* The agent: workers.                                                     *)
(***************************************************************************)

\* onEvent, agent_settled.
Settle(i) ==
  /\ up
  /\ run[i] \in Live /\ busy[i]
  /\ busy' = [busy EXCEPT ![i] = FALSE]
  /\ pending' = [pending EXCEPT ![i] = None]
  /\ Emit(Closing(i, "settled"))
  /\ UNCHANGED <<up, life, run, owner, registryVars, connVars, promptVars, serverVars>>

\* onExit.  Without "late_prompt" no prompt is on its way to the worker.
WorkerExit(i) ==
  /\ up
  /\ run[i] \in Live
  /\ "late_prompt" \notin Faults => \A t \in Task : stage[t] = "sent" => target[t] # i
  /\ run' = [run EXCEPT ![i] = "exited"]
  /\ busy' = [busy EXCEPT ![i] = FALSE]
  /\ Save([persisted EXCEPT ![i] = Absent])
  /\ pending' = [pending EXCEPT ![i] = None]
  /\ Emit(Closing(i, "aborted"))
  /\ UNCHANGED <<up, life, owner, connVars, promptVars, serverVars>>

\* A stop frame: the worker counts as stopped at once, and exits later.
Stop(i) ==
  /\ up
  /\ run[i] = "running"
  /\ run' = [run EXCEPT ![i] = "stopped"]
  /\ UNCHANGED <<up, life, busy, pending, owner, registryVars, outboxVars, connVars,
                 promptVars, serverVars>>

\* FleetManager.spawn and the agent's answer, in one step.
Spawn(s, i) ==
  /\ up
  /\ run[i] = "none"
  /\ \E c \in LiveClient(s) : agentEnd[c] = "ready"
  /\ run' = [run EXCEPT ![i] = "running"]
  /\ Save([persisted EXCEPT ![i] = None])
  /\ tracked' = [tracked EXCEPT ![i] = s]
  /\ UNCHANGED <<up, life, busy, pending, owner, outboxVars, connVars, promptVars,
                 current, seen, handled, unheard>>

(***************************************************************************)
(* The agent: files.                                                       *)
(***************************************************************************)

\* outbox.put ends: the owner gets the completion if it is there, else everyone.
PutDone(f) ==
  LET c == owner[f.task]
      connections == {d \in Conn : AgentOpen(d)}
  IN
  /\ up
  /\ f \in putting
  /\ putting' = putting \ {f}
  /\ outbox' = {g \in outbox : FileFor(g) # FileFor(f)} \cup {f}
  /\ stored' = stored \cup {f}
  /\ Transmit(IF c \in connections THEN {c} ELSE connections, {f})
  /\ owner' = [owner EXCEPT ![f.task] = None]
  /\ UNCHANGED <<up, life, run, busy, pending, registryVars, emitted, agentEnd, serverEnd,
                 client, hello, acks, replay, promptVars, serverVars>>

-----------------------------------------------------------------------------
(***************************************************************************)
(* Connections.                                                            *)
(***************************************************************************)

\* FleetManager.agent has no live client and opens a connection; the agent
\* knows the machine, takes it in and says hello.
Connect(s, c) ==
  /\ up
  /\ serverEnd[c] = "none"
  /\ LiveClient(s) = {}
  /\ "double_connect" \notin Faults =>
       \A d \in Conn : client[d] = s => serverEnd[d] \notin {"connecting", "greeted"}
  /\ "half_open" \notin Faults => \A d \in Conn : AgentOpen(d) => ServerOpen(d)
  /\ serverEnd' = [serverEnd EXCEPT ![c] = "connecting"]
  /\ agentEnd' = [agentEnd EXCEPT ![c] = "accepted"]
  /\ client' = [client EXCEPT ![c] = s]
  /\ hello' = hello \cup {c}
  /\ UNCHANGED <<agentVars, down, acks, replay, promptVars, serverVars>>

\* await outbox.pending(): the files are read ...
ReadOutbox(c) ==
  /\ up
  /\ agentEnd[c] = "accepted"
  /\ agentEnd' = [agentEnd EXCEPT ![c] = "replaying"]
  /\ replay' = [replay EXCEPT ![c] = outbox]
  /\ UNCHANGED <<agentVars, serverEnd, client, hello, down, acks, promptVars, serverVars>>

\* ... and sent, after which the agent listens to the connection.
Replay(c) ==
  /\ up
  /\ agentEnd[c] = "replaying"
  /\ agentEnd' = [agentEnd EXCEPT ![c] = "ready"]
  /\ replay' = [replay EXCEPT ![c] = {}]
  /\ Transmit({c}, replay[c])
  /\ UNCHANGED <<agentVars, serverEnd, client, hello, acks, promptVars, serverVars>>

ReadHello(c) ==
  /\ c \in hello
  /\ serverEnd[c] = "connecting"
  /\ hello' = hello \ {c}
  /\ serverEnd' = [serverEnd EXCEPT ![c] = "greeted"]
  /\ UNCHANGED <<agentVars, agentEnd, client, down, acks, replay, promptVars, serverVars>>

\* The wait for hello ends with an error: the connection stays open, unused.
HelloTimeout(c) ==
  /\ "slow_hello" \in Faults
  /\ serverEnd[c] = "connecting"
  /\ serverEnd' = [serverEnd EXCEPT ![c] = "abandoned"]
  /\ UNCHANGED <<agentVars, agentEnd, client, hello, down, acks, replay, promptVars, serverVars>>

\* FleetManager.agent goes on after hello: it hangs its handlers on the client.
Register(c) ==
  /\ serverEnd[c] = "greeted"
  /\ serverEnd' = [serverEnd EXCEPT ![c] = "ready"]
  /\ current' = [current EXCEPT ![client[c]] = c]
  /\ UNCHANGED <<agentVars, agentEnd, client, hello, down, acks, replay, promptVars,
                 tracked, seen, handled, unheard>>

\* The client's task_done handler, once FleetManager.agent set it.  The review
\* flag it raises is only ever displayed and is left out.
OnTaskDone(s, f) ==
  IF SeenKey(f) \in seen[s]
  THEN UNCHANGED <<seen, handled>>
  ELSE /\ seen' = [seen EXCEPT ![s] = @ \cup {SeenKey(f)}]
       /\ handled' = handled \cup {<<s, f>>}

\* Frames of this connection are read while no task_done handler is set.
Unheard(c) ==
  \/ serverEnd[c] = "greeted" /\ "coalesced_read" \in Faults
  \/ serverEnd[c] = "abandoned"

\* AgentClient.handleFrame, task_done: the handler, if there is one, then the ack.
ReadTaskDone(c, f) ==
  /\ f \in down[c]
  /\ \/ serverEnd[c] = "ready" /\ OnTaskDone(client[c], f) /\ UNCHANGED unheard
     \/ Unheard(c) /\ unheard' = unheard \cup {f} /\ UNCHANGED <<seen, handled>>
  /\ down' = [down EXCEPT ![c] = @ \ {f}]
  /\ acks' = [acks EXCEPT ![c] = IF AgentOpen(c) THEN @ \cup {FileFor(f)} ELSE @]
  /\ UNCHANGED <<agentVars, agentEnd, serverEnd, client, hello, replay, promptVars,
                 current, tracked>>

\* The agent's frame handler, task_done_ack.
ReadAck(c, file) ==
  /\ up
  /\ agentEnd[c] = "ready"
  /\ file \in acks[c]
  /\ acks' = [acks EXCEPT ![c] = @ \ {file}]
  /\ outbox' = {f \in outbox : FileFor(f) # file}
  /\ UNCHANGED <<up, life, taskVars, registryVars, putting, emitted, stored, agentEnd,
                 serverEnd, client, hello, down, replay, promptVars, serverVars>>

-----------------------------------------------------------------------------
(***************************************************************************)
(* Prompts.                                                                *)
(***************************************************************************)

\* Tasks of this instance that the orchestrator is still waiting for.
Outstanding(s, i) ==
  {t \in Task : target[t] = i /\ \A f \in Frame : f.task = t => <<s, f>> \notin handled}

\* FleetManager.prompt with a taskId, on a client that is not closed.
Prompt(s, t, i) ==
  /\ stage[t] = "new"
  /\ tracked[i] = s
  /\ "late_prompt" \notin Faults => up /\ run[i] = "running"
  /\ "double_prompt" \notin Faults => Outstanding(s, i) = {}
  /\ \E c \in LiveClient(s) :
       /\ stage' = [stage EXCEPT ![t] = IF AgentOpen(c) THEN "sent" ELSE "lost"]
       /\ via' = [via EXCEPT ![t] = c]
  /\ target' = [target EXCEPT ![t] = i]
  /\ UNCHANGED <<agentVars, connVars, excused, serverVars>>

\* The agent's frame handler, rpc with a taskId: the task is booked before
\* writeRpc finds out whether the worker can be reached.  One that has ended will never
\* report it, and the task that was booked for the instance before is booked no more.
AcceptPrompt(t) ==
  LET i == target[t] IN
  /\ up
  /\ stage[t] = "sent"
  /\ agentEnd[via[t]] = "ready"
  /\ stage' = [stage EXCEPT ![t] = "accepted"]
  /\ pending' = [pending EXCEPT ![i] = t]
  /\ owner' = [owner EXCEPT ![t] = via[t]]
  /\ IF persisted[i] # Absent
     THEN Save([persisted EXCEPT ![i] = t])
     ELSE UNCHANGED registryVars
  /\ busy' = [busy EXCEPT ![i] = @ \/ run[i] = "running"]
  /\ excused' = excused \cup ({pending[i]} \ {None}) \cup {x \in {t} : run[i] \notin Live}
  /\ UNCHANGED <<up, life, run, outboxVars, connVars, target, via, serverVars>>

-----------------------------------------------------------------------------
(***************************************************************************)
(* Failures.                                                               *)
(***************************************************************************)

\* Frames the agent has not read when its end closes are lost.
LosePrompts(conns) ==
  stage' = [t \in Task |-> IF stage[t] = "sent" /\ via[t] \in conns THEN "lost" ELSE stage[t]]

\* The agent's end goes away: an error, a heartbeat timeout, the other end's close.
AgentClose(c) ==
  /\ AgentOpen(c)
  /\ agentEnd' = [agentEnd EXCEPT ![c] = "closed"]
  /\ replay' = [replay EXCEPT ![c] = {}]
  /\ acks' = [acks EXCEPT ![c] = {}]
  /\ LosePrompts({c})
  /\ UNCHANGED <<agentVars, serverEnd, client, hello, down, target, via, excused, serverVars>>

\* The orchestrator's end of these connections goes away.
Hangup(conns) ==
  /\ serverEnd' = [c \in Conn |-> IF c \in conns THEN "closed" ELSE serverEnd[c]]
  /\ down' = [c \in Conn |-> IF c \in conns THEN {} ELSE down[c]]
  /\ hello' = hello \ conns
  /\ UNCHANGED <<agentEnd, client, acks, replay>>

ServerClose(c) ==
  /\ ServerOpen(c)
  /\ Hangup({c})
  /\ UNCHANGED <<agentVars, promptVars, serverVars>>

\* A pi session ends and another one takes its place; all its state was in memory.
ServerRestart(s) ==
  /\ Hangup({c \in Conn : client[c] = s})
  /\ current' = [current EXCEPT ![s] = None]
  /\ tracked' = [i \in Instance |-> IF tracked[i] = s THEN None ELSE tracked[i]]
  /\ seen' = [seen EXCEPT ![s] = {}]
  /\ UNCHANGED <<agentVars, promptVars, handled, unheard>>

\* The agent dies.  A file it was writing is unreadable afterwards: instances.json
\* reads as if there were none, an outbox entry is skipped.  What was being written to the
\* outbox is lost, and with saves of the registry under way what was pending may be.
AgentCrash ==
  /\ up
  /\ life < MaxLife
  /\ "slow_disk" \notin Faults => putting = {}
  /\ up' = FALSE
  /\ run' = [i \in Instance |-> IF run[i] \in Live THEN "lost" ELSE run[i]]
  /\ busy' = [i \in Instance |-> FALSE]
  /\ pending' = [i \in Instance |-> None]
  /\ owner' = [t \in Task |-> None]
  /\ persisted' = EmptyRegistry
  /\ registryFile' \in {registryFile} \cup saving \cup {EmptyRegistry : r \in saving}
  /\ excused' = excused \cup {f.task : f \in putting}
                      \cup {t \in Task : saving # {} /\ \E i \in Instance : pending[i] = t}
  /\ saving' = {}
  /\ putting' = {}
  /\ agentEnd' = [c \in Conn |-> IF AgentOpen(c) THEN "closed" ELSE agentEnd[c]]
  /\ replay' = [c \in Conn |-> {}]
  /\ acks' = [c \in Conn |-> {}]
  /\ LosePrompts(Conn)
  /\ UNCHANGED <<life, outbox, emitted, stored, serverEnd, client, hello, down, target, via,
                 serverVars>>

\* Mutant of Recovered: every record counts, with a taskId or without.
RecoveredRecords == {i \in Instance : registryFile[i] # Absent}

\* The instances that the registry file says had a task.
Recovered == {i \in Instance : registryFile[i] \in Task}

\* startAgentDaemon: every task the registry file names is reported aborted,
\* then an empty registry replaces the file.
AgentRestart ==
  /\ ~up
  /\ up' = TRUE
  /\ life' = life + 1
  /\ Emit({Completion(registryFile[i], i, life + 1, "aborted") : i \in Recovered})
  /\ Save(EmptyRegistry)
  /\ UNCHANGED <<taskVars, connVars, promptVars, serverVars>>

-----------------------------------------------------------------------------

Next ==
  \/ \E i \in Instance : Settle(i) \/ WorkerExit(i) \/ Stop(i)
  \/ \E s \in Server, i \in Instance : Spawn(s, i)
  \/ \E f \in putting : PutDone(f)
  \/ \E s \in Server, c \in Conn : Connect(s, c)
  \/ \E c \in Conn : ReadOutbox(c) \/ Replay(c)
  \/ \E c \in Conn : ReadHello(c) \/ HelloTimeout(c) \/ Register(c)
  \/ \E c \in Conn : \E f \in down[c] : ReadTaskDone(c, f)
  \/ \E c \in Conn : \E file \in acks[c] : ReadAck(c, file)
  \/ \E s \in Server, t \in Task, i \in Instance : Prompt(s, t, i)
  \/ \E t \in Task : AcceptPrompt(t)
  \/ \E c \in Conn : AgentClose(c) \/ ServerClose(c)
  \/ \E s \in Server : ServerRestart(s)
  \/ AgentCrash
  \/ AgentRestart

Spec == Init /\ [][Next]_vars

(***************************************************************************)
(* Fairness.  Files get written, frames that arrived get read, a prompted  *)
(* worker settles unless it dies, and the service manager restarts the     *)
(* agent.  Nothing obliges anyone to connect, to prompt or to stay, nor a  *)
(* stopped worker to exit: stop sends it one SIGTERM.                      *)
(***************************************************************************)
Fairness ==
  /\ \A i \in Instance : WF_vars(Settle(i))
  /\ WF_vars(\E f \in putting : PutDone(f))
  /\ \A c \in Conn :
       /\ WF_vars(ReadOutbox(c))
       /\ WF_vars(Replay(c))
       /\ WF_vars(ReadHello(c))
       /\ WF_vars(Register(c))
       /\ WF_vars(\E f \in down[c] : ReadTaskDone(c, f))
       /\ WF_vars(\E file \in acks[c] : ReadAck(c, file))
  /\ \A t \in Task : WF_vars(AcceptPrompt(t))
  /\ WF_vars(AgentRestart)

FairSpec == Spec /\ Fairness

-----------------------------------------------------------------------------
(***************************************************************************)
(* Properties.                                                             *)
(***************************************************************************)

\* In one life of the agent a task gets one completion: settling, the exit of
\* the worker and the recovery of the registry never both report it, so an
\* outbox file is never overwritten by another verdict.
OneVerdictPerLife ==
  \A f, g \in emitted : FileFor(f) = FileFor(g) => f = g

\* An ack on its way to the agent is for a completion some handler has run for.
AckedAfterHandled ==
  \A c \in Conn : \A file \in acks[c] : \E s \in Server, f \in stored :
    FileFor(f) = file /\ <<s, f>> \in handled

\* A completion that reached the outbox stays there until some orchestrator
\* was woken for it, whoever crashes and whatever connection breaks.
NoCompletionLost ==
  \A f \in stored : f \in outbox \/ \E s \in Server : <<s, f>> \in handled

\* Whatever else goes wrong - replays, two connections of one orchestrator, registry files
\* that are out of date - a completion that reached the outbox is lost in one way only: a
\* client read it that had no handler for it.
OnlyUnheardLost ==
  \A f \in stored : \/ f \in outbox
                    \/ \E s \in Server : <<s, f>> \in handled
                    \/ f \in unheard

\* A task the agent accepted has its report in the outbox or on the way there, or is
\* pending on a worker that can still settle or exit, or will be found in the registry file
\* by the next agent.  There are four ways to be excused: the worker had ended when the
\* prompt came, the next prompt took the task's place, or the agent died while it wrote the
\* report or saved the registry.
TaskAccounted ==
  \A t \in Task : stage[t] = "accepted" /\ t \notin excused =>
    \/ \E f \in putting \cup stored : f.task = t
    \/ up /\ pending[target[t]] = t /\ run[target[t]] \in Live
    \/ ~up /\ registryFile[target[t]] = t

\* The delivery layer is an at-least-once notification service.
Delivery == INSTANCE AtLeastOnce WITH
  Receiver <- Server, Notice <- Frame, recorded <- stored, held <- outbox, told <- handled

ImplementsAtLeastOnce == Delivery!Spec

\* If from some time on an orchestrator stays connected, and no worker that was stopped
\* stays for good, every task the agent ever accepted wakes an orchestrator, and the outbox
\* drains.
Connected == \E c \in Conn : AgentOpen(c) /\ ServerOpen(c)
Reported(t) == \E s \in Server, f \in stored : f.task = t /\ <<s, f>> \in handled
CompletionReachesServer ==
  <>[]Connected /\ (\A i \in Instance : []<>(run[i] # "stopped")) =>
    []<>(outbox = {} /\ \A t \in Task : stage[t] = "accepted" => Reported(t))

(***************************************************************************)
(* What the repository says and the code does not do.                      *)
(***************************************************************************)

\* daemon.ts, 213: an aborted task_done is for what was mid-task, so no task is
\* reported aborted after it was reported done.
AbortedOnlyMidTask ==
  \A f, g \in emitted : f.task = g.task /\ f.status = "aborted" => g.seq >= f.seq
=============================================================================
