----------------------------- MODULE AgentLink -----------------------------
(***************************************************************************)
(* The link between an orchestrator and one agent: the agent's listener,   *)
(* which follows the machine's tailnet address, the gate every connection  *)
(* passes, the orchestrator's attempts to connect, its reconnect timers,   *)
(* and how either side closes down.                                        *)
(*                                                                         *)
(* Everything may go wrong that the two sides must live with: connections  *)
(* that break, slow or refused greetings, connects that fail, moves to     *)
(* other addresses, restarts, and connects that get through while the      *)
(* agent is closing, because its workers are slower to stop than the other *)
(* side is to reconnect.                                                   *)
(***************************************************************************)
EXTENDS Integers, FiniteSets

CONSTANTS
  Conn,        \* sockets; one that is closed at both ends stands for a new one
  Call,        \* calls of FleetManager.agent at a time
  Poll,        \* polls of the address at a time
  MaxTroubles, \* bound: troubles of any kind
  MaxTools,    \* bound: connections a tool asks for
  None         \* no connection

ASSUME ConstantsAssumption ==
  /\ {MaxTroubles, MaxTools} \subseteq Nat
  /\ Conn \subseteq Nat
  /\ None \notin Conn

Address == 0..MaxTroubles

VARIABLES
  (* the machine *)
  address,    \* its tailnet address
  seen,       \* history: the latest address it got for the first time
  returned,   \* history: it got back one it had before
  had,        \* history: the addresses it had since the agent started
  troubles,   \* moves, late answers to polls, broken connections, refusals, slow greetings
              \* and stops so far
  (* the agent *)
  agent,      \* where its process is between start and exit
  active,     \* activeServer and currentHost: the address it was bound to
  listening,  \* addresses with an open listener
  own,        \* connections of activeServer
  polling,    \* where each poll is
  next,       \* nextHost of each poll under way, 0 of an idle one
  misled,     \* history: a poll acted on an address the machine had lost meanwhile, and no
              \* listener was opened since
  (* the connections *)
  clientEnd,  \* the orchestrator's end
  agentEnd,   \* the agent's end, "gate" until whois has answered
  cut,        \* connections through which nothing gets any more
  greeted,    \* connections with the agent's hello sent
  (* the orchestrator *)
  closed,     \* closed
  registered, \* agents: the client of this host
  watched,    \* clients whose close handler reconnects
  pc,         \* where each call of agent() is
  conn,       \* the connection it greets
  retry,      \* calls that a timer made
  tools,      \* connections asked for by tools so far
  timers,     \* reconnect timers that are set
  tracked     \* reconnectTimers holds one of them

machineVars == <<address, seen, returned, had, troubles>>
agentVars == <<agent, active, listening, own, polling, next, misled>>
connVars == <<clientEnd, agentEnd, cut, greeted>>
managerVars == <<closed, registered, watched, pc, conn, retry, tools, timers, tracked>>
vars == <<machineVars, agentVars, connVars, managerVars>>

TypeOK ==
  /\ address \in Address /\ troubles \in 0..MaxTroubles
  /\ seen \in 0..troubles /\ returned \in BOOLEAN
  /\ address <= seen /\ had \subseteq 0..seen
  /\ agent \in {"running", "stopping", "closing", "exited"}
  /\ active \in Address
  /\ listening \subseteq Address
  /\ own \subseteq Conn
  /\ polling \in [Poll -> {"idle", "closing", "listen"}]
  /\ next \in [Poll -> Address]
  /\ misled \in BOOLEAN
  /\ clientEnd \in [Conn -> {"open", "closed"}]
  /\ agentEnd \in [Conn -> {"gate", "open", "closed"}]
  /\ cut \subseteq Conn /\ greeted \subseteq Conn /\ watched \subseteq Conn
  /\ closed \in BOOLEAN /\ tracked \in BOOLEAN
  /\ registered \in Conn \cup {None}
  /\ pc \in [Call -> {"idle", "dialing", "greeting"}]
  /\ conn \in [Call -> Conn \cup {None}]
  /\ retry \subseteq Call
  /\ tools \in 0..MaxTools
  /\ timers \in Nat
  /\ tracked => timers > 0

Init ==
  /\ address = 0 /\ seen = 0 /\ returned = FALSE /\ had = {0} /\ troubles = 0
  /\ agent = "running"
  /\ active = 0 /\ listening = {0} /\ own = {}
  /\ polling = [p \in Poll |-> "idle"]
  /\ next = [p \in Poll |-> 0] /\ misled = FALSE
  /\ clientEnd = [c \in Conn |-> "closed"]
  /\ agentEnd = [c \in Conn |-> "closed"]
  /\ cut = {} /\ greeted = {} /\ watched = {}
  /\ closed = FALSE /\ tracked = FALSE
  /\ registered = None
  /\ pc = [k \in Call |-> "idle"]
  /\ conn = [k \in Call |-> None]
  /\ retry = {} /\ tools = 0 /\ timers = 0

-----------------------------------------------------------------------------
(***************************************************************************)
(* The machine and its network.                                            *)
(***************************************************************************)

Trouble == troubles < MaxTroubles /\ troubles' = troubles + 1

Held(c) == clientEnd[c] = "open" \/ agentEnd[c] # "closed"

\* Tailscale gives the machine another address, the next new one or one it had before:
\* nothing gets through the connections made to the one it has.
Move ==
  /\ Trouble
  /\ address' \in 0..(seen + 1) \ {address}
  /\ seen' = IF address' > seen THEN address' ELSE seen
  /\ returned' = (returned \/ address' <= seen)
  /\ had' = had \cup {address'}
  /\ cut' = {c \in Conn : Held(c)}
  /\ UNCHANGED <<agentVars, clientEnd, agentEnd, greeted, managerVars>>

Cut(c) ==
  /\ Held(c) /\ c \notin cut
  /\ Trouble
  /\ cut' = cut \cup {c}
  /\ UNCHANGED <<address, seen, returned, had, agentVars, clientEnd, agentEnd, greeted, managerVars>>

-----------------------------------------------------------------------------
(***************************************************************************)
(* The agent's listener.                                                   *)
(***************************************************************************)

\* A poll is told another address than the listener's.  The command that tells it has no
\* timeout: it may be an address the machine had when the poll began and has lost meanwhile.
PollAnswers(a) ==
  /\ agent \in {"running", "stopping"}
  /\ a \in had \ {active}
  /\ IF a = address
     THEN UNCHANGED <<machineVars, misled>>
     ELSE Trouble /\ misled' = TRUE /\ UNCHANGED <<address, seen, returned, had>>

\* Mutant of Rebind: the old listener stays.
RebindKeepsOld(p) ==
  /\ polling[p] = "idle"
  /\ \E a \in Address : PollAnswers(a) /\ next' = [next EXCEPT ![p] = a]
  /\ polling' = [polling EXCEPT ![p] = "closing"]
  /\ UNCHANGED <<agent, active, listening, own, connVars, managerVars>>

\* The listener is closed, by the first of several such polls, be it one that an earlier
\* of them has opened while the answer of this one was on its way.
Rebind(p) ==
  /\ polling[p] = "idle"
  /\ \E a \in Address : PollAnswers(a) /\ next' = [next EXCEPT ![p] = a]
  /\ polling' = [polling EXCEPT ![p] = "closing"]
  /\ listening' = listening \ {active}
  /\ UNCHANGED <<agent, active, own, connVars, managerVars>>

\* The closed listener emits "close" when the last of its connections has ended: every
\* poll that waits for it goes on.
ServerDrained ==
  /\ agent # "closing"
  /\ own = {}
  /\ \E p \in Poll : polling[p] = "closing"
  /\ polling' = [p \in Poll |-> IF polling[p] = "closing" THEN "listen" ELSE polling[p]]
  /\ UNCHANGED <<machineVars, agent, active, listening, own, next, misled, connVars,
                 managerVars>>

\* Mutant of Relisten: the listener is closed after the new one has taken its place, which
\* closes the new one.
RelistenClosesNew(p) ==
  /\ agent # "closing"
  /\ polling[p] = "listen"
  /\ polling' = [polling EXCEPT ![p] = "idle"]
  /\ next' = [next EXCEPT ![p] = 0]
  /\ IF next[p] = address /\ next[p] \notin listening
     THEN /\ active' = next[p]
          /\ own' = {}
          /\ misled' = FALSE
     ELSE /\ misled' = (misled \/ (next[p] # address /\ listening = {}))
          /\ UNCHANGED <<active, own>>
  /\ UNCHANGED <<machineVars, agent, listening, connVars, managerVars>>

\* listen() fails on an address that is taken or no longer the machine's: the poll gives
\* up, the next one may try again.
Relisten(p) ==
  /\ agent # "closing"
  /\ polling[p] = "listen"
  /\ polling' = [polling EXCEPT ![p] = "idle"]
  /\ next' = [next EXCEPT ![p] = 0]
  /\ IF next[p] = address /\ next[p] \notin listening
     THEN /\ listening' = listening \cup {next[p]}
          /\ active' = next[p]
          /\ own' = {}
          /\ misled' = FALSE
     ELSE /\ misled' = (misled \/ (next[p] # address /\ listening = {}))
          /\ UNCHANGED <<listening, active, own>>
  /\ UNCHANGED <<machineVars, agent, connVars, managerVars>>

-----------------------------------------------------------------------------
(***************************************************************************)
(* Connections at the agent.                                               *)
(***************************************************************************)

\* whois has named the pinned server: the connection is served and greeted.
Admit(c) ==
  /\ agent # "exited"
  /\ agentEnd[c] = "gate"
  /\ agentEnd' = [agentEnd EXCEPT ![c] = "open"]
  /\ greeted' = greeted \cup {c}
  /\ UNCHANGED <<machineVars, agentVars, clientEnd, cut, managerVars>>

EndAtAgent(c) ==
  /\ agentEnd' = [agentEnd EXCEPT ![c] = "closed"]
  /\ own' = own \ {c}
  /\ cut' = IF clientEnd[c] = "closed" THEN cut \ {c} ELSE cut

\* whois fails or names another machine.
Refuse(c) ==
  /\ agent # "exited"
  /\ agentEnd[c] = "gate"
  /\ Trouble
  /\ EndAtAgent(c)
  /\ UNCHANGED <<address, seen, returned, had, agent, active, listening, polling, next, misled,
                 clientEnd, greeted, managerVars>>


\* The other end has closed, or 45 seconds went by without a frame or heartbeat.
AgentDrops(c) ==
  /\ agentEnd[c] = "open"
  /\ clientEnd[c] = "closed" \/ c \in cut
  /\ EndAtAgent(c)
  /\ UNCHANGED <<machineVars, agent, active, listening, polling, next, misled,
                 clientEnd, greeted, managerVars>>

-----------------------------------------------------------------------------
(***************************************************************************)
(* The agent closes down and is started again by the service manager.      *)
(***************************************************************************)

\* close() up to the wait for workers and commands: no more polls, and every connection
\* that is served is closed.
Shutdown ==
  /\ agent = "running"
  /\ Trouble
  /\ agent' = "stopping"
  /\ agentEnd' = [c \in Conn |-> IF agentEnd[c] = "open" THEN "closed" ELSE agentEnd[c]]
  /\ own' = {c \in own : agentEnd[c] = "gate"}
  /\ UNCHANGED <<address, seen, returned, had, active, listening, polling, next, misled, clientEnd,
                 cut, greeted, managerVars>>

\* The workers are gone; the listener is closed.
WorkersStopped ==
  /\ agent = "stopping"
  /\ agent' = "closing"
  /\ listening' = listening \ {active}
  /\ UNCHANGED <<machineVars, active, own, polling, next, misled, connVars, managerVars>>

\* close() has returned and the process exits: the listener's last connection has ended.
Exit ==
  /\ agent = "closing"
  /\ own = {}
  /\ agent' = "exited"
  /\ listening' = {}
  /\ polling' = [p \in Poll |-> "idle"]
  /\ next' = [p \in Poll |-> 0]
  /\ agentEnd' = [c \in Conn |-> "closed"]
  /\ UNCHANGED <<machineVars, active, own, misled, clientEnd, cut, greeted, managerVars>>

Start ==
  /\ agent = "exited"
  /\ agent' = "running"
  /\ active' = address
  /\ listening' = {address}
  /\ misled' = FALSE
  /\ had' = {address}
  /\ UNCHANGED <<address, seen, returned, troubles, own, polling, next, connVars, managerVars>>

-----------------------------------------------------------------------------
(***************************************************************************)
(* The orchestrator: agent(), which a tool or a timer calls, the handler   *)
(* of a client's close, and close().                                       *)
(***************************************************************************)

\* A socket for a new connection: the first that nobody holds any more.
Unused == {c \in Conn : ~Held(c) /\ c # registered /\ \A k \in Call : conn[k] # c}
Fresh(c) == c \in Unused /\ \A d \in Unused : c <= d

\* The client agent() returns without connecting.
Alive == registered # None /\ clientEnd[registered] = "open"

\* A tool needs the agent, and there is no client whose connection is open.
ToolCalls(k) ==
  /\ ~closed
  /\ tools < MaxTools
  /\ pc[k] = "idle"
  /\ ~Alive
  /\ tools' = tools + 1
  /\ pc' = [pc EXCEPT ![k] = "dialing"]
  /\ UNCHANGED <<machineVars, agentVars, connVars, closed, registered, watched, conn, retry,
                 timers, tracked>>

\* Mutant of TimerFires: the map keeps the timer.
TimerStaysTracked(k) ==
  /\ timers > 0
  /\ pc[k] = "idle"
  /\ timers' = timers - 1
  /\ IF Alive
     THEN UNCHANGED <<pc, retry>>
     ELSE /\ pc' = [pc EXCEPT ![k] = "dialing"]
          /\ retry' = retry \cup {k}
  /\ UNCHANGED <<machineVars, agentVars, connVars, closed, registered, watched, conn, tools,
                 tracked>>

\* A timer fires; reconnectTimers forgets the host's entry, whichever timer that is.  The
\* call does not look at closed.
TimerFires(k) ==
  /\ timers > 0
  /\ pc[k] = "idle"
  /\ timers' = timers - 1
  /\ tracked' = FALSE
  /\ IF Alive
     THEN UNCHANGED <<pc, retry>>
     ELSE /\ pc' = [pc EXCEPT ![k] = "dialing"]
          /\ retry' = retry \cup {k}
  /\ UNCHANGED <<machineVars, agentVars, connVars, closed, registered, watched, conn, tools>>

\* The socket connects to whoever listens at the machine's address; whois is asked.
Connects(k, c) ==
  /\ pc[k] = "dialing"
  /\ Fresh(c)
  /\ address \in listening
  /\ pc' = [pc EXCEPT ![k] = "greeting"]
  /\ conn' = [conn EXCEPT ![k] = c]
  /\ clientEnd' = [clientEnd EXCEPT ![c] = "open"]
  /\ agentEnd' = [agentEnd EXCEPT ![c] = "gate"]
  /\ own' = IF address = active THEN own \cup {c} ELSE own
  /\ cut' = cut \ {c} /\ greeted' = greeted \ {c} /\ watched' = watched \ {c}
  /\ UNCHANGED <<machineVars, agent, active, listening, polling, next, misled, closed,
                 registered, retry, tools, timers, tracked>>

\* Mutant of CallFails: one attempt is enough.
CallFailsForGood(k) ==
  /\ pc' = [pc EXCEPT ![k] = "idle"]
  /\ conn' = [conn EXCEPT ![k] = None]
  /\ retry' = retry \ {k}
  /\ UNCHANGED <<agentVars, connVars, closed, registered, watched, tools, timers, tracked>>

\* A call rejects; one that a timer made sets the next timer.
CallFails(k) ==
  /\ pc' = [pc EXCEPT ![k] = "idle"]
  /\ conn' = [conn EXCEPT ![k] = None]
  /\ retry' = retry \ {k}
  /\ IF k \in retry /\ ~closed
     THEN timers' = timers + 1 /\ tracked' = TRUE
     ELSE UNCHANGED <<timers, tracked>>
  /\ UNCHANGED <<agentVars, connVars, closed, registered, watched, tools>>

\* connect() is refused, or has no answer in 10 seconds.
DialFails(k) ==
  /\ pc[k] = "dialing"
  /\ IF address \in listening
     THEN Trouble /\ UNCHANGED <<address, seen, returned, had>>
     ELSE UNCHANGED machineVars
  /\ CallFails(k)

\* The hello arrives.  The client is registered, in the place of one that another call
\* may have registered meanwhile, and also in a manager that has closed meanwhile.
ReadHello(k) ==
  /\ pc[k] = "greeting"
  /\ conn[k] \in greeted
  /\ clientEnd[conn[k]] = "open"
  /\ conn[k] \notin cut
  /\ registered' = conn[k]
  /\ watched' = watched \cup {conn[k]}
  /\ pc' = [pc EXCEPT ![k] = "idle"]
  /\ conn' = [conn EXCEPT ![k] = None]
  /\ retry' = retry \ {k}
  /\ UNCHANGED <<machineVars, agentVars, connVars, closed, tools, timers, tracked>>

\* No hello in 10 seconds.  The connection stays as it is.
HelloTimeout(k) ==
  /\ pc[k] = "greeting"
  /\ IF conn[k] \in cut \/ agentEnd[conn[k]] = "closed"
     THEN UNCHANGED machineVars
     ELSE Trouble /\ UNCHANGED <<address, seen, returned, had>>
  /\ CallFails(k)


\* The other end has closed, or 45 seconds went by without a frame.
ClientDrops(c) ==
  /\ clientEnd[c] = "open"
  /\ agentEnd[c] = "closed" \/ c \in cut
  /\ clientEnd' = [clientEnd EXCEPT ![c] = "closed"]
  /\ cut' = IF agentEnd[c] = "closed" THEN cut \ {c} ELSE cut
  /\ greeted' = greeted \ {c} /\ watched' = watched \ {c}
  /\ IF c \in watched /\ ~closed
     THEN timers' = timers + 1 /\ tracked' = TRUE
     ELSE UNCHANGED <<timers, tracked>>
  /\ UNCHANGED <<machineVars, agentVars, agentEnd, closed, registered,
                 pc, conn, retry, tools>>

\* close(): the timer the map holds is cleared, the client the map holds is closed.
ManagerClose ==
  /\ ~closed
  /\ closed' = TRUE
  /\ timers' = IF tracked THEN timers - 1 ELSE timers
  /\ tracked' = FALSE
  /\ registered' = None
  /\ clientEnd' = IF registered = None THEN clientEnd ELSE [clientEnd EXCEPT ![registered] = "closed"]
  /\ UNCHANGED <<machineVars, agentVars, agentEnd, cut, greeted, watched, pc, conn, retry,
                 tools>>

-----------------------------------------------------------------------------
\* What the agent's event loop does by itself: polls, connections and timeouts.
AgentStep ==
  \/ \E p \in Poll : Rebind(p) \/ Relisten(p)
  \/ \E c \in Conn : Admit(c) \/ AgentDrops(c)
  \/ ServerDrained
  \/ WorkersStopped
  \/ Exit

\* What the orchestrator's event loop does by itself.
ManagerStep ==
  \/ \E k \in Call : TimerFires(k) \/ DialFails(k) \/ ReadHello(k) \/ HelloTimeout(k)
  \/ \E k \in Call, c \in Conn : Connects(k, c)
  \/ \E c \in Conn : ClientDrops(c)

Next ==
  \/ Move
  \/ \E c \in Conn : Cut(c) \/ Refuse(c)
  \/ AgentStep
  \/ Shutdown
  \/ Start
  \/ ManagerStep
  \/ \E k \in Call : ToolCalls(k)
  \/ ManagerClose

Spec == Init /\ [][Next]_vars

\* The address is polled and Tailscale tells it, the event loops serve what has arrived,
\* timers fire, whois answers, the wait for workers ends after their grace windows,
\* and the service manager starts the agent again.  Nothing is assumed of tools, troubles,
\* or the two ends' wish to close.
Fairness ==
  /\ WF_vars(AgentStep /\ troubles' = troubles)
  /\ WF_vars(ManagerStep /\ troubles' = troubles)
  /\ WF_vars(Start)

FairSpec == Spec /\ Fairness

-----------------------------------------------------------------------------
\* The agent answers at the address it believes it is bound to and nowhere else: the
\* socket of an address the machine has lost is refused, however many polls overlap and
\* however late their answers are, as long as the machine gets no address back.
OldAddressRefused == ~returned => listening \subseteq {active}

\* A poll has closed the listener and is to open the next.
Rebinding == \E p \in Poll : polling[p] \in {"closing", "listen"}

\* A running agent that does not listen at the machine's address will find that out, since
\* it believes it is bound to another one, or it is about to listen again.  The code has two
\* exceptions: a poll that acts on an address the machine has lost meanwhile, and the open
\* listener that a machine which gets addresses back may leave behind.
NeverDeaf ==
  agent = "running" /\ address \notin listening =>
    address # active \/ Rebinding \/ misled \/ (returned /\ listening # {})

\* As long as the manager is open, a host whose client has lost its connection is being
\* called again: a timer is set or a call that sets one when it fails is under way.
NeverStranded ==
  ~closed /\ registered # None /\ clientEnd[registered] = "closed" =>
    timers > 0 \/ \E k \in retry : pc[k] # "idle"



(***************************************************************************)
(* What the repository says and the code does not do.                      *)
(***************************************************************************)

\* gap-resolution-plan.md, 35: an agent whose address changes closes its listener and
\* listens at the new one, so that it is deaf only while it does so or has not noticed yet.
HearsOrRebinds ==
  agent = "running" /\ address \notin listening => address # active \/ Rebinding

\* acceptance-criteria.md, 137: a manager that has closed and come to rest holds no socket.
CloseLeavesNoSocket ==
  closed /\ timers = 0 /\ (\A k \in Call : pc[k] = "idle")
    => \A c \in Conn : clientEnd[c] = "closed"
=============================================================================
