-------------------------- MODULE AgentLinkProofs --------------------------
(***************************************************************************)
(* Proofs about AgentLink, for any number of sockets, calls and polls and  *)
(* any bounds.                                                             *)
(***************************************************************************)
EXTENDS AgentLink, TLAPS

(***************************************************************************)
(* Types.                                                                  *)
(***************************************************************************)

\* A step that troubles stays below the bound.
LEMMA TroubleType == TypeOK /\ Trouble => troubles' \in 0..MaxTroubles /\ troubles' = troubles + 1
  BY ConstantsAssumption DEF Trouble, TypeOK

\* What a machine that has moved knows of its addresses.
LEMMA MoveType ==
  ASSUME TypeOK, Move
  PROVE  /\ seen' \in 0..troubles' /\ address' \in 0..seen' /\ address' \in Address
         /\ had' \subseteq 0..seen' /\ returned' \in BOOLEAN
<1>1. troubles' \in 0..MaxTroubles /\ troubles' = troubles + 1
  BY TroubleType DEF Move
<1>2. address \in Nat /\ seen \in Nat /\ troubles \in Nat /\ seen <= troubles
  BY ConstantsAssumption DEF TypeOK, Address
<1>3. address' \in 0..(seen + 1) /\ seen' = (IF address' > seen THEN address' ELSE seen)
  BY DEF Move
<1>4. seen' \in 0..(seen + 1) /\ seen <= seen' /\ address' <= seen'
  BY <1>2, <1>3
<1>5. had' = had \cup {address'} /\ had \subseteq 0..seen
  BY DEF Move, TypeOK
<1>6. had' \subseteq 0..seen'
  BY <1>2, <1>3, <1>4, <1>5
<1>7. returned' \in BOOLEAN
  BY DEF Move
<1>. QED
  BY <1>1, <1>2, <1>3, <1>4, <1>6, <1>7, ConstantsAssumption DEF Address

\* The address a poll is told is one the machine had.
LEMMA AnswerType ==
  ASSUME TypeOK, NEW a, PollAnswers(a)
  PROVE  /\ a \in had /\ a \in Address /\ a # active
         /\ troubles' \in 0..MaxTroubles /\ troubles <= troubles'
         /\ UNCHANGED <<address, seen, returned, had>>
         /\ misled' \in BOOLEAN
<1>1. a \in had /\ a # active
  BY DEF PollAnswers
<1>2. had \subseteq Address
  BY ConstantsAssumption DEF TypeOK, Address
<1>3. CASE a = address
  BY <1>1, <1>2, <1>3, ConstantsAssumption DEF PollAnswers, machineVars, TypeOK
<1>4. CASE a # address
  BY <1>1, <1>2, <1>4, TroubleType, ConstantsAssumption DEF PollAnswers, TypeOK
<1>. QED
  BY <1>3, <1>4

\* The network's and the agent's steps keep types.
LEMMA TypeAgent ==
  ASSUME TypeOK,
         \/ Move \/ ServerDrained \/ Shutdown \/ WorkersStopped \/ Exit \/ Start
         \/ \E c \in Conn : Cut(c) \/ Admit(c) \/ Refuse(c) \/ AgentDrops(c)
         \/ \E p \in Poll : Rebind(p) \/ Relisten(p)
  PROVE  TypeOK'
<1>. USE DEF machineVars, agentVars, connVars, managerVars
<1>1. CASE Move
  <2>1. troubles' \in 0..MaxTroubles /\ troubles' = troubles + 1
    BY <1>1, TroubleType DEF Move
  <2>. QED
    BY <1>1, <2>1, MoveType DEF Move, TypeOK
<1>2. ASSUME NEW c \in Conn, Cut(c) \/ Refuse(c)
      PROVE  TypeOK'
  <2>1. troubles' \in 0..MaxTroubles /\ troubles' = troubles + 1
    BY <1>2, TroubleType DEF Cut, Refuse
  <2>2. seen' \in 0..troubles'
    BY <1>2, <2>1, ConstantsAssumption DEF Cut, Refuse, TypeOK
  <2>3. CASE Cut(c)
    BY <2>1, <2>2, <2>3 DEF Cut, TypeOK
  <2>4. CASE Refuse(c)
    BY <2>1, <2>2, <2>4 DEF Refuse, EndAtAgent, TypeOK
  <2>. QED
    BY <1>2, <2>3, <2>4
<1>3. CASE Shutdown
  <2>1. troubles' \in 0..MaxTroubles /\ troubles' = troubles + 1
    BY <1>3, TroubleType DEF Shutdown
  <2>2. seen' \in 0..troubles'
    BY <1>3, <2>1, ConstantsAssumption DEF Shutdown, TypeOK
  <2>. QED
    BY <1>3, <2>1, <2>2 DEF Shutdown, TypeOK
<1>4. ASSUME NEW c \in Conn, Admit(c) \/ AgentDrops(c)
      PROVE  TypeOK'
  <2>1. CASE Admit(c)
    BY <2>1 DEF Admit, TypeOK
  <2>2. CASE AgentDrops(c)
    BY <2>2 DEF AgentDrops, EndAtAgent, TypeOK
  <2>. QED
    BY <1>4, <2>1, <2>2
<1>5. ASSUME NEW p \in Poll, Rebind(p) \/ Relisten(p)
      PROVE  TypeOK'
  <2>1. CASE Relisten(p)
    <3>1. next' \in [Poll -> Address] /\ polling' \in [Poll -> {"idle", "closing", "listen"}]
      BY <2>1, ConstantsAssumption DEF Relisten, TypeOK, Address
    <3>2. listening' \subseteq Address /\ active' \in Address /\ own' \subseteq Conn
      BY <2>1 DEF Relisten, TypeOK
    <3>3. misled' \in BOOLEAN
      BY <2>1 DEF Relisten, TypeOK
    <3>. QED
      BY <2>1, <3>1, <3>2, <3>3 DEF Relisten, TypeOK
  <2>2. CASE Rebind(p)
    <3>1. PICK a \in Address : PollAnswers(a) /\ next' = [next EXCEPT ![p] = a]
      BY <2>2 DEF Rebind
    <3>2. /\ troubles' \in 0..MaxTroubles /\ troubles <= troubles'
          /\ UNCHANGED <<address, seen, returned, had>> /\ misled' \in BOOLEAN
      BY <3>1, AnswerType
    <3>3. seen' \in 0..troubles'
      BY <3>2, ConstantsAssumption DEF TypeOK
    <3>4. next' \in [Poll -> Address] /\ polling' \in [Poll -> {"idle", "closing", "listen"}]
      BY <2>2, <3>1 DEF Rebind, TypeOK
    <3>. QED
      BY <2>2, <3>2, <3>3, <3>4 DEF Rebind, TypeOK
  <2>. QED
    BY <1>5, <2>1, <2>2
<1>6. CASE ServerDrained
  BY <1>6 DEF ServerDrained, TypeOK
<1>7. CASE WorkersStopped \/ Exit \/ Start
  <2>1. CASE WorkersStopped
    BY <2>1 DEF WorkersStopped, TypeOK
  <2>2. CASE Exit
    <3>1. 0 \in Address
      BY ConstantsAssumption DEF Address
    <3>. QED
      BY <2>2, <3>1 DEF Exit, TypeOK
  <2>3. CASE Start
    <3>1. had' \subseteq 0..seen
      BY <2>3, ConstantsAssumption DEF Start, TypeOK, Address
    <3>. QED
      BY <2>3, <3>1 DEF Start, TypeOK
  <2>. QED
    BY <1>7, <2>1, <2>2, <2>3
<1>. QED
  BY <1>1, <1>2, <1>3, <1>4, <1>5, <1>6, <1>7

\* The end of a call keeps types.
LEMMA CallFailsType ==
  ASSUME TypeOK, NEW k \in Call, CallFails(k), UNCHANGED <<address, seen, returned, had>>,
         UNCHANGED troubles \/ Trouble
  PROVE  TypeOK'
<1>1. troubles' \in 0..MaxTroubles /\ seen' \in 0..troubles'
  BY TroubleType, ConstantsAssumption DEF TypeOK
<1>2. timers' \in Nat /\ tracked' \in BOOLEAN /\ (tracked' => timers' > 0)
  <2>1. CASE k \in retry /\ ~closed
    <3>1. timers' = timers + 1 /\ tracked' = TRUE
      BY <2>1 DEF CallFails
    <3>2. timers' \in Nat /\ timers' > 0
      BY <3>1 DEF TypeOK
    <3>. QED
      BY <3>1, <3>2
  <2>2. CASE ~(k \in retry /\ ~closed)
    <3>1. timers' = timers /\ tracked' = tracked
      BY <2>2 DEF CallFails
    <3>. QED
      BY <3>1, Zenon DEF TypeOK
  <2>. QED
    BY <2>1, <2>2
<1>. QED
  BY <1>1, <1>2 DEF CallFails, TypeOK, agentVars, connVars

\* The orchestrator's steps keep types.
LEMMA TypeManager ==
  ASSUME TypeOK,
         \/ \E k \in Call : \/ ToolCalls(k) \/ TimerFires(k) \/ DialFails(k)
                            \/ ReadHello(k) \/ HelloTimeout(k)
         \/ \E k \in Call, c \in Conn : Connects(k, c)
         \/ \E c \in Conn : ClientDrops(c)
         \/ ManagerClose
  PROVE  TypeOK'
<1>. USE DEF machineVars, agentVars, connVars, managerVars
<1>1. ASSUME NEW k \in Call, ToolCalls(k)
      PROVE  TypeOK'
  <2>1. tools' \in 0..MaxTools
    BY <1>1, ConstantsAssumption DEF ToolCalls, TypeOK
  <2>. QED
    BY <1>1, <2>1 DEF ToolCalls, TypeOK
<1>2. ASSUME NEW k \in Call, TimerFires(k)
      PROVE  TypeOK'
  <2>1. timers' \in Nat
    BY <1>2 DEF TimerFires, TypeOK
  <2>2. tracked' = FALSE
    BY <1>2 DEF TimerFires
  <2>3. tracked' \in BOOLEAN /\ (tracked' => timers' > 0)
    BY <2>2
  <2>4. pc' \in [Call -> {"idle", "dialing", "greeting"}] /\ retry' \subseteq Call
    BY <1>2 DEF TimerFires, TypeOK
  <2>. QED
    BY <1>2, <2>1, <2>3, <2>4 DEF TimerFires, TypeOK
<1>3. ASSUME NEW k \in Call, DialFails(k) \/ HelloTimeout(k)
      PROVE  TypeOK'
  <2>1. /\ CallFails(k) /\ UNCHANGED <<address, seen, returned, had>>
        /\ UNCHANGED troubles \/ Trouble
    BY <1>3 DEF DialFails, HelloTimeout
  <2>. QED
    BY <2>1, CallFailsType
<1>4. ASSUME NEW k \in Call, ReadHello(k)
      PROVE  TypeOK'
  BY <1>4 DEF ReadHello, TypeOK
<1>5. ASSUME NEW k \in Call, NEW c \in Conn, Connects(k, c)
      PROVE  TypeOK'
  BY <1>5 DEF Connects, TypeOK
<1>6. ASSUME NEW c \in Conn, ClientDrops(c)
      PROVE  TypeOK'
  <2>1. timers' \in Nat /\ tracked' \in BOOLEAN /\ (tracked' => timers' > 0)
    <3>1. CASE c \in watched /\ ~closed
      <4>1. timers' = timers + 1 /\ tracked' = TRUE
        BY <1>6, <3>1 DEF ClientDrops
      <4>2. timers' \in Nat /\ timers' > 0
        BY <4>1 DEF TypeOK
      <4>. QED
        BY <4>1, <4>2
    <3>2. CASE ~(c \in watched /\ ~closed)
      <4>1. timers' = timers /\ tracked' = tracked
        BY <1>6, <3>2 DEF ClientDrops
      <4>. QED
        BY <4>1, Zenon DEF TypeOK
    <3>. QED
      BY <3>1, <3>2
  <2>. QED
    BY <1>6, <2>1 DEF ClientDrops, TypeOK
<1>7. CASE ManagerClose
  <2>1. timers' \in Nat
    BY <1>7 DEF ManagerClose, TypeOK
  <2>. QED
    BY <1>7, <2>1 DEF ManagerClose, TypeOK
<1>. QED
  BY <1>1, <1>2, <1>3, <1>4, <1>5, <1>6, <1>7

\* Every step keeps types.
LEMMA TypeNext == TypeOK /\ [Next]_vars => TypeOK'
<1>. SUFFICES ASSUME TypeOK, [Next]_vars
              PROVE  TypeOK'
  OBVIOUS
<1>1. CASE UNCHANGED vars
  BY <1>1 DEF vars, machineVars, agentVars, connVars, managerVars, TypeOK
<1>2. CASE Next
  BY <1>2, TypeAgent, TypeManager DEF Next, AgentStep, ManagerStep
<1>. QED
  BY <1>1, <1>2

\* Every variable keeps its type, and a timer the map of reconnect timers holds is set.
THEOREM TypeCorrect == Spec => []TypeOK
<1>1. Init => TypeOK
  <2>. SUFFICES ASSUME Init
                PROVE  TypeOK
    OBVIOUS
  <2>1. 0 \in 0..MaxTroubles /\ 0 \in 0..MaxTools /\ 0 \in Address
    BY ConstantsAssumption DEF Address
  <2>. QED
    <3>1. /\ next \in [Poll -> Address]
          /\ polling \in [Poll -> {"idle", "closing", "listen"}]
          /\ clientEnd \in [Conn -> {"open", "closed"}]
          /\ agentEnd \in [Conn -> {"gate", "open", "closed"}]
          /\ pc \in [Call -> {"idle", "dialing", "greeting"}]
          /\ conn \in [Call -> Conn \cup {None}]
      BY <2>1 DEF Init
    <3>2. /\ address \in Address /\ troubles \in 0..MaxTroubles /\ tools \in 0..MaxTools
          /\ seen \in 0..troubles /\ address <= seen /\ had \subseteq 0..seen
          /\ active \in Address /\ listening \subseteq Address
          /\ timers \in Nat
      BY <2>1 DEF Init
    <3>3. closed = FALSE /\ tracked = FALSE /\ returned = FALSE /\ misled = FALSE
      BY DEF Init
    <3>. QED
      BY <3>1, <3>2, <3>3 DEF Init, TypeOK
<1>. QED
  BY <1>1, TypeNext, PTL DEF Spec

(***************************************************************************)
(* The listener.                                                           *)
(***************************************************************************)

\* If the machine never got an address back: the one it has is the latest, nobody knows a
\* later one, and a poll under way wants none that is newer than that of an open listener.
FollowInv ==
  /\ agent = "exited" => \A p \in Poll : polling[p] = "idle"
  /\ ~returned =>
       /\ address = seen
       /\ active <= address
       /\ \A p \in Poll : next[p] <= address
       /\ listening \subseteq {active}
       /\ \A p \in Poll : polling[p] # "idle" /\ active \in listening => next[p] <= active

\* A running agent that listens nowhere is about to, or was misled.
SilenceInv == agent = "running" => listening # {} \/ Rebinding \/ misled

\* A poll keeps the listener's invariant: the listener is closed only for another address,
\* and a poll that listens anew finds it closed.
LEMMA FollowPolls ==
  ASSUME TypeOK, FollowInv, NEW p \in Poll, Rebind(p) \/ Relisten(p)
  PROVE  FollowInv'
<1>1. CASE Rebind(p)
  <2>1. PICK a \in Address : PollAnswers(a) /\ next' = [next EXCEPT ![p] = a]
    BY <1>1 DEF Rebind
  <2>2. a \in had /\ UNCHANGED <<address, seen, returned, had>>
    BY <2>1, AnswerType
  <2>3. agent' = agent /\ agent # "exited" /\ UNCHANGED active
    BY <1>1, <2>1 DEF Rebind, PollAnswers
  <2>4. ASSUME ~returned
        PROVE  /\ \A q \in Poll : next'[q] <= address
               /\ listening' = {}
    <3>1. a <= seen
      BY <2>2, ConstantsAssumption DEF TypeOK
    <3>2. \A q \in Poll : next'[q] = (IF q = p THEN a ELSE next[q])
      BY <2>1 DEF TypeOK
    <3>3. listening' = listening \ {active}
      BY <1>1 DEF Rebind
    <3>. QED
      BY <2>4, <3>1, <3>2, <3>3 DEF FollowInv
  <2>. QED
    BY <2>2, <2>3, <2>4 DEF FollowInv
<1>2. CASE Relisten(p)
  <2>1. UNCHANGED <<address, seen, returned, had, agent>>
    BY <1>2 DEF Relisten, machineVars
  <2>2. \A q \in Poll : /\ polling'[q] = (IF q = p THEN "idle" ELSE polling[q])
                        /\ next'[q] = (IF q = p THEN 0 ELSE next[q])
    BY <1>2 DEF Relisten, TypeOK
  <2>3. address \in Nat /\ active \in Nat
    BY ConstantsAssumption DEF TypeOK, Address
  <2>4. CASE ~(next[p] = address /\ next[p] \notin listening)
    <3>1. UNCHANGED <<active, listening>>
      BY <1>2, <2>4 DEF Relisten
    <3>. QED
      BY <2>1, <2>2, <2>3, <3>1 DEF FollowInv
  <2>5. CASE next[p] = address /\ next[p] \notin listening
    <3>1. active' = address /\ listening' = listening \cup {address}
      BY <1>2, <2>5 DEF Relisten
    <3>2. ASSUME ~returned
          PROVE  active \notin listening
      <4>1. SUFFICES ASSUME active \in listening
                     PROVE  FALSE
        OBVIOUS
      <4>2. next[p] <= active /\ active <= address
        BY <1>2, <3>2, <4>1 DEF Relisten, FollowInv
      <4>. QED
        BY <2>3, <2>5, <4>1, <4>2
    <3>3. ~returned => listening' = {address}
      BY <3>1, <3>2 DEF FollowInv
    <3>4. ~returned => \A q \in Poll : next'[q] <= address
      BY <2>2, <2>3 DEF FollowInv
    <3>. QED
      BY <2>1, <2>2, <2>3, <3>1, <3>3, <3>4 DEF FollowInv
  <2>. QED
    BY <2>4, <2>5
<1>. QED
  BY <1>1, <1>2

\* Every step keeps the listener's invariant.
LEMMA FollowNext == TypeOK /\ FollowInv /\ [Next]_vars => FollowInv'
<1>. SUFFICES ASSUME TypeOK, FollowInv, [Next]_vars
              PROVE  FollowInv'
  OBVIOUS
<1>. USE DEF machineVars, agentVars
<1>1. CASE UNCHANGED <<address, seen, returned, agent, active, listening, polling, next>>
  BY <1>1 DEF FollowInv
<1>2. CASE Move
  <2>1. UNCHANGED <<agent, active, listening, polling, next>>
    BY <1>2 DEF Move
  <2>2. address \in Nat /\ seen \in Nat /\ active \in Nat /\ next \in [Poll -> Nat]
    BY ConstantsAssumption DEF TypeOK, Address
  <2>3. ~returned' => ~returned /\ address' = seen + 1 /\ seen' = address'
    <3>1. address' \in 0..(seen + 1) /\ seen' = (IF address' > seen THEN address' ELSE seen)
      BY <1>2 DEF Move
    <3>2. returned' = (returned \/ address' <= seen)
      BY <1>2 DEF Move
    <3>3. SUFFICES ASSUME ~returned'
                   PROVE  ~returned /\ address' = seen + 1 /\ seen' = address'
      OBVIOUS
    <3>4. ~returned /\ ~(address' <= seen)
      BY <3>2, <3>3, Zenon
    <3>. QED
      BY <2>2, <3>1, <3>4
  <2>4. ASSUME ~returned'
        PROVE  /\ address' = seen'
               /\ active' <= address'
               /\ \A p \in Poll : next'[p] <= address'
               /\ listening' \subseteq {active'}
               /\ \A p \in Poll : polling'[p] # "idle" /\ active' \in listening' => next'[p] <= active'
    BY <2>1, <2>2, <2>3, <2>4 DEF FollowInv
  <2>. QED
    BY <2>1, <2>4 DEF FollowInv
<1>3. CASE \E p \in Poll : Rebind(p) \/ Relisten(p)
  BY <1>3, FollowPolls
<1>4. CASE ServerDrained
  <2>1. UNCHANGED <<address, seen, returned, agent, active, listening, next>>
    BY <1>4 DEF ServerDrained
  <2>2. \A p \in Poll : polling'[p] # "idle" <=> polling[p] # "idle"
    BY <1>4 DEF ServerDrained, TypeOK
  <2>. QED
    BY <2>1, <2>2 DEF FollowInv
<1>5. CASE Shutdown
  BY <1>5 DEF Shutdown, FollowInv
<1>6. CASE WorkersStopped
  BY <1>6 DEF WorkersStopped, FollowInv
<1>7. CASE Exit
  <2>1. address \in Nat
    BY ConstantsAssumption DEF TypeOK, Address
  <2>. QED
    BY <1>7, <2>1 DEF Exit, FollowInv
<1>8. CASE Start
  <2>1. address \in Nat
    BY ConstantsAssumption DEF TypeOK, Address
  <2>. QED
    BY <1>8, <2>1 DEF Start, FollowInv
<1>9. CASE UNCHANGED vars
  BY <1>1, <1>9 DEF vars
<1>10. CASE \E c \in Conn : Cut(c) \/ Refuse(c) \/ Admit(c) \/ AgentDrops(c)
  BY <1>1, <1>10 DEF Cut, Refuse, Admit, AgentDrops
<1>11. CASE \/ ManagerStep \/ ManagerClose \/ \E k \in Call : ToolCalls(k)
  BY <1>1, <1>11 DEF ManagerStep, ManagerClose, ToolCalls, TimerFires, DialFails, ReadHello,
                     HelloTimeout, CallFails, Connects, ClientDrops
<1>. QED
  BY <1>2, <1>3, <1>4, <1>5, <1>6, <1>7, <1>8, <1>9, <1>10, <1>11 DEF Next, AgentStep

\* The listener's invariant holds.
LEMMA FollowCorrect == Spec => []FollowInv
<1>1. Init => FollowInv
  BY DEF Init, FollowInv
<1>. QED
  BY <1>1, FollowNext, TypeCorrect, PTL DEF Spec

\* However many polls overlap and however late their answers come, the agent answers only
\* at the address it believes it is bound to, as long as the machine gets no address back.
THEOREM OldRefused == Spec => []OldAddressRefused
<1>1. FollowInv => OldAddressRefused
  BY DEF FollowInv, OldAddressRefused
<1>. QED
  BY <1>1, FollowCorrect, PTL

\* Every step keeps a running agent from being silent for another reason.
LEMMA SilenceNext == TypeOK /\ SilenceInv /\ [Next]_vars => SilenceInv'
<1>. SUFFICES ASSUME TypeOK, SilenceInv, [Next]_vars, agent' = "running"
              PROVE  listening' # {} \/ misled' \/ \E p \in Poll : polling'[p] \in {"closing", "listen"}
  BY DEF SilenceInv, Rebinding
<1>. USE DEF machineVars, agentVars
<1>1. CASE UNCHANGED <<agent, listening, polling, misled>>
  BY <1>1 DEF SilenceInv, Rebinding
<1>2. ASSUME NEW p \in Poll, Rebind(p)
      PROVE  polling'[p] \in {"closing", "listen"}
  BY <1>2 DEF Rebind, TypeOK
<1>3. ASSUME NEW p \in Poll, Relisten(p)
      PROVE  listening' # {} \/ misled'
  BY <1>3 DEF Relisten
<1>4. CASE ServerDrained
  <2>1. UNCHANGED <<agent, listening, misled>>
    BY <1>4 DEF ServerDrained
  <2>2. \A p \in Poll : polling[p] \in {"closing", "listen"} => polling'[p] \in {"closing", "listen"}
    BY <1>4 DEF ServerDrained, TypeOK
  <2>. QED
    BY <2>1, <2>2 DEF SilenceInv, Rebinding
<1>5. CASE Shutdown \/ WorkersStopped \/ Exit
  BY <1>5 DEF Shutdown, WorkersStopped, Exit
<1>6. CASE Start
  BY <1>6 DEF Start
<1>7. CASE UNCHANGED vars
  BY <1>1, <1>7 DEF vars
<1>8. CASE Move \/ \E c \in Conn : Cut(c) \/ Refuse(c) \/ Admit(c) \/ AgentDrops(c)
  BY <1>1, <1>8 DEF Move, Cut, Refuse, Admit, AgentDrops
<1>9. CASE \/ ManagerStep \/ ManagerClose \/ \E k \in Call : ToolCalls(k)
  BY <1>1, <1>9 DEF ManagerStep, ManagerClose, ToolCalls, TimerFires, DialFails, ReadHello,
                    HelloTimeout, CallFails, Connects, ClientDrops
<1>. QED
  BY <1>2, <1>3, <1>4, <1>5, <1>6, <1>7, <1>8, <1>9 DEF Next, AgentStep

\* A running agent that does not listen at the machine's address believes it is bound to
\* another one or is about to listen, unless a poll acted on an address that was lost
\* meanwhile, or the machine got an address back and a listener was left behind.
THEOREM AgentHears == Spec => []NeverDeaf
<1>1. Init => SilenceInv
  BY DEF Init, SilenceInv
<1>2. FollowInv /\ SilenceInv => NeverDeaf
  BY DEF FollowInv, SilenceInv, NeverDeaf
<1>3. Spec => []SilenceInv
  BY <1>1, SilenceNext, TypeCorrect, PTL DEF Spec
<1>. QED
  BY <1>2, <1>3, FollowCorrect, PTL

(***************************************************************************)
(* The reconnecting orchestrator.                                          *)
(***************************************************************************)

\* A registered client with an open connection is watched, and only calls under way are
\* those of timers.
CallBack ==
  /\ NeverStranded
  /\ registered # None /\ clientEnd[registered] = "open" => registered \in watched

\* A call that fails leaves a timer if it was a timer's.
LEMMA CallBackFails ==
  ASSUME TypeOK, CallBack, NEW k \in Call, CallFails(k)
  PROVE  CallBack'
<1>. USE DEF connVars
<1>1. UNCHANGED <<closed, registered, clientEnd, watched>>
  BY DEF CallFails
<1>2. CASE k \in retry /\ ~closed
  <2>1. timers' > 0
    BY <1>2 DEF CallFails, TypeOK
  <2>. QED
    BY <1>1, <2>1 DEF CallBack, NeverStranded
<1>3. CASE ~(k \in retry /\ ~closed)
  <2>1. UNCHANGED timers
    BY <1>3 DEF CallFails
  <2>2. \A j \in retry \ {k} : pc'[j] = pc[j] /\ j \in retry'
    BY DEF CallFails, TypeOK
  <2>. QED
    BY <1>1, <1>3, <2>1, <2>2 DEF CallBack, NeverStranded
<1>. QED
  BY <1>2, <1>3

\* Every step of the orchestrator keeps a way back to the host.
LEMMA CallBackManager ==
  ASSUME TypeOK, CallBack,
         \/ \E k \in Call : \/ ToolCalls(k) \/ TimerFires(k) \/ DialFails(k)
                            \/ ReadHello(k) \/ HelloTimeout(k)
         \/ \E k \in Call, c \in Conn : Connects(k, c)
         \/ \E c \in Conn : ClientDrops(c)
         \/ ManagerClose
  PROVE  CallBack'
<1>. USE DEF connVars
<1>1. ASSUME NEW k \in Call, ToolCalls(k)
      PROVE  CallBack'
  BY <1>1 DEF ToolCalls, CallBack, NeverStranded, TypeOK
<1>2. ASSUME NEW k \in Call, TimerFires(k)
      PROVE  CallBack'
  <2>1. UNCHANGED <<closed, registered, clientEnd, watched>>
    BY <1>2 DEF TimerFires
  <2>2. CASE Alive
    BY <2>1, <2>2 DEF CallBack, NeverStranded, Alive
  <2>3. CASE ~Alive
    <3>1. k \in retry' /\ pc'[k] # "idle"
      BY <1>2, <2>3 DEF TimerFires, TypeOK
    <3>. QED
      BY <2>1, <3>1 DEF CallBack, NeverStranded
  <2>. QED
    BY <2>2, <2>3
<1>3. ASSUME NEW k \in Call, DialFails(k) \/ HelloTimeout(k)
      PROVE  CallBack'
  BY <1>3, CallBackFails DEF DialFails, HelloTimeout
<1>4. ASSUME NEW k \in Call, ReadHello(k)
      PROVE  CallBack'
  BY <1>4 DEF ReadHello, CallBack, NeverStranded
<1>5. ASSUME NEW k \in Call, NEW c \in Conn, Connects(k, c)
      PROVE  CallBack'
  <2>1. c # registered
    BY <1>5 DEF Connects, Fresh, Unused
  <2>2. UNCHANGED <<closed, registered, retry, timers>>
    BY <1>5 DEF Connects
  <2>3. registered # None => clientEnd'[registered] = clientEnd[registered]
    BY <1>5, <2>1 DEF Connects, TypeOK
  <2>4. \A j \in retry : pc[j] # "idle" => pc'[j] # "idle"
    BY <1>5 DEF Connects, TypeOK
  <2>5. registered \in watched => registered \in watched'
    BY <1>5, <2>1 DEF Connects
  <2>. QED
    BY <2>2, <2>3, <2>4, <2>5 DEF CallBack, NeverStranded
<1>6. ASSUME NEW c \in Conn, ClientDrops(c)
      PROVE  CallBack'
  <2>1. UNCHANGED <<closed, registered, retry, pc>>
    BY <1>6 DEF ClientDrops
  <2>2. CASE c = registered
    <3>1. clientEnd'[c] = "closed"
      BY <1>6 DEF ClientDrops, TypeOK
    <3>2. c \in watched
      BY <1>6, <2>2, ConstantsAssumption DEF ClientDrops, CallBack
    <3>3. ~closed => timers' > 0
      BY <1>6, <3>2 DEF ClientDrops, TypeOK
    <3>. QED
      BY <2>1, <2>2, <3>1, <3>3 DEF CallBack, NeverStranded
  <2>3. CASE c # registered
    <3>1. registered # None => clientEnd'[registered] = clientEnd[registered]
      BY <1>6, <2>3 DEF ClientDrops, TypeOK
    <3>2. timers > 0 => timers' > 0
      BY <1>6 DEF ClientDrops, TypeOK
    <3>3. registered \in watched => registered \in watched'
      BY <1>6, <2>3 DEF ClientDrops
    <3>. QED
      BY <2>1, <3>1, <3>2, <3>3 DEF CallBack, NeverStranded
  <2>. QED
    BY <2>2, <2>3
<1>7. CASE ManagerClose
  BY <1>7 DEF ManagerClose, CallBack, NeverStranded
<1>. QED
  BY <1>1, <1>2, <1>3, <1>4, <1>5, <1>6, <1>7

\* Every step keeps a way back to the host.
LEMMA CallBackNext == TypeOK /\ CallBack /\ [Next]_vars => CallBack'
<1>. SUFFICES ASSUME TypeOK, CallBack, [Next]_vars
              PROVE  CallBack'
  OBVIOUS
<1>1. CASE UNCHANGED <<managerVars, clientEnd>>
  BY <1>1 DEF managerVars, CallBack, NeverStranded
<1>2. CASE UNCHANGED vars
  BY <1>1, <1>2 DEF vars, connVars
<1>3. CASE \/ Move \/ ServerDrained \/ Shutdown \/ WorkersStopped \/ Exit \/ Start
           \/ \E c \in Conn : Cut(c) \/ Admit(c) \/ Refuse(c) \/ AgentDrops(c)
           \/ \E p \in Poll : Rebind(p) \/ Relisten(p)
  BY <1>1, <1>3 DEF Move, ServerDrained, Shutdown, WorkersStopped, Exit, Start, Cut, Admit,
                    Refuse, AgentDrops, Rebind, Relisten, connVars
<1>. QED
  BY <1>2, <1>3, CallBackManager DEF Next, AgentStep, ManagerStep

\* A host whose registered client has lost its connection is being called again, by a
\* timer or by the call a timer made, as long as the manager is open.
THEOREM HostCalledBack == Spec => []NeverStranded
<1>1. Init => CallBack
  BY DEF Init, CallBack, NeverStranded
<1>2. CallBack => NeverStranded
  BY DEF CallBack
<1>. QED
  BY <1>1, <1>2, CallBackNext, TypeCorrect, PTL DEF Spec
=============================================================================
