------------------------- MODULE TaskDeliveryProofs -------------------------
(***************************************************************************)
(* Theorems about TaskDelivery, for every set of orchestrators,            *)
(* connections, instances and tasks and every bound on the agent's lives.  *)
(***************************************************************************)
EXTENDS TaskDelivery, TLAPS

-----------------------------------------------------------------------------
(***************************************************************************)
(* Type correctness.  Three facts beyond the types keep the types: an      *)
(* agent that is down may start once more, an open connection has an       *)
(* owner, and a prompt that was sent has its instance.                     *)
(***************************************************************************)

TypeInv ==
  /\ TypeOK
  /\ ~up => life < MaxLife
  /\ \A c \in Conn : ServerOpen(c) => client[c] \in Server
  /\ \A t \in Task : stage[t] \in {"sent", "accepted"} => target[t] \in Instance

\* The completion of a pending task is a frame of the current life.
LEMMA ClosingType ==
  ASSUME TypeOK, NEW i \in Instance, NEW st \in {"settled", "aborted"}
  PROVE  Closing(i, st) \subseteq Frame
BY DEF Closing, Completion, Frame, TypeOK

\* Every save leaves a registry in memory and in the file.
LEMMA SaveType ==
  ASSUME TypeOK, NEW registry \in Registry, Save(registry)
  PROVE  persisted' \in Registry /\ saving' \in SUBSET Registry /\ registryFile' \in Registry
BY DEF Save, TypeOK

\* Frames in transit stay frames.
LEMMA TransmitType ==
  ASSUME TypeOK, NEW conns, NEW frames \in SUBSET Frame, Transmit(conns, frames)
  PROVE  down' \in [Conn -> SUBSET Frame]
BY DEF Transmit, TypeOK

\* Recovery reports frames of the next life.
LEMMA RecoveredType ==
  ASSUME TypeInv, ~up
  PROVE  {Completion(registryFile[i], i, life + 1, "aborted") : i \in Recovered} \subseteq Frame
BY ConstantsAssumption DEF Completion, Frame, TypeInv, TypeOK, Recovered

\* Nothing was prompted, stored or sent at the start.
LEMMA TypeInit == Init => TypeInv
BY ConstantsAssumption
DEF Init, TypeInv, TypeOK, Registry, EmptyRegistry, ServerOpen, Live

\* Every step keeps the types.
LEMMA TypeNext == TypeInv /\ [Next]_vars => TypeInv'
<1> SUFFICES ASSUME TypeInv, [Next]_vars
             PROVE  TypeInv'
  OBVIOUS
<1> USE DEF agentVars, taskVars, registryVars, outboxVars, connVars, promptVars, serverVars
<1>1. ASSUME NEW i \in Instance, Settle(i)
      PROVE  TypeInv'
  BY <1>1, ClosingType DEF TypeInv, TypeOK, Settle, Emit, ServerOpen
<1>2. ASSUME NEW i \in Instance, WorkerExit(i)
      PROVE  TypeInv'
  <2>1. [persisted EXCEPT ![i] = Absent] \in Registry
    BY DEF TypeInv, TypeOK, Registry
  <2>. QED
    BY <1>2, <2>1, ClosingType, SaveType DEF TypeInv, TypeOK, WorkerExit, Emit, ServerOpen, Live
<1>3. ASSUME NEW i \in Instance, Stop(i)
      PROVE  TypeInv'
  BY <1>3 DEF TypeInv, TypeOK, Stop, ServerOpen, Live
<1>4. ASSUME NEW s \in Server, NEW i \in Instance, Spawn(s, i)
      PROVE  TypeInv'
  <2>1. [persisted EXCEPT ![i] = None] \in Registry
    BY DEF TypeInv, TypeOK, Registry
  <2>. QED
    BY <1>4, <2>1, SaveType DEF TypeInv, TypeOK, Spawn, ServerOpen, Live
<1>5. ASSUME NEW f \in putting, PutDone(f)
      PROVE  TypeInv'
  <2>1. f \in Frame /\ f.task \in Task
    BY DEF TypeInv, TypeOK, Frame
  <2>2. down' \in [Conn -> SUBSET Frame]
    BY <1>5, <2>1, TransmitType DEF PutDone, TypeInv
  <2>. QED
    BY <1>5, <2>1, <2>2 DEF TypeInv, TypeOK, PutDone, ServerOpen
<1>6. ASSUME NEW s \in Server, NEW c \in Conn, Connect(s, c)
      PROVE  TypeInv'
  BY <1>6 DEF TypeInv, TypeOK, Connect, ServerOpen
<1>7. ASSUME NEW c \in Conn, ReadOutbox(c)
      PROVE  TypeInv'
  BY <1>7 DEF TypeInv, TypeOK, ReadOutbox, ServerOpen
<1>8. ASSUME NEW c \in Conn, Replay(c)
      PROVE  TypeInv'
  <2>1. down' \in [Conn -> SUBSET Frame]
    BY <1>8, TransmitType DEF Replay, TypeInv, TypeOK
  <2>. QED
    BY <1>8, <2>1 DEF TypeInv, TypeOK, Replay, ServerOpen
<1>9. ASSUME NEW c \in Conn, ReadHello(c)
      PROVE  TypeInv'
  BY <1>9 DEF TypeInv, TypeOK, ReadHello, ServerOpen
<1>10. ASSUME NEW c \in Conn, HelloTimeout(c)
       PROVE  TypeInv'
  BY <1>10 DEF TypeInv, TypeOK, HelloTimeout, ServerOpen
<1>11. ASSUME NEW c \in Conn, Register(c)
       PROVE  TypeInv'
  BY <1>11 DEF TypeInv, TypeOK, Register, ServerOpen
<1>12. ASSUME NEW c \in Conn, NEW f \in down[c], ReadTaskDone(c, f)
       PROVE  TypeInv'
  <2>1. f \in Frame /\ f.task \in Task /\ f.instance \in Instance /\ f.seq \in 1..MaxLife
    BY DEF TypeInv, TypeOK, Frame
  <2>2. client[c] \in Server
    BY <1>12 DEF ReadTaskDone, TypeInv, ServerOpen, Unheard
  <2>3. /\ seen' \in [Server -> SUBSET (Instance \X Task \X (1..MaxLife))]
        /\ handled' \in SUBSET (Server \X Frame)
    <3>1. CASE UNCHANGED <<seen, handled>>
      BY <3>1 DEF TypeInv, TypeOK
    <3>2. CASE OnTaskDone(client[c], f)
      BY <3>2, <2>1, <2>2 DEF OnTaskDone, SeenKey, TypeInv, TypeOK
    <3>. QED
      BY <1>12, <3>1, <3>2 DEF ReadTaskDone
  <2>4. acks' \in [Conn -> SUBSET (Task \X (1..MaxLife))]
    BY <1>12, <2>1 DEF ReadTaskDone, FileFor, TypeInv, TypeOK
  <2>. QED
    BY <1>12, <2>3, <2>4 DEF TypeInv, TypeOK, ReadTaskDone, ServerOpen
<1>13. ASSUME NEW c \in Conn, NEW file \in acks[c], ReadAck(c, file)
       PROVE  TypeInv'
  BY <1>13 DEF TypeInv, TypeOK, ReadAck, ServerOpen
<1>14. ASSUME NEW s \in Server, NEW t \in Task, NEW i \in Instance, Prompt(s, t, i)
       PROVE  TypeInv'
  BY <1>14 DEF TypeInv, TypeOK, Prompt, ServerOpen, LiveClient
<1>15. ASSUME NEW t \in Task, AcceptPrompt(t)
       PROVE  TypeInv'
  <2>1. [persisted EXCEPT ![target[t]] = t] \in Registry
    BY DEF TypeInv, TypeOK, Registry
  <2>2. persisted' \in Registry /\ saving' \in SUBSET Registry /\ registryFile' \in Registry
    BY <1>15, <2>1, SaveType DEF TypeInv, TypeOK, AcceptPrompt
  <2>3. excused' \in SUBSET Task
    <3>1. target[t] \in Instance /\ excused \in SUBSET Task
      BY <1>15 DEF AcceptPrompt, TypeInv, TypeOK
    <3>2. excused' = excused \cup ({pending[target[t]]} \ {None})
                            \cup {x \in {t} : run[target[t]] \notin Live}
      BY <1>15 DEF AcceptPrompt
    <3>3. {pending[target[t]]} \ {None} \subseteq Task
      BY <3>1 DEF TypeInv, TypeOK
    <3>. QED
      BY <3>1, <3>2, <3>3
  <2>. QED
    BY <1>15, <2>2, <2>3 DEF TypeInv, TypeOK, AcceptPrompt, ServerOpen
<1>16. ASSUME NEW c \in Conn, AgentClose(c)
       PROVE  TypeInv'
  BY <1>16 DEF TypeInv, TypeOK, AgentClose, LosePrompts, ServerOpen
<1>17. ASSUME NEW c \in Conn, ServerClose(c)
       PROVE  TypeInv'
  BY <1>17 DEF TypeInv, TypeOK, ServerClose, Hangup, ServerOpen
<1>18. ASSUME NEW s \in Server, ServerRestart(s)
       PROVE  TypeInv'
  BY <1>18 DEF TypeInv, TypeOK, ServerRestart, Hangup, ServerOpen
<1>19. CASE AgentCrash
  <2>1. EmptyRegistry \in Registry
    BY DEF Registry, EmptyRegistry
  <2>2. persisted' \in Registry /\ saving' \in SUBSET Registry /\ registryFile' \in Registry
    BY <1>19, <2>1 DEF AgentCrash, TypeInv, TypeOK
  <2>3. agentEnd' \in [Conn -> {"none", "accepted", "replaying", "ready", "closed"}]
    BY <1>19 DEF AgentCrash, TypeInv, TypeOK
  <2>4. stage' \in [Task -> {"new", "sent", "accepted", "lost"}]
    BY <1>19 DEF AgentCrash, LosePrompts, TypeInv, TypeOK
  <2>5. run' \in [Instance -> Live \cup {"none", "exited", "lost"}]
    BY <1>19 DEF AgentCrash, TypeInv, TypeOK
  <2>6. excused' \in SUBSET Task
    <3>1. {f.task : f \in putting} \subseteq Task
      BY DEF TypeInv, TypeOK, Frame
    <3>. QED
      BY <1>19, <3>1 DEF AgentCrash, TypeInv, TypeOK
  <2>. QED
    <3>1. TypeOK'
      BY <1>19, <2>2, <2>3, <2>4, <2>5, <2>6 DEF TypeInv, TypeOK, AgentCrash
    <3>2. \A t \in Task : stage'[t] = stage[t] \/ stage'[t] = "lost"
      BY <1>19 DEF AgentCrash, LosePrompts
    <3>. QED
      BY <1>19, <3>1, <3>2 DEF TypeInv, AgentCrash, ServerOpen
<1>20. CASE AgentRestart
  <2>1. EmptyRegistry \in Registry
    BY DEF Registry, EmptyRegistry
  <2>2. persisted' \in Registry /\ saving' \in SUBSET Registry /\ registryFile' \in Registry
    BY <1>20, <2>1, SaveType DEF AgentRestart, TypeInv
  <2>3. putting' \in SUBSET Frame /\ emitted' \in SUBSET Frame
    BY <1>20, RecoveredType DEF AgentRestart, Emit, TypeInv, TypeOK
  <2>4. life' \in 1..MaxLife
    BY <1>20, ConstantsAssumption DEF AgentRestart, TypeInv, TypeOK
  <2>. QED
    BY <1>20, <2>2, <2>3, <2>4 DEF TypeInv, TypeOK, AgentRestart, Emit, ServerOpen
<1>21. CASE UNCHANGED vars
  BY <1>21 DEF TypeInv, TypeOK, vars, ServerOpen
<1>. QED
  BY <1>1, <1>2, <1>3, <1>4, <1>5, <1>6, <1>7, <1>8, <1>9, <1>10, <1>11, <1>12, <1>13, <1>14,
     <1>15, <1>16, <1>17, <1>18, <1>19, <1>20, <1>21 DEF Next

\* Every variable of the model keeps its type, whatever the environment does.
THEOREM TypeCorrect == Spec => []TypeOK
<1>1. TypeInv => TypeOK
  BY DEF TypeInv
<1>. QED
  BY <1>1, TypeInit, TypeNext, PTL DEF Spec

-----------------------------------------------------------------------------
(***************************************************************************)
(* One verdict per life.  OneVerdictPerLife alone is not inductive: it     *)
(* holds because a pending task has no completion of this life yet, and    *)
(* because the tables that name tasks - pendingTasks, the registry in      *)
(* memory and every version of its file - name accepted tasks only, each   *)
(* under the one instance it was sent to.                                  *)
(***************************************************************************)

PendingUnreported ==
  \A i \in Instance : pending[i] # None =>
    /\ up
    /\ stage[pending[i]] = "accepted"
    /\ target[pending[i]] = i
    /\ \A f \in emitted : f.task = pending[i] => f.seq < life

ReportsAccepted ==
  \A f \in emitted :
    /\ f.seq <= life
    /\ stage[f.task] = "accepted"
    /\ target[f.task] = f.instance

RecordsAccepted ==
  \A r \in saving \cup {persisted, registryFile} : \A i \in Instance :
    r[i] \in Task => stage[r[i]] = "accepted" /\ target[r[i]] = i

VerdictInv ==
  /\ PendingUnreported
  /\ ReportsAccepted
  /\ RecordsAccepted
  /\ OneVerdictPerLife

\* No task is named anywhere at the start.
LEMMA VerdictInit == Init => VerdictInv
BY ConstantsAssumption
DEF Init, VerdictInv, PendingUnreported, ReportsAccepted, RecordsAccepted, OneVerdictPerLife,
    EmptyRegistry

\* Only these variables matter to the verdicts.
LEMMA VerdictFrame ==
  ASSUME VerdictInv, UNCHANGED <<up, life, pending, emitted, registryVars, stage, target>>
  PROVE  VerdictInv'
BY DEF VerdictInv, PendingUnreported, ReportsAccepted, RecordsAccepted, OneVerdictPerLife,
       registryVars

\* Reporting what an instance has pending, and forgetting it, is safe.
LEMMA VerdictClosing ==
  ASSUME TypeInv, VerdictInv, NEW i \in Instance, NEW st \in {"settled", "aborted"},
         pending' = [pending EXCEPT ![i] = None],
         emitted' = emitted \cup Closing(i, st),
         UNCHANGED <<up, life, stage, target>>
  PROVE  PendingUnreported' /\ ReportsAccepted' /\ OneVerdictPerLife'
<1>1. \A f \in Closing(i, st) :
        /\ pending[i] # None
        /\ f.task = pending[i] /\ f.instance = i /\ f.seq = life /\ f.status = st
  BY DEF Closing, Completion
<1>2. \A f, g \in Closing(i, st) : f = g
  BY DEF Closing, Completion
<1>3. Closing(i, st) \subseteq Frame
  BY ClosingType DEF TypeInv
<1>4. PendingUnreported'
  BY <1>1 DEF PendingUnreported, VerdictInv, TypeInv, TypeOK
<1>5. ReportsAccepted'
  BY <1>1 DEF ReportsAccepted, PendingUnreported, VerdictInv, TypeInv, TypeOK
<1>6. OneVerdictPerLife'
  BY <1>1, <1>2 DEF OneVerdictPerLife, PendingUnreported, VerdictInv, FileFor, TypeInv, TypeOK
<1>. QED
  BY <1>4, <1>5, <1>6

\* A save adds the saved registry to the versions that may be read later.
LEMMA SaveVersions ==
  ASSUME NEW registry, Save(registry)
  PROVE  saving' \cup {persisted', registryFile'}
           \subseteq saving \cup {persisted, registryFile, registry}
BY DEF Save

\* Saving a registry in which one record changed to one without a task is safe.
LEMMA SaveWithoutTask ==
  ASSUME TypeInv, VerdictInv, NEW i \in Instance, NEW v \in {None, Absent},
         Save([persisted EXCEPT ![i] = v]), UNCHANGED <<stage, target>>
  PROVE  RecordsAccepted'
<1> DEFINE registry == [persisted EXCEPT ![i] = v]
<1>1. v \notin Task
  BY ConstantsAssumption
<1>2. \A j \in Instance : registry[j] \in Task => registry[j] = persisted[j]
  BY <1>1 DEF TypeInv, TypeOK, Registry
<1>3. saving' \cup {persisted', registryFile'}
        \subseteq saving \cup {persisted, registryFile, registry}
  BY SaveVersions
<1>4. \A r \in saving \cup {persisted, registryFile, registry} : \A j \in Instance :
        r[j] \in Task => stage[r[j]] = "accepted" /\ target[r[j]] = j
  <2>1. \A r \in saving \cup {persisted, registryFile} : \A j \in Instance :
          r[j] \in Task => stage[r[j]] = "accepted" /\ target[r[j]] = j
    BY DEF VerdictInv, RecordsAccepted
  <2>2. \A j \in Instance : registry[j] \in Task =>
          stage[registry[j]] = "accepted" /\ target[registry[j]] = j
    BY <1>2, <2>1
  <2> HIDE DEF registry
  <2>. QED
    BY <2>1, <2>2
<1>5. stage' = stage /\ target' = target
  OBVIOUS
<1> HIDE DEF registry
<1>. QED
  BY <1>3, <1>4, <1>5 DEF RecordsAccepted

\* Prompts that get lost leave accepted ones alone.
LEMMA LoseKeepsAccepted ==
  ASSUME TypeInv, NEW conns, LosePrompts(conns)
  PROVE  \A t \in Task : stage[t] = "accepted" => stage'[t] = "accepted"
BY DEF LosePrompts, TypeInv, TypeOK

\* Every step keeps a task in its one place: pending, or reported in this life.
LEMMA VerdictNext == TypeInv /\ VerdictInv /\ [Next]_vars => VerdictInv'
<1> SUFFICES ASSUME TypeInv, VerdictInv, [Next]_vars
             PROVE  VerdictInv'
  OBVIOUS
<1> USE DEF agentVars, taskVars, registryVars, outboxVars, connVars, promptVars, serverVars
<1>1. ASSUME NEW i \in Instance, Settle(i)
      PROVE  VerdictInv'
  <2>1. PendingUnreported' /\ ReportsAccepted' /\ OneVerdictPerLife'
    BY <1>1, VerdictClosing DEF Settle, Emit
  <2>2. RecordsAccepted'
    BY <1>1 DEF Settle, RecordsAccepted, VerdictInv
  <2>. QED
    BY <2>1, <2>2 DEF VerdictInv
<1>2. ASSUME NEW i \in Instance, WorkerExit(i)
      PROVE  VerdictInv'
  <2>1. PendingUnreported' /\ ReportsAccepted' /\ OneVerdictPerLife'
    BY <1>2, VerdictClosing DEF WorkerExit, Emit
  <2>2. RecordsAccepted'
    BY <1>2, SaveWithoutTask DEF WorkerExit
  <2>. QED
    BY <2>1, <2>2 DEF VerdictInv
<1>3. ASSUME NEW i \in Instance, Stop(i)
      PROVE  VerdictInv'
  BY <1>3, VerdictFrame DEF Stop
<1>4. ASSUME NEW s \in Server, NEW i \in Instance, Spawn(s, i)
      PROVE  VerdictInv'
  <2>1. RecordsAccepted'
    BY <1>4, SaveWithoutTask DEF Spawn
  <2>. QED
    BY <1>4, <2>1 DEF Spawn, VerdictInv, PendingUnreported, ReportsAccepted, OneVerdictPerLife
<1>5. ASSUME NEW f \in putting, PutDone(f)
      PROVE  VerdictInv'
  BY <1>5, VerdictFrame DEF PutDone
<1>6. ASSUME NEW s \in Server, NEW c \in Conn, Connect(s, c)
      PROVE  VerdictInv'
  BY <1>6, VerdictFrame DEF Connect
<1>7. ASSUME NEW c \in Conn, ReadOutbox(c) \/ Replay(c)
      PROVE  VerdictInv'
  BY <1>7, VerdictFrame DEF ReadOutbox, Replay
<1>8. ASSUME NEW c \in Conn, ReadHello(c) \/ HelloTimeout(c) \/ Register(c)
      PROVE  VerdictInv'
  BY <1>8, VerdictFrame DEF ReadHello, HelloTimeout, Register
<1>9. ASSUME NEW c \in Conn, NEW f \in down[c], ReadTaskDone(c, f)
      PROVE  VerdictInv'
  BY <1>9, VerdictFrame DEF ReadTaskDone
<1>10. ASSUME NEW c \in Conn, NEW file \in acks[c], ReadAck(c, file)
       PROVE  VerdictInv'
  BY <1>10, VerdictFrame DEF ReadAck
<1>11. ASSUME NEW s \in Server, NEW t \in Task, NEW i \in Instance, Prompt(s, t, i)
       PROVE  VerdictInv'
  <2>1. \A u \in Task : stage[u] = "accepted" =>
          stage'[u] = "accepted" /\ target'[u] = target[u]
    BY <1>11 DEF Prompt, TypeInv, TypeOK
  <2>2. PendingUnreported'
    BY <1>11, <2>1 DEF Prompt, VerdictInv, PendingUnreported, TypeInv, TypeOK
  <2>3. ReportsAccepted'
    BY <1>11, <2>1 DEF Prompt, VerdictInv, ReportsAccepted, TypeInv, TypeOK, Frame
  <2>4. RecordsAccepted'
    BY <1>11, <2>1 DEF Prompt, VerdictInv, RecordsAccepted
  <2>. QED
    BY <1>11, <2>2, <2>3, <2>4 DEF Prompt, VerdictInv, OneVerdictPerLife
<1>12. ASSUME NEW t \in Task, AcceptPrompt(t)
       PROVE  VerdictInv'
  <2>1. \A f \in emitted : f.task # t
    BY <1>12 DEF AcceptPrompt, VerdictInv, ReportsAccepted
  <2>2. PendingUnreported'
    BY <1>12, <2>1 DEF AcceptPrompt, VerdictInv, PendingUnreported, TypeInv, TypeOK
  <2>3. ReportsAccepted'
    BY <1>12 DEF AcceptPrompt, VerdictInv, ReportsAccepted, TypeInv, TypeOK, Frame
  <2>4. RecordsAccepted'
    <3>1. \A u \in Task : stage[u] = "accepted" => stage'[u] = "accepted"
      BY <1>12 DEF AcceptPrompt, TypeInv, TypeOK
    <3>2. stage'[t] = "accepted" /\ UNCHANGED target
      BY <1>12 DEF AcceptPrompt, TypeInv, TypeOK
    <3>3. saving' \cup {persisted', registryFile'}
            \subseteq saving \cup {persisted, registryFile, [persisted EXCEPT ![target[t]] = t]}
      BY <1>12, SaveVersions DEF AcceptPrompt
    <3>4. target[t] \in Instance /\ persisted \in Registry
      BY <1>12 DEF AcceptPrompt, TypeInv, TypeOK
    <3>5. \A j \in Instance :
            [persisted EXCEPT ![target[t]] = t][j] = IF j = target[t] THEN t ELSE persisted[j]
      BY <3>4 DEF Registry
    <3>6. ASSUME NEW r \in saving' \cup {persisted', registryFile'}, NEW j \in Instance, r[j] \in Task
          PROVE  stage'[r[j]] = "accepted" /\ target'[r[j]] = j
      <4>1. CASE r \in saving \cup {persisted, registryFile}
        BY <3>1, <3>2, <3>6, <4>1 DEF VerdictInv, RecordsAccepted
      <4>2. CASE r = [persisted EXCEPT ![target[t]] = t]
        BY <3>1, <3>2, <3>5, <3>6, <4>2 DEF VerdictInv, RecordsAccepted
      <4>. QED
        BY <3>3, <4>1, <4>2
    <3>. QED
      BY <3>6 DEF RecordsAccepted
  <2>. QED
    BY <1>12, <2>2, <2>3, <2>4 DEF AcceptPrompt, VerdictInv, OneVerdictPerLife
<1>13. ASSUME NEW c \in Conn, AgentClose(c)
       PROVE  VerdictInv'
  <2>1. \A t \in Task : stage[t] = "accepted" => stage'[t] = "accepted"
    BY <1>13, LoseKeepsAccepted DEF AgentClose
  <2>. QED
    BY <1>13, <2>1
    DEF AgentClose, VerdictInv, PendingUnreported, ReportsAccepted, RecordsAccepted,
        OneVerdictPerLife, TypeInv, TypeOK, Frame
<1>14. ASSUME NEW c \in Conn, ServerClose(c)
       PROVE  VerdictInv'
  BY <1>14, VerdictFrame DEF ServerClose
<1>15. ASSUME NEW s \in Server, ServerRestart(s)
       PROVE  VerdictInv'
  BY <1>15, VerdictFrame DEF ServerRestart
<1>16. CASE AgentCrash
  <2>1. \A t \in Task : stage[t] = "accepted" => stage'[t] = "accepted"
    BY <1>16, LoseKeepsAccepted DEF AgentCrash
  <2>2. PendingUnreported'
    BY <1>16 DEF AgentCrash, PendingUnreported
  <2>3. ReportsAccepted'
    BY <1>16, <2>1 DEF AgentCrash, VerdictInv, ReportsAccepted, TypeInv, TypeOK, Frame
  <2>4. \A r \in saving' \cup {persisted', registryFile'} :
          r = EmptyRegistry \/ r \in saving \cup {registryFile}
    BY <1>16 DEF AgentCrash
  <2>5. RecordsAccepted'
    BY <1>16, <2>1, <2>4, ConstantsAssumption
    DEF AgentCrash, VerdictInv, RecordsAccepted, EmptyRegistry
  <2>. QED
    BY <1>16, <2>2, <2>3, <2>5 DEF AgentCrash, VerdictInv, OneVerdictPerLife
<1>17. CASE AgentRestart
  <2> DEFINE New == {Completion(registryFile[i], i, life + 1, "aborted") : i \in Recovered}
  <2>1. emitted' = emitted \cup New /\ life' = life + 1 /\ UNCHANGED <<pending, stage, target>>
    BY <1>17 DEF AgentRestart, Emit
  <2>2. \A f \in New :
          /\ f.seq = life + 1 /\ f.status = "aborted"
          /\ f.instance \in Instance /\ f.task \in Task
          /\ f.task = registryFile[f.instance]
          /\ stage[f.task] = "accepted" /\ target[f.task] = f.instance
    BY DEF Completion, Recovered, VerdictInv, RecordsAccepted
  <2>3. New \subseteq Frame
    BY <1>17, RecoveredType DEF AgentRestart
  <2>4. PendingUnreported'
    BY <1>17, <2>1 DEF AgentRestart, VerdictInv, PendingUnreported
  <2>5. ReportsAccepted'
    BY <2>1, <2>2 DEF VerdictInv, ReportsAccepted, TypeInv, TypeOK, Frame
  <2>6. RecordsAccepted'
    <3>1. saving' \cup {persisted', registryFile'}
            \subseteq saving \cup {persisted, registryFile, EmptyRegistry}
      BY <1>17, SaveVersions DEF AgentRestart
    <3>. QED
      BY <2>1, <3>1, ConstantsAssumption DEF VerdictInv, RecordsAccepted, EmptyRegistry
  <2>7. OneVerdictPerLife'
    <3>1. ASSUME NEW f \in New, NEW g \in New, FileFor(f) = FileFor(g)
          PROVE  f = g
      BY <2>2, <2>3, <3>1 DEF FileFor, Frame
    <3>2. ASSUME NEW f \in emitted, NEW g \in New
          PROVE  FileFor(f) # FileFor(g)
      BY <2>2 DEF VerdictInv, ReportsAccepted, FileFor, TypeInv, TypeOK, Frame
    <3>. QED
      BY <2>1, <3>1, <3>2 DEF OneVerdictPerLife, VerdictInv
  <2>. QED
    BY <2>4, <2>5, <2>6, <2>7 DEF VerdictInv
<1>18. CASE UNCHANGED vars
  BY <1>18, VerdictFrame DEF vars
<1>. QED
  BY <1>1, <1>2, <1>3, <1>4, <1>5, <1>6, <1>7, <1>8, <1>9, <1>10, <1>11, <1>12, <1>13, <1>14,
     <1>15, <1>16, <1>17, <1>18 DEF Next

\* A task gets at most one completion in each life of the agent, whatever the
\* environment does: an outbox file never changes its verdict.
THEOREM OneVerdict == Spec => []OneVerdictPerLife
<1>1. VerdictInv => OneVerdictPerLife
  BY DEF VerdictInv
<1>. QED
  BY <1>1, TypeInit, TypeNext, VerdictInit, VerdictNext, PTL DEF Spec

-----------------------------------------------------------------------------
(***************************************************************************)
(* Nothing is lost but what was read unheard.  The argument follows a      *)
(* completion around: what is on the disk, in a replay or in transit was   *)
(* reported and stored; an ack is for a completion a handler ran for or    *)
(* that was read unheard, because a client that has its handler acks a     *)
(* duplicate only if it has seen it; and the file an ack removes is the    *)
(* file of that very completion, because no two completions share a file.  *)
(***************************************************************************)

\* Every frame is read by a client that has its handler.
NoUnheardReads == {"coalesced_read", "slow_hello"} \cap Faults = {}

\* A completion that may be forgotten.
Read(f) == f \in unheard \/ \E s \in Server : <<s, f>> \in handled

AllStored ==
  /\ putting \subseteq emitted
  /\ stored \subseteq emitted
  /\ outbox \subseteq stored
  /\ \A c \in Conn : down[c] \subseteq stored /\ replay[c] \subseteq stored
  /\ \A s \in Server, f \in Frame : <<s, f>> \in handled => f \in stored

SeenHandled ==
  \A s \in Server : \A key \in seen[s] : \E f \in stored :
    SeenKey(f) = key /\ <<s, f>> \in handled

AckedRead ==
  \A c \in Conn : \A file \in acks[c] : \E f \in stored : FileFor(f) = file /\ Read(f)

\* Without unheard reads, nothing has been read unheard, now or later.
AllHeard == NoUnheardReads => unheard = {} /\ \A c \in Conn : serverEnd[c] # "abandoned"

DeliveryInv ==
  /\ AllStored
  /\ SeenHandled
  /\ AckedRead
  /\ OnlyUnheardLost
  /\ AllHeard

\* Nothing is stored and nothing is in transit at the start.
LEMMA DeliveryInit == Init => DeliveryInv
BY DEF Init, DeliveryInv, AllStored, SeenHandled, AckedRead, OnlyUnheardLost, AllHeard

\* More stored completions and fewer acks and keys do no harm.
LEMMA HandledKept ==
  ASSUME DeliveryInv, UNCHANGED <<handled, unheard>>, stored \subseteq stored',
         \A c \in Conn : acks'[c] \subseteq acks[c],
         \A s \in Server : seen'[s] \subseteq seen[s]
  PROVE  SeenHandled' /\ AckedRead'
<1>1. SeenHandled'
  <2> SUFFICES ASSUME NEW s \in Server, NEW key \in seen'[s]
               PROVE  \E f \in stored' : SeenKey(f) = key /\ <<s, f>> \in handled'
    BY DEF SeenHandled, SeenKey
  <2>. QED
    BY DEF DeliveryInv, SeenHandled
<1>2. AckedRead'
  <2> SUFFICES ASSUME NEW c \in Conn, NEW file \in acks'[c]
               PROVE  \E f \in stored' : /\ FileFor(f) = file
                                         /\ f \in unheard' \/ \E s \in Server : <<s, f>> \in handled'
    BY DEF AckedRead, FileFor, Read
  <2>. QED
    BY DEF DeliveryInv, AckedRead, Read
<1>. QED
  BY <1>1, <1>2

\* What holds of fewer frames, acks and keys still holds.
LEMMA DeliveryFrame ==
  ASSUME TypeInv, DeliveryInv, UNCHANGED <<outbox, stored, handled, unheard>>,
         emitted \subseteq emitted', putting' \subseteq emitted',
         \A c \in Conn : /\ down'[c] \subseteq stored
                         /\ replay'[c] \subseteq stored
                         /\ acks'[c] \subseteq acks[c]
                         /\ serverEnd'[c] = "abandoned" => ~NoUnheardReads,
         \A s \in Server : seen'[s] \subseteq seen[s]
  PROVE  DeliveryInv'
<1>1. AllStored'
  BY DEF DeliveryInv, AllStored
<1>2. SeenHandled' /\ AckedRead'
  BY HandledKept
<1>3. OnlyUnheardLost'
  BY DEF DeliveryInv, OnlyUnheardLost
<1>4. AllHeard'
  BY DEF DeliveryInv, AllHeard, NoUnheardReads
<1>. QED
  BY <1>1, <1>2, <1>3, <1>4 DEF DeliveryInv

\* Transmission brings stored frames only if it is given stored frames only.
LEMMA TransmitStored ==
  ASSUME DeliveryInv, NEW conns, NEW frames, Transmit(conns, frames)
  PROVE  \A c \in Conn : down'[c] \subseteq stored \cup frames
BY DEF Transmit, DeliveryInv, AllStored

\* Removing or replacing an outbox file touches one completion.
LEMMA OneFrameOfFile ==
  ASSUME VerdictInv, DeliveryInv, NEW f \in emitted
  PROVE  {g \in outbox : FileFor(g) # FileFor(f)} = outbox \ {f}
BY DEF VerdictInv, OneVerdictPerLife, DeliveryInv, AllStored

\* The end of a write to the outbox: one more completion is stored.
LEMMA PutStores ==
  ASSUME VerdictInv, DeliveryInv, NEW f \in putting, PutDone(f)
  PROVE  outbox' = outbox \cup {f} /\ stored' = stored \cup {f}
<1>1. f \in emitted
  BY DEF DeliveryInv, AllStored
<1>. QED
  BY <1>1, OneFrameOfFile DEF PutDone

\* An ack removes nothing, or one completion that was read.
LEMMA AckForgetsRead ==
  ASSUME TypeInv, VerdictInv, DeliveryInv, NEW c \in Conn, NEW file \in acks[c],
         outbox' = {f \in outbox : FileFor(f) # file}
  PROVE  \E f \in stored : outbox' = outbox \ {f} /\ Read(f)
<1>1. PICK f \in stored : FileFor(f) = file /\ Read(f)
  BY DEF DeliveryInv, AckedRead
<1>2. f \in emitted
  BY DEF DeliveryInv, AllStored
<1>3. outbox' = outbox \ {f}
  BY <1>1, <1>2, OneFrameOfFile
<1>. QED
  BY <1>1, <1>3

\* A client with its handler that read a task_done is about to ack it: the handler ran for
\* it, now or before.
LEMMA ReadHandles ==
  ASSUME TypeInv, DeliveryInv, NEW s \in Server, NEW f \in stored, OnTaskDone(s, f)
  PROVE  /\ \E g \in stored : FileFor(g) = FileFor(f) /\ <<s, g>> \in handled'
         /\ handled' \subseteq handled \cup {<<s, f>>}
         /\ handled \subseteq handled'
         /\ \A r \in Server : \A key \in seen'[r] : \E g \in stored :
              SeenKey(g) = key /\ <<r, g>> \in handled'
<1>1. CASE SeenKey(f) \in seen[s]
  <2>1. PICK g \in stored : SeenKey(g) = SeenKey(f) /\ <<s, g>> \in handled
    BY <1>1 DEF DeliveryInv, SeenHandled
  <2>2. FileFor(g) = FileFor(f)
    BY <2>1 DEF SeenKey, FileFor
  <2>. QED
    BY <1>1, <2>1, <2>2 DEF OnTaskDone, DeliveryInv, SeenHandled
<1>2. CASE SeenKey(f) \notin seen[s]
  <2>1. /\ seen' = [seen EXCEPT ![s] = @ \cup {SeenKey(f)}]
        /\ handled' = handled \cup {<<s, f>>}
    BY <1>2 DEF OnTaskDone
  <2>2. ASSUME NEW r \in Server, NEW key \in seen'[r]
        PROVE  \E g \in stored : SeenKey(g) = key /\ <<r, g>> \in handled'
    <3>1. key \in seen[r] \/ (r = s /\ key = SeenKey(f))
      BY <2>1, <2>2 DEF TypeInv, TypeOK
    <3>2. CASE key \in seen[r]
      BY <2>1, <3>2 DEF DeliveryInv, SeenHandled
    <3>3. CASE r = s /\ key = SeenKey(f)
      BY <2>1, <3>3
    <3>. QED
      BY <3>1, <3>2, <3>3
  <2>. QED
    BY <2>1, <2>2
<1>. QED
  BY <1>1, <1>2

\* A frame is read, by the handler or unheard.
LEMMA ReadKeeps ==
  ASSUME TypeInv, DeliveryInv, NEW c \in Conn, NEW f \in down[c], ReadTaskDone(c, f)
  PROVE  DeliveryInv'
<1>. USE DEF agentVars, taskVars, registryVars, outboxVars, connVars, promptVars, serverVars
<1>1. f \in stored /\ client[c] \in Server
  BY DEF DeliveryInv, AllStored, ReadTaskDone, TypeInv, ServerOpen, Unheard
<1>2. /\ UNCHANGED <<outbox, stored, emitted, putting, serverEnd, replay>>
      /\ \A d \in Conn : down'[d] \subseteq down[d]
      /\ \A d \in Conn : acks'[d] \subseteq acks[d] \cup {FileFor(f)}
  BY DEF ReadTaskDone, TypeInv, TypeOK
<1>3. /\ \E g \in stored : /\ FileFor(g) = FileFor(f)
                           /\ g \in unheard' \/ <<client[c], g>> \in handled'
      /\ handled' \subseteq handled \cup {<<client[c], f>>}
      /\ handled \subseteq handled' /\ unheard \subseteq unheard'
      /\ \A r \in Server : \A key \in seen'[r] : \E g \in stored :
           SeenKey(g) = key /\ <<r, g>> \in handled'
      /\ NoUnheardReads => unheard' = unheard
  <2>1. CASE OnTaskDone(client[c], f) /\ UNCHANGED unheard
    BY <1>1, <2>1, ReadHandles
  <2>2. CASE Unheard(c) /\ unheard' = unheard \cup {f} /\ UNCHANGED <<seen, handled>>
    <3>1. ~NoUnheardReads
      BY <2>2 DEF Unheard, NoUnheardReads, DeliveryInv, AllHeard
    <3>. QED
      BY <1>1, <2>2, <3>1 DEF DeliveryInv, SeenHandled
  <2>. QED
    BY <2>1, <2>2 DEF ReadTaskDone
<1>4. AllStored'
  BY <1>1, <1>2, <1>3 DEF DeliveryInv, AllStored
<1>5. SeenHandled'
  BY <1>2, <1>3 DEF SeenHandled, SeenKey
<1>6. AckedRead'
  <2> SUFFICES ASSUME NEW d \in Conn, NEW file \in acks'[d]
               PROVE  \E g \in stored : /\ FileFor(g) = file
                                        /\ g \in unheard' \/ \E s \in Server : <<s, g>> \in handled'
    BY <1>2 DEF AckedRead, FileFor, Read
  <2>1. CASE file \in acks[d]
    BY <1>3, <2>1 DEF DeliveryInv, AckedRead, Read
  <2>2. CASE file = FileFor(f)
    BY <1>1, <1>3, <2>2
  <2>. QED
    BY <1>2, <2>1, <2>2
<1>7. OnlyUnheardLost'
  BY <1>2, <1>3 DEF DeliveryInv, OnlyUnheardLost
<1>8. AllHeard'
  BY <1>2, <1>3 DEF DeliveryInv, AllHeard, NoUnheardReads
<1>. QED
  BY <1>4, <1>5, <1>6, <1>7, <1>8 DEF DeliveryInv

\* Every step keeps the delivery invariant.
LEMMA DeliveryNext == TypeInv /\ VerdictInv /\ DeliveryInv /\ [Next]_vars => DeliveryInv'
<1> SUFFICES ASSUME TypeInv, VerdictInv, DeliveryInv, [Next]_vars
             PROVE  DeliveryInv'
  OBVIOUS
<1> USE DEF agentVars, taskVars, registryVars, outboxVars, connVars, promptVars, serverVars
<1>a. /\ \A c \in Conn : down[c] \subseteq stored /\ replay[c] \subseteq stored
      /\ \A c \in Conn : serverEnd[c] = "abandoned" => ~NoUnheardReads
      /\ putting \subseteq emitted
  BY DEF DeliveryInv, AllStored, AllHeard
<1>1. ASSUME NEW i \in Instance, Settle(i) \/ WorkerExit(i) \/ Stop(i)
      PROVE  DeliveryInv'
  BY <1>1, <1>a, DeliveryFrame DEF Settle, WorkerExit, Stop, Emit
<1>2. ASSUME NEW s \in Server, NEW i \in Instance, Spawn(s, i)
      PROVE  DeliveryInv'
  BY <1>2, <1>a, DeliveryFrame DEF Spawn
<1>3. ASSUME NEW f \in putting, PutDone(f)
      PROVE  DeliveryInv'
  <2>1. outbox' = outbox \cup {f} /\ stored' = stored \cup {f}
    BY <1>3, PutStores
  <2>2. \A c \in Conn : down'[c] \subseteq stored'
    BY <1>3, <2>1, TransmitStored DEF PutDone
  <2>3. AllStored'
    BY <1>3, <2>1, <2>2 DEF PutDone, DeliveryInv, AllStored
  <2>4. SeenHandled' /\ AckedRead'
    <3>1. UNCHANGED <<acks, seen, handled, unheard>> /\ stored \subseteq stored'
      BY <1>3, <2>1 DEF PutDone
    <3>. QED
      BY <3>1, HandledKept
  <2>5. OnlyUnheardLost'
    BY <1>3, <2>1 DEF PutDone, DeliveryInv, OnlyUnheardLost
  <2>6. AllHeard'
    BY <1>3 DEF PutDone, DeliveryInv, AllHeard, NoUnheardReads
  <2>. QED
    BY <2>3, <2>4, <2>5, <2>6 DEF DeliveryInv
<1>4. ASSUME NEW s \in Server, NEW c \in Conn, Connect(s, c)
      PROVE  DeliveryInv'
  BY <1>4, <1>a, DeliveryFrame DEF Connect, TypeInv, TypeOK
<1>5. ASSUME NEW c \in Conn, ReadOutbox(c)
      PROVE  DeliveryInv'
  <2>1. \A d \in Conn : replay'[d] \subseteq stored
    BY <1>5, <1>a DEF ReadOutbox, DeliveryInv, AllStored, TypeInv, TypeOK
  <2>. QED
    BY <1>5, <1>a, <2>1, DeliveryFrame DEF ReadOutbox
<1>6. ASSUME NEW c \in Conn, Replay(c)
      PROVE  DeliveryInv'
  <2>1. \A d \in Conn : down'[d] \subseteq stored
    BY <1>6, <1>a, TransmitStored DEF Replay
  <2>2. \A d \in Conn : replay'[d] \subseteq stored
    BY <1>6, <1>a DEF Replay, TypeInv, TypeOK
  <2>. QED
    BY <1>6, <1>a, <2>1, <2>2, DeliveryFrame DEF Replay
<1>7. ASSUME NEW c \in Conn, ReadHello(c) \/ Register(c)
      PROVE  DeliveryInv'
  BY <1>7, <1>a, DeliveryFrame DEF ReadHello, Register, TypeInv, TypeOK
<1>8. ASSUME NEW c \in Conn, HelloTimeout(c)
      PROVE  DeliveryInv'
  BY <1>8, <1>a, DeliveryFrame DEF HelloTimeout, NoUnheardReads, TypeInv, TypeOK
<1>9. ASSUME NEW c \in Conn, NEW f \in down[c], ReadTaskDone(c, f)
      PROVE  DeliveryInv'
  BY <1>9, ReadKeeps
<1>10. ASSUME NEW c \in Conn, NEW file \in acks[c], ReadAck(c, file)
       PROVE  DeliveryInv'
  <2>1. PICK f \in stored : outbox' = outbox \ {f} /\ Read(f)
    BY <1>10, AckForgetsRead DEF ReadAck
  <2>2. AllStored'
    BY <1>10, <2>1 DEF ReadAck, DeliveryInv, AllStored
  <2>3. \A d \in Conn : acks'[d] \subseteq acks[d]
    BY <1>10 DEF ReadAck, TypeInv, TypeOK
  <2>4. SeenHandled' /\ AckedRead'
    BY <1>10, <2>3, HandledKept DEF ReadAck
  <2>5. OnlyUnheardLost'
    BY <1>10, <2>1 DEF ReadAck, DeliveryInv, OnlyUnheardLost, Read
  <2>6. AllHeard'
    BY <1>10 DEF ReadAck, DeliveryInv, AllHeard, NoUnheardReads
  <2>. QED
    BY <2>2, <2>4, <2>5, <2>6 DEF DeliveryInv
<1>11. ASSUME NEW s \in Server, NEW t \in Task, NEW i \in Instance, Prompt(s, t, i)
       PROVE  DeliveryInv'
  BY <1>11, <1>a, DeliveryFrame DEF Prompt
<1>12. ASSUME NEW t \in Task, AcceptPrompt(t)
       PROVE  DeliveryInv'
  BY <1>12, <1>a, DeliveryFrame DEF AcceptPrompt
<1>13. ASSUME NEW c \in Conn, AgentClose(c)
       PROVE  DeliveryInv'
  BY <1>13, <1>a, DeliveryFrame DEF AgentClose, TypeInv, TypeOK
<1>14. ASSUME NEW c \in Conn, ServerClose(c)
       PROVE  DeliveryInv'
  BY <1>14, <1>a, DeliveryFrame DEF ServerClose, Hangup
<1>15. ASSUME NEW s \in Server, ServerRestart(s)
       PROVE  DeliveryInv'
  BY <1>15, <1>a, DeliveryFrame DEF ServerRestart, Hangup, TypeInv, TypeOK
<1>16. CASE AgentCrash
  BY <1>16, <1>a, DeliveryFrame DEF AgentCrash
<1>17. CASE AgentRestart
  BY <1>17, <1>a, DeliveryFrame DEF AgentRestart, Emit
<1>18. CASE UNCHANGED vars
  BY <1>18, <1>a, DeliveryFrame DEF vars
<1>. QED
  BY <1>1, <1>2, <1>3, <1>4, <1>5, <1>6, <1>7, <1>8, <1>9, <1>10, <1>11, <1>12, <1>13, <1>14,
     <1>15, <1>16, <1>17, <1>18 DEF Next

\* A completion that reached the outbox stays there until an orchestrator was woken for it
\* or a client without its handler read it, whatever the faults.
THEOREM LossesUnheard == Spec => []OnlyUnheardLost
<1>1. DeliveryInv => OnlyUnheardLost
  BY DEF DeliveryInv
<1>. QED
  BY <1>1, TypeInit, TypeNext, VerdictInit, VerdictNext, DeliveryInit, DeliveryNext, PTL DEF Spec

\* So it stays until an orchestrator was woken for it, if no frame is read by a client
\* without its handlers.
THEOREM NothingLost ==
  ASSUME NoUnheardReads
  PROVE  Spec => []NoCompletionLost
<1>1. DeliveryInv => NoCompletionLost
  BY DEF DeliveryInv, AllHeard, OnlyUnheardLost, NoCompletionLost
<1>. QED
  BY <1>1, TypeInit, TypeNext, VerdictInit, VerdictNext, DeliveryInit, DeliveryNext, PTL DEF Spec

-----------------------------------------------------------------------------
(***************************************************************************)
(* The delivery layer implements AtLeastOnce: the end of a write to the    *)
(* outbox records a completion, a handler call tells an orchestrator, an   *)
(* ack forgets one, and every other step leaves the service as it is.      *)
(***************************************************************************)

\* The initial states map to initial states of the service.
LEMMA DeliveryMapsInit == Init => Delivery!Init
BY DEF Init, Delivery!Init

\* Every step maps to recording, telling or forgetting, or to a stutter.
LEMMA DeliveryMapsNext ==
  ASSUME NoUnheardReads
  PROVE  TypeInv /\ VerdictInv /\ DeliveryInv /\ [Next]_vars => [Delivery!Next]_Delivery!vars
<1> SUFFICES ASSUME TypeInv, VerdictInv, DeliveryInv, [Next]_vars
             PROVE  Delivery!Next \/ UNCHANGED <<stored, outbox, handled>>
  BY DEF Delivery!vars
<1> USE DEF agentVars, taskVars, registryVars, outboxVars, connVars, promptVars, serverVars
<1>1. ASSUME NEW f \in putting, PutDone(f)
      PROVE  Delivery!Next
  <2>1. f \in Frame
    BY DEF TypeInv, TypeOK
  <2>2. Delivery!Record(f)
    BY <1>1, PutStores DEF Delivery!Record, PutDone
  <2>. QED
    BY <2>1, <2>2 DEF Delivery!Next
<1>2. ASSUME NEW c \in Conn, NEW f \in down[c], ReadTaskDone(c, f)
      PROVE  Delivery!Next \/ UNCHANGED <<stored, outbox, handled>>
  <2>1. f \in stored /\ f \in Frame
    BY DEF DeliveryInv, AllStored, TypeInv, TypeOK
  <2>2. client[c] \in Server
    BY <1>2 DEF ReadTaskDone, TypeInv, ServerOpen, Unheard
  <2>3. handled' = handled \/ handled' = handled \cup {<<client[c], f>>}
    BY <1>2 DEF ReadTaskDone, OnTaskDone
  <2>4. UNCHANGED <<stored, outbox>>
    BY <1>2 DEF ReadTaskDone
  <2>. QED
    BY <2>1, <2>2, <2>3, <2>4 DEF Delivery!Next, Delivery!Tell
<1>3. ASSUME NEW c \in Conn, NEW file \in acks[c], ReadAck(c, file)
      PROVE  Delivery!Next
  <2>1. PICK f \in stored : outbox' = outbox \ {f} /\ Read(f)
    BY <1>3, AckForgetsRead DEF ReadAck
  <2>2. \E s \in Server : <<s, f>> \in handled
    BY <2>1 DEF Read, DeliveryInv, AllHeard
  <2>3. Delivery!Forget(f)
    BY <1>3, <2>1, <2>2 DEF Delivery!Forget, ReadAck
  <2>4. f \in Frame
    BY DEF TypeInv, TypeOK
  <2>. QED
    BY <2>3, <2>4 DEF Delivery!Next
<1>4. ASSUME NEW i \in Instance, Settle(i) \/ WorkerExit(i) \/ Stop(i)
      PROVE  UNCHANGED <<stored, outbox, handled>>
  BY <1>4 DEF Settle, WorkerExit, Stop, Emit
<1>5. ASSUME NEW s \in Server, NEW i \in Instance, Spawn(s, i)
      PROVE  UNCHANGED <<stored, outbox, handled>>
  BY <1>5 DEF Spawn
<1>6. ASSUME NEW s \in Server, NEW c \in Conn, Connect(s, c)
      PROVE  UNCHANGED <<stored, outbox, handled>>
  BY <1>6 DEF Connect
<1>7. ASSUME NEW c \in Conn,
             \/ ReadOutbox(c) \/ Replay(c) \/ ReadHello(c) \/ HelloTimeout(c) \/ Register(c)
             \/ AgentClose(c) \/ ServerClose(c)
      PROVE  UNCHANGED <<stored, outbox, handled>>
  BY <1>7 DEF ReadOutbox, Replay, ReadHello, HelloTimeout, Register, AgentClose, ServerClose
<1>8. ASSUME NEW s \in Server, NEW t \in Task, NEW i \in Instance, Prompt(s, t, i)
      PROVE  UNCHANGED <<stored, outbox, handled>>
  BY <1>8 DEF Prompt
<1>9. ASSUME NEW t \in Task, AcceptPrompt(t)
      PROVE  UNCHANGED <<stored, outbox, handled>>
  BY <1>9 DEF AcceptPrompt
<1>10. ASSUME NEW s \in Server, ServerRestart(s)
       PROVE  UNCHANGED <<stored, outbox, handled>>
  BY <1>10 DEF ServerRestart
<1>11. ASSUME AgentCrash \/ AgentRestart \/ UNCHANGED vars
       PROVE  UNCHANGED <<stored, outbox, handled>>
  BY <1>11 DEF AgentCrash, AgentRestart, Emit, vars
<1>. QED
  BY <1>1, <1>2, <1>3, <1>4, <1>5, <1>6, <1>7, <1>8, <1>9, <1>10, <1>11 DEF Next

\* The agent's outbox, its connections and the orchestrators' handlers are an
\* at-least-once notification service, under the same condition.
THEOREM Refinement ==
  ASSUME NoUnheardReads
  PROVE  Spec => ImplementsAtLeastOnce
BY TypeInit, TypeNext, VerdictInit, VerdictNext, DeliveryInit, DeliveryNext,
   DeliveryMapsInit, DeliveryMapsNext, PTL
DEF Spec, ImplementsAtLeastOnce, Delivery!Spec

-----------------------------------------------------------------------------
(***************************************************************************)
(* No accepted task goes unaccounted for, whatever the environment does.   *)
(* The registry in memory names the task of every worker that works on     *)
(* one, and with no save under way the file says what memory says: so a    *)
(* task that is pending when the agent dies is found by the next agent.    *)
(***************************************************************************)

RecordsInStep ==
  /\ ~up => \A i \in Instance : run[i] \notin Live
  /\ \A i \in Instance : run[i] \in Live => persisted[i] # Absent
  /\ up /\ saving = {} => persisted = registryFile

Underway(t) == \E f \in putting \cup stored : f.task = t

Booked(t, i) == up /\ pending[i] = t /\ run[i] \in Live /\ persisted[i] = t

Named(t, i) == ~up /\ registryFile[i] = t

AcceptedAccounted ==
  \A t \in Task : stage[t] = "accepted" /\ t \notin excused =>
    Underway(t) \/ Booked(t, target[t]) \/ Named(t, target[t])

AccountInv ==
  /\ RecordsInStep
  /\ AcceptedAccounted

\* There is no task to account for at the start.
LEMMA AccountInit == Init => AccountInv
BY DEF Init, AccountInv, RecordsInStep, AcceptedAccounted, Live

\* Steps that leave these variables alone account for nothing new.
LEMMA AccountFrame ==
  ASSUME AccountInv,
         UNCHANGED <<up, run, pending, registryVars, putting, stored, stage, target, excused>>
  PROVE  AccountInv'
BY DEF AccountInv, RecordsInStep, AcceptedAccounted, Underway, Booked, Named,
       registryVars

\* An end of connections turns prompts on their way into lost ones, no more.
LEMMA AccountLose ==
  ASSUME AccountInv, NEW conns, LosePrompts(conns),
         UNCHANGED <<up, run, pending, registryVars, putting, stored, target, excused>>
  PROVE  AccountInv'
<1>1. \A t \in Task : stage'[t] = stage[t] \/ stage'[t] = "lost"
  BY DEF LosePrompts
<1>. QED
  BY <1>1 DEF AccountInv, RecordsInStep, AcceptedAccounted, Underway, Booked, Named,
              registryVars

\* What an instance has pending is on its way to the outbox when it settles or exits.
LEMMA ClosingUnderway ==
  ASSUME NEW i \in Instance, NEW st, putting' = putting \cup Closing(i, st),
         NEW t \in Task, pending[i] = t
  PROVE  Underway(t)'
<1>1. Completion(t, i, life, st) \in Closing(i, st)
  BY ConstantsAssumption DEF Closing
<1>. QED
  BY <1>1 DEF Underway, Completion

\* A save leaves memory and file in step, or is under way.
LEMMA SaveInStep ==
  ASSUME NEW registry, Save(registry)
  PROVE  persisted' = registry /\ (saving' = {} => persisted' = registryFile')
BY DEF Save

\* Every step of the agent's table and registry keeps the accepted tasks accounted for.
LEMMA AccountNext == TypeInv /\ AccountInv /\ [Next]_vars => AccountInv'
<1> SUFFICES ASSUME TypeInv, AccountInv, [Next]_vars
             PROVE  AccountInv'
  OBVIOUS
<1> USE DEF agentVars, taskVars, registryVars, outboxVars, connVars, promptVars, serverVars
<1>a. RecordsInStep /\ AcceptedAccounted
  BY DEF AccountInv
<1>b. \A t \in Task : stage[t] \in {"sent", "accepted"} => target[t] \in Instance
  BY DEF TypeInv
<1>1. ASSUME NEW i \in Instance, Settle(i)
      PROVE  AccountInv'
  <2>1. /\ putting' = putting \cup Closing(i, "settled")
        /\ UNCHANGED <<up, run, persisted, saving, registryFile, stored, stage, target, excused>>
    BY <1>1 DEF Settle, Emit
  <2>2. \A t \in Task : pending[i] = t => Underway(t)'
    BY <2>1, ClosingUnderway
  <2>3. \A j \in Instance : j # i => pending'[j] = pending[j]
    BY <1>1 DEF Settle, TypeInv, TypeOK
  <2>4. RecordsInStep'
    BY <1>a, <2>1 DEF RecordsInStep
  <2>5. \A t \in Task : Underway(t) => Underway(t)'
    BY <2>1 DEF Underway
  <2>6. AcceptedAccounted'
    BY <1>a, <1>b, <2>1, <2>2, <2>3, <2>5 DEF AcceptedAccounted, Booked, Named
  <2>. QED
    BY <2>4, <2>6 DEF AccountInv
<1>2. ASSUME NEW i \in Instance, WorkerExit(i)
      PROVE  AccountInv'
  <2>1. /\ up /\ up'
        /\ putting' = putting \cup Closing(i, "aborted")
        /\ Save([persisted EXCEPT ![i] = Absent])
        /\ UNCHANGED <<stored, stage, target, excused>>
    BY <1>2 DEF WorkerExit, Emit
  <2>2. \A t \in Task : pending[i] = t => Underway(t)'
    BY <2>1, ClosingUnderway
  <2>3. /\ \A j \in Instance : j # i => pending'[j] = pending[j] /\ run'[j] = run[j]
        /\ run'[i] = "exited"
    BY <1>2 DEF WorkerExit, TypeInv, TypeOK
  <2>4. /\ persisted' = [persisted EXCEPT ![i] = Absent]
        /\ saving' = {} => persisted' = registryFile'
    BY <2>1, SaveInStep
  <2>5. \A j \in Instance : j # i => persisted'[j] = persisted[j]
    BY <2>4 DEF TypeInv, TypeOK, Registry
  <2>6. RecordsInStep'
    BY <1>a, <2>1, <2>3, <2>4, <2>5 DEF RecordsInStep, Live
  <2>7. \A t \in Task : Underway(t) => Underway(t)'
    BY <2>1 DEF Underway
  <2>8. AcceptedAccounted'
    BY <1>a, <1>b, <2>1, <2>2, <2>3, <2>5, <2>7 DEF AcceptedAccounted, Booked, Named
  <2>. QED
    BY <2>6, <2>8 DEF AccountInv
<1>3. ASSUME NEW i \in Instance, Stop(i)
      PROVE  AccountInv'
  <2>1. /\ \A j \in Instance : run'[j] \in Live <=> run[j] \in Live
        /\ UNCHANGED <<up, pending, persisted, saving, registryFile, putting, stored, stage, target,
                       excused>>
    BY <1>3 DEF Stop, TypeInv, TypeOK, Live
  <2>2. RecordsInStep'
    BY <1>a, <2>1 DEF RecordsInStep
  <2>3. AcceptedAccounted'
    BY <1>a, <1>b, <2>1 DEF AcceptedAccounted, Underway, Booked, Named
  <2>. QED
    BY <2>2, <2>3 DEF AccountInv
<1>4. ASSUME NEW s \in Server, NEW i \in Instance, Spawn(s, i)
      PROVE  AccountInv'
  <2>1. /\ up /\ run[i] = "none"
        /\ Save([persisted EXCEPT ![i] = None])
        /\ UNCHANGED <<up, pending, putting, stored, stage, target, excused>>
    BY <1>4 DEF Spawn
  <2>2. /\ \A j \in Instance : j # i => run'[j] = run[j]
        /\ run'[i] = "running"
    BY <1>4 DEF Spawn, TypeInv, TypeOK
  <2>3. /\ persisted' = [persisted EXCEPT ![i] = None]
        /\ saving' = {} => persisted' = registryFile'
    BY <2>1, SaveInStep
  <2>4. /\ \A j \in Instance : j # i => persisted'[j] = persisted[j]
        /\ persisted'[i] # Absent
    BY <2>3, ConstantsAssumption DEF TypeInv, TypeOK, Registry
  <2>5. RecordsInStep'
    BY <1>a, <2>1, <2>2, <2>3, <2>4 DEF RecordsInStep
  <2>6. \A t \in Task : Booked(t, i) => FALSE
    BY <2>1 DEF Booked, Live
  <2>7. AcceptedAccounted'
    <3> SUFFICES ASSUME NEW t \in Task, stage[t] = "accepted", t \notin excused
                 PROVE  Underway(t)' \/ (Booked(t, target[t]))'
      BY <2>1 DEF AcceptedAccounted
    <3>1. target[t] \in Instance /\ (Underway(t) \/ Booked(t, target[t]) \/ Named(t, target[t]))
      BY <1>a, <1>b DEF AcceptedAccounted
    <3>2. Underway(t) => Underway(t)'
      BY <2>1 DEF Underway
    <3>3. ~Named(t, target[t])
      BY <2>1 DEF Named
    <3>4. Booked(t, target[t]) => target[t] # i
      BY <2>6
    <3>5. Booked(t, target[t]) => (Booked(t, target[t]))'
      BY <2>1, <2>2, <2>4, <3>1, <3>4 DEF Booked
    <3>. QED
      BY <3>1, <3>2, <3>3, <3>5
  <2>. QED
    BY <2>5, <2>7 DEF AccountInv
<1>5. ASSUME NEW f \in putting, PutDone(f)
      PROVE  AccountInv'
  <2>1. /\ putting' \cup stored' = putting \cup stored
        /\ UNCHANGED <<up, run, pending, persisted, saving, registryFile, stage, target, excused>>
    BY <1>5 DEF PutDone
  <2>. QED
    BY <1>a, <2>1
    DEF AccountInv, RecordsInStep, AcceptedAccounted, Underway, Booked, Named
<1>6. ASSUME NEW s \in Server, NEW t \in Task, NEW i \in Instance, Prompt(s, t, i)
      PROVE  AccountInv'
  <2>1. /\ \A u \in Task : u # t => stage'[u] = stage[u] /\ target'[u] = target[u]
        /\ stage'[t] \in {"sent", "lost"} /\ target'[t] = i
        /\ UNCHANGED <<up, run, pending, persisted, saving, registryFile, putting, stored, excused>>
    BY <1>6 DEF Prompt, TypeInv, TypeOK
  <2>2. RecordsInStep'
    BY <1>a, <2>1 DEF RecordsInStep
  <2>3. AcceptedAccounted'
    BY <1>a, <2>1 DEF AcceptedAccounted, Underway, Booked, Named
  <2>. QED
    BY <2>2, <2>3 DEF AccountInv
<1>7. ASSUME NEW t \in Task, AcceptPrompt(t)
      PROVE  AccountInv'
  <2>. DEFINE i == target[t]
  <2>1. up /\ i \in Instance
    BY <1>7, <1>b DEF AcceptPrompt
  <2>2. /\ \A u \in Task : u # t => stage'[u] = stage[u]
        /\ pending'[i] = t
        /\ \A j \in Instance : j # i => pending'[j] = pending[j]
        /\ excused' = excused \cup ({pending[i]} \ {None}) \cup {x \in {t} : run[i] \notin Live}
        /\ UNCHANGED <<up, run, putting, stored, target>>
    BY <1>7, <2>1 DEF AcceptPrompt, TypeInv, TypeOK
  <2>3. /\ \A j \in Instance : j # i => persisted'[j] = persisted[j]
        /\ persisted[i] # Absent => persisted'[i] = t
        /\ saving' = {} => persisted' = registryFile'
    <3>1. CASE persisted[i] # Absent
      <4>1. Save([persisted EXCEPT ![i] = t])
        BY <1>7, <3>1 DEF AcceptPrompt
      <4>2. persisted' = [persisted EXCEPT ![i] = t] /\ (saving' = {} => persisted' = registryFile')
        BY <4>1, SaveInStep
      <4>. QED
        BY <2>1, <4>2 DEF TypeInv, TypeOK, Registry
    <3>2. CASE persisted[i] = Absent
      <4>1. UNCHANGED <<persisted, saving, registryFile>>
        BY <1>7, <3>2 DEF AcceptPrompt
      <4>. QED
        BY <1>a, <2>1, <3>2, <4>1 DEF RecordsInStep
    <3>. QED
      BY <3>1, <3>2
  <2>4. t # Absent
    BY ConstantsAssumption
  <2> HIDE DEF i
  <2>5. \A j \in Instance : run[j] \in Live => persisted'[j] # Absent
    BY <1>a, <2>1, <2>3, <2>4 DEF RecordsInStep
  <2>6. RecordsInStep'
    BY <1>a, <2>1, <2>2, <2>3, <2>5 DEF RecordsInStep
  <2>8. \A u \in Task : Underway(u) => Underway(u)'
    BY <2>2 DEF Underway
  <2>9. AcceptedAccounted'
    <3> SUFFICES ASSUME NEW u \in Task, stage'[u] = "accepted", u \notin excused'
                 PROVE  Underway(u)' \/ Booked(u, target[u])'
      BY <2>2 DEF AcceptedAccounted, Booked
    <3>1. CASE u = t
      <4>1. run[i] \in Live
        BY <2>2, <3>1
      <4>2. persisted'[i] = t
        BY <1>a, <2>1, <2>3, <4>1 DEF RecordsInStep
      <4>. QED
        BY <2>1, <2>2, <3>1, <4>1, <4>2 DEF Booked, i
    <3>2. CASE u # t
      <4>1. stage[u] = "accepted" /\ u \notin excused
        BY <2>2, <3>2
      <4>2. target[u] \in Instance /\ (Underway(u) \/ Booked(u, target[u]))
        BY <1>a, <1>b, <2>1, <4>1 DEF AcceptedAccounted, Named
      <4>3. pending[i] # u
        BY <2>2, ConstantsAssumption
      <4>4. CASE Booked(u, target[u])
        <5>1. target[u] # i
          BY <4>3, <4>4 DEF Booked
        <5>. QED
          BY <2>2, <2>3, <4>2, <4>4, <5>1 DEF Booked
      <4>. QED
        BY <2>8, <4>2, <4>4
    <3>. QED
      BY <3>1, <3>2
  <2>. QED
    BY <2>6, <2>9 DEF AccountInv
<1>8. CASE AgentCrash
  <2>1. /\ up /\ ~up' /\ saving' = {} /\ putting' = {}
        /\ registryFile' \in {registryFile} \cup saving \cup {EmptyRegistry : r \in saving}
        /\ excused' = excused \cup {f.task : f \in putting}
                              \cup {t \in Task : saving # {} /\ \E i \in Instance : pending[i] = t}
        /\ UNCHANGED <<stored, target>>
    BY <1>8 DEF AgentCrash
  <2>2. \A j \in Instance : run'[j] \notin Live
    <3>1. \A j \in Instance : run'[j] = IF run[j] \in Live THEN "lost" ELSE run[j]
      BY <1>8 DEF AgentCrash
    <3>2. "lost" \notin Live
      BY DEF Live
    <3>. QED
      BY <3>1, <3>2
  <2>3. \A t \in Task : stage'[t] = stage[t] \/ stage'[t] = "lost"
    BY <1>8 DEF AgentCrash, LosePrompts
  <2>4. RecordsInStep'
    BY <1>a, <2>1, <2>2, <2>3 DEF RecordsInStep
  <2>5. AcceptedAccounted'
    <3> SUFFICES ASSUME NEW t \in Task, stage'[t] = "accepted", t \notin excused'
                 PROVE  Underway(t)' \/ Named(t, target[t])'
      BY <2>1 DEF AcceptedAccounted, Named
    <3>1. stage[t] = "accepted" /\ t \notin excused
      BY <2>1, <2>3
    <3>2. target[t] \in Instance /\ (Underway(t) \/ Booked(t, target[t]))
      BY <1>a, <1>b, <2>1, <3>1 DEF AcceptedAccounted, Named
    <3>3. CASE Underway(t)
      <4>1. \A f \in putting : f.task # t
        BY <2>1
      <4>. QED
        BY <2>1, <3>3, <4>1 DEF Underway
    <3>4. CASE Booked(t, target[t])
      <4>1. saving = {}
        BY <2>1, <3>2, <3>4 DEF Booked
      <4>2. registryFile' = registryFile /\ registryFile = persisted
        BY <1>a, <2>1, <4>1 DEF RecordsInStep
      <4>. QED
        BY <2>1, <3>4, <4>2 DEF Booked, Named
    <3>. QED
      BY <3>2, <3>3, <3>4
  <2>. QED
    BY <2>4, <2>5 DEF AccountInv
<1>9. CASE AgentRestart
  <2>1. /\ ~up /\ up'
        /\ putting' = putting \cup {Completion(registryFile[i], i, life + 1, "aborted") : i \in Recovered}
        /\ Save(EmptyRegistry)
        /\ UNCHANGED <<run, pending, stored, stage, target, excused>>
    BY <1>9 DEF AgentRestart, Emit
  <2>2. \A j \in Instance : run[j] \notin Live
    BY <1>a, <2>1 DEF RecordsInStep
  <2>3. saving' = {} => persisted' = registryFile'
    BY <2>1, SaveInStep
  <2>4. RecordsInStep'
    BY <1>a, <2>1, <2>2, <2>3 DEF RecordsInStep
  <2>5. \A t \in Task, i \in Instance : registryFile[i] = t => Underway(t)'
    <3> SUFFICES ASSUME NEW t \in Task, NEW i \in Instance, registryFile[i] = t
                 PROVE  Underway(t)'
      OBVIOUS
    <3>1. i \in Recovered
      BY DEF Recovered
    <3>2. Completion(registryFile[i], i, life + 1, "aborted") \in putting'
      BY <2>1, <3>1
    <3>. QED
      BY <3>2 DEF Underway, Completion
  <2>6. \A t \in Task : Underway(t) => Underway(t)'
    BY <2>1 DEF Underway
  <2>7. AcceptedAccounted'
    BY <1>a, <1>b, <2>1, <2>5, <2>6 DEF AcceptedAccounted, Booked, Named
  <2>. QED
    BY <2>4, <2>7 DEF AccountInv
<1>10. ASSUME NEW c \in Conn, AgentClose(c)
       PROVE  AccountInv'
  BY <1>10, AccountLose DEF AgentClose
<1>11. ASSUME NEW c \in Conn,
              \/ ReadOutbox(c) \/ Replay(c) \/ ReadHello(c) \/ HelloTimeout(c) \/ Register(c)
              \/ ServerClose(c)
              \/ \E s \in Server : Connect(s, c)
              \/ \E f \in down[c] : ReadTaskDone(c, f)
              \/ \E file \in acks[c] : ReadAck(c, file)
       PROVE  AccountInv'
  BY <1>11, AccountFrame
  DEF ReadOutbox, Replay, ReadHello, HelloTimeout, Register, ServerClose, Connect, ReadTaskDone,
      ReadAck
<1>12. ASSUME (\E s \in Server : ServerRestart(s)) \/ UNCHANGED vars
       PROVE  AccountInv'
  BY <1>12, AccountFrame DEF ServerRestart, vars
<1>. QED
  BY <1>1, <1>2, <1>3, <1>4, <1>5, <1>6, <1>7, <1>8, <1>9, <1>10, <1>11, <1>12 DEF Next

\* Whatever the environment does, a task the agent accepted is reported, pending on a worker
\* that can still settle or exit, or named by the file the next agent reads, unless it was
\* excused: for a worker that had ended, for the prompt that replaced it, or for a crash
\* during a write.
THEOREM TasksAccounted == Spec => []TaskAccounted
<1>1. TypeInv /\ AccountInv => TaskAccounted
  BY DEF AccountInv, AcceptedAccounted, Underway, Booked, Named, TaskAccounted
<1>. QED
  BY <1>1, TypeInit, TypeNext, AccountInit, AccountNext, PTL DEF Spec
=============================================================================
