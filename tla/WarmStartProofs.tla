--------------------------- MODULE WarmStartProofs ---------------------------
(***************************************************************************)
(* Proofs about WarmStart, for any number of calls and labels and any      *)
(* bounds.                                                                 *)
(***************************************************************************)
EXTENDS WarmStart, TLAPS

(***************************************************************************)
(* The inductive invariant.                                                *)
(***************************************************************************)

\* Each tool has steps of its own.
Roles ==
  /\ \A p \in Prime : step[p] \notin {"switch", "clone", "warm"}
  /\ \A w \in Warm : step[w] \notin {"compact", "name", "state", "settling", "stop", "mkdir",
                                     "recorded"} \cup Saving

\* A worker that is primed stays in the session it was started with.
OwnSession(p) ==
  /\ cur[p] = <<p, "fresh">>
  /\ session[p] \in {None, <<p, "fresh">>}
  /\ \A i \in DOMAIN inbox[p] : inbox[p][i] \notin {"switch", "clone"}
  /\ \A i \in DOMAIN answers[p] : answers[p][i].file \in {None, <<p, "fresh">>}

Early == {"idle", "load", "reading", "read", "spawn"}

\* Nothing is on the wires of a worker that is not spawned yet.
Unspawned(w) ==
  step[w] \in Early => inbox[w] = <<>> /\ answers[w] = <<>> /\ w \notin tracked

\* A worker is told to switch to a session that is known.
KnowsBaseline(w) ==
  /\ step[w] \in {"spawn", "switch"} => session[w] # None
  /\ \A i \in DOMAIN inbox[w] : inbox[w][i] = "switch" => session[w] # None

\* It is told once, and told to clone only after its answer.
SwitchFirst(w) ==
  /\ \A i \in DOMAIN inbox[w] :
       /\ inbox[w][i] = "switch" => step[w] \in {"switch", "failed", "killed"}
       /\ inbox[w][i] = "clone" => step[w] \in {"clone", "warm", "failed", "killed"}
  /\ \A i, j \in DOMAIN inbox[w] : inbox[w][i] = "switch" /\ inbox[w][j] = "switch" => i = j

SwitchAnswered(w) ==
  \A i \in DOMAIN answers[w] :
    step[w] = "switch" /\ answers[w][i].to = "switch" =>
      \A j \in DOMAIN inbox[w] : inbox[w][j] # "switch"

CloneAnswered(w) ==
  \A i \in DOMAIN answers[w] : answers[w][i].to = "clone" =>
    /\ step[w] \in {"clone", "warm", "failed", "killed"}
    /\ step[w] = "clone" /\ answers[w][i].ok => cur[w] = <<w, "clone">>

\* The point of it all: a worker handed over as warm is in its clone.
WarmInClone(w) ==
  step[w] = "warm" /\ w \notin refused => cur[w] = <<w, "clone">>

Wire(w) ==
  /\ Unspawned(w) /\ KnowsBaseline(w)
  /\ SwitchFirst(w) /\ SwitchAnswered(w) /\ CloneAnswered(w)
  /\ WarmInClone(w)

Wires ==
  /\ \A p \in Prime : OwnSession(p)
  /\ \A w \in Warm : Wire(w)

(***************************************************************************)
(* Queues.                                                                 *)
(***************************************************************************)

\* What appending does to a queue.
LEMMA Appended ==
  ASSUME NEW S, NEW q \in Seq(S), NEW x \in S
  PROVE  /\ Append(q, x) \in Seq(S)
         /\ DOMAIN Append(q, x) = DOMAIN q \cup {Len(q) + 1}
         /\ \A i \in DOMAIN q : Append(q, x)[i] = q[i]
         /\ Append(q, x)[Len(q) + 1] = x
         /\ Len(q) + 1 \notin DOMAIN q
OBVIOUS

\* What taking the first element does to a queue.
LEMMA Taken ==
  ASSUME NEW S, NEW q \in Seq(S), q # <<>>
  PROVE  /\ Tail(q) \in Seq(S)
         /\ Head(q) \in S
         /\ 1 \in DOMAIN q /\ Head(q) = q[1]
         /\ \A i \in DOMAIN Tail(q) : i + 1 \in DOMAIN q /\ i \in Nat /\ i # 0 /\ Tail(q)[i] = q[i + 1]
OBVIOUS

(***************************************************************************)
(* Types.                                                                  *)
(***************************************************************************)

\* The step a call is sent to is a step.
LEMMA AfterType ==
  ASSUME NEW s \in Asked \cup {"settling"}
  PROVE  After[s] \in Asked \cup {"stop", "warm"}
BY DEF After, Asked

\* What loading leaves is well typed.
LEMMA LoadedType ==
  ASSUME TypeOK, NEW c \in Call, NEW r \in Records, Loaded(c, r)
  PROVE  /\ cache' \in Records
         /\ session' \in [Call -> Session \cup {None}]
         /\ step' \in [Call -> Step]
<1>1. label[c] \in Label /\ session[c] \in Session \cup {None} /\ r[label[c]] \in Session \cup {None}
  BY DEF TypeOK, Records
<1>2. step' \in [Call -> Step]
  BY DEF Loaded, Goes, TypeOK, Step, Done
<1>3. cache' \in Records /\ session' \in [Call -> Session \cup {None}]
  BY <1>1 DEF Loaded, TypeOK, Records
<1>. QED
  BY <1>2, <1>3

\* Every step keeps the types.
LEMMA TypeStep ==
  ASSUME TypeOK, Roles, Wires, [Next]_vars
  PROVE  TypeOK'
<1>. USE CallsAssumption, BoundAssumption
<1>a. NoRecords \in Records
  BY DEF NoRecords, Records
<1>b. troubles \in Nat /\ (Trouble => troubles' \in 0..MaxTroubles)
  BY DEF TypeOK, Trouble
<1>1. ASSUME NEW c \in Call, Start(c) PROVE TypeOK'
  BY <1>1 DEF Start, Goes, TypeOK, storeVars, workerVars, wireVars, histVars, Step
<1>2. ASSUME NEW c \in Call, SpawnAnswered(c) PROVE TypeOK'
  <2>1. <<IF c \in Prime THEN "prime" ELSE "switch">> \in Seq(Command)
    BY DEF Command, Asked
  <2>2. inbox' \in [Call -> Seq(Command)]
    BY <1>2, <2>1 DEF SpawnAnswered, TypeOK
  <2>. QED
    BY <1>2, <2>2 DEF SpawnAnswered, Goes, TypeOK, storeVars, histVars, Step, Asked
<1>3. ASSUME NEW c \in Call, SpawnFails(c) PROVE TypeOK'
  BY <1>b, <1>3 DEF SpawnFails, Goes, TypeOK, storeVars, wireVars, histVars, Step, Done
<1>4. ASSUME NEW c \in Call, Hear(c) PROVE TypeOK'
  <2>. DEFINE a == Head(answers[c])
              next == After[step[c]]
  <2>1. a \in Answer /\ answers' \in [Call -> Seq(Answer)]
    <3>1. answers[c] \in Seq(Answer) /\ answers[c] # <<>>
      BY <1>4 DEF Hear, TypeOK
    <3>2. Head(answers[c]) \in Answer /\ Tail(answers[c]) \in Seq(Answer)
      BY <3>1, Taken
    <3>. QED
      BY <1>4, <3>2 DEF Hear, TypeOK
  <2>2. CASE EndsWait(c, a)
    <3>1. step[c] \in Asked \cup {"settling"}
      BY <2>1, <2>2 DEF EndsWait, Answer
    <3>2. next \in Asked \cup {"stop", "warm"}
      BY <3>1, AfterType
    <3>3. step' \in [Call -> Step]
      BY <1>4, <2>2, <3>2 DEF Hear, Goes, TypeOK, Step, Done
    <3>4. inbox' \in [Call -> Seq(Command)]
      <4>1. inbox[c] \in Seq(Command)
        BY DEF TypeOK
      <4>2. next \in Asked => Append(inbox[c], next) \in Seq(Command)
        BY <4>1, Appended DEF Command
      <4>. QED
        BY <1>4, <2>2, <4>2 DEF Hear, TypeOK
    <3>5. session' \in [Call -> Session \cup {None}] /\ refused' \in SUBSET Call
      BY <1>4, <2>1, <2>2 DEF Hear, TypeOK, Answer
    <3>. QED
      BY <1>4, <2>1, <3>3, <3>4, <3>5 DEF Hear, TypeOK, storeVars, workerVars
  <2>3. CASE ~EndsWait(c, a)
    BY <1>4, <2>1, <2>3 DEF Hear, TypeOK, storeVars, workerVars
  <2>. QED
    BY <2>2, <2>3
<1>5. ASSUME NEW c \in Call, TimesOut(c) PROVE TypeOK'
  BY <1>5 DEF TimesOut, Throws, Goes, TypeOK, storeVars, workerVars, wireVars, histVars, Step, Done
<1>6. ASSUME NEW p \in Prime, StopAnswered(p) PROVE TypeOK'
  <2>1. inbox' \in [Call -> Seq(Command)] /\ answers' \in [Call -> Seq(Answer)]
    <3>1. <<>> \in Seq(Command) /\ <<>> \in Seq(Answer)
      OBVIOUS
    <3>. QED
      BY <1>6, <3>1 DEF StopAnswered, TypeOK, Call
  <2>. QED
    BY <1>6, <2>1 DEF StopAnswered, Goes, TypeOK, storeVars, histVars, Step, Done, Call
<1>7. ASSUME NEW p \in Prime, StopFails(p) PROVE TypeOK'
  BY <1>b, <1>7 DEF StopFails, Goes, TypeOK, storeVars, wireVars, Step, Done, Call
<1>8. ASSUME NEW c \in Call, Load(c) PROVE TypeOK'
  <2>1. CASE loaded
    <3>1. cache \in Records
      BY DEF TypeOK
    <3>. QED
      BY <1>8, <2>1, <3>1, LoadedType DEF Load, TypeOK, workerVars, wireVars, histVars
  <2>2. CASE ~loaded
    BY <1>8, <2>2 DEF Load, Goes, TypeOK, workerVars, wireVars, histVars, Step
  <2>. QED
    BY <2>1, <2>2
<1>9. ASSUME NEW c \in Call, ReadFile(c) PROVE TypeOK'
  BY <1>9 DEF ReadFile, Goes, TypeOK, workerVars, wireVars, histVars, Step
<1>10. ASSUME NEW c \in Call, LoadDone(c) PROVE TypeOK'
  <2>1. got[c] \in Records
    BY DEF TypeOK
  <2>2. got' \in [Call -> Records] /\ upset' \in BOOLEAN /\ loaded' \in BOOLEAN
    BY <1>a, <1>10 DEF LoadDone, TypeOK
  <2>. QED
    BY <1>10, <2>1, <2>2, LoadedType DEF LoadDone, TypeOK, workerVars, wireVars, histVars
<1>11. ASSUME NEW p \in Prime, Snapshot(p) PROVE TypeOK'
  <2>1. upset' \in BOOLEAN
    BY <1>11 DEF Snapshot, TypeOK
  <2>. QED
    BY <1>11, <2>1 DEF Snapshot, Goes, TypeOK, workerVars, wireVars, histVars, Step, Saving, Call
<1>12. ASSUME NEW p \in Prime, OpenFile(p) PROVE TypeOK'
  BY <1>a, <1>12 DEF OpenFile, Goes, TypeOK, workerVars, wireVars, histVars, Step, Saving, Call
<1>13. ASSUME NEW p \in Prime, WriteFile(p) PROVE TypeOK'
  <2>1. step' \in [Call -> Step]
    BY <1>13 DEF WriteFile, TypeOK, Step, Done, Saving
  <2>2. disk' \in Records /\ got' \in [Call -> Records]
    BY <1>a, <1>13 DEF WriteFile, TypeOK, Call
  <2>. QED
    BY <1>13, <2>1, <2>2 DEF WriteFile, TypeOK, workerVars, wireVars, histVars
<1>14. ASSUME NEW w \in Call, Work(w) PROVE TypeOK'
  <2>. DEFINE command == Head(inbox[w])
  <2>1. command \in Command /\ inbox' \in [Call -> Seq(Command)] /\ command = inbox[w][1] /\ 1 \in DOMAIN inbox[w]
    <3>1. inbox[w] \in Seq(Command) /\ inbox[w] # <<>>
      BY <1>14 DEF Work, TypeOK
    <3>2. Head(inbox[w]) \in Command /\ Tail(inbox[w]) \in Seq(Command) /\ Head(inbox[w]) = inbox[w][1]
            /\ 1 \in DOMAIN inbox[w]
      BY <3>1, Taken
    <3>. QED
      BY <1>14, <3>2 DEF Work, TypeOK
  <2>2. cur[w] \in Session /\ answers[w] \in Seq(Answer) /\ <<w, "clone">> \in Session
    BY DEF TypeOK, Session
  <2>3. CASE Obey(w, command)
    <3>1. answers' \in [Call -> Seq(Answer)]
      <4>. DEFINE a == [to   |-> IF command \in Asked THEN command ELSE "settling",
                        ok   |-> TRUE,
                        file |-> IF command = "state" THEN cur[w] ELSE None]
      <4>1. a \in Answer
        BY <2>2 DEF Answer
      <4>2. Append(answers[w], a) \in Seq(Answer)
        BY <2>2, <4>1, Appended
      <4>. QED
        BY <2>3, <4>2 DEF Obey, TypeOK
    <3>2. cur' \in [Call -> Session]
      <4>1. command = "switch" => session[w] \in Session
        BY <2>1 DEF TypeOK, Wires, Wire, KnowsBaseline, OwnSession, Call
      <4>. QED
        BY <2>2, <2>3, <4>1 DEF Obey, TypeOK
    <3>3. text' \in [Session -> SUBSET Content]
      <4>1. text[cur[w]] \in SUBSET Content
        BY <2>2 DEF TypeOK
      <4>2. \A x \in Content : text[cur[w]] \cup {x} \in SUBSET Content
        BY <4>1
      <4>3. (CASE command = "prime" -> "primed" [] command = "compact" -> "compacted"
               [] command = "name" -> "named" [] OTHER -> "work") \in Content
        BY DEF Content
      <4>. QED
        BY <2>2, <2>3, <4>1, <4>2, <4>3 DEF Obey, TypeOK
    <3>. QED
      BY <1>14, <2>1, <2>3, <3>1, <3>2, <3>3 DEF Work, Obey, TypeOK, callVars, storeVars, histVars
  <2>4. CASE Refuse(w, command)
    <3>1. answers' \in [Call -> Seq(Answer)]
      <4>1. command \in Asked
        BY <2>4 DEF Refuse
      <4>2. [to |-> command, ok |-> FALSE, file |-> None] \in Answer
        BY <4>1 DEF Answer
      <4>3. Append(answers[w], [to |-> command, ok |-> FALSE, file |-> None]) \in Seq(Answer)
        BY <2>2, <4>2, Appended
      <4>. QED
        BY <2>4, <4>3 DEF Refuse, TypeOK
    <3>2. troubles' \in 0..MaxTroubles
      BY <1>b, <2>4 DEF Refuse
    <3>. QED
      BY <1>14, <2>1, <2>4, <3>1, <3>2 DEF Work, Refuse, TypeOK, callVars, storeVars, histVars
  <2>. QED
    BY <1>14, <2>3, <2>4 DEF Work
<1>15. ASSUME NEW w \in Call, Prompt(w) PROVE TypeOK'
  <2>1. inbox[w] \in Seq(Command) /\ "work" \in Command
    BY DEF TypeOK, Command
  <2>2. Append(inbox[w], "work") \in Seq(Command)
    BY <2>1, Appended
  <2>3. inbox' \in [Call -> Seq(Command)]
    BY <1>15, <2>2 DEF Prompt, TypeOK
  <2>. QED
    BY <1>15, <2>3 DEF Prompt, TypeOK, callVars, storeVars, workerVars, histVars
<1>16. ASSUME NEW w \in Call, Die(w) PROVE TypeOK'
  <2>1. inbox' \in [Call -> Seq(Command)]
    BY <1>16 DEF Die, TypeOK
  <2>. QED
    BY <1>b, <1>16, <2>1 DEF Die, TypeOK, callVars, storeVars, histVars
<1>17. Broken => inbox' \in [Call -> Seq(Command)] /\ answers' \in [Call -> Seq(Answer)]
  <2>1. <<>> \in Seq(Command) /\ <<>> \in Seq(Answer)
    OBVIOUS
  <2>. QED
    BY <2>1 DEF Broken, TypeOK
<1>18. CASE Cut
  BY <1>b, <1>17, <1>18 DEF Cut, TypeOK, callVars, storeVars, workerVars, histVars
<1>19. CASE Kill
  <2>1. step' \in [Call -> Step]
    BY <1>19 DEF Kill, TypeOK, Step, Done
  <2>2. cache' \in Records /\ got' \in [Call -> Records] /\ upset' \in BOOLEAN /\ loaded' \in BOOLEAN
    BY <1>a, <1>19 DEF Kill, TypeOK
  <2>. QED
    BY <1>b, <1>17, <1>19, <2>1, <2>2 DEF Kill, TypeOK, workerVars, histVars
<1>20. CASE UNCHANGED vars
  BY <1>20 DEF vars, callVars, storeVars, workerVars, wireVars, histVars, TypeOK
<1>. QED
  BY <1>1, <1>2, <1>3, <1>4, <1>5, <1>6, <1>7, <1>8, <1>9, <1>10, <1>11, <1>12, <1>13, <1>14, <1>15,
     <1>16, <1>18, <1>19, <1>20 DEF Next

(***************************************************************************)
(* Who is asked what.                                                      *)
(***************************************************************************)

\* What follows an event of the right tool stays with the tool.
LEMMA AfterRoles ==
  /\ \A s \in {"settling", "compact", "name", "state"} : After[s] \in {"compact", "name", "state", "stop"}
  /\ After["switch"] = "clone" /\ After["clone"] = "warm"
BY DEF After

\* Every step keeps the tools apart.
LEMMA RolesStep ==
  ASSUME TypeOK, Roles, [Next]_vars
  PROVE  Roles'
<1>. USE CallsAssumption DEF Roles
<1>1. ASSUME NEW c \in Call, Start(c) PROVE Roles'
  BY <1>1 DEF Start, Goes, TypeOK, Call, Saving
<1>2. ASSUME NEW c \in Call, SpawnAnswered(c) PROVE Roles'
  BY <1>2 DEF SpawnAnswered, Goes, TypeOK, Call, Saving
<1>3. ASSUME NEW c \in Call, SpawnFails(c) PROVE Roles'
  BY <1>3 DEF SpawnFails, Goes, TypeOK, Call, Saving
<1>4. ASSUME NEW c \in Call, Hear(c) PROVE Roles'
  <2>1. CASE EndsWait(c, Head(answers[c]))
    <3>1. Head(answers[c]) \in Answer
      BY <1>4, Taken DEF Hear, TypeOK
    <3>2. step[c] \in Asked \cup {"settling"}
      BY <2>1, <3>1 DEF EndsWait, Answer
    <3>3. step' = [step EXCEPT ![c] = After[step[c]]]
      BY <1>4, <2>1 DEF Hear, Goes
    <3>4. c \in Prime => After[step[c]] \in {"compact", "name", "state", "stop"}
      BY <3>2, AfterRoles DEF Asked
    <3>5. c \in Warm => After[step[c]] \in {"clone", "warm"}
      BY <3>2, AfterRoles DEF Asked
    <3>. QED
      BY <3>3, <3>4, <3>5 DEF TypeOK, Call, Saving
  <2>2. CASE ~EndsWait(c, Head(answers[c]))
    BY <1>4, <2>2 DEF Hear
  <2>. QED
    BY <2>1, <2>2
<1>5. ASSUME NEW c \in Call, TimesOut(c) PROVE Roles'
  BY <1>5 DEF TimesOut, Throws, Goes, TypeOK, Call, Saving
<1>6. ASSUME NEW p \in Prime, StopAnswered(p) PROVE Roles'
  BY <1>6 DEF StopAnswered, Goes, TypeOK, Call, Saving
<1>7. ASSUME NEW p \in Prime, StopFails(p) PROVE Roles'
  BY <1>7 DEF StopFails, Goes, TypeOK, Call, Saving
<1>8. ASSUME NEW c \in Call, Load(c) PROVE Roles'
  BY <1>8 DEF Load, Loaded, Goes, TypeOK, Call, Saving
<1>9. ASSUME NEW c \in Call, ReadFile(c) PROVE Roles'
  BY <1>9 DEF ReadFile, Goes, TypeOK, Call, Saving
<1>10. ASSUME NEW c \in Call, LoadDone(c) PROVE Roles'
  BY <1>10 DEF LoadDone, Loaded, Goes, TypeOK, Call, Saving
<1>11. ASSUME NEW p \in Prime, Snapshot(p) PROVE Roles'
  BY <1>11 DEF Snapshot, Goes, TypeOK, Call, Saving
<1>12. ASSUME NEW p \in Prime, OpenFile(p) PROVE Roles'
  BY <1>12 DEF OpenFile, Goes, TypeOK, Call, Saving
<1>13. ASSUME NEW p \in Prime, WriteFile(p) PROVE Roles'
  BY <1>13 DEF WriteFile, TypeOK, Call, Saving
<1>14. ASSUME NEW w \in Call, Work(w) \/ Prompt(w) \/ Die(w) PROVE Roles'
  BY <1>14 DEF Work, Prompt, Die, callVars
<1>15. CASE Cut
  BY <1>15 DEF Cut, callVars
<1>16. CASE Kill
  BY <1>16 DEF Kill, TypeOK, Call, Saving
<1>17. CASE UNCHANGED vars
  BY <1>17 DEF vars, callVars
<1>. QED
  BY <1>1, <1>2, <1>3, <1>4, <1>5, <1>6, <1>7, <1>8, <1>9, <1>10, <1>11, <1>12, <1>13, <1>14, <1>15,
     <1>16, <1>17 DEF Next

\* What a step does not touch keeps its wires.
LEMMA Untouched ==
  ASSUME NEW c, step'[c] = step[c], session'[c] = session[c], inbox'[c] = inbox[c],
         answers'[c] = answers[c], cur'[c] = cur[c], c \in tracked' <=> c \in tracked,
         c \in refused' <=> c \in refused
  PROVE  /\ OwnSession(c) => OwnSession(c)'
         /\ Wire(c) => Wire(c)'
BY DEF OwnSession, Wire, Unspawned, KnowsBaseline, SwitchFirst, SwitchAnswered, CloneAnswered, WarmInClone

\* So a step of one call has only the wires of that call to keep.
LEMMA OneCall ==
  ASSUME Wires, NEW c \in Call,
         \A d \in Call : d # c =>
           /\ step'[d] = step[d] /\ session'[d] = session[d] /\ inbox'[d] = inbox[d]
           /\ answers'[d] = answers[d] /\ cur'[d] = cur[d]
           /\ d \in tracked' <=> d \in tracked
           /\ d \in refused' <=> d \in refused,
         c \in Prime => OwnSession(c)',
         c \in Warm => Wire(c)'
  PROVE  Wires'
BY Untouched DEF Wires, Call

\* A call moves on without anything being sent or heard.
LEMMA MovesOn ==
  ASSUME TypeOK, Wires, NEW c \in Call, UNCHANGED <<inbox, answers, cur, refused, tracked>>,
         step' \in [Call -> Step], \A d \in Call : d # c => step'[d] = step[d] /\ session'[d] = session[d],
         c \in Prime => session'[c] = session[c],
         c \in Warm => \/ /\ step[c] \in Early /\ step'[c] \in Early \cup {"failed"}
                          /\ step'[c] = "spawn" => session'[c] # None
                       \/ step'[c] \in {"failed", "killed"} /\ session'[c] = session[c]
                       \/ step'[c] = step[c] /\ session'[c] = session[c]
  PROVE  Wires'
<1>1. c \in Prime => OwnSession(c)'
  BY DEF Wires, OwnSession
<1>2. c \in Warm => Wire(c)'
  <2>. SUFFICES ASSUME c \in Warm PROVE Wire(c)'
    OBVIOUS
  <2>1. Wire(c)
    BY DEF Wires
  <2>2. Unspawned(c)' /\ KnowsBaseline(c)'
    BY <2>1 DEF Wire, Unspawned, KnowsBaseline, Early
  <2>3. SwitchFirst(c)' /\ SwitchAnswered(c)'
    BY <2>1 DEF Wire, Unspawned, SwitchFirst, SwitchAnswered, Early
  <2>4. CloneAnswered(c)' /\ WarmInClone(c)'
    BY <2>1 DEF Wire, Unspawned, CloneAnswered, WarmInClone, Early
  <2>. QED
    BY <2>2, <2>3, <2>4 DEF Wire
<1>. QED
  BY <1>1, <1>2, OneCall

\* Hearing an event.
LEMMA WiresHear ==
  ASSUME TypeOK, Roles, Wires, NEW c \in Call, Hear(c)
  PROVE  Wires'
<1>. USE CallsAssumption
<1>. DEFINE a == Head(answers[c])
            next == After[step[c]]
<1>1. answers[c] \in Seq(Answer) /\ answers[c] # <<>> /\ inbox[c] \in Seq(Command)
  BY DEF Hear, TypeOK
<1>2. /\ a \in Answer /\ 1 \in DOMAIN answers[c] /\ a = answers[c][1]
      /\ \A i \in DOMAIN Tail(answers[c]) :
           i + 1 \in DOMAIN answers[c] /\ Tail(answers[c])[i] = answers[c][i + 1]
  BY <1>1, Taken
<1>3. answers' = [answers EXCEPT ![c] = Tail(answers[c])] /\ answers'[c] = Tail(answers[c])
  BY DEF Hear, TypeOK
<1>4. UNCHANGED <<cur, tracked, label>>
  BY DEF Hear, workerVars
<1>5. \A d \in Call : d # c =>
        /\ step'[d] = step[d] /\ session'[d] = session[d] /\ inbox'[d] = inbox[d]
        /\ answers'[d] = answers[d] /\ cur'[d] = cur[d]
        /\ d \in tracked' <=> d \in tracked
        /\ d \in refused' <=> d \in refused
  BY <1>3, <1>4 DEF Hear, Goes, TypeOK
<1>6. EndsWait(c, a) => step[c] = a.to /\ step[c] \in Asked \cup {"settling"}
  BY <1>2 DEF EndsWait, Answer
<1>7. EndsWait(c, a) => step'[c] = next
  BY DEF Hear, Goes, TypeOK
<1>8. EndsWait(c, a) => inbox'[c] = IF next \in Asked THEN Append(inbox[c], next) ELSE inbox[c]
  BY DEF Hear, TypeOK
<1>9. ~EndsWait(c, a) => UNCHANGED <<step, inbox, session, refused>>
  BY DEF Hear
<1>10. c \in Prime => OwnSession(c)'
  <2>. SUFFICES ASSUME c \in Prime PROVE OwnSession(c)'
    OBVIOUS
  <2>1. OwnSession(c)
    BY DEF Wires
  <2>2. \A i \in DOMAIN answers'[c] : answers'[c][i].file \in {None, <<c, "fresh">>}
    BY <1>2, <1>3, <2>1 DEF OwnSession
  <2>3. session'[c] \in {None, <<c, "fresh">>}
    BY <1>2, <2>1 DEF OwnSession, Hear, TypeOK
  <2>4. \A i \in DOMAIN inbox'[c] : inbox'[c][i] \notin {"switch", "clone"}
    <3>1. CASE EndsWait(c, a) /\ next \in Asked
      <4>1. next \in {"compact", "name", "state", "stop"}
        BY <1>6, <3>1, AfterRoles DEF Roles, Asked
      <4>2. next \in Command
        BY <3>1 DEF Command
      <4>3. /\ DOMAIN inbox'[c] = DOMAIN inbox[c] \cup {Len(inbox[c]) + 1}
            /\ \A i \in DOMAIN inbox[c] : inbox'[c][i] = inbox[c][i]
            /\ inbox'[c][Len(inbox[c]) + 1] = next
        BY <1>1, <1>8, <3>1, <4>2, Appended
      <4>. QED
        BY <2>1, <4>1, <4>3 DEF OwnSession
    <3>2. CASE ~(EndsWait(c, a) /\ next \in Asked)
      BY <1>8, <1>9, <2>1, <3>2 DEF OwnSession
    <3>. QED
      BY <3>1, <3>2
  <2>. QED
    BY <1>4, <2>1, <2>2, <2>3, <2>4 DEF OwnSession
<1>11. c \in Warm => Wire(c)'
  <2>. SUFFICES ASSUME c \in Warm PROVE Wire(c)'
    OBVIOUS
  <2>1. Wire(c)
    BY DEF Wires
  <2>2. CASE ~EndsWait(c, a)
    <3>1. Unspawned(c)' /\ KnowsBaseline(c)' /\ SwitchFirst(c)' /\ WarmInClone(c)'
      BY <1>1, <1>4, <1>9, <2>1, <2>2 DEF Wire, Unspawned, KnowsBaseline, SwitchFirst, WarmInClone
    <3>2. SwitchAnswered(c)'
      BY <1>2, <1>3, <1>9, <2>1, <2>2 DEF Wire, SwitchAnswered
    <3>3. CloneAnswered(c)'
      BY <1>2, <1>3, <1>4, <1>9, <2>1, <2>2 DEF Wire, CloneAnswered
    <3>. QED
      BY <3>1, <3>2, <3>3 DEF Wire
  <2>3. CASE EndsWait(c, a) /\ step[c] = "switch"
    <3>1. step'[c] = "clone" /\ inbox'[c] = Append(inbox[c], "clone") /\ session'[c] = session[c]
      BY <1>6, <1>7, <1>8, <2>3, AfterRoles DEF Hear, TypeOK, Asked
    <3>2. /\ DOMAIN inbox'[c] = DOMAIN inbox[c] \cup {Len(inbox[c]) + 1}
          /\ \A i \in DOMAIN inbox[c] : inbox'[c][i] = inbox[c][i]
          /\ inbox'[c][Len(inbox[c]) + 1] = "clone"
      BY <1>1, <3>1, Appended DEF Command, Asked
    <3>3. \A i \in DOMAIN inbox[c] : inbox[c][i] # "switch"
      BY <1>2, <1>6, <2>1, <2>3 DEF Wire, SwitchAnswered
    <3>4. \A i \in DOMAIN answers[c] : answers[c][i].to # "clone"
      BY <2>1, <2>3 DEF Wire, CloneAnswered
    <3>5. Unspawned(c)' /\ KnowsBaseline(c)' /\ WarmInClone(c)'
      BY <3>1, <3>2, <3>3 DEF Unspawned, KnowsBaseline, WarmInClone, Early
    <3>6. SwitchFirst(c)'
      BY <2>1, <2>3, <3>1, <3>2, <3>3 DEF Wire, SwitchFirst
    <3>7. SwitchAnswered(c)' /\ CloneAnswered(c)'
      BY <1>2, <1>3, <3>1, <3>4 DEF SwitchAnswered, CloneAnswered
    <3>. QED
      BY <3>5, <3>6, <3>7 DEF Wire
  <2>4. CASE EndsWait(c, a) /\ step[c] = "clone"
    <3>1. step'[c] = "warm" /\ inbox'[c] = inbox[c] /\ session'[c] = session[c]
      BY <1>6, <1>7, <1>8, <2>4, AfterRoles DEF Hear, TypeOK, Asked
    <3>2. c \notin refused' => a.ok
      BY <2>4 DEF Hear, TypeOK
    <3>3. a.ok => cur[c] = <<c, "clone">>
      BY <1>2, <1>6, <2>1, <2>4 DEF Wire, CloneAnswered
    <3>4. Unspawned(c)' /\ WarmInClone(c)'
      BY <1>4, <3>1, <3>2, <3>3 DEF Unspawned, WarmInClone, Early
    <3>5. KnowsBaseline(c)' /\ SwitchFirst(c)'
      BY <2>1, <2>4, <3>1 DEF Wire, KnowsBaseline, SwitchFirst
    <3>6. SwitchAnswered(c)' /\ CloneAnswered(c)'
      BY <1>2, <1>3, <2>1, <2>4, <3>1 DEF Wire, SwitchAnswered, CloneAnswered
    <3>. QED
      BY <3>4, <3>5, <3>6 DEF Wire
  <2>. QED
    BY <1>6, <2>2, <2>3, <2>4 DEF Roles, Asked
<1>. QED
  BY <1>5, <1>10, <1>11, OneCall

\* A worker carrying out, or refusing, its next command.
LEMMA WiresWork ==
  ASSUME TypeOK, Roles, Wires, NEW c \in Call, Work(c)
  PROVE  Wires'
<1>. USE CallsAssumption
<1>. DEFINE command == Head(inbox[c])
            a == answers'[c][Len(answers[c]) + 1]
<1>1. inbox[c] \in Seq(Command) /\ inbox[c] # <<>> /\ answers[c] \in Seq(Answer)
  BY DEF Work, TypeOK
<1>2. /\ command \in Command /\ 1 \in DOMAIN inbox[c] /\ command = inbox[c][1]
      /\ \A i \in DOMAIN Tail(inbox[c]) :
           i + 1 \in DOMAIN inbox[c] /\ i \in Nat /\ i # 0 /\ Tail(inbox[c])[i] = inbox[c][i + 1]
  BY <1>1, Taken
<1>3. inbox' = [inbox EXCEPT ![c] = Tail(inbox[c])] /\ inbox'[c] = Tail(inbox[c])
  BY DEF Work, TypeOK
<1>4. UNCHANGED <<step, session, tracked, refused>>
  BY DEF Work, callVars, histVars
<1>5. cur[c] \in Session /\ cur \in [Call -> Session] /\ answers \in [Call -> Seq(Answer)]
  BY DEF TypeOK
<1>6. PICK x \in Answer : /\ answers' = [answers EXCEPT ![c] = Append(@, x)]
                          /\ x.to = IF command \in Asked THEN command ELSE "settling"
                          /\ x.file \in {None, cur[c]}
                          /\ x.ok => Obey(c, command)
  <2>1. CASE Obey(c, command)
    <3>. DEFINE x == [to   |-> IF command \in Asked THEN command ELSE "settling",
                      ok   |-> TRUE,
                      file |-> IF command = "state" THEN cur[c] ELSE None]
    <3>1. x \in Answer
      BY <1>5 DEF Answer
    <3>. QED
      BY <2>1, <3>1 DEF Obey
  <2>2. CASE Refuse(c, command)
    <3>. DEFINE x == [to |-> command, ok |-> FALSE, file |-> None]
    <3>1. x \in Answer /\ command \in Asked
      BY <2>2 DEF Answer, Refuse
    <3>. QED
      BY <2>2, <3>1 DEF Refuse
  <2>. QED
    BY <2>1, <2>2 DEF Work
<1>7. /\ DOMAIN answers'[c] = DOMAIN answers[c] \cup {Len(answers[c]) + 1}
      /\ \A i \in DOMAIN answers[c] : answers'[c][i] = answers[c][i]
      /\ answers'[c][Len(answers[c]) + 1] = x
  <2>1. answers'[c] = Append(answers[c], x)
    BY <1>5, <1>6
  <2>. QED
    BY <1>1, <2>1, Appended
<1>8. /\ cur'[c] = cur[c] \/ command = "switch" \/ command = "clone"
      /\ command = "clone" => cur'[c] \in {cur[c], <<c, "clone">>}
      /\ command = "clone" /\ x.ok => cur'[c] = <<c, "clone">>
      /\ \A d \in Call : d # c => cur'[d] = cur[d]
  <2>1. Obey(c, command) => /\ cur'[c] = cur[c] \/ command = "switch" \/ command = "clone"
                            /\ command = "clone" => cur'[c] = <<c, "clone">>
                            /\ \A d \in Call : d # c => cur'[d] = cur[d]
    BY <1>5 DEF Obey
  <2>2. Refuse(c, command) => cur' = cur
    BY DEF Refuse
  <2>3. Obey(c, command) \/ Refuse(c, command)
    BY DEF Work
  <2>. QED
    BY <1>6, <2>1, <2>2, <2>3
<1>9. \A d \in Call : d # c =>
        /\ step'[d] = step[d] /\ session'[d] = session[d] /\ inbox'[d] = inbox[d]
        /\ answers'[d] = answers[d] /\ cur'[d] = cur[d]
        /\ d \in tracked' <=> d \in tracked
        /\ d \in refused' <=> d \in refused
  BY <1>3, <1>4, <1>5, <1>6, <1>8 DEF TypeOK
<1>10. c \in Prime => OwnSession(c)'
  <2>. SUFFICES ASSUME c \in Prime PROVE OwnSession(c)'
    OBVIOUS
  <2>1. OwnSession(c)
    BY DEF Wires
  <2>2. cur'[c] = <<c, "fresh">>
    BY <1>2, <1>8, <2>1 DEF OwnSession
  <2>3. \A i \in DOMAIN inbox'[c] : inbox'[c][i] \notin {"switch", "clone"}
    BY <1>2, <1>3, <2>1 DEF OwnSession
  <2>4. \A i \in DOMAIN answers'[c] : answers'[c][i].file \in {None, <<c, "fresh">>}
    BY <1>6, <1>7, <2>1 DEF OwnSession
  <2>. QED
    BY <1>4, <2>1, <2>2, <2>3, <2>4 DEF OwnSession
<1>11. c \in Warm => Wire(c)'
  <2>. SUFFICES ASSUME c \in Warm PROVE Wire(c)'
    OBVIOUS
  <2>1. Wire(c)
    BY DEF Wires
  <2>2. Unspawned(c)' /\ KnowsBaseline(c)'
    BY <1>1, <1>2, <1>3, <1>4, <2>1 DEF Wire, Unspawned, KnowsBaseline
  <2>3. SwitchFirst(c)'
    <3>1. \A i, j \in DOMAIN inbox'[c] : inbox'[c][i] = "switch" /\ inbox'[c][j] = "switch" => i = j
      <4>. TAKE i, j \in DOMAIN inbox'[c]
      <4>. HAVE inbox'[c][i] = "switch" /\ inbox'[c][j] = "switch"
      <4>1. i + 1 = j + 1
        BY <1>2, <1>3, <2>1 DEF Wire, SwitchFirst
      <4>2. i \in Nat /\ j \in Nat
        BY <1>2, <1>3
      <4>. QED
        BY <4>1, <4>2
    <3>. QED
      BY <1>2, <1>3, <1>4, <2>1, <3>1 DEF Wire, SwitchFirst
  <2>4. SwitchAnswered(c)'
    <3>1. command = "switch" => \A j \in DOMAIN inbox'[c] : inbox'[c][j] # "switch"
      <4>. SUFFICES ASSUME command = "switch", NEW j \in DOMAIN inbox'[c], inbox'[c][j] = "switch" PROVE FALSE
        OBVIOUS
      <4>1. j + 1 = 1 /\ j \in Nat /\ j # 0
        BY <1>2, <1>3, <2>1 DEF Wire, SwitchFirst
      <4>. QED
        BY <4>1
    <3>2. x.to = "switch" => command = "switch"
      BY <1>6
    <3>. QED
      BY <1>2, <1>3, <1>4, <1>7, <2>1, <3>1, <3>2 DEF Wire, SwitchAnswered
  <2>5. step[c] \in {"clone", "warm"} => command # "switch"
    BY <1>2, <2>1 DEF Wire, SwitchFirst
  <2>6. CloneAnswered(c)'
    <3>1. x.to = "clone" => command = "clone" /\ step[c] \in {"clone", "warm", "failed", "killed"}
      BY <1>2, <1>6, <2>1 DEF Wire, SwitchFirst
    <3>2. step[c] = "clone" /\ cur[c] = <<c, "clone">> => cur'[c] = <<c, "clone">>
      BY <1>8, <2>5
    <3>3. x.to = "clone" /\ x.ok => cur'[c] = <<c, "clone">>
      BY <1>8, <3>1
    <3>. QED
      BY <1>4, <1>7, <2>1, <3>1, <3>2, <3>3 DEF Wire, CloneAnswered
  <2>7. WarmInClone(c)'
    BY <1>4, <1>8, <2>1, <2>5 DEF Wire, WarmInClone
  <2>. QED
    BY <2>2, <2>3, <2>4, <2>6, <2>7 DEF Wire
<1>. QED
  BY <1>9, <1>10, <1>11, OneCall

\* Commands that are lost on the way or with the worker.
LEMMA WiresLost ==
  ASSUME TypeOK, Wires,
         \A d \in Call : /\ inbox'[d] \in {<<>>, inbox[d]} /\ answers'[d] \in {<<>>, answers[d]}
                         /\ step'[d] \in {step[d], "killed"},
         UNCHANGED <<cur, session, refused>>, tracked' \in SUBSET tracked
  PROVE  Wires'
<1>1. ASSUME NEW p \in Prime PROVE OwnSession(p)'
  BY <1>1 DEF Wires, OwnSession, Call
<1>2. ASSUME NEW w \in Warm PROVE Wire(w)'
  <2>1. Wire(w) /\ w \in Call
    BY DEF Wires, Call
  <2>2. Unspawned(w)' /\ KnowsBaseline(w)'
    BY <2>1 DEF Wire, Unspawned, KnowsBaseline, Early
  <2>3. SwitchFirst(w)' /\ SwitchAnswered(w)'
    BY <2>1 DEF Wire, SwitchFirst, SwitchAnswered
  <2>4. CloneAnswered(w)' /\ WarmInClone(w)'
    BY <2>1 DEF Wire, CloneAnswered, WarmInClone
  <2>. QED
    BY <2>2, <2>3, <2>4 DEF Wire
<1>. QED
  BY <1>1, <1>2 DEF Wires

\* Every step keeps the wires.
LEMMA WiresStep ==
  ASSUME TypeOK, TypeOK', Roles, Wires, [Next]_vars
  PROVE  Wires'
<1>. USE CallsAssumption
<1>0. step' \in [Call -> Step]
  BY DEF TypeOK
<1>1. ASSUME NEW c \in Call, Start(c) PROVE Wires'
  BY <1>0, <1>1, MovesOn DEF Start, Goes, TypeOK, workerVars, wireVars, histVars, Early, Call
<1>2. ASSUME NEW c \in Call, SpawnAnswered(c) PROVE Wires'
  <2>1. /\ inbox'[c] = <<IF c \in Prime THEN "prime" ELSE "switch">>
        /\ step[c] = "spawn" /\ step'[c] = IF c \in Prime THEN "settling" ELSE "switch"
        /\ UNCHANGED <<answers, cur, session, refused>>
    BY <1>2 DEF SpawnAnswered, Goes, TypeOK, histVars
  <2>2. c \in Prime => OwnSession(c)'
    BY <2>1 DEF Wires, OwnSession
  <2>3. c \in Warm => Wire(c)'
    <3>. SUFFICES ASSUME c \in Warm PROVE Wire(c)'
      OBVIOUS
    <3>1. Wire(c) /\ inbox'[c] = <<"switch">> /\ step'[c] = "switch" /\ answers'[c] = <<>>
      BY <2>1 DEF Wires, Wire, Unspawned, Early
    <3>2. session'[c] # None
      BY <2>1, <3>1 DEF Wire, KnowsBaseline
    <3>3. DOMAIN inbox'[c] = {1} /\ inbox'[c][1] = "switch" /\ DOMAIN answers'[c] = {}
      BY <3>1
    <3>. QED
      BY <3>1, <3>2, <3>3
         DEF Wire, Unspawned, KnowsBaseline, SwitchFirst, SwitchAnswered, CloneAnswered, WarmInClone, Early
  <2>. QED
    BY <1>2, <2>2, <2>3, OneCall DEF SpawnAnswered, Goes, TypeOK, histVars
<1>3. ASSUME NEW c \in Call, SpawnFails(c) PROVE Wires'
  BY <1>0, <1>3, MovesOn DEF SpawnFails, Goes, TypeOK, wireVars, histVars
<1>4. ASSUME NEW c \in Call, TimesOut(c) PROVE Wires'
  BY <1>0, <1>4, MovesOn DEF TimesOut, Throws, Goes, TypeOK, workerVars, wireVars, histVars
<1>5. ASSUME NEW p \in Prime, StopAnswered(p) PROVE Wires'
  <2>1. p \in Call /\ p \notin Warm
    BY DEF Call
  <2>2. OwnSession(p)'
    BY <1>5, <2>1 DEF StopAnswered, Wires, OwnSession, TypeOK
  <2>. QED
    BY <1>5, <2>1, <2>2, OneCall DEF StopAnswered, Goes, TypeOK, histVars
<1>6. ASSUME NEW p \in Prime, StopFails(p) PROVE Wires'
  <2>1. p \in Call /\ p \notin Warm
    BY DEF Call
  <2>. QED
    BY <1>0, <1>6, <2>1, MovesOn DEF StopFails, Goes, TypeOK, wireVars
<1>7. ASSUME NEW c \in Call, NEW r, Loaded(c, r), step[c] \in {"load", "read"},
             UNCHANGED <<wireVars, cur, refused, tracked>>
      PROVE  Wires'
  <2>1. c \in Warm => /\ step'[c] \in {"failed", "spawn"}
                      /\ step'[c] = "spawn" => session'[c] # None
    BY <1>0, <1>7 DEF Loaded, Goes, TypeOK
  <2>2. \A d \in Call : d # c => step'[d] = step[d] /\ session'[d] = session[d]
    BY <1>7 DEF Loaded, Goes, TypeOK
  <2>3. c \in Prime => session'[c] = session[c]
    BY <1>7 DEF Loaded
  <2>. QED
    BY <1>0, <1>7, <2>1, <2>2, <2>3, MovesOn DEF wireVars, Early
<1>8. ASSUME NEW c \in Call, Load(c) PROVE Wires'
  <2>1. CASE loaded
    BY <1>7, <1>8, <2>1 DEF Load, workerVars, histVars
  <2>2. CASE ~loaded
    BY <1>0, <1>8, <2>2, MovesOn DEF Load, Goes, TypeOK, workerVars, wireVars, histVars, Early
  <2>. QED
    BY <2>1, <2>2
<1>9. ASSUME NEW c \in Call, ReadFile(c) PROVE Wires'
  BY <1>0, <1>9, MovesOn DEF ReadFile, Goes, TypeOK, workerVars, wireVars, histVars, Early
<1>10. ASSUME NEW c \in Call, LoadDone(c) PROVE Wires'
  BY <1>7, <1>10 DEF LoadDone, workerVars, histVars
<1>11. ASSUME NEW p \in Prime, Snapshot(p) \/ OpenFile(p) PROVE Wires'
  <2>1. p \in Call /\ p \notin Warm
    BY DEF Call
  <2>. QED
    BY <1>0, <1>11, <2>1, MovesOn DEF Snapshot, OpenFile, Goes, TypeOK, workerVars, wireVars, histVars
<1>12. ASSUME NEW p \in Prime, WriteFile(p) PROVE Wires'
  <2>1. \A w \in Warm : step'[w] = step[w]
    BY <1>12 DEF WriteFile, Roles, Saving, Call
  <2>2. UNCHANGED <<session, inbox, answers, cur, tracked, refused>>
    BY <1>12 DEF WriteFile, workerVars, wireVars, histVars
  <2>3. \A w \in Warm : Wire(w)'
    BY <2>1, <2>2, Untouched DEF Wires
  <2>4. \A q \in Prime : OwnSession(q)'
    BY <2>2 DEF Wires, OwnSession
  <2>. QED
    BY <2>3, <2>4 DEF Wires
<1>13. ASSUME NEW c \in Call, Prompt(c) PROVE Wires'
  <2>1. /\ inbox[c] \in Seq(Command) /\ "work" \in Command /\ inbox'[c] = Append(inbox[c], "work")
        /\ c \in tracked /\ UNCHANGED <<step, session, answers, cur, tracked, refused>>
    BY <1>13 DEF Prompt, TypeOK, Command, callVars, workerVars, histVars
  <2>2. /\ DOMAIN inbox'[c] = DOMAIN inbox[c] \cup {Len(inbox[c]) + 1}
        /\ \A i \in DOMAIN inbox[c] : inbox'[c][i] = inbox[c][i]
        /\ inbox'[c][Len(inbox[c]) + 1] = "work"
    BY <2>1, Appended
  <2>3. c \in Prime => OwnSession(c)'
    BY <2>1, <2>2 DEF Wires, OwnSession
  <2>4. c \in Warm => Wire(c)'
    <3>. SUFFICES ASSUME c \in Warm PROVE Wire(c)'
      OBVIOUS
    <3>1. Wire(c)
      BY DEF Wires
    <3>2. Unspawned(c)' /\ KnowsBaseline(c)' /\ WarmInClone(c)'
      BY <2>1, <2>2, <3>1 DEF Wire, Unspawned, KnowsBaseline, WarmInClone
    <3>3. SwitchFirst(c)'
      BY <2>1, <2>2, <3>1 DEF Wire, SwitchFirst
    <3>4. SwitchAnswered(c)' /\ CloneAnswered(c)'
      BY <2>1, <2>2, <3>1 DEF Wire, SwitchAnswered, CloneAnswered
    <3>. QED
      BY <3>2, <3>3, <3>4 DEF Wire
  <2>. QED
    BY <1>13, <2>1, <2>3, <2>4, OneCall DEF Prompt, TypeOK
<1>14. ASSUME NEW c \in Call, Die(c) PROVE Wires'
  BY <1>14, WiresLost DEF Die, TypeOK, callVars, histVars
<1>15. CASE Cut
  BY <1>15, WiresLost DEF Cut, Broken, TypeOK, callVars, workerVars, histVars
<1>16. CASE Kill
  <2>1. \A d \in Call : step'[d] = IF step[d] \in Done \cup {"idle"} THEN step[d] ELSE "killed"
    BY <1>16 DEF Kill
  <2>. QED
    BY <1>16, <2>1, WiresLost DEF Kill, Broken, workerVars, histVars, Done
<1>17. CASE UNCHANGED vars
  BY <1>17, WiresLost DEF vars, callVars, workerVars, wireVars, histVars
<1>. QED
  BY <1>1, <1>2, <1>3, <1>4, <1>5, <1>6, <1>8, <1>9, <1>10, <1>11, <1>12, <1>13, <1>14, <1>15, <1>16,
     <1>17, WiresHear, WiresWork DEF Next

(***************************************************************************)
(* The stop that every primed worker is given.                             *)
(***************************************************************************)

Asking == {"idle", "spawn", "settling", "compact", "name", "state"}
Ending == {"load", "reading", "read", "mkdir", "recorded"} \cup Saving

\* A call knows its session from get_state on; past the stop its worker is gone.
Stops ==
  \A p \in Prime :
    /\ p \in tracked => step[p] \notin {"idle", "spawn", "killed"}
    /\ step[p] \in Ending => session[p] # None /\ (p \in running => p \in unstopped)
    /\ step[p] = "failed" /\ p \in tracked => (p \in running => p \in unstopped)
    /\ step[p] \in Asking => session[p] = None

\* What only other calls do leaves a call's end alone.
LEMMA StopsElsewhere ==
  ASSUME Stops, NEW c \in Call,
         \A p \in Prime : p # c => /\ step'[p] = step[p] /\ session'[p] = session[p]
                                   /\ p \in tracked' <=> p \in tracked
                                   /\ p \in running' => p \in running
                                   /\ p \in unstopped => p \in unstopped',
         c \in Prime =>
           /\ c \in tracked' => step'[c] \notin {"idle", "spawn", "killed"}
           /\ step'[c] \in Ending => session'[c] # None /\ (c \in running' => c \in unstopped')
           /\ step'[c] = "failed" /\ c \in tracked' => (c \in running' => c \in unstopped')
           /\ step'[c] \in Asking => session'[c] = None
  PROVE  Stops'
BY DEF Stops

\* Every step keeps it.
LEMMA StopsStep ==
  ASSUME TypeOK, Roles, Stops, [Next]_vars
  PROVE  Stops'
<1>. USE CallsAssumption
<1>1. ASSUME NEW c \in Call, Start(c) PROVE Stops'
  BY <1>1 DEF Start, Goes, TypeOK, storeVars, workerVars, histVars, Stops, Asking, Ending, Saving, Call
<1>2. ASSUME NEW c \in Call, SpawnAnswered(c) PROVE Stops'
  <2>1. c \in Prime => session[c] = None
    BY <1>2 DEF SpawnAnswered, Stops, Asking
  <2>. QED
    BY <1>2, <2>1, StopsElsewhere DEF SpawnAnswered, Goes, TypeOK, histVars, Asking, Ending, Saving, Call
<1>3. ASSUME NEW c \in Call, SpawnFails(c) PROVE Stops'
  <2>1. c \in Prime => c \notin tracked
    BY <1>3 DEF SpawnFails, Stops
  <2>. QED
    BY <1>3, <2>1, StopsElsewhere DEF SpawnFails, Goes, TypeOK, histVars, Asking, Ending, Saving, Call
<1>4. ASSUME NEW c \in Call, Hear(c) PROVE Stops'
  <2>0. UNCHANGED <<tracked, running, unstopped>>
    BY <1>4 DEF Hear, workerVars
  <2>1. CASE EndsWait(c, Head(answers[c]))
    <3>1. Head(answers[c]) \in Answer
      BY <1>4, Taken DEF Hear, TypeOK
    <3>2. step[c] \in Asked \cup {"settling"} /\ Head(answers[c]).to = step[c]
      BY <2>1, <3>1 DEF EndsWait, Answer
    <3>3. step' = [step EXCEPT ![c] = After[step[c]]]
      BY <1>4, <2>1 DEF Hear, Goes
    <3>4. c \in Prime /\ step[c] # "state" => step'[c] \in {"compact", "name", "state"} /\ step[c] \in Asking
      <4>1. \A s \in {"settling", "compact", "name"} : After[s] \in {"compact", "name", "state"}
        BY DEF After
      <4>. QED
        BY <3>2, <3>3, <4>1 DEF Asked, Roles, TypeOK, Asking
    <3>5. step[c] = "state" => step'[c] = "stop"
      BY <3>3 DEF After, TypeOK
    <3>6. session' = IF step[c] = "state" THEN [session EXCEPT ![c] = Head(answers[c]).file] ELSE session
      BY <1>4, <2>1, <3>2 DEF Hear
    <3>7. \A p \in Prime : p # c => step'[p] = step[p] /\ session'[p] = session[p]
      BY <3>3, <3>6 DEF TypeOK, Call
    <3>8. c \in Prime => /\ step'[c] \in {"compact", "name", "state", "stop"}
                         /\ step'[c] \in Asking => session'[c] = None
      BY <3>4, <3>5, <3>6 DEF Stops, Asking
    <3>. QED
      BY <2>0, <3>7, <3>8, StopsElsewhere DEF Ending, Saving
  <2>2. CASE ~EndsWait(c, Head(answers[c]))
    BY <1>4, <2>0, <2>2 DEF Hear, Stops
  <2>. QED
    BY <2>1, <2>2
<1>5. ASSUME NEW c \in Call, TimesOut(c) PROVE Stops'
  <2>1. c \in Prime => step'[c] = "stop"
    BY <1>5 DEF TimesOut, Throws, Goes, TypeOK
  <2>2. \A p \in Prime : p # c => step'[p] = step[p]
    BY <1>5 DEF TimesOut, Throws, Goes, TypeOK, Call
  <2>. QED
    BY <1>5, <2>1, <2>2, StopsElsewhere DEF TimesOut, workerVars, histVars, Asking, Ending, Saving
<1>6. ASSUME NEW p \in Prime, StopAnswered(p) PROVE Stops'
  <2>1. p \in Call /\ p \notin running' /\ step'[p] \in {"failed", "load"} /\ (step'[p] = "load" => session[p] # None)
    BY <1>6 DEF StopAnswered, Goes, TypeOK, Call
  <2>. QED
    BY <1>6, <2>1, StopsElsewhere DEF StopAnswered, Goes, TypeOK, histVars, Asking, Ending, Saving, Call
<1>7. ASSUME NEW p \in Prime, StopFails(p) PROVE Stops'
  <2>1. p \in Call /\ p \in unstopped' /\ step'[p] \in {"failed", "load"} /\ (step'[p] = "load" => session[p] # None)
    BY <1>7 DEF StopFails, Goes, TypeOK, Call
  <2>. QED
    BY <1>7, <2>1, StopsElsewhere DEF StopFails, Goes, TypeOK, Asking, Ending, Saving, Call
<1>8. ASSUME NEW c \in Call, NEW r, Loaded(c, r), step[c] \in {"load", "read"},
             UNCHANGED <<running, unstopped, tracked>>
      PROVE  Stops'
  <2>1. \A p \in Prime : p # c => step'[p] = step[p] /\ session'[p] = session[p]
    BY <1>8 DEF Loaded, Goes, TypeOK, Call
  <2>2. c \in Prime => step'[c] = "mkdir" /\ session'[c] = session[c]
    BY <1>8 DEF Loaded, Goes, TypeOK
  <2>. QED
    BY <1>8, <2>1, <2>2, StopsElsewhere DEF Stops, Asking, Ending, Saving
<1>9. ASSUME NEW c \in Call, Load(c) PROVE Stops'
  <2>1. CASE loaded
    BY <1>8, <1>9, <2>1 DEF Load, workerVars, histVars
  <2>2. CASE ~loaded
    <3>1. step' = [step EXCEPT ![c] = "reading"] /\ step[c] = "load" /\ UNCHANGED <<session, running, unstopped, tracked>>
      BY <1>9, <2>2 DEF Load, Goes, workerVars, histVars
    <3>. QED
      BY <3>1 DEF TypeOK, Stops, Asking, Ending, Saving, Call
  <2>. QED
    BY <2>1, <2>2
<1>10. ASSUME NEW c \in Call, ReadFile(c) PROVE Stops'
  <2>1. step' = [step EXCEPT ![c] = "read"] /\ step[c] = "reading" /\ UNCHANGED <<session, running, unstopped, tracked>>
    BY <1>10 DEF ReadFile, Goes, workerVars, histVars
  <2>. QED
    BY <2>1 DEF TypeOK, Stops, Asking, Ending, Saving, Call
<1>11. ASSUME NEW c \in Call, LoadDone(c) PROVE Stops'
  BY <1>8, <1>11 DEF LoadDone, workerVars, histVars
<1>12. ASSUME NEW p \in Prime, Snapshot(p) \/ OpenFile(p) PROVE Stops'
  <2>1. /\ step[p] \in {"mkdir", "snapped"} /\ step'[p] \in {"snapped", "opened"}
        /\ \A q \in Prime : q # p => step'[q] = step[q]
        /\ UNCHANGED <<session, running, unstopped, tracked>>
    BY <1>12 DEF Snapshot, OpenFile, Goes, TypeOK, workerVars, histVars, Call
  <2>. QED
    BY <2>1 DEF Stops, Asking, Ending, Saving
<1>13. ASSUME NEW p \in Prime, WriteFile(p) PROVE Stops'
  <2>1. UNCHANGED <<session, running, unstopped, tracked>>
    BY <1>13 DEF WriteFile, workerVars, histVars
  <2>2. step[p] \in Saving /\ step'[p] = "recorded"
    BY <1>13 DEF WriteFile, Saving, Call
  <2>3. \A q \in Prime : q # p => step'[q] = IF step[q] = "opened" THEN "shared" ELSE step[q]
    BY <1>13 DEF WriteFile, Call
  <2>. QED
    BY <2>1, <2>2, <2>3 DEF Stops, Asking, Ending, Saving
<1>14. ASSUME NEW w \in Call, Work(w) \/ Prompt(w) \/ Die(w) PROVE Stops'
  BY <1>14 DEF Work, Prompt, Die, callVars, workerVars, histVars, Stops
<1>15. CASE Cut
  BY <1>15 DEF Cut, callVars, workerVars, histVars, Stops
<1>16. CASE Kill
  <2>1. \A p \in Prime : step'[p] = IF step[p] \in Done \cup {"idle"} THEN step[p] ELSE "killed"
    BY <1>16 DEF Kill, Call
  <2>2. UNCHANGED <<session, running, unstopped>> /\ tracked' = {}
    BY <1>16 DEF Kill, workerVars, histVars
  <2>. QED
    BY <2>1, <2>2 DEF Stops, Asking, Ending, Saving, Done
<1>17. CASE UNCHANGED vars
  BY <1>17 DEF vars, callVars, workerVars, histVars, Stops
<1>. QED
  BY <1>1, <1>2, <1>3, <1>4, <1>5, <1>6, <1>7, <1>9, <1>10, <1>11, <1>12, <1>13, <1>14, <1>15, <1>16,
     <1>17 DEF Next

(***************************************************************************)
(* The theorems.                                                           *)
(***************************************************************************)

Safe == TypeOK /\ Roles /\ Wires /\ Stops

\* It holds at first.
LEMMA SafeInit == Init => Safe
<1>. SUFFICES ASSUME Init PROVE Safe
  OBVIOUS
<1>. USE CallsAssumption, BoundAssumption
<1>1. TypeOK
  <2>1. NoRecords \in Records /\ \A c \in Call : <<c, "fresh">> \in Session
    BY DEF NoRecords, Records, Session
  <2>2. <<>> \in Seq(Command) /\ <<>> \in Seq(Answer)
    OBVIOUS
  <2>3. /\ step \in [Call -> Step] /\ label \in [Call -> Label]
        /\ session \in [Call -> Session \cup {None}] /\ got \in [Call -> Records]
    BY <2>1 DEF Init, Step
  <2>4. inbox \in [Call -> Seq(Command)] /\ answers \in [Call -> Seq(Answer)]
    BY <2>2 DEF Init
  <2>5. cur \in [Call -> Session]
    BY <2>1 DEF Init
  <2>6. text \in [Session -> SUBSET Content]
    BY DEF Init
  <2>7. /\ cache \in Records /\ disk \in Records
        /\ loaded \in BOOLEAN /\ upset \in BOOLEAN
    BY <2>1 DEF Init
  <2>8. /\ tracked \in SUBSET Call /\ running \in SUBSET Call
        /\ refused \in SUBSET Call /\ unstopped \in SUBSET Prime
        /\ troubles \in 0..MaxTroubles /\ prompts \in 0..MaxPrompts
    BY DEF Init
  <2>. QED
    BY <2>3, <2>4, <2>5, <2>6, <2>7, <2>8 DEF TypeOK
<1>2. Roles
  BY DEF Init, Roles, Saving, Call
<1>3. Wires
  <2>1. \A p \in Prime : OwnSession(p)
    BY DEF Init, OwnSession, Call
  <2>2. \A w \in Warm : Wire(w)
    BY DEF Init, Wire, Unspawned, KnowsBaseline, SwitchFirst, SwitchAnswered, CloneAnswered,
           WarmInClone, Call
  <2>. QED
    BY <2>1, <2>2 DEF Wires
<1>4. Stops
  BY DEF Init, Stops, Asking, Ending, Saving, Call
<1>. QED
  BY <1>1, <1>2, <1>3, <1>4 DEF Safe

\* It holds always.
LEMMA SafeAlways == Spec => []Safe
<1>1. Safe /\ [Next]_vars => Safe'
  BY TypeStep, RolesStep, WiresStep, StopsStep DEF Safe
<1>. QED
  BY <1>1, SafeInit, PTL DEF Spec

\* Types, for every number of calls and every bound.
THEOREM TypeCorrect == Spec => []TypeOK
<1>1. Safe => TypeOK
  BY DEF Safe
<1>. QED
  BY <1>1, SafeAlways, PTL

\* A primed worker does not outlive the call that primed it.
THEOREM PrimedStopped == Spec => []NoPrimedLeak
<1>1. Safe => NoPrimedLeak
  <2>. SUFFICES ASSUME Safe, NEW p \in Prime, p \in tracked, p \notin unstopped,
                       step[p] \notin Asked \cup {"settling", "stop"}
                PROVE  p \notin running
    BY DEF NoPrimedLeak
  <2>1. step[p] \in Ending \cup {"failed"}
    BY CallsAssumption DEF Safe, TypeOK, Roles, Stops, Step, Ending, Saving, Done, Call
  <2>. QED
    BY <2>1 DEF Safe, Stops
<1>. QED
  BY <1>1, SafeAlways, PTL

\* A worker handed over as warm, with switch and clone granted, leaves every recorded file alone.
THEOREM BaselinesSpared == Spec => ClonesSpareBaselines
<1>. USE CallsAssumption
<1>. DEFINE Spares == \A p \in Prime : step[p] = "recorded" /\ text'[session[p]] # text[session[p]] =>
                        \E w \in Call : /\ cur[w] = session[p]
                                        /\ w \in Warm => step[w] # "warm" \/ w \in refused
                                        /\ w \in Prime => w \in unstopped
<1>1. Safe /\ [Next]_vars => [Spares]_vars
  <2>. SUFFICES ASSUME Safe, Next, NEW p \in Prime, step[p] = "recorded",
                       text'[session[p]] # text[session[p]]
                PROVE  \E w \in Call : /\ cur[w] = session[p]
                                       /\ w \in Warm => step[w] # "warm" \/ w \in refused
                                       /\ w \in Prime => w \in unstopped
    BY DEF vars
  <2>1. p \in Call /\ session[p] = <<p, "fresh">> /\ session[p] \in Session
    BY DEF Safe, Stops, Ending, Wires, OwnSession, Call, Session
  <2>2. PICK w \in Call : Work(w)
    BY DEF Next, Start, SpawnAnswered, SpawnFails, Hear, TimesOut, Load, ReadFile, LoadDone, Prompt, Die,
           StopAnswered, StopFails, Snapshot, OpenFile, WriteFile, Cut, Kill, workerVars
  <2>3. Obey(w, Head(inbox[w]))
    BY <2>2 DEF Work, Refuse
  <2>4. <<w, "clone">> # session[p]
    BY <2>1
  <2>5. cur[w] = session[p]
    BY <2>1, <2>3, <2>4 DEF Obey, Safe, TypeOK
  <2>6. w \in Warm => step[w] # "warm" \/ w \in refused
    BY <2>4, <2>5 DEF Safe, Wires, Wire, WarmInClone
  <2>7. w \in Prime => w = p
    BY <2>1, <2>5 DEF Safe, Wires, OwnSession
  <2>8. w \in Prime => w \in unstopped
    BY <2>2, <2>7 DEF Work, Safe, Stops, Ending
  <2>. QED
    BY <2>5, <2>6, <2>8
<1>. QED
  BY <1>1, SafeAlways, PTL DEF Spec, ClonesSpareBaselines

(***************************************************************************)
(* The records.                                                            *)
(***************************************************************************)

\* While uses of the file have not overlapped: one call writes at a time; what it is about to write,
\* what is in memory and, when nobody is at it, what is in the file hold every record; and a load that
\* is under way in a fresh process has read what the file still holds.
Kept ==
  /\ \A p, q \in Prime : step[p] \in Saving /\ step[q] \in Saving => p = q
  /\ \A p \in Prime : step[p] # "shared"
  /\ ~loaded => \A c \in Call : step[c] = "read" => got[c] = disk
  /\ \A p \in Prime : step[p] \in Saving \cup {"mkdir"} => HoldsRecord(cache, label[p])
  /\ \A p \in Prime : step[p] \in Saving => HoldsRecord(got[p], label[p])
  /\ \A p \in Prime : step[p] = "recorded" =>
       /\ loaded => HoldsRecord(cache, label[p])
       /\ \A q \in Prime : step[q] \in Saving => HoldsRecord(got[q], label[p])
       /\ (\A q \in Prime : step[q] # "opened") => HoldsRecord(disk, label[p])

Store ==
  /\ \A p \in Prime : step[p] \in Saving \cup {"mkdir"} => loaded
  /\ ~upset => Kept

\* HoldsRecord after the step.
StillHolds(r, l) == \E q \in Prime : label'[q] = l /\ session'[q] # None /\ r[l] = session'[q]

\* A record that is held stays held while the sessions it may name do not change.
LEMMA HeldStays ==
  ASSUME UNCHANGED label, \A q \in Prime : session[q] # None => session'[q] = session[q],
         NEW r, NEW l, HoldsRecord(r, l)
  PROVE  StillHolds(r, l)
BY DEF HoldsRecord, StillHolds

\* The next state is as Kept says if each of its parts is.
LEMMA KeptNext ==
  ASSUME \A p, q \in Prime : step'[p] \in Saving /\ step'[q] \in Saving => p = q,
         \A p \in Prime : step'[p] # "shared",
         ~loaded' => \A c \in Call : step'[c] = "read" => got'[c] = disk',
         \A p \in Prime : step'[p] \in Saving \cup {"mkdir"} => StillHolds(cache', label'[p]),
         \A p \in Prime : step'[p] \in Saving => StillHolds(got'[p], label'[p]),
         \A p \in Prime : step'[p] = "recorded" =>
           /\ loaded' => StillHolds(cache', label'[p])
           /\ \A q \in Prime : step'[q] \in Saving => StillHolds(got'[q], label'[p])
           /\ (\A q \in Prime : step'[q] # "opened") => StillHolds(disk', label'[p])
  PROVE  Kept'
BY DEF Kept, HoldsRecord, StillHolds

\* Steps that leave the records alone.
LEMMA StoreQuiet ==
  ASSUME Store, UNCHANGED <<got, cache, loaded, disk, upset, label>>,
         \A q \in Prime : session[q] # None => session'[q] = session[q],
         \A c \in Call : \/ step'[c] = step[c]
                         \/ /\ step'[c] \notin Saving \cup {"mkdir", "recorded", "read"}
                            /\ step[c] \notin Saving
  PROVE  Store'
<1>1. \A r, l : HoldsRecord(r, l) => StillHolds(r, l)
  BY HeldStays
<1>2. \A p \in Prime : p \in Call
  BY DEF Call
<1>3. Kept => Kept'
  <2>. SUFFICES ASSUME Kept PROVE Kept'
    OBVIOUS
  <2>1. /\ \A p, q \in Prime : step'[p] \in Saving /\ step'[q] \in Saving => p = q
        /\ \A p \in Prime : step'[p] # "shared"
        /\ ~loaded' => \A c \in Call : step'[c] = "read" => got'[c] = disk'
    BY <1>2 DEF Kept, Saving
  <2>2. \A p \in Prime : step'[p] \in Saving \cup {"mkdir"} => StillHolds(cache', label'[p])
    BY <1>1, <1>2 DEF Kept
  <2>3. \A p \in Prime : step'[p] \in Saving => StillHolds(got'[p], label'[p])
    BY <1>1, <1>2 DEF Kept
  <2>4. ASSUME NEW p \in Prime, step'[p] = "recorded"
        PROVE  /\ loaded' => StillHolds(cache', label'[p])
               /\ \A q \in Prime : step'[q] \in Saving => StillHolds(got'[q], label'[p])
               /\ (\A q \in Prime : step'[q] # "opened") => StillHolds(disk', label'[p])
    <3>1. step[p] = "recorded"
      BY <1>2, <2>4
    <3>2. (\A q \in Prime : step'[q] # "opened") => \A q \in Prime : step[q] # "opened"
      BY <1>2 DEF Saving
    <3>3. \A q \in Prime : step'[q] \in Saving => step[q] \in Saving
      BY <1>2
    <3>. QED
      BY <1>1, <3>1, <3>2, <3>3 DEF Kept
  <2>. QED
    BY <2>1, <2>2, <2>3, <2>4, KeptNext
<1>. QED
  BY <1>2, <1>3 DEF Store

\* Loading, from memory or from a first read, into a map nobody is writing.
LEMMA StoreLoaded ==
  ASSUME TypeOK, Roles, Stops, Store, NEW c \in Call, step[c] \in {"load", "read"},
         NEW r \in Records, Loaded(c, r), UNCHANGED <<label, disk>>, loaded' = TRUE,
         \A q \in Prime : q # c => got'[q] = got[q],
         ~upset' => ~upset /\ \/ r = cache /\ loaded
                              \/ r = disk /\ ~loaded
  PROVE  Store'
<1>. USE CallsAssumption
<1>1. \A q \in Prime : q \in Call /\ session'[q] = session[q]
  BY DEF Loaded, TypeOK, Call
<1>2. \A r1, l : HoldsRecord(r1, l) => StillHolds(r1, l)
  BY <1>1, HeldStays
<1>3. /\ \A d \in Call : d # c => step'[d] = step[d]
      /\ c \in Prime => step'[c] = "mkdir"
      /\ c \notin Prime => step'[c] \in {"failed", "spawn"}
  BY DEF Loaded, Goes, TypeOK
<1>4. c \notin Prime => cache' = r
  BY DEF Loaded
<1>5. c \in Prime => /\ cache'[label[c]] = session[c] /\ session[c] # None
                     /\ \A l \in Label : l # label[c] => cache'[l] = r[l]
  BY DEF Loaded, Records, Stops, Ending, TypeOK
<1>6. c \in Prime => StillHolds(cache', label[c])
  BY <1>1, <1>5 DEF StillHolds
<1>7. \A l \in Label : HoldsRecord(r, l) => StillHolds(cache', l)
  <2>. TAKE l \in Label
  <2>. HAVE HoldsRecord(r, l)
  <2>1. CASE c \in Prime /\ l = label[c]
    BY <1>6, <2>1
  <2>2. CASE c \in Prime /\ l # label[c]
    <3>1. StillHolds(r, l) /\ cache'[l] = r[l]
      BY <1>2, <1>5, <2>2
    <3>. QED
      BY <3>1 DEF StillHolds
  <2>3. CASE c \notin Prime
    BY <1>2, <1>4, <2>3
  <2>. QED
    BY <2>1, <2>2, <2>3
<1>8. \A q \in Prime : label[q] \in Label
  BY <1>1 DEF TypeOK
<1>9. ASSUME ~upset' PROVE Kept'
  <2>1. Kept /\ ~upset
    BY <1>9 DEF Store
  <2>2. \A q \in Prime : step[q] \in Saving => q # c
    BY DEF Saving
  <2>3. \A q \in Prime : step'[q] \in Saving => step[q] \in Saving /\ q # c /\ got'[q] = got[q]
    BY <1>1, <1>3 DEF Saving
  <2>4. \A q \in Prime : step'[q] = "recorded" => step[q] = "recorded"
    BY <1>1, <1>3
  <2>5. \A q \in Prime : step[q] = "recorded" => HoldsRecord(r, label[q])
    <3>1. CASE r = cache /\ loaded
      BY <2>1, <3>1 DEF Kept
    <3>2. CASE r = disk /\ ~loaded
      <4>1. \A q \in Prime : step[q] # "opened"
        BY <3>2 DEF Store, Saving
      <4>. QED
        BY <2>1, <3>2, <4>1 DEF Kept
    <3>. QED
      BY <1>9, <3>1, <3>2
  <2>6. \A q \in Prime : q # c /\ step[q] \in Saving \cup {"mkdir"} => HoldsRecord(r, label[q])
    BY <1>9, <2>1 DEF Kept, Store
  <2>7. \A p, q \in Prime : step'[p] \in Saving /\ step'[q] \in Saving => p = q
    BY <2>1, <2>3 DEF Kept
  <2>8. \A p \in Prime : step'[p] # "shared"
    BY <1>1, <1>3, <2>1 DEF Kept
  <2>9. \A p \in Prime : step'[p] \in Saving \cup {"mkdir"} => StillHolds(cache', label'[p])
    <3>. TAKE p \in Prime
    <3>. HAVE step'[p] \in Saving \cup {"mkdir"}
    <3>1. CASE p = c
      BY <1>6, <3>1
    <3>2. CASE p # c
      <4>1. step[p] \in Saving \cup {"mkdir"}
        BY <1>1, <1>3, <3>2
      <4>. QED
        BY <1>7, <1>8, <2>6, <3>2, <4>1
    <3>. QED
      BY <3>1, <3>2
  <2>10. \A p \in Prime : step'[p] \in Saving => StillHolds(got'[p], label'[p])
    <3>. TAKE p \in Prime
    <3>. HAVE step'[p] \in Saving
    <3>1. HoldsRecord(got[p], label[p])
      BY <2>1, <2>3 DEF Kept
    <3>. QED
      BY <1>2, <2>3, <3>1
  <2>11. ASSUME NEW p \in Prime, step'[p] = "recorded"
         PROVE  /\ loaded' => StillHolds(cache', label'[p])
                /\ \A q \in Prime : step'[q] \in Saving => StillHolds(got'[q], label'[p])
                /\ (\A q \in Prime : step'[q] # "opened") => StillHolds(disk', label'[p])
    <3>1. step[p] = "recorded"
      BY <2>4, <2>11
    <3>2. StillHolds(cache', label'[p])
      BY <1>7, <1>8, <2>5, <3>1
    <3>3. ASSUME NEW q \in Prime, step'[q] \in Saving PROVE StillHolds(got'[q], label'[p])
      <4>1. step[q] \in Saving /\ got'[q] = got[q]
        BY <2>3, <3>3
      <4>2. HoldsRecord(got[q], label[p])
        BY <2>1, <3>1, <4>1 DEF Kept
      <4>. QED
        BY <1>2, <4>1, <4>2
    <3>4. (\A q \in Prime : step'[q] # "opened") => StillHolds(disk', label'[p])
      <4>. HAVE \A q \in Prime : step'[q] # "opened"
      <4>1. \A q \in Prime : step[q] # "opened"
        BY <1>1, <1>3
      <4>2. HoldsRecord(disk, label[p])
        BY <2>1, <3>1, <4>1 DEF Kept
      <4>. QED
        BY <1>2, <4>2
    <3>. QED
      BY <3>2, <3>3, <3>4
  <2>. QED
    BY <2>7, <2>8, <2>9, <2>10, <2>11, KeptNext
<1>. QED
  BY <1>9 DEF Store

\* The three steps of a write.
LEMMA StoreWrites ==
  ASSUME TypeOK, Store, NEW p \in Prime, Snapshot(p) \/ OpenFile(p) \/ WriteFile(p)
  PROVE  Store'
<1>1. p \in Call /\ \A q \in Prime : q \in Call
  BY DEF Call
<1>2. UNCHANGED <<label, session, cache, loaded>> /\ loaded
  BY DEF Snapshot, OpenFile, WriteFile, Store, Saving
<1>3. \A r, l : HoldsRecord(r, l) => StillHolds(r, l)
  BY <1>2, HeldStays
<1>4. ASSUME Snapshot(p) PROVE Store'
  <2>1. /\ got' = [got EXCEPT ![p] = cache] /\ step[p] = "mkdir" /\ step' = [step EXCEPT ![p] = "snapped"]
        /\ UNCHANGED disk
    BY <1>4 DEF Snapshot, Goes
  <2>2. ASSUME ~upset' PROVE Kept'
    <3>1. ~upset /\ Kept /\ \A q \in Prime : step[q] \notin Saving
      BY <1>4, <2>2 DEF Snapshot, Store
    <3>2. /\ \A q \in Prime : step'[q] \in Saving => q = p
          /\ step'[p] = "snapped" /\ \A q \in Prime : q # p => step'[q] = step[q]
          /\ got'[p] = cache
      BY <1>1, <2>1, <3>1 DEF TypeOK
    <3>3. \A q \in Prime : step'[q] = "recorded" => step[q] = "recorded" /\ HoldsRecord(cache, label[q])
      BY <1>2, <3>1, <3>2 DEF Kept
    <3>4. HoldsRecord(cache, label[p])
      BY <2>1, <3>1 DEF Kept
    <3>5. \A q \in Prime : step'[q] \in Saving \cup {"mkdir"} => HoldsRecord(cache, label[q])
      BY <2>1, <3>1, <3>2, <3>4 DEF Kept
    <3>6. \A q \in Prime : step'[q] = "recorded" => HoldsRecord(disk, label[q])
      BY <3>1, <3>3 DEF Kept, Saving
    <3>7. \A q \in Prime : step'[q] # "shared"
      BY <3>1, <3>2 DEF Kept
    <3>. QED
      BY <1>2, <1>3, <2>1, <3>2, <3>3, <3>4, <3>5, <3>6, <3>7, KeptNext
  <2>. QED
    BY <1>2, <2>2 DEF Store
<1>5. ASSUME OpenFile(p) PROVE Store'
  <2>1. /\ step[p] = "snapped" /\ step' = [step EXCEPT ![p] = "opened"] /\ UNCHANGED <<got, upset>>
    BY <1>5 DEF OpenFile, Goes
  <2>2. ASSUME ~upset' PROVE Kept'
    <3>1. Kept
      BY <2>1, <2>2 DEF Store
    <3>2. step'[p] = "opened" /\ \A q \in Prime : q # p => step'[q] = step[q]
      BY <1>1, <2>1 DEF TypeOK
    <3>3. /\ \A q \in Prime : step'[q] \in Saving <=> step[q] \in Saving
          /\ \A q \in Prime : step'[q] = "recorded" => step[q] = "recorded"
          /\ \A q \in Prime : step'[q] # "shared"
          /\ \A q \in Prime : step'[q] = "mkdir" => step[q] = "mkdir"
      BY <2>1, <3>1, <3>2 DEF Kept, Saving
    <3>4. \A q \in Prime : step'[q] \in Saving \cup {"mkdir"} => StillHolds(cache', label'[q])
      BY <1>2, <1>3, <3>1, <3>3 DEF Kept
    <3>5. \A q \in Prime : step'[q] \in Saving => StillHolds(got'[q], label'[q])
      BY <1>2, <1>3, <2>1, <3>1, <3>3 DEF Kept
    <3>6. \A q \in Prime : step'[q] = "recorded" =>
            /\ StillHolds(cache', label'[q])
            /\ \A u \in Prime : step'[u] \in Saving => StillHolds(got'[u], label'[q])
      BY <1>2, <1>3, <2>1, <3>1, <3>3 DEF Kept
    <3>7. \A q, u \in Prime : step'[q] \in Saving /\ step'[u] \in Saving => q = u
      BY <3>1, <3>3 DEF Kept
    <3>. QED
      BY <1>2, <3>2, <3>3, <3>4, <3>5, <3>6, <3>7, KeptNext
  <2>. QED
    BY <1>2, <2>2 DEF Store
<1>6. ASSUME WriteFile(p) PROVE Store'
  <2>1. /\ step[p] \in {"opened", "shared"} /\ UNCHANGED upset
        /\ disk' \in {got[p]} \cup IF step[p] = "shared" THEN {NoRecords} ELSE {}
        /\ got' = [got EXCEPT ![p] = NoRecords]
    BY <1>6 DEF WriteFile
  <2>2. step'[p] = "recorded" /\ \A q \in Prime : q # p => step'[q] = IF step[q] = "opened" THEN "shared" ELSE step[q]
    BY <1>1, <1>6 DEF WriteFile
  <2>3. ASSUME ~upset' PROVE Kept'
    <3>1. Kept
      BY <2>1, <2>3 DEF Store
    <3>2. disk' = got[p] /\ step[p] \in Saving /\ \A q \in Prime : q # p => step[q] \notin Saving
      BY <2>1, <3>1 DEF Kept, Saving
    <3>3. /\ \A q \in Prime : step'[q] \notin Saving
          /\ \A q \in Prime : q # p => step'[q] = step[q]
      BY <2>2, <3>2 DEF Saving
    <3>4. \A q \in Prime : step'[q] = "recorded" => HoldsRecord(got[p], label[q])
      BY <2>2, <3>1, <3>2, <3>3 DEF Kept
    <3>5. \A q \in Prime : step'[q] \in {"recorded", "mkdir"} => HoldsRecord(cache, label[q])
      BY <1>2, <2>2, <3>1, <3>2, <3>3 DEF Kept
    <3>6. \A q \in Prime : step'[q] # "shared"
      BY <3>3 DEF Saving
    <3>. QED
      BY <1>2, <1>3, <3>2, <3>3, <3>4, <3>5, <3>6, KeptNext
  <2>. QED
    BY <1>2, <2>3 DEF Store
<1>. QED
  BY <1>4, <1>5, <1>6

\* Every step keeps the records.
LEMMA StoreStep ==
  ASSUME TypeOK, Roles, Stops, Store, [Next]_vars
  PROVE  Store'
<1>. USE CallsAssumption
<1>1. ASSUME NEW c \in Call, Start(c) \/ SpawnAnswered(c) \/ SpawnFails(c) \/ TimesOut(c) PROVE Store'
  <2>1. UNCHANGED <<got, cache, loaded, disk, upset, label, session>>
    BY <1>1 DEF Start, SpawnAnswered, SpawnFails, TimesOut, storeVars
  <2>2. \A d \in Call :
          \/ step'[d] = step[d]
          \/ /\ step'[d] \in {"spawn", "load", "settling", "switch", "failed", "stop"}
             /\ step[d] \in {"idle", "spawn", "settling"} \cup Asked
    BY <1>1 DEF Start, SpawnAnswered, SpawnFails, TimesOut, Throws, Goes, TypeOK
  <2>. QED
    BY <2>1, <2>2, StoreQuiet DEF Saving, Asked
<1>2. ASSUME NEW c \in Call, Hear(c) PROVE Store'
  <2>0. UNCHANGED <<got, cache, loaded, disk, upset, label>>
    BY <1>2 DEF Hear, storeVars
  <2>1. CASE EndsWait(c, Head(answers[c]))
    <3>1. Head(answers[c]) \in Answer
      BY <1>2, Taken DEF Hear, TypeOK
    <3>2. step[c] \in Asked \cup {"settling"} /\ Head(answers[c]).to = step[c]
      BY <2>1, <3>1 DEF EndsWait, Answer
    <3>3. step' = [step EXCEPT ![c] = After[step[c]]] /\ After[step[c]] \in Asked \cup {"stop", "warm"}
      BY <1>2, <2>1, <3>2, AfterType DEF Hear, Goes
    <3>4. session' = IF step[c] = "state" THEN [session EXCEPT ![c] = Head(answers[c]).file] ELSE session
      BY <1>2, <2>1, <3>2 DEF Hear
    <3>5. \A q \in Prime : session[q] # None => session'[q] = session[q]
      BY <3>4 DEF Stops, Asking, TypeOK, Call
    <3>6. \A d \in Call : \/ step'[d] = step[d]
                           \/ (step'[d] \in Asked \cup {"stop", "warm"} /\ step[d] \in Asked \cup {"settling"})
      <4>1. \A d \in Call : d # c => step'[d] = step[d]
        BY <3>3 DEF TypeOK
      <4>2. step'[c] \in Asked \cup {"stop", "warm"}
        BY <3>3 DEF TypeOK
      <4>. QED
        BY <3>2, <4>1, <4>2
    <3>. QED
      BY <2>0, <3>5, <3>6, StoreQuiet DEF Saving, Asked
  <2>2. CASE ~EndsWait(c, Head(answers[c]))
    <3>1. UNCHANGED <<step, session>>
      BY <1>2, <2>2 DEF Hear
    <3>. QED
      BY <2>0, <3>1, StoreQuiet
  <2>. QED
    BY <2>1, <2>2
<1>3. ASSUME NEW p \in Prime, StopAnswered(p) \/ StopFails(p) PROVE Store'
  <2>1. UNCHANGED <<got, cache, loaded, disk, upset, label, session>>
    BY <1>3 DEF StopAnswered, StopFails, storeVars
  <2>2. \A d \in Call : step'[d] = step[d] \/ (step'[d] \in {"failed", "load"} /\ step[d] = "stop")
    BY <1>3 DEF StopAnswered, StopFails, Goes, TypeOK, Call
  <2>. QED
    BY <2>1, <2>2, StoreQuiet DEF Saving
<1>4. ASSUME NEW c \in Call, Load(c) PROVE Store'
  <2>0. UNCHANGED <<got, loaded, disk, upset, label>> /\ step[c] = "load"
    BY <1>4 DEF Load
  <2>1. CASE loaded
    <3>1. cache \in Records /\ Loaded(c, cache)
      BY <1>4, <2>1 DEF Load, TypeOK
    <3>. QED
      BY <2>0, <2>1, <3>1, StoreLoaded DEF TypeOK
  <2>2. CASE ~loaded
    <3>1. UNCHANGED <<cache, session>> /\ step' = [step EXCEPT ![c] = "reading"]
      BY <1>4, <2>2 DEF Load, Goes
    <3>2. \A d \in Call : step'[d] = step[d] \/ (step'[d] = "reading" /\ step[d] = "load")
      BY <2>0, <3>1 DEF TypeOK
    <3>. QED
      BY <2>0, <3>1, <3>2, StoreQuiet DEF Saving
  <2>. QED
    BY <2>1, <2>2
<1>5. ASSUME NEW c \in Call, ReadFile(c) PROVE Store'
  <2>1. /\ UNCHANGED <<label, session, cache, loaded, disk, upset>>
        /\ got' = [got EXCEPT ![c] = disk] /\ step[c] = "reading" /\ step' = [step EXCEPT ![c] = "read"]
    BY <1>5 DEF ReadFile, Goes
  <2>2. \A d \in Call : d # c => step'[d] = step[d] /\ got'[d] = got[d]
    BY <2>1 DEF TypeOK
  <2>3. step'[c] = "read" /\ got'[c] = disk
    BY <2>1 DEF TypeOK
  <2>4. \A q \in Prime : q \in Call
    BY DEF Call
  <2>5. \A r, l : HoldsRecord(r, l) => StillHolds(r, l)
    BY <2>1, HeldStays
  <2>6. \A q \in Prime : step'[q] \in Saving => q # c /\ step[q] \in Saving /\ got'[q] = got[q]
    BY <2>2, <2>3, <2>4 DEF Saving
  <2>7. \A q \in Prime : step'[q] \in {"recorded", "mkdir", "opened"} => step'[q] = step[q]
    BY <2>2, <2>3, <2>4
  <2>8. \A q \in Prime : step[q] = "opened" => step'[q] = "opened"
    BY <2>1, <2>2, <2>4
  <2>9. ASSUME Kept PROVE Kept'
    <3>1. \A p, q \in Prime : step'[p] \in Saving /\ step'[q] \in Saving => p = q
      BY <2>6, <2>9 DEF Kept
    <3>2. \A p \in Prime : step'[p] # "shared"
      BY <2>2, <2>3, <2>4, <2>9 DEF Kept
    <3>3. ~loaded' => \A d \in Call : step'[d] = "read" => got'[d] = disk'
      BY <2>1, <2>2, <2>3, <2>9 DEF Kept
    <3>4. \A p \in Prime : step'[p] \in Saving \cup {"mkdir"} => StillHolds(cache', label'[p])
      BY <2>1, <2>5, <2>6, <2>7, <2>9 DEF Kept
    <3>5. \A p \in Prime : step'[p] \in Saving => StillHolds(got'[p], label'[p])
      BY <2>1, <2>5, <2>6, <2>9 DEF Kept
    <3>6. ASSUME NEW p \in Prime, step'[p] = "recorded"
          PROVE  /\ loaded' => StillHolds(cache', label'[p])
                 /\ \A q \in Prime : step'[q] \in Saving => StillHolds(got'[q], label'[p])
                 /\ (\A q \in Prime : step'[q] # "opened") => StillHolds(disk', label'[p])
      <4>1. step[p] = "recorded"
        BY <2>7, <3>6
      <4>. QED
        BY <2>1, <2>5, <2>6, <2>8, <2>9, <4>1 DEF Kept
    <3>. QED
      BY <3>1, <3>2, <3>3, <3>4, <3>5, <3>6, KeptNext
  <2>. QED
    BY <2>1, <2>2, <2>3, <2>4, <2>9 DEF Store, Saving
<1>6. ASSUME NEW c \in Call, LoadDone(c) PROVE Store'
  <2>1. /\ step[c] = "read" /\ Loaded(c, got[c]) /\ loaded' = TRUE /\ upset' = (upset \/ loaded)
        /\ UNCHANGED <<label, disk>> /\ got' = [got EXCEPT ![c] = NoRecords]
    BY <1>6 DEF LoadDone
  <2>2. got[c] \in Records /\ \A q \in Prime : q # c => got'[q] = got[q]
    BY <2>1 DEF TypeOK, Call
  <2>3. ~upset' => ~upset /\ ~loaded /\ got[c] = disk
    BY <2>1 DEF Store, Kept
  <2>. QED
    BY <2>1, <2>2, <2>3, StoreLoaded
<1>7. ASSUME NEW w \in Call, Work(w) \/ Prompt(w) \/ Die(w) PROVE Store'
  <2>1. UNCHANGED <<step, session, label, got, cache, loaded, disk, upset>>
    BY <1>7 DEF Work, Prompt, Die, callVars, storeVars
  <2>. QED
    BY <2>1, StoreQuiet
<1>8. CASE Cut
  <2>1. UNCHANGED <<step, session, label, got, cache, loaded, disk, upset>>
    BY <1>8 DEF Cut, callVars, storeVars
  <2>. QED
    BY <2>1, StoreQuiet
<1>9. CASE Kill
  <2>1. UNCHANGED <<label, session, disk>>
    BY <1>9 DEF Kill
  <2>2. \A d \in Call : step'[d] = IF step[d] \in Done \cup {"idle"} THEN step[d] ELSE "killed"
    BY <1>9 DEF Kill
  <2>3. \A q \in Prime : q \in Call /\ step'[q] \notin Saving \cup {"mkdir"}
    BY <2>2 DEF Saving, Done, Call
  <2>4. loaded' = FALSE
    BY <1>9 DEF Kill
  <2>5. \A r, l : HoldsRecord(r, l) => StillHolds(r, l)
    BY <2>1, HeldStays
  <2>6. ASSUME ~upset' PROVE Kept'
    <3>1. Kept /\ \A q \in Prime : step[q] # "opened"
      BY <1>9, <2>6 DEF Kill, Store
    <3>2. \A d \in Call : step'[d] # "read"
      BY <2>2 DEF Done
    <3>3. \A q \in Prime : step'[q] = "recorded" => StillHolds(disk', label'[q])
      BY <2>1, <2>2, <2>3, <2>5, <3>1 DEF Kept
    <3>4. \A q \in Prime : step'[q] # "shared"
      BY <2>3 DEF Saving
    <3>. QED
      BY <2>3, <2>4, <3>2, <3>3, <3>4, KeptNext
  <2>. QED
    BY <2>3, <2>6 DEF Store
<1>10. CASE UNCHANGED vars
  <2>1. UNCHANGED <<step, session, label, got, cache, loaded, disk, upset>>
    BY <1>10 DEF vars, callVars, storeVars
  <2>. QED
    BY <2>1, StoreQuiet
<1>. QED
  BY <1>1, <1>2, <1>3, <1>4, <1>5, <1>6, <1>7, <1>8, <1>9, <1>10, StoreWrites DEF Next

\* What saveBaseline has written stays written, over restarts, while uses of the file do not overlap.
THEOREM RecordsKept == Spec => []RecordKept
<1>1. Init => Store
  <2>. SUFFICES ASSUME Init PROVE Store
    OBVIOUS
  <2>1. \A c \in Call : step[c] = "idle"
    BY DEF Init
  <2>2. \A p \in Prime : step[p] = "idle"
    BY <2>1 DEF Call
  <2>. QED
    BY <2>1, <2>2 DEF Store, Kept, Saving
<1>2. Safe /\ Store /\ [Next]_vars => Store'
  BY StoreStep DEF Safe
<1>3. Store => RecordKept
  BY DEF Store, Kept, RecordKept, Saving
<1>. QED
  BY <1>1, <1>2, <1>3, SafeAlways, PTL DEF Spec

(***************************************************************************)
(* What a recorded session holds.                                          *)
(***************************************************************************)

Fresh(p) == <<p, "fresh">>

\* What carrying out each command, or the prompt that primes, leaves in the session.
Effect == [settling |-> "primed", compact |-> "compacted", name |-> "named"]

\* An answer that grants a request comes after its effect, and each step after the answers
\* before it; a session is known once all three have been granted.
Earned(p) ==
  /\ \A i \in DOMAIN answers[p] :
       answers[p][i].ok /\ answers[p][i].to \in DOMAIN Effect
         => Effect[answers[p][i].to] \in text[Fresh(p)]
  /\ step[p] \in {"compact", "name", "state"} => "primed" \in text[Fresh(p)]
  /\ step[p] \in {"name", "state"} => "compacted" \in text[Fresh(p)]
  /\ step[p] = "state" => "named" \in text[Fresh(p)]
  /\ session[p] # None => {"primed", "compacted", "named"} \subseteq text[Fresh(p)]

\* Unless a worker refused something or was prompted by somebody else.
EarnedInv == \A p \in Prime : p \in refused \/ "work" \in text[Fresh(p)] \/ Earned(p)

\* What is earned stays, while nothing new is answered and no step taken that needs more.
LEMMA EarnedStays ==
  ASSUME NEW p \in Prime, p \in refused \/ "work" \in text[Fresh(p)] \/ Earned(p),
         answers'[p] = answers[p] \/ answers'[p] = <<>>,
         step'[p] = step[p] \/ step'[p] \notin {"compact", "name", "state"},
         session'[p] = session[p],
         refused \subseteq refused',
         text[Fresh(p)] \subseteq text'[Fresh(p)]
  PROVE  p \in refused' \/ "work" \in text'[Fresh(p)] \/ Earned(p)'
BY DEF Earned, Fresh

\* A session that was primed only grows: a clone is written to a file of its own.
LEMMA TextGrows ==
  ASSUME TypeOK, [Next]_vars, NEW p \in Prime
  PROVE  text[Fresh(p)] \subseteq text'[Fresh(p)]
<1>1. CASE UNCHANGED text
  BY <1>1
<1>2. ASSUME NEW w \in Call, Obey(w, Head(inbox[w]))
      PROVE  text[Fresh(p)] \subseteq text'[Fresh(p)]
  <2>1. \/ UNCHANGED text
        \/ \E x : text' = [text EXCEPT ![<<w, "clone">>] = x]
        \/ \E x : text' = [text EXCEPT ![cur[w]] = @ \cup {x}]
    BY <1>2 DEF Obey
  <2>2. <<w, "clone">> # Fresh(p)
    BY DEF Fresh
  <2>3. text \in [Session -> SUBSET Content] /\ Fresh(p) \in Session
    BY DEF TypeOK, Fresh, Session, Call
  <2>. HIDE DEF Fresh
  <2>4. ASSUME NEW x, text' = [text EXCEPT ![<<w, "clone">>] = x]
        PROVE  text'[Fresh(p)] = text[Fresh(p)]
    BY <2>2, <2>3, <2>4
  <2>5. ASSUME NEW x, text' = [text EXCEPT ![cur[w]] = @ \cup {x}]
        PROVE  text[Fresh(p)] \subseteq text'[Fresh(p)]
    <3>1. CASE cur[w] = Fresh(p)
      BY <2>3, <2>5, <3>1
    <3>2. CASE cur[w] # Fresh(p)
      BY <2>3, <2>5, <3>2
    <3>. QED
      BY <3>1, <3>2
  <2>. QED
    BY <2>1, <2>4, <2>5
<1>3. UNCHANGED text \/ \E w \in Call : Obey(w, Head(inbox[w]))
  BY DEF Next, Start, SpawnAnswered, SpawnFails, Hear, TimesOut, Load, ReadFile, LoadDone, Work, Refuse, Prompt,
         Die, StopAnswered, StopFails, Snapshot, OpenFile, WriteFile, Cut, Kill, workerVars, vars
<1>. QED
  BY <1>1, <1>2, <1>3

\* A command that is carried out has had its effect when it is answered; a settle was that
\* of the prompt that primes, or somebody's work is in the session.
LEMMA EarnedWork ==
  ASSUME TypeOK, TypeOK', Wires, EarnedInv, NEW p \in Prime, Work(p)
  PROVE  p \in refused' \/ "work" \in text'[Fresh(p)] \/ Earned(p)'
<1>. DEFINE command == Head(inbox[p])
<1>1. p \in Call /\ command \in Command /\ command \notin {"switch", "clone"} /\ cur[p] = Fresh(p)
  <2>1. p \in Call
    BY DEF Call
  <2>2. command \in Command /\ 1 \in DOMAIN inbox[p] /\ command = inbox[p][1]
    BY <2>1, Taken DEF Work, TypeOK
  <2>. QED
    BY <2>1, <2>2 DEF Wires, OwnSession, Fresh
<1>2. text[Fresh(p)] \subseteq text'[Fresh(p)]
  BY TextGrows DEF Next, Call
<1>3. UNCHANGED <<step, session, refused>>
  BY DEF Work, callVars, histVars
<1>. SUFFICES ASSUME p \notin refused, "work" \notin text'[Fresh(p)]
              PROVE  Earned(p)'
  BY <1>3
<1>4. Earned(p)
  BY <1>2 DEF EarnedInv
<1>5. PICK x \in Answer :
        /\ answers'[p] = Append(answers[p], x)
        /\ x.ok /\ x.to \in DOMAIN Effect => Effect[x.to] \in text'[Fresh(p)]
  <2>1. CASE Obey(p, command)
    <3>. DEFINE x == [to   |-> IF command \in Asked THEN command ELSE "settling",
                      ok   |-> TRUE,
                      file |-> IF command = "state" THEN cur[p] ELSE None]
    <3>1. x \in Answer
      BY <1>1 DEF Answer, TypeOK
    <3>2. answers'[p] = Append(answers[p], x)
      BY <1>1, <2>1 DEF Obey, TypeOK
    <3>3. Fresh(p) \in Session
      BY <1>1 DEF Fresh, Session
    <3>4. /\ command = "prime" => "primed" \in text'[Fresh(p)]
          /\ command = "compact" => "compacted" \in text'[Fresh(p)]
          /\ command = "name" => "named" \in text'[Fresh(p)]
          /\ command # "work"
      BY <1>1, <2>1, <3>3 DEF Obey, Command, Asked, TypeOK
    <3>5. x.to \in DOMAIN Effect => Effect[x.to] \in text'[Fresh(p)]
      BY <1>1, <3>4 DEF Effect, Command, Asked
    <3>. HIDE DEF x
    <3>. QED
      BY <3>1, <3>2, <3>5
  <2>2. CASE Refuse(p, command)
    <3>. DEFINE x == [to |-> command, ok |-> FALSE, file |-> None]
    <3>1. x \in Answer
      BY <1>1, <2>2 DEF Answer, Refuse
    <3>2. answers'[p] = Append(answers[p], x)
      BY <1>1, <2>2 DEF Refuse, TypeOK
    <3>. QED
      BY <3>1, <3>2
  <2>. QED
    BY <2>1, <2>2 DEF Work
<1>6. /\ DOMAIN answers'[p] = DOMAIN answers[p] \cup {Len(answers[p]) + 1}
      /\ \A i \in DOMAIN answers[p] : answers'[p][i] = answers[p][i]
      /\ answers'[p][Len(answers[p]) + 1] = x
  BY <1>1, <1>5, Appended DEF TypeOK
<1>. QED
  BY <1>2, <1>3, <1>4, <1>5, <1>6 DEF Earned, Fresh

\* Each step follows the answer to the one before, and the session comes last.
LEMMA EarnedHear ==
  ASSUME TypeOK, Roles, Wires, EarnedInv, NEW p \in Prime, Hear(p)
  PROVE  p \in refused' \/ "work" \in text'[Fresh(p)] \/ Earned(p)'
<1>. USE CallsAssumption
<1>. DEFINE a == Head(answers[p])
<1>1. p \in Call /\ answers[p] # <<>> /\ answers[p] \in Seq(Answer)
  BY DEF Hear, TypeOK, Call
<1>2. /\ a \in Answer /\ 1 \in DOMAIN answers[p] /\ a = answers[p][1]
      /\ \A i \in DOMAIN Tail(answers[p]) :
           i + 1 \in DOMAIN answers[p] /\ Tail(answers[p])[i] = answers[p][i + 1]
  BY <1>1, Taken
<1>3. answers'[p] = Tail(answers[p]) /\ UNCHANGED text
  BY <1>1 DEF Hear, TypeOK, workerVars
<1>4. refused \subseteq refused' /\ (EndsWait(p, a) /\ ~a.ok => p \in refused')
  BY DEF Hear
<1>. SUFFICES ASSUME p \notin refused', "work" \notin text[Fresh(p)]
              PROVE  Earned(p)'
  BY <1>3
<1>5. Earned(p)
  BY <1>4 DEF EarnedInv
<1>6. \A i \in DOMAIN answers'[p] :
        answers'[p][i].ok /\ answers'[p][i].to \in DOMAIN Effect
          => Effect[answers'[p][i].to] \in text[Fresh(p)]
  BY <1>2, <1>3, <1>5 DEF Earned
<1>. HIDE DEF a
<1>7. CASE ~EndsWait(p, a)
  <2>1. UNCHANGED <<step, session>>
    BY <1>7 DEF Hear, a
  <2>. QED
    BY <1>3, <1>5, <1>6, <2>1 DEF Earned, Fresh
<1>8. CASE EndsWait(p, a)
  <2>1. a.to = step[p] /\ a.ok /\ step[p] \in {"settling", "compact", "name", "state"}
    BY <1>1, <1>2, <1>4, <1>8 DEF EndsWait, Answer, Asked, Roles
  <2>2. step'[p] = After[step[p]]
    BY <1>1, <1>8 DEF Hear, Goes, TypeOK, a
  <2>3. session'[p] = IF step[p] = "state" THEN a.file ELSE session[p]
    BY <1>1, <1>8, <2>1 DEF Hear, TypeOK, a
  <2>4. a.to \in DOMAIN Effect => Effect[a.to] \in text[Fresh(p)]
    BY <1>2, <1>5, <2>1 DEF Earned
  <2>5. CASE step[p] = "settling"
    <3>1. step'[p] = "compact" /\ "primed" \in text[Fresh(p)] /\ session'[p] = session[p]
      BY <2>1, <2>2, <2>3, <2>4, <2>5 DEF After, Effect
    <3>. QED
      BY <1>3, <1>5, <1>6, <3>1 DEF Earned, Fresh
  <2>6. CASE step[p] = "compact"
    <3>1. step'[p] = "name" /\ "compacted" \in text[Fresh(p)] /\ session'[p] = session[p]
      BY <2>1, <2>2, <2>3, <2>4, <2>6 DEF After, Effect
    <3>. QED
      BY <1>3, <1>5, <1>6, <2>6, <3>1 DEF Earned, Fresh
  <2>7. CASE step[p] = "name"
    <3>1. step'[p] = "state" /\ "named" \in text[Fresh(p)] /\ session'[p] = session[p]
      BY <2>1, <2>2, <2>3, <2>4, <2>7 DEF After, Effect
    <3>. QED
      BY <1>3, <1>5, <1>6, <2>7, <3>1 DEF Earned, Fresh
  <2>8. CASE step[p] = "state"
    <3>1. step'[p] = "stop" /\ {"primed", "compacted", "named"} \subseteq text[Fresh(p)]
      BY <1>5, <2>2, <2>8 DEF After, Earned
    <3>. QED
      BY <1>3, <1>6, <3>1 DEF Earned, Fresh
  <2>. QED
    BY <2>1, <2>5, <2>6, <2>7, <2>8
<1>. QED
  BY <1>7, <1>8

\* Every step keeps it: the others answer nothing and send a call to no request.
LEMMA EarnedStep ==
  ASSUME Safe, TypeOK', EarnedInv, [Next]_vars
  PROVE  EarnedInv'
<1>. USE CallsAssumption
<1>. SUFFICES ASSUME NEW p \in Prime, ~Hear(p), ~Work(p)
              PROVE  p \in refused' \/ "work" \in text'[Fresh(p)] \/ Earned(p)'
  BY EarnedHear, EarnedWork DEF Safe, EarnedInv, Fresh
<1>0. p \in Call /\ text[Fresh(p)] \subseteq text'[Fresh(p)] /\ TypeOK
  BY TextGrows DEF Safe, Call
<1>1. refused \subseteq refused'
  BY DEF Next, Start, SpawnAnswered, SpawnFails, Hear, TimesOut, Load, ReadFile, LoadDone, Work, Prompt, Die,
         StopAnswered, StopFails, Snapshot, OpenFile, WriteFile, Cut, Kill, histVars, vars
<1>2. answers'[p] = answers[p] \/ answers'[p] = <<>>
  <2>1. ASSUME NEW c \in Call, Hear(c) \/ Work(c)
        PROVE  answers'[p] = answers[p]
    BY <1>0, <2>1, ZenonT(60) DEF Hear, Work, Obey, Refuse, TypeOK
  <2>2. ASSUME ~\E c \in Call : Hear(c) \/ Work(c)
        PROVE  answers'[p] = answers[p] \/ answers'[p] = <<>>
    BY <1>0, <2>2, ZenonT(60) DEF Next, Start, SpawnAnswered, SpawnFails, TimesOut, Load, ReadFile, LoadDone, Prompt, Die,
         StopAnswered, StopFails, Snapshot, OpenFile, WriteFile, Cut, Kill, Broken, wireVars, vars, TypeOK
  <2>. QED
    BY <2>1, <2>2
<1>3. session'[p] = session[p]
  <2>1. ASSUME NEW c \in Call, Hear(c)
        PROVE  session'[p] = session[p]
    BY <1>0, <2>1, ZenonT(60) DEF Hear, TypeOK
  <2>2. ASSUME NEW c \in Call, Load(c) \/ LoadDone(c)
        PROVE  session'[p] = session[p]
    <3>1. UNCHANGED session \/ \E x : session' = [session EXCEPT ![c] = x] /\ c \notin Prime
      BY <2>2 DEF Load, LoadDone, Loaded
    <3>. QED
      BY <1>0, <3>1 DEF TypeOK
  <2>. QED
    BY <2>1, <2>2 DEF Next, Start, SpawnAnswered, SpawnFails, TimesOut, ReadFile, Work, Prompt, Die,
         StopAnswered, StopFails, Snapshot, OpenFile, WriteFile, Cut, Kill, callVars, vars
<1>4. step'[p] = step[p] \/ step'[p] \notin {"compact", "name", "state"}
  <2>1. ASSUME NEW c \in Call, NEW next, Goes(c, next), c = p => next \notin {"compact", "name", "state"}
        PROVE  step'[p] = step[p] \/ step'[p] \notin {"compact", "name", "state"}
    BY <1>0, <2>1 DEF Goes, TypeOK
  <2>2. ASSUME NEW c \in Call, Start(c) \/ SpawnAnswered(c) \/ SpawnFails(c) \/ TimesOut(c) \/ ReadFile(c)
        PROVE  step'[p] = step[p] \/ step'[p] \notin {"compact", "name", "state"}
    BY <2>1, <2>2 DEF Start, SpawnAnswered, SpawnFails, TimesOut, Throws, ReadFile
  <2>3. ASSUME NEW c \in Call, Load(c) \/ LoadDone(c)
        PROVE  step'[p] = step[p] \/ step'[p] \notin {"compact", "name", "state"}
    BY <2>1, <2>3 DEF Load, LoadDone, Loaded
  <2>4. ASSUME NEW q \in Prime, StopAnswered(q) \/ StopFails(q) \/ Snapshot(q) \/ OpenFile(q)
        PROVE  step'[p] = step[p] \/ step'[p] \notin {"compact", "name", "state"}
    BY <2>1, <2>4 DEF StopAnswered, StopFails, Snapshot, OpenFile, Call
  <2>5. ASSUME NEW c \in Call, Hear(c)
        PROVE  step'[p] = step[p]
    BY <1>0, <2>5, ZenonT(60) DEF Hear, Goes, TypeOK
  <2>6. ASSUME NEW q \in Prime, WriteFile(q)
        PROVE  step'[p] = step[p] \/ step'[p] \notin {"compact", "name", "state"}
    BY <1>0, <2>6 DEF WriteFile
  <2>7. CASE Kill
    BY <1>0, <2>7 DEF Kill
  <2>. QED
    BY <2>2, <2>3, <2>4, <2>5, <2>6, <2>7 DEF Next, Work, Prompt, Die, Cut, callVars, vars
<1>. QED
  BY <1>0, <1>1, <1>2, <1>3, <1>4, EarnedStays DEF EarnedInv

\* What remote_baseline records has been primed, compacted and named, however answers, timers
\* and breaks fell: no step is taken before the answer to the one before, and a late answer
\* or settle ends no other wait.
THEOREM RecordedPrimed == Spec => []RecordedIsPrimed
<1>1. Init => EarnedInv
  BY DEF Init, EarnedInv, Earned, Call
<1>2. Safe /\ Safe' /\ EarnedInv /\ [Next]_vars => EarnedInv'
  BY EarnedStep DEF Safe
<1>3. Safe /\ EarnedInv => RecordedIsPrimed
  <2>. SUFFICES ASSUME Safe, EarnedInv, NEW p \in Prime, p \notin refused,
                       step[p] = "recorded", "work" \notin text[session[p]]
                PROVE  {"primed", "compacted", "named"} \subseteq text[session[p]]
    BY DEF RecordedIsPrimed
  <2>1. session[p] # None /\ session[p] = Fresh(p)
    BY DEF Safe, Stops, Ending, Wires, OwnSession, Fresh
  <2>. QED
    BY <2>1 DEF EarnedInv, Earned
<1>. QED
  BY <1>1, <1>2, <1>3, SafeAlways, PTL DEF Spec
=============================================================================
