------------------------------ MODULE WarmStart ------------------------------
(***************************************************************************)
(* Baselines and the workers that start from them: the tools               *)
(* remote_baseline and remote_spawn of src/src/index.ts, the bridge's      *)
(* spawnWorker, and below them rpcRequest, loadBaselines and saveBaseline  *)
(* of src/src/server/fleet.ts.                                             *)
(*                                                                         *)
(* remote_baseline spawns a worker, primes it, has the session compacted   *)
(* and named, asks for its file, stops the worker and records the file     *)
(* under a label.  A spawn from a baseline makes a fresh worker switch to  *)
(* the recorded file and clone it.  Every request waits for the answer     *)
(* with its id or for a timer; the worker may refuse it; the connection    *)
(* may break; the orchestrator may be killed and started again.  A call    *)
(* spawns one worker at most, so the call also names its worker.           *)
(***************************************************************************)
EXTENDS Naturals, Sequences

CONSTANTS Prime,        \* calls of remote_baseline
          Warm,         \* calls that spawn from a baseline
          Label,        \* names of baselines
          MaxTroubles,  \* bound: refusals, failures, breaks, kills
          MaxPrompts,   \* bound: prompts sent by other calls
          None

ASSUME CallsAssumption == Prime \cap Warm = {} /\ None \notin Label
ASSUME BoundAssumption == MaxTroubles \in Nat /\ MaxPrompts \in Nat

Call == Prime \cup Warm
Session == Call \X {"fresh", "clone"}
Content == {"primed", "compacted", "named", "work"}
Records == [Label -> Session \cup {None}]
NoRecords == [l \in Label |-> None]

(* What a call asks its worker, in the order it asks.                      *)
Asked == {"compact", "name", "state", "switch", "clone"}
Saving == {"snapped", "opened", "shared"}
Done == {"recorded", "warm", "failed", "killed"}
Step == {"idle", "spawn", "settling", "stop", "load", "reading", "read", "mkdir"}
          \cup Asked \cup Saving \cup Done

VARIABLES
  step,      \* where each call is; in Asked it has an entry in rpcWaiters
  label,     \* the label each call was given
  session,   \* the session file a call is to record, or to start from
  got,       \* what a call read from baselines.json, or is about to write to it
  cache,     \* FleetManager.baselines
  loaded,    \* FleetManager.baselinesLoaded
  disk,      \* baselines.json, read as loadBaselines reads it
  tracked,   \* the workers in FleetManager.instances
  running,   \* the workers that run
  inbox,     \* commands on their way to each worker
  answers,   \* events on their way back
  cur,       \* the session file each worker writes
  text,      \* what each session file holds
  refused,   \* history: the calls a worker refused something
  unstopped, \* history: the calls whose stop failed
  upset,     \* history: uses of baselines.json overlapped, or a kill cut one
  troubles, prompts

callVars == <<step, label, session>>
storeVars == <<got, cache, loaded, disk, upset>>
workerVars == <<running, cur, text>>
wireVars == <<inbox, answers>>
histVars == <<refused, unstopped>>
vars == <<callVars, storeVars, workerVars, wireVars, histVars, tracked, troubles, prompts>>

Command == Asked \cup {"prime", "work"}
Answer == [to : Asked \cup {"settling"}, ok : BOOLEAN, file : Session \cup {None}]

TypeOK ==
  /\ step \in [Call -> Step]
  /\ label \in [Call -> Label]
  /\ session \in [Call -> Session \cup {None}]
  /\ got \in [Call -> Records]
  /\ cache \in Records
  /\ loaded \in BOOLEAN
  /\ disk \in Records
  /\ tracked \in SUBSET Call
  /\ running \in SUBSET Call
  /\ inbox \in [Call -> Seq(Command)]
  /\ answers \in [Call -> Seq(Answer)]
  /\ cur \in [Call -> Session]
  /\ text \in [Session -> SUBSET Content]
  /\ refused \in SUBSET Call
  /\ unstopped \in SUBSET Prime
  /\ upset \in BOOLEAN
  /\ troubles \in 0..MaxTroubles
  /\ prompts \in 0..MaxPrompts

Init ==
  /\ step = [c \in Call |-> "idle"]
  /\ label \in [Call -> Label]
  /\ session = [c \in Call |-> None]
  /\ got = [c \in Call |-> NoRecords]
  /\ cache = NoRecords
  /\ loaded = FALSE
  /\ disk = NoRecords
  /\ tracked = {}
  /\ running = {}
  /\ inbox = [c \in Call |-> <<>>]
  /\ answers = [c \in Call |-> <<>>]
  /\ cur = [c \in Call |-> <<c, "fresh">>]
  /\ text = [s \in Session |-> {}]
  /\ refused = {}
  /\ unstopped = {}
  /\ upset = FALSE
  /\ troubles = 0
  /\ prompts = 0

Trouble == troubles < MaxTroubles /\ troubles' = troubles + 1
Goes(c, next) == step' = [step EXCEPT ![c] = next]

(* Mutant: without the finally, a thrown error ends the call.              *)
ThrowsPastStop(c) == Goes(c, "failed")

(* What a thrown error leads to: remote_baseline's finally, or the end.    *)
Throws(c) == Goes(c, IF c \in Prime THEN "stop" ELSE "failed")

-----------------------------------------------------------------------------
(* Calls.  A call that is answered writes its next command at once: the    *)
(* connection it has just heard from is the one agent() returns.           *)

Start(c) ==
  /\ step[c] = "idle"
  /\ Goes(c, IF c \in Prime THEN "spawn" ELSE "load")
  /\ UNCHANGED <<label, session, storeVars, workerVars, wireVars, histVars, tracked, troubles, prompts>>

SpawnAnswered(c) ==
  /\ step[c] = "spawn"
  /\ running' = running \cup {c}
  /\ tracked' = tracked \cup {c}
  /\ Goes(c, IF c \in Prime THEN "settling" ELSE "switch")
  /\ inbox' = [inbox EXCEPT ![c] = <<IF c \in Prime THEN "prime" ELSE "switch">>]
  /\ UNCHANGED <<label, session, storeVars, cur, text, answers, histVars, troubles, prompts>>

(* No agent, a refusal, or an answer that is lost after the worker started. *)
SpawnFails(c) ==
  /\ step[c] = "spawn"
  /\ Trouble
  /\ running' \in {running, running \cup {c}}
  /\ Goes(c, "failed")
  /\ UNCHANGED <<label, session, storeVars, cur, text, wireVars, histVars, tracked, prompts>>

(* The timer of rpcRequest or of waitSettled, or the user's abort.         *)
TimesOut(c) ==
  /\ step[c] \in Asked \cup {"settling"}
  /\ Throws(c)
  /\ UNCHANGED <<label, session, storeVars, workerVars, wireVars, histVars, tracked, troubles, prompts>>

(* Mutant: the session is not compacted before it is named.                *)
AfterUncompacted ==
  [settling |-> "name", compact |-> "name", name |-> "state", state |-> "stop",
   switch |-> "clone", clone |-> "warm"]

(* Mutant: a worker is attached to the baseline and never told to clone.   *)
AfterAttached ==
  [settling |-> "compact", compact |-> "name", name |-> "state", state |-> "stop",
   switch |-> "warm", clone |-> "warm"]

(* What follows an event; only remote_model looks at an answer's "success". *)
After ==
  [settling |-> "compact", compact |-> "name", name |-> "state", state |-> "stop",
   switch |-> "clone", clone |-> "warm"]

(* The event ends the wait of the call: it carries the id of its request,  *)
(* or it is a settle and the call waits for one.                           *)
EndsWait(c, a) == a.to = step[c]

(* handleEvent: the entry of rpcWaiters, or the settle waiters; an event   *)
(* that nobody waits for is only kept.                                     *)
Hear(c) ==
  LET a == Head(answers[c])
      next == After[step[c]] IN
  /\ answers[c] # <<>>
  /\ answers' = [answers EXCEPT ![c] = Tail(@)]
  /\ IF EndsWait(c, a)
       THEN /\ Goes(c, next)
            /\ inbox' = IF next \in Asked THEN [inbox EXCEPT ![c] = Append(@, next)] ELSE inbox
            /\ session' = IF a.to = "state" THEN [session EXCEPT ![c] = a.file] ELSE session
            /\ refused' = IF a.ok THEN refused ELSE refused \cup {c}
       ELSE UNCHANGED <<step, inbox, session, refused>>
  /\ UNCHANGED <<label, storeVars, workerVars, unstopped, tracked, troubles, prompts>>

(* The finally block: the worker is stopped, an error of that is dropped.  *)
(* What the worker still said came before the answer, for nobody.          *)
StopAnswered(p) ==
  /\ step[p] = "stop"
  /\ running' = running \ {p}
  /\ inbox' = [inbox EXCEPT ![p] = <<>>]
  /\ answers' = [answers EXCEPT ![p] = <<>>]
  /\ Goes(p, IF session[p] = None THEN "failed" ELSE "load")
  /\ UNCHANGED <<label, session, storeVars, cur, text, histVars, tracked, troubles, prompts>>

StopFails(p) ==
  /\ step[p] = "stop"
  /\ Trouble
  /\ running' \in {running, running \ {p}}
  /\ unstopped' = unstopped \cup {p}
  /\ Goes(p, IF session[p] = None THEN "failed" ELSE "load")
  /\ UNCHANGED <<label, session, storeVars, cur, text, wireVars, refused, tracked, prompts>>

-----------------------------------------------------------------------------
(* The records.                                                            *)

(* What follows loadBaselines when it gives r: remote_spawn looks its label *)
(* up, saveBaseline sets its own in the map.                               *)
Loaded(c, r) ==
  IF c \in Prime
    THEN /\ cache' = [r EXCEPT ![label[c]] = session[c]]
         /\ Goes(c, "mkdir")
         /\ UNCHANGED session
    ELSE /\ cache' = r
         /\ session' = [session EXCEPT ![c] = r[label[c]]]
         /\ Goes(c, IF r[label[c]] = None THEN "failed" ELSE "spawn")

(* Mutant: saveBaseline does not load before it sets.                      *)
LoadOnlyToSpawn(c) ==
  /\ step[c] = "load"
  /\ IF loaded \/ c \in Prime THEN Loaded(c, cache)
                              ELSE Goes(c, "reading") /\ UNCHANGED <<cache, session>>
  /\ UNCHANGED <<label, got, loaded, disk, upset, workerVars, wireVars, histVars, tracked, troubles, prompts>>

Load(c) ==
  /\ step[c] = "load"
  /\ IF loaded THEN Loaded(c, cache)
               ELSE Goes(c, "reading") /\ UNCHANGED <<cache, session>>
  /\ UNCHANGED <<label, got, loaded, disk, upset, workerVars, wireVars, histVars, tracked, troubles, prompts>>

ReadFile(c) ==
  /\ step[c] = "reading"
  /\ got' = [got EXCEPT ![c] = disk]
  /\ Goes(c, "read")
  /\ UNCHANGED <<label, session, cache, loaded, disk, upset, workerVars, wireVars, histVars, tracked, troubles, prompts>>

LoadDone(c) ==
  /\ step[c] = "read"
  /\ Loaded(c, got[c])
  /\ loaded' = TRUE
  /\ upset' = (upset \/ loaded)
  /\ got' = [got EXCEPT ![c] = NoRecords]
  /\ UNCHANGED <<label, disk, workerVars, wireVars, histVars, tracked, troubles, prompts>>

(* The argument of writeFile is the map of this moment.                    *)
Snapshot(p) ==
  /\ step[p] = "mkdir"
  /\ got' = [got EXCEPT ![p] = cache]
  /\ Goes(p, "snapped")
  /\ upset' = (upset \/ \E q \in Prime : step[q] \in Saving)
  /\ UNCHANGED <<label, session, cache, loaded, disk, workerVars, wireVars, histVars, tracked, troubles, prompts>>

(* writeFile truncates; what is not JSON reads as no records.              *)
OpenFile(p) ==
  /\ step[p] = "snapped"
  /\ disk' = NoRecords
  /\ Goes(p, "opened")
  /\ UNCHANGED <<label, session, got, cache, loaded, upset, workerVars, wireVars, histVars, tracked, troubles, prompts>>

(* Written over a longer text, the text is no JSON any more.               *)
WriteFile(p) ==
  /\ step[p] \in {"opened", "shared"}
  /\ disk' \in {got[p]} \cup IF step[p] = "shared" THEN {NoRecords} ELSE {}
  /\ got' = [got EXCEPT ![p] = NoRecords]
  /\ step' = [c \in Call |-> CASE c = p -> "recorded"
                               [] c # p /\ step[c] = "opened" -> "shared"
                               [] OTHER -> step[c]]
  /\ UNCHANGED <<label, session, cache, loaded, upset, workerVars, wireVars, histVars, tracked, troubles, prompts>>

-----------------------------------------------------------------------------
(* Workers and their connection (external), and the end of the process.    *)

Obey(w, command) ==
  /\ answers' = [answers EXCEPT ![w] = Append(@,
       [to   |-> IF command \in Asked THEN command ELSE "settling",
        ok   |-> TRUE,
        file |-> IF command = "state" THEN cur[w] ELSE None])]
  /\ cur' = [cur EXCEPT ![w] = CASE command = "switch" -> session[w]
                                 [] command = "clone"  -> <<w, "clone">>
                                 [] OTHER              -> @]
  /\ text' = CASE command \in {"switch", "state"} -> text
               [] command = "clone" -> [text EXCEPT ![<<w, "clone">>] = text[cur[w]]]
               [] OTHER -> [text EXCEPT ![cur[w]] = @ \cup
                              {CASE command = "prime"   -> "primed"
                                 [] command = "compact" -> "compacted"
                                 [] command = "name"    -> "named"
                                 [] OTHER               -> "work"}]
  /\ UNCHANGED troubles

Refuse(w, command) ==
  /\ command \in Asked
  /\ Trouble
  /\ answers' = [answers EXCEPT ![w] = Append(@, [to |-> command, ok |-> FALSE, file |-> None])]
  /\ UNCHANGED <<cur, text>>

Work(w) ==
  /\ w \in running /\ inbox[w] # <<>>
  /\ inbox' = [inbox EXCEPT ![w] = Tail(@)]
  /\ Obey(w, Head(inbox[w])) \/ Refuse(w, Head(inbox[w]))
  /\ UNCHANGED <<callVars, storeVars, running, histVars, tracked, prompts>>

(* remote_prompt or the bridge's prompt, by whoever has seen the worker's id. *)
Prompt(w) ==
  /\ w \in tracked \cap running
  /\ prompts < MaxPrompts /\ prompts' = prompts + 1
  /\ inbox' = [inbox EXCEPT ![w] = Append(@, "work")]
  /\ UNCHANGED <<callVars, storeVars, workerVars, answers, histVars, tracked, troubles>>

Die(w) ==
  /\ w \in running
  /\ Trouble
  /\ running' = running \ {w}
  /\ inbox' = [inbox EXCEPT ![w] = <<>>]
  /\ UNCHANGED <<callVars, storeVars, cur, text, answers, histVars, tracked, prompts>>

(* The connection breaks: what was on it is gone, what the worker has been *)
(* handed is not.                                                          *)
Broken ==
  /\ \E late \in SUBSET Call : inbox' = [c \in Call |-> IF c \in late THEN <<>> ELSE inbox[c]]
  /\ answers' = [c \in Call |-> <<>>]

Cut ==
  /\ Trouble
  /\ Broken
  /\ UNCHANGED <<callVars, storeVars, workerVars, histVars, tracked, prompts>>

Kill ==
  /\ Trouble
  /\ Broken
  /\ step' = [c \in Call |-> IF step[c] \in Done \cup {"idle"} THEN step[c] ELSE "killed"]
  /\ tracked' = {}
  /\ cache' = NoRecords
  /\ loaded' = FALSE
  /\ got' = [c \in Call |-> NoRecords]
  /\ upset' = (upset \/ \E p \in Prime : step[p] \in {"opened", "shared"})
  /\ UNCHANGED <<label, session, disk, workerVars, histVars, prompts>>

-----------------------------------------------------------------------------
Next ==
  \/ \E c \in Call :
       \/ Start(c) \/ SpawnAnswered(c) \/ SpawnFails(c)
       \/ Hear(c) \/ TimesOut(c)
       \/ Load(c) \/ ReadFile(c) \/ LoadDone(c)
       \/ Work(c) \/ Prompt(c) \/ Die(c)
  \/ \E p \in Prime :
       \/ StopAnswered(p) \/ StopFails(p)
       \/ Snapshot(p) \/ OpenFile(p) \/ WriteFile(p)
  \/ Cut
  \/ Kill

Spec == Init /\ [][Next]_vars

-----------------------------------------------------------------------------
(* A worker that remote_baseline has primed does not outlive the call,     *)
(* however the call ends, except when the stop itself failed or the        *)
(* orchestrator was killed (index.ts: "Never leak a primed-but-failed      *)
(* worker"; the error of the stop is dropped).                             *)
NoPrimedLeak ==
  \A p \in (Prime \cap tracked) \ unstopped :
    step[p] \notin Asked \cup {"settling", "stop"} => p \notin running

(* The records r hold a session for the label l that a call was to record. *)
HoldsRecord(r, l) ==
  \E q \in Prime : label[q] = l /\ session[q] # None /\ r[l] = session[q]

(* A record that saveBaseline has written stays in baselines.json, whoever *)
(* else loads or saves, and over a restart of the orchestrator, as long as *)
(* uses of the file do not overlap and no kill cuts a write: it is there,  *)
(* or another call's under the same label.                                 *)
RecordKept ==
  (~upset /\ \A p \in Prime : step[p] \notin Saving) =>
    \A p \in Prime : step[p] = "recorded" => HoldsRecord(disk, label[p])

(* What is recorded was primed, compacted and named, in whatever order its  *)
(* answers, timers and breaks came (AC-3.5.1), unless the worker refused a *)
(* request, which nobody looks at, or the settle was that of a prompt by   *)
(* somebody else.                                                          *)
RecordedIsPrimed ==
  \A p \in Prime \ refused :
    step[p] = "recorded" /\ "work" \notin text[session[p]]
      => {"primed", "compacted", "named"} \subseteq text[session[p]]

(* Only three kinds of workers ever write a file that is recorded as a     *)
(* baseline: one whose spawn call has not ended well, one that was refused *)
(* its switch or its clone, and the baseline's own if its stop failed.  A  *)
(* worker handed over as warm, with both granted, never does.              *)
ClonesSpareBaselines ==
  [][\A p \in Prime : step[p] = "recorded" /\ text'[session[p]] # text[session[p]] =>
       \E w \in Call : /\ cur[w] = session[p]
                       /\ w \in Warm => step[w] # "warm" \/ w \in refused
                       /\ w \in Prime => w \in unstopped]_vars

(* What the comment at the clone and AC-3.5.2 promise: a worker handed     *)
(* over as started from a baseline never changes a baseline's file.        *)
BaselineNeverWritten ==
  [][\A p \in Prime, w \in Warm :
       step[p] = "recorded" /\ step[w] = "warm" /\ cur[w] = session[p]
         => text'[session[p]] = text[session[p]]]_vars
=============================================================================
