---------------------------- MODULE BundleStore ----------------------------
(***************************************************************************)
(* What a machine's bundle cache promises, with nothing of how: versions   *)
(* get installed whole and stay, and a worker runs one that is installed   *)
(* (docs/acceptance-criteria.md, AC-0.2).                                  *)
(***************************************************************************)

CONSTANTS
  Version,  \* versions of the bundle
  Worker,   \* workers of the machine
  None      \* no version

VARIABLES
  installed, \* versions that are there
  running    \* the version each worker runs

Init ==
  /\ installed = {}
  /\ running = [w \in Worker |-> None]

Install(v) ==
  /\ installed' = installed \cup {v}
  /\ UNCHANGED running

Run(w, v) ==
  /\ v \in installed
  /\ running[w] = None
  /\ running' = [running EXCEPT ![w] = v]
  /\ UNCHANGED installed

Next == \E v \in Version : Install(v) \/ \E w \in Worker : Run(w, v)

Spec == Init /\ [][Next]_<<installed, running>>
=============================================================================
