--------------------------- MODULE MCFleetSession ---------------------------
(***************************************************************************)
(* FleetSession with the calls of three stories given to TLC.              *)
(***************************************************************************)
EXTENDS FleetSession

CONSTANTS
  s, p, q, x  \* tool calls

\* A worker is spawned, prompted and stopped or aborted, while it is prompted or stopped a
\* second time or a second worker is asked for.
FleetTools == s :> {"spawn"} @@ p :> {"prompt", "send"} @@ q :> {"prompt", "spawn", "stop"}
              @@ x :> {"stop", "abort"}

\* A worker is spawned and prompted twice.
PromptTools == s :> {"spawn"} @@ p :> {"send"} @@ q :> {"prompt"}
=============================================================================
