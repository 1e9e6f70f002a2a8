--------------------------- MODULE MCTaskDelivery ---------------------------
(* TaskDelivery on small instances; see the .cfg files for the bounds. *)
EXTENDS TaskDelivery, TLC

\* Connections and tasks are interchangeable (for runs without liveness).
Symmetry == Permutations(Conn) \cup Permutations(Task) \cup Permutations(Server)
=============================================================================
