---------------------------- MODULE MCBundleSync ----------------------------
(* BundleSync with a version and its successor, which changes one file. *)
EXTENDS BundleSync

CONSTANTS p1, p2, old, new

First == [p \in Path |-> old]
Second == [First EXCEPT ![p2] = new]
Versions == {First, Second}
PinsUsed == {None, Second}
=============================================================================
