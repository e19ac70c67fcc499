---------------------------- MODULE MCNMSimulator ----------------------------
(* Instances of NMSimulator for TLC. *)
EXTENDS NMSimulator

CONSTANTS m1, r1, a1, x1, x2

(* A map whose split is on its node, and a reduce with one remote map. *)
LocalMap == [t \in Tasks |-> IF t = r1 THEN {x1} ELSE {}]

(* Every launch of the task may fetch something. *)
AllTransfers == [t \in Tasks |-> Transfers]
=============================================================================
