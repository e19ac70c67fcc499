------------------------------ MODULE MCSignals ------------------------------
(* Instances of Signals for TLC: one node on one worker. *)
EXTENDS Signals, TLC

CONSTANTS n1, w1, r1, r2, t1

OneHostOf == [p \in Processes |-> n1]
OneWorkerOf == [n \in Nodes |-> w1]

Symmetry == Permutations(Receivers)
=============================================================================
