------------------------- MODULE MCNetworkEmulator -------------------------
(* Instances of NetworkEmulator for TLC. *)
EXTENDS NetworkEmulator, TLC

CONSTANTS n1, n2, w1, w2, r1, r2, t1, t2

(* One node on one worker. *)
OneHostOf == [p \in Processes |-> n1]
OneWorkerOf == [n \in Nodes |-> w1]

(* Two nodes, each on a worker of its own. *)
TwoHostOf == [p \in Processes |-> IF p \in {r1, t1} THEN n1 ELSE n2]
TwoWorkerOf == [n \in Nodes |-> IF n = n1 THEN w1 ELSE w2]

(* Only processes of one kind on one node are interchangeable. *)
Symmetry == Permutations(Receivers) \cup Permutations(Transmissions)
=============================================================================
