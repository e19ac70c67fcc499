---------------------------- MODULE MCMRAMSimulator ----------------------------
(* Instances of MRAMSimulator for TLC. *)
EXTENDS MRAMSimulator

CONSTANTS m1, m2, r1, r2

NoTask == <<>>
OneMap == <<m1>>
TwoMaps == <<m1, m2>>
OneReduce == <<r1>>
TwoReduces == <<r1, r2>>
=============================================================================
