-------------------------- MODULE MCSchedulerWrapper --------------------------
(* Instances of SchedulerWrapper, and of MRAMSimulator under it, for TLC. *)
EXTENDS SchedulerWrapper

CONSTANTS m1, m2, r1, r2

OneMap == <<m1>>
TwoMaps == <<m1, m2>>
OneReduce == <<r1>>
TwoReduces == <<r1, r2>>

(* No sum of up to four containers is that of others. *)
DistinctMem == [am |-> 1, map |-> 5, reduce |-> 25]
===============================================================================
