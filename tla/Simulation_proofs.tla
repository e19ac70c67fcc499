--------------------------- MODULE Simulation_proofs ---------------------------
(***************************************************************************)
(* Proofs about Simulation, for any number of jobs, nodes, threads and      *)
(* tasks, any intervals and any bound on the lag.                          *)
(***************************************************************************)
EXTENDS Simulation, FiniteSetTheorems, TLAPS

(* Counting by job id counts the applications, as ids are distinct.        *)
LEMMA IdsCount ==
  /\ IsFiniteSet(AMs)
  /\ Cardinality({JobId[a] : a \in AMs}) = Cardinality(AMs)
<1> DEFINE ids == {JobId[a] : a \in AMs}
           f == [a \in AMs |-> JobId[a]]
<1>1. IsFiniteSet(AMs)
  BY RunnerAssumption, SimulationAssumption, FS_Subset
<1>2. f \in Bijection(AMs, ids)
  BY DistinctIds DEF Bijection, Injection, Surjection, IsInjective
<1>3. ExistsBijection(AMs, ids)
  BY <1>2 DEF ExistsBijection
<1> QED BY <1>1, <1>3, FS_Bijection

(***************************************************************************)
(* The steps of the task runner                                            *)
(***************************************************************************)
LEMMA RunnerType ==
  ASSUME RunnerTypeOK, NEW t \in Tasks, NEW stop \in BOOLEAN,
         \/ Schedule(t) \/ Take(t) \/ FirstReturns(t) \/ MiddleReturns(t, stop)
         \/ LastReturns(t) \/ Raises(t) \/ Tick
  PROVE  RunnerTypeOK'
<1> USE RunnerAssumption DEF RunnerTypeOK, Steps
<1>1. CASE Schedule(t) BY <1>1 DEF Schedule
<1>2. CASE Take(t) BY <1>2 DEF Take, StepOf
<1>3. CASE FirstReturns(t) BY <1>3 DEF FirstReturns, Advance
<1>4. CASE MiddleReturns(t, stop) BY <1>4 DEF MiddleReturns, Advance
<1>5. CASE LastReturns(t) BY <1>5 DEF LastReturns
<1>6. CASE Raises(t) BY <1>6 DEF Raises
<1>7. CASE Tick BY <1>7 DEF Tick, Alive
<1> QED BY <1>1, <1>2, <1>3, <1>4, <1>5, <1>6, <1>7

(***************************************************************************)
(* The inductive invariant: types, the count of applications, and what      *)
(* being finished means.  The count has to be an invariant with the types, *)
(* as nothing else keeps the counter from falling below 0.                 *)
(***************************************************************************)
Inv == TypeOK /\ CountInv /\ JobInv

LEMMA InitInv == ASSUME Init PROVE Inv
<1> USE RunnerAssumption, SimulationAssumption DEF Init, RunnerInit
<1>1. RunnerTypeOK BY DEF RunnerTypeOK
<1>2. TypeOK
  <2>1. remainingApps \in Nat BY IdsCount, FS_CardinalityType
  <2> QED BY <1>1, <2>1 DEF TypeOK, None
<1>3. CountInv
  <2>1. Remaining = AMs BY DEF Remaining
  <2> QED BY <2>1, IdsCount DEF CountInv
<1>4. JobInv BY DEF JobInv
<1> QED BY <1>2, <1>3, <1>4 DEF Inv

(* Steps that leave the state of the jobs alone.                           *)
LEMMA PoolInv ==
  ASSUME Inv, UNCHANGED simVars, NEW t \in Tasks,
         Schedule(t) \/ Take(t) \/ Raises(t) \/ Tick
  PROVE  Inv'
<1> USE RunnerAssumption, SimulationAssumption
<1>1. TypeOK'
  BY RunnerType DEF Inv, TypeOK, simVars, jobVars
<1>2. CountInv'
  BY DEF Inv, CountInv, Remaining, simVars, jobVars
<1>3. JobInv'
  <2>1. CASE Tick BY <2>1 DEF Tick, Inv, JobInv, simVars, jobVars
  <2>2. CASE Schedule(t) \/ Take(t) \/ Raises(t)
    <3> SUFFICES ASSUME NEW a \in AMs PROVE JobInv!(a)'
      BY DEF JobInv
    <3> QED BY <2>2 DEF Schedule, Take, StepOf, Raises, Inv, JobInv, TypeOK,
                        RunnerTypeOK, simVars, jobVars
  <2> QED BY <2>1, <2>2
<1> QED BY <1>1, <1>2, <1>3 DEF Inv

(* The steps of an application master.                                     *)
LEMMA AMInv ==
  ASSUME Inv, NEW a \in AMs, AMStep(a)
  PROVE  Inv'
<1> USE RunnerAssumption, SimulationAssumption DEF Inv
<1>0. a \in Tasks OBVIOUS
<1>1. CASE Submit(a)
  <2>1. TypeOK' BY <1>1 DEF Submit, Moves, TypeOK, RunnerTypeOK, runnerVars
  <2>2. CountInv'
    BY <1>1 DEF Submit, Moves, CountInv, Remaining, TypeOK
  <2>3. JobInv' BY <1>1 DEF Submit, Moves, JobInv, TypeOK, runnerVars
  <2> QED BY <2>1, <2>2, <2>3
<1>2. CASE Register(a)
  <2>1. TypeOK' BY <1>2 DEF Register, Moves, TypeOK, RunnerTypeOK, runnerVars
  <2>2. CountInv'
    BY <1>2 DEF Register, Moves, CountInv, Remaining, TypeOK
  <2>3. JobInv' BY <1>2 DEF Register, Moves, JobInv, TypeOK, runnerVars
  <2> QED BY <2>1, <2>2, <2>3
<1>3. CASE HostAM(a)
  <2>1. TypeOK'
    <3>1. RunnerTypeOK' BY <1>0, <1>3, RunnerType DEF HostAM, TypeOK
    <3> QED BY <1>3, <3>1 DEF HostAM, Moves, None, TypeOK
  <2>2. CountInv'
    BY <1>3 DEF HostAM, Moves, CountInv, Remaining, TypeOK
  <2>3. JobInv'
    <3> SUFFICES ASSUME NEW b \in AMs PROVE JobInv!(b)'
      BY DEF JobInv
    <3> QED BY <1>0, <1>3 DEF HostAM, Moves, FirstReturns, Advance, JobInv,
                             TypeOK, RunnerTypeOK
  <2> QED BY <2>1, <2>2, <2>3
<1>4. CASE Heartbeat(a)
  <2>1. isFinished'[a] \in BOOLEAN BY <1>4 DEF Heartbeat, TypeOK, AllDone
  <2>2. TypeOK'
    <3>1. RunnerTypeOK' BY <1>0, <2>1, <1>4, RunnerType DEF Heartbeat, TypeOK
    <3>2. tasksOn' \in [AMs -> [NMs -> Nat]] BY <1>4 DEF Heartbeat, TypeOK
    <3>3. /\ completed' \in [AMs -> Nat] /\ done' \in [AMs -> Nat]
          /\ granted' \in [AMs -> [NMs -> Nat]]
          /\ isFinished' \in [AMs -> BOOLEAN]
      BY <1>4 DEF Heartbeat, TypeOK, None, AllDone
    <3>4. need' \in [AMs -> Nat] BY <1>4 DEF Heartbeat, TypeOK
    <3>5. app' \in [AMs -> {"new", "submitted", "launched", "registered",
                            "hosted", "running", "unregistered", "removed"}]
      BY <1>4 DEF Heartbeat, TypeOK
    <3> QED BY <1>4, <3>1, <3>2, <3>3, <3>4, <3>5 DEF Heartbeat, TypeOK
  <2>3. CountInv'
    BY <1>4 DEF Heartbeat, CountInv, Remaining, TypeOK
  <2>4. JobInv'
    <3> SUFFICES ASSUME NEW b \in AMs PROVE JobInv!(b)'
      BY DEF JobInv
    <3>1. CASE b # a
      BY <1>0, <1>4, <3>1 DEF Heartbeat, MiddleReturns, Advance, JobInv, TypeOK,
                              RunnerTypeOK
    <3>2. CASE b = a
      <4>1. isFinished'[a] => completed'[a] = Work[a] /\ done'[a] = 0
        BY <1>4 DEF Heartbeat, AllDone, JobInv, TypeOK
      <4>2. ~isFinished'[a] => left'[a] = Far
        BY <1>0, <1>4, <2>1 DEF Heartbeat, MiddleReturns, Advance, JobInv, TypeOK,
                                RunnerTypeOK
      <4>3. where'[a] # "last"
        BY <1>0, <1>4 DEF Heartbeat, MiddleReturns, TypeOK, RunnerTypeOK
      <4>4. app'[a] \in {"unregistered", "removed"} => isFinished'[a]
        BY <1>4 DEF Heartbeat, JobInv, TypeOK
      <4> QED BY <3>2, <4>1, <4>2, <4>3, <4>4
    <3> QED BY <3>1, <3>2
  <2> QED BY <2>2, <2>3, <2>4
<1>5. CASE Unregister(a)
  <2>1. TypeOK' BY <1>5 DEF Unregister, TypeOK, RunnerTypeOK, runnerVars
  <2>2. CountInv'
    BY <1>5 DEF Unregister, CountInv, Remaining, TypeOK
  <2>3. JobInv' BY <1>5 DEF Unregister, JobInv, TypeOK, runnerVars
  <2> QED BY <2>1, <2>2, <2>3
<1>6. CASE ShutDown(a)
  <2>1. TypeOK'
    BY <1>0, <1>6, RunnerType DEF ShutDown, TypeOK, simVars, jobVars
  <2>2. CountInv'
    BY <1>6 DEF ShutDown, CountInv, Remaining, simVars, jobVars
  <2>3. JobInv'
    BY <1>0, <1>6 DEF ShutDown, LastReturns, JobInv, TypeOK, RunnerTypeOK,
                      simVars, jobVars
  <2> QED BY <2>1, <2>2, <2>3
<1> QED BY <1>1, <1>2, <1>3, <1>4, <1>5, <1>6 DEF AMStep

(* The steps of a node manager: no application master is the task.         *)
LEMMA NMInv ==
  ASSUME Inv, NEW n \in NMs, NMStep(n)
  PROVE  Inv'
<1> USE RunnerAssumption, SimulationAssumption DEF Inv
<1>0. n \in Tasks /\ \A a \in AMs : a \in Tasks /\ a # n OBVIOUS
<1>1. CASE FirstStep(n)
  <2>1. TypeOK'
    BY <1>0, <1>1, RunnerType DEF FirstStep, TypeOK, simVars, jobVars
  <2>2. CountInv'
    BY <1>1 DEF FirstStep, CountInv, Remaining, simVars, jobVars
  <2>3. JobInv'
    BY <1>0, <1>1 DEF FirstStep, FirstReturns, Advance, JobInv, TypeOK,
                      RunnerTypeOK, simVars, jobVars
  <2> QED BY <2>1, <2>2, <2>3
<1>2. CASE NodeHeartbeat(n)
  <2>1. TypeOK'
    <3>1. RunnerTypeOK' BY <1>0, <1>2, RunnerType DEF NodeHeartbeat, TypeOK
    <3>2. over' \in [AMs -> [NMs -> Nat]]
      BY <1>2 DEF NodeHeartbeat, AMOver, TypeOK
    <3>3. tasksOn' \in [AMs -> [NMs -> Nat]] BY <1>2 DEF NodeHeartbeat, TypeOK
    <3>4. amHost' \in [AMs -> SUBSET NMs] BY <1>2 DEF NodeHeartbeat, TypeOK
    <3> QED BY <1>2, <3>1, <3>2, <3>3, <3>4 DEF NodeHeartbeat, TypeOK
  <2>2. CountInv'
    BY <1>2 DEF NodeHeartbeat, CountInv, Remaining
  <2>3. JobInv'
    BY <1>0, <1>2 DEF NodeHeartbeat, MiddleReturns, Advance, JobInv, TypeOK,
                      RunnerTypeOK
  <2> QED BY <2>1, <2>2, <2>3
<1> QED BY <1>1, <1>2 DEF NMStep

(* The steps of the resource manager.  Removing an application lowers the   *)
(* counter and the set it counts by one.                                   *)
LEMMA RMInv ==
  ASSUME Inv, RMStep, ~exited
  PROVE  Inv'
<1> USE RunnerAssumption, SimulationAssumption DEF Inv
<1>1. ASSUME NEW a \in AMs, Launch(a) PROVE Inv'
  <2>1. TypeOK' BY <1>1 DEF Launch, Moves, TypeOK, RunnerTypeOK, runnerVars
  <2>2. CountInv'
    BY <1>1 DEF Launch, Moves, CountInv, Remaining, TypeOK
  <2>3. JobInv' BY <1>1 DEF Launch, Moves, JobInv, TypeOK, runnerVars
  <2> QED BY <2>1, <2>2, <2>3
<1>2. ASSUME NEW a \in AMs, AppRemoved(a) PROVE Inv'
  <2>1. Remaining' = Remaining \ {a} /\ a \in Remaining
    BY <1>2 DEF AppRemoved, Moves, Remaining, TypeOK
  <2>2. IsFiniteSet(Remaining) BY IdsCount, FS_Subset DEF Remaining
  <2>3. /\ IsFiniteSet(Remaining') /\ Cardinality(Remaining') \in Nat
        /\ Cardinality(Remaining') = remainingApps - 1
    BY <2>1, <2>2, FS_RemoveElement, FS_CardinalityType DEF CountInv
  <2>4. remainingApps' = Cardinality(Remaining') BY <1>2, <2>3 DEF AppRemoved
  <2>5. exited' => Remaining' = {}
    BY <1>2, <2>3, <2>4, FS_EmptySet DEF AppRemoved
  <2>6. TypeOK'
    BY <1>2, <2>3, <2>4 DEF AppRemoved, Moves, None, TypeOK, RunnerTypeOK, runnerVars
  <2>7. JobInv' BY <1>2 DEF AppRemoved, Moves, JobInv, TypeOK, runnerVars
  <2> QED BY <2>4, <2>5, <2>6, <2>7 DEF CountInv
<1>3. ASSUME NEW n \in NMs, Free(n) PROVE Inv'
  <2>1. TypeOK' BY <1>3 DEF Free, TypeOK, RunnerTypeOK, runnerVars
  <2>2. CountInv' BY <1>3 DEF Free, CountInv, Remaining
  <2>3. JobInv' BY <1>3 DEF Free, JobInv, TypeOK, runnerVars
  <2> QED BY <2>1, <2>2, <2>3
<1>4. ASSUME NEW n \in NMs, Assign(n) PROVE Inv'
  <2>1. need' \in [AMs -> Nat] /\ granted' \in [AMs -> [NMs -> Nat]]
    <3>1. CASE UNCHANGED <<need, granted>> BY <3>1 DEF TypeOK
    <3>2. ASSUME NEW a \in AMs, NEW k \in 1..need[a],
                 need' = [need EXCEPT ![a] = @ - k],
                 granted' = [granted EXCEPT ![a][n] = @ + k]
          PROVE  need' \in [AMs -> Nat] /\ granted' \in [AMs -> [NMs -> Nat]]
      <4>1. need[a] \in Nat /\ k \in Nat /\ need[a] - k \in Nat
        BY DEF TypeOK
      <4> QED BY <3>2, <4>1 DEF TypeOK
    <3> QED BY <1>4, <3>1, <3>2 DEF Assign
  <2>2. TypeOK' BY <1>4, <2>1 DEF Assign, TypeOK, RunnerTypeOK, runnerVars
  <2>3. CountInv' BY <1>4 DEF Assign, CountInv, Remaining
  <2>4. JobInv' BY <1>4 DEF Assign, JobInv, runnerVars
  <2> QED BY <2>2, <2>3, <2>4
<1> QED BY <1>1, <1>2, <1>3, <1>4 DEF RMStep

LEMMA NextInv == ASSUME Inv, [Next]_vars PROVE Inv'
<1>1. CASE UNCHANGED vars
  BY <1>1 DEF vars, runnerVars, simVars, jobVars, Inv, TypeOK, RunnerTypeOK,
              CountInv, Remaining, JobInv
<1>2. ASSUME NEW t \in Tasks, Pool(t) \/ StepThrows(t) PROVE Inv'
  BY <1>2, PoolInv DEF Pool, StepThrows
<1>3. ASSUME NEW a \in AMs, AMStep(a) PROVE Inv' BY <1>3, AMInv
<1>4. ASSUME NEW n \in NMs, NMStep(n) PROVE Inv' BY <1>4, NMInv
<1>5. ASSUME ~exited, RMStep PROVE Inv' BY <1>5, RMInv
<1>6. CASE TimePasses
  <2>1. CASE Tasks = {}
    BY <1>6, <2>1, SimulationAssumption DEF TimePasses, Tick, simVars, jobVars,
       Inv, TypeOK, RunnerTypeOK, CountInv, Remaining, JobInv
  <2>2. ASSUME NEW t \in Tasks PROVE Inv' BY <1>6, PoolInv DEF TimePasses
  <2> QED BY <2>1, <2>2
<1> QED BY <1>1, <1>2, <1>3, <1>4, <1>5, <1>6 DEF Next

(* Every reachable state is well typed, counts the applications that are    *)
(* not removed, and lets only finished jobs shut down.                     *)
THEOREM Invariance == Spec => []Inv
<1>1. Init => Inv BY InitInv
<1>2. Inv /\ [Next]_vars => Inv' BY NextInv
<1> QED BY <1>1, <1>2, PTL DEF Spec

(* Every reachable state is well typed; the counter never falls below 0.   *)
THEOREM TypeCorrect == Spec => []TypeOK
<1>1. Inv => TypeOK BY DEF Inv
<1> QED BY <1>1, Invariance, PTL

(* The counter is the number of applications that are not removed.         *)
THEOREM CounterIsRight == Spec => []CountInv
<1>1. Inv => CountInv BY DEF Inv
<1> QED BY <1>1, Invariance, PTL

(* A finished job stays finished, and only finished jobs shut down.        *)
THEOREM FinishedStays == Spec => []JobInv
<1>1. Inv => JobInv BY DEF Inv
<1> QED BY <1>1, Invariance, PTL

(* The last step of an application master is one of a finished job, for any *)
(* lag of its heartbeats.                                                  *)
THEOREM LastStepIsLast == Spec => []LastMeansFinished
<1>1. Inv => LastMeansFinished BY DEF Inv, JobInv, LastMeansFinished
<1> QED BY <1>1, Invariance, PTL

(* The program exits only when every task of every job was completed.      *)
THEOREM ExitIsTheEnd == Spec => []ExitIsEnd
<1>1. ASSUME Inv PROVE ExitIsEnd
  <2> SUFFICES ASSUME exited, NEW a \in AMs PROVE completed[a] = Work[a]
    BY DEF ExitIsEnd
  <2>1. app[a] = "removed" BY <1>1 DEF Inv, CountInv, Remaining
  <2> QED BY <1>1, <2>1 DEF Inv, JobInv
<1> QED BY <1>1, Invariance, PTL
=============================================================================
