----------------------- MODULE SchedulerWrapper_proofs -----------------------
(***************************************************************************)
(* Proofs about SchedulerWrapper: its counters disturb no application       *)
(* master, they add up to what is owed and to what is held, and an          *)
(* application that ends leaves no other container behind.  For jobs of any *)
(* size, any number of kills and any memory of the containers.             *)
(***************************************************************************)
EXTENDS SchedulerWrapper, MRAMSimulatorEnd_proofs

LEMMA WrapperStep == ASSUME [WrapperNext]_allVars PROVE [Next]_vars
<1>1. CASE Allocate
  <2>1. FirstStep \/ PollForAM \/ RequestNothing => Next BY DEF Next, AMStep
  <2>2. ASSUME NEW k \in Kinds, RequestPending(k) \/ RequestFailed(k) PROVE Next
    BY <2>2 DEF Next, AMStep
  <2>3. ASSUME pc = "completed", NEW s \in response.completed, Restart(s) PROVE Next
    BY <2>3 DEF Next, AMStep, ProcessStatus
  <2> QED BY <1>1, <2>1, <2>2, <2>3 DEF Allocate
<1>2. CASE RemoveAttempt BY <1>2 DEF RemoveAttempt, Next, AMStep
<1>3. CASE Inside
  <2>1. ASSUME pc = "completed", NEW s \in response.completed,
               ContainerSucceeded(s) \/ \E k \in Kinds : TaskKilled(k, s)
        PROVE  Next
    BY <2>1 DEF Next, AMStep, ProcessStatus
  <2>2. \/ StartAM \/ TakeResponse \/ CheckFinished
        \/ Launch \/ ResponseProcessed \/ CheckStop
        => Next
    BY DEF Next, AMStep
  <2> QED BY <1>3, <2>1, <2>2 DEF Inside
<1>4. CASE \E k \in RequestKinds : Schedules(k)
  BY <1>4 DEF Schedules, Next, RMStep
<1>5. CASE \E c \in held : Succeeded(c) \/ SchedulerKills(c)
  BY <1>5 DEF Succeeded, SchedulerKills, Next, RMStep
<1>6. CASE \E c \in aborting : Aborted(c) BY <1>6 DEF Aborted
<1>7. CASE UNCHANGED allVars BY <1>7 DEF allVars
<1> QED BY <1>1, <1>2, <1>3, <1>4, <1>5, <1>6, <1>7 DEF WrapperNext

(* The wrapper only watches: whatever passes through it is a step of the     *)
(* application master or of the resource manager, so that all that is proved *)
(* of MRAMSimulator holds under it.                                         *)
THEOREM WrapperWatches == WrapperSpec => Spec
<1>1. WrapperInit => Init BY DEF WrapperInit
<1> QED BY <1>1, WrapperStep, PTL DEF WrapperSpec, Spec

-----------------------------------------------------------------------------
(* Where the containers are that the AM holds: until a restart each is the   *)
(* AM's, runs a task, or is in an answer that is still to be looked at.      *)

Answered == Members(Taken) \cup Members(Queued) \cup Members(Awaited)
HeldInv ==
    restarts = 0 =>
        /\ held \subseteq Assigned \cup {amContainer} \cup Answered
        /\ pc \in {"first", "awaitAM"} => amContainer = NoContainer

JobInv == TypeInv /\ UsedInv /\ CountInv /\ EndInv /\ OwedInv /\ ExactInv

LEMMA InitHeld == ASSUME Init PROVE HeldInv
BY DEF Init, HeldInv

(* An allocate call that puts its answer where an empty one was.            *)
LEMMA CallHeld ==
  ASSUME HeldInv, NEW ask, AllocateCall(ask),
         UNCHANGED <<assigned, amContainer, restarts>>,
         pc' \in {"first", "awaitAM"} => pc \in {"first", "awaitAM"},
         Members(allocated) \cup Answered \subseteq Answered'
  PROVE  HeldInv'
<1>1. held' = held \cup Members(allocated) BY DEF AllocateCall, Members
<1>2. Assigned' = Assigned BY DEF Assigned
<1> QED BY <1>1, <1>2 DEF HeldInv

LEMMA CallsHeld ==
  ASSUME TypeInv, HeldInv,
         \/ FirstStep \/ PollForAM \/ RequestNothing
         \/ \E k \in Kinds : RequestPending(k) \/ RequestFailed(k)
  PROVE  HeldInv'
<1> USE DEF TypeInv
<1>1. PICK ask : AllocateCall(ask)
  BY DEF FirstStep, AskForAM, PollForAM, RequestNothing, RequestPending,
         RequestFailed, Request
<1>2. UNCHANGED <<assigned, amContainer, restarts, response>> /\ responseQueue = <<>>
  BY DEF FirstStep, AskForAM, PollForAM, RequestNothing, RequestPending,
         RequestFailed, Request, Heartbeat, listVars, amVars, AnswerInv
<1>3. Taken' = Taken /\ Members(Queued) = {} BY <1>2 DEF Taken, Queued, Members
<1>4. Answer.allocated = allocated BY DEF Answer
<1>5. Members(Awaited) = {}
  <2>1. PollForAM => amResponse \in Responses /\ amResponse.allocated = <<>>
    BY DEF PollForAM, AnswerInv
  <2>2. ~PollForAM => amResponse = NoResponse
    BY DEF FirstStep, RequestNothing, RequestPending, RequestFailed, Request,
           Heartbeat, AnswerInv
  <2> QED BY <2>1, <2>2, NoneAssumption DEF Awaited, Members
<1>6. Members(allocated) \subseteq Members(Queued') \cup Members(Awaited')
  <2>1. CASE FirstStep \/ PollForAM
    <3>1. amResponse' = Answer
      <4>1. CASE FirstStep BY <4>1 DEF FirstStep, AskForAM
      <4>2. CASE PollForAM BY <4>2, PollForAMTypes
      <4> QED BY <2>1, <4>1, <4>2
    <3>2. amResponse' # NoResponse
      <4>1. TypeInv' BY <2>1, FirstStepTypes, PollForAMTypes
      <4>2. pc' = "awaitAM" BY <2>1 DEF FirstStep, AskForAM, PollForAM
      <4> QED BY <4>1, <4>2, NoneAssumption DEF AnswerInv
    <3> QED BY <1>4, <3>1, <3>2 DEF Awaited
  <2>2. CASE RequestNothing \/ \E k \in Kinds : RequestPending(k) \/ RequestFailed(k)
    <3>1. responseQueue' = <<Answer>> BY <2>2, RequestTypes, RequestNothingTypes
    <3> QED BY <1>4, <3>1 DEF Queued
  <2> QED BY <2>1, <2>2
<1>7. Members(allocated) \cup Answered \subseteq Answered'
  BY <1>3, <1>5, <1>6 DEF Answered
<1>8. pc' \in {"first", "awaitAM"} => pc \in {"first", "awaitAM"}
  BY DEF FirstStep, AskForAM, PollForAM, RequestNothing, RequestPending,
         RequestFailed, Request, Heartbeat
<1> QED BY <1>1, <1>2, <1>7, <1>8, CallHeld

(* The AM gets its container: the answer had no other.                      *)
LEMMA StartAMHeld == ASSUME JobInv, HeldInv, StartAM PROVE HeldInv'
<1> USE DEF JobInv, TypeInv
<1>1. /\ UNCHANGED <<assigned, restarts, response, responseQueue, held>>
      /\ pc = "awaitAM" /\ amResponse.allocated # <<>>
      /\ amContainer' = Head(amResponse.allocated)
  BY DEF StartAM, listVars, rmVars, pullVars
<1>2. Taken' = Taken /\ Queued' = Queued /\ Assigned' = Assigned
  BY <1>1 DEF Taken, Queued, Assigned
<1>3. SUFFICES ASSUME restarts = 0 PROVE HeldInv' BY <1>1 DEF HeldInv
<1>4. Awaited = amResponse.allocated /\ Awaited \in Seq(Containers) /\ Awaited # <<>>
  BY <1>1, LineTypes, NoneAssumption DEF AnswerInv, Awaited
<1>5. Len(Awaited) = 1
  <2>1. Scheduled = 0 /\ Owed = 1
    BY <1>1, <1>3, Counts DEF ExactInv, CountTypes
  <2>2. InAMResponse = Len(Awaited) /\ Len(Awaited) >= 1
    <3>1. Len(Awaited) >= 1 BY <1>4, EmptySeq, LenProperties
    <3> QED BY <1>1, <1>4, <3>1, NoneAssumption DEF InAMResponse, AnswerInv
  <2>3. CountTypes BY Counts
  <2> QED BY <2>1, <2>2, <2>3 DEF CountTypes, Owed
<1>6. Members(Awaited) = {amContainer'}
  <2>1. DOMAIN Awaited = {1} /\ Head(Awaited) = Awaited[1]
    BY <1>4, <1>5, LenProperties
  <2> QED BY <1>1, <1>4, <2>1 DEF Members
<1>7. amContainer \notin held
  BY <1>1, <1>3, NoneAssumption DEF HeldInv, RMTypes
<1>8. pc' \notin {"first", "awaitAM"} BY DEF StartAM
<1> QED BY <1>1, <1>2, <1>3, <1>6, <1>7, <1>8 DEF HeldInv, Answered

(* A report is handled: the container it names is not held.                 *)
LEMMA StatusHeld ==
  ASSUME JobInv, HeldInv, NEW s \in TakenDone,
         ContainerSucceeded(s) \/ \E k \in Kinds : TaskKilled(k, s)
  PROVE  HeldInv'
<1> USE DEF JobInv, TypeInv
<1>1. /\ UNCHANGED <<restarts, held, amContainer, pc, responseQueue, amResponse>>
      /\ Consume(s)
  BY DEF ContainerSucceeded, TaskKilled, rmVars, pullVars, amVars
<1>2. Taken' = Taken
  <2>1. response \in Responses BY DEF TakenDone, AnswerInv
  <2>2. response' \in Responses /\ response'.allocated = response.allocated
    BY <1>1, <2>1, ConsumeTypes
  <2> QED BY <2>1, <2>2, NoneAssumption DEF Taken
<1>3. Answered' = Answered BY <1>1, <1>2 DEF Answered, Queued, Awaited
<1>4. Assigned \ {s.container} \subseteq Assigned'
  BY SucceededTasks, KilledTasks DEF Assigned
<1>5. s.container \notin held
  BY DEF EndInv, ReportsInv, StatusInv, Settled
<1> QED BY <1>1, <1>3, <1>4, <1>5 DEF HeldInv

(* The container of an answer goes to a task: there is one that waits.      *)
LEMMA LaunchHeld == ASSUME JobInv, HeldInv, Launch PROVE HeldInv'
<1> USE DEF JobInv
<1> DEFINE c == Head(Taken)
<1>1. /\ UNCHANGED <<restarts, held, amContainer, pc, responseQueue, amResponse>>
      /\ pc = "allocated" /\ response.allocated # <<>>
  BY DEF Launch, amVars, pullVars
<1>2. /\ Taken # <<>> /\ Taken' = Tail(Taken)
      /\ \A k \in Kinds : \/ /\ k \in Waiting
                             /\ DOMAIN assigned'[k] = DOMAIN assigned[k] \cup {c}
                          \/ k \notin Waiting /\ assigned'[k] = assigned[k]
  BY LaunchTasks
<1>3. Waiting # {} /\ Waiting \subseteq Kinds BY <1>1, SomeTaskWaits DEF Waiting
<1>4. Taken \in Seq(Containers) BY LineTypes
<1> HIDE DEF c
<1>5. Assigned \cup {c} \subseteq Assigned' BY <1>2, <1>3 DEF Assigned
<1>6. Members(Taken) \subseteq {c} \cup Members(Taken')
  <2>1. /\ c = Taken[1] /\ Len(Taken) \in Nat /\ DOMAIN Taken = 1..Len(Taken)
        /\ DOMAIN Taken' = 1..(Len(Taken) - 1)
        /\ \A i \in 1..(Len(Taken) - 1) : Taken'[i] = Taken[i + 1]
    BY <1>2, <1>4, HeadTailProperties, LenProperties, EmptySeq DEF c
  <2>2. ASSUME NEW i \in DOMAIN Taken, i # 1 PROVE Taken[i] \in Members(Taken')
    <3>1. i - 1 \in DOMAIN Taken' /\ Taken'[i - 1] = Taken[i] BY <2>1, <2>2
    <3> QED BY <3>1 DEF Members
  <2> QED BY <2>1, <2>2 DEF Members
<1>7. Queued' = Queued /\ Awaited' = Awaited BY <1>1 DEF Queued, Awaited
<1>8. Answered \subseteq Answered' \cup {c} BY <1>6, <1>7 DEF Answered
<1> QED BY <1>1, <1>5, <1>8 DEF HeldInv

(* The other steps keep the answers, or look at one that has nothing left.  *)
LEMMA QuietHeld ==
  ASSUME JobInv, HeldInv,
         \/ TakeResponse \/ CheckFinished \/ ResponseProcessed \/ CheckStop
         \/ LastStep \/ RMStep \/ UNCHANGED vars
  PROVE  HeldInv'
<1> USE DEF JobInv, TypeInv
<1>1. ASSUME held' \subseteq held, Answered \subseteq Answered',
             UNCHANGED <<assigned, amContainer, restarts>>,
             pc' \in {"first", "awaitAM"} => pc \in {"first", "awaitAM"}
      PROVE  HeldInv'
  BY <1>1 DEF HeldInv, Assigned
<1>2. CASE TakeResponse
  <2>1. /\ responseQueue # <<>> /\ Head(responseQueue) \in Responses
        /\ response' = Head(responseQueue)
        /\ response = NoResponse
    BY <1>2, OneAnswer, TakeResponseTypes DEF TakeResponse, AnswerInv
  <2>2. Taken' = Queued /\ Members(Taken) = {}
    BY <2>1, NoneAssumption DEF Taken, Queued, Members
  <2>3. /\ UNCHANGED <<assigned, amContainer, restarts, held, amResponse>>
        /\ pc' = "completed"
    BY <1>2 DEF TakeResponse, listVars, amVars, rmVars, pullVars
  <2>4. Awaited' = Awaited BY <2>3 DEF Awaited
  <2> QED BY <1>1, <2>2, <2>3, <2>4 DEF Answered
<1>3. CASE ResponseProcessed
  <2>1. /\ UNCHANGED <<assigned, amContainer, restarts, held, amResponse,
                       responseQueue>>
        /\ response \in Responses /\ response.allocated = <<>>
        /\ pc' = "middle"
    BY <1>3 DEF ResponseProcessed, listVars, amVars, rmVars, pullVars, AnswerInv
  <2>2. Members(Taken) = {} BY <2>1, NoneAssumption DEF Taken, Members
  <2>3. Queued' = Queued /\ Awaited' = Awaited BY <2>1 DEF Queued, Awaited
  <2> QED BY <1>1, <2>1, <2>2, <2>3 DEF Answered
<1>4. CASE LastStep BY <1>4 DEF LastStep, HeldInv
<1>5. CASE CheckFinished \/ CheckStop \/ RMStep \/ UNCHANGED vars
  <2>1. /\ UNCHANGED <<assigned, amContainer, restarts, response, responseQueue,
                       amResponse>>
        /\ held' \subseteq held
        /\ (pc' \in {"first", "awaitAM"} => pc \in {"first", "awaitAM"})
    BY <1>5 DEF CheckFinished, CheckStop, RMStep, RMAllocate, NMCompletes, RMKill,
                Exit, vars, listVars, amVars, queueVars, rmVars, pullVars
  <2>2. Answered' = Answered BY <2>1 DEF Answered, Taken, Queued, Awaited
  <2> QED BY <1>1, <2>1, <2>2
<1> QED BY <1>2, <1>3, <1>4, <1>5

LEMMA HeldStep == ASSUME JobInv, HeldInv, [Next]_vars PROVE HeldInv'
<1>1. CASE ProcessStatus
  <2>1. PICK s \in response.completed :
          \/ ContainerSucceeded(s) \/ \E k \in Kinds : TaskKilled(k, s)
          \/ Restart(s)
    BY <1>1, StatusCases
  <2>2. pc = "completed" BY <1>1, StatusCases
  <2>3. s \in TakenDone
    BY <2>2, StatusTypes DEF JobInv, TypeInv, AnswerInv
  <2>4. CASE Restart(s) BY <2>4, RestartCounted DEF JobInv, HeldInv
  <2> QED BY <2>1, <2>3, <2>4, StatusHeld
<1>2. CASE \/ FirstStep \/ PollForAM \/ RequestNothing
           \/ \E k \in Kinds : RequestPending(k) \/ RequestFailed(k)
  BY <1>2, CallsHeld DEF JobInv
<1> QED BY <1>1, <1>2, StartAMHeld, LaunchHeld, QuietHeld DEF Next, AMStep

(* An AM that is at its end found its job finished.                         *)
StopInv == pc = "stopping" => isFinished

LEMMA StopStep == ASSUME TypeInv, StopInv, [Next]_vars PROVE StopInv'
<1> USE DEF StopInv
<1>1. CASE FirstStep \/ StartAM \/ PollForAM \/ TakeResponse \/ CheckFinished
  BY <1>1 DEF FirstStep, AskForAM, StartAM, PollForAM, TakeResponse, CheckFinished
<1>2. CASE ProcessStatus
  BY <1>2 DEF ProcessStatus, ContainerSucceeded, TaskKilled, Restart, AskForAM
<1>3. CASE Launch \/ ResponseProcessed \/ RequestNothing \/ CheckStop \/ LastStep
  BY <1>3 DEF Launch, ResponseProcessed, RequestNothing, Heartbeat, CheckStop, LastStep,
              amVars
<1>4. CASE \E k \in Kinds : RequestPending(k) \/ RequestFailed(k)
  BY <1>4 DEF RequestPending, RequestFailed, Request, Heartbeat
<1>5. CASE RMStep \/ UNCHANGED vars
  BY <1>5 DEF RMStep, RMAllocate, NMCompletes, RMKill, Exit, vars, amVars
<1> QED BY <1>1, <1>2, <1>3, <1>4, <1>5 DEF Next, AMStep

LEMMA StopMeans ==
  ASSUME JobInv, HeldInv, StopInv, restarts = 0, pc = "stopping"
  PROVE  /\ Pulled = {} /\ Live \subseteq {amContainer}
         /\ Asked("am") = 0 /\ Asked("map") = 0 /\ Asked("reduce") = 0
<1> USE DEF JobInv, TypeInv
<1>1. \A k \in Kinds : finished[k] = Total(k) /\ Balanced(k)
  BY CountMeans DEF StopInv, EndInv, FinishedMeansDone
<1>2. \A k \in Kinds : scheduled[k] = <<>> /\ DOMAIN assigned[k] = {}
  BY <1>1, DoneIsDone
<1>3. Scheduled = 0
  <2>1. "map" \in Kinds /\ "reduce" \in Kinds BY DEF Kinds
  <2>2. ToRun("map") = 0 /\ ToRun("reduce") = 0 BY <1>2, <2>1 DEF ToRun
  <2> QED BY <2>2 DEF Scheduled
<1>4. Owed = 0 /\ Asked("am") = 0 BY <1>3 DEF ExactInv
<1>5. CountTypes BY Counts
<1>6. InRM = 0 /\ Asked("map") = 0 /\ Asked("reduce") = 0 BY <1>4, <1>5, NothingOpen
<1>7. Pulled = {}
  BY <1>6, LenProperties, EmptySeq DEF RMTypes, InRM, Pulled
<1>8. Assigned = {} BY <1>2 DEF Assigned
<1>9. Answered = {}
  BY DEF AnswerInv, Answered, Members, Taken, Queued, Awaited
<1> QED BY <1>4, <1>6, <1>7, <1>8, <1>9 DEF HeldInv, Live

LEMMA EndMeans == ASSUME JobInv, HeldInv, StopInv PROVE OneLiveAtEnd
BY StopMeans DEF OneLiveAtEnd

(* All this holds of every application master, also under the wrapper.      *)
AttemptInv == JobInv /\ ReducesAfterMaps /\ HeldInv /\ StopInv

LEMMA JobInvariant == Spec => []AttemptInv
<1>1. Spec => []JobInv
  <2>1. Spec => [](TypeInv /\ OwedInv)
    <3>1. OwedInv /\ TypeInv /\ [Next]_vars => OwedInv' BY OwedStep
    <3>2. Init => OwedInv BY InitOwed
    <3> QED BY <3>1, <3>2, TypeInvariant, PTL DEF Spec
  <2>2. TypeInv /\ UsedInv /\ CountInv /\ OwedInv /\ ExactInv /\ EndInv => JobInv
    BY DEF JobInv
  <2> QED BY <2>1, <2>2, CountInvariant, ExactInvariant, EndInvariant, PTL
<1>2. Spec => [](HeldInv /\ StopInv)
  <2>1. Init => HeldInv /\ StopInv BY InitHeld DEF Init, StopInv
  <2>2. JobInv /\ HeldInv /\ StopInv /\ [Next]_vars => HeldInv' /\ StopInv'
    BY HeldStep, StopStep DEF JobInv
  <2> QED BY <1>1, <2>1, <2>2, PTL DEF Spec
<1>3. JobInv /\ ReducesAfterMaps /\ HeldInv /\ StopInv => AttemptInv
  BY DEF AttemptInv
<1> QED BY <1>1, <1>2, <1>3, ReducesWait, PTL

LEMMA AttemptInvariant == WrapperSpec => []AttemptInv
BY JobInvariant, WrapperWatches, PTL

(* "should have one container which is AM container": until a restart, when  *)
(* an application is removed, the container of its AM is the only one it may *)
(* still have, so that the wrapper subtracts all there is.                   *)
THEOREM EndsWithOneContainer == WrapperSpec => []OneLiveAtEnd
<1>1. AttemptInv => OneLiveAtEnd BY EndMeans DEF AttemptInv
<1> QED BY <1>1, AttemptInvariant, PTL

-----------------------------------------------------------------------------
(* Sums of the memory of containers.                                        *)

Number(cs, k) == Cardinality({c \in cs : c.kind = k})

LEMMA MemIs ==
  ASSUME NEW cs
  PROVE  MemOf(cs) = Mem["am"] * Number(cs, "am") + Mem["map"] * Number(cs, "map")
                       + Mem["reduce"] * Number(cs, "reduce")
BY DEF MemOf, Number

LEMMA NumberTypes ==
  ASSUME NEW cs, IsFiniteSet(cs), NEW k PROVE Number(cs, k) \in Nat
<1>1. {c \in cs : c.kind = k} \in SUBSET cs OBVIOUS
<1> HIDE DEF Number
<1>2. IsFiniteSet({c \in cs : c.kind = k}) BY <1>1, FS_Subset
<1> QED BY <1>2, FS_CardinalityType DEF Number

LEMMA MemTypes ==
  /\ Mem["am"] \in Nat /\ Mem["map"] \in Nat /\ Mem["reduce"] \in Nat
  /\ \A k \in RequestKinds : Mem[k] \in Nat
BY MemAssumption DEF RequestKinds, Kinds

(* Where the product of two numbers is all there is to reason about.        *)
LEMMA ProductType == \A m, n \in Nat : m * n \in Nat OBVIOUS
LEMMA ProductNext == \A m, n \in Nat : m * (n + 1) = m * n + m OBVIOUS
LEMMA ProductZero == \A m \in Nat : m * 0 = 0 /\ 0 * m = 0 OBVIOUS
LEMMA ProductSwaps == \A m, n \in Nat : m * n = n * m OBVIOUS
LEMMA ProductSum == \A m, n, o \in Nat : m * (n + o) = m * n + m * o OBVIOUS

LEMMA MemOfType == ASSUME NEW cs, IsFiniteSet(cs) PROVE MemOf(cs) \in Nat
<1>1. /\ Number(cs, "am") \in Nat /\ Number(cs, "map") \in Nat
      /\ Number(cs, "reduce") \in Nat
  BY NumberTypes
<1>2. /\ Mem["am"] * Number(cs, "am") \in Nat
      /\ Mem["map"] * Number(cs, "map") \in Nat
      /\ Mem["reduce"] * Number(cs, "reduce") \in Nat
  BY <1>1, MemTypes, ProductType
<1> QED BY <1>2, MemIs

LEMMA MemOfEmpty == MemOf({}) = 0
<1>1. \A k : {c \in {} : c.kind = k} = {} OBVIOUS
<1>2. Number({}, "am") = 0 /\ Number({}, "map") = 0 /\ Number({}, "reduce") = 0
  BY <1>1, FS_EmptySet DEF Number
<1> QED BY <1>2, MemIs, MemTypes, ProductZero

LEMMA NumberAdded ==
  ASSUME NEW cs, IsFiniteSet(cs), NEW c, c \notin cs, NEW k
  PROVE  Number(cs \cup {c}, k) = Number(cs, k) + (IF c.kind = k THEN 1 ELSE 0)
<1> DEFINE mine == {d \in cs : d.kind = k}
<1>1. IsFiniteSet(mine) BY FS_Subset
<1>2. CASE c.kind = k
  <2>1. {d \in cs \cup {c} : d.kind = k} = mine \cup {c} BY <1>2
  <2>2. c \notin mine OBVIOUS
  <2> HIDE DEF mine
  <2>3. Cardinality(mine \cup {c}) = Cardinality(mine) + 1
    BY <1>1, <2>2, FS_AddElement
  <2> QED BY <1>2, <2>1, <2>3 DEF Number, mine
<1>3. CASE c.kind # k
  <2>1. {d \in cs \cup {c} : d.kind = k} = mine BY <1>3
  <2>2. Number(cs, k) \in Nat BY NumberTypes
  <2>3. Number(cs \cup {c}, k) = Number(cs, k) BY <2>1 DEF Number, mine
  <2> QED BY <1>3, <2>2, <2>3
<1> QED BY <1>2, <1>3

(* One container more, and one less.                                        *)
LEMMA MemOfAdd ==
  ASSUME NEW cs, IsFiniteSet(cs), NEW c \in Containers, c \notin cs
  PROVE  /\ IsFiniteSet(cs \cup {c})
         /\ MemOf(cs \cup {c}) = MemOf(cs) + Mem[c.kind]
<1> DEFINE ds == cs \cup {c}
<1>1. IsFiniteSet(ds) BY FS_AddElement
<1>2. /\ Number(cs, "am") \in Nat /\ Number(cs, "map") \in Nat
      /\ Number(cs, "reduce") \in Nat
  BY NumberTypes
<1>3. c.kind = "am" \/ c.kind = "map" \/ c.kind = "reduce"
  BY DEF Containers, RequestKinds, Kinds
<1>4. /\ Number(ds, "am") = Number(cs, "am") + (IF c.kind = "am" THEN 1 ELSE 0)
      /\ Number(ds, "map") = Number(cs, "map") + (IF c.kind = "map" THEN 1 ELSE 0)
      /\ Number(ds, "reduce")
           = Number(cs, "reduce") + (IF c.kind = "reduce" THEN 1 ELSE 0)
  BY NumberAdded
<1> HIDE DEF ds
<1>5. /\ Mem["am"] * Number(cs, "am") \in Nat
      /\ Mem["map"] * Number(cs, "map") \in Nat
      /\ Mem["reduce"] * Number(cs, "reduce") \in Nat
  BY <1>2, MemTypes, ProductType
<1>6. CASE c.kind = "am"
  <2>1. /\ Number(ds, "am") = Number(cs, "am") + 1
        /\ Number(ds, "map") = Number(cs, "map")
        /\ Number(ds, "reduce") = Number(cs, "reduce")
    BY <1>2, <1>4, <1>6
  <2>2. Mem["am"] * Number(ds, "am") = Mem["am"] * Number(cs, "am") + Mem["am"]
    BY <1>2, <2>1, MemTypes, ProductNext
  <2> QED BY <1>5, <1>6, <2>1, <2>2, MemIs, MemTypes, <1>1 DEF ds
<1>7. CASE c.kind = "map"
  <2>1. /\ Number(ds, "am") = Number(cs, "am")
        /\ Number(ds, "map") = Number(cs, "map") + 1
        /\ Number(ds, "reduce") = Number(cs, "reduce")
    BY <1>2, <1>4, <1>7
  <2>2. Mem["map"] * Number(ds, "map") = Mem["map"] * Number(cs, "map") + Mem["map"]
    BY <1>2, <2>1, MemTypes, ProductNext
  <2> QED BY <1>5, <1>7, <2>1, <2>2, MemIs, MemTypes, <1>1 DEF ds
<1>8. CASE c.kind = "reduce"
  <2>1. /\ Number(ds, "am") = Number(cs, "am")
        /\ Number(ds, "map") = Number(cs, "map")
        /\ Number(ds, "reduce") = Number(cs, "reduce") + 1
    BY <1>2, <1>4, <1>8
  <2>2. Mem["reduce"] * Number(ds, "reduce")
          = Mem["reduce"] * Number(cs, "reduce") + Mem["reduce"]
    BY <1>2, <2>1, MemTypes, ProductNext
  <2> QED BY <1>5, <1>8, <2>1, <2>2, MemIs, MemTypes, <1>1 DEF ds
<1> QED BY <1>3, <1>6, <1>7, <1>8

LEMMA MemOfRemove ==
  ASSUME NEW cs, IsFiniteSet(cs), NEW c \in Containers, c \in cs
  PROVE  /\ IsFiniteSet(cs \ {c})
         /\ MemOf(cs \ {c}) = MemOf(cs) - Mem[c.kind]
<1>1. IsFiniteSet(cs \ {c}) BY FS_RemoveElement
<1>2. (cs \ {c}) \cup {c} = cs OBVIOUS
<1>3. MemOf(cs) = MemOf(cs \ {c}) + Mem[c.kind] BY <1>1, <1>2, MemOfAdd
<1>4. MemOf(cs \ {c}) \in Nat /\ Mem[c.kind] \in Nat
  BY <1>1, MemOfType, MemTypes DEF Containers
<1> QED BY <1>1, <1>3, <1>4

(* Two sets that share no container.                                        *)
LEMMA NumberUnion ==
  ASSUME NEW cs, IsFiniteSet(cs), NEW ds, IsFiniteSet(ds), cs \cap ds = {}, NEW k
  PROVE  Number(cs \cup ds, k) = Number(cs, k) + Number(ds, k)
<1> DEFINE c == {x \in cs : x.kind = k}
           d == {x \in ds : x.kind = k}
<1>1. IsFiniteSet(c) /\ IsFiniteSet(d) /\ c \cap d = {}
  <2>1. IsFiniteSet(c) BY FS_Subset
  <2>2. IsFiniteSet(d) BY FS_Subset
  <2> QED BY <2>1, <2>2
<1>2. {x \in cs \cup ds : x.kind = k} = c \cup d OBVIOUS
<1> HIDE DEF c, d
<1>3. Cardinality(c \cup d) = Cardinality(c) + Cardinality(d) - Cardinality(c \cap d)
  BY <1>1, FS_Union
<1>4. Cardinality(c \cap d) = 0 BY <1>1, FS_EmptySet
<1>5. Cardinality(c) \in Nat /\ Cardinality(d) \in Nat BY <1>1, FS_CardinalityType
<1>6. Cardinality(c \cup d) = Cardinality(c) + Cardinality(d) BY <1>3, <1>4, <1>5
<1> QED BY <1>2, <1>6 DEF Number, c, d

LEMMA MemOfUnion ==
  ASSUME NEW cs, IsFiniteSet(cs), NEW ds, IsFiniteSet(ds), cs \cap ds = {}
  PROVE  /\ IsFiniteSet(cs \cup ds)
         /\ MemOf(cs \cup ds) = MemOf(cs) + MemOf(ds)
<1>1. IsFiniteSet(cs \cup ds) BY FS_Union
<1>2. \A k \in RequestKinds : /\ Number(cs, k) \in Nat /\ Number(ds, k) \in Nat
                              /\ Number(cs \cup ds, k) = Number(cs, k) + Number(ds, k)
  BY NumberTypes, NumberUnion
<1>3. ASSUME NEW k \in RequestKinds
      PROVE  /\ Mem[k] * Number(cs \cup ds, k)
                   = Mem[k] * Number(cs, k) + Mem[k] * Number(ds, k)
             /\ Mem[k] * Number(cs, k) \in Nat /\ Mem[k] * Number(ds, k) \in Nat
  <2>1. Number(cs, k) \in Nat /\ Number(ds, k) \in Nat /\ Mem[k] \in Nat
    BY <1>2, MemTypes
  <2>2. Number(cs \cup ds, k) = Number(cs, k) + Number(ds, k) BY <1>2
  <2> HIDE DEF Number
  <2> QED BY <2>1, <2>2, ProductSum, ProductType
<1>4. "am" \in RequestKinds /\ "map" \in RequestKinds /\ "reduce" \in RequestKinds
  BY DEF RequestKinds, Kinds
<1>5. /\ Mem["am"] * Number(cs \cup ds, "am")
            = Mem["am"] * Number(cs, "am") + Mem["am"] * Number(ds, "am")
      /\ Mem["map"] * Number(cs \cup ds, "map")
            = Mem["map"] * Number(cs, "map") + Mem["map"] * Number(ds, "map")
      /\ Mem["reduce"] * Number(cs \cup ds, "reduce")
            = Mem["reduce"] * Number(cs, "reduce") + Mem["reduce"] * Number(ds, "reduce")
  BY <1>3, <1>4
<1>6. /\ Mem["am"] * Number(cs, "am") \in Nat /\ Mem["am"] * Number(ds, "am") \in Nat
      /\ Mem["map"] * Number(cs, "map") \in Nat /\ Mem["map"] * Number(ds, "map") \in Nat
      /\ Mem["reduce"] * Number(cs, "reduce") \in Nat
      /\ Mem["reduce"] * Number(ds, "reduce") \in Nat
  BY <1>3, <1>4
<1> QED BY <1>1, <1>5, <1>6, MemIs

-----------------------------------------------------------------------------
(* What the steps do to the containers and the counters.                    *)

Pulls ==
    /\ held' = held \cup Pulled /\ Pulled' = {} /\ lastId' = lastId
    /\ UNCHANGED <<aborting, leaked>>
    /\ pc # "done" /\ pc' # "done"

(* A call that asks for n containers of a kind, and finds none of the kind   *)
(* open as long as there was no restart; and one that asks for nothing.     *)
Calls(k, n) ==
    /\ Pulls /\ Account(n * Mem[k])
    /\ demand' = [demand EXCEPT ![k] = n]
    /\ restarts' = 0 => restarts = 0 /\ demand[k] = 0
CallsEmpty == Pulls /\ Account(0) /\ UNCHANGED <<demand, restarts>>

Stays ==
    /\ UNCHANGED <<held, Pulled, lastId, demand, restarts, wrapperVars>>
    /\ (pc' = "done") = (pc = "done")

LEMMA CallPulls ==
  ASSUME NEW ask, AllocateCall(ask), UNCHANGED <<aborting, leaked>>,
         pc # "done", pc' # "done"
  PROVE  Pulls
BY CallEffect DEF Pulls, Pulled, Unfetched

LEMMA AsksForAM ==
  ASSUME RMTypes, AskForAM
  PROVE  demand' = [demand EXCEPT !["am"] = 1]
BY DEF AskForAM, AllocateCall, RMTypes, RequestKinds

LEMMA AllocateCalls ==
  ASSUME JobInv, ReducesAfterMaps, Allocate
  PROVE  CallsEmpty \/ \E k \in RequestKinds, n \in Nat : Calls(k, n)
<1> USE DEF JobInv
<1>1. UNCHANGED <<aborting, leaked>> BY DEF Allocate
<1>2. RMTypes BY DEF TypeInv
<1>3. "am" \in RequestKinds /\ Kinds \subseteq RequestKinds BY DEF RequestKinds
<1>4. 1 * Mem["am"] = Mem["am"] BY MemTypes
<1>5. CASE FirstStep /\ Account(Mem["am"])
  <2>1. /\ AskForAM /\ AllocateCall([k \in {"am"} |-> 1])
        /\ pc = "first" /\ pc' = "awaitAM" /\ restarts' = restarts
    BY <1>5 DEF FirstStep, AskForAM
  <2>2. Pulls BY <1>1, <2>1, CallPulls
  <2>3. demand' = [demand EXCEPT !["am"] = 1] BY <1>2, <2>1, AsksForAM
  <2>4. restarts = 0 => Asked("am") = 0 BY <2>1 DEF ExactInv
  <2> QED BY <1>3, <1>4, <1>5, <2>1, <2>2, <2>3, <2>4 DEF Calls, Asked
<1>6. CASE (PollForAM \/ RequestNothing) /\ Account(0)
  <2>1. AllocateCall(Empty) /\ pc # "done" /\ pc' = pc /\ restarts' = restarts
    BY <1>6 DEF PollForAM, RequestNothing, Heartbeat
  <2>2. Pulls BY <1>1, <2>1, CallPulls
  <2>3. demand' = demand BY <1>2, <2>1 DEF AllocateCall, Empty, RMTypes
  <2> QED BY <1>6, <2>1, <2>2, <2>3 DEF CallsEmpty
<1>7. ASSUME NEW k \in Kinds, NEW q \in Seq(Tasks), Request(k, q),
             RequestPending(k) \/ RequestFailed(k), Account(Len(q) * Mem[k])
      PROVE  \E n \in Nat : Calls(k, n)
  <2>1. PICK n \in Nat : n = Len(q) BY LenProperties
  <2>2. AllocateCall([j \in {k} |-> n]) /\ pc = "middle" /\ pc' = pc
        /\ restarts' = restarts
    BY <1>7, <2>1 DEF Request, Heartbeat
  <2>3. Pulls BY <1>1, <2>2, CallPulls
  <2>4. demand' = [demand EXCEPT ![k] = n]
    BY <1>2, <1>3, <2>2 DEF AllocateCall, RMTypes
  <2>5. restarts = 0 => Asked(k) = 0 BY <1>7, RequestFindsNothing DEF Kinds
  <2> QED BY <1>7, <2>1, <2>2, <2>3, <2>4, <2>5 DEF Calls, Asked
<1>8. ASSUME NEW k \in Kinds, RequestPending(k), Account(Len(pending[k]) * Mem[k])
      PROVE  \E n \in Nat : Calls(k, n)
  BY <1>7, <1>8 DEF RequestPending, TypeInv, ListTypes
<1>9. ASSUME NEW k \in Kinds, RequestFailed(k), Account(Len(pendingFailed[k]) * Mem[k])
      PROVE  \E n \in Nat : Calls(k, n)
  BY <1>7, <1>9 DEF RequestFailed, TypeInv, ListTypes
<1>10. ASSUME pc = "completed", NEW s \in response.completed, Restart(s),
              Account(Mem["am"])
       PROVE  Calls("am", 1)
  <2>1. /\ AskForAM /\ AllocateCall([k \in {"am"} |-> 1]) /\ pc' = "awaitAM"
    BY <1>10 DEF Restart, AskForAM
  <2>2. Pulls BY <1>1, <1>10, <2>1, CallPulls
  <2>3. demand' = [demand EXCEPT !["am"] = 1] BY <1>2, <2>1, AsksForAM
  <2>4. restarts' # 0 BY <1>10, RestartCounted
  <2> QED BY <1>4, <1>10, <2>2, <2>3, <2>4 DEF Calls
<1> QED BY <1>3, <1>5, <1>6, <1>8, <1>9, <1>10 DEF Allocate

LEMMA InsideStays ==
  ASSUME Inside \/ UNCHANGED allVars PROVE Stays
<1>1. CASE UNCHANGED allVars
  BY <1>1 DEF allVars, vars, rmVars, pullVars, Stays, Pulled
<1>2. CASE Inside
  <2>1. CASE StartAM \/ TakeResponse \/ CheckFinished
    BY <1>2, <2>1
       DEF Inside, StartAM, TakeResponse, CheckFinished, rmVars, pullVars, Stays, Pulled
  <2>2. CASE Launch \/ ResponseProcessed \/ CheckStop
    BY <1>2, <2>2
       DEF Inside, Launch, ResponseProcessed, CheckStop, rmVars, pullVars, Stays, Pulled
  <2>3. ASSUME NEW s, ContainerSucceeded(s) \/ \E k \in Kinds : TaskKilled(k, s)
        PROVE  Stays
    BY <1>2, <2>3
       DEF Inside, ContainerSucceeded, TaskKilled, rmVars, pullVars, Stays, Pulled
  <2> QED BY <1>2, <2>1, <2>2, <2>3 DEF Inside
<1> QED BY <1>1, <1>2

(* A container is allocated: it is new.                                     *)
LEMMA SchedulesNew ==
  ASSUME JobInv, NEW k \in RequestKinds, Schedules(k)
  PROVE  /\ demand[k] \in Nat /\ demand[k] > 0
         /\ demand' = [demand EXCEPT ![k] = @ - 1]
         /\ UNCHANGED <<held, restarts, pc, wrapperVars>>
         /\ lastId \in Nat /\ lastId' = lastId + 1
         /\ \E c \in Containers : /\ c.kind = k /\ c.id = lastId + 1
                                  /\ c \notin Live /\ Pulled' = Pulled \cup {c}
<1> USE DEF JobInv, TypeInv
<1> DEFINE c == [id |-> lastId + 1, kind |-> k]
<1>1. /\ demand[k] \in Nat /\ demand[k] > 0 /\ lastId \in Nat
      /\ demand' = [demand EXCEPT ![k] = @ - 1] /\ lastId' = lastId + 1
      /\ UNCHANGED <<held, restarts, pc, wrapperVars>>
      /\ allocated' = Append(allocated, c) /\ allocated \in Seq(Containers)
  BY DEF Schedules, RMAllocate, RMTypes
<1>2. c \in Containers /\ c.kind = k /\ c.id = lastId + 1 BY <1>1 DEF Containers
<1> HIDE DEF c
<1>3. Pulled' = Pulled \cup {c}
  <2>1. \A i \in DOMAIN allocated : i \in DOMAIN allocated' /\ allocated'[i] = allocated[i]
    BY <1>1
  <2>2. Len(allocated) + 1 \in DOMAIN allocated' /\ allocated'[Len(allocated) + 1] = c
    BY <1>1, <1>2
  <2>3. \A i \in DOMAIN allocated' : i \in DOMAIN allocated \/ allocated'[i] = c
    BY <1>1, <1>2
  <2> QED BY <2>1, <2>2, <2>3 DEF Pulled
<1>4. \A d \in Live : d \in Containers /\ d.id <= lastId
  <2>1. held \subseteq Containers /\ Pulled \subseteq Containers
    BY StatusTypes DEF Pulled, Unfetched
  <2>2. \A d \in held \cup Pulled : d.id <= lastId
    BY DEF EndInv, ReportsInv, StatusInv, Settled, Pulled, Unfetched
  <2> QED BY <2>1, <2>2 DEF Live
<1>5. c \notin Live BY <1>1, <1>2, <1>4
<1> QED BY <1>1, <1>2, <1>3, <1>5

(* A container ends.                                                        *)
LEMMA ExitEffect ==
  ASSUME NEW c, NEW b, Exit(c, b)
  PROVE  /\ c \in held /\ held' = held \ {c}
         /\ UNCHANGED <<Pulled, lastId, demand, restarts, pc>>
BY DEF Exit, Pulled

LEMMA LastEffect ==
  ASSUME LastStep
  PROVE  /\ pc = "stopping" /\ pc' = "done" /\ held' = {} /\ Pulled' = {}
         /\ UNCHANGED <<lastId, restarts>>
BY DEF LastStep, Pulled

-----------------------------------------------------------------------------
(* Types: a container is live, or killed and not reported, or lost, and the  *)
(* next one to be allocated is none of these.                               *)

CounterTypes == pendingMem \in Int /\ allocatedMem \in Int
FiniteInv ==
    /\ IsFiniteSet(held) /\ IsFiniteSet(Pulled)
    /\ IsFiniteSet(aborting) /\ IsFiniteSet(leaked)
GoneInv ==
    /\ aborting \subseteq Containers \ Live
    /\ leaked \subseteq Containers \ (Live \cup aborting)
    /\ \A c \in aborting \cup leaked : c.id <= lastId
SetsInv == CounterTypes /\ FiniteInv /\ GoneInv

LEMMA LiveTypes ==
  ASSUME JobInv
  PROVE  /\ held \subseteq Containers /\ Pulled \subseteq Containers
         /\ held \cap Pulled = {} /\ \A c \in Live : c.id <= lastId
<1>1. held \subseteq Containers /\ Pulled \subseteq Containers
  BY StatusTypes DEF JobInv, Pulled, Unfetched
<1>2. held \cap Pulled = {} /\ \A c \in held \cup Pulled : c.id <= lastId
  BY DEF JobInv, EndInv, ReportsInv, StatusInv, Settled, Pulled, Unfetched
<1> QED BY <1>1, <1>2 DEF Live

LEMMA InitSets == ASSUME WrapperInit PROVE SetsInv
<1>1. held = {} /\ Pulled = {} /\ aborting = {} /\ leaked = {}
      /\ pendingMem = 0 /\ allocatedMem = 0
  BY DEF WrapperInit, Init, Pulled
<1> QED BY <1>1, FS_EmptySet DEF SetsInv, CounterTypes, FiniteInv, GoneInv

LEMMA AccountTypes ==
  ASSUME SetsInv, NEW mem \in Int, Account(mem) PROVE CounterTypes'
<1>1. MemOf(Pulled) \in Nat BY MemOfType DEF SetsInv, FiniteInv
<1> QED BY <1>1 DEF SetsInv, CounterTypes, Account

LEMMA PullsSets ==
  ASSUME JobInv, SetsInv, Pulls, CounterTypes' PROVE SetsInv'
<1>1. FiniteInv' BY FS_Union, FS_EmptySet DEF SetsInv, FiniteInv, Pulls
<1>2. Live' = Live BY DEF Pulls, Live
<1>3. GoneInv' BY <1>2 DEF SetsInv, GoneInv, Pulls
<1> QED BY <1>1, <1>3 DEF SetsInv

LEMMA SetsStep ==
  ASSUME JobInv, ReducesAfterMaps, SetsInv, [WrapperNext]_allVars PROVE SetsInv'
<1> USE DEF SetsInv
<1>0. \A c \in Containers : Mem[c.kind] \in Nat /\ c.id \in Nat
  BY MemTypes DEF Containers
<1>1. CASE Allocate
  <2>1. CASE CallsEmpty
    <3>1. CounterTypes' BY <2>1, AccountTypes DEF CallsEmpty
    <3> QED BY <2>1, <3>1, PullsSets DEF CallsEmpty
  <2>2. ASSUME NEW k \in RequestKinds, NEW n \in Nat, Calls(k, n) PROVE SetsInv'
    <3>1. n * Mem[k] \in Int BY MemTypes, ProductType
    <3>2. CounterTypes' BY <2>2, <3>1, AccountTypes DEF Calls
    <3> QED BY <2>2, <3>2, PullsSets DEF Calls
  <2> QED BY <1>1, <2>1, <2>2, AllocateCalls
<1>2. CASE RemoveAttempt
  <2>1. held' = {} /\ Pulled' = {} /\ lastId' = lastId /\ aborting' = aborting
    BY <1>2, LastEffect DEF RemoveAttempt
  <2>2. \A c \in Live : c \in Containers /\ c.id <= lastId BY LiveTypes DEF Live
  <2>3. IsFiniteSet(Live) BY FS_Union DEF FiniteInv, Live
  <2>4. CASE UNCHANGED <<counterVars, leaked>>
    BY <2>1, <2>4, FS_EmptySet DEF CounterTypes, counterVars, FiniteInv, GoneInv, Live
  <2>5. ASSUME NEW c \in Live, allocatedMem' = allocatedMem - Mem[c.kind],
               leaked' = leaked \cup (Live \ {c}), pendingMem' = pendingMem
        PROVE  SetsInv'
    <3>1. CounterTypes' BY <1>0, <2>2, <2>5 DEF CounterTypes
    <3>2. IsFiniteSet(Live \ {c}) BY <2>3, FS_RemoveElement
    <3>3. IsFiniteSet(leaked') BY <2>5, <3>2, FS_Union DEF FiniteInv
    <3>4. FiniteInv' BY <2>1, <3>3, FS_EmptySet DEF FiniteInv
    <3>5. GoneInv' BY <2>1, <2>2, <2>5 DEF GoneInv, Live
    <3> QED BY <3>1, <3>4, <3>5
  <2> QED BY <1>2, <2>4, <2>5 DEF RemoveAttempt
<1>3. CASE Inside \/ UNCHANGED allVars
  <2>1. Stays BY <1>3, InsideStays
  <2> QED BY <2>1
       DEF Stays, wrapperVars, counterVars, CounterTypes, FiniteInv, GoneInv, Live
<1>4. ASSUME NEW k \in RequestKinds, Schedules(k) PROVE SetsInv'
  <2>1. PICK c \in Containers : /\ c.id = lastId + 1 /\ c \notin Live
                               /\ Pulled' = Pulled \cup {c}
    BY <1>4, SchedulesNew
  <2>2. /\ held' = held /\ UNCHANGED <<aborting, leaked, pendingMem, allocatedMem>>
        /\ lastId \in Nat /\ lastId' = lastId + 1
    BY <1>4, SchedulesNew DEF wrapperVars, counterVars
  <2>3. \A d \in aborting \cup leaked : d \in Containers /\ d.id <= lastId /\ d # c
    BY <1>0, <2>1, <2>2 DEF GoneInv
  <2>4. Live' = Live \cup {c} BY <2>1, <2>2 DEF Live
  <2>5. FiniteInv' BY <2>1, <2>2, FS_AddElement DEF FiniteInv
  <2>6. \A d \in aborting' \cup leaked' : d.id <= lastId'
    BY <1>0, <2>2, <2>3
  <2>7. GoneInv' BY <2>2, <2>3, <2>4, <2>6 DEF GoneInv
  <2> QED BY <2>2, <2>5, <2>7 DEF CounterTypes
<1>5. ASSUME NEW c \in held, Succeeded(c) PROVE SetsInv'
  <2>1. /\ held' = held \ {c} /\ UNCHANGED <<Pulled, lastId>>
        /\ allocatedMem' = allocatedMem - Mem[c.kind]
        /\ UNCHANGED <<pendingMem, aborting, leaked>>
    BY <1>5, ExitEffect DEF Succeeded, NMCompletes
  <2>2. CounterTypes' BY <1>0, <2>1, LiveTypes DEF CounterTypes
  <2>3. FiniteInv' BY <2>1, FS_RemoveElement DEF FiniteInv
  <2>4. GoneInv' BY <2>1 DEF GoneInv, Live
  <2> QED BY <2>2, <2>3, <2>4
<1>6. ASSUME NEW c \in held, SchedulerKills(c) PROVE SetsInv'
  <2>1. /\ held' = held \ {c} /\ UNCHANGED <<Pulled, lastId>>
        /\ aborting' = aborting \cup {c} /\ UNCHANGED <<pendingMem, allocatedMem, leaked>>
    BY <1>6, ExitEffect DEF SchedulerKills, RMKill, counterVars
  <2>2. FiniteInv' BY <2>1, FS_RemoveElement, FS_AddElement DEF FiniteInv
  <2>3. c \in Containers /\ c \notin Pulled /\ c.id <= lastId BY LiveTypes DEF Live
  <2>4. GoneInv' BY <2>1, <2>3 DEF GoneInv, Live
  <2> QED BY <2>1, <2>2, <2>4 DEF CounterTypes
<1>7. ASSUME NEW c \in aborting, Aborted(c) PROVE SetsInv'
  <2>1. /\ UNCHANGED <<held, Pulled, lastId, pendingMem>> /\ aborting' = aborting \ {c}
        /\ \/ allocatedMem' = allocatedMem - Mem[c.kind] /\ leaked' = leaked
           \/ leaked' = leaked \cup {c} /\ allocatedMem' = allocatedMem
    BY <1>7 DEF Aborted, vars, rmVars, pullVars, Pulled
  <2>2. c \in Containers /\ c \notin Live BY DEF GoneInv
  <2>3. CounterTypes' BY <1>0, <2>1, <2>2 DEF CounterTypes
  <2>4. IsFiniteSet(aborting \ {c}) /\ IsFiniteSet(leaked \cup {c})
    BY FS_RemoveElement, FS_AddElement DEF FiniteInv
  <2>5. FiniteInv' BY <2>1, <2>4 DEF FiniteInv
  <2>6. GoneInv' BY <2>1, <2>2 DEF GoneInv, Live
  <2> QED BY <2>3, <2>5, <2>6
<1> QED BY <1>1, <1>2, <1>3, <1>4, <1>5, <1>6, <1>7 DEF WrapperNext


WrapperInv == AttemptInv /\ SetsInv

(* What the sets are in every state, with what is known of the AM.          *)
LEMMA WrapperInvariant == WrapperSpec => []WrapperInv
<1>1. AttemptInv /\ SetsInv /\ [WrapperNext]_allVars => SetsInv'
  BY SetsStep DEF AttemptInv
<1>2. AttemptInv /\ SetsInv => WrapperInv BY DEF WrapperInv
<1> QED BY <1>1, <1>2, InitSets, AttemptInvariant, PTL DEF WrapperSpec

(* The counters are whole numbers, and a killed container or one that the    *)
(* counter lost is never one that the application still has.                *)
THEOREM WrapperTypeCorrect == WrapperSpec => []WrapperTypeOK
<1>1. WrapperInv => WrapperTypeOK
  BY TypeInvImplies
     DEF WrapperInv, AttemptInv, JobInv, SetsInv, CounterTypes, GoneInv, WrapperTypeOK
<1> QED BY <1>1, WrapperInvariant, PTL

-----------------------------------------------------------------------------
(* The pending memory.                                                      *)

Due(k) == demand[k] * Mem[k]

LEMMA OwedMemIs ==
  ASSUME RMTypes, IsFiniteSet(Pulled)
  PROVE  /\ OwedMem = Due("am") + Due("map") + Due("reduce") + MemOf(Pulled)
         /\ \A k \in RequestKinds : Due(k) \in Nat
         /\ MemOf(Pulled) \in Nat
<1>1. \A k \in RequestKinds : demand[k] \in Nat /\ Mem[k] \in Nat
  BY MemTypes DEF RMTypes
<1>2. \A k \in RequestKinds : Due(k) \in Nat BY <1>1, ProductType DEF Due
<1> QED BY <1>2, MemOfType DEF OwedMem, Due

LEMMA DueMoves ==
  ASSUME WrapperInv, RMTypes', SetsInv', NEW k \in RequestKinds,
         \A j \in RequestKinds \ {k} : demand'[j] = demand[j]
  PROVE  /\ OwedMem \in Nat /\ OwedMem' \in Nat
         /\ Due(k) \in Nat /\ Due(k)' \in Nat
         /\ MemOf(Pulled) \in Nat /\ MemOf(Pulled)' \in Nat
         /\ OwedMem' - Due(k)' - MemOf(Pulled)' = OwedMem - Due(k) - MemOf(Pulled)
<1>1. RMTypes BY DEF WrapperInv, AttemptInv, JobInv, TypeInv
<1>2. /\ OwedMem = Due("am") + Due("map") + Due("reduce") + MemOf(Pulled)
      /\ \A j \in RequestKinds : Due(j) \in Nat
      /\ MemOf(Pulled) \in Nat
  BY <1>1, OwedMemIs DEF WrapperInv, SetsInv, FiniteInv
<1>3. /\ OwedMem' = Due("am")' + Due("map")' + Due("reduce")' + MemOf(Pulled)'
      /\ \A j \in RequestKinds : Due(j)' \in Nat
      /\ MemOf(Pulled)' \in Nat
  <2>1. IsFiniteSet(Pulled)' BY DEF SetsInv, FiniteInv
  <2>2. \A j \in RequestKinds : demand'[j] \in Nat /\ Mem[j] \in Nat
    BY MemTypes DEF RMTypes
  <2>3. \A j \in RequestKinds : Due(j)' \in Nat BY <2>2, ProductType DEF Due
  <2>4. MemOf(Pulled') \in Nat BY <2>1, MemOfType
  <2>5. MemOf(Pulled)' = MemOf(Pulled') BY DEF MemOf
  <2> QED BY <2>3, <2>4, <2>5 DEF OwedMem, Due
<1>4. \A j \in RequestKinds \ {k} : Due(j)' = Due(j) BY DEF Due
<1>5. /\ "am" \in RequestKinds /\ "map" \in RequestKinds /\ "reduce" \in RequestKinds
      /\ k = "am" \/ k = "map" \/ k = "reduce"
  BY DEF RequestKinds, Kinds
<1>6. /\ Due("am") \in Nat /\ Due("map") \in Nat /\ Due("reduce") \in Nat
      /\ Due("am")' \in Nat /\ Due("map")' \in Nat /\ Due("reduce")' \in Nat
  BY <1>2, <1>3, <1>5
<1>7. CASE k = "am"
  <2>1. Due("map")' = Due("map") /\ Due("reduce")' = Due("reduce")
    BY <1>4, <1>5, <1>7
  <2> QED BY <1>2, <1>3, <1>6, <1>7, <2>1
<1>8. CASE k = "map"
  <2>1. Due("am")' = Due("am") /\ Due("reduce")' = Due("reduce")
    BY <1>4, <1>5, <1>8
  <2> QED BY <1>2, <1>3, <1>6, <1>8, <2>1
<1>9. CASE k = "reduce"
  <2>1. Due("am")' = Due("am") /\ Due("map")' = Due("map")
    BY <1>4, <1>5, <1>9
  <2> QED BY <1>2, <1>3, <1>6, <1>9, <2>1
<1> QED BY <1>5, <1>7, <1>8, <1>9

LEMMA InitPending == ASSUME WrapperInit PROVE PendingIsOwed
<1>1. Pulled = {} /\ pendingMem = 0 BY DEF WrapperInit, Init, Pulled
<1>2. demand["am"] = 0 /\ demand["map"] = 0 /\ demand["reduce"] = 0
  BY DEF WrapperInit, Init, RequestKinds, Kinds
<1>3. OwedMem = 0 BY <1>1, <1>2, MemOfEmpty, MemTypes, ProductZero DEF OwedMem
<1> QED BY <1>1, <1>3 DEF PendingIsOwed

(* A request adds to the counter what it adds to what is owed, or more if it *)
(* replaces one that is open; an allocation moves what is owed.             *)
LEMMA PendingStep ==
  ASSUME WrapperInv, PendingIsOwed, [WrapperNext]_allVars, WrapperInv'
  PROVE  PendingIsOwed'
<1>1. RMTypes /\ RMTypes' /\ SetsInv /\ SetsInv' /\ JobInv /\ ReducesAfterMaps
  BY DEF WrapperInv, AttemptInv, JobInv, TypeInv
<1>2. pendingMem \in Int BY <1>1 DEF SetsInv, CounterTypes
<1>3. ASSUME NEW k \in RequestKinds, NEW n \in Nat, Calls(k, n) PROVE PendingIsOwed'
  <2>1. /\ pc # "done" /\ Pulled' = {} /\ demand' = [demand EXCEPT ![k] = n]
        /\ pendingMem' = pendingMem + n * Mem[k] - MemOf(Pulled)
        /\ restarts' = 0 => restarts = 0 /\ demand[k] = 0
    BY <1>3 DEF Calls, Pulls, Account
  <2>2. /\ OwedMem \in Nat /\ OwedMem' \in Nat
        /\ Due(k) \in Nat /\ Due(k)' \in Nat
        /\ MemOf(Pulled) \in Nat /\ MemOf(Pulled)' \in Nat
        /\ OwedMem' - Due(k)' - MemOf(Pulled)' = OwedMem - Due(k) - MemOf(Pulled)
    BY <1>1, <2>1, DueMoves DEF RMTypes
  <2>3. Due(k)' = n * Mem[k] BY <1>1, <2>1 DEF Due, RMTypes
  <2>4. MemOf(Pulled)' = 0 BY <2>1, MemOfEmpty DEF MemOf
  <2>5. restarts' = 0 => Due(k) = 0 BY <2>1, MemTypes, ProductZero DEF Due
  <2> DEFINE d == Due(k)
             e == Due(k)'
             m == MemOf(Pulled)
  <2>6. pendingMem' = pendingMem + e - m BY <2>1, <2>3
  <2>7. OwedMem' = OwedMem - d - m + e BY <2>2, <2>4
  <2>8. pendingMem >= OwedMem /\ (restarts = 0 => pendingMem = OwedMem)
    BY <2>1 DEF PendingIsOwed
  <2>9. d \in Nat /\ e \in Nat /\ m \in Nat /\ OwedMem \in Nat /\ OwedMem' \in Nat
    BY <2>2
  <2> HIDE DEF d, e, m
  <2>10. pendingMem' >= OwedMem' BY <1>2, <2>6, <2>7, <2>8, <2>9
  <2>11. ASSUME restarts' = 0 PROVE pendingMem' = OwedMem'
    <3>1. d = 0 /\ pendingMem = OwedMem BY <2>1, <2>5, <2>8, <2>11 DEF d
    <3> QED BY <1>2, <2>6, <2>7, <2>9, <3>1
  <2> QED BY <2>10, <2>11 DEF PendingIsOwed
<1>4. CASE CallsEmpty
  <2>1. /\ pc # "done" /\ Pulled' = {} /\ demand' = demand /\ restarts' = restarts
        /\ pendingMem' = pendingMem + 0 - MemOf(Pulled)
    BY <1>4 DEF CallsEmpty, Pulls, Account
  <2>2. MemOf(Pulled) \in Nat /\ OwedMem \in Nat
    BY <1>1, <2>1, DueMoves DEF RequestKinds
  <2>3. MemOf(Pulled)' = 0 BY <2>1, MemOfEmpty DEF MemOf
  <2>4. Due("am")' = Due("am") /\ Due("map")' = Due("map")
        /\ Due("reduce")' = Due("reduce")
    BY <2>1 DEF Due
  <2>5. /\ OwedMem' \in Nat /\ Due("am") \in Nat
        /\ OwedMem' - Due("am")' - MemOf(Pulled)' = OwedMem - Due("am") - MemOf(Pulled)
    BY <1>1, <2>1, DueMoves DEF RequestKinds
  <2>6. OwedMem' = OwedMem - MemOf(Pulled) BY <2>2, <2>3, <2>4, <2>5
  <2> QED BY <1>2, <2>1, <2>2, <2>6 DEF PendingIsOwed
<1>5. ASSUME NEW k \in RequestKinds, Schedules(k) PROVE PendingIsOwed'
  <2>1. /\ demand[k] \in Nat /\ demand[k] > 0
        /\ demand' = [demand EXCEPT ![k] = @ - 1]
        /\ UNCHANGED <<restarts, pc, pendingMem>>
        /\ \E c \in Containers : /\ c.kind = k /\ c \notin Live
                                 /\ Pulled' = Pulled \cup {c}
    BY <1>1, <1>5, SchedulesNew DEF wrapperVars, counterVars
  <2>2. /\ OwedMem \in Nat /\ OwedMem' \in Nat
        /\ Due(k) \in Nat /\ Due(k)' \in Nat
        /\ MemOf(Pulled) \in Nat /\ MemOf(Pulled)' \in Nat
        /\ OwedMem' - Due(k)' - MemOf(Pulled)' = OwedMem - Due(k) - MemOf(Pulled)
    BY <1>1, <2>1, DueMoves DEF RMTypes
  <2>3. Mem[k] \in Nat BY MemTypes
  <2>4. Due(k) = Due(k)' + Mem[k]
    <3>1. demand'[k] \in Nat /\ demand[k] = demand'[k] + 1
      BY <1>1, <2>1 DEF RMTypes
    <3>2. Mem[k] * demand[k] = Mem[k] * demand'[k] + Mem[k]
      BY <2>3, <3>1, ProductNext
    <3> QED BY <2>1, <2>3, <3>1, <3>2, ProductSwaps DEF Due
  <2>5. MemOf(Pulled)' = MemOf(Pulled) + Mem[k]
    <3>1. PICK c \in Containers : /\ c.kind = k /\ c \notin Live
                                 /\ Pulled' = Pulled \cup {c}
      BY <2>1
    <3>2. MemOf(Pulled \cup {c}) = MemOf(Pulled) + Mem[k]
      BY <1>1, <3>1, MemOfAdd DEF Live, SetsInv, FiniteInv
    <3>3. MemOf(Pulled)' = MemOf(Pulled') BY DEF MemOf
    <3> QED BY <3>1, <3>2, <3>3
  <2>6. OwedMem' = OwedMem BY <2>2, <2>3, <2>4, <2>5
  <2> QED BY <2>1, <2>6 DEF PendingIsOwed
<1>6. ASSUME UNCHANGED <<Pulled, demand, pendingMem>>,
             restarts' = restarts, pc' # "done" => pc # "done"
      PROVE  PendingIsOwed'
  <2>1. OwedMem' = OwedMem BY <1>6 DEF OwedMem, MemOf
  <2> QED BY <1>6, <2>1 DEF PendingIsOwed
<1>7. CASE Allocate BY <1>1, <1>3, <1>4, <1>7, AllocateCalls
<1>8. CASE RemoveAttempt BY <1>8, LastEffect DEF RemoveAttempt, PendingIsOwed
<1>9. CASE Inside \/ UNCHANGED allVars
  <2>1. Stays BY <1>9, InsideStays
  <2> QED BY <1>6, <2>1 DEF Stays, wrapperVars, counterVars
<1>10. CASE \E c \in held : Succeeded(c) \/ SchedulerKills(c)
  <2>1. \E c, b : Exit(c, b)
    BY <1>10 DEF Succeeded, SchedulerKills, NMCompletes, RMKill
  <2>2. pendingMem' = pendingMem BY <1>10 DEF Succeeded, SchedulerKills, counterVars
  <2> QED BY <1>6, <2>1, <2>2, ExitEffect
<1>11. CASE \E c \in aborting : Aborted(c)
  BY <1>6, <1>11 DEF Aborted, vars, rmVars, pullVars, Pulled
<1> QED BY <1>5, <1>7, <1>8, <1>9, <1>10, <1>11 DEF WrapperNext

(* The pending memory of the queue is what the scheduler owes and what waits *)
(* to be pulled, exactly, until a restart, and never less after one: the     *)
(* counter adds up the requests though each replaces the one before it.     *)
THEOREM PendingAddsUp == WrapperSpec => []PendingIsOwed
<1>1. WrapperInv /\ PendingIsOwed /\ [WrapperNext]_allVars /\ WrapperInv' => PendingIsOwed'
  BY PendingStep
<1> QED BY <1>1, InitPending, WrapperInvariant, PTL DEF WrapperSpec

-----------------------------------------------------------------------------
(* The allocated memory.                                                    *)

AllocInv ==
    restarts = 0 \/ pc # "done" =>
        allocatedMem = MemOf(held) + MemOf(aborting) + MemOf(leaked)

LEMMA InitAlloc == ASSUME WrapperInit PROVE AllocInv
<1>1. held = {} /\ aborting = {} /\ leaked = {} /\ allocatedMem = 0
  BY DEF WrapperInit, Init
<1> QED BY <1>1, MemOfEmpty DEF AllocInv

(* A container that is held, killed or lost moves, or is new.               *)
LEMMA AllocStep ==
  ASSUME WrapperInv, AllocInv, [WrapperNext]_allVars PROVE AllocInv'
<1>1. SetsInv /\ JobInv /\ ReducesAfterMaps BY DEF WrapperInv, AttemptInv
<1>2. /\ IsFiniteSet(held) /\ IsFiniteSet(Pulled)
      /\ IsFiniteSet(aborting) /\ IsFiniteSet(leaked)
      /\ allocatedMem \in Int
  BY <1>1 DEF SetsInv, FiniteInv, CounterTypes
<1>3. /\ MemOf(held) \in Nat /\ MemOf(Pulled) \in Nat
      /\ MemOf(aborting) \in Nat /\ MemOf(leaked) \in Nat
  BY <1>2, MemOfType
<1>4. /\ MemOf(held)' = MemOf(held') /\ MemOf(aborting)' = MemOf(aborting')
      /\ MemOf(leaked)' = MemOf(leaked')
  BY DEF MemOf
<1>5. \A c \in Containers : Mem[c.kind] \in Nat BY MemTypes DEF Containers
<1>6. CASE Allocate
  <2>1. Pulls /\ allocatedMem' = allocatedMem + MemOf(Pulled)
    BY <1>1, <1>6, AllocateCalls DEF CallsEmpty, Calls, Account
  <2>2. held \cap Pulled = {} BY <1>1, LiveTypes
  <2>3. MemOf(held') = MemOf(held) + MemOf(Pulled)
    BY <1>2, <2>1, <2>2, MemOfUnion DEF Pulls
  <2>4. pc # "done" /\ aborting' = aborting /\ leaked' = leaked BY <2>1 DEF Pulls
  <2> QED BY <1>2, <1>3, <1>4, <2>1, <2>3, <2>4 DEF AllocInv
<1>7. CASE RemoveAttempt
  <2>1. /\ pc = "stopping" /\ pc' = "done" /\ held' = {} /\ aborting' = aborting
        /\ restarts' = restarts
    BY <1>7, LastEffect DEF RemoveAttempt
  <2>2. SUFFICES ASSUME restarts = 0
                 PROVE  allocatedMem' = MemOf(held') + MemOf(aborting') + MemOf(leaked')
    BY <1>4, <2>1 DEF AllocInv
  <2>3. Pulled = {} /\ Live \subseteq {amContainer}
    BY <2>1, <2>2, StopMeans DEF WrapperInv, AttemptInv
  <2>4. allocatedMem = MemOf(held) + MemOf(aborting) + MemOf(leaked)
    BY <2>2 DEF AllocInv
  <2>5. CASE Live = {}
    <3>1. held = {} BY <2>5 DEF Live
    <3>2. allocatedMem' = allocatedMem /\ leaked' = leaked
      BY <1>7, <2>5 DEF RemoveAttempt, counterVars
    <3> QED BY <2>1, <2>4, <3>1, <3>2
  <2>6. CASE Live # {}
    <3>1. PICK c \in Live : /\ allocatedMem' = allocatedMem - Mem[c.kind]
                           /\ leaked' = leaked \cup (Live \ {c})
      BY <1>7, <2>6 DEF RemoveAttempt
    <3>2. Live = {c} /\ held = {c} /\ leaked' = leaked BY <2>3, <3>1 DEF Live
    <3>3. c \in Containers BY <1>1, <3>1, LiveTypes DEF Live
    <3>4. held \ {c} = {} BY <3>2
    <3>5. MemOf({}) = MemOf(held) - Mem[c.kind]
      BY <1>2, <3>2, <3>3, <3>4, MemOfRemove
    <3>6. MemOf(held) = Mem[c.kind] /\ Mem[c.kind] \in Nat
      BY <1>3, <1>5, <3>3, <3>5, MemOfEmpty
    <3>7. allocatedMem' = MemOf(aborting) + MemOf(leaked)
      BY <1>2, <1>3, <2>4, <3>1, <3>6
    <3>8. MemOf(held') = 0 /\ aborting' = aborting /\ leaked' = leaked
      BY <2>1, <3>2, MemOfEmpty
    <3> QED BY <1>3, <3>7, <3>8
  <2> QED BY <2>5, <2>6
<1>8. CASE Inside \/ (\E k \in RequestKinds : Schedules(k)) \/ UNCHANGED allVars
  <2>1. /\ UNCHANGED <<held, aborting, leaked, allocatedMem, restarts>>
        /\ (pc' = "done") = (pc = "done")
    <3>1. CASE Inside \/ UNCHANGED allVars
      BY <3>1, InsideStays DEF Stays, wrapperVars, counterVars
    <3>2. ASSUME NEW k \in RequestKinds, Schedules(k)
          PROVE  UNCHANGED <<held, aborting, leaked, allocatedMem, restarts, pc>>
      BY <1>1, <3>2, SchedulesNew DEF wrapperVars, counterVars
    <3> QED BY <1>8, <3>1, <3>2
  <2> QED BY <1>4, <2>1 DEF AllocInv
<1>9. ASSUME NEW c \in held, Succeeded(c) PROVE AllocInv'
  <2>1. /\ held' = held \ {c} /\ UNCHANGED <<aborting, leaked, restarts, pc>>
        /\ allocatedMem' = allocatedMem - Mem[c.kind]
    BY <1>9, ExitEffect DEF Succeeded, NMCompletes
  <2>2. c \in Containers BY <1>1, LiveTypes
  <2>3. MemOf(held') = MemOf(held) - Mem[c.kind] BY <1>2, <2>1, <2>2, MemOfRemove
  <2> QED BY <1>2, <1>3, <1>4, <1>5, <2>1, <2>2, <2>3 DEF AllocInv
<1>10. ASSUME NEW c \in held, SchedulerKills(c) PROVE AllocInv'
  <2>1. /\ held' = held \ {c} /\ aborting' = aborting \cup {c}
        /\ UNCHANGED <<leaked, restarts, pc, allocatedMem>>
    BY <1>10, ExitEffect DEF SchedulerKills, RMKill, counterVars
  <2>2. c \in Containers /\ c \notin aborting
    BY <1>1, LiveTypes DEF SetsInv, GoneInv, Live
  <2>3. MemOf(held') = MemOf(held) - Mem[c.kind] BY <1>2, <2>1, <2>2, MemOfRemove
  <2>4. MemOf(aborting') = MemOf(aborting) + Mem[c.kind] BY <1>2, <2>1, <2>2, MemOfAdd
  <2> QED BY <1>2, <1>3, <1>4, <1>5, <2>1, <2>2, <2>3, <2>4 DEF AllocInv
<1>11. ASSUME NEW c \in aborting, Aborted(c) PROVE AllocInv'
  <2>1. /\ UNCHANGED <<held, restarts, pc>> /\ aborting' = aborting \ {c}
        /\ \/ allocatedMem' = allocatedMem - Mem[c.kind] /\ leaked' = leaked
           \/ leaked' = leaked \cup {c} /\ allocatedMem' = allocatedMem
    BY <1>11 DEF Aborted, vars, rmVars, pullVars
  <2>2. c \in Containers /\ c \notin leaked BY <1>1 DEF SetsInv, GoneInv
  <2>3. MemOf(aborting') = MemOf(aborting) - Mem[c.kind]
    BY <1>2, <2>1, <2>2, MemOfRemove
  <2>4. MemOf(leaked \cup {c}) = MemOf(leaked) + Mem[c.kind] BY <1>2, <2>2, MemOfAdd
  <2>5. Mem[c.kind] \in Nat BY <1>5, <2>2
  <2>6. CASE allocatedMem' = allocatedMem - Mem[c.kind] /\ leaked' = leaked
    BY <1>2, <1>3, <1>4, <2>1, <2>3, <2>5, <2>6 DEF AllocInv
  <2>7. CASE leaked' = leaked \cup {c} /\ allocatedMem' = allocatedMem
    BY <1>2, <1>3, <1>4, <2>1, <2>3, <2>4, <2>5, <2>7 DEF AllocInv
  <2> QED BY <2>1, <2>6, <2>7
<1> QED BY <1>6, <1>7, <1>8, <1>9, <1>10, <1>11 DEF WrapperNext

(* Without a kill nothing is lost: no report is of a failure, so that the    *)
(* job is not restarted, and it ends with nothing owed and nothing held.    *)
NoKill == \A v \in DOMAIN kills : kills[v] = 0
UnharmedInv ==
    NoKill => /\ restarts = 0 /\ aborting = {} /\ leaked = {}
              /\ \A s \in Reported : s.success
RemovedInv ==
    pc = "done" => held = {} /\ (restarts = 0 => pendingMem = 0)

LEMMA KillsKept ==
  ASSUME AMStep \/ Allocate \/ RemoveAttempt \/ Inside PROVE kills' = kills
<1>1. ASSUME AMStep PROVE kills' = kills
  <2>1. CASE FirstStep \/ StartAM \/ PollForAM \/ TakeResponse
    BY <2>1 DEF FirstStep, AskForAM, AllocateCall, StartAM, PollForAM, TakeResponse, rmVars
  <2>2. CASE ProcessStatus
    BY <2>2 DEF ProcessStatus, ContainerSucceeded, TaskKilled, Restart, AskForAM,
                AllocateCall, rmVars
  <2>3. CASE CheckFinished \/ Launch \/ ResponseProcessed \/ CheckStop \/ LastStep
    BY <2>3 DEF CheckFinished, Launch, ResponseProcessed, CheckStop, LastStep, rmVars
  <2>4. CASE RequestNothing \/ \E k \in Kinds : RequestPending(k) \/ RequestFailed(k)
    BY <2>4 DEF RequestNothing, RequestPending, RequestFailed, Request, AllocateCall
  <2> QED BY <1>1, <2>1, <2>2, <2>3, <2>4 DEF AMStep
<1>2. ASSUME Allocate \/ RemoveAttempt \/ Inside PROVE AMStep
  BY <1>2 DEF Allocate, RemoveAttempt, Inside, AMStep, ProcessStatus
<1> QED BY <1>1, <1>2

(* A step of the AM moves or forgets reports, it makes none.                *)
LEMMA ReportedKept ==
  ASSUME TypeInv, AMStep \/ (\E k \in RequestKinds : RMAllocate(k)) \/ UNCHANGED vars
  PROVE  Reported' \subseteq Reported
<1> USE DEF TypeInv
<1>1. ASSUME exited' \subseteq exited, responseQueue' = responseQueue,
             TakenDone' \subseteq TakenDone
      PROVE  Reported' \subseteq Reported
  BY <1>1 DEF Reported, QueuedDone
<1>2. CASE FirstStep \/ StartAM \/ CheckFinished \/ CheckStop \/ UNCHANGED vars
           \/ \E k \in RequestKinds : RMAllocate(k)
  <2>1. /\ exited' \subseteq exited /\ responseQueue' = responseQueue
        /\ response' = response
    BY <1>2 DEF FirstStep, AskForAM, AllocateCall, StartAM, CheckFinished, CheckStop,
                RMAllocate, vars, queueVars, rmVars, pullVars
  <2> QED BY <1>1, <2>1 DEF TakenDone
<1>3. CASE PollForAM
  <2>1. responseQueue' = <<>> /\ responseQueue = <<>> /\ response' = response
        /\ exited' = {}
    BY <1>3, PollForAMTypes DEF PollForAM, AllocateCall, AnswerInv
  <2> QED BY <1>1, <2>1 DEF TakenDone
<1>4. CASE TakeResponse
  <2>1. /\ responseQueue # <<>> /\ Head(responseQueue) \in Responses
        /\ responseQueue' = <<>> /\ response' = Head(responseQueue)
        /\ exited' = exited
    BY <1>4, OneAnswer, TakeResponseTypes DEF TakeResponse, rmVars, pullVars, AnswerInv
  <2> QED BY <2>1, NoneAssumption DEF Reported, TakenDone, QueuedDone
<1>5. CASE ProcessStatus
  <2>1. PICK s : Consume(s) /\ responseQueue' = responseQueue /\ exited' \subseteq exited
    BY <1>5 DEF ProcessStatus, ContainerSucceeded, TaskKilled, Restart, AskForAM,
                AllocateCall, rmVars, pullVars
  <2>2. response \in Responses BY <1>5 DEF ProcessStatus, AnswerInv
  <2>3. response' \in Responses /\ response'.completed = response.completed \ {s}
    BY <2>1, <2>2, ConsumeTypes
  <2> QED BY <1>1, <2>1, <2>2, <2>3, NoneAssumption DEF TakenDone
<1>6. CASE Launch
  <2>1. /\ responseQueue' = responseQueue /\ exited' = exited
        /\ response' = [response EXCEPT !.allocated = Tail(@)]
    BY <1>6 DEF Launch, pullVars
  <2>2. response \in Responses BY <1>6 DEF Launch, AnswerInv
  <2>3. response'.completed = response.completed BY <2>1, <2>2 DEF Responses
  <2> QED BY <1>1, <2>1, <2>2, <2>3, NoneAssumption DEF TakenDone
<1>7. CASE ResponseProcessed \/ LastStep
  <2>1. /\ exited' \subseteq exited
        /\ responseQueue' \in {responseQueue, <<>>}
        /\ response' \in {response, NoResponse}
    BY <1>7 DEF ResponseProcessed, LastStep, rmVars, pullVars
  <2> QED BY <2>1 DEF Reported, TakenDone, QueuedDone
<1>8. CASE RequestNothing \/ \E k \in Kinds : RequestPending(k) \/ RequestFailed(k)
  <2>1. PICK ask : AllocateCall(ask)
    BY <1>8 DEF RequestNothing, RequestPending, RequestFailed, Request
  <2>2. responseQueue' = <<Answer>> BY <1>8, RequestTypes, RequestNothingTypes
  <2>3. response' = response
    BY <1>8 DEF RequestNothing, RequestPending, RequestFailed, Request
  <2>4. QueuedDone' = exited /\ exited' = {} /\ TakenDone' = TakenDone
    BY <2>1, <2>2, <2>3, CallEffect DEF QueuedDone, TakenDone
  <2> QED BY <2>4 DEF Reported
<1> QED BY <1>2, <1>3, <1>4, <1>5, <1>6, <1>7, <1>8 DEF AMStep

LEMMA ReportedExit ==
  ASSUME NEW c, NEW b, Exit(c, b)
  PROVE  Reported' = Reported \cup {[container |-> c, success |-> b]}
BY DEF Exit, queueVars, Reported, QueuedDone, TakenDone

LEMMA InitUnharmed == ASSUME WrapperInit PROVE UnharmedInv /\ RemovedInv
BY DEF WrapperInit, Init, UnharmedInv, RemovedInv, Reported, QueuedDone, TakenDone

LEMMA UnharmedStep ==
  ASSUME WrapperInv, UnharmedInv, [WrapperNext]_allVars PROVE UnharmedInv'
<1>1. TypeInv /\ JobInv /\ HeldInv /\ StopInv
  BY DEF WrapperInv, AttemptInv, JobInv
<1>2. ASSUME AMStep, UNCHANGED aborting,
             NoKill => restarts' = restarts /\ leaked' = leaked,
             kills' = kills
      PROVE  UnharmedInv'
  BY <1>1, <1>2, ReportedKept DEF UnharmedInv, NoKill
<1>3. CASE Allocate
  <2>1. AMStep /\ UNCHANGED <<aborting, leaked>>
    BY <1>3 DEF Allocate, AMStep, ProcessStatus
  <2>2. ASSUME NoKill PROVE restarts' = restarts
    <3>1. ASSUME pc = "completed", NEW s \in response.completed, Restart(s) PROVE FALSE
      <4>1. s \in Reported
        BY <1>1, <3>1, StatusTypes DEF TypeInv, AnswerInv, Reported
      <4> QED BY <2>2, <3>1, <4>1 DEF Restart, UnharmedInv
    <3> QED BY <1>3, <3>1
         DEF Allocate, FirstStep, PollForAM, RequestNothing, RequestPending,
             RequestFailed, Request
  <2> QED BY <1>2, <1>3, <2>1, <2>2, KillsKept
<1>4. CASE RemoveAttempt
  <2>1. AMStep /\ pc = "stopping" /\ restarts' = restarts /\ aborting' = aborting
    BY <1>4 DEF RemoveAttempt, AMStep, LastStep
  <2>2. ASSUME NoKill PROVE leaked' = leaked
    <3>1. Live \subseteq {amContainer} BY <1>1, <2>1, <2>2, StopMeans DEF UnharmedInv
    <3>2. \A c \in Live : Live \ {c} = {} BY <3>1
    <3> QED BY <1>4, <3>2 DEF RemoveAttempt
  <2> QED BY <1>2, <1>4, <2>1, <2>2, KillsKept
<1>5. CASE Inside
  <2>1. AMStep BY <1>5 DEF Inside, AMStep, ProcessStatus
  <2>2. Stays BY <1>5, InsideStays
  <2> QED BY <1>2, <1>5, <2>1, <2>2, KillsKept DEF Stays, wrapperVars
<1>6. CASE (\E k \in RequestKinds : Schedules(k)) \/ UNCHANGED allVars
  <2>1. /\ UNCHANGED <<aborting, leaked, restarts, kills>>
        /\ (\E k \in RequestKinds : RMAllocate(k)) \/ UNCHANGED vars
    BY <1>6 DEF Schedules, RMAllocate, wrapperVars, allVars, vars, rmVars
  <2> QED BY <1>1, <2>1, ReportedKept DEF UnharmedInv, NoKill
<1>7. ASSUME NEW c \in held, Succeeded(c) PROVE UnharmedInv'
  <2>1. /\ Exit(c, TRUE) /\ UNCHANGED <<kills, aborting, leaked>>
    BY <1>7 DEF Succeeded, NMCompletes
  <2>2. \A s \in Reported' : s \in Reported \/ s.success = TRUE
    <3> DEFINE r == [container |-> c, success |-> TRUE]
    <3>1. r.success = TRUE OBVIOUS
    <3>2. Reported' = Reported \cup {r} BY <2>1, ReportedExit
    <3> HIDE DEF r
    <3> QED BY <3>1, <3>2
  <2>3. restarts' = restarts BY <2>1, ExitEffect
  <2> QED BY <2>1, <2>2, <2>3 DEF UnharmedInv, NoKill
<1>8. ASSUME NEW c \in held, SchedulerKills(c) PROVE ~NoKill'
  <2>1. PICK v \in {"am", "task"} : kills' = [kills EXCEPT ![v] = @ + 1]
    BY <1>8 DEF SchedulerKills, RMKill
  <2>2. v \in DOMAIN kills' /\ kills'[v] = kills[v] + 1 /\ kills[v] \in Nat
    BY <1>1, <2>1 DEF TypeInv, RMTypes
  <2>3. kills'[v] # 0 BY <2>2
  <2> QED BY <2>2, <2>3 DEF NoKill
<1>9. ASSUME NEW c \in aborting, Aborted(c) PROVE ~NoKill'
  <2>1. kills' = kills BY <1>9 DEF Aborted, vars, rmVars
  <2> QED BY <2>1 DEF UnharmedInv, NoKill
<1>10. ASSUME ~NoKill' PROVE UnharmedInv' BY <1>10 DEF UnharmedInv
<1> QED BY <1>3, <1>4, <1>5, <1>6, <1>7, <1>8, <1>9, <1>10 DEF WrapperNext

(* What is asked for is all there, and was pulled, when the job is finished. *)
LEMMA RemovedStep ==
  ASSUME WrapperInv, PendingIsOwed, RemovedInv, [WrapperNext]_allVars PROVE RemovedInv'
<1>1. JobInv /\ HeldInv /\ StopInv /\ RMTypes
  BY DEF WrapperInv, AttemptInv, JobInv, TypeInv
<1>2. ASSUME pc' # "done" PROVE RemovedInv' BY <1>2 DEF RemovedInv
<1>3. CASE Allocate
  <2>1. pc' # "done"
    BY <1>1, <1>3, AllocateCalls DEF CallsEmpty, Calls, Pulls, WrapperInv, AttemptInv
  <2> QED BY <1>2, <2>1
<1>4. CASE RemoveAttempt
  <2>1. pc = "stopping" /\ held' = {} /\ restarts' = restarts /\ pendingMem' = pendingMem
    BY <1>4, LastEffect DEF RemoveAttempt, counterVars
  <2>2. ASSUME restarts = 0 PROVE pendingMem = 0
    <3>1. /\ Pulled = {} /\ demand["am"] = 0 /\ demand["map"] = 0
          /\ demand["reduce"] = 0
      BY <1>1, <2>1, <2>2, StopMeans DEF Asked
    <3>2. OwedMem = 0 BY <3>1, MemOfEmpty, MemTypes, ProductZero DEF OwedMem
    <3> QED BY <2>1, <2>2, <3>2 DEF PendingIsOwed
  <2> QED BY <2>1, <2>2 DEF RemovedInv
<1>5. CASE Inside \/ UNCHANGED allVars
  <2>1. Stays BY <1>5, InsideStays
  <2> QED BY <2>1 DEF Stays, RemovedInv, wrapperVars, counterVars
<1>6. ASSUME NEW k \in RequestKinds, Schedules(k) PROVE RemovedInv'
  BY <1>1, <1>6, SchedulesNew DEF RemovedInv, wrapperVars, counterVars
<1>7. ASSUME NEW c \in held, Succeeded(c) \/ SchedulerKills(c) PROVE RemovedInv'
  <2>1. PICK b : Exit(c, b) BY <1>7 DEF Succeeded, SchedulerKills, NMCompletes, RMKill
  <2>2. held # {} /\ pc' = pc BY <2>1, ExitEffect
  <2> QED BY <2>2 DEF RemovedInv
<1>8. ASSUME NEW c \in aborting, Aborted(c) PROVE RemovedInv'
  BY <1>8 DEF Aborted, vars, rmVars, pullVars, RemovedInv
<1> QED BY <1>3, <1>4, <1>5, <1>6, <1>7, <1>8 DEF WrapperNext

LEMMA AllocMeans ==
  ASSUME AllocInv, UnharmedInv, RemovedInv PROVE AllocatedIsHeld
<1>1. ASSUME pc = "done", NoKill PROVE allocatedMem = 0 /\ pendingMem = 0
  <2>1. restarts = 0 /\ held = {} /\ aborting = {} /\ leaked = {} /\ pendingMem = 0
    BY <1>1 DEF UnharmedInv, RemovedInv
  <2>2. allocatedMem = 0 BY <2>1, MemOfEmpty DEF AllocInv
  <2> QED BY <2>1, <2>2
<1> QED BY <1>1 DEF AllocInv, AllocatedIsHeld, NoKill

(* The allocated memory of the queue is that of the containers held, killed  *)
(* and not reported, and lost, for any number of them; and without a kill    *)
(* both counters are back at 0 when the application is removed.             *)
THEOREM AllocatedAddsUp == WrapperSpec => []AllocatedIsHeld
<1>1. WrapperInv /\ AllocInv /\ [WrapperNext]_allVars => AllocInv' BY AllocStep
<1>2. WrapperInv /\ UnharmedInv /\ [WrapperNext]_allVars => UnharmedInv'
  BY UnharmedStep
<1>3. WrapperInv /\ PendingIsOwed /\ RemovedInv /\ [WrapperNext]_allVars => RemovedInv'
  BY RemovedStep
<1>4. AllocInv /\ UnharmedInv /\ RemovedInv => AllocatedIsHeld BY AllocMeans
<1> QED BY <1>1, <1>2, <1>3, <1>4, InitAlloc, InitUnharmed, WrapperInvariant,
           PendingAddsUp, PTL DEF WrapperSpec
=============================================================================
