------------------------ MODULE MRAMSimulator_proofs ------------------------
(***************************************************************************)
(* Proofs about MRAMSimulator, for jobs of any size and any number of      *)
(* kills.                                                                  *)
(***************************************************************************)
EXTENDS MRAMSimulator, FiniteSetTheorems, SequenceTheorems, TLAPS

-----------------------------------------------------------------------------
(* Types, in the parts that the steps change.                               *)

ListTypes ==
    /\ pending \in [Kinds -> Seq(Tasks)]
    /\ pendingFailed \in [Kinds -> Seq(Tasks)]
    /\ scheduled \in [Kinds -> Seq(Tasks)]
    /\ finished \in [Kinds -> Nat]

AssignedTypes ==
    /\ DOMAIN assigned = Kinds
    /\ \A k \in Kinds : /\ DOMAIN assigned[k] \subseteq Containers
                        /\ IsFiniteSet(DOMAIN assigned[k])
                        /\ \A c \in DOMAIN assigned[k] : assigned[k][c] \in Tasks

AMTypes ==
    /\ pc \in {"first", "awaitAM", "middle", "completed", "allocated",
               "stopping", "done"}
    /\ isAMContainerRunning \in BOOLEAN /\ isFinished \in BOOLEAN
    /\ coflow \in BOOLEAN
    /\ amContainer \in Containers \cup {NoContainer}
    /\ isAMContainerRunning => amContainer \in Containers
    /\ restarts \in Nat

(* One answer is worked through at a time, and none waits meanwhile: a      *)
(* request is only sent when the queue of answers is empty.                 *)
AnswerInv ==
    /\ responseQueue \in Seq(Responses) /\ Len(responseQueue) <= 1
    /\ pc # "middle" => responseQueue = <<>>
    /\ response \in Responses \cup {NoResponse}
    /\ amResponse \in Responses \cup {NoResponse}
    /\ pc \in {"completed", "allocated"} => response \in Responses
    /\ pc \in {"first", "middle", "stopping", "done"} => response = NoResponse
    /\ pc = "awaitAM" => amResponse \in Responses
    /\ pc # "awaitAM" => amResponse = NoResponse

RMTypes ==
    /\ demand \in [RequestKinds -> Nat]
    /\ allocated \in Seq(Containers)
    /\ held \subseteq Containers /\ ending \subseteq Containers
    /\ exited \subseteq Statuses
    /\ lastId \in Nat /\ kills \in [{"am", "task"} -> Nat]

TypeInv == ListTypes /\ AssignedTypes /\ AMTypes /\ AnswerInv /\ RMTypes

LEMMA TypeInvImplies == ASSUME TypeInv PROVE TypeOK
BY DEF TypeInv, ListTypes, AssignedTypes, AMTypes, AnswerInv, RMTypes, TypeOK

(* The tasks of the trace.                                                  *)
LEMMA AllTasks ==
  /\ All \in [Kinds -> Seq(Tasks)]
  /\ \A k \in Kinds : Total(k) \in Nat
  /\ [map |-> allMaps, reduce |-> <<>>] \in [Kinds -> Seq(Tasks)]
<1>1. allMaps \in Seq(Tasks) /\ allReduces \in Seq(Tasks)
  BY TaskAssumption DEF Tasks
<1>2. All \in [Kinds -> Seq(Tasks)] BY <1>1 DEF All, Kinds
<1>3. [map |-> allMaps, reduce |-> <<>>] \in [Kinds -> Seq(Tasks)]
  <2> DEFINE f == [map |-> allMaps, reduce |-> <<>>]
  <2>1. <<>> \in Seq(Tasks) OBVIOUS
  <2>2. f.map \in Seq(Tasks) /\ f.reduce \in Seq(Tasks) BY <1>1, <2>1
  <2>3. f = [k \in Kinds |-> f[k]] BY DEF Kinds
  <2> HIDE DEF f
  <2>4. \A k \in Kinds : f[k] \in Seq(Tasks) BY <2>2 DEF Kinds
  <2>5. f \in [Kinds -> Seq(Tasks)] BY <2>3, <2>4
  <2> QED BY <2>5 DEF f
<1>4. \A k \in Kinds : Total(k) \in Nat BY <1>2 DEF Total
<1> QED BY <1>2, <1>3, <1>4

(* A queue of at most one answer.                                           *)
LEMMA OneAnswer ==
  ASSUME NEW S, NEW q \in Seq(S), Len(q) <= 1, q # <<>>
  PROVE  Len(q) = 1 /\ Head(q) \in S /\ Tail(q) = <<>> /\ q = <<Head(q)>>
<1>1. Len(q) = 1 BY EmptySeq, LenProperties
<1>2. Head(q) \in S /\ Tail(q) = <<>>
  <2>1. Head(q) \in S /\ Tail(q) \in Seq(S) /\ Len(Tail(q)) = 0
    BY <1>1, HeadTailProperties
  <2> QED BY <2>1, EmptySeq
<1>3. q = <<Head(q)>> BY <1>1
<1> QED BY <1>1, <1>2, <1>3

LEMMA InitTypes == ASSUME Init PROVE TypeInv
<1>1. ListTypes BY AllTasks DEF Init, ListTypes
<1>2. AssignedTypes BY FS_EmptySet DEF Init, AssignedTypes
<1>3. AMTypes BY DEF Init, AMTypes
<1>4. AnswerInv
  <2>1. responseQueue = <<>> /\ <<>> \in Seq(Responses) /\ Len(<<>>) = 0
    BY DEF Init
  <2> QED BY <2>1 DEF Init, AnswerInv
<1>5. RMTypes BY DEF Init, RMTypes
<1> QED BY <1>1, <1>2, <1>3, <1>4, <1>5 DEF TypeInv

(* An allocate call returns an answer and leaves a resource manager.        *)
LEMMA CallTypes ==
  ASSUME RMTypes, NEW D \in SUBSET RequestKinds, NEW ask \in [D -> Nat],
         AllocateCall(ask)
  PROVE  RMTypes' /\ Answer \in Responses
<1>1. Answer \in Responses BY DEF RMTypes, Answer, Responses
<1>2. demand' \in [RequestKinds -> Nat] BY DEF RMTypes, AllocateCall
<1>3. held' \subseteq Containers BY DEF RMTypes, AllocateCall
<1>4. allocated' \in Seq(Containers) BY DEF AllocateCall
<1> QED BY <1>1, <1>2, <1>3, <1>4 DEF RMTypes, AllocateCall

LEMMA AskForAMTypes ==
  ASSUME RMTypes, AskForAM
  PROVE  RMTypes' /\ amResponse' \in Responses /\ pc' = "awaitAM"
<1>1. [k \in {"am"} |-> 1] \in [{"am"} -> Nat] /\ {"am"} \in SUBSET RequestKinds
  BY DEF RequestKinds
<1> QED BY <1>1, CallTypes DEF AskForAM

(* A task leaves its container.                                             *)
LEMMA ReleaseTypes ==
  ASSUME AssignedTypes, NEW c, NEW k \in Kinds
  PROVE  /\ DOMAIN Release(assigned[k], c) = DOMAIN assigned[k] \ {c}
         /\ IsFiniteSet(DOMAIN Release(assigned[k], c))
         /\ \A d \in DOMAIN assigned[k] \ {c} :
               Release(assigned[k], c)[d] = assigned[k][d]
<1>1. DOMAIN Release(assigned[k], c) = DOMAIN assigned[k] \ {c}
  BY DEF Release, Without
<1>2. IsFiniteSet(DOMAIN assigned[k] \ {c})
  BY FS_RemoveElement DEF AssignedTypes
<1> QED BY <1>1, <1>2 DEF Release, Without

LEMMA FirstStepTypes == ASSUME TypeInv, FirstStep PROVE TypeInv'
<1> USE DEF TypeInv
<1>1. RMTypes' /\ amResponse' \in Responses /\ pc' = "awaitAM"
  BY AskForAMTypes DEF FirstStep
<1>2. ListTypes' /\ AssignedTypes'
  BY DEF FirstStep, listVars, ListTypes, AssignedTypes
<1>3. AMTypes' BY <1>1 DEF FirstStep, AMTypes
<1>4. AnswerInv' BY <1>1 DEF FirstStep, AnswerInv
<1> QED BY <1>1, <1>2, <1>3, <1>4

LEMMA StartAMTypes == ASSUME TypeInv, StartAM PROVE TypeInv'
<1> USE DEF TypeInv
<1>1. ListTypes' /\ AssignedTypes' /\ RMTypes'
  BY DEF StartAM, listVars, rmVars, pullVars, ListTypes, AssignedTypes, RMTypes
<1>2. amResponse \in Responses /\ amResponse.allocated \in Seq(Containers)
  BY DEF StartAM, AnswerInv, Responses
<1>3. amContainer' \in Containers BY <1>2 DEF StartAM
<1>4. AMTypes' BY <1>3 DEF StartAM, AMTypes
<1>5. AnswerInv' BY DEF StartAM, AnswerInv
<1> QED BY <1>1, <1>4, <1>5

LEMMA EmptyAsk == Empty \in [{} -> Nat] /\ {} \in SUBSET RequestKinds
BY DEF Empty

LEMMA PollForAMTypes ==
  ASSUME TypeInv, PollForAM
  PROVE  TypeInv' /\ responseQueue' = <<>> /\ amResponse' = Answer
<1> USE DEF TypeInv
<1>1. RMTypes' /\ Answer \in Responses BY EmptyAsk, CallTypes DEF PollForAM
<1>2. responseQueue = <<>> BY DEF PollForAM, AnswerInv
<1>3. responseQueue' = <<>> /\ amResponse' = Answer
  BY <1>1, <1>2 DEF PollForAM
<1>4. ListTypes' /\ AssignedTypes' /\ AMTypes'
  BY DEF PollForAM, listVars, amVars, ListTypes, AssignedTypes, AMTypes
<1>5. AnswerInv' BY <1>1, <1>3 DEF PollForAM, AnswerInv
<1> QED BY <1>1, <1>3, <1>4, <1>5

LEMMA TakeResponseTypes ==
  ASSUME TypeInv, TakeResponse PROVE TypeInv' /\ responseQueue' = <<>>
<1> USE DEF TypeInv
<1>1. ListTypes' /\ AssignedTypes' /\ RMTypes'
  BY DEF TakeResponse, listVars, rmVars, pullVars, ListTypes, AssignedTypes, RMTypes
<1>2. AMTypes' BY DEF TakeResponse, amVars, AMTypes
<1>3. Head(responseQueue) \in Responses /\ Tail(responseQueue) = <<>>
  BY OneAnswer DEF TakeResponse, AnswerInv
<1>4. response' \in Responses /\ responseQueue' = <<>> BY <1>3 DEF TakeResponse
<1>5. AnswerInv' BY <1>4 DEF TakeResponse, AnswerInv
<1> QED BY <1>1, <1>2, <1>4, <1>5

LEMMA ConsumeTypes ==
  ASSUME NEW s, response \in Responses, Consume(s)
  PROVE  /\ response' \in Responses
         /\ response'.completed = response.completed \ {s}
         /\ response'.allocated = response.allocated
BY DEF Consume, Responses

LEMMA SucceededTypes ==
  ASSUME TypeInv, pc = "completed", NEW s \in response.completed,
         ContainerSucceeded(s)
  PROVE  TypeInv'
<1> USE DEF TypeInv
<1> DEFINE c == s.container
<1>1. response' \in Responses
  BY ConsumeTypes DEF ContainerSucceeded, AnswerInv
<1>2. AnswerInv' BY <1>1 DEF ContainerSucceeded, AnswerInv
<1>3. RMTypes' BY DEF ContainerSucceeded, rmVars, pullVars, RMTypes
<1>4. AMTypes' BY DEF ContainerSucceeded, AMTypes
<1>5. ListTypes' BY DEF ContainerSucceeded, ListTypes
<1>6. assigned' = [k \in Kinds |-> IF k \in Owners(c) THEN Release(assigned[k], c)
                                                      ELSE assigned[k]]
  BY DEF ContainerSucceeded
<1>7. AssignedTypes'
  <2>1. \A k \in Kinds : \/ assigned'[k] = assigned[k]
                        \/ assigned'[k] = Release(assigned[k], c)
    BY <1>6
  <2>2. DOMAIN assigned' = Kinds BY <1>6
  <2>3. ASSUME NEW j \in Kinds, assigned'[j] = Release(assigned[j], c)
        PROVE  /\ DOMAIN assigned'[j] \subseteq Containers
               /\ IsFiniteSet(DOMAIN assigned'[j])
               /\ \A d \in DOMAIN assigned'[j] : assigned'[j][d] \in Tasks
    <3> HIDE DEF c
    <3>1. /\ DOMAIN Release(assigned[j], c) = DOMAIN assigned[j] \ {c}
          /\ IsFiniteSet(DOMAIN Release(assigned[j], c))
          /\ \A d \in DOMAIN assigned[j] \ {c} :
                Release(assigned[j], c)[d] = assigned[j][d]
      BY ReleaseTypes
    <3> QED BY <2>3, <3>1 DEF AssignedTypes
  <2> QED BY <2>1, <2>2, <2>3 DEF AssignedTypes
<1> QED BY <1>2, <1>3, <1>4, <1>5, <1>7

LEMMA TaskKilledTypes ==
  ASSUME TypeInv, pc = "completed", NEW s \in response.completed,
         NEW k \in Kinds, TaskKilled(k, s)
  PROVE  TypeInv'
<1> USE DEF TypeInv
<1> DEFINE c == s.container
<1>1. response' \in Responses BY ConsumeTypes DEF TaskKilled, AnswerInv
<1>2. AnswerInv' BY <1>1 DEF TaskKilled, AnswerInv
<1>3. RMTypes' BY DEF TaskKilled, rmVars, pullVars, RMTypes
<1>4. AMTypes' BY DEF TaskKilled, amVars, AMTypes
<1>5. c \in DOMAIN assigned[k] BY DEF TaskKilled, Owners
<1>6. pendingFailed' \in [Kinds -> Seq(Tasks)]
  <2>1. assigned[k][c] \in Tasks BY <1>5 DEF AssignedTypes
  <2>2. Append(pendingFailed[k], assigned[k][c]) \in Seq(Tasks)
    BY <2>1 DEF ListTypes
  <2> QED BY <2>2 DEF TaskKilled, ListTypes
<1>7. ListTypes' BY <1>6 DEF TaskKilled, ListTypes
<1>8. assigned' = [assigned EXCEPT ![k] = Release(@, c)] BY DEF TaskKilled
<1>9. AssignedTypes'
  <2>1. \A j \in Kinds : \/ assigned'[j] = assigned[j]
                        \/ assigned'[j] = Release(assigned[j], c)
    BY <1>8 DEF AssignedTypes
  <2>2. DOMAIN assigned' = Kinds BY <1>8 DEF AssignedTypes
  <2>3. ASSUME NEW j \in Kinds, assigned'[j] = Release(assigned[j], c)
        PROVE  /\ DOMAIN assigned'[j] \subseteq Containers
               /\ IsFiniteSet(DOMAIN assigned'[j])
               /\ \A d \in DOMAIN assigned'[j] : assigned'[j][d] \in Tasks
    <3> HIDE DEF c
    <3>1. /\ DOMAIN Release(assigned[j], c) = DOMAIN assigned[j] \ {c}
          /\ IsFiniteSet(DOMAIN Release(assigned[j], c))
          /\ \A d \in DOMAIN assigned[j] \ {c} :
                Release(assigned[j], c)[d] = assigned[j][d]
      BY ReleaseTypes
    <3> QED BY <2>3, <3>1 DEF AssignedTypes
  <2> QED BY <2>1, <2>2, <2>3 DEF AssignedTypes
<1> QED BY <1>2, <1>3, <1>4, <1>7, <1>9

LEMMA RestartTypes ==
  ASSUME TypeInv, pc = "completed", NEW s \in response.completed, Restart(s)
  PROVE  TypeInv'
<1> USE DEF TypeInv
<1>1. response' \in Responses BY ConsumeTypes DEF Restart, AnswerInv
<1>2. RMTypes' /\ amResponse' \in Responses /\ pc' = "awaitAM"
  BY AskForAMTypes DEF Restart
<1>3. AnswerInv' BY <1>1, <1>2 DEF Restart, AnswerInv
<1>4. AMTypes'
  <2>1. isAMContainerRunning' = FALSE /\ isFinished' = FALSE /\ coflow' = TRUE
        /\ amContainer' = NoContainer /\ restarts' = restarts + 1
    BY DEF Restart
  <2>2. restarts' \in Nat BY <2>1 DEF AMTypes
  <2>3. isAMContainerRunning' \in BOOLEAN /\ isFinished' \in BOOLEAN
        /\ coflow' \in BOOLEAN
    BY <2>1
  <2> QED BY <1>2, <2>1, <2>2, <2>3 DEF AMTypes
<1>5. ListTypes' BY AllTasks DEF Restart, ListTypes
<1>6. AssignedTypes' BY DEF Restart, AssignedTypes
<1> QED BY <1>2, <1>3, <1>4, <1>5, <1>6

LEMMA CheckFinishedTypes == ASSUME TypeInv, CheckFinished PROVE TypeInv'
<1> USE DEF TypeInv
<1>1. ListTypes' /\ AssignedTypes'
  BY DEF CheckFinished, listVars, ListTypes, AssignedTypes
<1>2. ending' \subseteq Containers
  BY DEF CheckFinished, AllDone, AMTypes, RMTypes
<1>3. RMTypes' BY <1>2 DEF CheckFinished, pullVars, RMTypes
<1>4. AMTypes' /\ AnswerInv'
  BY DEF CheckFinished, queueVars, AMTypes, AnswerInv, AllDone
<1> QED BY <1>1, <1>3, <1>4

LEMMA LaunchTypes == ASSUME TypeInv, Launch PROVE TypeInv'
<1> USE DEF TypeInv
<1> DEFINE c == Head(response.allocated)
<1>1. /\ response \in Responses /\ response.allocated \in Seq(Containers)
      /\ c \in Containers /\ Tail(response.allocated) \in Seq(Containers)
  BY DEF Launch, AnswerInv, Responses
<1>2. response' \in Responses BY <1>1 DEF Launch, Responses
<1>3. AnswerInv' BY <1>2 DEF Launch, AnswerInv
<1>4. AMTypes' BY DEF Launch, amVars, AMTypes
<1>5. RMTypes' BY <1>1 DEF Launch, pullVars, RMTypes
<1>6. \A k \in Waiting : /\ k \in Kinds /\ Head(scheduled[k]) \in Tasks
                         /\ Tail(scheduled[k]) \in Seq(Tasks)
  BY DEF ListTypes, Waiting
<1>7. ListTypes' BY <1>6 DEF Launch, ListTypes
<1>8. \A k \in Kinds :
         LET f == Put(assigned[k], c, Head(scheduled[k]))
         IN  /\ DOMAIN f = DOMAIN assigned[k] \cup {c} /\ IsFiniteSet(DOMAIN f)
             /\ f[c] = Head(scheduled[k])
             /\ \A d \in DOMAIN assigned[k] \ {c} : f[d] = assigned[k][d]
  BY FS_AddElement DEF Put, AssignedTypes
<1>9. assigned' = [k \in Kinds |->
                    IF k \in Waiting THEN Put(assigned[k], c, Head(scheduled[k]))
                                     ELSE assigned[k]]
  BY DEF Launch
<1>10. AssignedTypes'
  <2>1. \A k \in Kinds : \/ assigned'[k] = assigned[k]
                        \/ /\ k \in Waiting
                           /\ assigned'[k] = Put(assigned[k], c, Head(scheduled[k]))
    BY <1>9
  <2>2. DOMAIN assigned' = Kinds BY <1>9
  <2>3. ASSUME NEW k \in Kinds, k \in Waiting,
               assigned'[k] = Put(assigned[k], c, Head(scheduled[k]))
        PROVE  /\ DOMAIN assigned'[k] \subseteq Containers
               /\ IsFiniteSet(DOMAIN assigned'[k])
               /\ \A d \in DOMAIN assigned'[k] : assigned'[k][d] \in Tasks
    <3>1. /\ DOMAIN assigned'[k] = DOMAIN assigned[k] \cup {c}
          /\ IsFiniteSet(DOMAIN assigned'[k])
          /\ assigned'[k][c] = Head(scheduled[k])
          /\ \A d \in DOMAIN assigned[k] \ {c} : assigned'[k][d] = assigned[k][d]
      BY <1>8, <2>3
    <3>2. Head(scheduled[k]) \in Tasks /\ c \in Containers BY <1>1, <1>6, <2>3
    <3> HIDE DEF c
    <3> QED BY <3>1, <3>2 DEF AssignedTypes
  <2> QED BY <2>1, <2>2, <2>3 DEF AssignedTypes
<1> QED BY <1>3, <1>4, <1>5, <1>7, <1>10

(* A request for one kind, or for nothing.                                  *)
LEMMA RequestTypes ==
  ASSUME TypeInv, NEW k \in Kinds, RequestPending(k) \/ RequestFailed(k)
  PROVE  TypeInv' /\ responseQueue' = <<Answer>>
<1> USE DEF TypeInv
<1>1. PICK batch \in Seq(Tasks) :
         /\ Request(k, batch)
         /\ pending' \in [Kinds -> Seq(Tasks)]
         /\ pendingFailed' \in [Kinds -> Seq(Tasks)]
  <2>1. CASE RequestPending(k)
    <3>1. pending[k] \in Seq(Tasks) /\ Request(k, pending[k])
      BY <2>1 DEF ListTypes, RequestPending
    <3>2. /\ pending' \in [Kinds -> Seq(Tasks)]
          /\ pendingFailed' \in [Kinds -> Seq(Tasks)]
      BY <2>1 DEF ListTypes, RequestPending
    <3> QED BY <3>1, <3>2
  <2>2. CASE RequestFailed(k)
    <3>1. pendingFailed[k] \in Seq(Tasks) /\ Request(k, pendingFailed[k])
      BY <2>2 DEF ListTypes, RequestFailed
    <3>2. /\ pending' \in [Kinds -> Seq(Tasks)]
          /\ pendingFailed' \in [Kinds -> Seq(Tasks)]
      BY <2>2 DEF ListTypes, RequestFailed
    <3> QED BY <3>1, <3>2
  <2> QED BY <2>1, <2>2
<1>2. [j \in {k} |-> Len(batch)] \in [{k} -> Nat] /\ {k} \in SUBSET RequestKinds
  BY DEF RequestKinds
<1>3. RMTypes' /\ Answer \in Responses BY <1>1, <1>2, CallTypes DEF Request
<1>4. responseQueue' = <<Answer>> BY <1>1, <1>3 DEF Request, Heartbeat
<1>5. AnswerInv' BY <1>1, <1>3, <1>4 DEF Request, Heartbeat, AnswerInv
<1>6. scheduled[k] \o batch \in Seq(Tasks) BY DEF ListTypes
<1>7. ListTypes' BY <1>1, <1>6 DEF Request, ListTypes
<1>8. AMTypes' /\ AssignedTypes'
  BY <1>1 DEF Request, amVars, AMTypes, AssignedTypes
<1> QED BY <1>3, <1>4, <1>5, <1>7, <1>8

LEMMA RequestNothingTypes ==
  ASSUME TypeInv, RequestNothing PROVE TypeInv' /\ responseQueue' = <<Answer>>
<1> USE DEF TypeInv
<1>1. RMTypes' /\ Answer \in Responses BY EmptyAsk, CallTypes DEF RequestNothing
<1>2. responseQueue' = <<Answer>> BY DEF RequestNothing, Heartbeat
<1>3. AnswerInv' BY <1>1, <1>2 DEF RequestNothing, Heartbeat, AnswerInv
<1>4. AMTypes' /\ AssignedTypes' /\ ListTypes'
  BY DEF RequestNothing, amVars, listVars, AMTypes, AssignedTypes, ListTypes
<1> QED BY <1>1, <1>2, <1>3, <1>4

LEMMA EndTypes ==
  ASSUME TypeInv, ResponseProcessed \/ CheckStop \/ LastStep PROVE TypeInv'
<1> USE DEF TypeInv
<1>1. CASE ResponseProcessed \/ CheckStop
  <2>1. AnswerInv' BY <1>1 DEF ResponseProcessed, CheckStop, queueVars, AnswerInv
  <2> QED BY <1>1, <2>1
       DEF ResponseProcessed, CheckStop, listVars, amVars, rmVars, pullVars,
           ListTypes, AssignedTypes, AMTypes, RMTypes
<1>2. CASE LastStep
  <2>1. AssignedTypes' BY <1>2, FS_EmptySet DEF LastStep, AssignedTypes
  <2>2. ListTypes' BY <1>2 DEF LastStep, ListTypes
  <2>4. AMTypes'
    <3>1. pc' = "done" /\ coflow' = FALSE
          /\ UNCHANGED <<isAMContainerRunning, amContainer, isFinished, restarts>>
      BY <1>2 DEF LastStep
    <3> QED BY <3>1 DEF AMTypes
  <2>3. AnswerInv' /\ RMTypes' BY <1>2 DEF LastStep, AnswerInv, RMTypes
  <2> QED BY <2>1, <2>2, <2>3, <2>4
<1> QED BY <1>1, <1>2

LEMMA RMStepTypes == ASSUME TypeInv, RMStep PROVE TypeInv'
<1> USE DEF TypeInv
<1>1. UNCHANGED <<pc, listVars, amVars, queueVars, restarts>>
  BY DEF RMStep, RMAllocate, NMCompletes, RMKill, Exit
<1>2. ListTypes' /\ AssignedTypes' /\ AMTypes' /\ AnswerInv'
  BY <1>1 DEF listVars, amVars, queueVars, ListTypes, AssignedTypes, AMTypes,
              AnswerInv
<1>3. RMTypes'
  <2>1. ASSUME NEW k \in RequestKinds, RMAllocate(k) PROVE RMTypes'
    <3>1. [id |-> lastId + 1, kind |-> k] \in Containers
      BY DEF RMTypes, Containers
    <3> QED BY <2>1, <3>1 DEF RMAllocate, RMTypes
  <2>2. ASSUME NEW c \in held, NEW b \in BOOLEAN, Exit(c, b),
               kills' \in [{"am", "task"} -> Nat]
        PROVE  RMTypes'
    <3>1. [container |-> c, success |-> b] \in Statuses BY DEF RMTypes, Statuses
    <3> QED BY <2>2, <3>1 DEF Exit, RMTypes
  <2>3. ASSUME NEW c \in held, NMCompletes(c) PROVE RMTypes'
    BY <2>2, <2>3 DEF NMCompletes, RMTypes
  <2>4. ASSUME NEW c \in held, NEW v \in {"am", "task"}, RMKill(c, v) PROVE RMTypes'
    <3>1. kills' \in [{"am", "task"} -> Nat] BY <2>4 DEF RMKill, RMTypes
    <3> QED BY <2>2, <2>4, <3>1 DEF RMKill
  <2> QED BY <2>1, <2>3, <2>4 DEF RMStep
<1> QED BY <1>2, <1>3

LEMMA StutterTypes == ASSUME TypeInv, UNCHANGED vars PROVE TypeInv'
BY DEF vars, listVars, amVars, queueVars, rmVars, pullVars,
       TypeInv, ListTypes, AssignedTypes, AMTypes, AnswerInv, RMTypes

LEMMA TypeStep == ASSUME TypeInv, [Next]_vars PROVE TypeInv'
<1>1. CASE ProcessStatus
  BY <1>1, SucceededTypes, TaskKilledTypes, RestartTypes DEF ProcessStatus
<1> QED
  BY <1>1, FirstStepTypes, StartAMTypes, PollForAMTypes, TakeResponseTypes,
     CheckFinishedTypes, LaunchTypes, RequestTypes, RequestNothingTypes,
     EndTypes, RMStepTypes, StutterTypes DEF Next, AMStep

THEOREM TypeInvariant == Spec => []TypeInv
<1>1. TypeInv /\ [Next]_vars => TypeInv' BY TypeStep
<1> QED BY <1>1, InitTypes, PTL DEF Spec

(* The lists, the answers and the resource manager of an AM keep their      *)
(* types, through kills and restarts.                                       *)
THEOREM TypeCorrect == Spec => []TypeOK
<1>1. TypeInv => TypeOK BY TypeInvImplies
<1> QED BY <1>1, TypeInvariant, PTL

-----------------------------------------------------------------------------
(* What the resource manager owes, counted on its way to a task.            *)

InRM == Len(allocated)
InQueue == IF responseQueue = <<>> THEN 0 ELSE Len(Head(responseQueue).allocated)
InResponse == IF response = NoResponse THEN 0 ELSE Len(response.allocated)
InAMResponse == IF amResponse = NoResponse THEN 0 ELSE Len(amResponse.allocated)
Asked(k) == demand[k]
ToRun(k) == Len(scheduled[k])
Scheduled == ToRun("map") + ToRun("reduce")
Owed ==
    Asked("am") + Asked("map") + Asked("reduce") + InRM
      + InQueue + InResponse + InAMResponse

(* One container more than there are scheduled tasks is owed while the AM   *)
(* waits for its own, never else; a restart keeps the scheduled tasks and   *)
(* drops requests, so that it can only lower what is owed for them.         *)
OwedInv == Owed <= Scheduled + IF pc = "awaitAM" THEN 1 ELSE 0

CountTypes ==
    /\ Asked("am") \in Nat /\ Asked("map") \in Nat /\ Asked("reduce") \in Nat
    /\ InRM \in Nat
    /\ InQueue \in Nat /\ InResponse \in Nat /\ InAMResponse \in Nat
    /\ ToRun("map") \in Nat /\ ToRun("reduce") \in Nat
    /\ Scheduled \in Nat

LEMMA Counts == ASSUME TypeInv PROVE CountTypes
<1> USE DEF TypeInv
<1>1. \A r \in Responses : Len(r.allocated) \in Nat BY LenProperties DEF Responses
<1>2. responseQueue # <<>> => Head(responseQueue) \in Responses
  BY OneAnswer DEF AnswerInv
<1>3. InQueue \in Nat /\ InResponse \in Nat /\ InAMResponse \in Nat
  BY <1>1, <1>2 DEF AnswerInv, InQueue, InResponse, InAMResponse
<1>4. scheduled["map"] \in Seq(Tasks) /\ scheduled["reduce"] \in Seq(Tasks)
  BY DEF ListTypes, Kinds
<1>5. Asked("am") \in Nat /\ Asked("map") \in Nat /\ Asked("reduce") \in Nat
      /\ allocated \in Seq(Containers)
  BY DEF Asked, RMTypes, RequestKinds, Kinds
<1>6. ToRun("map") \in Nat /\ ToRun("reduce") \in Nat
  BY <1>4, LenProperties DEF ToRun
<1>7. Scheduled \in Nat BY <1>6 DEF Scheduled
<1> QED BY <1>3, <1>5, <1>6, <1>7, LenProperties DEF CountTypes, InRM

LEMMA InitOwed == ASSUME Init PROVE OwedInv
BY DEF Init, OwedInv, Owed, Scheduled, ToRun, Asked, InRM, InQueue, InResponse, InAMResponse,
       RequestKinds, Kinds

LEMMA OwedSame ==
  ASSUME OwedInv,
         UNCHANGED <<demand, allocated, responseQueue, amResponse, scheduled>>,
         InResponse' = InResponse, (pc = "awaitAM") = (pc' = "awaitAM")
  PROVE  OwedInv'
BY DEF OwedInv, Owed, Scheduled, ToRun, Asked, InRM, InQueue, InAMResponse

(* What a call that asks for n containers of one kind, or for nothing, does *)
(* to the counts; its answer holds the containers that were allocated.      *)
LEMMA CallCounts ==
  ASSUME TypeInv, NEW D \in SUBSET RequestKinds, NEW ask \in [D -> Nat],
         AllocateCall(ask)
  PROVE  /\ \A k \in RequestKinds \ D : demand'[k] = demand[k]
         /\ \A k \in D : demand'[k] = ask[k]
         /\ allocated' = <<>> /\ Answer.allocated = allocated
BY DEF AllocateCall, Answer, RequestKinds

LEMMA RequestOwed ==
  ASSUME TypeInv, OwedInv, NEW k \in Kinds, RequestPending(k) \/ RequestFailed(k)
  PROVE  OwedInv'
<1> USE DEF TypeInv
<1>1. PICK batch \in Seq(Tasks) : Request(k, batch)
  <2>1. pending[k] \in Seq(Tasks) /\ pendingFailed[k] \in Seq(Tasks)
    BY DEF ListTypes
  <2> QED BY <2>1 DEF RequestPending, RequestFailed
<1>2. TypeInv' /\ responseQueue' = <<Answer>> BY RequestTypes
<1>3. PICK n \in Nat : n = Len(batch) BY LenProperties
<1> DEFINE ask == [j \in {k} |-> n]
<1>4. ask \in [{k} -> Nat] /\ {k} \in SUBSET RequestKinds
  BY <1>3 DEF RequestKinds
<1>5. AllocateCall(ask) BY <1>1, <1>3 DEF Request
<1>6. /\ \A j \in RequestKinds \ {k} : demand'[j] = demand[j]
      /\ demand'[k] = n
      /\ allocated' = <<>> /\ Answer.allocated = allocated
  <2> HIDE DEF ask
  <2>1. /\ \A j \in RequestKinds \ {k} : demand'[j] = demand[j]
        /\ \A j \in {k} : demand'[j] = ask[j]
        /\ allocated' = <<>> /\ Answer.allocated = allocated
    BY <1>4, <1>5, CallCounts
  <2> QED BY <2>1 DEF ask
<1>7. /\ ToRun(k)' = ToRun(k) + n
      /\ \A j \in Kinds \ {k} : ToRun(j)' = ToRun(j)
  <2>1. scheduled'[k] = scheduled[k] \o batch BY <1>1 DEF Request, ListTypes
  <2>2. scheduled[k] \in Seq(Tasks) BY DEF ListTypes
  <2>3. \A j \in Kinds \ {k} : scheduled'[j] = scheduled[j]
    BY <1>1 DEF Request, ListTypes
  <2> QED BY <1>3, <2>1, <2>2, <2>3 DEF ToRun
<1>8. /\ responseQueue = <<>> /\ pc = "middle" /\ pc' = "middle"
      /\ response' = response /\ amResponse' = amResponse
  BY <1>1 DEF Request, Heartbeat
<1>9. InQueue = 0 /\ InQueue' = InRM /\ InResponse' = InResponse
      /\ InAMResponse' = InAMResponse /\ InRM' = 0
  BY <1>2, <1>6, <1>8 DEF InRM, InQueue, InResponse, InAMResponse
<1>10. k = "map" \/ k = "reduce" BY DEF Kinds
<1>11. CountTypes BY Counts
<1>14. \/ /\ Asked("map")' = n /\ Asked("reduce")' = Asked("reduce")
          /\ ToRun("map")' = ToRun("map") + n /\ ToRun("reduce")' = ToRun("reduce")
       \/ /\ Asked("reduce")' = n /\ Asked("map")' = Asked("map")
          /\ ToRun("reduce")' = ToRun("reduce") + n /\ ToRun("map")' = ToRun("map")
  BY <1>6, <1>7, <1>10 DEF Asked, RequestKinds, Kinds
<1>15. Asked("am")' = Asked("am") BY <1>6 DEF Asked, RequestKinds, Kinds
<1>16. InQueue = 0 /\ InQueue' = InRM /\ InResponse' = InResponse
       /\ InAMResponse' = InAMResponse /\ InRM' = 0
  BY <1>9
<1>17. pc # "awaitAM" /\ pc' # "awaitAM" BY <1>8
<1> HIDE DEF ask
<1> DEFINE Waits == InRM + InResponse + InAMResponse
<1>20. /\ Waits \in Nat
       /\ InRM' + InQueue' + InResponse' + InAMResponse' = Waits
       /\ InRM' = 0 /\ InQueue' = InRM /\ InResponse' = InResponse
       /\ InAMResponse' = InAMResponse /\ InQueue = 0
  BY <1>11, <1>16 DEF CountTypes
<1>18. CASE /\ Asked("map")' = n /\ Asked("reduce")' = Asked("reduce")
            /\ ToRun("map")' = ToRun("map") + n /\ ToRun("reduce")' = ToRun("reduce")
  <2>1. Scheduled' = Scheduled + n BY <1>11, <1>18 DEF CountTypes, Scheduled
  <2>2. Owed' = Asked("am") + n + Asked("reduce") + Waits
    BY <1>11, <1>15, <1>20, <1>18, SMTT(60) DEF Owed, CountTypes
  <2>3. Owed = Asked("am") + Asked("map") + Asked("reduce") + Waits
    BY <1>11, <1>20 DEF Owed, CountTypes
  <2> HIDE DEF Waits
  <2> QED BY <1>11, <1>17, <1>20, <2>1, <2>2, <2>3 DEF OwedInv, CountTypes
<1>19. CASE /\ Asked("reduce")' = n /\ Asked("map")' = Asked("map")
            /\ ToRun("reduce")' = ToRun("reduce") + n /\ ToRun("map")' = ToRun("map")
  <2>1. Scheduled' = Scheduled + n BY <1>11, <1>19 DEF CountTypes, Scheduled
  <2>2. Owed' = Asked("am") + Asked("map") + n + Waits
    BY <1>11, <1>15, <1>20, <1>19, SMTT(60) DEF Owed, CountTypes
  <2>3. Owed = Asked("am") + Asked("map") + Asked("reduce") + Waits
    BY <1>11, <1>20 DEF Owed, CountTypes
  <2> HIDE DEF Waits
  <2> QED BY <1>11, <1>17, <1>20, <2>1, <2>2, <2>3 DEF OwedInv, CountTypes
<1> QED BY <1>14, <1>18, <1>19

LEMMA NothingOwed ==
  ASSUME TypeInv, OwedInv, RequestNothing \/ PollForAM PROVE OwedInv'
<1> USE DEF TypeInv
<1>1. AllocateCall(Empty) BY DEF RequestNothing, PollForAM
<1>2. /\ \A k \in RequestKinds : demand'[k] = demand[k]
      /\ allocated' = <<>> /\ Answer.allocated = allocated
  BY <1>1, EmptyAsk, CallCounts
<1>3. /\ Asked("am")' = Asked("am") /\ Asked("map")' = Asked("map")
      /\ Asked("reduce")' = Asked("reduce") /\ InRM' = 0
  BY <1>2 DEF InRM, Asked, RequestKinds, Kinds
<1>4. CountTypes BY Counts
<1>5. CASE RequestNothing
  <2>1. /\ responseQueue = <<>> /\ responseQueue' = <<Answer>>
        /\ UNCHANGED <<pc, response, amResponse, scheduled>>
    BY <1>5, RequestNothingTypes DEF RequestNothing, Heartbeat, listVars
  <2>2. InQueue = 0 /\ InQueue' = InRM /\ InResponse' = InResponse
        /\ InAMResponse' = InAMResponse
    BY <1>2, <2>1 DEF InRM, InQueue, InResponse, InAMResponse
  <2>3. Scheduled' = Scheduled BY <2>1 DEF Scheduled, ToRun
  <2> QED BY <1>3, <1>4, <2>1, <2>2, <2>3 DEF CountTypes, OwedInv, Owed
<1>6. CASE PollForAM
  <2>1. /\ responseQueue = <<>> /\ responseQueue' = <<>> /\ amResponse' = Answer
        /\ amResponse # NoResponse /\ amResponse.allocated = <<>>
        /\ Answer # NoResponse
        /\ UNCHANGED <<pc, response, scheduled>>
    <3>1. Answer \in Responses BY <1>1, EmptyAsk, CallTypes
    <3> QED BY <1>6, <3>1, PollForAMTypes, NoneAssumption
         DEF PollForAM, listVars, AnswerInv
  <2>2. InQueue = 0 /\ InQueue' = 0 /\ InResponse' = InResponse
        /\ InAMResponse = 0 /\ InAMResponse' = InRM
    BY <1>2, <2>1 DEF InRM, InQueue, InResponse, InAMResponse
  <2>3. Scheduled' = Scheduled BY <2>1 DEF Scheduled, ToRun
  <2> QED BY <1>3, <1>4, <2>1, <2>2, <2>3 DEF CountTypes, OwedInv, Owed
<1> QED BY <1>5, <1>6

(* The AM asks for its container, at the start and at a restart.            *)
LEMMA AskOwed ==
  ASSUME TypeInv, OwedInv, AskForAM, amResponse = NoResponse, pc # "awaitAM",
         UNCHANGED <<responseQueue, scheduled>>, InResponse' = InResponse
  PROVE  OwedInv'
<1> USE DEF TypeInv
<1> DEFINE ask == [k \in {"am"} |-> 1]
<1>1. ask \in [{"am"} -> Nat] /\ {"am"} \in SUBSET RequestKinds
  BY DEF RequestKinds
<1>2. AllocateCall(ask) BY DEF AskForAM
<1>3. /\ \A k \in Kinds : demand'[k] = demand[k]
      /\ Asked("am")' = 1
      /\ allocated' = <<>> /\ Answer.allocated = allocated
  <2> HIDE DEF ask
  <2>1. /\ \A k \in RequestKinds \ {"am"} : demand'[k] = demand[k]
        /\ \A k \in {"am"} : demand'[k] = ask[k]
        /\ allocated' = <<>> /\ Answer.allocated = allocated
    BY <1>1, <1>2, CallCounts
  <2> QED BY <2>1 DEF Asked, ask, RequestKinds, Kinds
<1>4. Asked("map")' = Asked("map") /\ Asked("reduce")' = Asked("reduce")
      /\ InRM' = 0
  BY <1>3 DEF InRM, Asked, Kinds
<1>5. amResponse' = Answer /\ Answer # NoResponse /\ pc' = "awaitAM"
  <2>1. Answer \in Responses BY <1>1, <1>2, CallTypes
  <2> QED BY <2>1, NoneAssumption DEF AskForAM
<1>6. InQueue' = InQueue /\ InAMResponse = 0 /\ InAMResponse' = InRM
  BY <1>3, <1>5 DEF InRM, InQueue, InAMResponse
<1>7. CountTypes BY Counts
<1>8. Scheduled' = Scheduled BY DEF Scheduled, ToRun
<1>9. Asked("am")' = 1 BY <1>3
<1>10. pc' = "awaitAM" BY <1>5
<1> HIDE DEF ask
<1> QED BY <1>4, <1>6, <1>7, <1>8, <1>9, <1>10 DEF CountTypes, OwedInv, Owed

LEMMA ResponseOwed ==
  ASSUME TypeInv, OwedInv, StartAM \/ TakeResponse \/ ProcessStatus \/ ResponseProcessed
  PROVE  OwedInv'
<1> USE DEF TypeInv
<1>1. CountTypes BY Counts
<1>2. CASE StartAM
  <2>1. amResponse \in Responses /\ amResponse # NoResponse
        /\ amResponse.allocated # <<>> /\ amResponse.allocated \in Seq(Containers)
    BY <1>2, NoneAssumption DEF StartAM, AnswerInv, Responses
  <2>2. Len(amResponse.allocated) >= 1 BY <2>1, EmptySeq, LenProperties
  <2>3. InAMResponse >= 1 /\ InAMResponse' = 0
    BY <1>2, <2>1, <2>2 DEF StartAM, InAMResponse
  <2>4. /\ UNCHANGED <<demand, allocated, scheduled, responseQueue, response>>
        /\ pc = "awaitAM" /\ pc' # "awaitAM"
    BY <1>2 DEF StartAM, listVars, rmVars, pullVars
  <2>5. InQueue' = InQueue /\ InResponse' = InResponse
    BY <2>4 DEF InQueue, InResponse
  <2>6. Scheduled' = Scheduled /\ Asked("am")' = Asked("am") /\ Asked("map")' = Asked("map")
        /\ Asked("reduce")' = Asked("reduce")
        /\ InRM' = InRM
    BY <2>4 DEF Scheduled, ToRun, Asked, InRM
  <2> QED BY <1>1, <2>3, <2>4, <2>5, <2>6 DEF CountTypes, OwedInv, Owed
<1>3. CASE TakeResponse
  <2>1. /\ responseQueue # <<>> /\ Head(responseQueue) \in Responses
        /\ responseQueue' = <<>> /\ response' = Head(responseQueue)
        /\ response = NoResponse
    BY <1>3, OneAnswer, TakeResponseTypes DEF TakeResponse, AnswerInv
  <2>2. InQueue' = 0 /\ InResponse' = InQueue /\ InResponse = 0
    BY <2>1, NoneAssumption DEF InQueue, InResponse
  <2>3. UNCHANGED <<demand, allocated, scheduled, amResponse>>
        /\ pc # "awaitAM" /\ pc' # "awaitAM"
    BY <1>3 DEF TakeResponse, listVars, rmVars, pullVars
  <2>4. InAMResponse' = InAMResponse BY <2>3 DEF InAMResponse
  <2>5. Scheduled' = Scheduled /\ Asked("am")' = Asked("am") /\ Asked("map")' = Asked("map")
        /\ Asked("reduce")' = Asked("reduce")
        /\ InRM' = InRM
    BY <2>3 DEF Scheduled, ToRun, Asked, InRM
  <2> QED BY <1>1, <2>2, <2>3, <2>4, <2>5 DEF CountTypes, OwedInv, Owed
<1>4. CASE ProcessStatus
  <2>1. PICK s \in response.completed :
          \/ ContainerSucceeded(s) \/ \E k \in Kinds : TaskKilled(k, s)
          \/ Restart(s)
    BY <1>4 DEF ProcessStatus
  <2>2. pc = "completed" /\ response \in Responses /\ amResponse = NoResponse
    BY <1>4 DEF ProcessStatus, AnswerInv
  <2>3. InResponse' = InResponse
    <3>1. Consume(s) BY <2>1 DEF ContainerSucceeded, TaskKilled, Restart
    <3>2. response' \in Responses /\ response'.allocated = response.allocated
      BY <2>2, <3>1, ConsumeTypes
    <3> QED BY <2>2, <3>2, NoneAssumption DEF InResponse
  <2>4. CASE Restart(s)
    BY <2>2, <2>3, <2>4, AskOwed DEF Restart
  <2>5. CASE ContainerSucceeded(s) \/ \E k \in Kinds : TaskKilled(k, s)
    <3>1. UNCHANGED <<demand, allocated, responseQueue, amResponse, scheduled, pc>>
      BY <2>5 DEF ContainerSucceeded, TaskKilled, rmVars, pullVars
    <3> QED BY <2>3, <3>1, OwedSame
  <2> QED BY <2>1, <2>4, <2>5
<1>5. CASE ResponseProcessed
  <2>1. /\ UNCHANGED <<demand, allocated, responseQueue, amResponse, scheduled>>
        /\ pc # "awaitAM" /\ pc' # "awaitAM"
        /\ response # NoResponse /\ response.allocated = <<>> /\ response' = NoResponse
    BY <1>5, NoneAssumption
       DEF ResponseProcessed, listVars, rmVars, pullVars, AnswerInv
  <2>2. InResponse = 0 /\ InResponse' = 0 BY <2>1 DEF InResponse
  <2> QED BY <2>1, <2>2, OwedSame
<1> QED BY <1>2, <1>3, <1>4, <1>5

(* Something waits for the container that Launch is at.                     *)
LEMMA SomeTaskWaits ==
  ASSUME TypeInv, OwedInv, pc = "allocated", response.allocated # <<>>
  PROVE  /\ Waiting # {}
         /\ InResponse = Len(response.allocated) /\ InResponse >= 1
<1> USE DEF TypeInv
<1>1. response \in Responses /\ response.allocated \in Seq(Containers)
  BY DEF AnswerInv, Responses
<1>2. InResponse = Len(response.allocated) BY <1>1, NoneAssumption DEF InResponse
<1>3. InResponse >= 1 BY <1>1, <1>2, EmptySeq, LenProperties
<1>4. CountTypes BY Counts
<1>5. Scheduled >= 1 BY <1>3, <1>4 DEF CountTypes, OwedInv, Owed, Scheduled
<1>6. scheduled["map"] # <<>> \/ scheduled["reduce"] # <<>>
  <2>1. ToRun("map") # 0 \/ ToRun("reduce") # 0
    BY <1>4, <1>5 DEF CountTypes, Scheduled
  <2>2. \A k \in Kinds : ToRun(k) # 0 => scheduled[k] # <<>> BY DEF ToRun
  <2> QED BY <2>1, <2>2 DEF Kinds
<1>7. "map" \in Waiting \/ "reduce" \in Waiting BY <1>6 DEF Waiting, Kinds
<1> QED BY <1>2, <1>3, <1>7

LEMMA LaunchOwed == ASSUME TypeInv, OwedInv, Launch PROVE OwedInv'
<1> USE DEF TypeInv
<1>1. Waiting # {} /\ InResponse = Len(response.allocated) /\ InResponse >= 1
  BY SomeTaskWaits DEF Launch
<1>2. PICK k \in Waiting : TRUE BY <1>1
<1>3. k \in Kinds /\ scheduled[k] # <<>> /\ scheduled[k] \in Seq(Tasks)
  BY DEF Waiting, ListTypes
<1>4. \A j \in Kinds : j # k => j \notin Waiting BY <1>3 DEF Waiting, Kinds
<1>5. /\ scheduled'[k] = Tail(scheduled[k])
      /\ \A j \in Kinds : j # k => scheduled'[j] = scheduled[j]
  BY <1>3, <1>4 DEF Launch
<1>6. /\ ToRun(k)' = ToRun(k) - 1
      /\ \A j \in Kinds : j # k => ToRun(j)' = ToRun(j)
  BY <1>3, <1>5, HeadTailProperties DEF ToRun
<1>7. InResponse' = InResponse - 1
  <2>1. response \in Responses /\ response.allocated \in Seq(Containers)
        /\ response.allocated # <<>>
    BY DEF Launch, AnswerInv, Responses
  <2>2. response' \in Responses /\ response'.allocated = Tail(response.allocated)
    BY LaunchTypes, <2>1 DEF Launch, AnswerInv, Responses
  <2>3. Len(Tail(response.allocated)) = Len(response.allocated) - 1
    BY <2>1, HeadTailProperties
  <2> QED BY <1>1, <2>2, <2>3, NoneAssumption DEF InResponse
<1>8. UNCHANGED <<demand, allocated, responseQueue, amResponse, pc>>
  BY DEF Launch, pullVars
<1>9. /\ InQueue' = InQueue /\ InAMResponse' = InAMResponse
      /\ Asked("am")' = Asked("am") /\ Asked("map")' = Asked("map")
      /\ Asked("reduce")' = Asked("reduce") /\ InRM' = InRM
  BY <1>8 DEF InQueue, InAMResponse, Asked, InRM
<1>10. CountTypes BY Counts
<1>11. \/ ToRun("map")' = ToRun("map") - 1 /\ ToRun("reduce")' = ToRun("reduce")
       \/ ToRun("reduce")' = ToRun("reduce") - 1 /\ ToRun("map")' = ToRun("map")
  BY <1>3, <1>6 DEF Kinds
<1>12. pc' = pc BY <1>8
<1> QED BY <1>7, <1>9, <1>10, <1>11, <1>12 DEF CountTypes, OwedInv, Owed, Scheduled

LEMMA RMOwed == ASSUME TypeInv, OwedInv, RMStep PROVE OwedInv'
<1> USE DEF TypeInv
<1>1. ASSUME NEW k \in RequestKinds, RMAllocate(k) PROVE OwedInv'
  <2>1. /\ demand[k] > 0 /\ demand[k] \in Nat /\ demand'[k] = demand[k] - 1
        /\ \A j \in RequestKinds : j # k => demand'[j] = demand[j]
    BY <1>1 DEF RMAllocate, RMTypes
  <2>2. InRM' = InRM + 1
    <3>1. [id |-> lastId + 1, kind |-> k] \in Containers
      BY DEF RMTypes, Containers
    <3> QED BY <1>1, <3>1 DEF RMAllocate, RMTypes, InRM
  <2>3. UNCHANGED <<responseQueue, response, amResponse, scheduled, pc>>
    BY <1>1 DEF RMAllocate, listVars, queueVars
  <2>4. InQueue' = InQueue /\ InResponse' = InResponse /\ InAMResponse' = InAMResponse
    BY <2>3 DEF InQueue, InResponse, InAMResponse
  <2>5. /\ Asked(k)' = Asked(k) - 1
        /\ \A j \in RequestKinds : j # k => Asked(j)' = Asked(j)
    BY <2>1 DEF Asked
  <2>6. CountTypes BY Counts
  <2>7. \/ /\ Asked("am")' = Asked("am") - 1 /\ Asked("map")' = Asked("map")
           /\ Asked("reduce")' = Asked("reduce")
        \/ /\ Asked("am")' = Asked("am") /\ Asked("map")' = Asked("map") - 1
           /\ Asked("reduce")' = Asked("reduce")
        \/ /\ Asked("am")' = Asked("am") /\ Asked("map")' = Asked("map")
           /\ Asked("reduce")' = Asked("reduce") - 1
    BY <2>5 DEF RequestKinds, Kinds
  <2>8. Scheduled' = Scheduled BY <2>3 DEF Scheduled, ToRun
  <2>9. pc' = pc BY <2>3
  <2> QED BY <2>2, <2>4, <2>6, <2>7, <2>8, <2>9 DEF CountTypes, OwedInv, Owed
<1>2. ASSUME \E c \in held, b \in BOOLEAN : Exit(c, b) PROVE OwedInv'
  <2>1. UNCHANGED <<demand, allocated, responseQueue, response, amResponse,
                    scheduled, pc>>
    BY <1>2 DEF Exit, listVars, queueVars
  <2> QED BY <2>1, OwedSame DEF InResponse
<1> QED BY <1>1, <1>2 DEF RMStep, NMCompletes, RMKill

LEMMA OwedStep == ASSUME TypeInv, OwedInv, [Next]_vars PROVE OwedInv'
<1> USE DEF TypeInv
<1>1. CASE FirstStep
  <2>1. /\ amResponse = NoResponse /\ pc # "awaitAM" /\ AskForAM
        /\ UNCHANGED <<responseQueue, scheduled, response>>
    BY <1>1 DEF FirstStep, listVars, AnswerInv
  <2>2. InResponse' = InResponse BY <2>1 DEF InResponse
  <2> QED BY <2>1, <2>2, AskOwed
<1>2. CASE CheckFinished \/ CheckStop \/ UNCHANGED vars
  <2>1. UNCHANGED <<demand, allocated, responseQueue, response, amResponse, scheduled>>
        /\ ((pc = "awaitAM") = (pc' = "awaitAM"))
    BY <1>2 DEF CheckFinished, CheckStop, vars, listVars, queueVars, rmVars, pullVars
  <2> QED BY <2>1, OwedSame DEF InResponse
<1>3. CASE LastStep
  <2>1. /\ demand' = [k \in RequestKinds |-> 0] /\ allocated' = <<>>
        /\ responseQueue' = <<>> /\ scheduled' = [k \in Kinds |-> <<>>]
        /\ response' = NoResponse /\ amResponse' = NoResponse
    BY <1>3 DEF LastStep, AnswerInv
  <2> QED BY <2>1 DEF OwedInv, Owed, Scheduled, ToRun, Asked, InRM, InQueue, InResponse, InAMResponse,
                      RequestKinds, Kinds
<1> QED BY <1>1, <1>2, <1>3, RequestOwed, NothingOwed, ResponseOwed, LaunchOwed,
           RMOwed DEF Next, AMStep

(* No container that the resource manager hands out is left without a task, *)
(* for any job and however often its AM is killed and restarted, although a *)
(* restart forgets the answers on their way.                                *)
THEOREM ContainersFindTasks == Spec => []EveryContainerHasTask
<1>1. OwedInv /\ TypeInv /\ [Next]_vars => OwedInv' BY OwedStep
<1>2. Init => OwedInv BY InitOwed
<1>3. Spec => [](TypeInv /\ OwedInv)
  BY <1>1, <1>2, TypeInvariant, PTL DEF Spec
<1>4. TypeInv /\ OwedInv => EveryContainerHasTask
  BY SomeTaskWaits DEF EveryContainerHasTask
<1> QED BY <1>3, <1>4, PTL

-----------------------------------------------------------------------------
(* Containers on their way: those of the answer the AM is at, of the one    *)
(* that is queued, of the one it waits for its own container with, and the  *)
(* ones not handed out, from the oldest to the newest.                      *)
Queued == IF responseQueue = <<>> THEN <<>> ELSE Head(responseQueue).allocated
Taken == IF response = NoResponse THEN <<>> ELSE response.allocated
Awaited == IF amResponse = NoResponse THEN <<>> ELSE amResponse.allocated
Used == Assigned \cup ({amContainer} \ {NoContainer})

Rising(w) == \A i, j \in DOMAIN w : i < j => w[i].id < w[j].id
Before(v, w) == \A i \in DOMAIN v, j \in DOMAIN w : v[i].id < w[j].id
Unused(w, U, n) == \A i \in DOMAIN w : w[i] \notin U /\ w[i].id <= n
Lined(r, q, a, m, U, n) ==
    /\ Rising(r) /\ Rising(q) /\ Rising(a) /\ Rising(m)
    /\ Before(r, q) /\ Before(r, a) /\ Before(r, m)
    /\ Before(q, m) /\ Before(a, m)
    /\ Unused(r, U, n) /\ Unused(q, U, n) /\ Unused(a, U, n) /\ Unused(m, U, n)
    /\ \A c \in U : c.id <= n

(* Containers are handed out in the order of their ids, and one that is on  *)
(* its way was never used: whatever the AM takes out of an answer is new.   *)
LineInv == Lined(Taken, Queued, Awaited, allocated, Used, lastId)
HostInv ==
    /\ DOMAIN assigned["map"] \cap DOMAIN assigned["reduce"] = {}
    /\ amContainer \notin Assigned
UsedInv == LineInv /\ HostInv

(* How the line moves.                                                      *)
LEMMA LineAsk ==
  ASSUME NEW r, NEW q, NEW m, NEW U, NEW V, NEW n,
         Lined(r, q, <<>>, m, U, n), V \subseteq U
  PROVE  Lined(r, q, m, <<>>, V, n)
BY DEF Lined, Rising, Before, Unused

LEMMA LineAnswer ==
  ASSUME NEW r, NEW m, NEW U, NEW n, Lined(r, <<>>, <<>>, m, U, n)
  PROVE  Lined(r, m, <<>>, <<>>, U, n)
BY DEF Lined, Rising, Before, Unused

LEMMA LineTake ==
  ASSUME NEW q, NEW m, NEW U, NEW n, Lined(<<>>, q, <<>>, m, U, n)
  PROVE  Lined(q, <<>>, <<>>, m, U, n)
BY DEF Lined, Rising, Before, Unused

LEMMA LineForgets ==
  ASSUME NEW r, NEW q, NEW a, NEW m, NEW U, NEW V, NEW n,
         Lined(r, q, a, m, U, n), V \subseteq U
  PROVE  Lined(r, q, a, m, V, n) /\ Lined(<<>>, <<>>, <<>>, <<>>, V, n)
BY DEF Lined, Rising, Before, Unused

LEMMA LineAppend ==
  ASSUME NEW r \in Seq(Containers), NEW q \in Seq(Containers),
         NEW a \in Seq(Containers), NEW m \in Seq(Containers),
         NEW U \in SUBSET Containers, NEW n \in Nat, NEW c \in Containers,
         c.id = n + 1, Lined(r, q, a, m, U, n)
  PROVE  Lined(r, q, a, Append(m, c), U, n + 1)
<1>1. \A d \in Containers : d.id \in Nat BY DEF Containers
<1>2. \A w \in {r, q, a, m} : \A i \in DOMAIN w : w[i] \in Containers
  OBVIOUS
<1>3. \A i \in DOMAIN Append(m, c) :
        \/ i \in DOMAIN m /\ Append(m, c)[i] = m[i]
        \/ i = Len(m) + 1 /\ Append(m, c)[i] = c
  OBVIOUS
<1>4. \A w \in {r, q, a, m} : \A i \in DOMAIN w : w[i].id <= n /\ w[i].id \in Nat
  BY <1>1, <1>2 DEF Lined, Unused
<1>5. \A d \in U : d.id <= n /\ d.id \in Nat BY <1>1 DEF Lined
<1>6. c \notin U BY <1>5
<1>7. DOMAIN m = 1..Len(m) /\ Len(m) \in Nat OBVIOUS
<1>8. Rising(Append(m, c)) BY <1>3, <1>4, <1>7 DEF Lined, Rising
<1>9. /\ Before(r, Append(m, c)) /\ Before(q, Append(m, c))
      /\ Before(a, Append(m, c))
  BY <1>3, <1>4 DEF Lined, Before
<1>10. \A w \in {r, q, a} : Unused(w, U, n + 1) BY <1>4 DEF Lined, Unused
<1>11. Unused(Append(m, c), U, n + 1) BY <1>3, <1>4, <1>6 DEF Lined, Unused
<1>12. \A d \in U : d.id <= n + 1 BY <1>5
<1> QED BY <1>8, <1>9, <1>10, <1>11, <1>12 DEF Lined

LEMMA LineLaunch ==
  ASSUME NEW r \in Seq(Containers), r # <<>>, NEW q \in Seq(Containers),
         NEW a \in Seq(Containers), NEW m \in Seq(Containers),
         NEW U, NEW V, V \subseteq U \cup {Head(r)}, NEW n,
         Lined(r, q, a, m, U, n)
  PROVE  Lined(Tail(r), q, a, m, V, n)
<1>1. \A d \in Containers : d.id \in Nat BY DEF Containers
<1>2. \A w \in {r, q, a, m} : \A i \in DOMAIN w : w[i].id \in Nat
  BY <1>1
<1>3. Len(r) \in Nat \ {0} /\ DOMAIN r = 1..Len(r) /\ Head(r) = r[1]
  BY EmptySeq, LenProperties
<1>4. \A i \in DOMAIN Tail(r) :
        /\ i \in Nat /\ i + 1 \in DOMAIN r /\ 1 \in DOMAIN r
        /\ 1 < i + 1 /\ Tail(r)[i] = r[i + 1]
  BY <1>3
<1>5. Rising(Tail(r)) BY <1>3, <1>4 DEF Lined, Rising
<1>6. Before(Tail(r), q) /\ Before(Tail(r), a) /\ Before(Tail(r), m)
  BY <1>4 DEF Lined, Before
<1>7. Unused(Tail(r), V, n)
  <2>1. ASSUME NEW i \in DOMAIN Tail(r) PROVE Tail(r)[i] # Head(r)
    <3>1. r[1].id < r[i + 1].id BY <1>4 DEF Lined, Rising
    <3>2. r[1].id \in Nat BY <1>2, <1>4
    <3> QED BY <1>3, <1>4, <3>1, <3>2
  <2> QED BY <1>4, <2>1 DEF Lined, Unused
<1>8. ASSUME NEW w \in {q, a, m}, Before(r, w), Unused(w, U, n)
      PROVE  Unused(w, V, n)
  <2>1. ASSUME NEW i \in DOMAIN w PROVE w[i] # Head(r)
    <3>1. 1 \in DOMAIN r BY <1>3
    <3>2. r[1].id < w[i].id BY <3>1, <1>8 DEF Before
    <3>3. r[1].id \in Nat BY <1>2, <3>1
    <3> QED BY <1>3, <3>2, <3>3
  <2> QED BY <1>8, <2>1 DEF Unused
<1>9. \A c \in V : c.id <= n BY <1>3 DEF Lined, Unused
<1> QED BY <1>5, <1>6, <1>7, <1>8, <1>9 DEF Lined

LEMMA LineStartAM ==
  ASSUME NEW r \in Seq(Containers), NEW a \in Seq(Containers), a # <<>>,
         NEW m \in Seq(Containers),
         NEW U, NEW V, V \subseteq U \cup {Head(a)}, NEW n,
         Lined(r, <<>>, a, m, U, n)
  PROVE  Lined(r, <<>>, <<>>, m, V, n)
<1>1. \A d \in Containers : d.id \in Nat BY DEF Containers
<1>2. 1 \in DOMAIN a /\ Head(a) = a[1] /\ a[1].id \in Nat
  BY <1>1, EmptySeq, LenProperties
<1>3. \A i \in DOMAIN r : r[i].id < a[1].id BY <1>2 DEF Lined, Before
<1>4. \A i \in DOMAIN m : a[1].id < m[i].id BY <1>2 DEF Lined, Before
<1>5. Unused(r, V, n) BY <1>2, <1>3 DEF Lined, Unused
<1>6. Unused(m, V, n) BY <1>2, <1>4 DEF Lined, Unused
<1>7. \A c \in V : c.id <= n BY <1>2 DEF Lined, Unused
<1>8. /\ Rising(<<>>) /\ Unused(<<>>, V, n) /\ Before(r, <<>>) /\ Before(<<>>, m)
  BY DEF Rising, Unused, Before
<1> QED BY <1>5, <1>6, <1>7, <1>8 DEF Lined

(* The parts of the line in the states of the AM.                           *)
LEMMA LineTypes ==
  ASSUME TypeInv
  PROVE  /\ Taken \in Seq(Containers) /\ Queued \in Seq(Containers)
         /\ Awaited \in Seq(Containers) /\ allocated \in Seq(Containers)
         /\ Assigned \subseteq Containers /\ Used \subseteq Containers
         /\ lastId \in Nat
         /\ pc # "awaitAM" => Awaited = <<>>
         /\ pc # "middle" => Queued = <<>>
         /\ pc \in {"first", "middle", "stopping", "done"} => Taken = <<>>
         /\ response \in Responses => Taken = response.allocated
         /\ amResponse \in Responses => Awaited = amResponse.allocated
<1> USE DEF TypeInv
<1>1. <<>> \in Seq(Containers) OBVIOUS
<1>2. \A x \in Responses : x.allocated \in Seq(Containers) /\ x # NoResponse
  BY NoneAssumption DEF Responses
<1>3. responseQueue # <<>> => Head(responseQueue) \in Responses
  BY OneAnswer DEF AnswerInv
<1>4. Taken \in Seq(Containers) /\ Queued \in Seq(Containers)
      /\ Awaited \in Seq(Containers)
  BY <1>1, <1>2, <1>3 DEF AnswerInv, Taken, Queued, Awaited
<1>5. Assigned \subseteq Containers BY DEF Assigned, AssignedTypes
<1>6. Used \subseteq Containers BY <1>5 DEF Used, AMTypes
<1>7. /\ pc # "awaitAM" => Awaited = <<>>
      /\ pc # "middle" => Queued = <<>>
      /\ pc \in {"first", "middle", "stopping", "done"} => Taken = <<>>
  BY DEF AnswerInv, Taken, Queued, Awaited
<1>8. /\ response \in Responses => Taken = response.allocated
      /\ amResponse \in Responses => Awaited = amResponse.allocated
  BY <1>2 DEF Taken, Awaited
<1>9. allocated \in Seq(Containers) /\ lastId \in Nat BY DEF RMTypes
<1> QED BY <1>4, <1>5, <1>6, <1>7, <1>8, <1>9

LEMMA InitUsed == ASSUME Init PROVE UsedInv
<1>1. Assigned = {} /\ Used = {} BY DEF Init, Assigned, Used, Kinds
<1>2. Taken = <<>> /\ Queued = <<>> /\ Awaited = <<>> /\ allocated = <<>>
  BY DEF Init, Taken, Queued, Awaited
<1>3. Lined(<<>>, <<>>, <<>>, <<>>, {}, lastId)
  BY DEF Lined, Rising, Before, Unused
<1>4. HostInv BY <1>1 DEF Init, HostInv, Kinds
<1> QED BY <1>1, <1>2, <1>3, <1>4 DEF UsedInv, LineInv

(* No container starts to be used.                                          *)
Unstarted ==
    /\ \A k \in Kinds : DOMAIN assigned'[k] \subseteq DOMAIN assigned[k]
    /\ amContainer' \in {amContainer, NoContainer}

LEMMA UnstartedHosts ==
  ASSUME TypeInv, HostInv, Unstarted
  PROVE  HostInv' /\ Used' \subseteq Used
<1>1. Assigned' \subseteq Assigned BY DEF Unstarted, Assigned
<1>2. Used' \subseteq Used BY <1>1 DEF Unstarted, Used
<1>3. NoContainer \notin Assigned BY LineTypes, NoneAssumption
<1>4. amContainer' \notin Assigned' BY <1>1, <1>3 DEF Unstarted, HostInv
<1>5. DOMAIN assigned'["map"] \cap DOMAIN assigned'["reduce"] = {}
  BY DEF Unstarted, HostInv, Kinds
<1> QED BY <1>2, <1>4, <1>5 DEF HostInv

LEMMA SameUnstarted ==
  ASSUME UNCHANGED <<assigned, amContainer>> PROVE Unstarted
BY DEF Unstarted

(* Steps that leave the line as it is.                                      *)
LEMMA SameLine ==
  ASSUME TypeInv, UsedInv, Unstarted, UNCHANGED <<Taken, Queued, Awaited, allocated, lastId>>
  PROVE  UsedInv'
<1>1. HostInv' /\ Used' \subseteq Used BY UnstartedHosts DEF UsedInv
<1> QED BY <1>1, LineForgets DEF UsedInv, LineInv

LEMMA AskUsed ==
  ASSUME TypeInv, UsedInv, Unstarted, Awaited = <<>>, Awaited' = allocated,
         allocated' = <<>>, UNCHANGED <<Taken, Queued, lastId>>
  PROVE  UsedInv'
<1>1. HostInv' /\ Used' \subseteq Used BY UnstartedHosts DEF UsedInv
<1>2. Lined(Taken, Queued, allocated, <<>>, Used', lastId)
  BY <1>1, LineAsk DEF UsedInv, LineInv
<1> QED BY <1>1, <1>2 DEF UsedInv, LineInv

LEMMA AnswerUsed ==
  ASSUME TypeInv, UsedInv, UNCHANGED <<assigned, amContainer, Taken, lastId>>,
         Awaited = <<>>, Awaited' = <<>>, Queued = <<>>, Queued' = allocated,
         allocated' = <<>>
  PROVE  UsedInv'
<1>1. HostInv' /\ Used' \subseteq Used
  BY SameUnstarted, UnstartedHosts DEF UsedInv
<1>2. Lined(Taken, allocated, <<>>, <<>>, Used, lastId)
  BY LineAnswer DEF UsedInv, LineInv
<1>3. Lined(Taken, allocated, <<>>, <<>>, Used', lastId)
  BY <1>1, <1>2, LineForgets
<1> QED BY <1>1, <1>3 DEF UsedInv, LineInv

(* The answer to an allocate call.                                          *)
LEMMA CallAnswer ==
  ASSUME NEW ask, AllocateCall(ask)
  PROVE  allocated' = <<>> /\ lastId' = lastId /\ Answer.allocated = allocated
BY DEF AllocateCall, Answer

LEMMA CallsUsed ==
  ASSUME TypeInv, UsedInv,
         \/ FirstStep \/ PollForAM \/ RequestNothing
         \/ \E k \in Kinds : RequestPending(k) \/ RequestFailed(k)
  PROVE  UsedInv'
<1>1. CASE FirstStep
  <2>1. AskForAM /\ amResponse' = Answer /\ pc = "first" /\ pc' = "awaitAM"
    BY <1>1 DEF FirstStep, AskForAM
  <2>2. TypeInv' BY <1>1, FirstStepTypes
  <2>3. amResponse' \in Responses BY <2>1, <2>2 DEF TypeInv, AnswerInv
  <2>4. allocated' = <<>> /\ lastId' = lastId /\ Answer.allocated = allocated
    BY <2>1, CallAnswer DEF AskForAM
  <2>5. Awaited = <<>> /\ Awaited' = allocated
    BY <2>1, <2>3, <2>4, NoneAssumption, LineTypes DEF Awaited
  <2>6. UNCHANGED <<Taken, Queued, assigned, amContainer>>
    BY <1>1 DEF FirstStep, listVars, Taken, Queued
  <2> QED BY <2>4, <2>5, <2>6, SameUnstarted, AskUsed
<1>2. CASE PollForAM
  <2>1. TypeInv' /\ responseQueue' = <<>> /\ amResponse' = Answer
    BY <1>2, PollForAMTypes
  <2>2. pc = "awaitAM" /\ pc' = "awaitAM" /\ amResponse.allocated = <<>>
        /\ UNCHANGED <<response, assigned, amContainer>>
    BY <1>2 DEF PollForAM, listVars, amVars
  <2>3. amResponse' \in Responses /\ amResponse \in Responses
        /\ responseQueue = <<>>
    BY <2>1, <2>2 DEF TypeInv, AnswerInv
  <2>4. allocated' = <<>> /\ lastId' = lastId /\ Answer.allocated = allocated
    BY <1>2, CallAnswer DEF PollForAM
  <2>5. Awaited = <<>> /\ Awaited' = allocated
    BY <2>1, <2>2, <2>3, <2>4, NoneAssumption DEF Awaited
  <2>6. UNCHANGED <<Taken, Queued>> BY <2>1, <2>2, <2>3 DEF Taken, Queued
  <2> QED BY <2>2, <2>4, <2>5, <2>6, SameUnstarted, AskUsed
<1>3. CASE \/ RequestNothing
           \/ \E k \in Kinds : RequestPending(k) \/ RequestFailed(k)
  <2>1. responseQueue' = <<Answer>> /\ TypeInv'
    BY <1>3, RequestTypes, RequestNothingTypes
  <2>2. \E ask : AllocateCall(ask)
    BY <1>3 DEF RequestNothing, RequestPending, RequestFailed, Request
  <2>3. /\ responseQueue = <<>> /\ pc = "middle"
        /\ UNCHANGED <<pc, response, amResponse, assigned, amContainer>>
    BY <1>3 DEF RequestNothing, RequestPending, RequestFailed, Request, Heartbeat,
                listVars, amVars
  <2>4. allocated' = <<>> /\ lastId' = lastId /\ Answer.allocated = allocated
    BY <2>2, CallAnswer
  <2>5. Queued = <<>> /\ Queued' = allocated BY <2>1, <2>3, <2>4 DEF Queued
  <2>6. Taken' = Taken /\ Awaited' = Awaited /\ Awaited = <<>>
    BY <2>3, LineTypes DEF Taken, Awaited
  <2> QED BY <2>3, <2>4, <2>5, <2>6, AnswerUsed
<1> QED BY <1>1, <1>2, <1>3

(* What handling a status does to the containers that run tasks.            *)
LEMMA SucceededTasks ==
  ASSUME TypeInv, NEW s, ContainerSucceeded(s), NEW k \in Kinds
  PROVE  /\ k \in Owners(s.container) =>
              DOMAIN assigned'[k] = DOMAIN assigned[k] \ {s.container}
         /\ k \notin Owners(s.container) => assigned'[k] = assigned[k]
BY DEF ContainerSucceeded, Release, Without

LEMMA KilledTasks ==
  ASSUME TypeInv, NEW s, NEW k \in Kinds, TaskKilled(k, s)
  PROVE  /\ DOMAIN assigned'[k] = DOMAIN assigned[k] \ {s.container}
         /\ \A j \in Kinds : j # k => assigned'[j] = assigned[j]
<1>1. DOMAIN assigned = Kinds BY DEF TypeInv, AssignedTypes
<1> QED BY <1>1 DEF TaskKilled, Release, Without

LEMMA StatusUsed == ASSUME TypeInv, UsedInv, ProcessStatus PROVE UsedInv'
<1>1. PICK s \in response.completed :
        \/ ContainerSucceeded(s) \/ \E k \in Kinds : TaskKilled(k, s)
        \/ Restart(s)
  BY DEF ProcessStatus
<1>2. pc = "completed" /\ response \in Responses /\ amResponse = NoResponse
      /\ responseQueue = <<>>
  BY DEF ProcessStatus, TypeInv, AnswerInv
<1>3. Taken' = Taken
  <2>1. Consume(s) BY <1>1 DEF ContainerSucceeded, TaskKilled, Restart
  <2>2. response' \in Responses /\ response'.allocated = response.allocated
    BY <1>2, <2>1, ConsumeTypes
  <2> QED BY <1>2, <2>2, NoneAssumption DEF Taken
<1>4. CASE ContainerSucceeded(s)
  <2>1. UNCHANGED <<responseQueue, amResponse, allocated, lastId, amContainer>>
    BY <1>4 DEF ContainerSucceeded, rmVars, pullVars
  <2>2. Unstarted BY <1>4, <2>1, SucceededTasks DEF Unstarted
  <2> QED BY <1>3, <2>1, <2>2, SameLine DEF Queued, Awaited
<1>5. ASSUME NEW k \in Kinds, TaskKilled(k, s) PROVE UsedInv'
  <2>1. UNCHANGED <<responseQueue, amResponse, allocated, lastId, amContainer>>
    BY <1>5 DEF TaskKilled, rmVars, pullVars, amVars
  <2>2. Unstarted BY <1>5, <2>1, KilledTasks DEF Unstarted
  <2> QED BY <1>3, <2>1, <2>2, SameLine DEF Queued, Awaited
<1>6. CASE Restart(s)
  <2>1. AskForAM /\ UNCHANGED <<responseQueue, assigned>> /\ amContainer' = NoContainer
    BY <1>6 DEF Restart
  <2>2. amResponse' \in Responses /\ amResponse' = Answer
    BY <2>1, AskForAMTypes DEF AskForAM, TypeInv
  <2>3. allocated' = <<>> /\ lastId' = lastId /\ Answer.allocated = allocated
    BY <2>1, CallAnswer DEF AskForAM
  <2>4. Awaited = <<>> /\ Awaited' = allocated
    BY <1>2, <2>2, <2>3, NoneAssumption DEF Awaited
  <2>5. Unstarted BY <2>1 DEF Unstarted
  <2>6. Queued' = Queued BY <2>1 DEF Queued
  <2> QED BY <1>3, <2>3, <2>4, <2>5, <2>6, AskUsed
<1> QED BY <1>1, <1>4, <1>5, <1>6

LEMMA TakeUsed == ASSUME TypeInv, UsedInv, TakeResponse PROVE UsedInv'
<1>1. pc = "middle" /\ UNCHANGED <<assigned, amContainer, amResponse, allocated, lastId>>
  BY DEF TakeResponse, listVars, amVars, rmVars, pullVars
<1>2. Taken = <<>> /\ Awaited = <<>> BY <1>1, LineTypes
<1>3. /\ responseQueue # <<>> /\ Head(responseQueue) \in Responses
      /\ responseQueue' = <<>> /\ response' = Head(responseQueue)
  BY OneAnswer, TakeResponseTypes DEF TakeResponse, TypeInv, AnswerInv
<1>4. Taken' = Queued /\ Queued' = <<>> /\ Awaited' = Awaited
  BY <1>1, <1>3, NoneAssumption DEF Taken, Queued, Awaited
<1>5. HostInv' /\ Used' \subseteq Used
  BY <1>1, SameUnstarted, UnstartedHosts DEF UsedInv
<1>6. Lined(Queued, <<>>, <<>>, allocated, Used, lastId)
  BY <1>2, LineTake DEF UsedInv, LineInv
<1>7. Lined(Queued, <<>>, <<>>, allocated, Used', lastId)
  BY <1>5, <1>6, LineForgets
<1> QED BY <1>1, <1>2, <1>4, <1>5, <1>7 DEF UsedInv, LineInv

(* A container of an answer is not used yet.                                *)
LEMMA HeadUnused ==
  ASSUME TypeInv, UsedInv, NEW w \in {Taken, Awaited}, w # <<>>
  PROVE  Head(w) \in Containers /\ Head(w) \notin Used
<1>1. w \in Seq(Containers) BY LineTypes
<1>2. Head(w) = w[1] /\ 1 \in DOMAIN w /\ Head(w) \in Containers
  BY <1>1, EmptySeq, LenProperties
<1> QED BY <1>2 DEF UsedInv, LineInv, Lined, Unused

LEMMA StartAMUsed == ASSUME TypeInv, UsedInv, StartAM PROVE UsedInv'
<1>1. /\ pc = "awaitAM" /\ amResponse.allocated # <<>>
      /\ amContainer' = Head(amResponse.allocated) /\ amResponse' = NoResponse
      /\ UNCHANGED <<assigned, response, responseQueue, allocated, lastId>>
  BY DEF StartAM, listVars, rmVars, pullVars
<1>2. Awaited = amResponse.allocated /\ Queued = <<>>
  BY <1>1, LineTypes DEF TypeInv, AnswerInv
<1>3. Taken' = Taken /\ Queued' = <<>> /\ Awaited' = <<>>
  BY <1>1, <1>2 DEF Taken, Queued, Awaited
<1>4. Head(Awaited) \in Containers /\ Head(Awaited) \notin Used
  BY <1>1, <1>2, HeadUnused
<1>5. Assigned' = Assigned BY <1>1 DEF Assigned
<1>6. Used' \subseteq Used \cup {Head(Awaited)} BY <1>1, <1>2, <1>5 DEF Used
<1>7. HostInv' BY <1>1, <1>2, <1>4, <1>5 DEF UsedInv, HostInv, Used
<1>8. Lined(Taken, <<>>, <<>>, allocated, Used', lastId)
  BY <1>1, <1>2, <1>6, LineTypes, LineStartAM DEF UsedInv, LineInv
<1> QED BY <1>1, <1>3, <1>7, <1>8 DEF UsedInv, LineInv

(* What Launch does to the containers that run tasks: at most one kind has  *)
(* a task for the container.                                                *)
LEMMA LaunchTasks ==
  ASSUME TypeInv, Launch
  PROVE  LET c == Head(Taken) IN
         /\ Taken # <<>> /\ Taken' = Tail(Taken)
         /\ \A k \in Kinds : \/ /\ k \in Waiting
                                /\ DOMAIN assigned'[k] = DOMAIN assigned[k] \cup {c}
                             \/ k \notin Waiting /\ assigned'[k] = assigned[k]
         /\ ~ ("map" \in Waiting /\ "reduce" \in Waiting)
<1>1. /\ response \in Responses /\ Taken = response.allocated /\ Taken # <<>>
  BY LineTypes DEF Launch, TypeInv, AnswerInv
<1>2. Taken' = Tail(Taken)
  <2>1. TypeInv' BY LaunchTypes
  <2>2. response' \in Responses /\ response'.allocated = Tail(response.allocated)
    BY <1>1, <2>1 DEF Launch, TypeInv, AnswerInv, Responses
  <2> QED BY <1>1, <2>2, NoneAssumption DEF Taken
<1>3. ~ ("map" \in Waiting /\ "reduce" \in Waiting) BY DEF Waiting
<1>4. \A k \in Kinds :
         \/ /\ k \in Waiting
            /\ DOMAIN assigned'[k] = DOMAIN assigned[k] \cup {Head(Taken)}
         \/ k \notin Waiting /\ assigned'[k] = assigned[k]
  BY <1>1 DEF Launch, Put
<1> QED BY <1>1, <1>2, <1>3, <1>4

LEMMA LaunchUsed == ASSUME TypeInv, UsedInv, Launch PROVE UsedInv'
<1> DEFINE c == Head(Taken)
<1>1. /\ Taken # <<>> /\ Taken' = Tail(Taken)
      /\ \A k \in Kinds : \/ /\ k \in Waiting
                             /\ DOMAIN assigned'[k] = DOMAIN assigned[k] \cup {c}
                          \/ k \notin Waiting /\ assigned'[k] = assigned[k]
      /\ ~ ("map" \in Waiting /\ "reduce" \in Waiting)
  BY LaunchTasks
<1>2. UNCHANGED <<amContainer, responseQueue, amResponse, allocated, lastId>>
  BY DEF Launch, amVars, pullVars
<1>3. c \in Containers /\ c \notin Used BY <1>1, HeadUnused
<1> HIDE DEF c
<1>4. Assigned' \subseteq Assigned \cup {c} BY <1>1 DEF Assigned
<1>5. Used' \subseteq Used \cup {c} BY <1>2, <1>4 DEF Used
<1>6. HostInv'
  <2>1. c \notin Assigned /\ c # amContainer
    BY <1>3, NoneAssumption DEF Used
  <2>2. amContainer' \notin Assigned'
    BY <1>2, <1>4, <2>1 DEF UsedInv, HostInv
  <2>3. c \notin DOMAIN assigned["map"] /\ c \notin DOMAIN assigned["reduce"]
    BY <2>1 DEF Assigned, Kinds
  <2>4. \/ DOMAIN assigned'["map"] = DOMAIN assigned["map"]
        \/ /\ "map" \in Waiting
           /\ DOMAIN assigned'["map"] = DOMAIN assigned["map"] \cup {c}
    BY <1>1 DEF Kinds
  <2>5. \/ DOMAIN assigned'["reduce"] = DOMAIN assigned["reduce"]
        \/ /\ "reduce" \in Waiting
           /\ DOMAIN assigned'["reduce"] = DOMAIN assigned["reduce"] \cup {c}
    BY <1>1 DEF Kinds
  <2>6. DOMAIN assigned'["map"] \cap DOMAIN assigned'["reduce"] = {}
    BY <1>1, <2>3, <2>4, <2>5 DEF UsedInv, HostInv
  <2> QED BY <2>2, <2>6 DEF HostInv
<1>7. Lined(Tail(Taken), Queued, Awaited, allocated, Used', lastId)
  BY <1>1, <1>5, LineTypes, LineLaunch DEF UsedInv, LineInv, c
<1>8. Queued' = Queued /\ Awaited' = Awaited BY <1>2 DEF Queued, Awaited
<1> QED BY <1>1, <1>2, <1>6, <1>7, <1>8 DEF UsedInv, LineInv

LEMMA EndUsed ==
  ASSUME TypeInv, UsedInv,
         CheckFinished \/ ResponseProcessed \/ CheckStop \/ LastStep \/ UNCHANGED vars
  PROVE  UsedInv'
<1>1. CASE CheckFinished \/ CheckStop \/ UNCHANGED vars
  <2>1. UNCHANGED <<response, responseQueue, amResponse, assigned, amContainer,
                    allocated, lastId>>
    BY <1>1 DEF CheckFinished, CheckStop, listVars, amVars, queueVars, rmVars,
                pullVars, vars
  <2> QED BY <2>1, SameLine, SameUnstarted DEF Taken, Queued, Awaited
<1>2. CASE ResponseProcessed
  <2>1. UNCHANGED <<responseQueue, amResponse, assigned, amContainer, allocated, lastId>>
        /\ response' = NoResponse /\ response.allocated = <<>>
    BY <1>2 DEF ResponseProcessed, listVars, amVars, rmVars, pullVars
  <2>2. Taken = <<>> /\ Taken' = <<>> BY <2>1 DEF Taken
  <2> QED BY <2>1, <2>2, SameLine, SameUnstarted DEF Queued, Awaited
<1>3. CASE LastStep
  <2>1. pc = "stopping" /\ responseQueue' = <<>> /\ allocated' = <<>>
        /\ assigned' = [k \in Kinds |-> <<>>]
        /\ UNCHANGED <<response, amResponse, amContainer, lastId>>
    BY <1>3 DEF LastStep
  <2>2. Taken' = <<>> /\ Queued' = <<>> /\ Awaited' = <<>>
    BY <2>1 DEF TypeInv, AnswerInv, Taken, Queued, Awaited
  <2>3. Unstarted BY <2>1 DEF Unstarted
  <2>4. HostInv' /\ Used' \subseteq Used BY <2>3, UnstartedHosts DEF UsedInv
  <2>5. Lined(<<>>, <<>>, <<>>, <<>>, Used', lastId)
    BY <2>4, LineForgets DEF UsedInv, LineInv
  <2> QED BY <2>1, <2>2, <2>4, <2>5 DEF UsedInv, LineInv
<1> QED BY <1>1, <1>2, <1>3

LEMMA RMUsed == ASSUME TypeInv, UsedInv, RMStep PROVE UsedInv'
<1>1. UNCHANGED <<response, responseQueue, amResponse, assigned, amContainer>>
  BY DEF RMStep, RMAllocate, NMCompletes, RMKill, Exit, listVars, amVars, queueVars
<1>2. UNCHANGED <<Taken, Queued, Awaited>> BY <1>1 DEF Taken, Queued, Awaited
<1>3. ASSUME NEW k \in RequestKinds, RMAllocate(k) PROVE UsedInv'
  <2> DEFINE c == [id |-> lastId + 1, kind |-> k]
  <2>1. lastId' = lastId + 1 /\ allocated' = Append(allocated, c)
    BY <1>3 DEF RMAllocate
  <2>2. c \in Containers /\ c.id = lastId + 1 BY LineTypes DEF Containers
  <2> HIDE DEF c
  <2>3. Lined(Taken, Queued, Awaited, Append(allocated, c), Used, lastId + 1)
    BY <2>2, LineTypes, LineAppend DEF UsedInv, LineInv
  <2>4. HostInv' /\ Used' \subseteq Used
    BY <1>1, SameUnstarted, UnstartedHosts DEF UsedInv
  <2>5. Lined(Taken, Queued, Awaited, Append(allocated, c), Used', lastId + 1)
    BY <2>3, <2>4, LineForgets
  <2> QED BY <1>2, <2>1, <2>4, <2>5 DEF UsedInv, LineInv
<1>4. ASSUME NEW c, NEW b, Exit(c, b) PROVE UsedInv'
  <2>1. allocated' = allocated /\ lastId' = lastId BY <1>4 DEF Exit
  <2> QED BY <1>1, <1>2, <2>1, SameLine, SameUnstarted
<1> QED BY <1>3, <1>4 DEF RMStep, NMCompletes, RMKill

LEMMA UsedStep == ASSUME TypeInv, UsedInv, [Next]_vars PROVE UsedInv'
BY CallsUsed, StatusUsed, TakeUsed, StartAMUsed, LaunchUsed, EndUsed, RMUsed
   DEF Next, AMStep

LEMMA UsedOnce == ASSUME TypeInv, UsedInv PROVE ContainerUsedOnce
<1>1. NoContainer \notin Containers BY NoneAssumption
<1>2. ASSUME NEW w \in {allocated, Taken}, NEW i \in DOMAIN w
      PROVE  w[i] \notin Assigned \cup {amContainer}
  <2>1. w[i] \notin Used BY DEF UsedInv, LineInv, Lined, Unused
  <2>2. w[i] \in Containers BY LineTypes
  <2> QED BY <1>1, <2>1, <2>2 DEF Used
<1>3. response # NoResponse => Taken = response.allocated BY DEF Taken
<1> QED BY <1>2, <1>3 DEF ContainerUsedOnce, UsedInv, HostInv

THEOREM UsedInvariant == Spec => [](TypeInv /\ UsedInv)
<1>1. TypeInv /\ UsedInv /\ [Next]_vars => UsedInv' BY UsedStep
<1>2. Init => UsedInv BY InitUsed
<1> QED BY <1>1, <1>2, TypeInvariant, PTL DEF Spec

(* A container hosts the AM or one task, never two things, through kills,   *)
(* restarts and answers that are dropped.                                   *)
THEOREM HostsOneThing == Spec => []ContainerUsedOnce
<1>1. TypeInv /\ UsedInv => ContainerUsedOnce BY UsedOnce
<1> QED BY <1>1, UsedInvariant, PTL

-----------------------------------------------------------------------------
(* The tasks of a kind, counted by where they are.                          *)
NPending(k) == Len(pending[k])
NFailed(k) == Len(pendingFailed[k])
NRunning(k) == Cardinality(DOMAIN assigned[k])
NDone(k) == finished[k]
Balanced(k) == NPending(k) + NFailed(k) + ToRun(k) + NRunning(k) + NDone(k) = Total(k)

LEMMA TallyTypes ==
  ASSUME TypeInv, NEW k \in Kinds
  PROVE  /\ NPending(k) \in Nat /\ NFailed(k) \in Nat /\ ToRun(k) \in Nat
         /\ NRunning(k) \in Nat /\ NDone(k) \in Nat /\ Total(k) \in Nat
<1> USE DEF TypeInv
<1>1. pending[k] \in Seq(Tasks) /\ pendingFailed[k] \in Seq(Tasks)
      /\ scheduled[k] \in Seq(Tasks) /\ finished[k] \in Nat
  BY DEF ListTypes
<1>2. NPending(k) \in Nat /\ NFailed(k) \in Nat /\ ToRun(k) \in Nat
  BY <1>1, LenProperties DEF NPending, NFailed, ToRun
<1>3. NRunning(k) \in Nat BY FS_CardinalityType DEF NRunning, AssignedTypes
<1>4. Total(k) \in Nat BY AllTasks
<1> QED BY <1>1, <1>2, <1>3, <1>4 DEF NDone

(* A kind whose tasks have all finished has none anywhere else.             *)
LEMMA DoneIsDone ==
  ASSUME TypeInv, NEW k \in Kinds, Balanced(k), finished[k] = Total(k)
  PROVE  /\ pending[k] = <<>> /\ pendingFailed[k] = <<>> /\ scheduled[k] = <<>>
         /\ DOMAIN assigned[k] = {}
<1>1. NPending(k) = 0 /\ NFailed(k) = 0 /\ ToRun(k) = 0 /\ NRunning(k) = 0
  <2>1. NDone(k) = Total(k) BY DEF NDone
  <2> QED BY <2>1, TallyTypes DEF Balanced
<1>2. pending[k] \in Seq(Tasks) /\ pendingFailed[k] \in Seq(Tasks)
      /\ scheduled[k] \in Seq(Tasks) /\ IsFiniteSet(DOMAIN assigned[k])
  BY DEF TypeInv, ListTypes, AssignedTypes
<1>3. DOMAIN assigned[k] = {}
  BY <1>1, <1>2, FS_EmptySet DEF NRunning
<1> QED BY <1>1, <1>2, <1>3, EmptySeq DEF NPending, NFailed, ToRun

(* What the steps do to the counts of a kind.                               *)
CountSame(k) ==
    /\ NPending(k)' = NPending(k) /\ NFailed(k)' = NFailed(k)
    /\ ToRun(k)' = ToRun(k) /\ NRunning(k)' = NRunning(k) /\ NDone(k)' = NDone(k)
CountFinish(k) ==
    /\ NPending(k)' = NPending(k) /\ NFailed(k)' = NFailed(k)
    /\ ToRun(k)' = ToRun(k) /\ NRunning(k)' = NRunning(k) - 1
    /\ NDone(k)' = NDone(k) + 1
CountKill(k) ==
    /\ NPending(k)' = NPending(k) /\ NFailed(k)' = NFailed(k) + 1
    /\ ToRun(k)' = ToRun(k) /\ NRunning(k)' = NRunning(k) - 1
    /\ NDone(k)' = NDone(k)
CountLaunch(k) ==
    /\ NPending(k)' = NPending(k) /\ NFailed(k)' = NFailed(k)
    /\ ToRun(k)' = ToRun(k) - 1 /\ NRunning(k)' = NRunning(k) + 1
    /\ NDone(k)' = NDone(k)
CountRequest(k) ==
    /\ NPending(k)' = 0 /\ NFailed(k)' = NFailed(k)
    /\ ToRun(k)' = ToRun(k) + NPending(k) /\ NRunning(k)' = NRunning(k)
    /\ NDone(k)' = NDone(k)
CountRetry(k) ==
    /\ NPending(k)' = NPending(k) /\ NFailed(k)' = 0
    /\ ToRun(k)' = ToRun(k) + NFailed(k) /\ NRunning(k)' = NRunning(k)
    /\ NDone(k)' = NDone(k)
Moves(k) ==
    \/ CountSame(k) \/ CountFinish(k) \/ CountKill(k)
    \/ CountLaunch(k) \/ CountRequest(k) \/ CountRetry(k)

LEMMA MovesBalance ==
  ASSUME TypeInv, NEW k \in Kinds, Balanced(k), Moves(k) PROVE Balanced(k)'
<1>1. /\ NPending(k) \in Nat /\ NFailed(k) \in Nat /\ ToRun(k) \in Nat
      /\ NRunning(k) \in Nat /\ NDone(k) \in Nat /\ Total(k) \in Nat
  BY TallyTypes
<1>2. CASE CountSame(k) BY <1>1, <1>2 DEF CountSame, Balanced
<1>3. CASE CountFinish(k) BY <1>1, <1>3 DEF CountFinish, Balanced
<1>4. CASE CountKill(k) BY <1>1, <1>4 DEF CountKill, Balanced
<1>5. CASE CountLaunch(k) BY <1>1, <1>5 DEF CountLaunch, Balanced
<1>6. CASE CountRequest(k) BY <1>1, <1>6 DEF CountRequest, Balanced
<1>7. CASE CountRetry(k) BY <1>1, <1>7 DEF CountRetry, Balanced
<1> QED BY <1>2, <1>3, <1>4, <1>5, <1>6, <1>7 DEF Moves

LEMMA SameCounts ==
  ASSUME UNCHANGED listVars, NEW k \in Kinds PROVE Moves(k)
BY DEF listVars, Moves, CountSame, NPending, NFailed, ToRun, NRunning, NDone

LEMMA SucceededMoves ==
  ASSUME TypeInv, NEW s, ContainerSucceeded(s), NEW k \in Kinds PROVE Moves(k)
<1> DEFINE c == s.container
<1>1. /\ NPending(k)' = NPending(k) /\ NFailed(k)' = NFailed(k)
      /\ ToRun(k)' = ToRun(k)
      /\ NDone(k)' = NDone(k) + IF k \in Owners(c) THEN 1 ELSE 0
  BY DEF ContainerSucceeded, NPending, NFailed, ToRun, NDone
<1>2. CASE k \in Owners(c)
  <2>1. c \in DOMAIN assigned[k] /\ IsFiniteSet(DOMAIN assigned[k])
    BY <1>2 DEF Owners, TypeInv, AssignedTypes
  <2>2. DOMAIN assigned'[k] = DOMAIN assigned[k] \ {c} BY <1>2, SucceededTasks
  <2>3. NRunning(k)' = NRunning(k) - 1
    BY <2>1, <2>2, FS_RemoveElement DEF NRunning
  <2> QED BY <1>1, <1>2, <2>3 DEF Moves, CountFinish
<1>3. CASE k \notin Owners(c)
  <2>1. NRunning(k)' = NRunning(k) BY <1>3, SucceededTasks DEF NRunning
  <2>2. NDone(k)' = NDone(k) BY <1>1, <1>3, TallyTypes
  <2> QED BY <1>1, <2>1, <2>2 DEF Moves, CountSame
<1> QED BY <1>2, <1>3

LEMMA KilledMoves ==
  ASSUME TypeInv, NEW s, NEW j \in Kinds, TaskKilled(j, s), NEW k \in Kinds
  PROVE  Moves(k)
<1> USE DEF TypeInv
<1> DEFINE c == s.container
<1>1. /\ NPending(k)' = NPending(k) /\ ToRun(k)' = ToRun(k) /\ NDone(k)' = NDone(k)
  BY DEF TaskKilled, NPending, ToRun, NDone
<1>2. CASE k = j
  <2>1. c \in DOMAIN assigned[k] /\ IsFiniteSet(DOMAIN assigned[k])
    BY <1>2 DEF TaskKilled, Owners, AssignedTypes
  <2>2. DOMAIN assigned'[k] = DOMAIN assigned[k] \ {c} BY <1>2, KilledTasks
  <2>3. NRunning(k)' = NRunning(k) - 1
    BY <2>1, <2>2, FS_RemoveElement DEF NRunning
  <2>4. NFailed(k)' = NFailed(k) + 1
    <3>1. pendingFailed'[k] = Append(pendingFailed[k], assigned[k][c])
      BY <1>2 DEF TaskKilled, ListTypes
    <3>2. pendingFailed[k] \in Seq(Tasks) /\ assigned[k][c] \in Tasks
      BY <2>1 DEF ListTypes, AssignedTypes
    <3> QED BY <3>1, <3>2 DEF NFailed
  <2> QED BY <1>1, <2>3, <2>4 DEF Moves, CountKill
<1>3. CASE k # j
  <2>1. assigned'[k] = assigned[k] BY <1>3, KilledTasks
  <2>2. pendingFailed'[k] = pendingFailed[k] BY <1>3 DEF TaskKilled, ListTypes
  <2> QED BY <1>1, <2>1, <2>2 DEF Moves, CountSame, NRunning, NFailed
<1> QED BY <1>2, <1>3

LEMMA LaunchMoves ==
  ASSUME TypeInv, UsedInv, Launch, NEW k \in Kinds PROVE Moves(k)
<1> DEFINE c == Head(Taken)
<1>1. /\ Taken # <<>>
      /\ \/ k \in Waiting /\ DOMAIN assigned'[k] = DOMAIN assigned[k] \cup {c}
         \/ k \notin Waiting /\ assigned'[k] = assigned[k]
  BY LaunchTasks
<1>2. c \notin DOMAIN assigned[k] BY <1>1, HeadUnused DEF Used, Assigned
<1>3. /\ NPending(k)' = NPending(k) /\ NFailed(k)' = NFailed(k)
      /\ NDone(k)' = NDone(k)
  BY DEF Launch, NPending, NFailed, NDone
<1>4. scheduled'[k] = IF k \in Waiting THEN Tail(scheduled[k]) ELSE scheduled[k]
  BY DEF Launch
<1>5. CASE k \in Waiting
  <2>1. scheduled[k] # <<>> /\ scheduled[k] \in Seq(Tasks)
        /\ IsFiniteSet(DOMAIN assigned[k])
    BY <1>5 DEF Waiting, TypeInv, ListTypes, AssignedTypes
  <2>2. ToRun(k)' = ToRun(k) - 1
    BY <1>4, <1>5, <2>1, HeadTailProperties DEF ToRun
  <2>3. NRunning(k)' = NRunning(k) + 1
    <3> HIDE DEF c
    <3> QED BY <1>1, <1>2, <1>5, <2>1, FS_AddElement DEF NRunning
  <2> QED BY <1>3, <2>2, <2>3 DEF Moves, CountLaunch
<1>6. CASE k \notin Waiting
  BY <1>1, <1>3, <1>4, <1>6 DEF Moves, CountSame, ToRun, NRunning
<1> QED BY <1>5, <1>6

LEMMA RequestMoves ==
  ASSUME TypeInv, NEW j \in Kinds, RequestPending(j) \/ RequestFailed(j),
         NEW k \in Kinds
  PROVE  Moves(k)
<1> USE DEF TypeInv
<1>1. pending[j] \in Seq(Tasks) /\ pendingFailed[j] \in Seq(Tasks)
      /\ scheduled[j] \in Seq(Tasks)
  BY DEF ListTypes
<1>2. NRunning(k)' = NRunning(k) /\ NDone(k)' = NDone(k)
  BY DEF RequestPending, RequestFailed, Request, NRunning, NDone
<1>3. CASE k # j
  BY <1>2, <1>3 DEF RequestPending, RequestFailed, Request, ListTypes,
                    Moves, CountSame, NPending, NFailed, ToRun
<1>4. CASE k = j /\ RequestPending(j)
  <2>1. /\ scheduled'[j] = scheduled[j] \o pending[j]
        /\ pending'[j] = <<>> /\ pendingFailed' = pendingFailed
    BY <1>4 DEF RequestPending, Request, ListTypes
  <2>2. ToRun(j)' = ToRun(j) + NPending(j) BY <1>1, <2>1 DEF ToRun, NPending
  <2>3. NPending(j)' = 0 /\ NFailed(j)' = NFailed(j) BY <2>1 DEF NPending, NFailed
  <2> QED BY <1>2, <1>4, <2>2, <2>3 DEF Moves, CountRequest
<1>5. CASE k = j /\ RequestFailed(j)
  <2>1. /\ scheduled'[j] = scheduled[j] \o pendingFailed[j]
        /\ pendingFailed'[j] = <<>> /\ pending' = pending
    BY <1>5 DEF RequestFailed, Request, ListTypes
  <2>2. ToRun(j)' = ToRun(j) + NFailed(j) BY <1>1, <2>1 DEF ToRun, NFailed
  <2>3. NFailed(j)' = 0 /\ NPending(j)' = NPending(j) BY <2>1 DEF NPending, NFailed
  <2> QED BY <1>2, <1>5, <2>2, <2>3 DEF Moves, CountRetry
<1> QED BY <1>3, <1>4, <1>5

LEMMA CountMeans ==
  CountInv <=> (restarts = 0 /\ pc # "done" => \A k \in Kinds : Balanced(k))
BY DEF CountInv, Balanced, NPending, NFailed, ToRun, NRunning, NDone

(* A status is handled.                                                     *)
LEMMA StatusCases ==
  ASSUME ProcessStatus
  PROVE  /\ pc = "completed"
         /\ \E s \in response.completed :
               /\ s \in response.completed
               /\ \/ ContainerSucceeded(s)
                  \/ \E k \in Kinds : TaskKilled(k, s)
                  \/ Restart(s)
BY DEF ProcessStatus

LEMMA RestartCounted ==
  ASSUME TypeInv, NEW s, Restart(s) PROVE restarts' # 0
<1>1. restarts \in Nat /\ restarts' = restarts + 1
  BY DEF Restart, TypeInv, AMTypes
<1> QED BY <1>1

(* The steps that touch no list of tasks.                                   *)
LEMMA ListlessSteps ==
  ASSUME \/ FirstStep \/ StartAM \/ PollForAM \/ TakeResponse \/ CheckFinished
         \/ ResponseProcessed \/ RequestNothing \/ CheckStop \/ RMStep
         \/ UNCHANGED vars
  PROVE  UNCHANGED listVars /\ restarts' = restarts /\ (pc' # "done" => pc # "done")
<1>1. CASE FirstStep \/ StartAM \/ PollForAM \/ TakeResponse
  BY <1>1 DEF FirstStep, StartAM, PollForAM, TakeResponse
<1>2. CASE CheckFinished \/ ResponseProcessed \/ RequestNothing \/ CheckStop
  BY <1>2 DEF CheckFinished, ResponseProcessed, RequestNothing, CheckStop, Heartbeat
<1>3. CASE RMStep
  BY <1>3 DEF RMStep, RMAllocate, NMCompletes, RMKill, Exit
<1>4. CASE UNCHANGED vars BY <1>4 DEF vars
<1> QED BY <1>1, <1>2, <1>3, <1>4

LEMMA InitCount == ASSUME Init PROVE CountInv
<1>1. SUFFICES ASSUME NEW k \in Kinds PROVE Balanced(k)
  BY CountMeans
<1>2. NPending(k) = Total(k) /\ NFailed(k) = 0 /\ ToRun(k) = 0 /\ NDone(k) = 0
  BY DEF Init, NPending, NFailed, ToRun, NDone, Total
<1>3. NRunning(k) = 0 BY FS_EmptySet DEF Init, NRunning
<1>4. Total(k) \in Nat BY AllTasks
<1> QED BY <1>2, <1>3, <1>4 DEF Balanced

LEMMA CountStep ==
  ASSUME TypeInv, UsedInv, CountInv, [Next]_vars PROVE CountInv'
<1>1. SUFFICES ASSUME restarts' = 0, pc' # "done", NEW k \in Kinds
               PROVE  Balanced(k)'
  <2>1. CountInv' <=> (restarts' = 0 /\ pc' # "done" => \A k \in Kinds : Balanced(k)')
    BY DEF CountInv, Balanced, NPending, NFailed, ToRun, NRunning, NDone
  <2> QED BY <2>1
<1>2. SUFFICES restarts = 0 /\ pc # "done" /\ Moves(k)
  BY MovesBalance, CountMeans
<1>3. CASE \/ FirstStep \/ StartAM \/ PollForAM \/ TakeResponse \/ CheckFinished
           \/ ResponseProcessed \/ RequestNothing \/ CheckStop \/ RMStep
           \/ UNCHANGED vars
  BY <1>1, <1>3, ListlessSteps, SameCounts
<1>4. CASE ProcessStatus
  <2>1. PICK s \in response.completed :
          \/ ContainerSucceeded(s) \/ \E j \in Kinds : TaskKilled(j, s)
          \/ Restart(s)
    BY <1>4, StatusCases
  <2>2. pc = "completed" BY <1>4, StatusCases
  <2>3. ~Restart(s) BY <1>1, RestartCounted
  <2>4. restarts' = restarts BY <2>1, <2>3 DEF ContainerSucceeded, TaskKilled
  <2> QED BY <1>1, <2>1, <2>2, <2>3, <2>4, SucceededMoves, KilledMoves
<1>5. CASE Launch
  BY <1>1, <1>5, LaunchMoves DEF Launch
<1>6. CASE \E j \in Kinds : RequestPending(j) \/ RequestFailed(j)
  <2>1. restarts' = restarts /\ pc = "middle"
    BY <1>6 DEF RequestPending, RequestFailed, Request, Heartbeat
  <2> QED BY <1>1, <1>6, <2>1, RequestMoves
<1>7. CASE LastStep BY <1>1, <1>7 DEF LastStep
<1> QED BY <1>3, <1>4, <1>5, <1>6, <1>7 DEF Next, AMStep

THEOREM CountInvariant == Spec => [](TypeInv /\ UsedInv /\ CountInv)
<1>1. TypeInv /\ UsedInv /\ CountInv /\ [Next]_vars => CountInv' BY CountStep
<1>2. Init => CountInv BY InitCount
<1> QED BY <1>1, <1>2, UsedInvariant, PTL DEF Spec

(* Until a restart the lists of a kind add up to the job: no task is lost   *)
(* or counted twice by requests, launches, completions and kills.           *)
THEOREM TasksAddUp == Spec => []CountInv
BY CountInvariant, PTL

-----------------------------------------------------------------------------
(* Reduces stay in their list while a map is unfinished.                    *)

ReducesIdle ==
    /\ pendingFailed["reduce"] = <<>> /\ scheduled["reduce"] = <<>>
    /\ assigned["reduce"] = <<>> /\ finished["reduce"] = 0

LEMMA InitReduces == ASSUME Init PROVE ReducesAfterMaps
BY DEF Init, ReducesAfterMaps, Kinds

LEMMA ReduceStep ==
  ASSUME TypeInv, CountInv, ReducesAfterMaps, [Next]_vars PROVE ReducesAfterMaps'
<1>1. SUFFICES ASSUME restarts' = 0, finished'["map"] # Total("map")
               PROVE  ReducesIdle'
  BY DEF ReducesAfterMaps, ReducesIdle
<1>2. "map" \in Kinds /\ "reduce" \in Kinds BY DEF Kinds
<1>3. restarts = 0 /\ finished["map"] # Total("map") => ReducesIdle
  BY DEF ReducesAfterMaps, ReducesIdle
<1>4. CASE \/ FirstStep \/ StartAM \/ PollForAM \/ TakeResponse \/ CheckFinished
           \/ ResponseProcessed \/ RequestNothing \/ CheckStop \/ RMStep
           \/ UNCHANGED vars
  <2>1. UNCHANGED listVars /\ restarts' = restarts BY <1>4, ListlessSteps
  <2> QED BY <1>1, <1>3, <2>1 DEF listVars, ReducesIdle
<1>5. CASE ProcessStatus
  <2>1. PICK s \in response.completed :
          \/ ContainerSucceeded(s) \/ \E j \in Kinds : TaskKilled(j, s)
          \/ Restart(s)
    BY <1>5, StatusCases
  <2>2. pc = "completed" BY <1>5, StatusCases
  <2>3. ~Restart(s) BY <1>1, RestartCounted
  <2>4. restarts = 0 BY <1>1, <2>1, <2>3 DEF ContainerSucceeded, TaskKilled
  <2>5. Balanced("map") BY <1>2, <2>2, <2>4, CountMeans
  <2>6. CASE ContainerSucceeded(s)
    <3>1. finished'["map"] = finished["map"]
                              + IF "map" \in Owners(s.container) THEN 1 ELSE 0
      BY <1>2, <2>6 DEF ContainerSucceeded
    <3>2. finished["map"] # Total("map")
      <4>1. SUFFICES ASSUME finished["map"] = Total("map") PROVE FALSE OBVIOUS
      <4>2. DOMAIN assigned["map"] = {} BY <1>2, <2>5, <4>1, DoneIsDone
      <4>3. "map" \notin Owners(s.container) BY <4>2 DEF Owners
      <4>4. finished["map"] \in Nat BY <1>2 DEF TypeInv, ListTypes
      <4> QED BY <1>1, <3>1, <4>1, <4>3, <4>4
    <3>3. ReducesIdle BY <1>3, <2>4, <3>2
    <3>4. "reduce" \notin Owners(s.container) BY <3>3 DEF Owners, ReducesIdle
    <3>5. assigned'["reduce"] = assigned["reduce"]
      BY <1>2, <2>6, <3>4, SucceededTasks
    <3>6. finished'["reduce"] = 0
      BY <1>2, <2>6, <3>3, <3>4 DEF ContainerSucceeded, ReducesIdle
    <3> QED BY <2>6, <3>3, <3>5, <3>6 DEF ContainerSucceeded, ReducesIdle
  <2>7. ASSUME NEW j \in Kinds, TaskKilled(j, s) PROVE ReducesIdle'
    <3>1. finished' = finished BY <2>7 DEF TaskKilled
    <3>2. ReducesIdle BY <1>1, <1>3, <2>4, <3>1
    <3>3. j # "reduce" BY <2>7, <3>2 DEF TaskKilled, Owners, ReducesIdle
    <3>4. assigned'["reduce"] = assigned["reduce"]
      BY <1>2, <2>7, <3>3, KilledTasks
    <3>5. pendingFailed'["reduce"] = pendingFailed["reduce"]
      BY <1>2, <2>7, <3>3 DEF TaskKilled, TypeInv, ListTypes
    <3>6. scheduled' = scheduled BY <2>7 DEF TaskKilled
    <3> QED BY <3>1, <3>2, <3>4, <3>5, <3>6 DEF ReducesIdle
  <2> QED BY <2>1, <2>3, <2>6, <2>7
<1>6. CASE Launch
  <2>1. /\ restarts' = restarts /\ UNCHANGED <<finished, pendingFailed>>
    BY <1>6 DEF Launch
  <2>2. ReducesIdle BY <1>1, <1>3, <2>1
  <2>3. "reduce" \notin Waiting BY <2>2 DEF Waiting, ReducesIdle
  <2>4. assigned'["reduce"] = assigned["reduce"]
        /\ scheduled'["reduce"] = scheduled["reduce"]
    BY <1>2, <1>6, <2>3 DEF Launch
  <2> QED BY <2>1, <2>2, <2>4 DEF ReducesIdle
<1>7. CASE \E j \in Kinds : RequestPending(j) \/ RequestFailed(j)
  <2>1. PICK j \in Kinds : RequestPending(j) \/ RequestFailed(j) BY <1>7
  <2>2. /\ InPhase(j) /\ restarts' = restarts /\ UNCHANGED <<finished, assigned>>
    BY <2>1 DEF RequestPending, RequestFailed, Request
  <2>3. ReducesIdle BY <1>1, <1>3, <2>2
  <2>4. j # "reduce" BY <1>1, <2>2 DEF InPhase
  <2>5. /\ scheduled'["reduce"] = scheduled["reduce"]
        /\ pendingFailed'["reduce"] = pendingFailed["reduce"]
    BY <1>2, <2>1, <2>4
       DEF RequestPending, RequestFailed, Request, TypeInv, ListTypes
  <2> QED BY <2>2, <2>3, <2>5 DEF ReducesIdle
<1>8. CASE LastStep
  <2>1. /\ restarts' = restarts /\ finished' = finished
        /\ assigned'["reduce"] = <<>> /\ scheduled'["reduce"] = <<>>
        /\ pendingFailed'["reduce"] = <<>>
    BY <1>2, <1>8 DEF LastStep
  <2> QED BY <1>1, <1>3, <2>1 DEF ReducesIdle
<1> QED BY <1>4, <1>5, <1>6, <1>7, <1>8 DEF Next, AMStep

(* Until a restart no reduce is requested or started before every map has   *)
(* finished, for jobs of any size.                                          *)
THEOREM ReducesWait == Spec => []ReducesAfterMaps
<1>1. TypeInv /\ CountInv /\ ReducesAfterMaps /\ [Next]_vars => ReducesAfterMaps'
  BY ReduceStep
<1>2. Init => ReducesAfterMaps BY InitReduces
<1> QED BY <1>1, <1>2, CountInvariant, PTL DEF Spec
=============================================================================
