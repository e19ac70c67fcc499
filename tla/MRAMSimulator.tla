---------------------------- MODULE MRAMSimulator ----------------------------
(***************************************************************************)
(* The MapReduce application master of one job: its task lists, the answers *)
(* of the resource manager that it works through, and its restart.  The    *)
(* task runner calls one step of it at a time, so its own state is touched *)
(* by one thread; what interleaves is the resource manager, which           *)
(* allocates, completes and kills containers between two allocate calls.    *)
(*                                                                         *)
(* Maps and reduces go through the same lists; a variable of the code that *)
(* exists for both is a function of the kind here.  The resource and node  *)
(* managers are modelled by what this class sees of them: a request for a   *)
(* kind replaces the earlier one, a container is handed out once, and its  *)
(* completion is reported once, by a later allocate call.                  *)
(***************************************************************************)
EXTENDS Naturals, Sequences, FiniteSets

CONSTANTS
    allMaps, allReduces,    \* the tasks of the job, in trace order
    MaxTaskKills,           \* bound on kills of task containers
    MaxAMKills,             \* bound on kills of AM containers
    NoContainer, NoResponse

Kinds == {"map", "reduce"}
All == [map |-> allMaps, reduce |-> allReduces]
TasksOf(k) == {All[k][i] : i \in DOMAIN All[k]}
Total(k) == Len(All[k])
Tasks == TasksOf("map") \cup TasksOf("reduce")

ASSUME TaskAssumption ==
    allMaps \in Seq(TasksOf("map")) /\ allReduces \in Seq(TasksOf("reduce"))
(* A task is an object of its own in the code, never twice in the trace.    *)
ASSUME DistinctAssumption ==
    \A k \in Kinds : \A i, j \in DOMAIN All[k] : All[k][i] = All[k][j] => i = j
ASSUME KillAssumption == MaxTaskKills \in Nat /\ MaxAMKills \in Nat

RequestKinds == Kinds \cup {"am"}
Containers == [id : Nat, kind : RequestKinds]
Statuses == [container : Containers, success : BOOLEAN]
Responses == [completed : SUBSET Statuses, allocated : Seq(Containers)]
ASSUME NoneAssumption == NoContainer \notin Containers /\ NoResponse \notin Responses

VARIABLES
    pc,                     \* where the AM is in its steps
    pending, pendingFailed, \* pendingMaps, pendingReduces; pendingFailed...
    scheduled, assigned,    \* scheduledMaps, ...; container to task
    finished,               \* mapFinished, reduceFinished
    isAMContainerRunning, amContainer, isFinished,
    coflow,                 \* a coflow of this job is registered
    responseQueue,
    response,               \* the answer processResponseQueue is at
    amResponse,             \* the answer requestAMContainer looks at
    restarts,               \* number of restarts, for the properties
    demand,                 \* containers the resource manager still owes
    allocated,              \* allocated and not yet handed out
    held,                   \* handed out and not reported ended
    ending,                 \* containers a node manager will report completed
    exited,                 \* statuses not yet handed out
    lastId, kills

listVars == <<pending, pendingFailed, scheduled, assigned, finished>>
amVars == <<isAMContainerRunning, amContainer, isFinished, coflow>>
queueVars == <<responseQueue, response, amResponse>>
pullVars == <<demand, allocated, held, exited>>
rmVars == <<pullVars, ending, lastId, kills>>
vars == <<pc, listVars, amVars, queueVars, restarts, rmVars>>

TypeOK ==
    /\ pc \in {"first", "awaitAM", "middle", "completed", "allocated",
               "stopping", "done"}
    /\ pending \in [Kinds -> Seq(Tasks)]
    /\ pendingFailed \in [Kinds -> Seq(Tasks)]
    /\ scheduled \in [Kinds -> Seq(Tasks)]
    /\ DOMAIN assigned = Kinds
    /\ \A k \in Kinds : /\ DOMAIN assigned[k] \subseteq Containers
                        /\ IsFiniteSet(DOMAIN assigned[k])
                        /\ \A c \in DOMAIN assigned[k] : assigned[k][c] \in Tasks
    /\ finished \in [Kinds -> Nat]
    /\ isAMContainerRunning \in BOOLEAN /\ isFinished \in BOOLEAN
    /\ coflow \in BOOLEAN
    /\ amContainer \in Containers \cup {NoContainer}
    /\ isAMContainerRunning => amContainer \in Containers
    /\ responseQueue \in Seq(Responses)
    /\ response \in Responses \cup {NoResponse}
    /\ pc \in {"completed", "allocated"} => response \in Responses
    /\ amResponse \in Responses \cup {NoResponse}
    /\ pc = "awaitAM" => amResponse \in Responses
    /\ restarts \in Nat /\ lastId \in Nat
    /\ demand \in [RequestKinds -> Nat]
    /\ allocated \in Seq(Containers)
    /\ held \subseteq Containers /\ ending \subseteq Containers
    /\ exited \subseteq Statuses
    /\ kills \in [{"am", "task"} -> Nat]

Init ==
    /\ pc = "first"
    /\ pending = All
    /\ pendingFailed = [k \in Kinds |-> <<>>]
    /\ scheduled = [k \in Kinds |-> <<>>]
    /\ assigned = [k \in Kinds |-> <<>>]
    /\ finished = [k \in Kinds |-> 0]
    /\ isAMContainerRunning = FALSE /\ amContainer = NoContainer
    /\ isFinished = FALSE /\ coflow = FALSE
    /\ responseQueue = <<>> /\ response = NoResponse /\ amResponse = NoResponse
    /\ restarts = 0
    /\ demand = [k \in RequestKinds |-> 0]
    /\ allocated = <<>> /\ held = {} /\ ending = {} /\ exited = {}
    /\ lastId = 0 /\ kills = [k \in {"am", "task"} |-> 0]

(* What one allocate call that asks for n containers of each kind in ask    *)
(* returns, and what it does to the resource manager.  Empty asks nothing.  *)
Answer == [completed |-> exited, allocated |-> allocated]
Empty == [k \in {} |-> 0]
AllocateCall(ask) ==
    /\ demand' = [k \in RequestKinds |->
                    IF k \in DOMAIN ask THEN ask[k] ELSE demand[k]]
    /\ held' = held \cup {allocated[i] : i \in DOMAIN allocated}
    /\ allocated' = <<>>
    /\ exited' = {}
    /\ UNCHANGED <<ending, lastId, kills>>

Put(f, c, t) == [x \in DOMAIN f \cup {c} |-> IF x = c THEN t ELSE f[x]]
Without(f, c) == [x \in DOMAIN f \ {c} |-> f[x]]

(***************************************************************************)
(* Variants of the conditions below, each with one plausible mistake; those *)
(* of whole operations stand before the operation.                         *)
(***************************************************************************)
InPhaseByRequests(k) ==
    /\ isAMContainerRunning
    /\ finished[k] # Total(k)
    /\ k = "reduce" => pending["map"] = <<>> /\ scheduled["map"] = <<>>
MayRequestFailedAnyTime(k) == pending[k] = <<>> /\ pendingFailed[k] # <<>>
MayRequestFailedNever(k) == FALSE
MapsDone == isAMContainerRunning /\ finished["map"] = Total("map")
ReleaseNothing(f, c) == f

(***************************************************************************)
(* firstStep and requestAMContainer                                        *)
(***************************************************************************)
AskForAM ==
    /\ AllocateCall([k \in {"am"} |-> 1])
    /\ amResponse' = Answer
    /\ pc' = "awaitAM"

FirstStep ==
    /\ pc = "first"
    /\ coflow' = TRUE
    /\ AskForAM
    /\ UNCHANGED <<listVars, isAMContainerRunning, amContainer, isFinished,
                   responseQueue, response, restarts>>

(* Variant: the answer is kept, for what else is in it.                    *)
StartAMKeeping ==
    /\ pc = "awaitAM" /\ amResponse.allocated # <<>>
    /\ amContainer' = Head(amResponse.allocated)
    /\ isAMContainerRunning' = TRUE
    /\ amResponse' = NoResponse
    /\ responseQueue' = <<amResponse>>
    /\ pc' = IF response = NoResponse THEN "middle" ELSE "completed"
    /\ UNCHANGED <<listVars, isFinished, coflow, response, restarts, rmVars>>

(* The first container of the answer becomes the AM's; what else is in the *)
(* answer is dropped.                                                      *)
StartAM ==
    /\ pc = "awaitAM" /\ amResponse.allocated # <<>>
    /\ amContainer' = Head(amResponse.allocated)
    /\ isAMContainerRunning' = TRUE
    /\ amResponse' = NoResponse
    /\ pc' = IF response = NoResponse THEN "middle" ELSE "completed"
    /\ UNCHANGED <<listVars, isFinished, coflow, responseQueue, response,
                   restarts, rmVars>>

(* One second later, an empty request: the AM is not running.  Its answer  *)
(* goes through the response queue, which is empty here.                   *)
PollForAM ==
    /\ pc = "awaitAM" /\ amResponse.allocated = <<>> /\ ~isFinished
    /\ AllocateCall(Empty)
    /\ amResponse' = Head(Append(responseQueue, Answer))
    /\ responseQueue' = Tail(Append(responseQueue, Answer))
    /\ UNCHANGED <<pc, listVars, amVars, response, restarts>>

(***************************************************************************)
(* processResponseQueue                                                    *)
(***************************************************************************)
TakeResponse ==
    /\ pc = "middle" /\ responseQueue # <<>>
    /\ response' = Head(responseQueue)
    /\ responseQueue' = Tail(responseQueue)
    /\ pc' = "completed"
    /\ UNCHANGED <<listVars, amVars, amResponse, restarts, rmVars>>

(* The kind of the task that container c runs, as far as the AM knows.     *)
Owners(c) == {k \in Kinds : c \in DOMAIN assigned[k]}
Release(f, c) == Without(f, c)

Consume(s) == response' = [response EXCEPT !.completed = @ \ {s}]

ContainerSucceeded(s) ==
    LET c == s.container IN
    /\ s.success
    /\ Consume(s)
    /\ assigned' = [k \in Kinds |-> IF k \in Owners(c) THEN Release(assigned[k], c)
                                                       ELSE assigned[k]]
    /\ finished' = [k \in Kinds |-> finished[k] + IF k \in Owners(c) THEN 1 ELSE 0]
    /\ isFinished' = (isFinished \/ Owners(c) = {})
    /\ UNCHANGED <<pc, pending, pendingFailed, scheduled, isAMContainerRunning,
                   amContainer, coflow, responseQueue, amResponse, restarts, rmVars>>

(* Variant: the container is queued instead of its task.                   *)
TaskKilledByContainer(k, s) ==
    LET c == s.container IN
    /\ ~s.success /\ k \in Owners(c)
    /\ Consume(s)
    /\ pendingFailed' = [pendingFailed EXCEPT ![k] = Append(@, c)]
    /\ assigned' = [assigned EXCEPT ![k] = Release(@, c)]
    /\ UNCHANGED <<pc, pending, scheduled, finished, amVars, responseQueue,
                   amResponse, restarts, rmVars>>

TaskKilled(k, s) ==
    LET c == s.container IN
    /\ ~s.success /\ k \in Owners(c)
    /\ Consume(s)
    /\ pendingFailed' = [pendingFailed EXCEPT ![k] = Append(@, assigned[k][c])]
    /\ assigned' = [assigned EXCEPT ![k] = Release(@, c)]
    /\ UNCHANGED <<pc, pending, scheduled, finished, amVars, responseQueue,
                   amResponse, restarts, rmVars>>

(* Variant: the lists are all reset, though containers and requests stand.  *)
RestartCleared(s) ==
    /\ ~s.success /\ Owners(s.container) = {}
    /\ Consume(s)
    /\ isFinished' = FALSE
    /\ finished' = [k \in Kinds |-> 0]
    /\ pendingFailed' = [k \in Kinds |-> <<>>]
    /\ pending' = All
    /\ scheduled' = [k \in Kinds |-> <<>>]
    /\ assigned' = [k \in Kinds |-> <<>>]
    /\ isAMContainerRunning' = FALSE /\ amContainer' = NoContainer
    /\ coflow' = TRUE
    /\ restarts' = restarts + 1
    /\ AskForAM
    /\ UNCHANGED responseQueue

(* A killed container that runs no task is taken for the AM's.  The reduces *)
(* are added to themselves after they were cleared; the scheduled and      *)
(* assigned tasks stay as they are.                                        *)
Restart(s) ==
    /\ ~s.success /\ Owners(s.container) = {}
    /\ Consume(s)
    /\ isFinished' = FALSE
    /\ finished' = [k \in Kinds |-> 0]
    /\ pendingFailed' = [k \in Kinds |-> <<>>]
    /\ pending' = [map |-> allMaps, reduce |-> <<>>]
    /\ isAMContainerRunning' = FALSE /\ amContainer' = NoContainer
    /\ coflow' = TRUE
    /\ restarts' = restarts + 1
    /\ AskForAM
    /\ UNCHANGED <<scheduled, assigned, responseQueue>>

ProcessStatus ==
    /\ pc = "completed"
    /\ \E s \in response.completed :
          \/ ContainerSucceeded(s)
          \/ \E k \in Kinds : TaskKilled(k, s)
          \/ Restart(s)

AllDone == isAMContainerRunning /\ \A k \in Kinds : finished[k] = Total(k)

(* cleanupContainer makes the node manager report the AM container.        *)
CheckFinished ==
    /\ pc = "completed" /\ response.completed = {}
    /\ isFinished' = (isFinished \/ AllDone)
    /\ isAMContainerRunning' = (isAMContainerRunning /\ ~AllDone)
    /\ ending' = IF AllDone THEN ending \cup {amContainer} ELSE ending
    /\ pc' = "allocated"
    /\ UNCHANGED <<listVars, amContainer, coflow, queueVars, restarts,
                   pullVars, lastId, kills>>

(* Maps that wait for a container come before reduces that do; a container  *)
(* for which nothing waits is left alone.                                  *)
Waiting == {k \in Kinds : /\ scheduled[k] # <<>>
                          /\ k = "reduce" => scheduled["map"] = <<>>}

Launch ==
    LET c == Head(response.allocated) IN
    /\ pc = "allocated" /\ response.allocated # <<>>
    /\ assigned' = [k \in Kinds |->
                      IF k \in Waiting THEN Put(assigned[k], c, Head(scheduled[k]))
                                       ELSE assigned[k]]
    /\ scheduled' = [k \in Kinds |-> IF k \in Waiting THEN Tail(scheduled[k])
                                                      ELSE scheduled[k]]
    /\ ending' = IF Waiting = {} THEN ending ELSE ending \cup {c}
    /\ response' = [response EXCEPT !.allocated = Tail(@)]
    /\ UNCHANGED <<pc, pending, pendingFailed, finished, amVars, responseQueue,
                   amResponse, restarts, pullVars, lastId, kills>>

ResponseProcessed ==
    /\ pc = "allocated" /\ response.allocated = <<>>
    /\ response' = NoResponse
    /\ pc' = "middle"
    /\ UNCHANGED <<listVars, amVars, responseQueue, amResponse, restarts, rmVars>>

(***************************************************************************)
(* sendContainerRequest, checkStop and lastStep                            *)
(***************************************************************************)
InPhase(k) ==
    /\ isAMContainerRunning
    /\ finished[k] # Total(k)
    /\ k = "reduce" => finished["map"] = Total("map")

MayRequest(k) == pending[k] # <<>>
MayRequestFailed(k) ==
    pending[k] = <<>> /\ pendingFailed[k] # <<>> /\ scheduled[k] = <<>>

Heartbeat == pc = "middle" /\ responseQueue = <<>> /\ ~isFinished

Request(k, batch) ==
    /\ Heartbeat /\ InPhase(k)
    /\ AllocateCall([j \in {k} |-> Len(batch)])
    /\ responseQueue' = Append(responseQueue, Answer)
    /\ scheduled' = [scheduled EXCEPT ![k] = @ \o batch]
    /\ UNCHANGED <<pc, assigned, finished, amVars, response, amResponse, restarts>>

RequestPending(k) ==
    /\ MayRequest(k)
    /\ Request(k, pending[k])
    /\ pending' = [pending EXCEPT ![k] = <<>>]
    /\ UNCHANGED pendingFailed

(* Variant: the failed tasks stay in their list.                           *)
RequestFailedAgain(k) ==
    /\ MayRequestFailed(k)
    /\ Request(k, pendingFailed[k])
    /\ UNCHANGED <<pending, pendingFailed>>

RequestFailed(k) ==
    /\ MayRequestFailed(k)
    /\ Request(k, pendingFailed[k])
    /\ pendingFailed' = [pendingFailed EXCEPT ![k] = <<>>]
    /\ UNCHANGED pending

RequestNothing ==
    /\ Heartbeat
    /\ \A k \in Kinds : InPhase(k) => ~MayRequest(k) /\ ~MayRequestFailed(k)
    /\ AllocateCall(Empty)
    /\ responseQueue' = Append(responseQueue, Answer)
    /\ UNCHANGED <<pc, listVars, amVars, response, amResponse, restarts>>

CheckStop ==
    /\ pc = "middle" /\ responseQueue = <<>> /\ isFinished
    /\ pc' = "stopping"
    /\ UNCHANGED <<listVars, amVars, queueVars, restarts, rmVars>>

(* The resource manager forgets the application; the counters stay.        *)
LastStep ==
    /\ pc = "stopping"
    /\ pc' = "done"
    /\ coflow' = FALSE
    /\ pending' = [k \in Kinds |-> <<>>]
    /\ pendingFailed' = [k \in Kinds |-> <<>>]
    /\ scheduled' = [k \in Kinds |-> <<>>]
    /\ assigned' = [k \in Kinds |-> <<>>]
    /\ responseQueue' = <<>>
    /\ demand' = [k \in RequestKinds |-> 0]
    /\ allocated' = <<>> /\ held' = {} /\ exited' = {}
    /\ UNCHANGED <<finished, isAMContainerRunning, amContainer, isFinished,
                   response, amResponse, restarts, ending, lastId, kills>>

(***************************************************************************)
(* The resource manager and the node managers                              *)
(***************************************************************************)
RMAllocate(k) ==
    /\ demand[k] > 0
    /\ demand' = [demand EXCEPT ![k] = @ - 1]
    /\ lastId' = lastId + 1
    /\ allocated' = Append(allocated, [id |-> lastId + 1, kind |-> k])
    /\ UNCHANGED <<pc, listVars, amVars, queueVars, restarts, held, exited,
                   ending, kills>>

Exit(c, success) ==
    /\ c \in held
    /\ held' = held \ {c}
    /\ ending' = ending \ {c}
    /\ exited' = exited \cup {[container |-> c, success |-> success]}
    /\ UNCHANGED <<pc, listVars, amVars, queueVars, restarts, demand, allocated,
                   lastId>>

NMCompletes(c) == c \in ending /\ Exit(c, TRUE) /\ UNCHANGED kills

(* Preemption, or a container that was never launched and expires.         *)
RMKill(c, victim) ==
    /\ victim = (IF c.kind = "am" THEN "am" ELSE "task")
    /\ kills[victim] < (IF victim = "am" THEN MaxAMKills ELSE MaxTaskKills)
    /\ kills' = [kills EXCEPT ![victim] = @ + 1]
    /\ Exit(c, FALSE)

AMStep ==
    \/ FirstStep \/ StartAM \/ PollForAM
    \/ TakeResponse \/ ProcessStatus \/ CheckFinished
    \/ Launch \/ ResponseProcessed
    \/ \E k \in Kinds : RequestPending(k) \/ RequestFailed(k)
    \/ RequestNothing \/ CheckStop \/ LastStep

RMStep ==
    \/ \E k \in RequestKinds : RMAllocate(k)
    \/ \E c \in held : \/ NMCompletes(c)
                       \/ \E victim \in {"am", "task"} : RMKill(c, victim)

Next == AMStep \/ RMStep
Spec == Init /\ [][Next]_vars

(* The task runner runs the AM's steps; the cluster has room for what is   *)
(* asked for; a launched container ends in the end, by its lifetime.       *)
Fairness ==
    /\ WF_vars(AMStep)
    /\ \A k \in RequestKinds : WF_vars(RMAllocate(k))
    /\ WF_vars(\E c \in held : NMCompletes(c))
FairSpec == Spec /\ Fairness

(***************************************************************************)
(* Properties                                                              *)
(***************************************************************************)
Assigned == UNION {DOMAIN assigned[k] : k \in Kinds}

(* Every task is in one list, assigned or finished: until a restart the     *)
(* lists of a kind add up to its total.                                    *)
CountInv ==
    restarts = 0 /\ pc # "done" =>
        \A k \in Kinds :
            Len(pending[k]) + Len(pendingFailed[k]) + Len(scheduled[k])
              + Cardinality(DOMAIN assigned[k]) + finished[k] = Total(k)

(* No task is in two lists or twice in one, and none is requested again     *)
(* while a container of its own still runs: killed tasks come back once.    *)
OnePlace ==
    restarts = 0 =>
        \A k \in Kinds :
            LET queued == pending[k] \o pendingFailed[k] \o scheduled[k] IN
            /\ \A i, j \in DOMAIN queued : queued[i] = queued[j] => i = j
            /\ \A c, d \in DOMAIN assigned[k] :
                  assigned[k][c] = assigned[k][d] => c = d
            /\ \A i \in DOMAIN queued, c \in DOMAIN assigned[k] :
                  queued[i] # assigned[k][c]

(* Containers the resource manager owes, has allocated or has answered with, *)
(* in a number: as a request replaces the one before it, this is only right  *)
(* if no request is sent while an earlier one is open.                      *)
InAnswers ==
    (IF responseQueue = <<>> THEN 0 ELSE Len(Head(responseQueue).allocated))
      + (IF response = NoResponse THEN 0 ELSE Len(response.allocated))

RequestInv ==
    restarts = 0 /\ pc # "done" =>
        /\ Len(responseQueue) <= 1
        /\ pc \notin {"first", "awaitAM"} =>
              /\ demand["am"] = 0
              /\ demand["map"] + demand["reduce"] + Len(allocated) + InAnswers
                   = Len(scheduled["map"]) + Len(scheduled["reduce"])

(* "Reduces are scheduled when all maps have finished": until a restart no  *)
(* reduce has left the pending list while a map is unfinished.              *)
ReducesAfterMaps ==
    restarts = 0 /\ finished["map"] # Total("map") =>
        /\ pendingFailed["reduce"] = <<>> /\ scheduled["reduce"] = <<>>
        /\ assigned["reduce"] = <<>> /\ finished["reduce"] = 0

(* An application goes to its end only when all its tasks have finished.    *)
FinishedMeansDone ==
    restarts = 0 /\ isFinished => \A k \in Kinds : finished[k] = Total(k)

(* A container hosts one thing, across restarts: the AM's container never   *)
(* runs a task, none runs a map and a reduce, and none is waiting to be     *)
(* handed out or matched while something runs in it.                        *)
ContainerUsedOnce ==
    /\ DOMAIN assigned["map"] \cap DOMAIN assigned["reduce"] = {}
    /\ amContainer \notin Assigned
    /\ \A i \in DOMAIN allocated : allocated[i] \notin Assigned \cup {amContainer}
    /\ response # NoResponse =>
          \A i \in DOMAIN response.allocated :
              response.allocated[i] \notin Assigned \cup {amContainer}

(* No container that an answer brings is left without a task: what the     *)
(* resource manager owes never exceeds what is scheduled, restarts included. *)
EveryContainerHasTask ==
    pc = "allocated" /\ response.allocated # <<>> => Waiting # {}

(* Under fair scheduling every job ends, also one whose tasks are killed.   *)
JobEnds == <>(pc = "done")
=============================================================================
