------------------------------ MODULE Simulation ------------------------------
(***************************************************************************)
(* A whole simulation: application masters and node managers as tasks of    *)
(* one task runner, the resource manager they talk to, and the count of    *)
(* remaining applications whose end stops the program.                     *)
(*                                                                         *)
(* What a step does is coarse here (MRAMSimulator and NMSimulator have it   *)
(* in detail): a job asks for all of its containers at once, and a          *)
(* container is over by the next heartbeat of its node.  What is kept is    *)
(* who waits for whom: the first step of an application master holds its   *)
(* thread until a container for it was allocated, which takes a heartbeat  *)
(* of a node, which takes a thread.  No task uses up its 1000000 rounds.   *)
(***************************************************************************)
EXTENDS TaskRunner, FiniteSetsExt

CONSTANTS
    AMs, NMs,
    JobId,              \* job.id of each application, the key of amMap
    Work,               \* tasks of each job
    Slots,              \* containers a node has room for
    MaxThrows           \* bound on steps that throw

ASSUME SimulationAssumption ==
    /\ Tasks = AMs \cup NMs /\ AMs \cap NMs = {}
    /\ Work \in [AMs -> Nat \ {0}] /\ Slots \in Nat \ {0} /\ MaxThrows \in Nat
    /\ \A t \in Tasks : Duration[t] = Far
ASSUME DistinctIds == \A a, b \in AMs : JobId[a] = JobId[b] => a = b

VARIABLES
    app,        \* how far the application is with the resource manager
    need,       \* containers asked for and not allocated
    granted,    \* allocated on each node and not picked up
    amHost,     \* nodes on which the AM container runs: one or none
    tasksOn,    \* its task containers that run on each node
    over,       \* on each node, containers that its last heartbeat reported
    done,       \* completions the AM has not picked up
    completed,  \* mapFinished + reduceFinished
    isFinished,
    updates,    \* nodes with a node update before the scheduler
    remainingApps, exited

jobVars == <<app, need, granted, amHost, tasksOn, over, done, completed, isFinished>>
simVars == <<jobVars, updates, remainingApps, exited>>
vars == <<runnerVars, simVars>>

None == [a \in AMs |-> [n \in NMs |-> 0]]

TypeOK ==
    /\ RunnerTypeOK
    /\ app \in [AMs -> {"new", "submitted", "launched", "registered",
                        "hosted", "running", "unregistered", "removed"}]
    /\ need \in [AMs -> Nat] /\ done \in [AMs -> Nat] /\ completed \in [AMs -> Nat]
    /\ granted \in [AMs -> [NMs -> Nat]] /\ tasksOn \in [AMs -> [NMs -> Nat]]
    /\ over \in [AMs -> [NMs -> Nat]]
    /\ amHost \in [AMs -> SUBSET NMs]
    /\ isFinished \in [AMs -> BOOLEAN]
    /\ updates \subseteq NMs
    /\ remainingApps \in Nat /\ exited \in BOOLEAN

Init ==
    /\ RunnerInit
    /\ app = [a \in AMs |-> "new"]
    /\ need = [a \in AMs |-> 0] /\ done = [a \in AMs |-> 0]
    /\ completed = [a \in AMs |-> 0]
    /\ granted = None /\ tasksOn = None /\ over = None
    /\ amHost = [a \in AMs |-> {}]
    /\ isFinished = [a \in AMs |-> FALSE]
    /\ updates = {}
    /\ remainingApps = Cardinality({JobId[a] : a \in AMs}) /\ exited = FALSE

(***************************************************************************)
(* The steps of an application master                                      *)
(***************************************************************************)
Moves(a, from, to) == app[a] = from /\ app' = [app EXCEPT ![a] = to]

(* submitApp, until the attempt is LAUNCHED.                               *)
Submit(a) ==
    /\ where[a] = "first" /\ Moves(a, "new", "submitted")
    /\ UNCHANGED <<runnerVars, need, granted, amHost, tasksOn, over, done,
                   completed, isFinished, updates, remainingApps, exited>>

(* registerAM and the request for the AM container.                        *)
Register(a) ==
    /\ where[a] = "first" /\ Moves(a, "launched", "registered")
    /\ need' = [need EXCEPT ![a] = 1]
    /\ UNCHANGED <<runnerVars, granted, amHost, tasksOn, over, done, completed,
                   isFinished, updates, remainingApps, exited>>

(* The wait for the AM container ends, and the first step with it.         *)
HostAM(a) ==
    /\ Moves(a, "registered", "hosted")
    /\ \E n \in NMs :
          /\ granted[a][n] > 0
          /\ amHost' = [amHost EXCEPT ![a] = {n}]
    /\ granted' = [granted EXCEPT ![a] = None[a]]
    /\ FirstReturns(a)
    /\ UNCHANGED <<need, tasksOn, over, done, completed, isFinished, updates,
                   remainingApps, exited>>

(* Variant: all but one are taken for all.                                 *)
AlmostDone(a, n) == n >= Work[a] - 1
AllDone(a, n) == n = Work[a]

(* middleStep: completions and containers of the answer, the request, and  *)
(* checkStop, which moves the end time again each time it is called.       *)
Heartbeat(a) ==
    /\ completed' = [completed EXCEPT ![a] = @ + done[a]]
    /\ done' = [done EXCEPT ![a] = 0]
    /\ isFinished' = [isFinished EXCEPT ![a] = @ \/ AllDone(a, completed'[a])]
    /\ tasksOn' = [tasksOn EXCEPT ![a] = [n \in NMs |-> @[n] + granted[a][n]]]
    /\ granted' = [granted EXCEPT ![a] = None[a]]
    /\ IF app[a] = "hosted"
       THEN /\ need' = [need EXCEPT ![a] = Work[a]]
            /\ app' = [app EXCEPT ![a] = "running"]
       ELSE UNCHANGED <<need, app>>
    /\ MiddleReturns(a, isFinished'[a])
    /\ UNCHANGED <<amHost, over, updates, remainingApps, exited>>

(* finishApplicationMaster.                                                *)
Unregister(a) ==
    /\ where[a] = "last" /\ app[a] \notin {"unregistered", "removed"}
    /\ app' = [app EXCEPT ![a] = "unregistered"]
    /\ UNCHANGED <<runnerVars, need, granted, amHost, tasksOn, over, done,
                   completed, isFinished, updates, remainingApps, exited>>

ShutDown(a) ==
    /\ app[a] \in {"unregistered", "removed"}
    /\ LastReturns(a)
    /\ UNCHANGED simVars

AMStep(a) ==
    Submit(a) \/ Register(a) \/ HostAM(a) \/ Heartbeat(a) \/ Unregister(a) \/ ShutDown(a)

(***************************************************************************)
(* The steps of a node manager                                             *)
(***************************************************************************)
FirstStep(n) == FirstReturns(n) /\ UNCHANGED simVars

(* An AM container is over once its AM cleaned it up.                      *)
AMOver(a, n) == IF isFinished[a] /\ n \in amHost[a] THEN 1 ELSE 0
NodeHeartbeat(n) ==
    /\ over' = [a \in AMs |-> [over[a] EXCEPT ![n] = @ + tasksOn[a][n] + AMOver(a, n)]]
    /\ tasksOn' = [a \in AMs |-> [tasksOn[a] EXCEPT ![n] = 0]]
    /\ amHost' = [a \in AMs |-> IF isFinished[a] THEN amHost[a] \ {n} ELSE amHost[a]]
    /\ updates' = updates \cup {n}
    /\ MiddleReturns(n, FALSE)
    /\ UNCHANGED <<app, need, granted, done, completed, isFinished,
                   remainingApps, exited>>

NMStep(n) == FirstStep(n) \/ NodeHeartbeat(n)

(***************************************************************************)
(* The resource manager, on threads of its own                             *)
(***************************************************************************)
Launch(a) ==
    /\ Moves(a, "submitted", "launched")
    /\ UNCHANGED <<runnerVars, need, granted, amHost, tasksOn, over, done,
                   completed, isFinished, updates, remainingApps, exited>>

Used(a, n) ==
    granted[a][n] + tasksOn[a][n] + over[a][n] + Cardinality(amHost[a] \cap {n})
Room(n) == Slots - MapThenSumSet(LAMBDA a : Used(a, n), AMs)

(* A node update frees what the node reported; that of an AM container is   *)
(* nobody's completion.                                                    *)
Free(n) ==
    /\ n \in updates
    /\ \E a \in AMs : over[a][n] > 0
    /\ over' = [a \in AMs |-> [over[a] EXCEPT ![n] = 0]]
    /\ done' = [a \in AMs |-> IF isFinished[a] THEN done[a] ELSE done[a] + over[a][n]]
    /\ UNCHANGED <<runnerVars, app, need, granted, amHost, tasksOn, completed,
                   isFinished, updates, remainingApps, exited>>

(* Variant: an application that asked for nothing is given a container.    *)
AssignUnasked(n) ==
    /\ n \in updates /\ \A a \in AMs : over[a][n] = 0
    /\ updates' = updates \ {n}
    /\ IF Room(n) > 0
       THEN \E a \in AMs : /\ need' = [need EXCEPT ![a] = @ - 1]
                          /\ granted' = [granted EXCEPT ![a][n] = @ + 1]
       ELSE UNCHANGED <<need, granted>>
    /\ UNCHANGED <<runnerVars, app, amHost, tasksOn, over, done, completed,
                   isFinished, remainingApps, exited>>

(* Then it gives some application containers on the node, if it can.       *)
Assign(n) ==
    /\ n \in updates /\ \A a \in AMs : over[a][n] = 0
    /\ updates' = updates \ {n}
    /\ IF Room(n) > 0 /\ \E a \in AMs : need[a] > 0
       THEN \E a \in AMs : \E k \in 1..need[a] :
              /\ k <= Room(n)
              /\ need' = [need EXCEPT ![a] = @ - k]
              /\ granted' = [granted EXCEPT ![a][n] = @ + k]
       ELSE UNCHANGED <<need, granted>>
    /\ UNCHANGED <<runnerVars, app, amHost, tasksOn, over, done, completed,
                   isFinished, remainingApps, exited>>

(* Variant: the count also goes down for an application that was not there. *)
AppRemovedTwice(a) ==
    /\ app[a] \in {"unregistered", "removed"}
    /\ app' = [app EXCEPT ![a] = "removed"]
    /\ remainingApps' = IF remainingApps = 0 THEN 0 ELSE remainingApps - 1
    /\ exited' = (remainingApps' = 0)
    /\ UNCHANGED <<runnerVars, need, granted, amHost, tasksOn, over, done,
                   completed, isFinished, updates>>

(* APP_REMOVED: decreaseRemainingApps, and the end of the program at 0.    *)
AppRemoved(a) ==
    /\ Moves(a, "unregistered", "removed")
    /\ remainingApps' = remainingApps - 1
    /\ exited' = (remainingApps' = 0)
    /\ need' = [need EXCEPT ![a] = 0]
    /\ granted' = [granted EXCEPT ![a] = None[a]]
    /\ tasksOn' = [tasksOn EXCEPT ![a] = None[a]]
    /\ over' = [over EXCEPT ![a] = None[a]]
    /\ amHost' = [amHost EXCEPT ![a] = {}]
    /\ UNCHANGED <<runnerVars, done, completed, isFinished, updates>>

RMStep ==
    \/ \E a \in AMs : Launch(a) \/ AppRemoved(a)
    \/ \E n \in NMs : Free(n) \/ Assign(n)

(***************************************************************************)
(* Everything together, until the program exits                            *)
(***************************************************************************)
Pool(t) == (Schedule(t) \/ Take(t)) /\ UNCHANGED simVars
Dead == {t \in Tasks : where[t] = "dead"}
StepThrows(t) == Cardinality(Dead) < MaxThrows /\ Raises(t) /\ UNCHANGED simVars
TimePasses == Tick /\ UNCHANGED simVars

Next ==
    /\ ~exited
    /\ \/ \E t \in Tasks : Pool(t) \/ StepThrows(t)
       \/ \E a \in AMs : AMStep(a)
       \/ \E n \in NMs : NMStep(n)
       \/ RMStep
       \/ TimePasses

Spec == Init /\ [][Next]_vars

(* Every thread runs, and time passes.                                     *)
Fairness ==
    /\ \A t \in Tasks : WF_vars(~exited /\ Pool(t))
    /\ \A a \in AMs : WF_vars(~exited /\ AMStep(a))
    /\ \A n \in NMs : WF_vars(~exited /\ NMStep(n))
    /\ \A a \in AMs : WF_vars(~exited /\ (Launch(a) \/ AppRemoved(a)))
    /\ \A n \in NMs : WF_vars(~exited /\ (Free(n) \/ Assign(n)))
    /\ WF_vars(~exited /\ TimePasses)
FairSpec == Spec /\ Fairness

(***************************************************************************)
(* Properties                                                              *)
(***************************************************************************)

(* The counter is the number of applications not removed yet.              *)
Remaining == {a \in AMs : app[a] # "removed"}
CountInv == remainingApps = Cardinality(Remaining) /\ (exited => Remaining = {})

(* A job stays finished: nothing is counted for it any more, and until then *)
(* its end time is far away; only finished jobs shut down.                 *)
JobInv ==
    \A a \in AMs :
        /\ isFinished[a] => completed[a] = Work[a] /\ done[a] = 0
        /\ ~isFinished[a] => left[a] = Far
        /\ where[a] = "last" \/ app[a] \in {"unregistered", "removed"} => isFinished[a]

(* The program only exits when every task of every job was completed.      *)
ExitIsEnd == exited => \A a \in AMs : completed[a] = Work[a]

(* An application is only unregistered when its job is finished, also when  *)
(* its heartbeats lag behind the end time they set.                        *)
LastMeansFinished == \A a \in AMs : where[a] = "last" => isFinished[a]

(* A task is on time as long as it lags less than one interval, and the     *)
(* machine keeps up as long as all that have started their rounds are.     *)
OnTime(t) == atStart[t] \/ t \notin Alive \/ delay[t] > -Interval[t]

(* If the machine keeps up from some moment on and no step throws, the      *)
(* simulation exits.                                                       *)
SimulationEnds ==
    <>[](\A t \in Tasks : OnTime(t)) => <>(exited \/ Dead # {})
=============================================================================
