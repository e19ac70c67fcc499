------------------------------ MODULE TaskRunner ------------------------------
(***************************************************************************)
(* The task runner: a pool of threads that takes the tasks of the           *)
(* simulation, the application masters and node managers, from one delay   *)
(* queue, runs one step of a task at its time and puts it back.            *)
(*                                                                         *)
(* Times are relative: a task has its nextRun as what is left until then,   *)
(* and its endTime as what is left between nextRun and that.  An endTime    *)
(* that is Far away is never reached: simulators are given 1000000 rounds. *)
(***************************************************************************)
EXTENDS Integers, FiniteSets

CONSTANTS
    Tasks,
    Threads,            \* size of the pool
    Start, Duration, Interval,  \* what init() was called with, for each task
    Far,
    MaxLag              \* bound: a lag above it is counted as this one

(* What init() checks, and an interval it fails on otherwise.              *)
ASSUME RunnerAssumption ==
    /\ IsFiniteSet(Tasks) /\ Threads \in Nat \ {0} /\ MaxLag \in Nat
    /\ Start \in [Tasks -> Nat] /\ Duration \in [Tasks -> Nat]
    /\ Interval \in [Tasks -> Nat \ {0}]
    /\ Far \in Nat /\ Far > MaxLag
    /\ \A t \in Tasks : Duration[t] = Far \/ Duration[t] % Interval[t] = 0

VARIABLES
    where,      \* in the queue, in a step of a thread, over, or dead
    delay,      \* nextRun - now
    left,       \* endTime - nextRun
    atStart     \* nextRun = startTime

runnerVars == <<where, delay, left, atStart>>

Steps == {"first", "middle", "last"}
Running == {t \in Tasks : where[t] \in Steps}
Queued == {t \in Tasks : where[t] = "queued"}

RunnerTypeOK ==
    /\ where \in [Tasks -> Steps \cup {"created", "queued", "over", "dead"}]
    /\ delay \in [Tasks -> Int] /\ left \in [Tasks -> Int]
    /\ atStart \in [Tasks -> BOOLEAN]
    /\ \A t \in Tasks : delay[t] >= -MaxLag

(* start() gives all tasks the same time to count from.                    *)
RunnerInit ==
    /\ where = [t \in Tasks |-> "created"]
    /\ delay = Start /\ left = Duration
    /\ atStart = [t \in Tasks |-> TRUE]

Schedule(t) ==
    /\ where[t] = "created"
    /\ where' = [where EXCEPT ![t] = "queued"]
    /\ UNCHANGED <<delay, left, atStart>>

StepOf(t) ==
    IF atStart[t] THEN "first" ELSE IF left[t] > 0 THEN "middle" ELSE "last"

(* A free thread takes the head of the queue, when that is due.            *)
Take(t) ==
    /\ t \in Queued /\ delay[t] <= 0
    /\ \A u \in Queued : delay[t] <= delay[u]
    /\ Cardinality(Running) < Threads
    /\ where' = [where EXCEPT ![t] = StepOf(t)]
    /\ UNCHANGED <<delay, left, atStart>>

(* nextRun moves on by one interval, whatever the time is by now.          *)
Advance(t, rest) ==
    /\ delay' = [delay EXCEPT ![t] = @ + Interval[t]]
    /\ left' = [left EXCEPT ![t] = IF rest = Far THEN Far ELSE rest - Interval[t]]

FirstReturns(t) ==
    /\ where[t] = "first"
    /\ Advance(t, left[t])
    /\ atStart' = [atStart EXCEPT ![t] = FALSE]
    /\ where' = [where EXCEPT ![t] = IF left'[t] >= 0 THEN "queued" ELSE "over"]

(* Variants: every step moves the end time, or none does.                  *)
AlwaysStops(t, stop) ==
    /\ where[t] = "middle"
    /\ Advance(t, -delay[t])
    /\ where' = [where EXCEPT ![t] = "queued"]
    /\ UNCHANGED atStart
NeverStops(t, stop) ==
    /\ where[t] = "middle"
    /\ Advance(t, left[t])
    /\ where' = [where EXCEPT ![t] = "queued"]
    /\ UNCHANGED atStart

(* stop: the step called setEndTime with the time it is.                   *)
MiddleReturns(t, stop) ==
    /\ where[t] = "middle"
    /\ Advance(t, IF stop THEN -delay[t] ELSE left[t])
    /\ where' = [where EXCEPT ![t] = "queued"]
    /\ UNCHANGED atStart

LastReturns(t) ==
    /\ where[t] = "last"
    /\ where' = [where EXCEPT ![t] = "over"]
    /\ UNCHANGED <<delay, left, atStart>>

(* A step throws: run() reports it and does not put the task back.         *)
Raises(t) ==
    /\ t \in Running
    /\ where' = [where EXCEPT ![t] = "dead"]
    /\ UNCHANGED <<delay, left, atStart>>

Alive == {t \in Tasks : where[t] \notin {"over", "dead"}}
Tick ==
    /\ delay' = [t \in Tasks |-> IF t \in Alive /\ delay[t] > -MaxLag
                                 THEN delay[t] - 1 ELSE delay[t]]
    /\ delay' # delay
    /\ UNCHANGED <<where, left, atStart>>
=============================================================================
