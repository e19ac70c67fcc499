--------------------------- MODULE SchedulerWrapper ---------------------------
(***************************************************************************)
(* ResourceSchedulerWrapper: the counters of pending and allocated         *)
(* resources of a queue, which the wrapper keeps beside the scheduler it   *)
(* wraps, from what passes through it: the allocate calls of the           *)
(* application master, the completed containers of the nodes' heartbeats,  *)
(* and the removal of the application.  Every step of MRAMSimulator that   *)
(* passes through the wrapper is taken with its accounting.                *)
(*                                                                         *)
(* Memory stands for cores too, which are counted by the same statements.  *)
(* The queue has one application; those of a queue only add up.            *)
(***************************************************************************)
EXTENDS MRAMSimulator, Integers

CONSTANT Mem        \* the memory of a container of each kind

ASSUME MemAssumption == Mem \in [RequestKinds -> Nat \ {0}]

VARIABLES
    pendingMem,     \* counter.queue.X.pending.memory
    allocatedMem,   \* counter.queue.X.allocated.memory
    aborting,       \* killed containers their node has yet to report
    leaked          \* containers that ended without being subtracted

counterVars == <<pendingMem, allocatedMem>>
wrapperVars == <<counterVars, aborting, leaked>>
allVars == <<vars, wrapperVars>>

MemOf(cs) ==
    LET Number(k) == Cardinality({c \in cs : c.kind = k}) IN
    Mem["am"] * Number("am") + Mem["map"] * Number("map")
      + Mem["reduce"] * Number("reduce")
Pulled == {allocated[i] : i \in DOMAIN allocated}
Live == held \cup Pulled

WrapperTypeOK ==
    /\ TypeOK
    /\ pendingMem \in Int /\ allocatedMem \in Int
    /\ aborting \subseteq Containers \ Live
    /\ leaked \subseteq Containers \ (Live \cup aborting)

WrapperInit ==
    /\ Init
    /\ pendingMem = 0 /\ allocatedMem = 0
    /\ aborting = {} /\ leaked = {}

-----------------------------------------------------------------------------
(* Variants of the definitions below, each with one plausible mistake. *)

(* What was pulled is not taken off the pending memory. *)
AccountAsked(mem) ==
    /\ pendingMem' = pendingMem + mem
    /\ allocatedMem' = allocatedMem + MemOf(Pulled)

(* The live container of a removed attempt is not looked at. *)
RemoveAttemptQuietly ==
    /\ LastStep
    /\ leaked' = leaked
    /\ UNCHANGED <<counterVars, aborting>>

-----------------------------------------------------------------------------
(* updateQueueWithAllocateRequest: mem is what the call asks for.  No call  *)
(* of an application master releases a container.                           *)
Account(mem) ==
    /\ pendingMem' = pendingMem + mem - MemOf(Pulled)
    /\ allocatedMem' = allocatedMem + MemOf(Pulled)

Allocate ==
    /\ \/ FirstStep /\ Account(Mem["am"])
       \/ PollForAM /\ Account(0)
       \/ \E k \in Kinds :
            \/ RequestPending(k) /\ Account(Len(pending[k]) * Mem[k])
            \/ RequestFailed(k) /\ Account(Len(pendingFailed[k]) * Mem[k])
       \/ RequestNothing /\ Account(0)
       \/ /\ pc = "completed"
          /\ \E st \in response.completed : Restart(st) /\ Account(Mem["am"])
    /\ UNCHANGED <<aborting, leaked>>

(* APP_ATTEMPT_REMOVED: one live container is taken for the AM's, and for   *)
(* all there are.                                                           *)
RemoveAttempt ==
    /\ LastStep
    /\ IF Live = {}
       THEN UNCHANGED <<counterVars, leaked>>
       ELSE \E c \in Live :
              /\ allocatedMem' = allocatedMem - Mem[c.kind]
              /\ leaked' = leaked \cup (Live \ {c})
              /\ UNCHANGED pendingMem
    /\ UNCHANGED aborting

(* updateQueueWithNodeUpdate, before the scheduler hears of it: a container *)
(* that succeeded is live; of an aborted one the memory is known if the     *)
(* scheduler announced its preemption in an allocate answer, which is left  *)
(* open here; a removed application is passed over.                         *)
Succeeded(c) ==
    /\ NMCompletes(c)
    /\ allocatedMem' = allocatedMem - Mem[c.kind]
    /\ UNCHANGED <<pendingMem, aborting, leaked>>

Aborted(c) ==
    /\ c \in aborting
    /\ aborting' = aborting \ {c}
    /\ \/ /\ pc # "done"
          /\ allocatedMem' = allocatedMem - Mem[c.kind]
          /\ UNCHANGED leaked
       \/ leaked' = leaked \cup {c} /\ UNCHANGED allocatedMem
    /\ UNCHANGED <<vars, pendingMem>>

(* The scheduler kills by itself; the wrapper hears of it from the node. *)
SchedulerKills(c) ==
    /\ \E victim \in {"am", "task"} : RMKill(c, victim)
    /\ aborting' = aborting \cup {c}
    /\ UNCHANGED <<counterVars, leaked>>

(* What does not pass through the wrapper. *)
Inside ==
    /\ \/ StartAM \/ TakeResponse \/ CheckFinished
       \/ Launch \/ ResponseProcessed \/ CheckStop
       \/ /\ pc = "completed"
          /\ \E st \in response.completed :
               ContainerSucceeded(st) \/ \E k \in Kinds : TaskKilled(k, st)
    /\ UNCHANGED wrapperVars

Schedules(k) == RMAllocate(k) /\ UNCHANGED wrapperVars

WrapperNext ==
    \/ Allocate \/ RemoveAttempt \/ Inside
    \/ \E k \in RequestKinds : Schedules(k)
    \/ \E c \in held : Succeeded(c) \/ SchedulerKills(c)
    \/ \E c \in aborting : Aborted(c)

WrapperSpec == WrapperInit /\ [][WrapperNext]_allVars

(* As in MRAMSimulator. *)
WrapperFairSpec ==
    /\ WrapperSpec
    /\ WF_allVars(Allocate \/ RemoveAttempt \/ Inside)
    /\ \A k \in RequestKinds : WF_allVars(Schedules(k))
    /\ WF_allVars(\E c \in held : Succeeded(c))

-----------------------------------------------------------------------------
(* The memory of what is asked for and of what waits to be pulled.          *)
OwedMem ==
    demand["am"] * Mem["am"] + demand["map"] * Mem["map"]
      + demand["reduce"] * Mem["reduce"] + MemOf(Pulled)

(* The pending memory is what the scheduler owes the application or has     *)
(* allocated for it: the counter adds up every request though a request     *)
(* replaces the one before it.  After a restart it is never below that.     *)
PendingIsOwed ==
    pc # "done" =>
        /\ pendingMem >= OwedMem
        /\ restarts = 0 => pendingMem = OwedMem

(* The allocated memory is that of the containers the application holds, of *)
(* those killed whose node has not said so yet, and of those that are lost  *)
(* to the counter, until a restarted application ends with a container it   *)
(* never picked up; without a kill the counters come back to 0.             *)
AllocatedIsHeld ==
    /\ restarts = 0 \/ pc # "done" =>
          allocatedMem = MemOf(held) + MemOf(aborting) + MemOf(leaked)
    /\ (pc = "done" /\ \A v \in DOMAIN kills : kills[v] = 0) =>
          allocatedMem = 0 /\ pendingMem = 0

(* "have 0 or 1", "should have one container which is AM container": an     *)
(* application that goes to its end has no other live container, so none is *)
(* left allocated for good; until a restart, which leaves requests open.    *)
OneLiveAtEnd ==
    (restarts = 0 /\ pc = "stopping") => Live \subseteq {amContainer}
===============================================================================
