----------------------------- MODULE NMSimulator -----------------------------
(***************************************************************************)
(* One node manager of the simulator and the containers on it.  Its         *)
(* heartbeat runs on a thread of the task runner; application masters add   *)
(* containers on threads of their own, and fetch a container's input over  *)
(* the network emulator before they return.  The lists of the node are     *)
(* changed from both sides without a common lock, so every access of one    *)
(* is a step here.                                                          *)
(*                                                                         *)
(* A task is launched by a thread of its own, and maybe launched again in a *)
(* second container after its first was killed, or for a restarted job:    *)
(* the same ContainerSimulator, with what the first launch left in it, then *)
(* stands for both.  The emulator is the one that TransmissionService       *)
(* specifies, and results arrive in any order.                             *)
(*                                                                         *)
(* Time is what is left until a container's end: a tick shortens it for    *)
(* all of them, down to 0, which is the past.                              *)
(***************************************************************************)
EXTENDS Naturals, Sequences, FiniteSets

S == INSTANCE SequencesExt

CONSTANTS
    Maps, Reduces,      \* tasks
    Relaunched,         \* those that may be launched twice
    AMs,                \* AM containers
    Transfers,          \* transmissions of the tasks' input
    TransfersOf,        \* the ones each task may need
    LifeTime, Patience, \* ticks of work, and 50 times that
    NoTransfer,
    MaxKills, MayFail,  \* bound on kills of containers; whether RPCs fail
    MaxAge              \* bound on ages: LifeTime, or 0 where none is needed

Tasks == Maps \cup Reduces
TaskContainers ==
    {<<t, 1>> : t \in Tasks} \cup {<<t, 2>> : t \in Relaunched}
Containers == TaskContainers \cup AMs
Never == Patience + 1

(* The delay queue is written out for up to three entries.                 *)
ASSUME ContainerAssumption ==
    /\ Maps \cap Reduces = {} /\ AMs \cap (Tasks \cup TaskContainers) = {}
    /\ Relaunched \subseteq Tasks /\ IsFiniteSet(Tasks)
    /\ Cardinality(Tasks) + Cardinality(Relaunched) <= 3
ASSUME TransferAssumption ==
    /\ TransfersOf \in [Tasks -> SUBSET Transfers]
    /\ \A t, u \in Tasks : t # u => TransfersOf[t] \cap TransfersOf[u] = {}
ASSUME TimeAssumption ==
    LifeTime \in Nat \ {0} /\ Patience \in Nat /\ LifeTime < Patience
ASSUME SwitchAssumption ==
    MaxKills \in Nat /\ MayFail \in BOOLEAN /\ MaxAge \in {0, LifeTime}

VARIABLES
    left,       \* ticks until endTime
    open,       \* openTransmissions
    waiting,    \* containersWaitingForTransmission
    queue,      \* containerQueue, the array behind the delay queue
    running,    \* runningContainers
    completed, released,    \* completedContainerList, releasedContainerList
    amList,     \* amContainerList
    nm,         \* what the heartbeat does next
    cursor, stale,          \* its iterator over waiting: where it is, whether
                            \* the list changed since it was made
    message,    \* the result being handed to the waiting containers
    done,       \* the local list of containers whose work phase starts
    am,         \* where the thread that adds a container is
    launches,   \* containers each task was given; the last is assigned to it
    todo, calling,          \* transmissions it has to start, and starts now
    stage, result, reports, \* the network emulator
    inbox,      \* results published and not received
    commands,   \* containersToCleanup of the next heartbeat response
    killed,     \* containers the resource manager killed
    reported,   \* statuses COMPLETE sent for each container, in order
    age         \* ticks since a container was added, for the properties

timeVars == <<left, age>>
listVars == <<waiting, queue, running>>
reportVars == <<completed, released, reported>>
loopVars == <<cursor, stale, message, done>>
callVars == <<am, launches, todo, calling>>
emulatorVars == <<stage, result, reports, inbox>>
rmVars == <<commands, killed>>
vars == <<timeVars, open, listVars, amList, reportVars, nm, loopVars, callVars,
          emulatorVars, rmVars>>

Outcomes == {"SUCCESSFUL", "FAILED"}

TypeOK ==
    /\ left \in [Tasks -> 0..Never] /\ age \in [Tasks -> 0..MaxAge]
    /\ open \in [Tasks -> SUBSET Transfers]
    /\ waiting \in Seq(Tasks) /\ queue \in Seq(Tasks)
    /\ running \subseteq TaskContainers /\ amList \subseteq AMs
    /\ completed \in Seq(Containers) /\ released \in Seq(Containers)
    /\ reported \in [Containers -> Seq({"SUCCESS", "ABORTED"})]
    /\ nm \in {"receive", "notify", "scan", "poll", "beat", "clean", "dead"}
    /\ cursor \in Nat /\ stale \in BOOLEAN
    /\ done \subseteq Tasks
    /\ nm = "notify" => message \in Transfers
    /\ launches \in [Tasks -> 0..2]
    /\ am \in [Tasks \cup AMs -> {"new", "queue", "run", "send", "returned",
                               "launched", "cleaning", "ended", "dead"}]
    /\ todo \in [Tasks -> SUBSET Transfers]
    /\ calling \in [Tasks -> Transfers \cup {NoTransfer}]
    /\ \A t \in Tasks : am[t] = "returned" => calling[t] \in TransfersOf[t]
    /\ stage \in [Transfers -> {"unsent", "sent", "over"}]
    /\ result \in [Transfers -> Outcomes \cup {"none"}]
    /\ inbox \subseteq Transfers
    /\ commands \subseteq Containers /\ killed \subseteq Containers

Init ==
    /\ left = [t \in Tasks |-> Never] /\ age = [t \in Tasks |-> 0]
    /\ open = [t \in Tasks |-> {}]
    /\ waiting = <<>> /\ queue = <<>> /\ running = {}
    /\ completed = <<>> /\ released = <<>> /\ amList = {}
    /\ reported = [c \in Containers |-> <<>>]
    /\ nm = "receive" /\ cursor = 1 /\ stale = FALSE /\ message = NoTransfer /\ done = {}
    /\ am = [c \in Tasks \cup AMs |-> "new"] /\ launches = [t \in Tasks |-> 0]
    /\ todo = [t \in Tasks |-> {}] /\ calling = [t \in Tasks |-> NoTransfer]
    /\ stage = [x \in Transfers |-> "unsent"]
    /\ result = [x \in Transfers |-> "none"]
    /\ reports = [x \in Transfers |-> <<>>]
    /\ inbox = {} /\ commands = {} /\ killed = {}

(***************************************************************************)
(* The delay queue: a binary heap that compares end times when an element   *)
(* is added or removed, and not when an end time changes.                  *)
(***************************************************************************)
Members(q) == {q[i] : i \in DOMAIN q}
Sooner(t, u) == left[t] < left[u]

Add(q, t) ==
    IF q # <<>> /\ Sooner(t, q[1]) THEN [Append(q, q[1]) EXCEPT ![1] = t]
                                   ELSE Append(q, t)

(* Variants of removals, with a plausible mistake each: the wrong end of    *)
(* the array, and a container that is almost over taken for over.          *)
RemoveLast(q) == SubSeq(q, 1, Len(q) - 1)
ExpiredEarly == queue # <<>> /\ left[queue[1]] <= 1

(* The last element takes the place of the first and sinks.                *)
RemoveFirst(q) ==
    CASE Len(q) <= 2 -> Tail(q)
      [] Len(q) = 3 -> IF Sooner(q[2], q[3]) THEN <<q[2], q[3]>>
                                             ELSE <<q[3], q[2]>>

(* The last element takes the place of t; in a leaf it rises if it is due   *)
(* before the first.                                                       *)
Remove(q, t) ==
    CASE t \notin Members(q) -> q
      [] t \in Members(q) /\ t = q[1] -> RemoveFirst(q)
      [] t \in Members(q) /\ t # q[1] ->
            IF Len(q) = 3 /\ t = q[2] THEN Add(<<q[1]>>, q[3])
                                     ELSE SubSeq(q, 1, Len(q) - 1)

(***************************************************************************)
(* addNewContainer and startTransmission, on the thread of the AM          *)
(***************************************************************************)
Assigned(t) == <<t, launches[t]>>

(* The first container, or a second when the first was killed; a restarted  *)
(* job launches its maps again whatever became of the first.               *)
MayLaunch(t) ==
    \/ am[t] = "new"
    \/ am[t] = "launched" /\ launches[t] = 1 /\ t \in Relaunched
          /\ (t \in Maps \/ Assigned(t) \in killed)

AddWaiting(t) ==
    /\ MayLaunch(t)
    /\ launches' = [launches EXCEPT ![t] = @ + 1]
    /\ waiting' = Append(waiting, t)
    /\ stale' = (nm \in {"notify", "scan"})
    /\ am' = [am EXCEPT ![t] = "queue"]
    /\ UNCHANGED <<timeVars, open, queue, running, amList, reportVars, nm,
                   cursor, message, done, todo, calling, emulatorVars, rmVars>>

AddQueue(t) ==
    /\ am[t] = "queue"
    /\ queue' = Add(queue, t)
    /\ am' = [am EXCEPT ![t] = "run"]
    /\ UNCHANGED <<timeVars, open, waiting, running, amList, reportVars,
                   nm, loopVars, launches, todo, calling, emulatorVars, rmVars>>

(* What a launch may have to fetch: what is on the node already is not      *)
(* fetched, and a map fetches one thing at most.                           *)
Input(t) ==
    {needed \in SUBSET {x \in TransfersOf[t] \ open[t] : stage[x] = "unsent"} :
        t \in Maps => Cardinality(needed) <= 1}

(* A map that needs nothing returns at once.                               *)
PutRunning(t) ==
    /\ am[t] = "run"
    /\ running' = running \cup {Assigned(t)}
    /\ \E needed \in Input(t) :
          /\ todo' = [todo EXCEPT ![t] = needed]
          /\ am' = [am EXCEPT ![t] = IF t \in Maps /\ needed = {}
                                     THEN "launched" ELSE "send"]
    /\ UNCHANGED <<timeVars, open, waiting, queue, amList, reportVars, nm,
                   loopVars, launches, calling, emulatorVars, rmVars>>

(* Variant: the transmission stays to be made.                             *)
TransmitAgain(t, x) ==
    /\ am[t] = "send" /\ x \in todo[t]
    /\ calling' = [calling EXCEPT ![t] = x]
    /\ am' = [am EXCEPT ![t] = "returned"]
    /\ stage' \in {[stage EXCEPT ![x] = "sent"], stage}
    /\ UNCHANGED <<timeVars, open, listVars, amList, reportVars, nm, loopVars, launches,
                   todo, result, reports, inbox, rmVars>>

(* The RPC: the emulator takes the transmission, or refuses it and answers  *)
(* -1, which is kept like an id.                                           *)
Transmit(t, x) ==
    /\ am[t] = "send" /\ x \in todo[t]
    /\ todo' = [todo EXCEPT ![t] = @ \ {x}]
    /\ calling' = [calling EXCEPT ![t] = x]
    /\ am' = [am EXCEPT ![t] = "returned"]
    /\ stage' \in {[stage EXCEPT ![x] = "sent"], stage}
    /\ UNCHANGED <<timeVars, open, listVars, amList, reportVars, nm, loopVars, launches,
                   result, reports, inbox, rmVars>>

(* The RPC throws, before or after the emulator took the transmission, and  *)
(* the thread's task is not run again.                                     *)
TransmitFails(t, x) ==
    /\ MayFail /\ am[t] = "send" /\ x \in todo[t]
    /\ todo' = [todo EXCEPT ![t] = @ \ {x}]
    /\ am' = [am EXCEPT ![t] = "dead"]
    /\ stage' \in {[stage EXCEPT ![x] = "sent"], stage}
    /\ UNCHANGED <<timeVars, open, listVars, amList, reportVars, nm, loopVars, launches,
                   calling, result, reports, inbox, rmVars>>

AddTransmission(t) ==
    /\ am[t] = "returned"
    /\ open' = [open EXCEPT ![t] = @ \cup {calling[t]}]
    /\ calling' = [calling EXCEPT ![t] = NoTransfer]
    /\ am' = [am EXCEPT ![t] = "send"]
    /\ UNCHANGED <<timeVars, listVars, amList, reportVars, nm, loopVars, launches, todo,
                   emulatorVars, rmVars>>

(* Variant: no deadline for a container that needed transmissions.         *)
NoDeadline(t) ==
    /\ am[t] = "send" /\ todo[t] = {}
    /\ am' = [am EXCEPT ![t] = "launched"]
    /\ UNCHANGED <<timeVars, open, listVars, amList, reportVars, nm, loopVars, launches,
                   todo, calling, emulatorVars, rmVars>>

SetDeadline(t) ==
    /\ am[t] = "send" /\ todo[t] = {}
    /\ left' = [left EXCEPT ![t] = Patience]
    /\ am' = [am EXCEPT ![t] = "launched"]
    /\ UNCHANGED <<age, open, listVars, amList, reportVars, nm, loopVars, launches, todo,
                   calling, emulatorVars, rmVars>>

AddAM(a) ==
    /\ am[a] = "new"
    /\ amList' = amList \cup {a}
    /\ am' = [am EXCEPT ![a] = "launched"]
    /\ UNCHANGED <<timeVars, open, listVars, reportVars, nm, loopVars, launches, todo,
                   calling, emulatorVars, rmVars>>

(* cleanupContainer, under the lock of one list after the other.           *)
RemoveAM(a) ==
    /\ am[a] = "launched"
    /\ amList' = amList \ {a}
    /\ am' = [am EXCEPT ![a] = "cleaning"]
    /\ UNCHANGED <<timeVars, open, listVars, reportVars, nm, loopVars, launches, todo,
                   calling, emulatorVars, rmVars>>

CompleteAM(a) ==
    /\ am[a] = "cleaning"
    /\ completed' = Append(completed, a)
    /\ am' = [am EXCEPT ![a] = "ended"]
    /\ UNCHANGED <<timeVars, open, listVars, amList, released, reported, nm, loopVars,
                   launches, todo, calling, emulatorVars, rmVars>>

LaunchStep(t) ==
    \/ AddWaiting(t) \/ AddQueue(t) \/ PutRunning(t)
    \/ \E x \in Transfers : Transmit(t, x) \/ TransmitFails(t, x)
    \/ AddTransmission(t) \/ SetDeadline(t)

(***************************************************************************)
(* middleStep, on the thread of the task runner.  An iterator over waiting  *)
(* goes on while its position is not the size, and throws when the list was *)
(* changed since it was made; the exception ends the node's task.          *)
(***************************************************************************)
StartIteration == cursor' = 1 /\ stale' = FALSE
EndIteration == StartIteration
HasNext == cursor # Len(waiting) + 1
NextThrows(pc) ==
    /\ nm = pc /\ HasNext /\ stale
    /\ nm' = "dead"
    /\ UNCHANGED <<timeVars, open, listVars, amList, reportVars, loopVars,
                   callVars, emulatorVars, rmVars>>

Receive(x) ==
    /\ nm = "receive" /\ x \in inbox
    /\ inbox' = inbox \ {x}
    /\ IF result[x] = "SUCCESSFUL"
       THEN nm' = "notify" /\ message' = x /\ StartIteration
       ELSE UNCHANGED <<nm, message, cursor, stale>>
    /\ UNCHANGED <<timeVars, open, listVars, amList, reportVars, done, callVars,
                   stage, result, reports, rmVars>>

Notify ==
    /\ nm = "notify" /\ HasNext /\ ~stale
    /\ open' = [open EXCEPT ![waiting[cursor]] = @ \ {message}]
    /\ cursor' = cursor + 1
    /\ UNCHANGED <<timeVars, listVars, amList, reportVars, nm, stale, message,
                   done, callVars, emulatorVars, rmVars>>

Notified ==
    /\ nm = "notify" /\ ~HasNext
    /\ nm' = "receive" /\ message' = NoTransfer /\ EndIteration
    /\ UNCHANGED <<timeVars, open, listVars, amList, reportVars, done,
                   callVars, emulatorVars, rmVars>>

ReceivedAll ==
    /\ nm = "receive" /\ inbox = {}
    /\ nm' = "scan" /\ StartIteration
    /\ UNCHANGED <<timeVars, open, listVars, amList, reportVars, message, done,
                   callVars, emulatorVars, rmVars>>

AllTransmissionsCompleted(t) == open[t] = {}

Scan ==
    LET t == waiting[cursor] IN
    /\ nm = "scan" /\ HasNext /\ ~stale
    /\ IF AllTransmissionsCompleted(t)
       THEN left' = [left EXCEPT ![t] = LifeTime] /\ done' = done \cup {t}
       ELSE UNCHANGED <<left, done>>
    /\ cursor' = cursor + 1
    /\ UNCHANGED <<age, open, listVars, amList, reportVars, nm, stale, message,
                   callVars, emulatorVars, rmVars>>

(* The elements of s that are not in gone, by their positions.              *)
Without(s, gone) ==
    LET kept == {i \in DOMAIN s : s[i] \notin gone} IN
    [k \in 1..Cardinality(kept) |->
        s[CHOOSE i \in kept : Cardinality(kept \cap (1..i)) = k]]

(* removeAll is one step: what it misses is only what is added inside it.  *)
RemoveDone ==
    /\ nm = "scan" /\ ~HasNext
    /\ waiting' = Without(waiting, done)
    /\ nm' = "poll" /\ done' = {} /\ EndIteration
    /\ UNCHANGED <<timeVars, open, queue, running, amList, reportVars, message,
                   callVars, emulatorVars, rmVars>>

Expired == queue # <<>> /\ left[queue[1]] = 0

Poll ==
    /\ nm = "poll" /\ Expired
    /\ queue' = RemoveFirst(queue)
    /\ running' = running \ {Assigned(queue[1])}
    /\ completed' = Append(completed, Assigned(queue[1]))
    /\ UNCHANGED <<timeVars, open, waiting, amList, released, reported, nm,
                   loopVars, callVars, emulatorVars, rmVars>>

Polled ==
    /\ nm = "poll" /\ ~Expired
    /\ nm' = "beat"
    /\ UNCHANGED <<timeVars, open, listVars, amList, reportVars, loopVars,
                   callVars, emulatorVars, rmVars>>

(* The status list and the resource manager's answer to it.                *)
Copies(c, s) == Cardinality({i \in DOMAIN s : s[i] = c})
(* Variant: the released containers stay in their list.                    *)
BeatKeeping ==
    /\ nm = "beat"
    /\ reported' = [c \in Containers |-> reported[c]
            \o [i \in 1..Copies(c, completed) |-> "SUCCESS"]
            \o [i \in 1..Copies(c, released) |-> "ABORTED"]]
    /\ completed' = <<>>
    /\ nm' = IF commands = {} THEN "receive" ELSE "clean"
    /\ UNCHANGED <<timeVars, open, listVars, amList, released, loopVars, callVars,
                   emulatorVars, rmVars>>

Beat ==
    /\ nm = "beat"
    /\ reported' = [c \in Containers |-> reported[c]
            \o [i \in 1..Copies(c, completed) |-> "SUCCESS"]
            \o [i \in 1..Copies(c, released) |-> "ABORTED"]]
    /\ completed' = <<>> /\ released' = <<>>
    /\ nm' = IF commands = {} THEN "receive" ELSE "clean"
    /\ UNCHANGED <<timeVars, open, listVars, amList, loopVars, callVars,
                   emulatorVars, rmVars>>

ReleaseAM(c) ==
    /\ nm = "clean" /\ c \in commands \cap amList
    /\ amList' = amList \ {c}
    /\ commands' = commands \ {c}
    /\ nm' = IF commands = {c} THEN "receive" ELSE "clean"
    /\ UNCHANGED <<timeVars, open, listVars, reportVars, loopVars, callVars,
                   emulatorVars, killed>>

(* Variant: what running held is released, nothing for a container that was *)
(* not there.                                                              *)
ReleaseRunning(c) ==
    /\ nm = "clean" /\ c \in commands \ amList
    /\ IF c \in running
       THEN /\ queue' = Remove(queue, c[1])
            /\ waiting' = S!RemoveFirst(waiting, c[1])
            /\ running' = running \ {c}
       ELSE UNCHANGED listVars
    /\ released' = Append(released, IF c \in running THEN c ELSE NoTransfer)
    /\ commands' = commands \ {c}
    /\ nm' = IF commands = {c} THEN "receive" ELSE "clean"
    /\ UNCHANGED <<timeVars, open, amList, completed, reported, loopVars,
                   callVars, emulatorVars, killed>>

(* Variant: every entry of the task goes, that of its new launch too.      *)
ReleaseAll(c) ==
    /\ nm = "clean" /\ c \in commands \ amList
    /\ IF c \in running
       THEN /\ queue' = Without(queue, {c[1]})
            /\ waiting' = Without(waiting, {c[1]})
            /\ running' = running \ {c}
       ELSE UNCHANGED listVars
    /\ released' = Append(released, c)
    /\ commands' = commands \ {c}
    /\ nm' = IF commands = {c} THEN "receive" ELSE "clean"
    /\ UNCHANGED <<timeVars, open, amList, completed, reported, loopVars,
                   callVars, emulatorVars, killed>>

(* Removed is what running has for the container, which is the launched     *)
(* task whatever container it is assigned by now: its first entry in each   *)
(* list, be it of this launch or of the next.                              *)
(* A container that is not running here is put on the list all the same.   *)
Release(c) ==
    /\ nm = "clean" /\ c \in commands \ amList
    /\ IF c \in running
       THEN /\ queue' = Remove(queue, c[1])
            /\ waiting' = S!RemoveFirst(waiting, c[1])
            /\ running' = running \ {c}
       ELSE UNCHANGED listVars
    /\ released' = Append(released, c)
    /\ commands' = commands \ {c}
    /\ nm' = IF commands = {c} THEN "receive" ELSE "clean"
    /\ UNCHANGED <<timeVars, open, amList, completed, reported, loopVars,
                   callVars, emulatorVars, killed>>

NMStep ==
    \/ \E x \in inbox : Receive(x)
    \/ NextThrows("notify") \/ Notify \/ Notified \/ ReceivedAll
    \/ NextThrows("scan") \/ Scan \/ RemoveDone
    \/ Poll \/ Polled \/ Beat
    \/ \E c \in commands : ReleaseAM(c) \/ Release(c)

(***************************************************************************)
(* The network emulator, the resource manager and time                     *)
(***************************************************************************)
TransferEnds(x, outcome) ==
    /\ stage[x] = "sent"
    /\ stage' = [stage EXCEPT ![x] = "over"]
    /\ result' = [result EXCEPT ![x] = outcome]
    /\ UNCHANGED <<timeVars, open, listVars, amList, reportVars, nm, loopVars,
                   callVars, reports, inbox, rmVars>>

Publish(x) ==
    /\ stage[x] = "over" /\ reports[x] = <<>>
    /\ reports' = [reports EXCEPT ![x] = <<result[x]>>]
    /\ inbox' = inbox \cup {x}
    /\ UNCHANGED <<timeVars, open, listVars, amList, reportVars, nm, loopVars,
                   callVars, stage, result, rmVars>>

Kill(c) ==
    /\ IF c \in AMs THEN am[c] # "new" ELSE c[2] <= launches[c[1]]
    /\ c \notin killed /\ Cardinality(killed) < MaxKills
    /\ "SUCCESS" \notin Members(reported[c])
    /\ killed' = killed \cup {c}
    /\ commands' = commands \cup {c}
    /\ UNCHANGED <<timeVars, open, listVars, amList, reportVars, nm, loopVars,
                   callVars, emulatorVars>>

(* A clock tick; a container that was not added has no age.                *)
Tick ==
    /\ left' = [t \in Tasks |-> IF left[t] \in {0, Never} THEN left[t]
                                                           ELSE left[t] - 1]
    /\ age' = [t \in Tasks |-> IF am[t] = "new" \/ age[t] = MaxAge THEN age[t]
                                                                  ELSE age[t] + 1]
    /\ timeVars' # timeVars
    /\ UNCHANGED <<open, listVars, amList, reportVars, nm, loopVars, callVars,
                   emulatorVars, rmVars>>

EmulatorStep ==
    \/ \E x \in Transfers, o \in Outcomes : TransferEnds(x, o)
    \/ \E x \in Transfers : Publish(x)

Next ==
    \/ \E t \in Tasks : LaunchStep(t)
    \/ \E a \in AMs : AddAM(a) \/ RemoveAM(a) \/ CompleteAM(a)
    \/ NMStep
    \/ EmulatorStep
    \/ \E c \in Containers : Kill(c)
    \/ Tick

Spec == Init /\ [][Next]_vars

(* Both threads run and time passes; the emulator may leave any result out. *)
Fairness ==
    /\ WF_vars(NMStep)
    /\ \A t \in Tasks : WF_vars(LaunchStep(t))
    /\ WF_vars(Tick)
FairSpec == Spec /\ Fairness

(***************************************************************************)
(* Properties                                                              *)
(***************************************************************************)
Times(c, status) == Copies(status, reported[c])

(* Each container is reported completed at most once and released at most   *)
(* once, also when it is completed and killed at the same time; but a second *)
(* container is reported for the entries of the first as well.             *)
ReportedOnce ==
    \A c \in AMs \cup {<<t, 1>> : t \in Tasks} :
        /\ Times(c, "SUCCESS") + Copies(c, completed) <= 1
        /\ Times(c, "ABORTED") + Copies(c, released) <= 1

(* The first container of a task completed and is killed all the same: when *)
(* its work was over before it was put into running, it is still in there,  *)
(* and its clean-up takes the second one out of the queue.                 *)
CompletedAndKilled(t) ==
    /\ <<t, 1>> \in killed
    /\ <<t, 1>> \in Members(completed) \/ "SUCCESS" \in Members(reported[<<t, 1>>])

(* No container is lost between the lists: once it was added to the queue   *)
(* its task is in there, once for each launch at most, or it is on its way  *)
(* to a heartbeat, or reported, whatever a late clean-up of the container   *)
(* of an earlier launch takes out.                                         *)
Accounted ==
    \A t \in Tasks :
        /\ Copies(t, queue) <= launches[t]
        /\ am[t] \notin {"new", "queue"} /\ t \notin Members(queue) =>
              \/ Assigned(t) \in Members(completed) \cup Members(released)
              \/ reported[Assigned(t)] # <<>>
              \/ CompletedAndKilled(t)

(* A container is only reported completed when its work time has passed     *)
(* since it was added, whatever results, deadlines and restarts of the     *)
(* clock come in between; a task's second container may be earlier.        *)
NotTooEarly ==
    \A t \in Tasks :
        <<t, 1>> \in Members(completed) \/ "SUCCESS" \in Members(reported[<<t, 1>>]) =>
            age[t] = LifeTime

(* The node uses the emulator as the service that the emulator implements. *)
Service == INSTANCE TransmissionService WITH Transmissions <- Transfers
UsesService == Service!Spec

(* The container of a first launch is reported in the end, whatever results *)
(* come, unless an exception ended the node's task or the thread of an AM.  *)
EndsUnlessDead ==
    \A t \in Tasks :
        am[t] = "run" /\ launches[t] = 1
            ~> \/ reported[<<t, 1>>] # <<>> \/ launches[t] = 2
               \/ nm = "dead" \/ \E u \in Tasks : am[u] = "dead"
=============================================================================
