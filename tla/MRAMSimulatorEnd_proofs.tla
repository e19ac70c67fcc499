----------------------- MODULE MRAMSimulatorEnd_proofs -----------------------
(***************************************************************************)
(* Proofs about how the job of MRAMSimulator gets to its end: what the      *)
(* reports of ended containers say, and what the resource manager owes.     *)
(* For jobs of any size and any number of kills.                           *)
(***************************************************************************)
EXTENDS MRAMSimulator_proofs

-----------------------------------------------------------------------------
(* Reports on their way: those of the answer the AM is at, of the one that  *)
(* is queued, and those that were not handed out.                          *)
QueuedDone == IF responseQueue = <<>> THEN {} ELSE Head(responseQueue).completed
TakenDone == IF response = NoResponse THEN {} ELSE response.completed
Unfetched == {allocated[i] : i \in DOMAIN allocated}
Reported == exited \cup QueuedDone \cup TakenDone

Apart(e, q, t) == e \cap q = {} /\ e \cap t = {} /\ q \cap t = {}
Settled(h, m, e, q, t, n) ==
    /\ \A s \in e \cup q \cup t : s.container \notin h \cup m /\ s.container.id <= n
    /\ \A c \in h : c \notin m /\ c.id <= n
    /\ \A c \in m : c.id <= n
    /\ \A s, u \in e \cup q \cup t : s.container = u.container => s = u
    /\ Apart(e, q, t)

(* A container is handed out before it is held, held before it is reported, *)
(* and reported once.                                                       *)
StatusInv == Settled(held, Unfetched, exited, QueuedDone, TakenDone, lastId)

(* Until the job is finished, what will succeed or has succeeded is a task   *)
(* of which the AM knows the container: the container of the AM itself only  *)
(* succeeds after the AM gave it back.                                      *)
SuccessInv ==
    restarts = 0 /\ ~isFinished =>
        /\ ending \cap held \subseteq Assigned
        /\ \A s \in Reported : s.success => s.container \in Assigned

(* A container a node is to complete was handed out.                        *)
EndingInv == \A c \in ending : c \notin Unfetched /\ c.id <= lastId

ReportsInv == StatusInv /\ EndingInv /\ SuccessInv

(* How the reports move.                                                    *)
LEMMA SettledAsk ==
  ASSUME NEW h, NEW m, NEW e, NEW q, NEW t, NEW n, Settled(h, m, e, q, t, n)
  PROVE  Settled(h \cup m, {}, {}, q, t, n)
BY DEF Settled, Apart

LEMMA SettledAnswer ==
  ASSUME NEW h, NEW m, NEW e, NEW t, NEW n, Settled(h, m, e, {}, t, n)
  PROVE  Settled(h \cup m, {}, {}, e, t, n)
BY DEF Settled, Apart

LEMMA SettledTake ==
  ASSUME NEW h, NEW m, NEW e, NEW q, NEW n, Settled(h, m, e, q, {}, n)
  PROVE  Settled(h, m, e, {}, q, n)
BY DEF Settled, Apart

LEMMA SettledLess ==
  ASSUME NEW h, NEW m, NEW e, NEW q, NEW t, NEW n, NEW u \in SUBSET t,
         Settled(h, m, e, q, t, n)
  PROVE  Settled(h, m, e, q, u, n) /\ Settled({}, {}, {}, {}, {}, n)
BY DEF Settled, Apart

LEMMA SettledMore ==
  ASSUME NEW h \in SUBSET Containers, NEW m \in SUBSET Containers,
         NEW e \in SUBSET Statuses, NEW q \in SUBSET Statuses,
         NEW t \in SUBSET Statuses, NEW n \in Nat, NEW c \in Containers,
         c.id = n + 1, Settled(h, m, e, q, t, n)
  PROVE  Settled(h, m \cup {c}, e, q, t, n + 1)
<1>1. \A d \in Containers : d.id \in Nat BY DEF Containers
<1>2. \A s \in e \cup q \cup t : s.container \in Containers BY DEF Statuses
<1>3. \A s \in e \cup q \cup t : s.container # c /\ s.container.id <= n + 1
  BY <1>1, <1>2 DEF Settled
<1>4. \A d \in h : d # c /\ d.id <= n + 1 BY <1>1 DEF Settled
<1>5. \A d \in m \cup {c} : d.id <= n + 1 BY <1>1 DEF Settled
<1> QED BY <1>3, <1>4, <1>5 DEF Settled

LEMMA SettledExit ==
  ASSUME NEW h, NEW m, NEW e, NEW q, NEW t, NEW n, NEW c \in h, NEW s,
         s.container = c, Settled(h, m, e, q, t, n)
  PROVE  Settled(h \ {c}, m, e \cup {s}, q, t, n)
<1>1. \A u \in e \cup q \cup t : u.container # c /\ u # s BY DEF Settled
<1>2. Apart(e \cup {s}, q, t) BY <1>1 DEF Settled, Apart
<1>3. \A u, v \in (e \cup {s}) \cup q \cup t : u.container = v.container => u = v
  BY <1>1 DEF Settled
<1>4. \A u \in (e \cup {s}) \cup q \cup t :
         u.container \notin (h \ {c}) \cup m /\ u.container.id <= n
  BY DEF Settled
<1> QED BY <1>2, <1>3, <1>4 DEF Settled

(* Types of what is on its way.                                             *)
LEMMA StatusTypes ==
  ASSUME TypeInv
  PROVE  /\ QueuedDone \subseteq Statuses /\ TakenDone \subseteq Statuses
         /\ exited \subseteq Statuses
         /\ Unfetched \subseteq Containers /\ held \subseteq Containers
         /\ lastId \in Nat
         /\ pc # "middle" => QueuedDone = {}
         /\ pc \in {"first", "middle", "stopping", "done"} => TakenDone = {}
         /\ response \in Responses => TakenDone = response.completed
<1> USE DEF TypeInv
<1>1. \A x \in Responses : x.completed \subseteq Statuses /\ x # NoResponse
  BY NoneAssumption DEF Responses
<1>2. responseQueue # <<>> => Head(responseQueue) \in Responses
  BY OneAnswer DEF AnswerInv
<1>3. QueuedDone \subseteq Statuses /\ TakenDone \subseteq Statuses
  BY <1>1, <1>2 DEF AnswerInv, QueuedDone, TakenDone
<1>4. Unfetched \subseteq Containers BY DEF RMTypes, Unfetched
<1>5. /\ pc # "middle" => QueuedDone = {}
      /\ pc \in {"first", "middle", "stopping", "done"} => TakenDone = {}
      /\ response \in Responses => TakenDone = response.completed
  BY <1>1 DEF AnswerInv, QueuedDone, TakenDone
<1>6. exited \subseteq Statuses /\ held \subseteq Containers /\ lastId \in Nat
  BY DEF RMTypes
<1> QED BY <1>3, <1>4, <1>5, <1>6

LEMMA InitReports == ASSUME Init PROVE ReportsInv
<1>1. QueuedDone = {} /\ TakenDone = {} /\ Unfetched = {} /\ exited = {} /\ held = {}
      /\ ending = {}
  BY DEF Init, QueuedDone, TakenDone, Unfetched
<1>2. StatusInv BY <1>1 DEF StatusInv, Settled, Apart
<1> QED BY <1>1, <1>2 DEF ReportsInv, EndingInv, SuccessInv, Reported

(* Steps after which no more is to succeed, and no task was forgotten.      *)
LEMMA SuccessKept ==
  ASSUME SuccessInv, restarts' = 0 => restarts = 0 /\ isFinished' = isFinished,
         ending' \cap held' \subseteq ending \cap held,
         Reported' \subseteq Reported, Assigned \subseteq Assigned'
  PROVE  SuccessInv'
BY DEF SuccessInv

(* An allocate call.                                                        *)
LEMMA CallEffect ==
  ASSUME NEW ask, AllocateCall(ask)
  PROVE  /\ held' = held \cup Unfetched /\ Unfetched' = {} /\ exited' = {}
         /\ lastId' = lastId /\ ending' = ending
         /\ Answer.completed = exited
BY DEF AllocateCall, Answer, Unfetched

LEMMA EndingCall ==
  ASSUME EndingInv, NEW ask, AllocateCall(ask)
  PROVE  EndingInv' /\ ending' \cap held' \subseteq ending \cap held
BY CallEffect DEF EndingInv

LEMMA AskReports ==
  ASSUME TypeInv, ReportsInv,
         FirstStep \/ PollForAM \/ \E s \in TakenDone : Restart(s)
  PROVE  ReportsInv'
<1>1. PICK ask : AllocateCall(ask)
  BY DEF FirstStep, PollForAM, Restart, AskForAM
<1>2. TakenDone' \subseteq TakenDone /\ QueuedDone' = QueuedDone
  <2>1. CASE FirstStep
    BY <2>1 DEF FirstStep, TakenDone, QueuedDone
  <2>2. CASE PollForAM
    <3>1. responseQueue' = <<>> /\ responseQueue = <<>> /\ response' = response
      BY <2>2, PollForAMTypes DEF PollForAM, TypeInv, AnswerInv
    <3> QED BY <3>1 DEF TakenDone, QueuedDone
  <2>3. ASSUME NEW s \in TakenDone, Restart(s)
        PROVE  TakenDone' \subseteq TakenDone /\ QueuedDone' = QueuedDone
    <3>1. response \in Responses BY <2>3 DEF TakenDone, TypeInv, AnswerInv
    <3>2. response' = [response EXCEPT !.completed = @ \ {s}]
          /\ responseQueue' = responseQueue
      BY <2>3 DEF Restart, Consume
    <3>3. response'.completed \subseteq response.completed
      BY <3>1, <3>2 DEF Responses
    <3>4. response # NoResponse BY <3>1, NoneAssumption
    <3> QED BY <3>2, <3>3, <3>4 DEF TakenDone, QueuedDone
  <2> QED BY <2>1, <2>2, <2>3
<1>3. Settled(held \cup Unfetched, {}, {}, QueuedDone, TakenDone, lastId)
  BY SettledAsk DEF ReportsInv, StatusInv
<1>4. Settled(held \cup Unfetched, {}, {}, QueuedDone, TakenDone', lastId)
  BY <1>2, <1>3, SettledLess
<1>5. StatusInv' BY <1>1, <1>2, <1>4, CallEffect DEF StatusInv
<1>6. EndingInv' /\ ending' \cap held' \subseteq ending \cap held
  BY <1>1, EndingCall DEF ReportsInv
<1>7. restarts' = 0 => /\ restarts = 0 /\ isFinished' = isFinished
                       /\ Assigned' = Assigned
  <2>1. CASE FirstStep \/ PollForAM
    BY <2>1 DEF FirstStep, PollForAM, listVars, amVars, Assigned
  <2>2. ASSUME NEW s, Restart(s) PROVE restarts' # 0 BY <2>2, RestartCounted
  <2> QED BY <2>1, <2>2
<1>8. Reported' \subseteq Reported BY <1>1, <1>2, CallEffect DEF Reported
<1>9. SuccessInv'
  BY <1>6, <1>7, <1>8, SuccessKept DEF ReportsInv, SuccessInv
<1> QED BY <1>5, <1>6, <1>9 DEF ReportsInv

LEMMA RequestReports ==
  ASSUME TypeInv, ReportsInv,
         \/ RequestNothing
         \/ \E k \in Kinds : RequestPending(k) \/ RequestFailed(k)
  PROVE  ReportsInv'
<1>1. PICK ask : AllocateCall(ask)
  BY DEF RequestNothing, RequestPending, RequestFailed, Request
<1>2. /\ responseQueue = <<>>
      /\ UNCHANGED <<response, assigned, restarts, isFinished>>
  BY DEF RequestNothing, RequestPending, RequestFailed, Request, Heartbeat,
         listVars, amVars
<1>3. responseQueue' = <<Answer>> BY RequestTypes, RequestNothingTypes
<1>4. QueuedDone = {} /\ QueuedDone' = exited /\ TakenDone' = TakenDone
  BY <1>1, <1>2, <1>3, CallEffect DEF QueuedDone, TakenDone
<1>5. Settled(held \cup Unfetched, {}, {}, exited, TakenDone, lastId)
  BY <1>4, SettledAnswer DEF ReportsInv, StatusInv
<1>6. StatusInv' BY <1>1, <1>4, <1>5, CallEffect DEF StatusInv
<1>7. EndingInv' /\ ending' \cap held' \subseteq ending \cap held
  BY <1>1, EndingCall DEF ReportsInv
<1>8. Reported' = Reported BY <1>1, <1>4, CallEffect DEF Reported
<1>9. Assigned' = Assigned BY <1>2 DEF Assigned
<1>10. SuccessInv' BY <1>2, <1>7, <1>8, <1>9, SuccessKept DEF ReportsInv
<1> QED BY <1>6, <1>7, <1>10 DEF ReportsInv

LEMMA TakeReports ==
  ASSUME TypeInv, ReportsInv, TakeResponse PROVE ReportsInv'
<1>1. pc = "middle" /\ UNCHANGED <<assigned, restarts, isFinished, held, exited,
                                   allocated, ending, lastId>>
  BY DEF TakeResponse, listVars, amVars, rmVars, pullVars
<1>2. /\ responseQueue # <<>> /\ Head(responseQueue) \in Responses
      /\ responseQueue' = <<>> /\ response' = Head(responseQueue)
  BY OneAnswer, TakeResponseTypes DEF TakeResponse, TypeInv, AnswerInv
<1>3. TakenDone = {} /\ TakenDone' = QueuedDone /\ QueuedDone' = {}
  BY <1>1, <1>2, StatusTypes, NoneAssumption DEF TakenDone, QueuedDone
<1>4. Unfetched' = Unfetched /\ Assigned' = Assigned BY <1>1 DEF Unfetched, Assigned
<1>5. Settled(held, Unfetched, exited, {}, QueuedDone, lastId)
  BY <1>3, SettledTake DEF ReportsInv, StatusInv
<1>6. StatusInv' BY <1>1, <1>3, <1>4, <1>5 DEF StatusInv
<1>7. EndingInv' BY <1>1, <1>4 DEF ReportsInv, EndingInv
<1>8. Reported' = Reported BY <1>1, <1>3 DEF Reported
<1>9. SuccessInv' BY <1>1, <1>4, <1>8, SuccessKept DEF ReportsInv
<1> QED BY <1>6, <1>7, <1>9 DEF ReportsInv

(* A report of a task is handled: it was the only one of its container.     *)
LEMMA HandledReports ==
  ASSUME TypeInv, ReportsInv, NEW s \in TakenDone,
         ContainerSucceeded(s) \/ \E k \in Kinds : TaskKilled(k, s),
         isFinished' = isFinished \/ isFinished'
  PROVE  ReportsInv'
<1>1. /\ UNCHANGED <<restarts, held, exited, allocated, ending, lastId, responseQueue>>
      /\ Consume(s)
  BY DEF ContainerSucceeded, TaskKilled, rmVars, pullVars
<1>2. response \in Responses BY DEF TakenDone, TypeInv, AnswerInv
<1>3. TakenDone' = TakenDone \ {s}
  <2>1. response' # NoResponse /\ response'.completed = response.completed \ {s}
    BY <1>1, <1>2, ConsumeTypes, NoneAssumption DEF Consume, Responses
  <2> QED BY <1>2, <2>1, NoneAssumption DEF TakenDone
<1>4. QueuedDone' = QueuedDone /\ Unfetched' = Unfetched BY <1>1 DEF QueuedDone, Unfetched
<1>5. Settled(held, Unfetched, exited, QueuedDone, TakenDone \ {s}, lastId)
  BY SettledLess DEF ReportsInv, StatusInv
<1>6. StatusInv' BY <1>1, <1>3, <1>4, <1>5 DEF StatusInv
<1>7. EndingInv' BY <1>1, <1>4 DEF ReportsInv, EndingInv
<1>8. Assigned \ {s.container} \subseteq Assigned'
  BY SucceededTasks, KilledTasks DEF Assigned
<1>9. s.container \notin held BY DEF ReportsInv, StatusInv, Settled
<1>10. \A u \in Reported' : u \in Reported /\ u.container # s.container
  <2>1. Reported' = exited \cup QueuedDone \cup (TakenDone \ {s})
    BY <1>1, <1>3, <1>4 DEF Reported
  <2>2. s \notin Reported' BY <2>1 DEF ReportsInv, StatusInv, Settled, Apart
  <2>3. Reported' \subseteq Reported BY <2>1 DEF Reported
  <2> QED BY <2>2, <2>3 DEF ReportsInv, StatusInv, Settled, Reported
<1>11. SuccessInv'
  BY <1>1, <1>8, <1>9, <1>10 DEF ReportsInv, SuccessInv
<1> QED BY <1>6, <1>7, <1>11 DEF ReportsInv

(* Reports, and what a node is to complete, stay as they are or go.         *)
LEMMA QuietReports ==
  ASSUME ReportsInv, UNCHANGED <<held, Unfetched, exited, QueuedDone, lastId>>,
         TakenDone' \subseteq TakenDone, ending' = ending, Assigned \subseteq Assigned',
         UNCHANGED <<restarts, isFinished>>
  PROVE  ReportsInv'
<1>1. Settled(held, Unfetched, exited, QueuedDone, TakenDone', lastId)
  BY SettledLess DEF ReportsInv, StatusInv
<1>2. StatusInv' BY <1>1 DEF StatusInv
<1>3. EndingInv' BY DEF ReportsInv, EndingInv
<1>4. Reported' \subseteq Reported BY DEF Reported
<1>5. SuccessInv' BY <1>4, SuccessKept DEF ReportsInv
<1> QED BY <1>2, <1>3, <1>5 DEF ReportsInv

LEMMA InnerReports ==
  ASSUME TypeInv, ReportsInv,
         StartAM \/ ResponseProcessed \/ CheckStop \/ UNCHANGED vars
  PROVE  ReportsInv'
<1>1. /\ UNCHANGED <<held, allocated, exited, responseQueue, lastId, ending, assigned,
                     restarts, isFinished>>
      /\ response' \in {response, NoResponse}
  BY DEF StartAM, ResponseProcessed, CheckStop, listVars, amVars, queueVars, rmVars,
         pullVars, vars
<1> QED BY <1>1, QuietReports DEF Unfetched, QueuedDone, TakenDone, Assigned

(* The container of the AM is given back when the job is finished.          *)
LEMMA CheckReports ==
  ASSUME TypeInv, UsedInv, ReportsInv, CheckFinished PROVE ReportsInv'
<1>1. /\ UNCHANGED <<held, allocated, exited, responseQueue, response, lastId,
                     assigned, restarts>>
      /\ isFinished' = (isFinished \/ AllDone)
      /\ ending' = IF AllDone THEN ending \cup {amContainer} ELSE ending
  BY DEF CheckFinished, listVars, queueVars, pullVars
<1>2. UNCHANGED <<Unfetched, QueuedDone, TakenDone, Assigned>>
  BY <1>1 DEF Unfetched, QueuedDone, TakenDone, Assigned
<1>3. CASE ~AllDone
  <2>1. isFinished' = isFinished BY <1>1, <1>3 DEF TypeInv, AMTypes
  <2> QED BY <1>1, <1>2, <1>3, <2>1, QuietReports
<1>4. CASE AllDone
  <2>1. isFinished' = TRUE BY <1>1, <1>4
  <2>2. amContainer \in Containers BY <1>4 DEF AllDone, TypeInv, AMTypes
  <2>3. amContainer \in Used BY <2>2, NoneAssumption DEF Used
  <2>4. amContainer \notin Unfetched /\ amContainer.id <= lastId
    BY <2>3 DEF UsedInv, LineInv, Lined, Unused, Unfetched
  <2>5. EndingInv'
    BY <1>1, <1>2, <1>4, <2>4 DEF ReportsInv, EndingInv
  <2>6. StatusInv' BY <1>1, <1>2 DEF ReportsInv, StatusInv
  <2> QED BY <2>1, <2>5, <2>6 DEF ReportsInv, SuccessInv
<1> QED BY <1>3, <1>4

LEMMA LaunchReports ==
  ASSUME TypeInv, UsedInv, ReportsInv, Launch PROVE ReportsInv'
<1> DEFINE c == Head(Taken)
<1>1. /\ UNCHANGED <<held, allocated, exited, responseQueue, lastId, restarts,
                     isFinished>>
      /\ response \in Responses /\ c = Head(response.allocated)
      /\ ending' = IF Waiting = {} THEN ending ELSE ending \cup {c}
  BY LineTypes DEF Launch, pullVars, amVars, TypeInv, AnswerInv
<1>2. /\ Taken # <<>>
      /\ \A k \in Kinds : \/ /\ k \in Waiting
                             /\ DOMAIN assigned'[k] = DOMAIN assigned[k] \cup {c}
                          \/ k \notin Waiting /\ assigned'[k] = assigned[k]
  BY LaunchTasks
<1>3. Waiting \subseteq Kinds BY DEF Waiting
<1>4. c \notin Unfetched /\ c.id <= lastId
  <2>1. Taken \in Seq(Containers) BY LineTypes
  <2>2. c = Taken[1] /\ 1 \in DOMAIN Taken /\ c \in Containers
    BY <1>2, <2>1, EmptySeq, LenProperties
  <2>3. c.id \in Nat BY <2>2 DEF Containers
  <2>4. \A i \in DOMAIN allocated : c.id < allocated[i].id
    BY <2>2 DEF UsedInv, LineInv, Lined, Before
  <2>5. c.id <= lastId BY <2>2 DEF UsedInv, LineInv, Lined, Unused
  <2> HIDE DEF c
  <2>6. \A i \in DOMAIN allocated : allocated[i] # c BY <2>3, <2>4
  <2> QED BY <2>5, <2>6 DEF Unfetched
<1> HIDE DEF c
<1>5. Assigned \subseteq Assigned' BY <1>2 DEF Assigned
<1>6. Waiting # {} => c \in Assigned' BY <1>2, <1>3 DEF Assigned
<1>7. TakenDone' = TakenDone
  <2>1. response' # NoResponse /\ response'.completed = response.completed
    <3>1. TypeInv' BY LaunchTypes
    <3>2. response' \in Responses BY <3>1 DEF Launch, TypeInv, AnswerInv
    <3> QED BY <1>1, <3>2, NoneAssumption DEF Launch, Responses
  <2> QED BY <1>1, <2>1, NoneAssumption DEF TakenDone
<1>8. Unfetched' = Unfetched /\ QueuedDone' = QueuedDone BY <1>1 DEF Unfetched, QueuedDone
<1>9. StatusInv' BY <1>1, <1>7, <1>8 DEF ReportsInv, StatusInv
<1>10. EndingInv' BY <1>1, <1>4, <1>8 DEF ReportsInv, EndingInv
<1>11. Reported' = Reported BY <1>1, <1>7, <1>8 DEF Reported
<1>12. SuccessInv'
  BY <1>1, <1>5, <1>6, <1>11 DEF ReportsInv, SuccessInv
<1> QED BY <1>9, <1>10, <1>12 DEF ReportsInv

LEMMA LastReports ==
  ASSUME TypeInv, ReportsInv, LastStep PROVE ReportsInv'
<1>1. /\ pc = "stopping" /\ responseQueue' = <<>> /\ allocated' = <<>>
      /\ held' = {} /\ exited' = {}
      /\ UNCHANGED <<response, lastId, ending>>
  BY DEF LastStep
<1>2. TakenDone' = {} /\ QueuedDone' = {} /\ Unfetched' = {}
  BY <1>1, StatusTypes DEF TakenDone, QueuedDone, Unfetched
<1>3. Settled({}, {}, {}, {}, {}, lastId) BY SettledLess DEF ReportsInv, StatusInv
<1>4. StatusInv' BY <1>1, <1>2, <1>3 DEF StatusInv
<1>5. EndingInv' BY <1>1, <1>2 DEF ReportsInv, EndingInv
<1>6. SuccessInv' BY <1>1, <1>2 DEF SuccessInv, Reported
<1> QED BY <1>4, <1>5, <1>6 DEF ReportsInv

LEMMA ExitReports ==
  ASSUME TypeInv, ReportsInv, NEW c, NEW b \in BOOLEAN, Exit(c, b),
         b => c \in ending
  PROVE  ReportsInv'
<1> DEFINE s == [container |-> c, success |-> b]
<1>1. /\ c \in held /\ held' = held \ {c} /\ ending' = ending \ {c}
      /\ exited' = exited \cup {s}
      /\ UNCHANGED <<allocated, lastId, responseQueue, response, restarts,
                     isFinished, assigned>>
  BY DEF Exit, listVars, amVars, queueVars
<1>2. s.container = c /\ s.success = b OBVIOUS
<1> HIDE DEF s
<1>3. UNCHANGED <<Unfetched, QueuedDone, TakenDone, Assigned>>
  BY <1>1 DEF Unfetched, QueuedDone, TakenDone, Assigned
<1>4. Settled(held \ {c}, Unfetched, exited \cup {s}, QueuedDone, TakenDone, lastId)
  BY <1>1, <1>2, SettledExit DEF ReportsInv, StatusInv
<1>5. StatusInv' BY <1>1, <1>3, <1>4 DEF StatusInv
<1>6. EndingInv' BY <1>1, <1>3 DEF ReportsInv, EndingInv
<1>7. Reported' = Reported \cup {s} BY <1>1, <1>3 DEF Reported
<1>8. SuccessInv' BY <1>1, <1>2, <1>3, <1>7 DEF ReportsInv, SuccessInv
<1> QED BY <1>5, <1>6, <1>8 DEF ReportsInv

LEMMA RMReports ==
  ASSUME TypeInv, ReportsInv, RMStep PROVE ReportsInv'
<1>1. ASSUME NEW k \in RequestKinds, RMAllocate(k) PROVE ReportsInv'
  <2> DEFINE c == [id |-> lastId + 1, kind |-> k]
  <2>1. /\ lastId' = lastId + 1 /\ allocated' = Append(allocated, c)
        /\ UNCHANGED <<held, exited, ending, responseQueue, response, restarts,
                       isFinished, assigned>>
    BY <1>1 DEF RMAllocate, listVars, amVars, queueVars
  <2>2. c \in Containers /\ c.id = lastId + 1 BY StatusTypes DEF Containers
  <2> HIDE DEF c
  <2>3. Unfetched' = Unfetched \cup {c}
    <3>1. allocated \in Seq(Containers) BY DEF TypeInv, RMTypes
    <3>2. \A i \in DOMAIN allocated :
             i \in DOMAIN allocated' /\ allocated'[i] = allocated[i]
      BY <2>1, <3>1
    <3>3. Len(allocated) + 1 \in DOMAIN allocated'
          /\ allocated'[Len(allocated) + 1] = c
      BY <2>1, <2>2, <3>1
    <3>4. \A i \in DOMAIN allocated' :
             i \in DOMAIN allocated \/ allocated'[i] = c
      BY <2>1, <2>2, <3>1
    <3> QED BY <3>2, <3>3, <3>4 DEF Unfetched
  <2>4. UNCHANGED <<QueuedDone, TakenDone, Assigned>>
    BY <2>1 DEF QueuedDone, TakenDone, Assigned
  <2>5. Settled(held, Unfetched \cup {c}, exited, QueuedDone, TakenDone, lastId + 1)
    BY <2>2, StatusTypes, SettledMore DEF ReportsInv, StatusInv
  <2>6. StatusInv' BY <2>1, <2>3, <2>4, <2>5 DEF StatusInv
  <2>7. EndingInv'
    <3>1. \A d \in ending : d.id \in Nat /\ d.id <= lastId /\ lastId \in Nat
      BY DEF ReportsInv, EndingInv, TypeInv, RMTypes, Containers
    <3>2. c \notin ending BY <2>2, <3>1
    <3> QED BY <2>1, <2>3, <3>1, <3>2 DEF ReportsInv, EndingInv
  <2>8. Reported' = Reported BY <2>1, <2>4 DEF Reported
  <2>9. SuccessInv' BY <2>1, <2>4, <2>8, SuccessKept DEF ReportsInv
  <2> QED BY <2>6, <2>7, <2>9 DEF ReportsInv
<1>2. ASSUME NEW c \in held, NMCompletes(c) PROVE ReportsInv'
  BY <1>2, ExitReports DEF NMCompletes
<1>3. ASSUME NEW c \in held, NEW victim \in {"am", "task"}, RMKill(c, victim)
      PROVE  ReportsInv'
  BY <1>3, ExitReports DEF RMKill
<1> QED BY <1>1, <1>2, <1>3 DEF RMStep

-----------------------------------------------------------------------------
(* A job is finished when its tasks are.                                    *)

EndInv == ReportsInv /\ FinishedMeansDone

AllFinished == \A k \in Kinds : finished[k] = Total(k)

(* A success that belongs to no task comes when the job is finished.        *)
LEMMA SuccessStep ==
  ASSUME TypeInv, UsedInv, CountInv, EndInv, NEW s \in TakenDone,
         ContainerSucceeded(s), pc = "completed"
  PROVE  EndInv'
<1>1. s \in Reported /\ s.success BY DEF Reported, ContainerSucceeded
<1>2. isFinished' = (isFinished \/ Owners(s.container) = {})
      /\ restarts' = restarts
  BY DEF ContainerSucceeded
<1>3. CASE restarts = 0 /\ ~isFinished
  <2>1. s.container \in Assigned
    BY <1>1, <1>3 DEF EndInv, ReportsInv, SuccessInv
  <2>2. Owners(s.container) # {} BY <2>1 DEF Owners, Assigned
  <2>3. isFinished' = FALSE /\ isFinished = FALSE
    BY <1>2, <1>3, <2>2 DEF TypeInv, AMTypes
  <2>4. ReportsInv' BY <2>3, HandledReports DEF EndInv
  <2> QED BY <1>3, <2>3, <2>4 DEF EndInv, FinishedMeansDone
<1>4. CASE restarts = 0 /\ isFinished
  <2>1. isFinished' = isFinished BY <1>2, <1>4
  <2>2. ReportsInv' BY <2>1, HandledReports DEF EndInv
  <2>3. AllFinished BY <1>4 DEF EndInv, FinishedMeansDone, AllFinished
  <2>4. \A k \in Kinds : DOMAIN assigned[k] = {}
    BY <1>4, <2>3, CountMeans, DoneIsDone DEF AllFinished
  <2>5. \A k \in Kinds : finished'[k] = finished[k]
    BY <2>4 DEF ContainerSucceeded, Owners, TypeInv, ListTypes
  <2> QED BY <2>2, <2>3, <2>5 DEF EndInv, FinishedMeansDone, AllFinished, Total
<1>5. CASE restarts # 0
  <2>1. isFinished' = isFinished \/ isFinished' BY <1>2 DEF TypeInv, AMTypes
  <2>2. ReportsInv' BY <2>1, HandledReports DEF EndInv
  <2> QED BY <1>2, <1>5, <2>2 DEF EndInv, FinishedMeansDone
<1> QED BY <1>3, <1>4, <1>5

(* The steps in which the job is not found finished and no count changes.   *)
LEMMA SameEnd ==
  ASSUME FinishedMeansDone, UNCHANGED <<finished, isFinished, restarts>>
  PROVE  FinishedMeansDone'
BY DEF FinishedMeansDone, Total

LEMMA QuietSteps ==
  ASSUME \/ FirstStep \/ StartAM \/ PollForAM \/ TakeResponse
         \/ ResponseProcessed \/ RequestNothing \/ CheckStop \/ RMStep
         \/ UNCHANGED vars
         \/ Launch \/ LastStep
         \/ \E k \in Kinds : RequestPending(k) \/ RequestFailed(k)
  PROVE  UNCHANGED <<finished, isFinished, restarts>>
<1>1. CASE FirstStep \/ StartAM \/ PollForAM \/ TakeResponse
  BY <1>1 DEF FirstStep, StartAM, PollForAM, TakeResponse, listVars, amVars
<1>2. CASE ResponseProcessed \/ RequestNothing \/ CheckStop
  BY <1>2 DEF ResponseProcessed, RequestNothing, CheckStop, listVars, amVars
<1>3. CASE RMStep
  BY <1>3 DEF RMStep, RMAllocate, NMCompletes, RMKill, Exit, listVars, amVars
<1>4. CASE UNCHANGED vars BY <1>4 DEF vars, listVars, amVars
<1>5. CASE Launch \/ LastStep BY <1>5 DEF Launch, LastStep, amVars
<1>6. CASE \E k \in Kinds : RequestPending(k) \/ RequestFailed(k)
  BY <1>6 DEF RequestPending, RequestFailed, Request, amVars
<1> QED BY <1>1, <1>2, <1>3, <1>4, <1>5, <1>6

LEMMA EndStep ==
  ASSUME TypeInv, UsedInv, CountInv, EndInv, [Next]_vars PROVE EndInv'
<1> USE DEF EndInv
<1>1. CASE ProcessStatus
  <2>1. PICK s \in response.completed :
          \/ ContainerSucceeded(s) \/ \E j \in Kinds : TaskKilled(j, s)
          \/ Restart(s)
    BY <1>1, StatusCases
  <2>2. pc = "completed" BY <1>1, StatusCases
  <2>3. s \in TakenDone
    BY <2>2, StatusTypes DEF TypeInv, AnswerInv
  <2>4. CASE ContainerSucceeded(s) BY <2>2, <2>3, <2>4, SuccessStep
  <2>5. CASE \E j \in Kinds : TaskKilled(j, s)
    <3>1. UNCHANGED <<finished, isFinished, restarts>>
      BY <2>5 DEF TaskKilled, amVars
    <3>2. isFinished' = isFinished \/ isFinished' BY <3>1
    <3> QED BY <2>3, <2>5, <3>1, <3>2, HandledReports, SameEnd
  <2>6. CASE Restart(s)
    <3>1. ReportsInv' BY <2>3, <2>6, AskReports
    <3>2. restarts' # 0 BY <2>6, RestartCounted
    <3> QED BY <3>1, <3>2 DEF FinishedMeansDone
  <2> QED BY <2>1, <2>4, <2>5, <2>6
<1>2. CASE CheckFinished
  <2>1. ReportsInv' BY <1>2, CheckReports
  <2>2. /\ UNCHANGED <<finished, restarts>>
        /\ isFinished' = (isFinished \/ AllDone)
    BY <1>2 DEF CheckFinished, listVars
  <2>3. AllDone => \A k \in Kinds : finished[k] = Total(k) BY DEF AllDone
  <2> QED BY <2>1, <2>2, <2>3 DEF FinishedMeansDone, Total
<1>3. CASE FirstStep \/ PollForAM BY <1>3, AskReports, QuietSteps, SameEnd
<1>4. CASE TakeResponse BY <1>4, TakeReports, QuietSteps, SameEnd
<1>5. CASE StartAM \/ ResponseProcessed \/ CheckStop \/ UNCHANGED vars
  BY <1>5, InnerReports, QuietSteps, SameEnd
<1>6. CASE Launch BY <1>6, LaunchReports, QuietSteps, SameEnd
<1>7. CASE RequestNothing \/ \E k \in Kinds : RequestPending(k) \/ RequestFailed(k)
  BY <1>7, RequestReports, QuietSteps, SameEnd
<1>8. CASE LastStep BY <1>8, LastReports, QuietSteps, SameEnd
<1>9. CASE RMStep BY <1>9, RMReports, QuietSteps, SameEnd
<1> QED BY <1>1, <1>2, <1>3, <1>4, <1>5, <1>6, <1>7, <1>8, <1>9 DEF Next, AMStep

(* Reports are consistent, and no unfinished job is taken for finished.     *)
THEOREM EndInvariant == Spec => [](TypeInv /\ UsedInv /\ EndInv)
<1>1. Init => EndInv
  <2>1. Init => FinishedMeansDone BY DEF Init, FinishedMeansDone
  <2> QED BY <2>1, InitReports DEF EndInv
<1>2. TypeInv /\ UsedInv /\ CountInv /\ EndInv /\ [Next]_vars => EndInv' BY EndStep
<1> QED BY <1>1, <1>2, CountInvariant, PTL DEF Spec

(* Until a restart an application is taken for finished only when all its    *)
(* tasks have finished: no success without a task is reported before, and    *)
(* none comes back for a task after.                                         *)
THEOREM JobsAreDone == Spec => []FinishedMeansDone
<1>1. EndInv => FinishedMeansDone BY DEF EndInv
<1> QED BY <1>1, EndInvariant, PTL

-----------------------------------------------------------------------------
(* What the resource manager owes, to the container: until a restart nothing *)
(* but the container of the AM is asked for twice, and no request is sent    *)
(* while an earlier one is open.                                            *)

PendingFirst == \A k \in Kinds : pending[k] # <<>> => scheduled[k] = <<>>
ExactInv ==
    restarts = 0 /\ pc # "done" =>
        /\ Owed = Scheduled + IF pc = "awaitAM" THEN 1 ELSE 0
        /\ pc \in {"first", "awaitAM"} => Scheduled = 0
        /\ pc # "awaitAM" => Asked("am") = 0
        /\ PendingFirst

LEMMA InitExact == ASSUME Init PROVE ExactInv
BY DEF Init, ExactInv, PendingFirst, Owed, Scheduled, ToRun, Asked, InRM, InQueue,
       InResponse, InAMResponse, RequestKinds, Kinds

(* A step that only moves what is owed.                                     *)
LEMMA ExactMoved ==
  ASSUME ExactInv, Owed' = Owed, UNCHANGED <<pending, scheduled>>,
         Asked("am") = 0 => Asked("am")' = 0,
         restarts' = restarts, pc' # "done" => pc # "done",
         pc' = "first" => pc = "first", (pc = "awaitAM") = (pc' = "awaitAM")
  PROVE  ExactInv'
<1>1. Scheduled' = Scheduled BY DEF Scheduled, ToRun
<1>2. PendingFirst => PendingFirst' BY DEF PendingFirst
<1> QED BY <1>1, <1>2 DEF ExactInv

LEMMA ExactSame ==
  ASSUME ExactInv,
         UNCHANGED <<demand, allocated, responseQueue, amResponse, scheduled, pending>>,
         InResponse' = InResponse,
         restarts' = restarts, pc' # "done" => pc # "done",
         pc' = "first" => pc = "first", (pc = "awaitAM") = (pc' = "awaitAM")
  PROVE  ExactInv'
<1>1. Owed' = Owed BY DEF Owed, Asked, InRM, InQueue, InAMResponse
<1>2. Asked("am")' = Asked("am") BY DEF Asked
<1> QED BY <1>1, <1>2, ExactMoved

(* The AM asks for its container, and gets it.                              *)
LEMMA FirstExact == ASSUME TypeInv, ExactInv, FirstStep PROVE ExactInv'
<1> USE DEF TypeInv
<1> DEFINE ask == [k \in {"am"} |-> 1]
<1>1. /\ pc = "first" /\ pc' = "awaitAM" /\ AllocateCall(ask) /\ amResponse' = Answer
      /\ UNCHANGED <<pending, scheduled, responseQueue, response, restarts>>
  BY DEF FirstStep, AskForAM, listVars
<1>2. ask \in [{"am"} -> Nat] /\ {"am"} \in SUBSET RequestKinds
  BY DEF RequestKinds
<1>3. /\ Asked("am")' = 1 /\ \A k \in Kinds : Asked(k)' = Asked(k)
      /\ allocated' = <<>> /\ Answer.allocated = allocated
  <2> HIDE DEF ask
  <2>1. /\ \A k \in RequestKinds \ {"am"} : demand'[k] = demand[k]
        /\ \A k \in {"am"} : demand'[k] = ask[k]
        /\ allocated' = <<>> /\ Answer.allocated = allocated
    BY <1>1, <1>2, CallCounts
  <2> QED BY <2>1 DEF Asked, ask, RequestKinds, Kinds
<1>4. Answer \in Responses /\ Answer # NoResponse
  BY <1>1, <1>2, CallTypes, NoneAssumption
<1>5. /\ InRM' = 0 /\ InAMResponse' = InRM /\ InAMResponse = 0
      /\ InQueue' = InQueue /\ InResponse' = InResponse
      /\ Scheduled' = Scheduled
      /\ Asked("map")' = Asked("map") /\ Asked("reduce")' = Asked("reduce")
  BY <1>1, <1>3, <1>4
     DEF InRM, InAMResponse, InQueue, InResponse, Scheduled, ToRun, AnswerInv, Kinds
<1>6. Asked("am")' = 1 /\ pc = "first" /\ pc' = "awaitAM" /\ restarts' = restarts
  BY <1>1, <1>3
<1>7. PendingFirst => PendingFirst' BY <1>1 DEF PendingFirst
<1>8. CountTypes BY Counts
<1> HIDE DEF ask
<1> QED BY <1>5, <1>6, <1>7, <1>8 DEF CountTypes, ExactInv, Owed

LEMMA StartExact == ASSUME TypeInv, ExactInv, StartAM PROVE ExactInv'
<1> USE DEF TypeInv
<1>1. amResponse \in Responses /\ amResponse # NoResponse
      /\ amResponse.allocated # <<>> /\ amResponse.allocated \in Seq(Containers)
  BY NoneAssumption DEF StartAM, AnswerInv, Responses
<1>2. Len(amResponse.allocated) >= 1 BY <1>1, EmptySeq, LenProperties
<1>3. InAMResponse >= 1 /\ InAMResponse' = 0
  BY <1>1, <1>2 DEF StartAM, InAMResponse
<1>4. /\ UNCHANGED <<demand, allocated, pending, scheduled, responseQueue, response,
                     restarts>>
      /\ pc = "awaitAM" /\ pc' \in {"middle", "completed"}
  BY DEF StartAM, listVars, rmVars, pullVars
<1>5. /\ InQueue' = InQueue /\ InResponse' = InResponse /\ Scheduled' = Scheduled
      /\ Asked("am")' = Asked("am") /\ Asked("map")' = Asked("map")
      /\ Asked("reduce")' = Asked("reduce") /\ InRM' = InRM
  BY <1>4 DEF InQueue, InResponse, Scheduled, ToRun, Asked, InRM
<1>6. PendingFirst => PendingFirst' BY <1>4 DEF PendingFirst
<1>7. CountTypes BY Counts
<1>8. restarts' = restarts /\ pc = "awaitAM" /\ pc' \in {"middle", "completed"}
  BY <1>4
<1> QED BY <1>3, <1>5, <1>6, <1>7, <1>8 DEF CountTypes, ExactInv, Owed

(* Containers that move with a call that asks for nothing, with an answer,   *)
(* or inside the resource manager.                                          *)
LEMMA NothingExact ==
  ASSUME TypeInv, ExactInv, RequestNothing \/ PollForAM PROVE ExactInv'
<1> USE DEF TypeInv
<1>1. AllocateCall(Empty) BY DEF RequestNothing, PollForAM
<1>2. /\ \A k \in RequestKinds : demand'[k] = demand[k]
      /\ allocated' = <<>> /\ Answer.allocated = allocated
      /\ Answer \in Responses /\ Answer # NoResponse
  BY <1>1, EmptyAsk, CallCounts, CallTypes, NoneAssumption
<1>3. /\ Asked("am")' = Asked("am") /\ Asked("map")' = Asked("map")
      /\ Asked("reduce")' = Asked("reduce") /\ InRM' = 0
  BY <1>2 DEF InRM, Asked, RequestKinds, Kinds
<1>4. /\ UNCHANGED <<pc, response, pending, scheduled, restarts>>
      /\ responseQueue = <<>>
  BY DEF RequestNothing, PollForAM, Heartbeat, listVars, AnswerInv
<1>5. InQueue = 0 /\ InResponse' = InResponse BY <1>4 DEF InQueue, InResponse
<1>6. CASE RequestNothing
  <2>1. responseQueue' = <<Answer>> /\ amResponse' = amResponse
    BY <1>6, RequestNothingTypes DEF RequestNothing
  <2>2. InQueue' = InRM /\ InAMResponse' = InAMResponse
    BY <1>2, <2>1 DEF InRM, InQueue, InAMResponse
  <2>3. Owed' = Owed BY <1>3, <1>5, <2>2, Counts DEF CountTypes, Owed
  <2> QED BY <1>3, <1>4, <2>3, ExactMoved
<1>7. CASE PollForAM
  <2>1. /\ responseQueue' = <<>> /\ amResponse' = Answer
        /\ amResponse # NoResponse /\ amResponse.allocated = <<>>
    BY <1>7, PollForAMTypes, NoneAssumption DEF PollForAM, AnswerInv
  <2>2. InQueue' = 0 /\ InAMResponse = 0 /\ InAMResponse' = InRM
    BY <1>2, <2>1 DEF InRM, InQueue, InAMResponse
  <2>3. Owed' = Owed BY <1>3, <1>5, <2>2, Counts DEF CountTypes, Owed
  <2> QED BY <1>3, <1>4, <2>3, ExactMoved
<1> QED BY <1>6, <1>7

LEMMA TakeExact == ASSUME TypeInv, ExactInv, TakeResponse PROVE ExactInv'
<1> USE DEF TypeInv
<1>1. /\ responseQueue # <<>> /\ Head(responseQueue) \in Responses
      /\ responseQueue' = <<>> /\ response' = Head(responseQueue)
      /\ response = NoResponse
  BY OneAnswer, TakeResponseTypes DEF TakeResponse, AnswerInv
<1>2. InQueue' = 0 /\ InResponse' = InQueue /\ InResponse = 0
  BY <1>1, NoneAssumption DEF InQueue, InResponse
<1>3. /\ UNCHANGED <<demand, allocated, pending, scheduled, amResponse, restarts>>
      /\ pc = "middle" /\ pc' = "completed"
  BY DEF TakeResponse, listVars, rmVars, pullVars
<1>4. /\ InAMResponse' = InAMResponse /\ InRM' = InRM
      /\ Asked("am")' = Asked("am") /\ Asked("map")' = Asked("map")
      /\ Asked("reduce")' = Asked("reduce")
  BY <1>3 DEF InAMResponse, Asked, InRM
<1>5. Owed' = Owed BY <1>2, <1>4, Counts DEF CountTypes, Owed
<1> QED BY <1>3, <1>4, <1>5, ExactMoved

LEMMA RMExact == ASSUME TypeInv, ExactInv, RMStep PROVE ExactInv'
<1> USE DEF TypeInv
<1>1. ASSUME NEW k \in RequestKinds, RMAllocate(k) PROVE ExactInv'
  <2>1. /\ demand[k] > 0 /\ demand[k] \in Nat /\ demand'[k] = demand[k] - 1
        /\ \A j \in RequestKinds : j # k => demand'[j] = demand[j]
    BY <1>1 DEF RMAllocate, RMTypes
  <2>2. InRM' = InRM + 1
    <3>1. [id |-> lastId + 1, kind |-> k] \in Containers
      BY DEF RMTypes, Containers
    <3> QED BY <1>1, <3>1 DEF RMAllocate, RMTypes, InRM
  <2>3. UNCHANGED <<responseQueue, response, amResponse, pending, scheduled, pc,
                    restarts>>
    BY <1>1 DEF RMAllocate, listVars, queueVars
  <2>4. InQueue' = InQueue /\ InResponse' = InResponse /\ InAMResponse' = InAMResponse
    BY <2>3 DEF InQueue, InResponse, InAMResponse
  <2>5. /\ Asked(k)' = Asked(k) - 1 /\ Asked(k) > 0
        /\ \A j \in RequestKinds : j # k => Asked(j)' = Asked(j)
    BY <2>1 DEF Asked
  <2>6. CountTypes BY Counts
  <2>7. \/ /\ Asked("am")' = Asked("am") - 1 /\ Asked("map")' = Asked("map")
           /\ Asked("reduce")' = Asked("reduce") /\ Asked("am") > 0
        \/ /\ Asked("am")' = Asked("am") /\ Asked("map")' = Asked("map") - 1
           /\ Asked("reduce")' = Asked("reduce")
        \/ /\ Asked("am")' = Asked("am") /\ Asked("map")' = Asked("map")
           /\ Asked("reduce")' = Asked("reduce") - 1
    BY <2>5 DEF RequestKinds, Kinds
  <2>8. Owed' = Owed BY <2>2, <2>4, <2>6, <2>7 DEF CountTypes, Owed
  <2>9. Asked("am") = 0 => Asked("am")' = 0 BY <2>7
  <2> QED BY <2>3, <2>8, <2>9, ExactMoved
<1>2. ASSUME \E c \in held, b \in BOOLEAN : Exit(c, b) PROVE ExactInv'
  <2>1. UNCHANGED <<demand, allocated, responseQueue, response, amResponse,
                    pending, scheduled, pc, restarts>>
    BY <1>2 DEF Exit, listVars, queueVars
  <2>2. InResponse' = InResponse BY <2>1 DEF InResponse
  <2> QED BY <2>1, <2>2, ExactSame
<1> QED BY <1>1, <1>2 DEF RMStep, NMCompletes, RMKill

(* A container goes to a task.                                              *)
LEMMA LaunchExact == ASSUME TypeInv, OwedInv, ExactInv, Launch PROVE ExactInv'
<1> USE DEF TypeInv
<1>1. Waiting # {} /\ InResponse = Len(response.allocated) /\ InResponse >= 1
  BY SomeTaskWaits DEF Launch
<1>2. PICK k \in Waiting : TRUE BY <1>1
<1>3. k \in Kinds /\ scheduled[k] # <<>> /\ scheduled[k] \in Seq(Tasks)
  BY DEF Waiting, ListTypes
<1>4. \A j \in Kinds : j # k => j \notin Waiting BY <1>3 DEF Waiting, Kinds
<1>5. /\ scheduled'[k] = Tail(scheduled[k])
      /\ \A j \in Kinds : j # k => scheduled'[j] = scheduled[j]
  BY <1>3, <1>4 DEF Launch
<1>6. /\ ToRun(k)' = ToRun(k) - 1
      /\ \A j \in Kinds : j # k => ToRun(j)' = ToRun(j)
  BY <1>3, <1>5, HeadTailProperties DEF ToRun
<1>7. InResponse' = InResponse - 1
  <2>1. response \in Responses /\ response.allocated \in Seq(Containers)
        /\ response.allocated # <<>>
    BY DEF Launch, AnswerInv, Responses
  <2>2. response' \in Responses /\ response'.allocated = Tail(response.allocated)
    BY LaunchTypes, <2>1 DEF Launch, AnswerInv, Responses
  <2>3. Len(Tail(response.allocated)) = Len(response.allocated) - 1
    BY <2>1, HeadTailProperties
  <2> QED BY <1>1, <2>2, <2>3, NoneAssumption DEF InResponse
<1>8. /\ UNCHANGED <<demand, allocated, responseQueue, amResponse, pc, restarts,
                     pending>>
      /\ pc = "allocated"
  BY DEF Launch, pullVars
<1>9. /\ InQueue' = InQueue /\ InAMResponse' = InAMResponse
      /\ Asked("am")' = Asked("am") /\ Asked("map")' = Asked("map")
      /\ Asked("reduce")' = Asked("reduce") /\ InRM' = InRM
  BY <1>8 DEF InQueue, InAMResponse, Asked, InRM
<1>10. CountTypes BY Counts
<1>11. \/ ToRun("map")' = ToRun("map") - 1 /\ ToRun("reduce")' = ToRun("reduce")
       \/ ToRun("reduce")' = ToRun("reduce") - 1 /\ ToRun("map")' = ToRun("map")
  BY <1>3, <1>6 DEF Kinds
<1>12. Scheduled' = Scheduled - 1 /\ Owed' = Owed - 1
  BY <1>7, <1>9, <1>10, <1>11 DEF CountTypes, Owed, Scheduled
<1>13. Owed \in Nat BY <1>10 DEF CountTypes, Owed
<1>14. PendingFirst => PendingFirst' BY <1>3, <1>5, <1>8 DEF PendingFirst
<1>15. pc = "allocated" /\ pc' = "allocated" /\ restarts' = restarts
       /\ Asked("am")' = Asked("am")
  BY <1>8, <1>9
<1> QED BY <1>10, <1>12, <1>13, <1>14, <1>15 DEF CountTypes, ExactInv

LEMMA NothingOpen ==
  ASSUME CountTypes, Owed = 0
  PROVE  /\ Asked("map") = 0 /\ Asked("reduce") = 0 /\ InRM = 0 /\ InQueue = 0
         /\ InResponse = 0 /\ InAMResponse = 0
BY DEF CountTypes, Owed

(* A request finds nothing open: the tasks of the other kind are all done,   *)
(* or none of them was requested.                                           *)
LEMMA RequestFindsNothing ==
  ASSUME TypeInv, CountInv, ReducesAfterMaps, ExactInv, restarts = 0,
         NEW k \in Kinds, RequestPending(k) \/ RequestFailed(k)
  PROVE  /\ scheduled["map"] = <<>> /\ scheduled["reduce"] = <<>>
         /\ Asked("am") = 0 /\ Asked("map") = 0 /\ Asked("reduce") = 0
         /\ InRM = 0 /\ InQueue = 0 /\ InResponse = 0 /\ InAMResponse = 0
<1>1. pc = "middle" /\ InPhase(k)
  BY DEF RequestPending, RequestFailed, Request, Heartbeat
<1>2. Owed = Scheduled /\ Asked("am") = 0 /\ PendingFirst
  BY <1>1, Counts DEF ExactInv, CountTypes
<1>3. scheduled[k] = <<>>
  BY <1>2 DEF RequestPending, RequestFailed, PendingFirst, MayRequest, MayRequestFailed
<1>4. "map" \in Kinds /\ "reduce" \in Kinds /\ (k = "map" \/ k = "reduce")
  BY DEF Kinds
<1>5. scheduled["map"] = <<>> /\ scheduled["reduce"] = <<>>
  <2>1. CASE k = "map"
    BY <1>1, <1>3, <2>1 DEF InPhase, ReducesAfterMaps
  <2>2. CASE k = "reduce"
    <3>1. finished["map"] = Total("map") BY <1>1, <2>2 DEF InPhase
    <3>2. Balanced("map") BY <1>1, <1>4, CountMeans
    <3> QED BY <1>3, <1>4, <2>2, <3>1, <3>2, DoneIsDone DEF TypeInv
  <2> QED BY <1>4, <2>1, <2>2
<1>6. Scheduled = 0 BY <1>5 DEF ToRun, Scheduled
<1>7. CountTypes BY Counts
<1>8. Owed = 0 BY <1>2, <1>6
<1> QED BY <1>2, <1>5, <1>7, <1>8, NothingOpen

LEMMA RequestExact ==
  ASSUME TypeInv, CountInv, ReducesAfterMaps, ExactInv,
         NEW k \in Kinds, RequestPending(k) \/ RequestFailed(k)
  PROVE  ExactInv'
<1> USE DEF TypeInv
<1>1. PICK batch \in Seq(Tasks) : Request(k, batch)
  <2>1. pending[k] \in Seq(Tasks) /\ pendingFailed[k] \in Seq(Tasks)
    BY DEF ListTypes
  <2> QED BY <2>1 DEF RequestPending, RequestFailed
<1>2. /\ responseQueue = <<>> /\ pc = "middle" /\ pc' = "middle"
      /\ UNCHANGED <<response, amResponse, restarts>>
  BY <1>1 DEF Request, Heartbeat
<1>3. CASE restarts # 0 BY <1>2, <1>3 DEF ExactInv
<1>4. CASE restarts = 0
  <2>1. scheduled["map"] = <<>> /\ scheduled["reduce"] = <<>> /\ Asked("am") = 0
    BY <1>4, RequestFindsNothing
  <2>2. scheduled[k] = <<>> BY <2>1 DEF Kinds
  <2>3. "map" \in Kinds /\ "reduce" \in Kinds /\ (k = "map" \/ k = "reduce")
    BY DEF Kinds
  <2>6. Asked("map") = 0 /\ Asked("reduce") = 0 /\ InRM = 0 /\ InQueue = 0
        /\ InResponse = 0 /\ InAMResponse = 0
    BY <1>4, RequestFindsNothing
  <2>7. PICK n \in Nat : n = Len(batch) BY LenProperties
  <2> DEFINE ask == [j \in {k} |-> n]
  <2>8. ask \in [{k} -> Nat] /\ {k} \in SUBSET RequestKinds
    BY <2>7 DEF RequestKinds
  <2>9. AllocateCall(ask) BY <1>1, <2>7 DEF Request
  <2>10. /\ \A j \in RequestKinds \ {k} : demand'[j] = demand[j]
         /\ demand'[k] = n
         /\ allocated' = <<>> /\ Answer.allocated = allocated
    <3> HIDE DEF ask
    <3>1. /\ \A j \in RequestKinds \ {k} : demand'[j] = demand[j]
          /\ \A j \in {k} : demand'[j] = ask[j]
          /\ allocated' = <<>> /\ Answer.allocated = allocated
      BY <2>8, <2>9, CallCounts
    <3> QED BY <3>1 DEF ask
  <2>11. responseQueue' = <<Answer>> BY RequestTypes
  <2> HIDE DEF ask
  <2>12. /\ InRM' = 0 /\ InQueue' = 0 /\ InResponse' = 0 /\ InAMResponse' = 0
         /\ Asked("am")' = 0
    BY <1>2, <2>1, <2>3, <2>6, <2>10, <2>11
       DEF InRM, InQueue, InResponse, InAMResponse, Asked, RequestKinds
  <2>13. /\ Asked(k)' = n
         /\ \A j \in Kinds \ {k} : Asked(j)' = 0
    <3>1. \A j \in Kinds \ {k} : demand'[j] = demand[j]
      BY <2>10 DEF RequestKinds, Kinds
    <3>2. \A j \in Kinds : Asked(j) = 0 BY <2>6 DEF Kinds
    <3> QED BY <2>10, <3>1, <3>2 DEF Asked
  <2>14. /\ ToRun(k)' = n
         /\ \A j \in Kinds \ {k} : ToRun(j)' = 0
    <3>1. scheduled'[k] = scheduled[k] \o batch BY <1>1 DEF Request, ListTypes
    <3>2. \A j \in Kinds \ {k} : scheduled'[j] = scheduled[j]
      BY <1>1 DEF Request, ListTypes
    <3>3. scheduled'[k] = batch BY <2>2, <3>1
    <3>4. \A j \in Kinds : scheduled[j] = <<>> BY <2>1 DEF Kinds
    <3>5. \A j \in Kinds \ {k} : scheduled'[j] = <<>> BY <3>2, <3>4
    <3> QED BY <2>7, <3>3, <3>5 DEF ToRun
  <2>15. Owed' = Scheduled'
    BY <2>3, <2>12, <2>13, <2>14 DEF Owed, Scheduled, Kinds
  <2>16. Scheduled' = n BY <2>3, <2>14 DEF Scheduled, Kinds
  <2>17. PendingFirst'
    <3>1. pending'[k] = <<>>
      BY DEF RequestPending, RequestFailed, MayRequestFailed, ListTypes
    <3>2. \A j \in Kinds \ {k} : scheduled'[j] = <<>>
      BY <1>1, <2>3, <2>1 DEF Request, ListTypes, Kinds
    <3> QED BY <3>1, <3>2 DEF PendingFirst
  <2> QED BY <1>2, <2>12, <2>15, <2>16, <2>17 DEF ExactInv
<1> QED BY <1>3, <1>4

LEMMA ExactStep ==
  ASSUME TypeInv, OwedInv, CountInv, ReducesAfterMaps, ExactInv, [Next]_vars
  PROVE  ExactInv'
<1> USE DEF TypeInv
<1>1. CASE ProcessStatus
  <2>1. PICK s \in response.completed :
          \/ ContainerSucceeded(s) \/ \E k \in Kinds : TaskKilled(k, s)
          \/ Restart(s)
    BY <1>1, StatusCases
  <2>2. CASE Restart(s) BY <2>2, RestartCounted DEF ExactInv
  <2>3. CASE ContainerSucceeded(s) \/ \E k \in Kinds : TaskKilled(k, s)
    <3>1. UNCHANGED <<demand, allocated, responseQueue, amResponse, scheduled, pending,
                      pc, restarts>>
      BY <2>3 DEF ContainerSucceeded, TaskKilled, rmVars, pullVars
    <3>2. Consume(s) /\ response \in Responses
      BY <1>1, <2>3, StatusCases DEF ContainerSucceeded, TaskKilled, AnswerInv
    <3>3. response' \in Responses /\ response'.allocated = response.allocated
      BY <3>2, ConsumeTypes
    <3>4. InResponse' = InResponse BY <3>2, <3>3, NoneAssumption DEF InResponse
    <3> QED BY <3>1, <3>4, ExactSame
  <2> QED BY <2>1, <2>2, <2>3
<1>2. CASE CheckFinished \/ CheckStop \/ UNCHANGED vars
  <2>1. /\ UNCHANGED <<demand, allocated, responseQueue, response, amResponse, scheduled,
                       pending, restarts>>
        /\ ((pc = "awaitAM") = (pc' = "awaitAM"))
        /\ (pc' # "done" => pc # "done") /\ (pc' = "first" => pc = "first")
    BY <1>2 DEF CheckFinished, CheckStop, vars, listVars, queueVars, rmVars, pullVars
  <2> QED BY <2>1, ExactSame DEF InResponse
<1>3. CASE ResponseProcessed
  <2>1. /\ UNCHANGED <<demand, allocated, responseQueue, amResponse, scheduled, pending,
                       restarts>>
        /\ pc = "allocated" /\ pc' = "middle"
        /\ response # NoResponse /\ response.allocated = <<>> /\ response' = NoResponse
    BY <1>3, NoneAssumption
       DEF ResponseProcessed, listVars, rmVars, pullVars, AnswerInv
  <2>2. InResponse = 0 /\ InResponse' = 0 BY <2>1 DEF InResponse
  <2> QED BY <2>1, <2>2, ExactSame
<1>4. CASE LastStep BY <1>4 DEF LastStep, ExactInv
<1> QED BY <1>1, <1>2, <1>3, <1>4, FirstExact, StartExact, NothingExact, TakeExact,
           RMExact, LaunchExact, RequestExact DEF Next, AMStep

LEMMA ExactMeans == ASSUME TypeInv, ExactInv PROVE RequestInv
<1> USE DEF TypeInv
<1>1. Len(responseQueue) <= 1 BY DEF AnswerInv
<1>2. ASSUME restarts = 0, pc # "done", pc \notin {"first", "awaitAM"}
      PROVE  /\ demand["am"] = 0
             /\ demand["map"] + demand["reduce"] + Len(allocated) + InAnswers
                  = Len(scheduled["map"]) + Len(scheduled["reduce"])
  <2>1. InAMResponse = 0 BY <1>2 DEF AnswerInv, InAMResponse
  <2>2. InAnswers = InQueue + InResponse BY DEF InAnswers, InQueue, InResponse
  <2>3. CountTypes BY Counts
  <2>4. Owed = Scheduled /\ Asked("am") = 0
    BY <1>2, <2>3 DEF ExactInv, CountTypes
  <2>5. Asked("map") + Asked("reduce") + InRM + InAnswers = ToRun("map") + ToRun("reduce")
    BY <2>1, <2>2, <2>3, <2>4 DEF CountTypes, Owed, Scheduled
  <2> QED BY <2>4, <2>5 DEF Asked, InRM, ToRun
<1> QED BY <1>1, <1>2 DEF RequestInv

(* What is owed is exact in every state, with what the proof of it rests on. *)
THEOREM ExactInvariant == Spec => [](TypeInv /\ UsedInv /\ ExactInv)
<1>1. TypeInv /\ OwedInv /\ [Next]_vars => OwedInv' BY OwedStep
<1>2. Init => OwedInv BY InitOwed
<1>3. TypeInv /\ OwedInv /\ CountInv /\ ReducesAfterMaps /\ ExactInv /\ [Next]_vars
        => ExactInv'
  BY ExactStep
<1>4. Init => ExactInv BY InitExact
<1> QED BY <1>1, <1>2, <1>3, <1>4, CountInvariant, ReducesWait, PTL DEF Spec

(* Until a restart the resource manager owes, has allocated or has answered  *)
(* with one container for each scheduled task: no request overwrites one     *)
(* that is open, whatever the size of the job and the number of kills.       *)
THEOREM RequestsAddUp == Spec => []RequestInv
<1>1. TypeInv /\ ExactInv => RequestInv BY ExactMeans
<1> QED BY <1>1, ExactInvariant, PTL

-----------------------------------------------------------------------------
(* Where a task is: at most once, in one of the lists of its kind or in one  *)
(* of its containers.                                                       *)

Members(q) == {q[i] : i \in DOMAIN q}
Once(q) == \A i, j \in DOMAIN q : q[i] = q[j] => i = j
Disjoint(p, q) == Members(p) \cap Members(q) = {}
Placed(p, f, q, a) ==
    /\ Once(p) /\ Once(f) /\ Once(q)
    /\ Disjoint(p, f) /\ Disjoint(p, q) /\ Disjoint(f, q)
    /\ \A c, d \in DOMAIN a : a[c] = a[d] => c = d
    /\ \A c \in DOMAIN a : a[c] \notin Members(p) \cup Members(f) \cup Members(q)
PlaceOf(k) == Placed(pending[k], pendingFailed[k], scheduled[k], assigned[k])
PlaceInv == restarts = 0 => \A k \in Kinds : PlaceOf(k)

(* A task is requested, as a new one or as one that failed.                 *)
LEMMA PlacedRequest ==
  ASSUME NEW p, NEW f, NEW a, Placed(p, f, <<>>, a)
  PROVE  Placed(<<>>, f, p, a) /\ Placed(p, <<>>, f, a)
BY DEF Placed, Once, Disjoint, Members

LEMMA PlacedNowhere == Placed(<<>>, <<>>, <<>>, <<>>)
BY DEF Placed, Once, Disjoint, Members

(* Its container is killed: it joins the failed ones.  Or it ends.          *)
LEMMA PlacedEnd ==
  ASSUME NEW p \in Seq(Tasks), NEW f \in Seq(Tasks), NEW q \in Seq(Tasks), NEW a,
         NEW c \in DOMAIN a, a[c] \in Tasks, Placed(p, f, q, a)
  PROVE  /\ Placed(p, f, q, Without(a, c))
         /\ Placed(p, Append(f, a[c]), q, Without(a, c))
<1> DEFINE b == Without(a, c)
           g == Append(f, a[c])
<1>1. DOMAIN b = DOMAIN a \ {c} /\ \A x \in DOMAIN b : b[x] = a[x]
  BY DEF Without
<1>2. /\ \A x, y \in DOMAIN b : b[x] = b[y] => x = y
      /\ \A x \in DOMAIN b : /\ b[x] \notin Members(p) \cup Members(f) \cup Members(q)
                             /\ b[x] # a[c]
  BY <1>1 DEF Placed
<1>3. /\ DOMAIN f = 1..Len(f) /\ DOMAIN g = 1..(Len(f) + 1) /\ Len(f) \in Nat
      /\ g[Len(f) + 1] = a[c] /\ \A i \in DOMAIN f : g[i] = f[i]
  BY LenProperties
<1>4. a[c] \notin Members(p) \cup Members(f) \cup Members(q) BY DEF Placed
<1> HIDE DEF b, g
<1>5. \A i \in DOMAIN g : i \in DOMAIN f \/ i = Len(f) + 1 BY <1>3
<1>6. Members(g) = Members(f) \cup {a[c]}
  <2>1. Members(g) \subseteq Members(f) \cup {a[c]} BY <1>3, <1>5 DEF Members
  <2>2. Members(f) \subseteq Members(g) BY <1>3 DEF Members
  <2>3. a[c] \in Members(g) BY <1>3 DEF Members
  <2> QED BY <2>1, <2>2, <2>3
<1>7. Once(g)
  <2>1. \A i \in DOMAIN f : f[i] # a[c] BY <1>4 DEF Members
  <2> QED BY <1>3, <1>5, <2>1 DEF Once, Placed
<1>8. Placed(p, f, q, b) BY <1>2 DEF Placed
<1>9. Disjoint(p, g) /\ Disjoint(g, q) BY <1>4, <1>6 DEF Disjoint, Placed
<1>10. Placed(p, g, q, b) BY <1>2, <1>6, <1>7, <1>9 DEF Placed
<1> QED BY <1>8, <1>10 DEF b, g

(* It goes to a container that has none.                                    *)
LEMMA PlacedLaunch ==
  ASSUME NEW p, NEW f, NEW q \in Seq(Tasks), q # <<>>, NEW a, NEW c,
         c \notin DOMAIN a, Placed(p, f, q, a)
  PROVE  Placed(p, f, Tail(q), Put(a, c, Head(q)))
<1> DEFINE b == Put(a, c, Head(q))
           r == Tail(q)
<1>1. /\ DOMAIN b = DOMAIN a \cup {c} /\ b[c] = Head(q)
      /\ \A x \in DOMAIN a : b[x] = a[x]
  BY DEF Put
<1>2. /\ Head(q) = q[1] /\ 1 \in DOMAIN q
      /\ \A i \in DOMAIN r : i + 1 \in DOMAIN q /\ r[i] = q[i + 1] /\ i \in Nat /\ i # 0
  <2>1. /\ r \in Seq(Tasks) /\ Len(r) = Len(q) - 1 /\ Head(q) = q[1]
        /\ \A i \in 1..Len(r) : r[i] = q[i + 1]
    BY HeadTailProperties
  <2>2. Len(q) \in Nat /\ Len(q) # 0 /\ DOMAIN q = 1..Len(q) /\ DOMAIN r = 1..Len(r)
    BY <2>1, LenProperties, EmptySeq
  <2> HIDE DEF r
  <2> QED BY <2>1, <2>2
<1> HIDE DEF b, r
<1>3. Head(q) \in Members(q) BY <1>2 DEF Members
<1>4. \A i \in DOMAIN r : r[i] \in Members(q) /\ r[i] # Head(q)
  <2>1. \A i \in DOMAIN r : i + 1 # 1 BY <1>2
  <2> QED BY <1>2, <2>1 DEF Members, Placed, Once
<1>5. Members(r) \subseteq Members(q) \ {Head(q)} BY <1>4 DEF Members
<1>6. Once(r)
  <2>1. ASSUME NEW i \in DOMAIN r, NEW j \in DOMAIN r, r[i] = r[j] PROVE i = j
    <3>1. i + 1 = j + 1 BY <1>2, <2>1 DEF Placed, Once
    <3> QED BY <1>2, <3>1
  <2> QED BY <2>1 DEF Once
<1>7. Head(q) \notin Members(p) \cup Members(f) BY <1>3 DEF Placed, Disjoint
<1>8. \A x \in DOMAIN a : a[x] # Head(q) BY <1>3 DEF Placed
<1>9. \A x, y \in DOMAIN b : b[x] = b[y] => x = y BY <1>1, <1>8 DEF Placed
<1>10. \A x \in DOMAIN b : b[x] \notin Members(p) \cup Members(f) \cup Members(r)
  BY <1>1, <1>5, <1>7 DEF Placed
<1>11. Disjoint(p, r) /\ Disjoint(f, r) BY <1>5 DEF Placed, Disjoint
<1>12. Placed(p, f, r, b) BY <1>6, <1>9, <1>10, <1>11 DEF Placed
<1> QED BY <1>12 DEF b, r

LEMMA InitPlace == ASSUME Init PROVE PlaceInv
<1>1. SUFFICES ASSUME NEW k \in Kinds PROVE PlaceOf(k) BY DEF PlaceInv
<1>2. pending[k] = All[k] /\ pendingFailed[k] = <<>> /\ scheduled[k] = <<>>
      /\ assigned[k] = <<>>
  BY DEF Init
<1>3. Once(All[k]) BY DistinctAssumption DEF Once
<1> QED BY <1>2, <1>3 DEF PlaceOf, Placed, Once, Disjoint, Members

(* A report releases the container of the task it is about.                 *)
LEMMA StatusPlace ==
  ASSUME TypeInv, PlaceInv, NEW s,
         ContainerSucceeded(s) \/ \E k \in Kinds : TaskKilled(k, s)
  PROVE  PlaceInv'
<1> USE DEF TypeInv
<1> DEFINE c == s.container
<1>1. UNCHANGED <<pending, scheduled, restarts>>
  BY DEF ContainerSucceeded, TaskKilled
<1>2. SUFFICES ASSUME restarts = 0, NEW k \in Kinds PROVE PlaceOf(k)'
  BY <1>1 DEF PlaceInv
<1>3. /\ pending[k] \in Seq(Tasks) /\ pendingFailed[k] \in Seq(Tasks)
      /\ scheduled[k] \in Seq(Tasks)
      /\ \A d \in DOMAIN assigned[k] : assigned[k][d] \in Tasks
  BY DEF ListTypes, AssignedTypes
<1>4. PlaceOf(k) BY <1>2 DEF PlaceInv
<1>5. CASE assigned'[k] = assigned[k] /\ pendingFailed'[k] = pendingFailed[k]
  BY <1>1, <1>4, <1>5 DEF PlaceOf
<1>6. CASE c \in DOMAIN assigned[k] /\ assigned'[k] = Without(assigned[k], c)
           /\ pendingFailed'[k] \in {pendingFailed[k],
                                     Append(pendingFailed[k], assigned[k][c])}
  <2> HIDE DEF c
  <2> QED BY <1>1, <1>3, <1>4, <1>6, PlacedEnd DEF PlaceOf
<1>7. CASE ContainerSucceeded(s)
  <2>1. /\ k \in Owners(c) => assigned'[k] = Without(assigned[k], c)
        /\ k \notin Owners(c) => assigned'[k] = assigned[k]
        /\ pendingFailed' = pendingFailed
    BY <1>7 DEF ContainerSucceeded, Release
  <2> QED BY <1>5, <1>6, <2>1 DEF Owners
<1>8. ASSUME NEW j \in Kinds, TaskKilled(j, s) PROVE PlaceOf(k)'
  <2>1. CASE j = k
    BY <1>5, <1>6, <1>8, <2>1
       DEF TaskKilled, Release, Owners, ListTypes, AssignedTypes
  <2>2. CASE j # k
    BY <1>5, <1>8, <2>2, KilledTasks DEF TaskKilled, ListTypes
  <2> QED BY <2>1, <2>2
<1> QED BY <1>7, <1>8

LEMMA LaunchPlace ==
  ASSUME TypeInv, UsedInv, PlaceInv, Launch PROVE PlaceInv'
<1> DEFINE c == Head(Taken)
<1>1. UNCHANGED <<pending, pendingFailed, restarts>> BY DEF Launch
<1>2. SUFFICES ASSUME restarts = 0, NEW k \in Kinds PROVE PlaceOf(k)'
  BY <1>1 DEF PlaceInv
<1>3. PlaceOf(k) BY <1>2 DEF PlaceInv
<1>4. Taken # <<>> /\ Taken = response.allocated
  BY LaunchTasks, LineTypes DEF Launch, TypeInv, AnswerInv
<1>5. c \notin DOMAIN assigned[k] BY <1>4, HeadUnused DEF Used, Assigned
<1>6. /\ assigned'[k] = IF k \in Waiting THEN Put(assigned[k], c, Head(scheduled[k]))
                                         ELSE assigned[k]
      /\ scheduled'[k] = IF k \in Waiting THEN Tail(scheduled[k]) ELSE scheduled[k]
  BY <1>4 DEF Launch
<1>7. scheduled[k] \in Seq(Tasks) /\ (k \in Waiting => scheduled[k] # <<>>)
  BY DEF TypeInv, ListTypes, Waiting
<1> HIDE DEF c
<1> QED BY <1>1, <1>3, <1>5, <1>6, <1>7, PlacedLaunch DEF PlaceOf

LEMMA RequestPlace ==
  ASSUME TypeInv, PlaceInv, ExactInv, NEW j \in Kinds,
         RequestPending(j) \/ RequestFailed(j)
  PROVE  PlaceInv'
<1> USE DEF TypeInv
<1>1. /\ UNCHANGED <<assigned, restarts>> /\ pc = "middle"
  BY DEF RequestPending, RequestFailed, Request, Heartbeat
<1>2. SUFFICES ASSUME restarts = 0, NEW k \in Kinds PROVE PlaceOf(k)'
  BY <1>1 DEF PlaceInv
<1>3. PlaceOf(k) BY <1>2 DEF PlaceInv
<1>4. CASE k # j
  <2>1. /\ scheduled'[k] = scheduled[k] /\ pending'[k] = pending[k]
        /\ pendingFailed'[k] = pendingFailed[k]
    BY <1>4 DEF RequestPending, RequestFailed, Request, ListTypes
  <2> QED BY <1>1, <1>3, <2>1 DEF PlaceOf
<1>5. CASE k = j
  <2>1. scheduled[k] = <<>>
    BY <1>1, <1>2, <1>5
       DEF ExactInv, PendingFirst, RequestPending, RequestFailed, MayRequest,
           MayRequestFailed
  <2>2. pending[k] \in Seq(Tasks) /\ pendingFailed[k] \in Seq(Tasks) BY DEF ListTypes
  <2>3. CASE RequestPending(j)
    <3>1. scheduled'[k] = scheduled[k] \o pending[k]
      BY <1>5, <2>3 DEF RequestPending, Request, ListTypes
    <3>2. scheduled'[k] = pending[k] BY <2>1, <2>2, <3>1
    <3>3. pending'[k] = <<>> /\ pendingFailed'[k] = pendingFailed[k]
      BY <1>5, <2>3 DEF RequestPending, ListTypes
    <3> QED BY <1>1, <1>3, <2>1, <3>2, <3>3, PlacedRequest DEF PlaceOf
  <2>4. CASE RequestFailed(j)
    <3>1. scheduled'[k] = scheduled[k] \o pendingFailed[k]
      BY <1>5, <2>4 DEF RequestFailed, Request, ListTypes
    <3>2. scheduled'[k] = pendingFailed[k] BY <2>1, <2>2, <3>1
    <3>3. pendingFailed'[k] = <<>> /\ pending'[k] = pending[k]
      BY <1>5, <2>4 DEF RequestFailed, ListTypes
    <3> QED BY <1>1, <1>3, <2>1, <3>2, <3>3, PlacedRequest DEF PlaceOf
  <2> QED BY <2>3, <2>4
<1> QED BY <1>4, <1>5

LEMMA PlaceStep ==
  ASSUME TypeInv, UsedInv, ExactInv, PlaceInv, [Next]_vars PROVE PlaceInv'
<1>1. CASE \/ FirstStep \/ StartAM \/ PollForAM \/ TakeResponse \/ CheckFinished
           \/ ResponseProcessed \/ RequestNothing \/ CheckStop \/ RMStep
           \/ UNCHANGED vars
  <2>1. UNCHANGED listVars /\ restarts' = restarts BY <1>1, ListlessSteps
  <2> QED BY <2>1 DEF listVars, PlaceInv, PlaceOf
<1>2. CASE ProcessStatus
  <2>1. PICK s \in response.completed :
          \/ ContainerSucceeded(s) \/ \E k \in Kinds : TaskKilled(k, s)
          \/ Restart(s)
    BY <1>2, StatusCases
  <2>2. CASE Restart(s) BY <2>2, RestartCounted DEF PlaceInv
  <2> QED BY <2>1, <2>2, StatusPlace
<1>3. CASE LastStep
  <2>1. ASSUME NEW k \in Kinds PROVE PlaceOf(k)'
    BY <1>3, PlacedNowhere DEF LastStep, PlaceOf
  <2> QED BY <2>1 DEF PlaceInv
<1> QED BY <1>1, <1>2, <1>3, LaunchPlace, RequestPlace DEF Next, AMStep

(* Two lists without a common member, one after the other.                  *)
LEMMA OnceAfterOnce ==
  ASSUME NEW p \in Seq(Tasks), NEW q \in Seq(Tasks), Once(p), Once(q), Disjoint(p, q)
  PROVE  /\ p \o q \in Seq(Tasks) /\ Once(p \o q)
         /\ Members(p \o q) = Members(p) \cup Members(q)
<1> DEFINE w == p \o q
<1>1. w \in Seq(Tasks) /\ Len(p) \in Nat /\ Len(q) \in Nat
  BY ConcatProperties, LenProperties
<1>2. /\ DOMAIN w = 1..(Len(p) + Len(q))
      /\ DOMAIN p = 1..Len(p) /\ DOMAIN q = 1..Len(q)
      /\ \A i \in 1..(Len(p) + Len(q)) :
            w[i] = IF i <= Len(p) THEN p[i] ELSE q[i - Len(p)]
  BY <1>1, ConcatProperties, LenProperties
<1> HIDE DEF w
<1>3. \A i \in DOMAIN w : \/ i \in DOMAIN p /\ w[i] = p[i]
                          \/ i - Len(p) \in DOMAIN q /\ w[i] = q[i - Len(p)]
  BY <1>1, <1>2
<1>4. Once(w)
  <2>1. ASSUME NEW i \in DOMAIN w, NEW j \in DOMAIN w, w[i] = w[j] PROVE i = j
    <3>1. CASE i \in DOMAIN p /\ w[i] = p[i] /\ j \in DOMAIN p /\ w[j] = p[j]
      BY <2>1, <3>1 DEF Once
    <3>2. CASE /\ i - Len(p) \in DOMAIN q /\ w[i] = q[i - Len(p)]
               /\ j - Len(p) \in DOMAIN q /\ w[j] = q[j - Len(p)]
      <4>1. i - Len(p) = j - Len(p) BY <2>1, <3>2 DEF Once
      <4>2. i \in Int /\ j \in Int BY <1>1, <1>2
      <4> QED BY <1>1, <4>1, <4>2
    <3> QED BY <1>3, <2>1, <3>1, <3>2 DEF Disjoint, Members
  <2> QED BY <2>1 DEF Once
<1>5. Members(w) \subseteq Members(p) \cup Members(q) BY <1>3 DEF Members
<1>6. Members(p) \subseteq Members(w)
  <2>1. \A i \in DOMAIN p : i \in DOMAIN w /\ w[i] = p[i] BY <1>1, <1>2
  <2> QED BY <2>1 DEF Members
<1>7. Members(q) \subseteq Members(w)
  <2>1. \A i \in DOMAIN q : i + Len(p) \in DOMAIN w /\ w[i + Len(p)] = q[i]
    BY <1>1, <1>2
  <2> QED BY <2>1 DEF Members
<1> QED BY <1>1, <1>4, <1>5, <1>6, <1>7 DEF w

LEMMA PlaceMeans == ASSUME TypeInv, PlaceInv PROVE OnePlace
<1>1. SUFFICES ASSUME restarts = 0, NEW k \in Kinds
      PROVE  LET queued == pending[k] \o pendingFailed[k] \o scheduled[k] IN
             /\ Once(queued)
             /\ \A c, d \in DOMAIN assigned[k] :
                   assigned[k][c] = assigned[k][d] => c = d
             /\ \A i \in DOMAIN queued, c \in DOMAIN assigned[k] :
                   queued[i] # assigned[k][c]
  BY DEF OnePlace, Once
<1> DEFINE first == pending[k] \o pendingFailed[k]
           queued == first \o scheduled[k]
<1>2. PlaceOf(k) BY <1>1 DEF PlaceInv
<1>3. pending[k] \in Seq(Tasks) /\ pendingFailed[k] \in Seq(Tasks)
      /\ scheduled[k] \in Seq(Tasks)
  BY DEF TypeInv, ListTypes
<1>4. /\ first \in Seq(Tasks) /\ Once(first)
      /\ Members(first) = Members(pending[k]) \cup Members(pendingFailed[k])
  BY <1>2, <1>3, OnceAfterOnce DEF PlaceOf, Placed
<1> HIDE DEF first
<1>5. Disjoint(first, scheduled[k])
  BY <1>2, <1>4 DEF PlaceOf, Placed, Disjoint
<1>6. /\ Once(queued) /\ Members(queued) = Members(first) \cup Members(scheduled[k])
  BY <1>2, <1>3, <1>4, <1>5, OnceAfterOnce DEF PlaceOf, Placed
<1> HIDE DEF queued
<1>7. \A i \in DOMAIN queued : queued[i] \in Members(queued) BY DEF Members
<1>8. /\ \A c, d \in DOMAIN assigned[k] : assigned[k][c] = assigned[k][d] => c = d
      /\ \A i \in DOMAIN queued, c \in DOMAIN assigned[k] : queued[i] # assigned[k][c]
  BY <1>2, <1>4, <1>6, <1>7 DEF PlaceOf, Placed
<1> QED BY <1>6, <1>8 DEF queued, first

(* Until a restart no task is in two lists, twice in one, or in a list while *)
(* a container runs it: a killed task comes back once.                      *)
THEOREM TasksStayApart == Spec => []OnePlace
<1>1. TypeInv /\ UsedInv /\ ExactInv /\ PlaceInv /\ [Next]_vars => PlaceInv'
  BY PlaceStep
<1>2. Init => PlaceInv BY InitPlace
<1>3. TypeInv /\ PlaceInv => OnePlace BY PlaceMeans
<1> QED BY <1>1, <1>2, <1>3, ExactInvariant, PTL DEF Spec
=============================================================================
