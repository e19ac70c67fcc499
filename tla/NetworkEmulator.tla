--------------------------- MODULE NetworkEmulator ---------------------------
(***************************************************************************)
(* The network emulator: the RPC thread with the handlers that change      *)
(* state (start_emulation, transmit_n_bytes and the shutdown a signal      *)
(* asks for) over the process manager.  The RPC server handles one call at *)
(* a time, since nothing in a handler yields to gevent; the polling thread *)
(* and the workers run beside it.                                          *)
(***************************************************************************)
EXTENDS ProcessManager

CONSTANTS
    MaxStarts,      \* bound: start_emulation calls (not a limit of the code)
    NoProcess       \* no process object at hand

ASSUME BoundAssumption == MaxStarts \in Nat /\ NoProcess \notin Processes

VARIABLES
    rpc,        \* what the RPC thread does next
    caller,     \* who called __reset: "start" (start_emulation) or "stop"
    starting,   \* the process start_process is registering
    nodesLeft,  \* nodes transport_api.init has yet to initialise
    killsLeft,  \* workers __kill_all_processes has yet to visit
    usable,     \* the experiment runs and has the transport binaries
    replied,    \* transmissions whose id was returned to the client
    starts      \* start_emulation calls so far

callVars == <<caller, replied, starts>>
initVars == <<starting, nodesLeft, killsLeft>>
rpcVars == <<rpc, callVars, initVars, usable>>
vars == <<pmVars, rpcVars>>

(* Where the RPC thread is inside __reset, from the stop of the polling     *)
(* thread to the point where a new one may be started.                      *)
AfterJoin == {"kill", "renew", "clean", "setup", "startThread"}

TypeOK ==
    /\ PMTypeOK
    /\ rpc \in AfterJoin \cup
         {"idle", "stop", "join", "init", "register", "reply", "down"}
    /\ caller \in {"start", "stop"}
    /\ starting \in Processes \cup {NoProcess}
    /\ rpc = "register" => starting \in Processes
    /\ rpc = "reply" => starting \in Transmissions
    /\ nodesLeft \subseteq Nodes
    /\ killsLeft \subseteq Workers
    /\ usable \in BOOLEAN
    /\ replied \subseteq Transmissions
    /\ starts \in 0..MaxStarts

Init ==
    /\ PMInit
    /\ rpc = "idle"
    /\ caller = "start"
    /\ starting = NoProcess
    /\ nodesLeft = {}
    /\ killsLeft = {}
    /\ usable = FALSE
    /\ replied = {}
    /\ starts = 0

-----------------------------------------------------------------------------
(* Calls that arrive at an idle RPC thread. *)

(* start_emulation resets first.  Resetting the nodes changes nothing:      *)
(* _reset_node hands ProcessManager.kill the Boolean that start_process     *)
(* returned, and kill looks it up among the workers.                        *)
StartEmulation ==
    /\ rpc = "idle" /\ starts < MaxStarts
    /\ starts' = starts + 1
    /\ caller' = "start"
    /\ rpc' = "stop"
    /\ UNCHANGED <<pmVars, initVars, usable, replied>>

Shutdown ==
    /\ rpc = "idle"
    /\ caller' = "stop"
    /\ rpc' = "stop"
    /\ UNCHANGED <<pmVars, initVars, usable, replied, starts>>

(* transmit_n_bytes up to the return of proc.start().  A process that does  *)
(* not start gives -1 and changes nothing.                                  *)
TransmitNBytes(t) ==
    /\ rpc = "idle" /\ usable
    /\ Launch(t)
    /\ starting' = t
    /\ rpc' = "register"
    /\ UNCHANGED <<callVars, nodesLeft, killsLeft, usable>>

-----------------------------------------------------------------------------
(* Variants of the handlers' steps, each with one plausible mistake. *)

(* reset() does not kill. *)
JoinThenRenew ==
    /\ rpc = "join" /\ pm \in Dead
    /\ rpc' = "renew"
    /\ UNCHANGED <<pmVars, callVars, initVars, usable>>

(* __kill_all_processes leaves its loop after the first worker. *)
KillOneWorker(w) ==
    /\ rpc = "kill"
    /\ w \in killsLeft
    /\ KillReturnsZero(w)
    /\ Kill(w)
    /\ killsLeft' = killsLeft \ {w}
    /\ rpc' = "renew"
    /\ UNCHANGED <<callVars, starting, nodesLeft, usable>>

-----------------------------------------------------------------------------
(* Inside the handlers. *)

StopThread ==
    /\ rpc = "stop"
    /\ SetStop
    /\ rpc' = "join"
    /\ UNCHANGED <<callVars, initVars, usable>>

Join ==
    /\ rpc = "join"
    /\ pm \in Dead
    /\ killsLeft' = listed
    /\ rpc' = IF listed = {} THEN "renew" ELSE "kill"
    /\ UNCHANGED <<pmVars, callVars, starting, nodesLeft, usable>>

KillWorker(w) ==
    /\ rpc = "kill"
    /\ w \in killsLeft
    /\ KillReturnsZero(w)
    /\ Kill(w)
    /\ killsLeft' = killsLeft \ {w}
    /\ rpc' = IF killsLeft = {w} THEN "renew" ELSE "kill"
    /\ UNCHANGED <<callVars, starting, nodesLeft, usable>>

(* CalledProcessError leaves __kill_all_processes and every caller, also    *)
(* when ssh failed, before or after the kill.  From the signal handler it   *)
(* ends the emulator or is swallowed by the hub.                            *)
KillRaises(w) ==
    /\ rpc = "kill"
    /\ w \in killsLeft
    /\ \/ (KillReturnsError(w) \/ w \in Flaky) /\ Kill(w)
       \/ w \in Flaky /\ UNCHANGED pmVars
    /\ killsLeft' = {}
    /\ rpc' \in IF caller = "start" THEN {"idle"} ELSE {"idle", "down"}
    /\ UNCHANGED <<callVars, starting, nodesLeft, usable>>

RenewThread ==
    /\ rpc = "renew"
    /\ Renew
    /\ rpc' = "clean"
    /\ UNCHANGED <<callVars, initVars, usable>>

(* The end of __reset: start_emulation also empties the working directories, *)
(* where an error is ignored; the experiment is stopped.                     *)
Clean ==
    /\ rpc = "clean"
    /\ usable' = FALSE
    /\ IF caller = "start"
       THEN rpc' = "setup" /\ \E ws \in SUBSET Workers : RemoveFiles(ws)
       ELSE rpc' = "down" /\ UNCHANGED pmVars
    /\ UNCHANGED <<callVars, initVars>>

(* An unknown topology, and an error of MaxiNet or of the copy of the       *)
(* binaries, end start_emulation here.                                      *)
Setup ==
    /\ rpc = "setup"
    /\ \/ rpc' = "startThread" /\ usable' = TRUE
       \/ rpc' = "idle" /\ UNCHANGED usable
    /\ UNCHANGED <<pmVars, callVars, initVars>>

StartPolling ==
    /\ rpc = "startThread"
    /\ StartThread
    /\ nodesLeft' = Nodes
    /\ rpc' = "init"
    /\ UNCHANGED <<callVars, starting, killsLeft, usable>>

(* transport_api.init: one receiver per node; one that does not start is    *)
(* passed over.                                                             *)
InitNode(r) ==
    /\ rpc = "init"
    /\ HostOf[r] \in nodesLeft
    /\ Launch(r)
    /\ nodesLeft' = nodesLeft \ {HostOf[r]}
    /\ starting' = r
    /\ rpc' = "register"
    /\ UNCHANGED <<callVars, killsLeft, usable>>

SkipNode(n) ==
    /\ rpc = "init"
    /\ n \in nodesLeft
    /\ nodesLeft' = nodesLeft \ {n}
    /\ rpc' = IF nodesLeft = {n} THEN "idle" ELSE "init"
    /\ UNCHANGED <<pmVars, callVars, starting, killsLeft, usable>>

RegisterProcess ==
    /\ rpc = "register"
    /\ Register(starting)
    /\ rpc' = CASE starting \in Transmissions -> "reply"
                [] starting \in Receivers /\ nodesLeft = {} -> "idle"
                [] OTHER -> "init"
    /\ UNCHANGED <<callVars, initVars, usable>>

Reply ==
    /\ rpc = "reply"
    /\ replied' = replied \cup {starting}
    /\ rpc' = "idle"
    /\ UNCHANGED <<pmVars, caller, initVars, usable, starts>>

Handle ==
    \/ StopThread \/ Join \/ RenewThread \/ Clean \/ Setup \/ StartPolling
    \/ RegisterProcess \/ Reply
    \/ \E w \in Workers : KillWorker(w) \/ KillRaises(w)
    \/ \E r \in Receivers : InitNode(r)
    \/ \E n \in Nodes : SkipNode(n)

Call ==
    \/ StartEmulation \/ Shutdown
    \/ \E t \in Transmissions : TransmitNBytes(t)

ThreadStep == Poll /\ UNCHANGED rpcVars
WrapperStep(p) == Daemonize(p) /\ UNCHANGED rpcVars
ProcessEnds(p) == (\E k \in Outcomes : Exit(p, k)) /\ UNCHANGED rpcVars

Terminated == rpc = "down" /\ UNCHANGED vars

Next ==
    \/ Call \/ Handle \/ ThreadStep \/ Terminated
    \/ \E p \in Processes : WrapperStep(p) \/ ProcessEnds(p)

Spec == Init /\ [][Next]_vars

(* The threads and the wrappers are scheduled by their systems; nothing     *)
(* obliges a client to call, or a transmission to end.                      *)
Fairness ==
    /\ WF_vars(Handle)
    /\ WF_vars(ThreadStep)
    /\ \A p \in Processes : WF_vars(WrapperStep(p))

FairSpec == Spec /\ Fairness

-----------------------------------------------------------------------------
(* Safety. *)

(* The result of a transmission is published at most once, whatever the     *)
(* polling thread reads again after a rotation, a reset or a restart, and   *)
(* it is how the process ended: no report comes before the end, and success *)
(* is never told of a killed process.                                       *)
OneTrueReport ==
    \A t \in Transmissions : published[t] # <<>> =>
        published[t] = <<outcome[t]>> /\ outcome[t] \in Outcomes

(* From the join of the polling thread in reset to the start of its         *)
(* successor no thread polls: files are removed and the process list is     *)
(* replaced without a lock because nobody else is there.                    *)
ResetRunsAlone == rpc \in AfterJoin => pm \in Dead

(* The list of processes is dropped only when none of them is alive: a kill *)
(* that fails on one worker never leads to a forgotten, running process.    *)
DropsOnlyDead == rpc = "renew" => \A p \in running : life[p] # "running"

(* start_emulation reaches the start of the thread with a Thread object     *)
(* that was never started ("threads can only be started once").             *)
ThreadIsFresh == rpc = "startThread" => pm = "new"

(* The inductive form of OneTrueReport.  What the thread has in hand is how *)
(* the processes ended; a reported process is off the list for good, since  *)
(* only start_process lists one, once, before anything is reported of it.   *)
EndedHasOutcome ==
    \A p \in Processes :
        outcome[p] = "none" <=> life[p] \in {"unstarted", "running"}
ReapedMatches == \A k \in Outcomes : \A p \in reaped[k] : outcome[p] = k
RegistersNew ==
    rpc = "register" =>
        /\ starting \notin running
        /\ life[starting] # "unstarted"
        /\ published[starting] = <<>>
ReportedIsOff ==
    \A p \in Processes : published[p] # <<>> =>
        /\ p \notin running
        /\ published[p] = <<outcome[p]>>
        /\ outcome[p] \in Outcomes
ListedIsStarted == \A p \in running : life[p] # "unstarted"

ReportInv ==
    /\ TypeOK /\ EndedHasOutcome /\ ReapedMatches
    /\ RegistersNew /\ ReportedIsOff /\ ListedIsStarted

(* The inductive form of DropsOnlyDead and ThreadIsFresh: nothing moves on  *)
(* the process list while reset runs, and a worker that was visited has no  *)
(* listed process alive.                                                    *)
ResetInv ==
    /\ ResetRunsAlone
    /\ rpc \in {"clean", "setup", "startThread"} => pm = "new"
    /\ \A p \in running : Worker(p) \in listed
    /\ rpc = "kill" => \A p \in running :
                          life[p] = "running" => Worker(p) \in killsLeft
    /\ DropsOnlyDead

(* A log file that is missing, which ends the polling thread, takes a       *)
(* process of an earlier emulation: the first one never loses its thread    *)
(* but to a worker that cannot be reached.                                  *)
CrashNeedsRestart == pm = "crashed" => starts >= 2 \/ at \in Flaky

(* A pid the polling thread can still find or has in hand. *)
InSight(p) ==
    /\ life[p] = "recorded"
    /\ \/ file[p] = "current"
       \/ file[p] = "rotated" /\ at = Worker(p) /\ pm = ReadPc(outcome[p])
       \/ p \in reaped[outcome[p]]

(* The cat of the file that the pid of p was moved to fails. *)
CatFails(p) ==
    at = Worker(p) /\ pm = ReadPc(outcome[p]) /\ CommandFails(outcome[p])

(* While a process is listed, a pid the thread can find stays findable:     *)
(* rotating the pid files loses no line that was complete before.  The one  *)
(* way to lose it is a cat of its file that fails after the mv.             *)
NoLineDropped ==
    [][\A p \in running \cap running' :
         InSight(p) => InSight(p)' \/ CatFails(p)]_vars

(* A listed transmission leaves the list only by the publication of its     *)
(* result, by a reset, or by the thread's unlocked initialisation.          *)
LeavesByReport ==
    [][\A t \in (running \ running') \cap Transmissions :
         \/ Len(published'[t]) = Len(published[t]) + 1
         \/ rpc = "renew"
         \/ pm = "init"]_vars

(* Liveness: the result of a listed transmission whose pid line is in the   *)
(* pid file of a polled worker that can be reached is published, unless the *)
(* thread is told to stop or dies; that other workers cannot be reached     *)
(* does not keep the thread from it.                                        *)
FoundIsPublished ==
    \A t \in Transmissions :
        (/\ t \in running /\ pm \in Polling /\ Worker(t) \notin Flaky
         /\ life[t] = "recorded" /\ file[t] = "current")
        ~> (published[t] # <<>> \/ stop \/ pm = "crashed")

(* Liveness: a reset that has seen its stop event taken up gets past the    *)
(* join, whatever the polling thread was doing.                             *)
JoinEnds == (rpc = "join" /\ stop /\ pm # "begin") ~> (rpc # "join")

-----------------------------------------------------------------------------
(* The abstract service, as the emulator implements it. *)

stageBar ==
    [t \in Transmissions |-> CASE life[t] = "unstarted" -> "unsent"
                               [] life[t] = "running"   -> "sent"
                               [] OTHER                 -> "over"]
resultBar == [t \in Transmissions |-> outcome[t]]
reportsBar == [t \in Transmissions |-> published[t]]

Service == INSTANCE TransmissionService
             WITH stage <- stageBar, result <- resultBar, reports <- reportsBar

(* Across resets, kills and lost pids, a client sees the abstract service:  *)
(* every published result is the first for its transmission, follows its    *)
(* end and tells how it ended.                                              *)
ImplementsService == Service!Spec

-----------------------------------------------------------------------------
(* What the comments promise. *)

(* transmit_n_bytes: "The result will be published asynchronously": an      *)
(* accepted transmission whose process has ended and left its pid is        *)
(* reported, unless the manager is stopped.                                 *)
AcceptedIsPublished ==
    \A t \in Transmissions :
        (t \in replied /\ life[t] = "recorded")
        ~> (published[t] # <<>> \/ stop \/ rpc = "down")
=============================================================================
