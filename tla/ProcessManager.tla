--------------------------- MODULE ProcessManager ---------------------------
(***************************************************************************)
(* The process manager of the network emulator and what it watches: the    *)
(* daemonized processes on the MaxiNet workers and the pid files in which  *)
(* they leave their outcome.  The polling thread is modelled one remote    *)
(* command at a time, because a process may end, and its wrapper may open  *)
(* or write a pid file, between any two of them.  What the RPC thread does *)
(* with the process manager is in NetworkEmulator.                         *)
(*                                                                         *)
(* A process object is known by its identity; it stands for its pid too    *)
(* (no pid is used twice, so a pid never names two processes).  Where a    *)
(* process runs and whether it is a receiver or a transmission is fixed by *)
(* its identity: a client picks any unstarted process that fits.           *)
(***************************************************************************)
EXTENDS Naturals, Sequences, FiniteSets

CONSTANTS
    Receivers,      \* ReceiverProcess objects
    Transmissions,  \* TransmissionProcess objects
    Nodes,          \* emulated MaxiNet hosts
    Workers,        \* MaxiNet worker machines
    HostOf,         \* the node a process is started on
    WorkerOf,       \* the worker that emulates a node
    Flaky           \* workers a remote command may fail to reach

Processes == Receivers \cup Transmissions

ASSUME ProcessAssumption == Receivers \cap Transmissions = {}
ASSUME PlacementAssumption ==
    /\ HostOf \in [Processes -> Nodes]
    /\ WorkerOf \in [Nodes -> Workers]
    /\ Workers # {} /\ Nodes # {}
    /\ Flaky \subseteq Workers

SUCCESSFUL == "SUCCESSFUL"
FAILED == "FAILED"
Outcomes == {SUCCESSFUL, FAILED}

VARIABLES
    life,       \* the remote process and its daemonize wrapper
    outcome,    \* how the process ended, "none" while it has not
    file,       \* the inode the wrapper's pid file handle refers to
    logged,     \* processes whose log file is in the working directory
    listed,     \* the keys of __running_processes
    running,    \* the processes in the dictionaries of __running_processes
    stop,       \* the __stop event
    pm,         \* what the polling thread does next
    todo,       \* workers left in the thread's current loop over the cluster
    at,         \* the worker the thread is polling
    reaped,     \* successful_processes and failed_processes of the iteration
    published   \* results published for each process, in order

procVars == <<life, outcome>>
diskVars == <<file, logged>>
dictVars == <<listed, running>>
loopVars == <<todo, at, reaped>>
pmVars == <<procVars, diskVars, dictVars, loopVars, stop, pm, published>>

Worker(p) == WorkerOf[HostOf[p]]
On(w) == {p \in Processes : Worker(p) = w}

(* "new" is a Thread object that was not started; "ended" and "crashed" are *)
(* threads that left run(), by the stop event and by an exception.          *)
Polling == {"check", "next", "rotateSuccessful", "readSuccessful",
            "rotateFailed", "readFailed", "logs", "report"}
Dead == {"new", "ended", "crashed"}

RotatePc(k) == IF k = SUCCESSFUL THEN "rotateSuccessful" ELSE "rotateFailed"
ReadPc(k) == IF k = SUCCESSFUL THEN "readSuccessful" ELSE "readFailed"
AfterRead(k) == IF k = SUCCESSFUL THEN "rotateFailed" ELSE "logs"

PMTypeOK ==
    /\ life \in [Processes ->
                    {"unstarted", "running", "exited", "opened", "recorded"}]
    /\ outcome \in [Processes -> Outcomes \cup {"none"}]
    /\ file \in [Processes -> {"none", "current", "rotated", "gone"}]
    /\ logged \subseteq Processes
    /\ listed \subseteq Workers
    /\ running \subseteq Processes
    /\ stop \in BOOLEAN
    /\ pm \in Polling \cup Dead \cup {"begin", "init"}
    /\ todo \subseteq Workers
    /\ at \in Workers
    /\ reaped \in [Outcomes -> SUBSET Processes]
    /\ published \in [Processes -> Seq(Outcomes)]

PMInit ==
    /\ life = [p \in Processes |-> "unstarted"]
    /\ outcome = [p \in Processes |-> "none"]
    /\ file = [p \in Processes |-> "none"]
    /\ logged = {}
    /\ listed = {}
    /\ running = {}
    /\ stop = FALSE
    /\ pm = "new"
    /\ todo = {}
    /\ at \in Workers
    /\ reaped = [k \in Outcomes |-> {}]
    /\ published = [p \in Processes |-> <<>>]

-----------------------------------------------------------------------------
(* Variants of the operations below, each with one plausible mistake: a      *)
(* property that checks an operation has to notice its variant.              *)

(* The stop event is not looked at. *)
CheckStopNever ==
    /\ pm = "check" /\ pm' = "next" /\ todo' = Workers
    /\ UNCHANGED <<procVars, diskVars, dictVars, stop, at, reaped, published>>

(* The pid file is removed where it should be moved. *)
RotateByRemoving(k) ==
    LET current == {p \in On(at) : outcome[p] = k /\ file[p] = "current"}
    IN  /\ pm = RotatePc(k)
        /\ file' = [p \in Processes |->
                      IF p \in current THEN "gone" ELSE file[p]]
        /\ pm' = IF current = {} THEN AfterRead(k) ELSE ReadPc(k)
        /\ UNCHANGED <<procVars, logged, dictVars, stop, loopVars, published>>

(* The content of pids_failed is thrown away. *)
ReadSuccessfulPids(k) ==
    /\ pm = ReadPc(k)
    /\ reaped' = [reaped EXCEPT ![k] = {p \in On(at) :
           /\ k = SUCCESSFUL /\ outcome[p] = k
           /\ file[p] = "rotated" /\ life[p] = "recorded"}]
    /\ pm' = AfterRead(k)
    /\ UNCHANGED <<procVars, diskVars, dictVars, stop, todo, at, published>>

(* Reported processes stay listed, and the pid lists are made only once. *)
ReportKeeping ==
    /\ pm = "report"
    /\ published' = [p \in Processes |->
         IF p \in running \cap Transmissions /\ Len(published[p]) < 2
            /\ p \in reaped[SUCCESSFUL] \cup reaped[FAILED]
         THEN Append(published[p], outcome[p]) ELSE published[p]]
    /\ pm' = IF todo = {} THEN "check" ELSE "next"
    /\ UNCHANGED <<procVars, diskVars, dictVars, stop, loopVars>>

(* Every result is told as a success. *)
ReportAsSuccess ==
    LET known == running \cap (reaped[SUCCESSFUL] \cup reaped[FAILED])
    IN  /\ pm = "report"
        /\ published' = [p \in Processes |->
                IF p \in known \cap Transmissions
                THEN Append(published[p], SUCCESSFUL) ELSE published[p]]
        /\ running' = running \ known
        /\ reaped' = [k \in Outcomes |-> {}]
        /\ pm' = IF todo = {} THEN "check" ELSE "next"
        /\ UNCHANGED <<procVars, diskVars, listed, stop, todo, at>>

(* A failed process is taken off the list without its callback. *)
ReportSuccesses ==
    LET known == running \cap (reaped[SUCCESSFUL] \cup reaped[FAILED])
    IN  /\ pm = "report"
        /\ published' = [p \in Processes |->
                IF p \in running \cap Transmissions \cap reaped[SUCCESSFUL]
                THEN Append(published[p], SUCCESSFUL) ELSE published[p]]
        /\ running' = running \ known
        /\ reaped' = [k \in Outcomes |-> {}]
        /\ pm' = IF todo = {} THEN "check" ELSE "next"
        /\ UNCHANGED <<procVars, diskVars, listed, stop, todo, at>>

(* The wrapper keeps no log. *)
LaunchWithoutLog(p) ==
    /\ life[p] = "unstarted"
    /\ life' = [life EXCEPT ![p] = "running"]
    /\ UNCHANGED <<outcome, diskVars, dictVars, stop, pm, loopVars, published>>

(* A killed process has an outcome of its own. *)
KillAsKilled(w) ==
    LET alive == {p \in running \cap On(w) : life[p] = "running"}
    IN  /\ life' = [p \in Processes |->
                      IF p \in alive THEN "exited" ELSE life[p]]
        /\ outcome' = [p \in Processes |->
                         IF p \in alive THEN "KILLED" ELSE outcome[p]]
        /\ UNCHANGED <<diskVars, dictVars, stop, pm, loopVars, published>>

-----------------------------------------------------------------------------
(* On a worker: the process ends by itself, then its wrapper appends the pid *)
(* to the file of the outcome.  Opening creates the file if it is missing;   *)
(* the line reaches it when the handle is closed.                            *)

Exit(p, k) ==
    /\ life[p] = "running"
    /\ life' = [life EXCEPT ![p] = "exited"]
    /\ outcome' = [outcome EXCEPT ![p] = k]
    /\ UNCHANGED <<diskVars, dictVars, stop, pm, loopVars, published>>

OpenPidFile(p) ==
    /\ life[p] = "exited"
    /\ life' = [life EXCEPT ![p] = "opened"]
    /\ file' = [file EXCEPT ![p] = "current"]
    /\ UNCHANGED <<outcome, logged, dictVars, stop, pm, loopVars, published>>

WritePid(p) ==
    /\ life[p] = "opened"
    /\ life' = [life EXCEPT ![p] = "recorded"]
    /\ UNCHANGED <<outcome, diskVars, dictVars, stop, pm, loopVars, published>>

-----------------------------------------------------------------------------
(* The polling thread. *)

ClearStop ==
    /\ pm = "begin"
    /\ stop' = FALSE
    /\ todo' = Workers
    /\ pm' = "init"
    /\ UNCHANGED <<procVars, diskVars, dictVars, at, reaped, published>>

(* __running_processes[worker] = dict(), without the lock. *)
InitWorker(w) ==
    /\ pm = "init"
    /\ w \in todo
    /\ listed' = listed \cup {w}
    /\ running' = running \ On(w)
    /\ todo' = todo \ {w}
    /\ pm' = IF todo = {w} THEN "check" ELSE "init"
    /\ UNCHANGED <<procVars, diskVars, stop, at, reaped, published>>

CheckStop ==
    /\ pm = "check"
    /\ IF stop
       THEN pm' = "ended" /\ UNCHANGED todo
       ELSE pm' = "next" /\ todo' = Workers
    /\ UNCHANGED <<procVars, diskVars, dictVars, stop, at, reaped, published>>

NextWorker(w) ==
    /\ pm = "next"
    /\ w \in todo
    /\ at' = w
    /\ todo' = todo \ {w}
    /\ pm' = "rotateSuccessful"
    /\ UNCHANGED <<procVars, diskVars, dictVars, stop, reaped, published>>

(* mv path path.0: the handles of open wrappers follow the file, and the old *)
(* path.0 is unlinked.  Without a file mv fails and nothing is read.         *)
Rotate(k) ==
    LET here == {p \in On(at) : outcome[p] = k}
        current == {p \in here : file[p] = "current"}
    IN  /\ pm = RotatePc(k)
        /\ IF current = {}
           THEN pm' = AfterRead(k) /\ UNCHANGED file
           ELSE /\ pm' = ReadPc(k)
                /\ file' = [p \in Processes |->
                              CASE p \in current -> "rotated"
                                [] p \in here /\ file[p] = "rotated" -> "gone"
                                [] OTHER -> file[p]]
        /\ UNCHANGED <<procVars, logged, dictVars, stop, loopVars, published>>

(* cat path.0: the pids whose line is there by now. *)
ReadPids(k) ==
    /\ pm = ReadPc(k)
    /\ reaped' = [reaped EXCEPT ![k] =
                    {p \in On(at) : /\ outcome[p] = k
                                    /\ file[p] = "rotated"
                                    /\ life[p] = "recorded"}]
    /\ pm' = AfterRead(k)
    /\ UNCHANGED <<procVars, diskVars, dictVars, stop, todo, at, published>>

(* ssh does not carry out the mv or the cat: nothing is read this time.  A   *)
(* file that was moved keeps its lines until the next one is moved over it.  *)
CommandFails(k) ==
    /\ at \in Flaky
    /\ pm \in {RotatePc(k), ReadPc(k)}
    /\ pm' = AfterRead(k)
    /\ UNCHANGED <<procVars, diskVars, dictVars, stop, loopVars, published>>

(* The log of every failed process is read; a missing one ends the thread. *)
FetchLogs ==
    /\ pm = "logs"
    /\ pm' = IF reaped[FAILED] \subseteq logged THEN "report" ELSE "crashed"
    /\ UNCHANGED <<procVars, diskVars, dictVars, stop, loopVars, published>>

(* Nor does the thread survive a log that ssh does not bring.               *)
LogFails ==
    /\ at \in Flaky
    /\ pm = "logs" /\ reaped[FAILED] # {}
    /\ pm' = "crashed"
    /\ UNCHANGED <<procVars, diskVars, dictVars, stop, loopVars, published>>

(* Under the lock: call_terminated for every listed pid, which is then      *)
(* removed.  Only transmissions publish; an unlisted pid is dropped.        *)
Report ==
    LET known == running \cap (reaped[SUCCESSFUL] \cup reaped[FAILED])
    IN  /\ pm = "report"
        /\ published' = [p \in Processes |->
                IF p \in known \cap Transmissions
                THEN Append(published[p], IF p \in reaped[SUCCESSFUL]
                                          THEN SUCCESSFUL ELSE FAILED)
                ELSE published[p]]
        /\ running' = running \ known
        /\ reaped' = [k \in Outcomes |-> {}]
        /\ pm' = IF todo = {} THEN "check" ELSE "next"
        /\ UNCHANGED <<procVars, diskVars, listed, stop, todo, at>>

Poll ==
    \/ ClearStop \/ CheckStop \/ FetchLogs \/ LogFails \/ Report
    \/ \E w \in Workers : InitWorker(w) \/ NextWorker(w)
    \/ \E k \in Outcomes : Rotate(k) \/ ReadPids(k) \/ CommandFails(k)

Daemonize(p) == OpenPidFile(p) \/ WritePid(p)

-----------------------------------------------------------------------------
(* What the RPC thread calls. *)

(* proc.start() returned a pid: the command runs and its log file is open. *)
Launch(p) ==
    /\ life[p] = "unstarted"
    /\ life' = [life EXCEPT ![p] = "running"]
    /\ logged' = logged \cup {p}
    /\ UNCHANGED <<outcome, file, dictVars, stop, pm, loopVars, published>>

(* The locked part of start_process. *)
Register(p) ==
    /\ listed' = listed \cup {Worker(p)}
    /\ running' = running \cup {p}
    /\ UNCHANGED <<procVars, diskVars, stop, pm, loopVars, published>>

StartThread ==
    /\ pm = "new"
    /\ pm' = "begin"
    /\ UNCHANGED <<procVars, diskVars, dictVars, stop, loopVars, published>>

SetStop ==
    /\ stop' = TRUE
    /\ UNCHANGED <<procVars, diskVars, dictVars, pm, loopVars, published>>

(* kill -9 for the processes listed on w: it reaches those that are alive. *)
Kill(w) ==
    LET alive == {p \in running \cap On(w) : life[p] = "running"}
    IN  /\ life' = [p \in Processes |->
                      IF p \in alive THEN "exited" ELSE life[p]]
        /\ outcome' = [p \in Processes |->
                         IF p \in alive THEN FAILED ELSE outcome[p]]
        /\ UNCHANGED <<diskVars, dictVars, stop, pm, loopVars, published>>

(* The exit status of that command: 0 only if it reached a process, nonzero *)
(* if it had no pid to name or named one that is dead (with dead and living *)
(* ones it depends on the kill installed on the worker).                    *)
KillReturnsZero(w) == \E p \in running \cap On(w) : life[p] = "running"
KillReturnsError(w) ==
    \/ running \cap On(w) = {}
    \/ \E p \in running \cap On(w) : life[p] # "running"

(* The rest of reset: the list is dropped and a new thread object made.  The *)
(* locals of the old thread are gone.                                        *)
Renew ==
    /\ listed' = {}
    /\ running' = {}
    /\ pm' = "new"
    /\ todo' = {}
    /\ reaped' = [k \in Outcomes |-> {}]
    /\ UNCHANGED <<procVars, diskVars, stop, at, published>>

(* rm -rf of the working directory of some workers (an error is ignored). *)
RemoveFiles(ws) ==
    /\ file' = [p \in Processes |->
                  IF Worker(p) \in ws /\ file[p] # "none" THEN "gone"
                                                          ELSE file[p]]
    /\ logged' = {p \in logged : Worker(p) \notin ws}
    /\ UNCHANGED <<procVars, dictVars, stop, pm, loopVars, published>>
=============================================================================
