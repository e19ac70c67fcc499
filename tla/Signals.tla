------------------------------- MODULE Signals -------------------------------
(***************************************************************************)
(* The network emulator under SIGTERM: Python runs the handler of a signal *)
(* in the main thread, which is the RPC thread, between any two steps of   *)
(* the handler of a call.  stop() then resets the emulator in the middle   *)
(* of start_emulation, of transmit_n_bytes or of another stop(), stops the *)
(* RPC server and gives the workers back, and the interrupted handler goes *)
(* on with what it finds.                                                  *)
(* A signal at an idle RPC thread is Shutdown of NetworkEmulator.          *)
(***************************************************************************)
EXTENDS NetworkEmulator

CONSTANT NotInterrupted     \* no handler is interrupted

VARIABLES
    saved,      \* where the interrupted handler goes on, and whose it is
    locked,     \* the interrupted handler holds __running_processes_lock
    stopped     \* stop() came to its end inside another handler

signalVars == <<saved, locked, stopped>>
allVars == <<vars, signalVars>>

Handlers == AfterJoin \cup {"stop", "join", "init", "register", "reply"}

ASSUME SignalAssumption ==
    NotInterrupted \notin [rpc : Handlers, caller : {"start", "stop"}]

SignalTypeOK ==
    /\ TypeOK
    /\ saved \in [rpc : Handlers, caller : {"start", "stop"}]
                   \cup {NotInterrupted}
    /\ locked \in BOOLEAN
    /\ stopped \in BOOLEAN

SignalInit ==
    /\ Init
    /\ saved = NotInterrupted
    /\ locked = FALSE
    /\ stopped = FALSE

-----------------------------------------------------------------------------
(* Variants of the actions below, each with one plausible mistake. *)

(* SignalTypeOK: the caller of the interrupted handler is not kept. *)
PushForgetting ==
    /\ saved = NotInterrupted /\ ~stopped
    /\ saved' = [rpc |-> rpc, caller |-> "none"]
    /\ rpc' = "stop"
    /\ caller' = "stop"
    /\ UNCHANGED <<replied, starts, initVars, usable, stopped>>

-----------------------------------------------------------------------------
(* stop() begins on top of the handler; bound: one signal interrupts at a   *)
(* time, and none after stop() came to its end.                             *)
Push ==
    /\ saved = NotInterrupted /\ ~stopped
    /\ saved' = [rpc |-> rpc, caller |-> caller]
    /\ rpc' = "stop"
    /\ caller' = "stop"
    /\ UNCHANGED <<replied, starts, initVars, usable, stopped>>

(* A signal between two steps of a handler that does not hold the lock.     *)
(* Inside Thread.join Python 2 keeps it until join returns, which is the    *)
(* next step; before join it is taken like here.                            *)
Interrupt ==
    /\ rpc \in Handlers \ {"kill"}
    /\ Push
    /\ UNCHANGED <<pmVars, locked>>

(* A signal while the handler holds the lock: in __kill_all_processes, and  *)
(* in start_process before or after the process is listed.                  *)
InterruptLocked ==
    /\ \/ rpc = "kill" /\ UNCHANGED pmVars
       \/ rpc = "register" /\ UNCHANGED pmVars
       \/ rpc = "register" /\ Register(starting)
    /\ Push
    /\ locked' = TRUE

(* The rest of stop() inside a handler: the RPC server is stopped, the      *)
(* cluster has no workers, and the interrupted handler goes on.             *)
Resume ==
    /\ rpc = "down" /\ saved # NotInterrupted
    /\ rpc' = saved.rpc
    /\ caller' = saved.caller
    /\ saved' = NotInterrupted
    /\ stopped' = TRUE
    /\ UNCHANGED <<pmVars, replied, starts, initVars, usable, locked>>

(* A kill that fails in the nested reset: the error leaves stop() and the   *)
(* interrupted handler too.                                                 *)
KillRaisesInside(w) ==
    /\ saved # NotInterrupted
    /\ KillRaises(w)
    /\ saved.caller = "start" => rpc' = "idle"
    /\ saved' = NotInterrupted
    /\ UNCHANGED <<locked, stopped>>

(* With locked, whether a reset gets as far as the stop event: before that, *)
(* _reset_node takes the lock for every node that has a receiver.  There is *)
(* none in __kill_all_processes, where the outer reset emptied the list, nor *)
(* when the first receiver is being registered.                             *)
ReachesStop ==
    \/ saved # NotInterrupted /\ saved.rpc = "kill"
    \/ starting \in Receivers /\ nodesLeft = Nodes \ {HostOf[starting]}

(* The steps of a handler, by itself, interrupting or interrupted.  The     *)
(* lock is not reentrant: with locked the nested reset waits for ever, for  *)
(* the polling thread that wants the lock to report, or for the lock.       *)
(* Without workers no experiment comes up and no receiver starts.           *)
HandleStep ==
    /\ \/ (locked => ReachesStop) /\ StopThread
       \/ RenewThread \/ Clean \/ StartPolling
       \/ RegisterProcess \/ Reply
       \/ ~locked /\ Join
       \/ Setup /\ (stopped => rpc' = "idle")
       \/ \E w \in Workers : KillWorker(w)
       \/ \E w \in Workers : saved = NotInterrupted /\ KillRaises(w)
       \/ \E r \in Receivers : ~stopped /\ InitNode(r)
       \/ \E n \in Nodes : SkipNode(n)
    /\ UNCHANGED signalVars

(* A stopped server takes no call; serve_forever returns. *)
ServeReturns ==
    /\ rpc = "idle" /\ stopped
    /\ rpc' = "down"
    /\ UNCHANGED <<pmVars, callVars, initVars, usable, signalVars>>

(* run(): the report needs the lock. *)
PollStep ==
    /\ ~stopped
    /\ pm = "report" => ~locked
    /\ ThreadStep
    /\ UNCHANGED signalVars

(* A thread that is started when the cluster has no workers: it clears the  *)
(* stop event and then only sleeps.                                         *)
PollNobody ==
    /\ stopped /\ pm = "begin"
    /\ stop' = FALSE
    /\ pm' = "check"
    /\ UNCHANGED <<procVars, diskVars, dictVars, loopVars, published, rpcVars,
                   signalVars>>

Down == rpc = "down" /\ saved = NotInterrupted /\ UNCHANGED allVars

SignalNext ==
    \/ ~stopped /\ Call /\ UNCHANGED signalVars
    \/ Interrupt \/ InterruptLocked \/ Resume \/ HandleStep \/ ServeReturns
    \/ \E w \in Workers : KillRaisesInside(w)
    \/ PollStep \/ PollNobody \/ Down
    \/ \E p \in Processes : /\ WrapperStep(p) \/ ProcessEnds(p)
                            /\ UNCHANGED signalVars

SignalSpec == SignalInit /\ [][SignalNext]_allVars

SignalFairSpec ==
    /\ SignalSpec
    /\ WF_allVars(\/ Resume \/ HandleStep \/ ServeReturns
                  \/ \E w \in Workers : KillRaisesInside(w))
    /\ WF_allVars(PollStep) /\ WF_allVars(PollNobody)
    /\ \A p \in Processes : WF_allVars(WrapperStep(p) /\ UNCHANGED signalVars)

-----------------------------------------------------------------------------
(* What the code says of stop(). *)

(* "Stop the network emulator": a signal that interrupts a handler leads to *)
(* the end of the emulator, its polling thread included.                    *)
StopEnds ==
    (saved # NotInterrupted)
      ~> (rpc = "down" /\ saved = NotInterrupted /\ pm \in Dead)
=============================================================================
