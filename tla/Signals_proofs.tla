---------------------------- MODULE Signals_proofs ----------------------------
(***************************************************************************)
(* Proofs about Signals: what NetworkEmulator_proofs shows of the emulator *)
(* holds too when stop() runs in the middle of a handler, for any number   *)
(* of nodes, workers, processes and starts of the emulation.               *)
(***************************************************************************)
EXTENDS Signals, NetworkEmulator_proofs

USE DEF signalVars, allVars, Processes, procVars, diskVars, dictVars, loopVars,
        callVars, initVars

(* What an interrupted handler finds when it goes on.  A handler that holds *)
(* the lock never does: the reset on top of it cannot get past its join.    *)
SavedInv ==
    /\ locked => saved # NotInterrupted /\ rpc \in {"stop", "join"}
    /\ saved # NotInterrupted =>
          /\ caller = "stop" /\ rpc \in Resetting \cup {"down"}
          /\ rpc \in {"clean", "down"} => pm = "new" /\ running = {}
          /\ saved.rpc = "kill" => locked
          /\ saved.rpc = "register" =>
                /\ starting \in Processes
                /\ ~locked => /\ starting \notin running
                              /\ life[starting] # "unstarted"
                              /\ published[starting] = <<>>
          /\ saved.rpc = "reply" => starting \in Transmissions
          /\ starts = 0 => saved.caller = "stop" /\ saved.rpc \in Resetting
          /\ (starts = 1 /\ saved.caller = "start" /\ saved.rpc \in Resetting)
                => NothingRan

SignalInv == SignalTypeOK /\ ReportRest /\ ResetInv /\ LogInv /\ SavedInv

(* The steps that NetworkEmulator does not have.                            *)
SignalStep == Interrupt \/ InterruptLocked \/ Resume \/ ServeReturns \/ PollNobody

LEMMA StepKinds ==
  ASSUME SignalNext PROVE [Next]_vars \/ SignalStep
BY DEF SignalNext, SignalStep, HandleStep, KillRaisesInside, PollStep, Down,
       Next, Handle

(* What the signal's steps change: the RPC thread, and one registration.    *)
LEMMA SignalStepChanges ==
  ASSUME SignalStep
  PROVE  /\ UNCHANGED <<life, outcome, file, logged, reaped, published, starting,
                        starts, usable>>
         /\ \/ UNCHANGED <<running, listed>>
            \/ InterruptLocked /\ rpc = "register" /\ Register(starting)
         /\ pm' = pm \/ PollNobody
<1>1. CASE Interrupt BY <1>1 DEF Interrupt, Push, pmVars
<1>2. CASE InterruptLocked
  <2>1. UNCHANGED <<starting, starts, usable>>
    BY <1>2 DEF InterruptLocked, Push
  <2>2. CASE UNCHANGED pmVars BY <1>2, <2>1, <2>2 DEF pmVars
  <2>3. CASE rpc = "register" /\ Register(starting)
    BY <1>2, <2>1, <2>3 DEF Register
  <2> QED BY <1>2, <2>2, <2>3 DEF InterruptLocked
<1>3. CASE Resume BY <1>3 DEF Resume, pmVars
<1>4. CASE ServeReturns BY <1>4 DEF ServeReturns, pmVars
<1>5. CASE PollNobody BY <1>5 DEF PollNobody, rpcVars
<1> QED BY <1>1, <1>2, <1>3, <1>4, <1>5 DEF SignalStep

LEMMA RegisterType ==
  ASSUME TypeOK, rpc = "register", Register(starting) PROVE PMTypeOK'
<1>1. starting \in Processes /\ Worker(starting) \in Workers
  BY PlacementAssumption DEF TypeOK, Worker
<1> QED BY <1>1 DEF Register, TypeOK, PMTypeOK

LEMMA SignalTypeStep ==
  ASSUME SignalInv, [SignalNext]_allVars PROVE SignalTypeOK'
<1> USE DEF SignalInv, SignalTypeOK
<1>1. TypeOK'
  <2>1. CASE [Next]_vars BY <2>1, TypeStep
  <2> USE DEF TypeOK, AfterJoin
  <2>2. CASE Interrupt BY <2>2 DEF Interrupt, Push, pmVars, PMTypeOK
  <2>3. CASE InterruptLocked
    <3>1. PMTypeOK' BY <2>3, RegisterType DEF InterruptLocked, pmVars, PMTypeOK
    <3> QED BY <2>3, <3>1 DEF InterruptLocked, Push
  <2>4. CASE Resume
    <3>1. saved \in [rpc : Handlers, caller : {"start", "stop"}]
      BY <2>4 DEF Resume
    <3> QED BY <2>4, <3>1 DEF Resume, SavedInv, Handlers, pmVars, PMTypeOK
  <2>5. CASE ServeReturns BY <2>5 DEF ServeReturns, pmVars, PMTypeOK
  <2>6. CASE PollNobody BY <2>6 DEF PollNobody, rpcVars, PMTypeOK, Polling
  <2> QED BY <2>1, <2>2, <2>3, <2>4, <2>5, <2>6, StepKinds DEF SignalStep, vars
<1>2. /\ saved' \in [rpc : Handlers, caller : {"start", "stop"}]
                      \cup {NotInterrupted}
      /\ locked' \in BOOLEAN /\ stopped' \in BOOLEAN
  <2>1. CASE Interrupt \/ InterruptLocked
    <3>1. rpc \in Handlers /\ caller \in {"start", "stop"}
      BY <2>1 DEF Interrupt, InterruptLocked, Handlers, AfterJoin, TypeOK
    <3>2. [rpc |-> rpc, caller |-> caller]
             \in [rpc : Handlers, caller : {"start", "stop"}]
      BY <3>1
    <3>3. saved' = [rpc |-> rpc, caller |-> caller] /\ stopped' = stopped
      BY <2>1 DEF Interrupt, InterruptLocked, Push
    <3>4. locked' \in BOOLEAN BY <2>1 DEF Interrupt, InterruptLocked
    <3> QED BY <3>2, <3>3, <3>4
  <2>2. CASE Resume \/ HandleStep \/ ServeReturns \/ PollStep \/ PollNobody
             \/ Down \/ UNCHANGED allVars
    BY <2>2 DEF Resume, HandleStep, ServeReturns, PollStep, PollNobody, Down
  <2> QED BY <2>1, <2>2 DEF SignalNext, KillRaisesInside
<1> QED BY <1>1, <1>2

LEMMA SignalReportStep ==
  ASSUME SignalInv, [SignalNext]_allVars PROVE ReportRest'
<1> USE DEF SignalInv, SignalTypeOK
<1>1. CASE [Next]_vars BY <1>1, ReportRestStep
<1>2. CASE InterruptLocked /\ rpc = "register" /\ Register(starting)
  BY <1>2 DEF InterruptLocked, Push, Register, ReportRest, EndedHasOutcome,
       ReapedMatches, RegistersNew, ReportedIsOff, ListedIsStarted, TypeOK
<1>3. CASE SignalStep /\ ~Resume /\ UNCHANGED running
  BY <1>3, SignalStepChanges, QuietStep
     DEF SignalStep, Interrupt, InterruptLocked, Push, ServeReturns, PollNobody,
         rpcVars
<1>4. CASE Resume
  <2>1. ~locked BY <1>4 DEF Resume, SavedInv
  <2> QED BY <1>4, <2>1 DEF Resume, SavedInv, pmVars, ReportRest,
            EndedHasOutcome, ReapedMatches, RegistersNew, ReportedIsOff,
            ListedIsStarted
<1> QED BY <1>1, <1>2, <1>3, <1>4, StepKinds, SignalStepChanges DEF vars

LEMMA SignalResetStep ==
  ASSUME SignalInv, [SignalNext]_allVars PROVE ResetInv'
<1> USE DEF SignalInv, SignalTypeOK
<1>1. CASE [Next]_vars BY <1>1, ResetStep
<1> USE DEF ResetInv, ResetRunsAlone, DropsOnlyDead, AfterJoin
<1>2. CASE Interrupt \/ InterruptLocked
  BY <1>2 DEF Interrupt, InterruptLocked, Push, Register, pmVars, Worker
<1>3. CASE Resume
  <2>1. ~locked /\ pm = "new" /\ running = {} /\ saved.rpc # "kill"
    BY <1>3 DEF Resume, SavedInv
  <2> QED BY <1>3, <2>1 DEF Resume, pmVars, Dead
<1>4. CASE ServeReturns \/ PollNobody
  BY <1>4 DEF ServeReturns, PollNobody, rpcVars, pmVars, Dead, Worker
<1> QED BY <1>1, <1>2, <1>3, <1>4, StepKinds DEF SignalStep, vars

LEMMA SignalLogStep ==
  ASSUME SignalInv, [SignalNext]_allVars PROVE LogInv'
<1> USE DEF SignalInv, SignalTypeOK
<1>1. CASE [Next]_vars BY <1>1, LogStep DEF ReportInv, ReportRest
<1> USE BoundAssumption DEF LogInv, NothingRan, CrashNeedsRestart, Resetting
<1>2. CASE Interrupt \/ InterruptLocked
  BY <1>2 DEF Interrupt, InterruptLocked, Push, Register, pmVars
<1>3. CASE Resume BY <1>3 DEF Resume, SavedInv, pmVars
<1>4. CASE ServeReturns \/ PollNobody
  BY <1>4 DEF ServeReturns, PollNobody, rpcVars, pmVars
<1> QED BY <1>1, <1>2, <1>3, <1>4, StepKinds DEF SignalStep, vars

LEMMA SavedStep ==
  ASSUME SignalInv, [SignalNext]_allVars PROVE SavedInv'
<1> USE DEF SignalInv, SignalTypeOK
<1>1. CASE Interrupt
  BY <1>1 DEF Interrupt, Push, SavedInv, LogInv, NothingRan, Resetting,
       ReportRest, RegistersNew, TypeOK, Handlers, AfterJoin, pmVars
<1>2. CASE InterruptLocked
  <2>1. [rpc |-> rpc, caller |-> caller]
           \in [rpc : Handlers, caller : {"start", "stop"}]
    BY <1>2 DEF InterruptLocked, Handlers, AfterJoin, TypeOK
  <2>2. saved' # NotInterrupted
    BY <1>2, <2>1, SignalAssumption DEF InterruptLocked, Push
  <2> QED BY <1>2, <2>2 DEF InterruptLocked, Push, SavedInv, LogInv, NothingRan,
            Resetting, Register, TypeOK, pmVars
<1>3. CASE Resume BY <1>3 DEF Resume, SavedInv
<1>4. ASSUME NEW w \in Workers, KillRaisesInside(w) PROVE SavedInv'
  BY <1>4 DEF KillRaisesInside, KillRaises, SavedInv, pmVars
<1> USE DEF SavedInv
<1>5. CASE ServeReturns \/ Down \/ UNCHANGED allVars
  BY <1>5 DEF ServeReturns, Down, vars, pmVars, rpcVars, Resetting, NothingRan
<1>6. CASE Call /\ UNCHANGED signalVars
  <2>1. saved = NotInterrupted
    BY <1>6 DEF Call, StartEmulation, Shutdown, TransmitNBytes, Resetting
  <2> QED BY <1>6, <2>1
<1>7. CASE PollNobody
  BY <1>7 DEF PollNobody, rpcVars, NothingRan
<1>8. CASE PollStep
  <2>1. /\ UNCHANGED <<rpc, caller, starting, starts, saved, locked, life>>
        /\ running' \subseteq running
        /\ pm # "new"
    BY <1>8 DEF PollStep, ThreadStep, rpcVars, Poll, ClearStop, CheckStop,
         FetchLogs, LogFails, Report, InitWorker, NextWorker, Rotate, RotatePc,
         ReadPids, ReadPc, CommandFails
  <2>2. \A p \in Processes : p \notin running => published'[p] = published[p]
    BY <1>8 DEF PollStep, ThreadStep, Poll, ClearStop, CheckStop, FetchLogs,
         LogFails, Report, InitWorker, NextWorker, Rotate, ReadPids, CommandFails,
         TypeOK, PMTypeOK
  <2> QED BY <2>1, <2>2 DEF NothingRan
<1>9. ASSUME NEW p \in Processes, WrapperStep(p) \/ ProcessEnds(p),
             UNCHANGED signalVars
      PROVE SavedInv'
  <2>1. UNCHANGED <<rpc, caller, starting, starts, pm, running, published>>
    BY <1>9 DEF WrapperStep, ProcessEnds, Daemonize, OpenPidFile, WritePid,
         Exit, rpcVars
  <2>2. \A q \in Processes : life[q] = "unstarted" <=> life'[q] = "unstarted"
    BY <1>9 DEF WrapperStep, ProcessEnds, Daemonize, OpenPidFile, WritePid,
         Exit, TypeOK, PMTypeOK
  <2> QED BY <1>9, <2>1, <2>2 DEF NothingRan
<1>10. CASE HandleStep
  <2>1. UNCHANGED <<saved, locked, stopped>> BY <1>10 DEF HandleStep
  <2>2. CASE saved = NotInterrupted BY <2>1, <2>2
  <2> SUFFICES ASSUME saved # NotInterrupted PROVE SavedInv' BY <2>2
  <2> USE DEF Resetting, NothingRan
  <2>3. CASE StopThread
    BY <2>1, <2>3 DEF StopThread, SetStop
  <2>4. CASE Join /\ ~locked
    BY <2>1, <2>4 DEF Join, pmVars
  <2>5. CASE RenewThread
    BY <2>1, <2>5 DEF RenewThread, Renew
  <2>6. CASE Clean
    BY <2>1, <2>6 DEF Clean, pmVars
  <2>7. ASSUME NEW w \in Workers, KillWorker(w) PROVE SavedInv'
    <3>1. \A q \in Processes : life[q] = "unstarted" <=> life'[q] = "unstarted"
      BY <2>7 DEF KillWorker, Kill, TypeOK, PMTypeOK
    <3> QED BY <2>1, <2>7, <3>1 DEF KillWorker, Kill
  <2>8. ~(Setup \/ StartPolling \/ RegisterProcess \/ Reply)
    BY DEF Setup, StartPolling, RegisterProcess, Reply
  <2>9. /\ \A r \in Receivers : ~InitNode(r)
        /\ \A n \in Nodes : ~SkipNode(n)
    BY DEF InitNode, SkipNode
  <2> QED BY <1>10, <2>3, <2>4, <2>5, <2>6, <2>7, <2>8, <2>9 DEF HandleStep
<1> QED BY <1>1, <1>2, <1>3, <1>4, <1>5, <1>6, <1>7, <1>8, <1>9, <1>10
        DEF SignalNext

(* The inductive invariant.                                                 *)
THEOREM SignalInvariant == SignalSpec => []SignalInv
<1>1. SignalInit => SignalInv
  <2> SUFFICES ASSUME SignalInit PROVE SignalInv OBVIOUS
  <2>1. TypeOK BY InitType DEF SignalInit
  <2>2. ReportRest /\ ResetInv /\ LogInv
    BY DEF SignalInit, Init, PMInit, ReportRest, EndedHasOutcome,
         ReapedMatches, RegistersNew, ReportedIsOff, ListedIsStarted, ResetInv,
         ResetRunsAlone, DropsOnlyDead, AfterJoin, LogInv, NothingRan,
         CrashNeedsRestart
  <2> QED BY <2>1, <2>2 DEF SignalInit, SignalInv, SignalTypeOK, SavedInv
<1>2. SignalInv /\ [SignalNext]_allVars => SignalInv'
  BY SignalTypeStep, SignalReportStep, SignalResetStep, SignalLogStep, SavedStep
     DEF SignalInv
<1> QED BY <1>1, <1>2, PTL DEF SignalSpec

(* Type correctness.                                                        *)
THEOREM SignalTypeCorrect == SignalSpec => []SignalTypeOK
<1>1. SignalInv => SignalTypeOK BY DEF SignalInv
<1> QED BY <1>1, SignalInvariant, PTL

(* What is published stays true and unique when a reset cuts a handler in   *)
(* two.                                                                     *)
THEOREM SignalReportsAreTrue == SignalSpec => []OneTrueReport
<1>1. SignalInv => OneTrueReport
  BY DEF SignalInv, ReportRest, ReportedIsOff, OneTrueReport
<1> QED BY <1>1, SignalInvariant, PTL

(* A reset inside a handler, and the handler's own after it, run alone.     *)
THEOREM SignalResetIsSafe == SignalSpec => []ResetInv
<1>1. SignalInv => ResetInv BY DEF SignalInv
<1> QED BY <1>1, SignalInvariant, PTL

(* No signal costs the first emulation its polling thread, as long as its   *)
(* workers can be reached.                                                  *)
THEOREM SignalFirstThreadSurvives == SignalSpec => []CrashNeedsRestart
<1>1. SignalInv => CrashNeedsRestart BY DEF SignalInv, LogInv
<1> QED BY <1>1, SignalInvariant, PTL

(* An emulator that signals interrupt implements the transmission service.  *)
THEOREM SignalRefinement == SignalSpec => ImplementsService
<1>1. SignalInit => Service!Init
  BY DEF SignalInit, Init, PMInit, Service!Init, stageBar, resultBar, reportsBar
<1>2. SignalInv /\ [SignalNext]_allVars => [Service!Next]_(Service!vars)
  <2> SUFFICES ASSUME SignalInv, [SignalNext]_allVars
               PROVE  [Service!Next]_(Service!vars)
    OBVIOUS
  <2>1. CASE [Next]_vars
    BY <2>1, ServiceStep DEF SignalInv, SignalTypeOK, ReportInv, ReportRest
  <2>2. CASE SignalStep
    BY <2>2, SignalStepChanges
       DEF Service!vars, stageBar, resultBar, reportsBar
  <2> QED BY <2>1, <2>2, StepKinds DEF vars
<1> QED BY <1>1, <1>2, SignalInvariant, PTL
        DEF SignalSpec, ImplementsService, Service!Spec
=============================================================================
