----------------------- MODULE NetworkEmulator_proofs -----------------------
(***************************************************************************)
(* Proofs about NetworkEmulator, for any number of nodes, workers,         *)
(* processes and starts of the emulation.                                  *)
(***************************************************************************)
EXTENDS NetworkEmulator, TLAPS

USE DEF Processes, procVars, diskVars, dictVars, loopVars, callVars, initVars

(* Type correctness of the polling thread and of the workers' processes:    *)
(* the steps ProcessManager takes by itself.                                *)
LEMMA PollType == ASSUME PMTypeOK, Poll PROVE PMTypeOK'
<1> USE PlacementAssumption DEF Polling, Dead, Outcomes, SUCCESSFUL, FAILED
<1>1. CASE ClearStop BY <1>1 DEF ClearStop, PMTypeOK
<1>2. CASE CheckStop BY <1>2 DEF CheckStop, PMTypeOK
<1>3. CASE FetchLogs \/ LogFails BY <1>3 DEF FetchLogs, LogFails, PMTypeOK
<1>4. CASE Report
  <2>1. published' \in [Processes -> Seq(Outcomes)]
    BY <1>4 DEF Report, PMTypeOK
  <2> QED BY <1>4, <2>1 DEF Report, PMTypeOK
<1>5. ASSUME NEW w \in Workers, InitWorker(w) PROVE PMTypeOK'
  BY <1>5 DEF InitWorker, PMTypeOK
<1>6. ASSUME NEW w \in Workers, NextWorker(w) PROVE PMTypeOK'
  BY <1>6 DEF NextWorker, PMTypeOK
<1>7. ASSUME NEW k \in Outcomes, Rotate(k) PROVE PMTypeOK'
  <2>1. file' \in [Processes -> {"none", "current", "rotated", "gone"}]
    BY <1>7 DEF Rotate, PMTypeOK
  <2> QED BY <1>7, <2>1 DEF Rotate, RotatePc, ReadPc, AfterRead, PMTypeOK
<1>8. ASSUME NEW k \in Outcomes, ReadPids(k) PROVE PMTypeOK'
  <2>1. reaped' \in [Outcomes -> SUBSET Processes]
    BY <1>8 DEF ReadPids, PMTypeOK, On
  <2> QED BY <1>8, <2>1 DEF ReadPids, ReadPc, AfterRead, PMTypeOK
<1>9. ASSUME NEW k \in Outcomes, CommandFails(k) PROVE PMTypeOK'
  BY <1>9 DEF CommandFails, AfterRead, PMTypeOK
<1> QED BY <1>1, <1>2, <1>3, <1>4, <1>5, <1>6, <1>7, <1>8, <1>9 DEF Poll

LEMMA ProcessType ==
  ASSUME PMTypeOK, NEW p \in Processes,
         Daemonize(p) \/ \E k \in Outcomes : Exit(p, k)
  PROVE  PMTypeOK'
<1>1. CASE OpenPidFile(p) BY <1>1 DEF OpenPidFile, PMTypeOK
<1>2. CASE WritePid(p) BY <1>2 DEF WritePid, PMTypeOK
<1>3. ASSUME NEW k \in Outcomes, Exit(p, k) PROVE PMTypeOK'
  BY <1>3 DEF Exit, PMTypeOK
<1> QED BY <1>1, <1>2, <1>3 DEF Daemonize

(* Every step of the emulator keeps the types.                              *)
LEMMA TypeStep == ASSUME TypeOK, [Next]_vars PROVE TypeOK'
<1> USE ProcessAssumption, PlacementAssumption, BoundAssumption
    DEF TypeOK, AfterJoin
<1>1. CASE Call
  <2>1. CASE StartEmulation BY <2>1 DEF StartEmulation, pmVars, PMTypeOK
  <2>2. CASE Shutdown BY <2>2 DEF Shutdown, pmVars, PMTypeOK
  <2>3. ASSUME NEW t \in Transmissions, TransmitNBytes(t) PROVE TypeOK'
    BY <2>3 DEF TransmitNBytes, Launch, PMTypeOK
  <2> QED BY <1>1, <2>1, <2>2, <2>3 DEF Call
<1>2. CASE Handle
  <2>1. CASE StopThread BY <2>1 DEF StopThread, SetStop, PMTypeOK
  <2>2. CASE Join BY <2>2 DEF Join, pmVars, PMTypeOK
  <2>3. CASE RenewThread BY <2>3 DEF RenewThread, Renew, PMTypeOK, Dead
  <2>4. CASE Clean
    BY <2>4 DEF Clean, RemoveFiles, pmVars, PMTypeOK
  <2>5. CASE Setup BY <2>5 DEF Setup, pmVars, PMTypeOK
  <2>6. CASE StartPolling BY <2>6 DEF StartPolling, StartThread, PMTypeOK
  <2>7. CASE RegisterProcess
    <3>1. starting \in Processes /\ Worker(starting) \in Workers
      BY <2>7 DEF RegisterProcess, Worker
    <3> QED BY <2>7, <3>1 DEF RegisterProcess, Register, PMTypeOK
  <2>8. CASE Reply BY <2>8 DEF Reply, pmVars, PMTypeOK
  <2>9. ASSUME NEW w \in Workers, KillWorker(w) \/ KillRaises(w)
        PROVE TypeOK'
    <3>1. PMTypeOK'
      BY <2>9 DEF KillWorker, KillRaises, Kill, pmVars, PMTypeOK, Outcomes
    <3> QED BY <2>9, <3>1 DEF KillWorker, KillRaises
  <2>10. ASSUME NEW r \in Receivers, InitNode(r) PROVE TypeOK'
    BY <2>10 DEF InitNode, Launch, PMTypeOK
  <2>11. ASSUME NEW n \in Nodes, SkipNode(n) PROVE TypeOK'
    BY <2>11 DEF SkipNode, pmVars, PMTypeOK
  <2> QED BY <1>2, <2>1, <2>2, <2>3, <2>4, <2>5, <2>6, <2>7, <2>8, <2>9,
             <2>10, <2>11 DEF Handle
<1>3. CASE ThreadStep BY <1>3, PollType DEF ThreadStep, rpcVars
<1>4. ASSUME NEW p \in Processes, WrapperStep(p) \/ ProcessEnds(p)
      PROVE TypeOK'
  BY <1>4, ProcessType DEF WrapperStep, ProcessEnds, rpcVars
<1>5. CASE Terminated \/ UNCHANGED vars
  BY <1>5 DEF Terminated, vars, pmVars, rpcVars, PMTypeOK
<1> QED BY <1>1, <1>2, <1>3, <1>4, <1>5 DEF Next

(* The initial states are well typed.                                       *)
LEMMA InitType == ASSUME Init PROVE TypeOK
<1> USE ProcessAssumption, PlacementAssumption, BoundAssumption
<1>1. life \in [Processes ->
                  {"unstarted", "running", "exited", "opened", "recorded"}]
  BY DEF Init, PMInit
<1>2. outcome \in [Processes -> Outcomes \cup {"none"}]
  BY DEF Init, PMInit
<1>3. file \in [Processes -> {"none", "current", "rotated", "gone"}]
  BY DEF Init, PMInit
<1>4. reaped \in [Outcomes -> SUBSET Processes]
  BY DEF Init, PMInit
<1>5. published \in [Processes -> Seq(Outcomes)]
  <2>1. <<>> \in Seq(Outcomes) OBVIOUS
  <2> QED BY <2>1 DEF Init, PMInit
<1>6. PMTypeOK
  BY <1>1, <1>2, <1>3, <1>4, <1>5 DEF Init, PMInit, PMTypeOK, Dead
<1>7. starts \in 0..MaxStarts
  BY DEF Init
<1> QED BY <1>6, <1>7 DEF Init, TypeOK, AfterJoin

(* Type correctness of the specification.                                   *)
THEOREM TypeCorrect == Spec => []TypeOK
<1>1. Init => TypeOK
  BY InitType
<1>2. TypeOK /\ [Next]_vars => TypeOK'
  BY TypeStep
<1> QED BY <1>1, <1>2, PTL DEF Spec

-----------------------------------------------------------------------------
(* The conjuncts of ReportInv beside the type. *)
ReportRest ==
    EndedHasOutcome /\ ReapedMatches /\ RegistersNew /\ ReportedIsOff
    /\ ListedIsStarted

(* A process that has a report has ended.                                   *)
LEMMA ReportedHasEnded ==
  ASSUME TypeOK, EndedHasOutcome, ReportedIsOff, NEW p \in Processes,
         life[p] \in {"unstarted", "running"}
  PROVE  published[p] = <<>> /\ outcome[p] = "none"
BY DEF EndedHasOutcome, ReportedIsOff, Outcomes, SUCCESSFUL, FAILED

(* Steps that leave the processes, the thread's lists and what is published *)
(* alone keep the invariant when they register nothing.                     *)
LEMMA QuietStep ==
  ASSUME TypeOK, ReportRest,
         UNCHANGED <<life, outcome, reaped, published>>,
         running' \subseteq running,
         rpc' = "register" => rpc = "register" /\ starting' = starting
  PROVE  ReportRest'
BY DEF ReportRest, EndedHasOutcome, ReapedMatches, RegistersNew,
       ReportedIsOff, ListedIsStarted

(* A process that starts has no report and is not listed.                   *)
LEMMA LaunchStep ==
  ASSUME TypeOK, ReportRest, NEW p \in Processes, Launch(p),
         rpc' = "register", starting' = p
  PROVE  ReportRest'
<1> USE DEF ReportRest, Launch, TypeOK, PMTypeOK
<1>1. published[p] = <<>> /\ outcome[p] = "none"
  BY ReportedHasEnded
<1>2. EndedHasOutcome' BY <1>1 DEF EndedHasOutcome
<1>3. ReapedMatches' BY DEF ReapedMatches
<1>4. p \notin running BY DEF ListedIsStarted
<1>5. RegistersNew' BY <1>1, <1>4 DEF RegistersNew
<1>6. ReportedIsOff' BY DEF ReportedIsOff
<1>7. ListedIsStarted' BY DEF ListedIsStarted
<1> QED BY <1>2, <1>3, <1>5, <1>6, <1>7

(* Processes that end, by themselves or killed, had no report yet.          *)
LEMMA EndStep ==
  ASSUME TypeOK, ReportRest, NEW S \in SUBSET Processes,
         \A p \in S : life[p] = "running",
         life' = [p \in Processes |-> IF p \in S THEN "exited" ELSE life[p]],
         outcome' \in [Processes -> Outcomes \cup {"none"}],
         \A p \in Processes : IF p \in S THEN outcome'[p] \in Outcomes
                                         ELSE outcome'[p] = outcome[p],
         UNCHANGED <<running, reaped, published>>,
         rpc' = "register" => rpc = "register" /\ starting' = starting
  PROVE  ReportRest'
<1> USE DEF ReportRest, TypeOK, PMTypeOK
<1>1. \A p \in S : published[p] = <<>> /\ outcome[p] = "none"
  BY ReportedHasEnded
<1>2. EndedHasOutcome'
  BY DEF EndedHasOutcome, Outcomes, SUCCESSFUL, FAILED
<1>3. ReapedMatches'
  <2>1. ASSUME NEW k \in Outcomes, NEW p \in reaped[k]
        PROVE  p \in Processes \ S /\ outcome[p] = k
    BY <1>1, <2>1 DEF ReapedMatches, Outcomes, SUCCESSFUL, FAILED
  <2> QED BY <2>1 DEF ReapedMatches
<1>4. RegistersNew' BY DEF RegistersNew
<1>5. ReportedIsOff' BY <1>1 DEF ReportedIsOff
<1>6. ListedIsStarted' BY DEF ListedIsStarted
<1> QED BY <1>2, <1>3, <1>4, <1>5, <1>6

(* The wrapper of a process that ended moves on.                            *)
LEMMA WrapperKeeps ==
  ASSUME TypeOK, ReportRest, NEW p \in Processes, Daemonize(p),
         UNCHANGED <<rpc, starting>>
  PROVE  ReportRest'
<1> USE DEF ReportRest, TypeOK, PMTypeOK, Daemonize, OpenPidFile, WritePid
<1>1. EndedHasOutcome' BY DEF EndedHasOutcome
<1>2. ReapedMatches' BY DEF ReapedMatches
<1>3. RegistersNew' BY DEF RegistersNew
<1>4. ReportedIsOff' BY DEF ReportedIsOff
<1>5. ListedIsStarted' BY DEF ListedIsStarted
<1> QED BY <1>1, <1>2, <1>3, <1>4, <1>5

(* Reading pids keeps them with the processes of that outcome.              *)
LEMMA ReadStep ==
  ASSUME TypeOK, ReportRest, NEW k \in Outcomes, ReadPids(k),
         UNCHANGED <<rpc, starting>>
  PROVE  ReportRest'
<1> USE DEF ReportRest, TypeOK, PMTypeOK, ReadPids
<1>1. EndedHasOutcome' BY DEF EndedHasOutcome
<1>2. ReapedMatches' BY DEF ReapedMatches
<1>3. RegistersNew' BY DEF RegistersNew
<1>4. ReportedIsOff' BY DEF ReportedIsOff
<1>5. ListedIsStarted' BY DEF ListedIsStarted
<1> QED BY <1>1, <1>2, <1>3, <1>4, <1>5

(* Reporting publishes for listed processes, which have no report yet, the  *)
(* outcome of the list they are in, and takes them off.                     *)
LEMMA ReportStep ==
  ASSUME TypeOK, ReportRest, Report, UNCHANGED <<rpc, starting>>
  PROVE  ReportRest'
<1> USE DEF ReportRest, TypeOK, PMTypeOK
<1> DEFINE known == running \cap (reaped[SUCCESSFUL] \cup reaped[FAILED])
<1>1. ASSUME NEW p \in Processes, published'[p] # published[p]
      PROVE  /\ p \in known
             /\ published'[p] = <<outcome[p]>>
             /\ outcome[p] \in Outcomes
  <2>1. p \in known BY <1>1 DEF Report
  <2>2. published[p] = <<>> BY <2>1 DEF ReportedIsOff
  <2>3. published'[p] = Append(<<>>, IF p \in reaped[SUCCESSFUL]
                                     THEN SUCCESSFUL ELSE FAILED)
    BY <1>1, <2>2 DEF Report
  <2>4. outcome[p] = (IF p \in reaped[SUCCESSFUL] THEN SUCCESSFUL ELSE FAILED)
    BY <2>1 DEF ReapedMatches, Outcomes
  <2>5. outcome[p] \in Outcomes BY <2>4 DEF Outcomes
  <2> QED BY <2>1, <2>3, <2>4, <2>5
<1>2. EndedHasOutcome' BY DEF EndedHasOutcome, Report
<1>3. ReapedMatches' BY DEF ReapedMatches, Report
<1>4. RegistersNew'
  BY <1>1 DEF RegistersNew, Report
<1>5. ReportedIsOff'
  <2> SUFFICES ASSUME NEW p \in Processes, published'[p] # <<>>
               PROVE  /\ p \notin running'
                      /\ published'[p] = <<outcome'[p]>>
                      /\ outcome'[p] \in Outcomes
    BY DEF ReportedIsOff
  <2>1. CASE published'[p] = published[p]
    BY <2>1 DEF ReportedIsOff, Report
  <2>2. CASE published'[p] # published[p]
    BY <2>2, <1>1 DEF Report
  <2> QED BY <2>1, <2>2
<1>6. ListedIsStarted' BY DEF ListedIsStarted, Report
<1> QED BY <1>2, <1>3, <1>4, <1>5, <1>6

(* Every step of the emulator keeps the invariant behind the reports.       *)
LEMMA ReportRestStep ==
  ASSUME TypeOK, ReportRest, [Next]_vars PROVE ReportRest'
<1> USE ProcessAssumption, PlacementAssumption
<1>1. CASE Call
  <2>1. CASE StartEmulation \/ Shutdown
    BY <2>1, QuietStep DEF StartEmulation, Shutdown, pmVars
  <2>2. ASSUME NEW t \in Transmissions, TransmitNBytes(t)
        PROVE ReportRest'
    BY <2>2, LaunchStep DEF TransmitNBytes
  <2> QED BY <1>1, <2>1, <2>2 DEF Call
<1>2. CASE Handle
  <2>1. CASE StopThread \/ Join \/ Setup \/ StartPolling \/ Reply
    BY <2>1, QuietStep DEF StopThread, SetStop, Join, Setup, StartPolling,
         StartThread, Reply, pmVars
  <2>2. CASE RenewThread
    BY <2>2 DEF RenewThread, Renew, ReportRest, EndedHasOutcome,
         ReapedMatches, RegistersNew, ReportedIsOff, ListedIsStarted
  <2>3. CASE Clean
    BY <2>3, QuietStep DEF Clean, RemoveFiles, pmVars
  <2>4. CASE RegisterProcess
    BY <2>4 DEF RegisterProcess, Register, ReportRest, EndedHasOutcome,
         ReapedMatches, RegistersNew, ReportedIsOff, ListedIsStarted
  <2>5. ASSUME NEW w \in Workers, KillWorker(w) \/ KillRaises(w)
        PROVE ReportRest'
    <3> DEFINE alive == {p \in running \cap On(w) : life[p] = "running"}
    <3>1. alive \in SUBSET Processes BY DEF TypeOK, PMTypeOK
    <3>2. CASE ~Kill(w)
      <4>1. UNCHANGED pmVars /\ rpc' # "register"
        BY <2>5, <3>2 DEF KillWorker, KillRaises
      <4> QED BY <4>1, QuietStep DEF pmVars
    <3> SUFFICES ASSUME Kill(w) PROVE ReportRest' BY <3>2
    <3>3. /\ outcome' \in [Processes -> Outcomes \cup {"none"}]
          /\ \A p \in Processes : IF p \in alive THEN outcome'[p] \in Outcomes
                                  ELSE outcome'[p] = outcome[p]
      BY DEF Kill, TypeOK, PMTypeOK, Outcomes
    <3>4. rpc' = "register" => rpc = "register" /\ starting' = starting
      BY <2>5 DEF KillWorker, KillRaises
    <3> QED BY <3>1, <3>3, <3>4, EndStep DEF Kill
  <2>6. ASSUME NEW r \in Receivers, InitNode(r) PROVE ReportRest'
    BY <2>6, LaunchStep DEF InitNode
  <2>7. ASSUME NEW n \in Nodes, SkipNode(n) PROVE ReportRest'
    BY <2>7, QuietStep DEF SkipNode, pmVars
  <2> QED BY <1>2, <2>1, <2>2, <2>3, <2>4, <2>5, <2>6, <2>7 DEF Handle
<1>3. CASE ThreadStep
  <2> USE DEF rpcVars
  <2>1. CASE ClearStop \/ CheckStop \/ FetchLogs \/ LogFails
    BY <1>3, <2>1, QuietStep
       DEF ThreadStep, ClearStop, CheckStop, FetchLogs, LogFails
  <2>2. CASE Report BY <1>3, <2>2, ReportStep DEF ThreadStep
  <2>3. ASSUME NEW w \in Workers, InitWorker(w) \/ NextWorker(w)
        PROVE ReportRest'
    BY <1>3, <2>3, QuietStep DEF ThreadStep, InitWorker, NextWorker
  <2>4. ASSUME NEW k \in Outcomes, Rotate(k) \/ CommandFails(k)
        PROVE ReportRest'
    BY <1>3, <2>4, QuietStep DEF ThreadStep, Rotate, CommandFails
  <2>5. ASSUME NEW k \in Outcomes, ReadPids(k) PROVE ReportRest'
    BY <1>3, <2>5, ReadStep DEF ThreadStep
  <2> QED BY <1>3, <2>1, <2>2, <2>3, <2>4, <2>5 DEF ThreadStep, Poll
<1>4. ASSUME NEW p \in Processes, WrapperStep(p) PROVE ReportRest'
  BY <1>4, WrapperKeeps DEF WrapperStep, rpcVars
<1>5. ASSUME NEW p \in Processes, NEW k \in Outcomes, Exit(p, k),
             UNCHANGED rpcVars
      PROVE ReportRest'
  <2>1. /\ life' = [q \in Processes |-> IF q \in {p} THEN "exited"
                                                   ELSE life[q]]
        /\ outcome' \in [Processes -> Outcomes \cup {"none"}]
        /\ \A q \in Processes : IF q \in {p} THEN outcome'[q] \in Outcomes
                                ELSE outcome'[q] = outcome[q]
    BY <1>5 DEF Exit, TypeOK, PMTypeOK
  <2>2. {p} \in SUBSET Processes /\ \A q \in {p} : life[q] = "running"
    BY <1>5 DEF Exit
  <2> QED BY <1>5, <2>1, <2>2, EndStep DEF Exit, rpcVars
<1>6. CASE Terminated \/ UNCHANGED vars
  BY <1>6, QuietStep DEF Terminated, vars, pmVars, rpcVars
<1> QED BY <1>1, <1>2, <1>3, <1>4, <1>5, <1>6 DEF Next, ProcessEnds

(* The inductive invariant behind the reports.                              *)
THEOREM ReportInvariant == Spec => []ReportInv
<1> USE ProcessAssumption, PlacementAssumption
<1>1. Init => ReportRest
  BY DEF Init, PMInit, ReportRest, EndedHasOutcome, ReapedMatches,
         RegistersNew, ReportedIsOff, ListedIsStarted
<1>2. TypeOK /\ ReportRest /\ [Next]_vars => ReportRest'
  BY ReportRestStep
<1>3. TypeOK /\ ReportRest => ReportInv
  BY DEF ReportRest, ReportInv
<1> QED BY <1>1, <1>2, <1>3, TypeCorrect, PTL DEF Spec

(* Every published result is the only one for its transmission and tells    *)
(* how its process ended.                                                   *)
THEOREM ReportsAreTrue == Spec => []OneTrueReport
<1>1. ReportInv => OneTrueReport
  BY DEF ReportInv, ReportedIsOff, OneTrueReport
<1> QED BY <1>1, ReportInvariant, PTL

-----------------------------------------------------------------------------
(* The polling thread and the workers move while reset runs only if no      *)
(* thread is alive, and then only processes end.                            *)
LEMMA PollKeepsReset ==
  ASSUME TypeOK, ResetInv, Poll, UNCHANGED rpcVars
  PROVE  ResetInv'
<1> USE DEF ResetInv, ResetRunsAlone, DropsOnlyDead, AfterJoin, Dead, rpcVars,
            TypeOK, PMTypeOK
<1>1. CASE ClearStop \/ CheckStop \/ FetchLogs \/ LogFails \/ Report
  BY <1>1 DEF ClearStop, CheckStop, FetchLogs, LogFails, Report, Worker
<1>2. ASSUME NEW w \in Workers, InitWorker(w) \/ NextWorker(w)
      PROVE ResetInv'
  BY <1>2 DEF InitWorker, NextWorker, Worker
<1>3. ASSUME NEW k \in Outcomes, Rotate(k) \/ ReadPids(k) \/ CommandFails(k)
      PROVE ResetInv'
  BY <1>3 DEF Rotate, ReadPids, CommandFails, RotatePc, ReadPc, AfterRead, Worker
<1> QED BY <1>1, <1>2, <1>3 DEF Poll

LEMMA ProcessKeepsReset ==
  ASSUME TypeOK, ResetInv, UNCHANGED rpcVars, NEW p \in Processes,
         Daemonize(p) \/ \E k \in Outcomes : Exit(p, k)
  PROVE  ResetInv'
<1> USE DEF ResetInv, ResetRunsAlone, DropsOnlyDead, AfterJoin, rpcVars,
            TypeOK, PMTypeOK
<1>1. /\ UNCHANGED <<running, listed, pm>>
      /\ \A q \in Processes : life'[q] = "running" => life[q] = "running"
  BY DEF Daemonize, OpenPidFile, WritePid, Exit
<1> QED BY <1>1 DEF Worker

(* Every step of the emulator keeps what reset relies on.                   *)
LEMMA ResetStep == ASSUME TypeOK, ResetInv, [Next]_vars PROVE ResetInv'
<1> USE ProcessAssumption, PlacementAssumption
    DEF ResetInv, ResetRunsAlone, DropsOnlyDead, AfterJoin
<1>1. CASE Call
  <2>1. CASE StartEmulation \/ Shutdown
    BY <2>1 DEF StartEmulation, Shutdown, pmVars, Worker
  <2>2. ASSUME NEW t \in Transmissions, TransmitNBytes(t) PROVE ResetInv'
    BY <2>2 DEF TransmitNBytes, Launch, Worker
  <2> QED BY <1>1, <2>1, <2>2 DEF Call
<1>2. CASE Handle
  <2>1. CASE StopThread \/ Setup \/ StartPolling \/ Reply
    BY <2>1 DEF StopThread, SetStop, Setup, StartPolling, StartThread,
         Reply, pmVars, Worker
  <2>2. CASE Join
    BY <2>2 DEF Join, pmVars, Worker, TypeOK, PMTypeOK
  <2>3. CASE RenewThread BY <2>3 DEF RenewThread, Renew, Dead
  <2>4. CASE Clean
    BY <2>4 DEF Clean, RemoveFiles, pmVars, Worker
  <2>5. CASE RegisterProcess
    BY <2>5 DEF RegisterProcess, Register, Worker
  <2>6. ASSUME NEW w \in Workers, KillWorker(w) \/ KillRaises(w)
        PROVE ResetInv'
    <3>1. \A p \in running : /\ life'[p] = "running" => life[p] = "running"
                             /\ KillWorker(w) /\ Worker(p) = w
                                  => life'[p] # "running"
      BY <2>6 DEF KillWorker, KillRaises, Kill, On, pmVars, TypeOK, PMTypeOK
    <3>2. UNCHANGED <<running, listed, pm>>
      BY <2>6 DEF KillWorker, KillRaises, Kill, pmVars
    <3>3. CASE KillWorker(w)
      BY <3>1, <3>2, <3>3 DEF KillWorker, Worker
    <3>4. CASE KillRaises(w)
      BY <3>1, <3>2, <3>4 DEF KillRaises, Worker
    <3> QED BY <2>6, <3>3, <3>4
  <2>7. ASSUME NEW r \in Receivers, InitNode(r) PROVE ResetInv'
    BY <2>7 DEF InitNode, Launch, Worker
  <2>8. ASSUME NEW n \in Nodes, SkipNode(n) PROVE ResetInv'
    BY <2>8 DEF SkipNode, pmVars, Worker
  <2> QED BY <1>2, <2>1, <2>2, <2>3, <2>4, <2>5, <2>6, <2>7, <2>8 DEF Handle
<1>3. CASE ThreadStep
  BY <1>3, PollKeepsReset DEF ThreadStep
<1>4. ASSUME NEW p \in Processes, WrapperStep(p) \/ ProcessEnds(p)
      PROVE ResetInv'
  BY <1>4, ProcessKeepsReset DEF WrapperStep, ProcessEnds
<1>5. CASE Terminated \/ UNCHANGED vars
  BY <1>5 DEF Terminated, vars, pmVars, rpcVars, Worker
<1> QED BY <1>1, <1>2, <1>3, <1>4, <1>5 DEF Next

(* What reset relies on, from the join of the old thread to the start of    *)
(* the new one.                                                             *)
THEOREM ResetInvariant == Spec => []ResetInv
<1> USE ProcessAssumption, PlacementAssumption
<1>1. Init => ResetInv
  BY DEF Init, PMInit, ResetInv, ResetRunsAlone, DropsOnlyDead, AfterJoin
<1>2. TypeOK /\ ResetInv /\ [Next]_vars => ResetInv'
  BY ResetStep
<1> QED BY <1>1, <1>2, TypeCorrect, PTL DEF Spec

(* Reset is alone with the process list, drops it only when every process   *)
(* in it is dead, and hands a Thread object to init that never ran.         *)
THEOREM ResetIsSafe ==
  Spec => [](ResetRunsAlone /\ DropsOnlyDead /\ ThreadIsFresh)
<1>1. ResetInv => ResetRunsAlone /\ DropsOnlyDead /\ ThreadIsFresh
  BY DEF ResetInv, ThreadIsFresh
<1> QED BY <1>1, ResetInvariant, PTL

-----------------------------------------------------------------------------
(* Log files.  Before the first start nothing runs; in the reset of the     *)
(* first start, which removes the logs, nothing has run; from then to the   *)
(* second start every process that was started has its log.                 *)
Resetting == {"stop", "join", "kill", "renew", "clean"}
NothingRan == \A p \in Processes : life[p] = "unstarted"

LogInv ==
    /\ starts = 0 =>
          /\ ~usable /\ NothingRan
          /\ rpc \in {"idle", "down"} \/ (caller = "stop" /\ rpc \in Resetting)
    /\ (starts = 1 /\ caller = "start" /\ rpc \in Resetting) => NothingRan
    /\ starts <= 1 => \A p \in Processes : life[p] # "unstarted" => p \in logged
    /\ CrashNeedsRestart

(* A pid in hand is one of a process that was started.                      *)
LEMMA ReapedHaveStarted ==
  ASSUME ReportInv, NEW k \in Outcomes, NEW p \in reaped[k]
  PROVE  p \in Processes /\ life[p] # "unstarted"
<1>1. outcome[p] = k /\ p \in Processes
  BY DEF ReportInv, ReapedMatches, TypeOK, PMTypeOK
<1>2. outcome[p] # "none" BY <1>1 DEF Outcomes, SUCCESSFUL, FAILED
<1> QED BY <1>1, <1>2 DEF ReportInv, EndedHasOutcome

(* Steps that start no process, remove no log, and leave the thread alone   *)
(* or end it otherwise than by a missing log.                               *)
LEMMA KeepsLogs ==
  ASSUME ReportInv, LogInv, UNCHANGED <<starts, logged>>,
         \A p \in Processes : life[p] = "unstarted" <=> life'[p] = "unstarted",
         pm' = "crashed" => pm = "crashed" /\ at' = at,
         usable' => usable \/ starts # 0,
         \/ UNCHANGED <<rpc, caller>>
         \/ rpc' \in {"idle", "down"}
         \/ rpc \in Resetting /\ rpc' \in Resetting /\ caller' = caller
         \/ rpc' = "stop" /\ caller' = "stop"
         \/ starts # 0 /\ rpc' \notin Resetting
  PROVE  LogInv'
BY BoundAssumption DEF LogInv, NothingRan, CrashNeedsRestart, Resetting,
   ReportInv, TypeOK

LEMMA LogStep == ASSUME ReportInv, LogInv, [Next]_vars PROVE LogInv'
<1> USE BoundAssumption DEF Resetting
<1> DEFINE Same == \A p \in Processes :
                      life[p] = "unstarted" <=> life'[p] = "unstarted"
<1>1. starts \in Nat BY DEF ReportInv, TypeOK
<1>2. rpc \notin {"idle", "down"} \cup Resetting => starts # 0
  BY DEF LogInv
<1>3. CASE StartEmulation
  BY <1>1, <1>3 DEF StartEmulation, pmVars, LogInv, NothingRan,
       CrashNeedsRestart
<1>4. CASE Shutdown \/ StopThread
  BY <1>4, KeepsLogs DEF Shutdown, StopThread, SetStop, pmVars
<1>5. ASSUME NEW p \in Processes, Launch(p), starts # 0, starts' = starts,
             rpc' = "register"
      PROVE LogInv'
  <2>1. \A q \in Processes : life'[q] # "unstarted" =>
          life[q] # "unstarted" \/ q = p
    BY <1>5 DEF Launch, ReportInv, TypeOK, PMTypeOK
  <2> QED BY <1>1, <1>5, <2>1 DEF Launch, LogInv, CrashNeedsRestart
<1>6. ASSUME NEW t \in Transmissions, TransmitNBytes(t) PROVE LogInv'
  BY <1>5, <1>6 DEF TransmitNBytes, LogInv
<1>7. ASSUME NEW r \in Receivers, InitNode(r) PROVE LogInv'
  BY <1>2, <1>5, <1>7 DEF InitNode
<1>8. CASE Join
  BY <1>8, KeepsLogs DEF Join, pmVars
<1>9. ASSUME NEW w \in Workers, KillWorker(w) \/ KillRaises(w) PROVE LogInv'
  <2>1. Same
    BY <1>9 DEF KillWorker, KillRaises, Kill, pmVars, ReportInv, TypeOK, PMTypeOK
  <2> QED BY <1>9, <2>1, KeepsLogs DEF KillWorker, KillRaises, Kill, pmVars
<1>10. CASE RenewThread
  BY <1>10, KeepsLogs DEF RenewThread, Renew
<1>11. CASE Clean
  <2>1. CASE caller = "start"
    <3>1. rpc = "clean" /\ starts # 0 BY <1>11, <2>1 DEF Clean, LogInv
    <3>2. /\ UNCHANGED <<life, pm, at, starts>>
          /\ usable' = FALSE /\ rpc' = "setup"
      BY <1>11, <2>1 DEF Clean, RemoveFiles
    <3>3. starts = 1 => NothingRan BY <2>1, <3>1 DEF LogInv
    <3> QED BY <1>1, <3>1, <3>2, <3>3 DEF LogInv, NothingRan, CrashNeedsRestart
  <2>2. CASE caller # "start"
    BY <1>11, <2>2, KeepsLogs DEF Clean, pmVars
  <2> QED BY <2>1, <2>2
<1>12. CASE Setup \/ StartPolling
  BY <1>2, <1>12, KeepsLogs DEF Setup, StartPolling, StartThread, pmVars
<1>13. CASE RegisterProcess \/ Reply
  BY <1>2, <1>13, KeepsLogs DEF RegisterProcess, Register, Reply, pmVars
<1>14. ASSUME NEW n \in Nodes, SkipNode(n) PROVE LogInv'
  BY <1>2, <1>14, KeepsLogs DEF SkipNode, pmVars
<1>15. CASE ThreadStep
  <2>1. CASE FetchLogs
    <3>1. starts <= 1 => reaped[FAILED] \subseteq logged
      BY <1>1, ReapedHaveStarted DEF LogInv, Outcomes
    <3> QED BY <1>1, <1>15, <2>1, <3>1 DEF ThreadStep, FetchLogs, rpcVars,
              LogInv, NothingRan, CrashNeedsRestart
  <2>2. CASE LogFails
    BY <1>1, <1>15, <2>2 DEF ThreadStep, LogFails, rpcVars, LogInv, NothingRan,
         CrashNeedsRestart
  <2>3. CASE Poll /\ ~FetchLogs /\ ~LogFails
    BY <1>15, <2>3, KeepsLogs
       DEF ThreadStep, rpcVars, Poll, ClearStop, CheckStop, Report,
           InitWorker, NextWorker, Rotate, RotatePc, ReadPc, AfterRead, ReadPids,
           CommandFails
  <2> QED BY <1>15, <2>1, <2>2, <2>3 DEF ThreadStep
<1>16. ASSUME NEW p \in Processes, WrapperStep(p) \/ ProcessEnds(p)
       PROVE LogInv'
  <2>1. Same
    BY <1>16 DEF WrapperStep, ProcessEnds, Daemonize, OpenPidFile, WritePid,
         Exit, ReportInv, TypeOK, PMTypeOK
  <2> QED BY <1>16, <2>1, KeepsLogs DEF WrapperStep, ProcessEnds, Daemonize,
            OpenPidFile, WritePid, Exit, rpcVars
<1>17. CASE Terminated \/ UNCHANGED vars
  BY <1>17, KeepsLogs DEF Terminated, vars, pmVars, rpcVars
<1> QED BY <1>3, <1>4, <1>6, <1>7, <1>8, <1>9, <1>10, <1>11, <1>12, <1>13,
           <1>14, <1>15, <1>16, <1>17 DEF Next, Call, Handle

(* The polling thread of the first emulation never misses a log file of a   *)
(* worker that can be reached.                                              *)
THEOREM FirstThreadSurvives == Spec => []CrashNeedsRestart
<1>1. Init => LogInv
  BY DEF Init, PMInit, LogInv, NothingRan, CrashNeedsRestart
<1>2. ReportInv /\ LogInv /\ [Next]_vars => LogInv'
  BY LogStep
<1>3. LogInv => CrashNeedsRestart
  BY DEF LogInv
<1> QED BY <1>1, <1>2, <1>3, ReportInvariant, PTL DEF Spec

-----------------------------------------------------------------------------
(* A listed transmission leaves the list by its report, by a reset, or by   *)
(* the unlocked initialisation of the list.                                 *)
THEOREM LeavingIsReported == Spec => LeavesByReport
<1> DEFINE Leaves ==
      \A t \in (running \ running') \cap Transmissions :
        \/ Len(published'[t]) = Len(published[t]) + 1
        \/ rpc = "renew"
        \/ pm = "init"
<1>1. TypeOK /\ [Next]_vars => [Leaves]_vars
  <2> SUFFICES ASSUME TypeOK, Next, NEW t \in Transmissions,
                      t \in running, t \notin running'
               PROVE  \/ Len(published'[t]) = Len(published[t]) + 1
                      \/ rpc = "renew" \/ pm = "init"
    OBVIOUS
  <2>1. CASE Report
    <3>1. t \in running \cap (reaped[SUCCESSFUL] \cup reaped[FAILED])
      BY <2>1 DEF Report
    <3>2. PICK k \in Outcomes : published'[t] = Append(published[t], k)
      BY <2>1, <3>1 DEF Report, Outcomes, TypeOK, PMTypeOK
    <3>3. published[t] \in Seq(Outcomes) BY DEF TypeOK, PMTypeOK
    <3> QED BY <3>2, <3>3
  <2>2. CASE Call
    BY <2>2 DEF Call, StartEmulation, Shutdown, TransmitNBytes, Launch, pmVars
  <2>3. CASE StopThread \/ Join \/ RenewThread \/ Clean \/ Setup \/ StartPolling
    BY <2>3 DEF StopThread, SetStop, Join, RenewThread, Renew, Clean,
         RemoveFiles, Setup, StartPolling, StartThread, pmVars
  <2>4. CASE RegisterProcess \/ Reply
    BY <2>4 DEF RegisterProcess, Register, Reply, pmVars
  <2>5. ASSUME NEW w \in Workers, KillWorker(w) \/ KillRaises(w)
        PROVE running' = running
    BY <2>5 DEF KillWorker, KillRaises, Kill, pmVars
  <2>6. ASSUME NEW r \in Receivers, InitNode(r) PROVE running' = running
    BY <2>6 DEF InitNode, Launch
  <2>7. ASSUME NEW n \in Nodes, SkipNode(n) PROVE running' = running
    BY <2>7 DEF SkipNode, pmVars
  <2>8. CASE Poll /\ ~Report
    BY <2>8 DEF Poll, ClearStop, CheckStop, FetchLogs, LogFails, InitWorker,
         NextWorker, Rotate, ReadPids, CommandFails
  <2>9. ASSUME NEW p \in Processes, WrapperStep(p) \/ ProcessEnds(p)
        PROVE running' = running
    BY <2>9 DEF WrapperStep, ProcessEnds, Daemonize, OpenPidFile, WritePid, Exit
  <2>10. ~Terminated BY DEF Terminated, vars, pmVars
  <2> QED BY <2>1, <2>2, <2>3, <2>4, <2>5, <2>6, <2>7, <2>8, <2>9, <2>10
          DEF Next, Handle, ThreadStep
<1> QED BY <1>1, TypeCorrect, PTL DEF Spec, LeavesByReport

(* What the thread has in hand is new in each turn of its loop, and reset   *)
(* removes files when nothing is listed.                                    *)
HandInv ==
    /\ pm \in {"new", "begin", "init", "check", "next", "rotateSuccessful",
               "readSuccessful"} => reaped[SUCCESSFUL] = {} /\ reaped[FAILED] = {}
    /\ pm \in {"rotateFailed", "readFailed"} => reaped[FAILED] = {}
    /\ rpc = "clean" => running = {}

LEMMA HandStep ==
  ASSUME TypeOK, ResetInv, HandInv, [Next]_vars PROVE HandInv'
<1> USE DEF HandInv, TypeOK, PMTypeOK, Outcomes, SUCCESSFUL, FAILED
<1>1. CASE Call
  BY <1>1 DEF Call, StartEmulation, Shutdown, TransmitNBytes, Launch, pmVars
<1>2. CASE StopThread \/ Join \/ Setup \/ StartPolling \/ Reply
  BY <1>2 DEF StopThread, SetStop, Join, Setup, StartPolling, StartThread,
       Reply, pmVars
<1>3. CASE RenewThread BY <1>3 DEF RenewThread, Renew
<1>4. CASE Clean BY <1>4 DEF Clean, RemoveFiles, pmVars
<1>5. CASE RegisterProcess
  <2>1. rpc' # "clean" BY <1>5 DEF RegisterProcess
  <2> QED BY <1>5, <2>1 DEF RegisterProcess, Register
<1>6. ASSUME NEW w \in Workers, KillWorker(w) \/ KillRaises(w) PROVE HandInv'
  BY <1>6 DEF KillWorker, KillRaises, Kill, pmVars
<1>7. ASSUME NEW r \in Receivers, InitNode(r) PROVE HandInv'
  BY <1>7 DEF InitNode, Launch
<1>8. ASSUME NEW n \in Nodes, SkipNode(n) PROVE HandInv'
  BY <1>8 DEF SkipNode, pmVars
<1>9. CASE ThreadStep
  <2> USE DEF rpcVars
  <2>1. rpc = "clean" => pm = "new" BY DEF ResetInv
  <2>2. CASE ClearStop \/ CheckStop \/ FetchLogs \/ LogFails \/ Report
    BY <1>9, <2>1, <2>2
       DEF ThreadStep, ClearStop, CheckStop, FetchLogs, LogFails, Report
  <2>3. ASSUME NEW w \in Workers, InitWorker(w) \/ NextWorker(w) PROVE HandInv'
    BY <1>9, <2>1, <2>3 DEF ThreadStep, InitWorker, NextWorker
  <2>4. ASSUME NEW k \in Outcomes, Rotate(k) PROVE HandInv'
    BY <1>9, <2>1, <2>4 DEF ThreadStep, Rotate, RotatePc, ReadPc, AfterRead
  <2>5. ASSUME NEW k \in Outcomes, ReadPids(k) PROVE HandInv'
    BY <1>9, <2>1, <2>5 DEF ThreadStep, ReadPids, ReadPc, AfterRead
  <2>6. ASSUME NEW k \in Outcomes, CommandFails(k) PROVE HandInv'
    BY <1>9, <2>1, <2>6 DEF ThreadStep, CommandFails, RotatePc, ReadPc, AfterRead
  <2> QED BY <1>9, <2>2, <2>3, <2>4, <2>5, <2>6 DEF ThreadStep, Poll
<1>10. ASSUME NEW p \in Processes, WrapperStep(p) \/ ProcessEnds(p)
       PROVE HandInv'
  BY <1>10 DEF WrapperStep, ProcessEnds, Daemonize, OpenPidFile, WritePid,
       Exit, rpcVars
<1>11. CASE Terminated \/ UNCHANGED vars
  BY <1>11 DEF Terminated, vars, pmVars, rpcVars
<1> QED BY <1>1, <1>2, <1>3, <1>4, <1>5, <1>6, <1>7, <1>8, <1>9, <1>10, <1>11
        DEF Next, Handle

(* One step leaves the pid of a listed process findable, unless it is a cat *)
(* of its file that fails.                                                  *)
LEMMA SightStep ==
  ASSUME TypeOK, EndedHasOutcome, HandInv, Next, NEW p \in running,
         p \in running', InSight(p), ~CatFails(p)
  PROVE  InSight(p)'
<1> USE DEF InSight, TypeOK, PMTypeOK
<1>0. p \in Processes /\ life[p] = "recorded" /\ outcome[p] \in Outcomes
  BY DEF EndedHasOutcome
<1>1. CASE UNCHANGED <<outcome, file, at, pm, reaped>> /\ life'[p] = life[p]
  BY <1>1 DEF Worker
<1>2. CASE Call \/ StopThread \/ Join \/ Setup \/ StartPolling \/ Reply
  BY <1>0, <1>2 DEF Call, StartEmulation, Shutdown, TransmitNBytes, Launch,
       StopThread, SetStop, Join, Setup, StartPolling, StartThread, Reply,
       ReadPc, Worker, pmVars
<1>3. CASE RenewThread BY <1>3 DEF RenewThread, Renew
<1>4. CASE Clean BY <1>1, <1>4 DEF Clean, HandInv, pmVars
<1>5. CASE RegisterProcess BY <1>1, <1>5 DEF RegisterProcess, Register
<1>6. ASSUME NEW w \in Workers, KillWorker(w) \/ KillRaises(w)
      PROVE InSight(p)'
  BY <1>0, <1>6 DEF KillWorker, KillRaises, Kill, pmVars, Worker
<1>7. ASSUME NEW r \in Receivers, InitNode(r) PROVE InSight(p)'
  BY <1>0, <1>1, <1>7 DEF InitNode, Launch
<1>8. ASSUME NEW n \in Nodes, SkipNode(n) PROVE InSight(p)'
  BY <1>1, <1>8 DEF SkipNode, pmVars
<1>9. CASE ClearStop \/ CheckStop \/ FetchLogs \/ LogFails \/
             \E w \in Workers : InitWorker(w) \/ NextWorker(w)
  <2>1. pm # ReadPc(outcome[p])
    BY <1>9 DEF ClearStop, CheckStop, FetchLogs, LogFails, InitWorker, NextWorker,
         ReadPc
  <2> QED BY <1>9, <2>1 DEF ClearStop, CheckStop, FetchLogs, LogFails, InitWorker,
            NextWorker
<1>10. CASE Report
  <2>1. pm # ReadPc(outcome[p]) BY <1>10 DEF Report, ReadPc
  <2>2. CASE p \in reaped[outcome[p]]
    <3>1. p \notin reaped[SUCCESSFUL] \cup reaped[FAILED]
      BY <1>10 DEF Report
    <3>2. outcome[p] \notin Outcomes BY <2>2, <3>1 DEF Outcomes
    <3> QED BY <1>0, <3>2 DEF EndedHasOutcome, Outcomes
  <2> QED BY <1>10, <2>1, <2>2 DEF Report
<1>11. ASSUME NEW k \in Outcomes, Rotate(k) PROVE InSight(p)'
  <2>1. pm # ReadPc(outcome[p]) BY <1>11 DEF Rotate, RotatePc, ReadPc
  <2>2. CASE p \in reaped[outcome[p]] BY <1>11, <2>2 DEF Rotate
  <2>3. CASE file[p] = "current"
    <3>1. CASE p \in On(at) /\ outcome[p] = k
      BY <1>0, <1>11, <2>3, <3>1 DEF Rotate, On
    <3>2. CASE ~(p \in On(at) /\ outcome[p] = k)
      BY <1>0, <1>11, <2>3, <3>2 DEF Rotate
    <3> QED BY <3>1, <3>2
  <2> QED BY <2>1, <2>2, <2>3
<1>12. ASSUME NEW k \in Outcomes, ReadPids(k) PROVE InSight(p)'
  <2>1. CASE file[p] = "current" BY <1>12, <2>1 DEF ReadPids
  <2>2. CASE file[p] = "rotated" /\ at = Worker(p) /\ pm = ReadPc(outcome[p])
    <3>1. outcome[p] = k
      BY <1>0, <1>12, <2>2 DEF ReadPids, ReadPc, Outcomes, SUCCESSFUL, FAILED
    <3> QED BY <1>0, <1>12, <2>2, <3>1 DEF ReadPids, On
  <2>3. CASE p \in reaped[outcome[p]]
    <3>1. reaped[k] = {}
      BY <1>12 DEF ReadPids, ReadPc, HandInv, Outcomes, SUCCESSFUL, FAILED
    <3>2. outcome[p] # k BY <2>3, <3>1
    <3> QED BY <1>12, <2>3, <3>2 DEF ReadPids
  <2> QED BY <2>1, <2>2, <2>3
<1>13. ASSUME NEW q \in Processes, WrapperStep(q) \/ ProcessEnds(q)
       PROVE InSight(p)'
  BY <1>0, <1>13 DEF WrapperStep, ProcessEnds, Daemonize, OpenPidFile,
       WritePid, Exit, Worker
<1>14. CASE Terminated BY <1>1, <1>14 DEF Terminated, vars, pmVars
<1>15. ASSUME NEW k \in Outcomes, CommandFails(k) PROVE InSight(p)'
  <2>1. UNCHANGED <<outcome, file, at, reaped, life>> BY <1>15 DEF CommandFails
  <2>2. CASE file[p] = "current" \/ p \in reaped[outcome[p]] BY <2>1, <2>2
  <2>3. CASE at = Worker(p) /\ pm = ReadPc(outcome[p])
    <3>1. outcome[p] = k
      BY <1>0, <1>15, <2>3 DEF CommandFails, RotatePc, ReadPc, Outcomes,
           SUCCESSFUL, FAILED
    <3> QED BY <1>15, <2>3, <3>1 DEF CatFails
  <2> QED BY <2>2, <2>3
<1> QED BY <1>2, <1>3, <1>4, <1>5, <1>6, <1>7, <1>8, <1>9, <1>10, <1>11,
           <1>12, <1>13, <1>14, <1>15 DEF Next, Handle, ThreadStep, Poll

(* Rotating the pid files loses no line that was complete before, but to a  *)
(* cat that fails.                                                          *)
THEOREM NoLineIsDropped == Spec => NoLineDropped
<1> DEFINE Kept == \A p \in running \cap running' :
                     InSight(p) => InSight(p)' \/ CatFails(p)
<1>1. Init => HandInv
  BY DEF Init, PMInit, HandInv, Outcomes, SUCCESSFUL, FAILED
<1>2. TypeOK /\ ResetInv /\ HandInv /\ [Next]_vars => HandInv'
  BY HandStep
<1>3. TypeOK /\ ReportInv /\ HandInv /\ [Next]_vars => [Kept]_vars
  BY SightStep DEF ReportInv
<1> QED BY <1>1, <1>2, <1>3, TypeCorrect, ReportInvariant, ResetInvariant, PTL
        DEF Spec, NoLineDropped

-----------------------------------------------------------------------------
(* A step of the emulator that does not touch a transmission is a stutter   *)
(* for it in the abstract service.                                          *)
LEMMA BarsOf ==
  ASSUME NEW t \in Transmissions
  PROVE  /\ stageBar[t] = CASE life[t] = "unstarted" -> "unsent"
                            [] life[t] = "running" -> "sent"
                            [] OTHER -> "over"
         /\ resultBar[t] = outcome[t]
         /\ reportsBar[t] = published[t]
BY DEF stageBar, resultBar, reportsBar

(* How one step changes one transmission. *)
Steps(t) ==
    \/ life'[t] = life[t] /\ outcome'[t] = outcome[t]
       /\ published'[t] = published[t]
    \/ life[t] = "unstarted" /\ life'[t] = "running"
       /\ outcome'[t] = outcome[t] /\ published'[t] = published[t]
    \/ life[t] = "running" /\ life'[t] = "exited"
       /\ outcome'[t] \in Outcomes /\ published'[t] = published[t]
    \/ life[t] \in {"exited", "opened"} /\ life'[t] \in {"opened", "recorded"}
       /\ outcome'[t] = outcome[t] /\ published'[t] = published[t]
    \/ life[t] \notin {"unstarted", "running"} /\ life'[t] = life[t]
       /\ outcome'[t] = outcome[t]
       /\ published[t] = <<>> /\ published'[t] = <<outcome[t]>>

LEMMA StepsOfNext ==
  ASSUME ReportInv, Next, NEW t \in Transmissions
  PROVE  Steps(t)
<1> USE ProcessAssumption, PlacementAssumption
        DEF Steps, ReportInv, TypeOK, PMTypeOK
<1>1. CASE Call
  BY <1>1 DEF Call, StartEmulation, Shutdown, TransmitNBytes, Launch, pmVars
<1>2. CASE Handle
  <2>1. CASE StopThread \/ Join \/ RenewThread \/ Clean \/ Setup
    BY <2>1 DEF StopThread, SetStop, Join, RenewThread, Renew, Clean,
         RemoveFiles, Setup, pmVars
  <2>2. CASE StartPolling \/ RegisterProcess \/ Reply
    BY <2>2 DEF StartPolling, StartThread, RegisterProcess, Register, Reply,
         pmVars
  <2>3. ASSUME NEW w \in Workers, KillWorker(w) \/ KillRaises(w)
        PROVE Steps(t)
    BY <2>3 DEF KillWorker, KillRaises, Kill, pmVars, Outcomes
  <2>4. ASSUME NEW r \in Receivers, InitNode(r) PROVE Steps(t)
    BY <2>4 DEF InitNode, Launch
  <2>5. ASSUME NEW n \in Nodes, SkipNode(n) PROVE Steps(t)
    BY <2>5 DEF SkipNode, pmVars
  <2> QED BY <1>2, <2>1, <2>2, <2>3, <2>4, <2>5 DEF Handle
<1>3. CASE ThreadStep
  <2>1. CASE Report
    <3>1. CASE published'[t] = published[t] BY <2>1, <3>1 DEF Report
    <3>2. CASE published'[t] # published[t]
      <4>1. t \in running /\ life[t] \notin {"unstarted", "running"}
        <5>1. t \in running /\ \E k \in Outcomes : t \in reaped[k]
          BY <2>1, <3>2 DEF Report, Outcomes
        <5>2. outcome[t] \in Outcomes BY <5>1 DEF ReapedMatches
        <5> QED BY <5>1, <5>2 DEF EndedHasOutcome, Outcomes, SUCCESSFUL, FAILED
      <4>2. published[t] = <<>> BY <4>1 DEF ReportedIsOff
      <4>3. published'[t] = <<outcome[t]>>
        <5>1. published'[t] # <<>> BY <3>2, <4>2
        <5>2. ReportRest' /\ outcome' = outcome
          BY <1>3, <2>1, ReportStep DEF ReportRest, ThreadStep, rpcVars, Report
        <5> QED BY <5>1, <5>2 DEF ReportRest, ReportedIsOff
      <4> QED BY <2>1, <4>1, <4>2, <4>3 DEF Report
    <3> QED BY <3>1, <3>2
  <2>2. CASE Poll /\ ~Report
    BY <2>2 DEF Poll, ClearStop, CheckStop, FetchLogs, LogFails, InitWorker,
         NextWorker, Rotate, ReadPids, CommandFails
  <2> QED BY <1>3, <2>1, <2>2 DEF ThreadStep
<1>4. ASSUME NEW p \in Processes, WrapperStep(p) \/ ProcessEnds(p)
      PROVE Steps(t)
  BY <1>4 DEF WrapperStep, ProcessEnds, Daemonize, OpenPidFile, WritePid, Exit
<1>5. CASE Terminated BY <1>5 DEF Terminated, vars, pmVars
<1> QED BY <1>1, <1>2, <1>3, <1>4, <1>5 DEF Next

(* Every step of the emulator is a step of the service or a stutter.        *)
LEMMA ServiceStep ==
  ASSUME ReportInv, [Next]_vars PROVE [Service!Next]_(Service!vars)
<1>1. CASE Next
  <2> SUFFICES ASSUME NEW t \in Transmissions
               PROVE  Service!Send(t) \/ Service!Finish(t)
                      \/ Service!Report(t) \/ Service!Stay(t)
    BY DEF Service!Next
  <2>1. Steps(t) BY <1>1, StepsOfNext
  <2>2. /\ stageBar'[t] = CASE life'[t] = "unstarted" -> "unsent"
                            [] life'[t] = "running" -> "sent"
                            [] OTHER -> "over"
        /\ resultBar'[t] = outcome'[t]
        /\ reportsBar'[t] = published'[t]
    BY DEF stageBar, resultBar, reportsBar
  <2> QED BY <2>1, <2>2, BarsOf
          DEF Steps, Service!Send, Service!Finish, Service!Report,
              Service!Stay
<1>2. CASE UNCHANGED vars
  BY <1>2 DEF vars, pmVars, Service!vars, stageBar, resultBar, reportsBar
<1> QED BY <1>1, <1>2

(* The emulator implements the abstract transmission service.               *)
THEOREM Refinement == Spec => ImplementsService
<1>1. Init => Service!Init
  BY DEF Init, PMInit, Service!Init, stageBar, resultBar, reportsBar
<1>2. ReportInv /\ [Next]_vars => [Service!Next]_(Service!vars)
  BY ServiceStep
<1> QED BY <1>1, <1>2, ReportInvariant, PTL
        DEF Spec, ImplementsService, Service!Spec
=============================================================================
