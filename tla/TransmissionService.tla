------------------------- MODULE TransmissionService -------------------------
(***************************************************************************)
(* What the network emulator promises its clients about transmissions,     *)
(* without its threads, files and emulations: a transmission is sent, it   *)
(* is over with one outcome, and then, at most once, that outcome is       *)
(* reported.  It does not promise that the report comes.  One step may     *)
(* move several transmissions: the emulator kills and reports in batches.  *)
(***************************************************************************)
EXTENDS Sequences

CONSTANTS Transmissions, Outcomes

VARIABLES
    stage,      \* where each transmission is
    result,     \* its outcome once it is over
    reports     \* what was published for it

vars == <<stage, result, reports>>

Init ==
    /\ stage = [t \in Transmissions |-> "unsent"]
    /\ result = [t \in Transmissions |-> "none"]
    /\ reports = [t \in Transmissions |-> <<>>]

Send(t) ==
    /\ stage[t] = "unsent" /\ stage'[t] = "sent"
    /\ result'[t] = result[t] /\ reports'[t] = reports[t]

Finish(t) ==
    /\ stage[t] = "sent" /\ stage'[t] = "over"
    /\ result'[t] \in Outcomes /\ reports'[t] = reports[t]

Report(t) ==
    /\ stage[t] = "over" /\ stage'[t] = "over"
    /\ reports[t] = <<>> /\ reports'[t] = <<result[t]>>
    /\ result'[t] = result[t]

Stay(t) ==
    stage'[t] = stage[t] /\ result'[t] = result[t] /\ reports'[t] = reports[t]

Next == \A t \in Transmissions : Send(t) \/ Finish(t) \/ Report(t) \/ Stay(t)

Spec == Init /\ [][Next]_vars
=============================================================================
