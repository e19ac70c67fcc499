----------------------------- MODULE MCSimulation -----------------------------
(* Instances of Simulation for TLC. *)
EXTENDS Simulation

CONSTANTS a1, a2, n1, IntervalOfAll, FirstStart, SecondStart

MCTasks == AMs \cup NMs
MCJobId == [a \in AMs |-> a]
MCInterval == [t \in Tasks |-> IntervalOfAll]
MCDuration == [t \in Tasks |-> Far]
(* When each application starts: a node is there from the beginning.       *)
MCStart == [t \in Tasks |-> IF t = a1 THEN FirstStart ELSE IF t = a2 THEN SecondStart ELSE 0]
MCWork == [a \in AMs |-> 1]
=============================================================================
