-------------------------- MODULE MCWorkflowLoop --------------------------
(***************************************************************************)
(* Small instances of the plan/tool loop: one or two calls per step.       *)
(***************************************************************************)
EXTENDS WorkflowLoop

OneCall == {1}
TwoCalls == {1, 2}
TheAwaitCall == 9

AllClasses == {"budgeted", "bookkeeping", "terminal"}
WorkClasses == {"budgeted", "bookkeeping"}
AnyConfirms == {TRUE, FALSE}
AllAwaits == {"none", "text", "tool"}
NoAwaits == {"none"}

AllOutcomes == {"ok", "clarify", "child", "correct", "missing", "replan", "finish", "error"}
ParallelOutcomes == {"ok", "clarify", "child", "missing", "replan", "error"}
ChildOutcomes == {"ok", "child"}

\* A policy that leaves the caps alone, or tightens what remains to one.
NoCaps == [maxTools |-> 0, remTools |-> 0, maxFails |-> 0, remFails |-> 0]
NoDecisions == {NoCaps}
Tightening == {NoCaps, [maxTools |-> 0, remTools |-> 1, maxFails |-> 0, remFails |-> 1]}

=============================================================================
