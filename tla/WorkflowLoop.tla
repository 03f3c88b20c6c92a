--------------------------- MODULE WorkflowLoop ---------------------------
(***************************************************************************)
(* The plan/tool loop of one agent run (runtime/agent/runtime:             *)
(* workflow_loop.go, workflow_step.go, workflow_turn.go,                   *)
(* workflow_support.go, workflow_await_queue.go, workflow_suspension.go,   *)
(* tool_calls.go), across the suspensions that hand it from one workflow   *)
(* to the next.                                                            *)
(*                                                                         *)
(* A planner result is one step: its tool calls and await items are        *)
(* committed to the transcript, executed, recorded, and one policy         *)
(* decision is made about what comes next.  Planner results are given      *)
(* after the rewriting of unknown and denied calls: a rewritten call is a  *)
(* budgeted call that fails with a replan directive.                       *)
(*                                                                         *)
(* Time is kept as what is left of the two deadlines of the run, counted   *)
(* in ticks: a suspension saves the rest and the continuation restores it. *)
(***************************************************************************)
EXTENDS Integers, FiniteSets, FiniteSetsExt, Sequences, SequencesExt

CONSTANTS
    Calls,          \* identities of a step's tool calls, in the planner's order
    AwaitCall,      \* identity of the call that a planner's await item carries
    Classes,        \* tool classes the planner uses
    Confirms,       \* whether the planner's calls need confirmation
    Awaits,         \* await items the planner uses
    Outcomes,       \* what an executed tool can come back with
    Decisions,      \* caps a policy decision can return; 0 leaves a cap alone
    MaxToolCalls, MaxFailures,     \* the run's caps; 0 means not configured
    TimeBudget, Grace,             \* ticks; TimeBudget = 0 means no deadlines
    OnMissingFields,               \* "resume", "finalize" or "await"
    LimitTerminalPlans,            \* fixed terminal calls are configured
    HasSession                     \* a run without a session cannot suspend

ASSUME ConstantsAssumption ==
    /\ Calls \subseteq Nat /\ Calls # {} /\ IsFiniteSet(Calls)
    /\ AwaitCall \in Nat \ Calls
    /\ Classes \subseteq {"budgeted", "bookkeeping", "terminal"}
    /\ Confirms \subseteq BOOLEAN
    /\ Awaits \subseteq {"none", "text", "tool"}
    /\ Outcomes \subseteq {"ok", "clarify", "child", "correct", "missing",
                           "replan", "finish", "error"}
    /\ Decisions \subseteq [{"maxTools", "remTools", "maxFails", "remFails"} -> Nat]
    /\ {MaxToolCalls, MaxFailures, TimeBudget, Grace} \subseteq Nat
    /\ OnMissingFields \in {"resume", "finalize", "await"}
    /\ {LimitTerminalPlans, HasSession} \subseteq BOOLEAN

VARIABLES
    pc,         \* where the loop is
    result,     \* the planner result of the current step
    caps,       \* policy.CapsState
    left,       \* what is left of the Budget and Hard deadlines
    batch,      \* the stepBatch: records, recorded, cost, flags
    exec,       \* the calls not yet started and in flight
    pending,    \* the queue of requests a suspension waits on
    reason,     \* why the run is being finalized
    out,        \* how the run ended
    uses,       \* history: the calls committed to the transcript by this step
    answers,    \* history: how often each of them got a result
    spent,      \* history: budgeted calls the run has started
    streak,     \* history: steps in a row whose budgeted calls all failed
    clock       \* history: ticks the run's workflows have been running

vars == <<pc, result, caps, left, batch, exec, pending, reason, out,
          uses, answers, spent, streak, clock>>

-----------------------------------------------------------------------------
(* Planner results, records and caps.                                      *)

Ids == Calls \cup {AwaitCall}

PlanResults ==
    UNION {{[spec |-> s, await |-> a, final |-> f] :
              s \in [S \cup (IF a = "tool" THEN {AwaitCall} ELSE {}) ->
                        [class : Classes, confirm : Confirms]]} :
              S \in SUBSET Calls, a \in Awaits, f \in BOOLEAN}

NoResult == [spec |-> <<>>, await |-> "none", final |-> FALSE]
PlanCalls(r) == DOMAIN r.spec \cap Calls
BookkeepingCall(r, c) == r.spec[c].class # "budgeted"
BudgetedCalls(r, S) == {c \in S : ~BookkeepingCall(r, c)}
TerminalRun(r, c) == r.spec[c].class = "terminal"

\* counted is history: the step has been added to streak.
NoBatch == [recs |-> <<>>, recorded |-> {}, cost |-> 0, timedOut |-> FALSE,
            awaited |-> FALSE, failed |-> FALSE, counted |-> FALSE]
NoExec == [queue |-> {}, inflight |-> {}]

WithRecords(recs, S, outcome) ==
    [c \in DOMAIN recs \cup S |-> IF c \in S THEN outcome ELSE recs[c]]

Failures == {"correct", "missing", "replan", "finish", "timeout"}

decrementCap(current, delta) ==
    IF current = 0 \/ delta = 0 THEN current ELSE Max({current - delta, 0})

mergeCapDown(current, decision) ==
    IF current = 0 \/ decision = 0 THEN current ELSE Min({current, decision})

mergeCaps(c, d) == [k \in DOMAIN c |-> mergeCapDown(c[k], d[k])]

\* Mutant: any remaining call admits the whole batch.
admitToolBatchPartly(cost, c) == c.maxTools <= 0 \/ c.remTools > 0

admitToolBatch(cost, c) == c.maxTools <= 0 \/ cost <= c.remTools

initialCaps == [maxTools |-> MaxToolCalls, remTools |-> MaxToolCalls,
                maxFails |-> MaxFailures, remFails |-> MaxFailures]

-----------------------------------------------------------------------------
(* Deadlines.                                                              *)

Timed == TimeBudget > 0
BudgetPassed == Timed /\ left.budget = 0
HardPassed == Timed /\ left.hard = 0
DeadlinePassed(c) == IF BookkeepingCall(result, c) THEN HardPassed ELSE BudgetPassed

Running == pc \notin {"suspended", "done"}

(* Time passes while a workflow runs; none of it is charged to a suspended *)
(* run, whose checkpoint keeps what is left.                               *)
Tick ==
    /\ Timed /\ Running /\ left.hard > 0
    /\ left' = [budget |-> Max({left.budget - 1, 0}), hard |-> left.hard - 1]
    /\ clock' = clock + 1
    /\ UNCHANGED <<pc, result, caps, batch, exec, pending, reason, out,
                   uses, answers, spent, streak>>

-----------------------------------------------------------------------------
(* The ends of a step.                                                     *)

commitSelectedModelResponse(S) ==
    /\ uses' = S
    /\ answers' = [c \in S |-> 0]

(* Every result of the batch that the transcript does not have yet; a call *)
(* whose child is still suspended has none and becomes a malformed result. *)
Recorded(b) ==
    [b EXCEPT !.recorded = DOMAIN b.recs,
              !.recs = [c \in DOMAIN @ |-> IF @[c] = "child" THEN "finish" ELSE @[c]]]
\* Mutant: results recorded before a question are recorded again.
recordAllStepToolResults(b) ==
    answers' = [c \in DOMAIN answers |->
                  answers[c] + IF c \in DOMAIN b.recs THEN 1 ELSE 0]

recordUnrecordedStepToolResults(b) ==
    answers' = [c \in DOMAIN answers |->
                  answers[c] + IF c \in DOMAIN b.recs \ b.recorded THEN 1 ELSE 0]

EndRun(o) == pc' = "done" /\ out' = o
finalizeStep(why) == pc' = "finalizing" /\ reason' = why

\* Mutant: only the calls that produced a result are closed.
failCommittedStepPartly(b) ==
    /\ recordUnrecordedStepToolResults(b)
    /\ batch' = Recorded(b)
    /\ EndRun("failed")

(* A committed step that fails answers each of its calls before the error  *)
(* is returned.                                                            *)
failCommittedStep(b) ==
    LET closed == [b EXCEPT !.recs =
                      WithRecords(b.recs, DOMAIN result.spec \ DOMAIN b.recs, "finish")]
    IN /\ recordUnrecordedStepToolResults(closed)
       /\ batch' = Recorded(closed)
       /\ EndRun("failed")

-----------------------------------------------------------------------------
(* Planning.                                                               *)

Init ==
    /\ pc = "planning"
    /\ result = NoResult
    /\ caps = initialCaps
    /\ left = [budget |-> TimeBudget, hard |-> TimeBudget + Grace]
    /\ batch = NoBatch /\ exec = NoExec /\ pending = <<>>
    /\ reason = "none" /\ out = "none"
    /\ uses = {} /\ answers = <<>>
    /\ spent = 0 /\ streak = 0 /\ clock = 0

\* Mutant: the plan activity has no deadline.
PlanReturnsLate(r) ==
    /\ pc = "planning"
    /\ result' = r
    /\ batch' = NoBatch
    /\ pc' = "step"
    /\ UNCHANGED <<caps, left, exec, pending, reason, out,
                   uses, answers, spent, streak, clock>>

PlanReturns(r) ==
    /\ pc = "planning" /\ ~BudgetPassed
    /\ result' = r
    /\ batch' = NoBatch
    /\ pc' = "step"
    /\ UNCHANGED <<caps, left, exec, pending, reason, out,
                   uses, answers, spent, streak, clock>>

PlanTimesOut ==
    /\ pc = "planning" /\ BudgetPassed
    /\ finalizeStep("time_budget")
    /\ UNCHANGED <<result, caps, left, batch, exec, pending, out,
                   uses, answers, spent, streak, clock>>

(* The planner fails, its session has ended, or its result is empty.       *)
PlanFails ==
    /\ pc = "planning"
    /\ EndRun("failed")
    /\ UNCHANGED <<result, caps, left, batch, exec, pending, reason,
                   uses, answers, spent, streak, clock>>

-----------------------------------------------------------------------------
(* normalizeStep and the checks made before the response is committed.     *)

Kind(r) ==
    CASE PlanCalls(r) = {} /\ r.final /\ r.await = "none" -> "terminal"
      [] PlanCalls(r) # {} /\ r.final /\ r.await = "none" -> "toolterminal"
      [] PlanCalls(r) # {} /\ ~r.final -> "tools"
      [] PlanCalls(r) = {} /\ ~r.final /\ r.await # "none" -> "await"
      [] OTHER -> "invalid"

ValidStep(r) ==
    /\ Kind(r) # "invalid"
    /\ Kind(r) = "toolterminal" =>
          \A c \in PlanCalls(r) : r.spec[c].class = "bookkeeping" /\ ~r.spec[c].confirm
    /\ r.await = "tool" => ~TerminalRun(r, AwaitCall)
    /\ (\E c \in PlanCalls(r) : TerminalRun(r, c)) =>
          (\A c \in PlanCalls(r) : TerminalRun(r, c)) /\ r.await = "none"

OutOfTime(r) ==
    /\ Kind(r) = "tools" /\ BudgetPassed
    /\ BudgetedCalls(r, PlanCalls(r)) = PlanCalls(r)

(* The result is refused before anything of it is committed: it is         *)
(* malformed, outside the recovery catalog or, whatever its kind, not      *)
(* normalizable; or the policy disables tools.                             *)
StepRejected ==
    /\ pc = "step"
    /\ EndRun("failed")
    /\ UNCHANGED <<result, caps, left, batch, exec, pending, reason,
                   uses, answers, spent, streak, clock>>

StepOutOfTime ==
    /\ pc = "step" /\ ValidStep(result) /\ OutOfTime(result)
    /\ finalizeStep("time_budget")
    /\ UNCHANGED <<result, caps, left, batch, exec, pending, out,
                   uses, answers, spent, streak, clock>>

StepTerminal ==
    /\ pc = "step" /\ ValidStep(result) /\ Kind(result) = "terminal"
    /\ commitSelectedModelResponse({})
    /\ EndRun("completed")
    /\ UNCHANGED <<result, caps, left, batch, exec, pending, reason,
                   spent, streak, clock>>

(* The whole batch is over the tool-call cap: each call is answered with a *)
(* failure and the run is finalized.                                       *)
StepCapDenied(d) ==
    LET merged == mergeCaps(caps, d)
        cost   == Cardinality(BudgetedCalls(result, PlanCalls(result)))
    IN /\ pc = "step" /\ ValidStep(result) /\ ~OutOfTime(result)
       /\ PlanCalls(result) # {}
       /\ ~admitToolBatch(cost, merged)
       /\ caps' = merged
       /\ uses' = DOMAIN result.spec
       /\ answers' = [c \in DOMAIN result.spec |-> 1]
       /\ finalizeStep("tool_cap")
       /\ UNCHANGED <<result, left, batch, exec, pending, out, spent, streak, clock>>

(* The response is committed and its immediate calls are about to run; an  *)
(* await-only step has none.                                               *)
StepCommits(d) ==
    LET merged == mergeCaps(caps, d)
        cost   == Cardinality(BudgetedCalls(result, PlanCalls(result)))
    IN /\ pc = "step" /\ ValidStep(result) /\ ~OutOfTime(result)
       /\ Kind(result) # "terminal"
       /\ IF PlanCalls(result) = {} THEN caps' = caps
          ELSE admitToolBatch(cost, merged) /\ caps' = merged
       /\ commitSelectedModelResponse(DOMAIN result.spec)
       /\ batch' = [NoBatch EXCEPT !.cost = cost]
       /\ exec' = [queue |-> {c \in PlanCalls(result) : ~result.spec[c].confirm},
                   inflight |-> {}]
       /\ pc' = "executing"
       /\ UNCHANGED <<result, left, pending, reason, out, spent, streak, clock>>

-----------------------------------------------------------------------------
(* Tool execution: the budgeted calls first, then bookkeeping; the calls   *)
(* of a class that share a timeout run together.                           *)

NextGroups ==
    LET budgeted == BudgetedCalls(result, exec.queue)
    IN SUBSET (IF budgeted # {} THEN budgeted ELSE exec.queue) \ {{}}

(* A history counter saturates one past its cap.                           *)
Spend(n) == IF MaxToolCalls = 0 THEN 0 ELSE Min({spent + n, MaxToolCalls + 1})

DispatchToolCalls(G) ==
    /\ pc = "executing" /\ exec.inflight = {}
    /\ exec' = [queue |-> exec.queue \ G,
                inflight |-> {c \in G : ~DeadlinePassed(c)}]
    /\ batch' = [batch EXCEPT
          !.recs = WithRecords(@, {c \in G : DeadlinePassed(c)}, "timeout"),
          !.timedOut = @ \/ \E c \in G : DeadlinePassed(c)]
    /\ spent' = Spend(Cardinality({c \in BudgetedCalls(result, G) : ~DeadlinePassed(c)}))
    /\ UNCHANGED <<pc, result, caps, left, pending, reason, out,
                   uses, answers, streak, clock>>

(* One call returns, in any order; an execution error leaves it without an *)
(* outcome.                                                                *)
ToolReturns(c, o) ==
    /\ pc \in {"executing", "confirmed"} /\ c \in exec.inflight
    /\ exec' = [exec EXCEPT !.inflight = @ \ {c}]
    /\ batch' = IF o = "error" THEN [batch EXCEPT !.failed = TRUE]
                ELSE [batch EXCEPT !.recs = WithRecords(@, {c}, o)]
    /\ UNCHANGED <<pc, result, caps, left, pending, reason, out,
                   uses, answers, spent, streak, clock>>

(* The finalize timer: what is still in flight is cancelled and answered.  *)
ToolTimerFires ==
    /\ pc \in {"executing", "confirmed"} /\ exec.inflight # {}
    /\ \A c \in exec.inflight : DeadlinePassed(c)
    /\ batch' = [batch EXCEPT !.recs = WithRecords(@, exec.inflight, "timeout"),
                              !.timedOut = TRUE]
    /\ exec' = [exec EXCEPT !.inflight = {}]
    /\ UNCHANGED <<pc, result, caps, left, pending, reason, out,
                   uses, answers, spent, streak, clock>>

With(b, o) == {c \in DOMAIN b.recs : b.recs[c] = o}

(* Outputs that contradict the step: a terminal tool or a step with a      *)
(* terminal payload asks for clarification, or a tool does while the       *)
(* planner awaits.                                                         *)
OutputsRejected(b) ==
    \/ b.failed
    \/ \E c \in With(b, "clarify") : TerminalRun(result, c)
    \/ With(b, "clarify") # {} /\ (result.await # "none" \/ result.final)

(* Confirmation-gated calls whose deadline has passed cannot be approved:  *)
(* they are answered as timed out.                                         *)
resolveExpiredConfirmations(b) ==
    LET expired == {c \in PlanCalls(result) :
                      result.spec[c].confirm /\ DeadlinePassed(c)}
    IN [b EXCEPT !.recs = WithRecords(@, expired, "timeout"),
                 !.timedOut = @ \/ expired # {}]

Request(kind, c) == [kind |-> kind, call |-> c]

(* The members of S in the planner's order: SetToSortSeq(S, <), by the     *)
(* property that proofs use.                                               *)
InOrder(S) == CHOOSE q \in [1..Cardinality(S) -> S] :
                  \A i, j \in 1..Cardinality(S) : i < j => q[i] < q[j]
Requests(kind, S) == [i \in 1..Cardinality(S) |-> Request(kind, InOrder(S)[i])]

(* Confirmations, then suspended children, then await items and the        *)
(* tools' own questions.                                                   *)
AwaitQueue(b) ==
    Requests("confirm", {c \in PlanCalls(result) \ DOMAIN b.recs : result.spec[c].confirm})
    \o Requests("child", With(b, "child"))
    \o (IF result.await = "none" THEN <<>> ELSE <<Request(result.await, AwaitCall)>>)
    \o Requests("text", With(b, "clarify"))

(* A tool's question is asked after its result, unless something else of   *)
(* the step is still open.                                                 *)
RecordsBeforeAsking(q) == q # <<>> /\ \A i \in 1..Len(q) : q[i].kind = "text"
                          /\ result.await = "none"

ExecutionEnded == pc = "executing" /\ exec = NoExec

ExecutionFails ==
    /\ ExecutionEnded
    /\ \/ OutputsRejected(batch)
       \/ ~HasSession /\ AwaitQueue(resolveExpiredConfirmations(batch)) # <<>>
    /\ failCommittedStep(IF OutputsRejected(batch) THEN batch
                         ELSE resolveExpiredConfirmations(batch))
    /\ UNCHANGED <<result, caps, left, exec, pending, reason, uses, spent, streak, clock>>

suspendRun(b, q) ==
    /\ pc' = "suspended"
    /\ pending' = q
    /\ batch' = [b EXCEPT !.awaited = TRUE]

ExecutionSuspends ==
    LET b == resolveExpiredConfirmations(batch)
        q == AwaitQueue(b)
    IN /\ ExecutionEnded /\ ~OutputsRejected(batch)
       /\ q # <<>> /\ HasSession
       /\ IF RecordsBeforeAsking(q)
          THEN recordUnrecordedStepToolResults(b) /\ suspendRun(Recorded(b), q)
          ELSE suspendRun(b, q) /\ UNCHANGED answers
       /\ UNCHANGED <<result, caps, left, exec, reason, out, uses, spent, streak, clock>>

ExecutionCompletes ==
    LET b == resolveExpiredConfirmations(batch)
    IN /\ ExecutionEnded /\ ~OutputsRejected(batch)
       /\ AwaitQueue(b) = <<>>
       /\ batch' = b
       /\ pc' = "advance"
       /\ UNCHANGED <<result, caps, left, exec, pending, reason, out,
                      uses, answers, spent, streak, clock>>

-----------------------------------------------------------------------------
(* A continuation consumes the first request of the queue and suspends     *)
(* again while one is left.                                                *)

\* Mutant: the step goes on after one answer, whatever is still asked.
consumeOnePendingInput(b, generated) ==
    /\ batch' = b
    /\ pending' = Tail(pending) \o generated
    /\ pc' = "advance"

consumePendingInput(b, generated) ==
    LET q == Tail(pending) \o generated
    IN /\ batch' = b
       /\ pending' = q
       /\ pc' = IF q = <<>> THEN "advance" ELSE "suspended"

Asked(kind) == pc = "suspended" /\ Head(pending).kind = kind
Resolve(c, o) == [batch EXCEPT !.recs = WithRecords(@, {c}, o)]

AnswerClarification ==
    /\ Asked("text")
    /\ consumePendingInput(batch, <<>>)
    /\ UNCHANGED <<result, caps, left, exec, reason, out,
                   uses, answers, spent, streak, clock>>

ProvideToolResult(o) ==
    /\ Asked("tool")
    /\ consumePendingInput(Resolve(AwaitCall, o), <<>>)
    /\ UNCHANGED <<result, caps, left, exec, reason, out,
                   uses, answers, spent, streak, clock>>

DenyConfirmation ==
    /\ Asked("confirm")
    /\ consumePendingInput(Resolve(Head(pending).call, "denied"), <<>>)
    /\ UNCHANGED <<result, caps, left, exec, reason, out,
                   uses, answers, spent, streak, clock>>

\* Mutant: an approved call is executed whatever time is left.
ApproveConfirmationLate ==
    LET c == Head(pending).call
    IN /\ Asked("confirm")
       /\ exec' = [NoExec EXCEPT !.inflight = {c}]
       /\ spent' = Spend(Cardinality(BudgetedCalls(result, {c})))
       /\ pc' = "confirmed"
       /\ UNCHANGED <<batch, pending, result, caps, left, reason, out,
                      uses, answers, streak, clock>>

ApproveConfirmation ==
    LET c == Head(pending).call
    IN /\ Asked("confirm")
       /\ IF DeadlinePassed(c)
          THEN /\ consumePendingInput([Resolve(c, "timeout") EXCEPT !.timedOut = TRUE], <<>>)
               /\ UNCHANGED <<exec, spent>>
          ELSE /\ exec' = [NoExec EXCEPT !.inflight = {c}]
               /\ spent' = Spend(Cardinality(BudgetedCalls(result, {c})))
               /\ pc' = "confirmed"
               /\ UNCHANGED <<batch, pending>>
       /\ UNCHANGED <<result, caps, left, reason, out, uses, answers, streak, clock>>

ConfirmedCompletes ==
    LET c == Head(pending).call
    IN /\ pc = "confirmed" /\ exec = NoExec /\ ~batch.failed
       /\ consumePendingInput(batch, IF batch.recs[c] = "clarify"
                                     THEN <<Request("text", c)>> ELSE <<>>)
       /\ UNCHANGED <<result, caps, left, exec, reason, out,
                      uses, answers, spent, streak, clock>>

(* The answer goes to a new child workflow, which completes or asks again. *)
AnswerChild(o) ==
    LET c == Head(pending).call
    IN /\ Asked("child")
       /\ IF o = "child" THEN consumePendingInput(batch, <<Head(pending)>>)
          ELSE consumePendingInput(Resolve(c, o), <<>>)
       /\ UNCHANGED <<result, caps, left, exec, reason, out,
                      uses, answers, spent, streak, clock>>

(* The response does not fit the request, the child workflow fails, or the *)
(* confirmed call ends in an execution error: the error is returned as is. *)
ContinuationFails ==
    /\ \/ pc = "suspended"
       \/ pc = "confirmed" /\ exec = NoExec /\ batch.failed
    /\ EndRun("failed")
    /\ UNCHANGED <<result, caps, left, batch, exec, pending, reason,
                   uses, answers, spent, streak, clock>>

-----------------------------------------------------------------------------
(* advanceStep: the results are recorded and one transition is chosen.     *)

Recs == Recorded(batch).recs

RequiresResume(c) ==
    ~BookkeepingCall(result, c) \/ Recs[c] \in Failures \cup {"denied", "answered"}

classifyStep ==
    IF Recs = <<>> \/ \E c \in DOMAIN Recs : RequiresResume(c) THEN "resume"
    ELSE IF \E c \in DOMAIN Recs : TerminalRun(result, c) THEN "finish"
    ELSE IF batch.awaited THEN "resume" ELSE "invalid"

BudgetedOutcomes == {Recs[c] : c \in BudgetedCalls(result, DOMAIN Recs)}
Progress == BudgetedOutcomes \ Failures # {}
AllFailed == BudgetedOutcomes # {} /\ ~Progress

ChargedCaps == [caps EXCEPT !.remTools = decrementCap(@, batch.cost)]

\* Mutant: a batch is charged by its width.
applyFailureStreakByWidth(c) ==
    CASE Progress -> IF c.maxFails > 0 THEN [c EXCEPT !.remFails = c.maxFails] ELSE c
      [] AllFailed -> [c EXCEPT !.remFails =
            decrementCap(@, Cardinality(BudgetedCalls(result, DOMAIN Recs)))]
      [] OTHER -> c

applyFailureStreak(c) ==
    CASE Progress -> IF c.maxFails > 0 THEN [c EXCEPT !.remFails = c.maxFails] ELSE c
      [] AllFailed -> [c EXCEPT !.remFails = decrementCap(@, 1)]
      [] OTHER -> c

FailureCapTripped(c) ==
    AllFailed /\ c.maxFails > 0 /\ applyFailureStreak(c).remFails <= 0

MissingFields == \E c \in DOMAIN Recs : Recs[c] = "missing"
FinishDirective == \E c \in DOMAIN Recs : Recs[c] \in {"finish", "timeout"}

CountStreak ==
    /\ streak' = IF batch.counted \/ MaxFailures = 0 THEN streak
                 ELSE IF Progress THEN 0
                 ELSE IF AllFailed THEN Min({streak + 1, MaxFailures + 1})
                 ELSE streak

RecordStep ==
    /\ pc = "advance"
    /\ recordUnrecordedStepToolResults(batch)

AdvanceTimedOut ==
    /\ RecordStep /\ batch.timedOut
    /\ batch' = Recorded(batch)
    /\ finalizeStep("time_budget")
    /\ UNCHANGED <<result, caps, left, exec, pending, out, uses, spent, streak, clock>>

(* A terminal payload beside bookkeeping calls needs all of them to have   *)
(* succeeded.                                                              *)
AdvanceToolTerminal ==
    /\ RecordStep /\ ~batch.timedOut /\ result.final
    /\ batch' = Recorded(batch)
    /\ EndRun(IF \E c \in DOMAIN Recs : Recs[c] \in Failures \cup {"clarify"}
              THEN "failed" ELSE "completed")
    /\ UNCHANGED <<result, caps, left, exec, pending, reason, uses, spent, streak, clock>>

Decides == RecordStep /\ ~batch.timedOut /\ ~result.final

AdvanceEnds ==
    /\ Decides /\ classifyStep # "resume"
    /\ caps' = ChargedCaps
    /\ batch' = Recorded(batch)
    /\ EndRun(IF classifyStep = "finish" THEN "completed" ELSE "failed")
    /\ UNCHANGED <<result, left, exec, pending, reason, uses, spent, streak, clock>>

AdvanceFailureCap ==
    /\ Decides /\ classifyStep = "resume" /\ FailureCapTripped(ChargedCaps)
    /\ caps' = applyFailureStreak(ChargedCaps)
    /\ CountStreak
    /\ batch' = [Recorded(batch) EXCEPT !.counted = TRUE]
    /\ finalizeStep("failure_cap")
    /\ UNCHANGED <<result, left, exec, pending, out, uses, spent, clock>>

Continues ==
    /\ Decides /\ classifyStep = "resume" /\ ~FailureCapTripped(ChargedCaps)
    /\ caps' = applyFailureStreak(ChargedCaps)
    /\ CountStreak
    /\ UNCHANGED <<result, left, exec, uses, spent, clock>>

AdvanceFinalizes ==
    /\ Continues
    /\ IF OnMissingFields # "resume" /\ MissingFields
       THEN OnMissingFields = "finalize" ELSE FinishDirective
    /\ batch' = [Recorded(batch) EXCEPT !.counted = TRUE]
    /\ finalizeStep("tool_failure")
    /\ UNCHANGED <<pending, out>>

(* The user is asked for the missing fields; the batch goes into the       *)
(* checkpoint as it is.                                                    *)
AdvanceAsks ==
    /\ Continues /\ MissingFields /\ OnMissingFields = "await"
    /\ IF HasSession
       THEN /\ suspendRun([Recorded(batch) EXCEPT !.counted = TRUE],
                          <<Request("text", AwaitCall)>>)
            /\ UNCHANGED out
       ELSE /\ EndRun("failed")
            /\ batch' = [Recorded(batch) EXCEPT !.counted = TRUE]
            /\ UNCHANGED pending
    /\ UNCHANGED reason

AdvanceResumes ==
    /\ Continues
    /\ ~(MissingFields /\ OnMissingFields # "resume") /\ ~FinishDirective
    /\ batch' = [Recorded(batch) EXCEPT !.counted = TRUE]
    /\ pc' = "planning"
    /\ UNCHANGED <<pending, reason, out>>

-----------------------------------------------------------------------------
(* finalizeRun: a fixed terminal call for a limit, or one planner turn     *)
(* bounded by the Hard deadline.                                           *)

FinalCall == Min(Calls)
UsesLimitCall == LimitTerminalPlans /\ reason # "tool_failure"

FinalizeWithText ==
    /\ pc = "finalizing" /\ ~UsesLimitCall /\ ~HardPassed
    /\ commitSelectedModelResponse({})
    /\ EndRun("completed")
    /\ UNCHANGED <<result, caps, left, batch, exec, pending, reason, spent, streak, clock>>

(* A terminal bookkeeping call, fixed or chosen by the planner.            *)
FinalizeWithCall(confirm) ==
    /\ pc = "finalizing" /\ ~HardPassed
    /\ confirm => ~UsesLimitCall
    /\ result' = [NoResult EXCEPT !.spec =
                     [c \in {FinalCall} |-> [class |-> "terminal", confirm |-> confirm]]]
    /\ commitSelectedModelResponse({FinalCall})
    /\ batch' = NoBatch
    /\ IF confirm THEN EndRun("failed") /\ UNCHANGED exec
       ELSE pc' = "finaltool" /\ exec' = [NoExec EXCEPT !.inflight = {FinalCall}] /\ UNCHANGED out
    /\ UNCHANGED <<caps, left, pending, reason, spent, streak, clock>>

(* The planner fails, its result is not terminal, or time is up.           *)
FinalizeFails ==
    /\ pc = "finalizing"
    /\ EndRun("failed")
    /\ UNCHANGED <<result, caps, left, batch, exec, pending, reason,
                   uses, answers, spent, streak, clock>>

FinalToolReturns(o) ==
    /\ pc = "finaltool" /\ (o = "timeout" <=> HardPassed)
    /\ LET b == [batch EXCEPT !.recs = WithRecords(@, {FinalCall}, o)]
       IN recordUnrecordedStepToolResults(b) /\ batch' = Recorded(b)
    /\ exec' = NoExec
    /\ EndRun(IF o = "ok" THEN "completed" ELSE "failed")
    /\ UNCHANGED <<result, caps, left, pending, reason, uses, spent, streak, clock>>

-----------------------------------------------------------------------------

Provided == Outcomes \ {"clarify", "child", "error"}
ChildCompletes == \E o \in {"answered"} \cup (Outcomes \cap {"replan", "finish"}) : AnswerChild(o)

Work ==
    \/ \E r \in PlanResults : PlanReturns(r)
    \/ PlanTimesOut \/ PlanFails
    \/ StepRejected \/ StepOutOfTime \/ StepTerminal
    \/ \E d \in Decisions : StepCapDenied(d) \/ StepCommits(d)
    \/ \E G \in NextGroups : DispatchToolCalls(G)
    \/ \E c \in exec.inflight, o \in Outcomes : ToolReturns(c, o)
    \/ ToolTimerFires
    \/ ExecutionFails \/ ExecutionSuspends \/ ExecutionCompletes
    \/ AnswerClarification
    \/ \E o \in Provided : ProvideToolResult(o)
    \/ DenyConfirmation \/ ApproveConfirmation \/ ConfirmedCompletes
    \/ ChildCompletes \/ AnswerChild("child")
    \/ ContinuationFails
    \/ AdvanceTimedOut \/ AdvanceToolTerminal \/ AdvanceEnds \/ AdvanceFailureCap
    \/ AdvanceFinalizes \/ AdvanceAsks \/ AdvanceResumes
    \/ FinalizeWithText \/ FinalizeFails
    \/ \E confirm \in Confirms : FinalizeWithCall(confirm)
    \/ \E o \in Outcomes \cup {"timeout"} : FinalToolReturns(o)

Ended == pc = "done" /\ UNCHANGED vars

Next == Work \/ Tick \/ Ended

Spec == Init /\ [][Next]_vars

(* Activities return or are timed out by the engine and the user answers,  *)
(* so the run's next step is taken; every planner turn and tool call takes *)
(* time, so a run that keeps running uses up its budget; and a nested run, *)
(* which has a time budget of its own, does not ask for ever.              *)
FairSpec == Spec /\ WF_vars(Work) /\ SF_vars(Tick) /\ SF_vars(ChildCompletes)

-----------------------------------------------------------------------------

(* Types of the loop's state (runLoopState, stepBatch, runDeadlines).      *)
TypeOK ==
    /\ pc \in {"planning", "step", "executing", "suspended", "confirmed", "advance",
               "finalizing", "finaltool", "done"}
    /\ DOMAIN result.spec \subseteq Ids
    /\ caps \in [{"maxTools", "remTools", "maxFails", "remFails"} -> Nat]
    /\ left.budget \in 0..TimeBudget /\ left.hard \in 0..(TimeBudget + Grace)
    /\ DOMAIN batch.recs \subseteq DOMAIN result.spec
    /\ \A c \in DOMAIN batch.recs : batch.recs[c] \in
          Outcomes \cup {"ok", "timeout", "finish", "denied", "answered", "error"}
    /\ batch.recorded \subseteq DOMAIN batch.recs
    /\ exec.queue \cap exec.inflight = {}
    /\ exec.queue \cup exec.inflight \subseteq DOMAIN result.spec
    /\ \A i \in 1..Len(pending) : pending[i] \in
          [kind : {"confirm", "child", "text", "tool"}, call : Ids]
    /\ reason \in {"none", "time_budget", "tool_cap", "failure_cap", "tool_failure"}
    /\ out \in {"none", "completed", "failed"}
    /\ DOMAIN answers = uses

Answered == \A c \in uses : answers[c] = 1

(* Each tool use of the transcript has its one result when a planner sees  *)
(* the transcript (buildNextResumeRequest, finalizeFromHistory) and when   *)
(* the run completes, whatever mix of failures, timeouts, cap denials,     *)
(* confirmations and suspensions came before.                              *)
PlannerSeesAnswers ==
    pc \in {"planning", "finalizing"} \/ out = "completed" => Answered

(* A step that fails in the workflow that committed it answers all of its  *)
(* calls first (failCommittedStep).                                        *)
FailureClosesCalls ==
    out = "failed" /\ reason = "none" /\ ~batch.awaited => Answered

(* No call is answered twice, over any number of continuations.            *)
AnsweredOnce == \A c \in uses : answers[c] <= 1

(* A run never starts more budgeted calls than MaxToolCalls, counted over  *)
(* parallel batches, confirmations and continuations (admitToolBatch).     *)
WithinToolCap == MaxToolCalls > 0 => spent <= MaxToolCalls

(* The planner is not asked for another step after MaxFailures steps in a  *)
(* row whose budgeted calls all failed (applyFailureStreak).               *)
FailuresWithinCap == MaxFailures > 0 /\ pc = "planning" => streak < MaxFailures

(* A run is finalized for its failures only after that many, whatever the  *)
(* width of its batches.  A step whose missing fields were asked for is    *)
(* excepted: see StepChargedOnce.                                          *)
FinalizedForFailures ==
    pc = "finalizing" /\ reason = "failure_cap" =>
        streak >= MaxFailures \/ (OnMissingFields = "await" /\ MissingFields)

(* The failure cap is kept exactly: it stops a run in time, and not early. *)
FailureCapKept == FailuresWithinCap /\ FinalizedForFailures

(* A nested run that waits for an answer has its request in the queue, so  *)
(* the call is not answered before the child is (applyChildContinuation).  *)
ChildRequestQueued ==
    pc \in {"suspended", "advance"} =>
        \A c \in With(batch, "child") :
            \E i \in 1..Len(pending) : pending[i] = Request("child", c)

(* No budgeted call is started, at once or after a confirmation, when the  *)
(* run's workflows have been running for TimeBudget (executeToolCalls).    *)
NothingStartedLate ==
    [][\A c \in exec.inflight' \ exec.inflight :
          Timed /\ result'.spec[c].class = "budgeted" => clock < TimeBudget]_vars

(* A run with a time budget ends: no planner, tool failure, confirmation   *)
(* or question keeps it going for ever (runPlanActivity, finalizeRun).     *)
RunEnds == <>(pc = "done")

(* Once the queue of requests is answered, planning is resumed or the run  *)
(* finished (workflow_await_queue.go).                                     *)
AnsweredResumes ==
    (pc = "advance" /\ batch.awaited) ~> (pc \in {"planning", "finalizing", "done"})

(* A failing step is charged to the failure cap once, also when the user   *)
(* is asked for its missing fields (applyFailureStreak).                   *)
StepChargedOnce == reason = "failure_cap" => streak >= MaxFailures

(* A continuation that fails answers its committed calls first.            *)
ContinuationClosesCalls == out = "failed" /\ reason = "none" => Answered

(* A finalizer that fails answers its committed calls first.               *)
FinalizerClosesCalls == out = "failed" /\ reason # "none" => Answered

=============================================================================
