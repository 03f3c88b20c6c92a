------------------------ MODULE WorkflowLoop_proofs ------------------------
(***************************************************************************)
(* Proofs about WorkflowLoop, for any calls, classes, outcomes, policy     *)
(* decisions, caps and time budgets.                                       *)
(***************************************************************************)
EXTENDS WorkflowLoop, FiniteSetTheorems, WellFoundedInduction, TLAPS

-----------------------------------------------------------------------------
(* Numbers and finite sets of calls.                                       *)

(* Max and Min of two numbers, as decrementCap and mergeCapDown use them.  *)
LEMMA MaxOfTwo ==
    ASSUME NEW a \in Int, NEW b \in Int
    PROVE  Max({a, b}) = IF a >= b THEN a ELSE b
BY DEF Max

(* The same for Min.                                                       *)
LEMMA MinOfTwo ==
    ASSUME NEW a \in Int, NEW b \in Int
    PROVE  Min({a, b}) = IF a <= b THEN a ELSE b
BY DEF Min

\* The finite sets of naturals with no least member, and with no order.
NoLeast == {S \in FiniteSubsetsOf(Nat) : S # {} /\ ~ \E m \in S : \A y \in S : m <= y}

(* A nonempty finite set of naturals has a least member (FinalCall): a     *)
(* minimal counterexample would lose a member and still be one.            *)
LEMMA LeastExists ==
    ASSUME NEW S, S \subseteq Nat, IsFiniteSet(S), S # {}
    PROVE  \E m \in S : \A y \in S : m <= y
<1>1. SUFFICES ASSUME NoLeast # {} PROVE FALSE
  BY DEF NoLeast, FiniteSubsetsOf
<1>2. IsWellFoundedOn(StrictSubsetOrdering(Nat), FiniteSubsetsOf(Nat))
  BY FS_StrictSubsetOrderingWellFounded
<1>3. NoLeast \subseteq FiniteSubsetsOf(Nat)
  BY DEF NoLeast
<1>4. PICK U \in NoLeast : \A V \in NoLeast : ~(<<V, U>> \in StrictSubsetOrdering(Nat))
  BY <1>1, <1>2, <1>3, WFMin
<1>5. U \subseteq Nat /\ IsFiniteSet(U) /\ U # {}
  BY <1>4 DEF NoLeast, FiniteSubsetsOf
<1>6. PICK x \in U : TRUE
  BY <1>5
<1>7. IsFiniteSet(U \ {x})
  BY <1>5, FS_RemoveElement
<1>8. U \ {x} \notin NoLeast
  BY <1>4, <1>5, <1>6 DEF StrictSubsetOrdering
<1>9. CASE U \ {x} = {}
  <2>1. \A y \in U : x <= y
    BY <1>5, <1>6, <1>9
  <2> QED  BY <2>1, <1>4, <1>6 DEF NoLeast
<1>10. CASE U \ {x} # {}
  <2>1. PICK m \in U \ {x} : \A y \in U \ {x} : m <= y
    BY <1>5, <1>7, <1>8, <1>10 DEF NoLeast, FiniteSubsetsOf
  <2>2. \E k \in U : \A y \in U : k <= y
    <3>1. CASE m <= x  BY <2>1, <3>1, <1>5
    <3>2. CASE x <= m  BY <2>1, <3>2, <1>5, <1>6
    <3> QED  BY <3>1, <3>2, <1>5, <1>6, <2>1
  <2> QED  BY <2>2, <1>4 DEF NoLeast
<1> QED  BY <1>9, <1>10

\* What InOrder chooses from.
Orders(S) == {q \in [1..Cardinality(S) -> S] :
                 \A i, j \in 1..Cardinality(S) : i < j => q[i] < q[j]}
NoOrder == {S \in FiniteSubsetsOf(Nat) : Orders(S) = {}}

(* A finite set of naturals can be enumerated in order: put the least      *)
(* member before an enumeration of the others.                             *)
LEMMA OrderExists ==
    ASSUME NEW S, S \subseteq Nat, IsFiniteSet(S)
    PROVE  Orders(S) # {}
<1>1. SUFFICES ASSUME NoOrder # {} PROVE FALSE
  BY DEF NoOrder, FiniteSubsetsOf
<1>2. IsWellFoundedOn(StrictSubsetOrdering(Nat), FiniteSubsetsOf(Nat))
  BY FS_StrictSubsetOrderingWellFounded
<1>3. NoOrder \subseteq FiniteSubsetsOf(Nat)
  BY DEF NoOrder
<1>4. PICK U \in NoOrder : \A V \in NoOrder : ~(<<V, U>> \in StrictSubsetOrdering(Nat))
  BY <1>1, <1>2, <1>3, WFMin
<1>5. U \subseteq Nat /\ IsFiniteSet(U) /\ Orders(U) = {}
  BY <1>4 DEF NoOrder, FiniteSubsetsOf
<1>6. CASE U = {}
  <2>1. Cardinality(U) = 0
    BY <1>6, FS_EmptySet
  <2>2. [i \in 1..0 |-> 0] \in Orders(U)
    BY <2>1 DEF Orders
  <2> QED  BY <2>2, <1>5
<1>7. CASE U # {}
  <2>1. PICK m \in U : \A y \in U : m <= y
    BY <1>5, <1>7, LeastExists
  <2> DEFINE V == U \ {m}
  <2>2. IsFiniteSet(V) /\ Cardinality(V) = Cardinality(U) - 1
        /\ Cardinality(V) \in Nat /\ Cardinality(U) \in Nat
    BY <1>5, <2>1, FS_RemoveElement, FS_CardinalityType
  <2>3. V \notin NoOrder
    BY <1>4, <1>5, <2>1 DEF StrictSubsetOrdering
  <2>4. PICK q \in [1..Cardinality(V) -> V] :
            \A i, j \in 1..Cardinality(V) : i < j => q[i] < q[j]
    BY <1>5, <2>2, <2>3 DEF NoOrder, FiniteSubsetsOf, Orders
  <2> DEFINE n == Cardinality(U)
             p == [i \in 1..n |-> IF i = 1 THEN m ELSE q[i - 1]]
  <2>5. \A i \in 1..n : i # 1 => i - 1 \in 1..Cardinality(V)
    BY <2>2
  <2>6. p \in [1..n -> U]
    BY <2>1, <2>4, <2>5
  <2>7. ASSUME NEW i \in 1..n, NEW j \in 1..n, i < j PROVE p[i] < p[j]
    <3>1. j # 1 /\ j - 1 \in 1..Cardinality(V) /\ p[j] = q[j - 1]
      BY <2>5, <2>7, <2>2
    <3>2. q[j - 1] \in V /\ V \subseteq Nat
      BY <2>4, <3>1, <1>5
    <3>3. CASE i = 1
      <4>1. p[i] = m
        BY <3>3
      <4>2. m <= q[j - 1] /\ m # q[j - 1] /\ m \in Nat
        BY <2>1, <3>2, <1>5
      <4>3. q[j - 1] \in Nat
        BY <3>2
      <4>4. \A a, b \in Nat : a <= b /\ a # b => a < b
        OBVIOUS
      <4>5. m < q[j - 1]
        BY ONLY <4>2, <4>3, <4>4
      <4> HIDE DEF p
      <4> QED  BY <4>1, <4>5, <3>1
    <3>4. CASE i # 1
      <4>1. i - 1 \in 1..Cardinality(V) /\ p[i] = q[i - 1] /\ i - 1 < j - 1
        BY <2>5, <3>4, <2>7, <2>2
      <4>2. q[i - 1] < q[j - 1]
        BY <4>1, <3>1, <2>4
      <4> HIDE DEF p
      <4> QED  BY <4>1, <4>2, <3>1
    <3> QED  BY <3>3, <3>4
  <2>8. p \in Orders(U)
    BY <2>6, <2>7 DEF Orders
  <2> QED  BY <2>8, <1>5
<1> QED  BY <1>6, <1>7

(* InOrder enumerates its set without repetition.                          *)
LEMMA InOrderIs ==
    ASSUME NEW S, S \subseteq Nat, IsFiniteSet(S)
    PROVE  /\ Cardinality(S) \in Nat
           /\ InOrder(S) \in [1..Cardinality(S) -> S]
           /\ \A i, j \in 1..Cardinality(S) : InOrder(S)[i] = InOrder(S)[j] => i = j
           /\ \A c \in S : \E i \in 1..Cardinality(S) : InOrder(S)[i] = c
<1> DEFINE n == Cardinality(S)
           q == InOrder(S)
<1>1. n \in Nat
  BY FS_CardinalityType
<1>2. \E f \in [1..n -> S] : \A i, j \in 1..n : i < j => f[i] < f[j]
  BY OrderExists DEF Orders
<1>3. /\ q \in [1..n -> S]
      /\ \A i, j \in 1..n : i < j => q[i] < q[j]
  BY <1>2 DEF InOrder
<1>4. \A i, j \in 1..n : q[i] = q[j] => i = j
  <2>1. SUFFICES ASSUME NEW i \in 1..n, NEW j \in 1..n, q[i] = q[j], i # j PROVE FALSE
    OBVIOUS
  <2>2. q[i] \in Nat /\ q[j] \in Nat
    BY <1>3
  <2>3. i < j \/ j < i
    BY <1>1, <2>1
  <2> QED  BY <1>3, <2>1, <2>2, <2>3
<1>5. \A c \in S : \E i \in 1..n : q[i] = c
  <2>1. q \in Injection(1..n, S)
    BY <1>3, <1>4 DEF Injection, IsInjective
  <2>2. IsFiniteSet(1..n) /\ Cardinality(1..n) = n
    BY <1>1, FS_Interval
  <2>3. q \in Surjection(1..n, S)
    BY <2>1, <2>2, FS_Injection
  <2> QED  BY <2>3 DEF Surjection
<1> QED  BY <1>1, <1>3, <1>4, <1>5

-----------------------------------------------------------------------------
(* The inductive invariant.                                                *)

Returned == Outcomes \cup {"ok", "timeout", "finish", "denied", "answered", "error"}
Records == UNION {[S -> Returned] : S \in SUBSET Ids}
BatchType == [recs : Records, recorded : SUBSET Ids, cost : Nat, timedOut : BOOLEAN,
              awaited : BOOLEAN, failed : BOOLEAN, counted : BOOLEAN]
RequestType == [kind : {"confirm", "child", "text", "tool"}, call : Ids]
Caps == [{"maxTools", "remTools", "maxFails", "remFails"} -> Nat]
CallType == [class : {"budgeted", "bookkeeping", "terminal"}, confirm : BOOLEAN]

Specs == UNION {[S -> CallType] : S \in SUBSET Ids}
ResultType == [spec : Specs, await : {"none", "text", "tool"}, final : BOOLEAN]

(* An awaited tool call is the one call that is not the planner's own; the *)
(* calls recorded and under way are the step's.                            *)
ResultInv ==
    /\ result \in ResultType
    /\ AwaitCall \in DOMAIN result.spec <=> result.await = "tool"
    /\ DOMAIN batch.recs \subseteq DOMAIN result.spec
    /\ batch.recorded \subseteq DOMAIN batch.recs
    /\ exec.queue \cup exec.inflight \subseteq DOMAIN result.spec
    /\ exec.queue \cap exec.inflight = {}

Shapes ==
    /\ caps \in Caps
    /\ left \in [budget : 0..TimeBudget, hard : 0..(TimeBudget + Grace)]
    /\ batch \in BatchType
    /\ exec \in [queue : SUBSET Ids, inflight : SUBSET Ids]
    /\ pending \in Seq(RequestType)
    /\ uses \subseteq Ids /\ answers \in [uses -> Nat]
    /\ spent \in Nat /\ streak \in Nat /\ clock \in Nat
    /\ reason \in {"none", "time_budget", "tool_cap", "failure_cap", "tool_failure"}
    /\ out \in {"none", "completed", "failed"}

InStep == pc \in {"executing", "suspended", "confirmed", "advance"}

(* Where the loop is says what else holds: when a step is awaited, when    *)
(* calls can be under way, why the run ends.                               *)
PhaseInv ==
    /\ pc \in {"planning", "step", "executing", "suspended", "confirmed", "advance",
               "finalizing", "finaltool", "done"}
    /\ pc \notin {"executing", "confirmed", "finaltool"} => exec = NoExec
    /\ pc \in {"planning", "step"} \/ InStep => reason = "none"
    /\ pc \in {"finalizing", "finaltool"} => reason # "none"
    /\ pc # "done" => out = "none"
    /\ pc \in {"suspended", "confirmed"} => batch.awaited /\ pending # <<>>
    /\ pc \in {"planning", "step", "executing", "advance"} => pending = <<>>
    /\ pc \in {"suspended", "advance"} => ~batch.failed
    /\ pc = "executing" => ~batch.counted
    /\ pc = "finaltool" => DOMAIN result.spec = {FinalCall} /\ batch = NoBatch

(* A committed step's calls have a result in the transcript exactly when   *)
(* they were recorded; between steps all of them have.                     *)
AnswersInv ==
    /\ pc \in {"planning", "step", "finalizing"} => Answered
    /\ InStep \/ pc = "finaltool" =>
          /\ uses = DOMAIN result.spec
          /\ \A c \in uses : answers[c] = IF c \in batch.recorded THEN 1 ELSE 0
    /\ pc = "done" =>
          /\ AnsweredOnce
          /\ out = "completed" \/ (out = "failed" /\ reason = "none" /\ ~batch.awaited)
                => Answered

Waiting(q, c) == \E r \in ToSet(q) : r.kind \in {"confirm", "tool"} /\ r.call = c
Gated(c) == c \in Calls /\ result.spec[c].confirm

(* A call of the step that has no record is still to come: it waits to be  *)
(* started or confirmed, runs, or its result is asked for.                 *)
OpenCalls(q, started) ==
    \A c \in DOMAIN result.spec \ DOMAIN batch.recs : c \in started \/ Waiting(q, c)

OneConfirm(q) ==
    \A i, j \in 1..Len(q) : q[i].kind = "confirm" /\ q[j] = q[i] => i = j

\* The requests of a queue concern the step's calls.
AskedOf(r) ==
    /\ r.kind \in {"confirm", "child", "tool"} => r.call \in DOMAIN result.spec
    /\ r.kind = "confirm" => r.call # AwaitCall
    /\ r.kind = "tool" => r.call = AwaitCall
QueueInv ==
    /\ OneConfirm(pending)
    /\ \A r \in ToSet(pending) : AskedOf(r) /\ (batch.counted => r.kind = "text")

OpenInv ==
    /\ pc = "executing" =>
          /\ exec.queue \cup exec.inflight \subseteq Calls
          /\ \A c \in exec.queue \cup exec.inflight : ~result.spec[c].confirm
          /\ \A c \in DOMAIN result.spec \ DOMAIN batch.recs :
                \/ c \in exec.queue \cup exec.inflight \/ batch.failed
                \/ Gated(c) \/ c = AwaitCall
    /\ pc = "suspended" => QueueInv /\ OpenCalls(pending, {})
    /\ pc = "confirmed" =>
          /\ QueueInv /\ Head(pending).kind = "confirm"
          /\ exec.queue = {} /\ exec.inflight \subseteq {Head(pending).call}
          /\ batch.failed \/ OpenCalls(Tail(pending), exec.inflight)
    /\ pc = "advance" => DOMAIN batch.recs = DOMAIN result.spec

ConfirmsIn(q) == {c \in DOMAIN result.spec : Request("confirm", c) \in ToSet(q)}

(* The step's calls that have been admitted and not started.               *)
Unstarted ==
    IF pc = "executing" THEN {c \in DOMAIN result.spec : c \in exec.queue \/ Gated(c)}
    ELSE IF pc = "suspended" THEN ConfirmsIn(pending)
    ELSE IF pc = "confirmed" THEN ConfirmsIn(Tail(pending))
    ELSE {}

(* What was started, what was admitted and what is left stay within the    *)
(* cap.  A step asked for its missing fields has nothing to start.         *)
CapInv ==
    MaxToolCalls > 0 =>
        /\ caps.maxTools > 0 /\ spent <= MaxToolCalls
        /\ pc \in {"planning", "step"} => spent + caps.remTools <= MaxToolCalls
        /\ InStep /\ ~batch.counted =>
              /\ batch.cost <= caps.remTools
              /\ spent + Cardinality(BudgetedCalls(result, Unstarted))
                    + (caps.remTools - batch.cost) <= MaxToolCalls
        /\ InStep /\ batch.counted =>
              Unstarted = {} /\ spent + caps.remTools <= MaxToolCalls

(* No policy decision tightens the failure cap: 0 leaves a cap alone       *)
(* (mergeCapDown).  One that does has the run finalized earlier than       *)
(* MaxFailures says, which is what such a decision asks for.               *)
FailureCapUntouched == \A d \in Decisions : d.maxFails = 0 /\ d.remFails = 0

Uncharged == pc \in {"planning", "step"} \/ (InStep /\ ~batch.counted)

(* The failures counted and the failures left are within the cap, and make *)
(* it up if no decision tightens it, until a step with missing fields is   *)
(* charged again.                                                          *)
FailInv ==
    MaxFailures > 0 =>
        /\ caps.maxFails > 0 /\ caps.maxFails <= MaxFailures
        /\ Uncharged => caps.remFails > 0 /\ streak + caps.remFails <= MaxFailures
        /\ InStep /\ batch.counted => OnMissingFields = "await" /\ MissingFields
        /\ FailuresWithinCap
        /\ FailureCapUntouched =>
              /\ caps.maxFails = MaxFailures
              /\ Uncharged => streak + caps.remFails = MaxFailures
              /\ FinalizedForFailures

TimeInv == left.budget > 0 => clock + left.budget = TimeBudget

IInv == /\ ResultInv /\ Shapes /\ PhaseInv /\ AnswersInv
        /\ OpenInv /\ CapInv /\ FailInv /\ TimeInv

-----------------------------------------------------------------------------
(* The parts of the state.                                                 *)

(* The constants, one fact each.                                           *)
LEMMA Constants ==
    /\ Calls \subseteq Nat /\ IsFiniteSet(Calls) /\ Ids \subseteq Nat /\ IsFiniteSet(Ids)
    /\ Calls \subseteq Ids /\ AwaitCall \in Ids /\ AwaitCall \notin Calls
    /\ FinalCall \in Calls
    /\ Decisions \subseteq Caps
    /\ MaxToolCalls \in Nat /\ MaxFailures \in Nat /\ TimeBudget \in Nat /\ Grace \in Nat
    /\ Classes \subseteq {"budgeted", "bookkeeping", "terminal"} /\ Confirms \subseteq BOOLEAN
    /\ Awaits \subseteq {"none", "text", "tool"}
<1>1. FinalCall \in Calls
  <2>1. \E m \in Calls : \A y \in Calls : m <= y
    BY ConstantsAssumption, LeastExists
  <2> QED  BY <2>1 DEF FinalCall, Min
<1>2. IsFiniteSet(Ids)
  BY ConstantsAssumption, FS_AddElement DEF Ids
<1> QED  BY <1>1, <1>2, ConstantsAssumption DEF Ids, Caps

(* Records with a call added, or a call's outcome replaced.                *)
LEMMA RecordsAre ==
    ASSUME NEW recs
    PROVE  recs \in Records <=> /\ recs = [c \in DOMAIN recs |-> recs[c]]
                                /\ DOMAIN recs \subseteq Ids
                                /\ \A c \in DOMAIN recs : recs[c] \in Returned
BY DEF Records

(* WithRecords gives the calls of S one outcome and keeps the others'.     *)
LEMMA WithRecordsIs ==
    ASSUME NEW recs \in Records, NEW S \in SUBSET Ids, NEW o \in Returned
    PROVE  /\ WithRecords(recs, S, o) \in Records
           /\ DOMAIN WithRecords(recs, S, o) = DOMAIN recs \cup S
           /\ \A c \in DOMAIN recs \cup S :
                 WithRecords(recs, S, o)[c] = IF c \in S THEN o ELSE recs[c]
BY RecordsAre DEF WithRecords

(* A batch whose results are all in the transcript.                        *)
LEMMA RecordedIs ==
    ASSUME NEW b \in BatchType
    PROVE  /\ Recorded(b) \in BatchType
           /\ Recorded(b).recorded = DOMAIN b.recs
           /\ DOMAIN Recorded(b).recs = DOMAIN b.recs
           /\ \A c \in DOMAIN b.recs :
                 Recorded(b).recs[c] = IF b.recs[c] = "child" THEN "finish" ELSE b.recs[c]
           /\ Recorded(b).counted = b.counted /\ Recorded(b).awaited = b.awaited
           /\ Recorded(b).cost = b.cost /\ Recorded(b).failed = b.failed
<1> DEFINE recs == [c \in DOMAIN b.recs |-> IF b.recs[c] = "child" THEN "finish" ELSE b.recs[c]]
<1>1. b.recs \in Records /\ DOMAIN b.recs \subseteq Ids
  BY RecordsAre DEF BatchType
<1>2. recs \in Records
  <2>1. \A c \in DOMAIN b.recs : recs[c] \in Returned
    BY <1>1, RecordsAre DEF Returned
  <2> QED  BY <2>1, <1>1 DEF Records
<1>3. Recorded(b) = [b EXCEPT !.recorded = DOMAIN b.recs, !.recs = recs]
  BY DEF Recorded, BatchType
<1>4. /\ DOMAIN recs = DOMAIN b.recs
      /\ \A c \in DOMAIN b.recs :
            recs[c] = IF b.recs[c] = "child" THEN "finish" ELSE b.recs[c]
  OBVIOUS
<1> HIDE DEF recs
<1> QED  BY <1>1, <1>2, <1>3, <1>4 DEF BatchType

(* resolveExpiredConfirmations records some calls that wait for a          *)
(* confirmation.                                                           *)
LEMMA ExpiredAre ==
    ASSUME ResultInv, Shapes
    PROVE  LET b == resolveExpiredConfirmations(batch)
           IN  /\ b \in BatchType
               /\ DOMAIN batch.recs \subseteq DOMAIN b.recs
               /\ DOMAIN b.recs \subseteq DOMAIN result.spec
               /\ \A c \in DOMAIN b.recs \ DOMAIN batch.recs : Gated(c)
               /\ b.recorded = batch.recorded /\ b.counted = batch.counted
               /\ b.awaited = batch.awaited /\ b.failed = batch.failed /\ b.cost = batch.cost
<1> DEFINE expired == {c \in PlanCalls(result) :
                          result.spec[c].confirm /\ DeadlinePassed(c)}
           recs == WithRecords(batch.recs, expired, "timeout")
<1>1. expired \in SUBSET Ids /\ expired \subseteq DOMAIN result.spec
      /\ \A c \in expired : Gated(c)
  BY Constants DEF PlanCalls, Gated
<1>2. batch.recs \in Records /\ "timeout" \in Returned
  BY DEF Shapes, BatchType, Returned
<1> HIDE DEF expired
<1>3. recs \in Records /\ DOMAIN recs = DOMAIN batch.recs \cup expired
  BY <1>1, <1>2, WithRecordsIs
<1>4. resolveExpiredConfirmations(batch)
        = [batch EXCEPT !.recs = recs, !.timedOut = @ \/ expired # {}]
  BY DEF resolveExpiredConfirmations, expired
<1> HIDE DEF recs
<1> QED  BY <1>1, <1>3, <1>4 DEF Shapes, BatchType, ResultInv

(* The requests made for a set of calls: one for each.                     *)
LEMMA RequestsAre ==
    ASSUME NEW S \in SUBSET Ids, NEW kind \in {"confirm", "child", "text", "tool"}
    PROVE  /\ Requests(kind, S) \in Seq(RequestType)
           /\ \A i \in 1..Len(Requests(kind, S)) :
                 Requests(kind, S)[i].kind = kind /\ Requests(kind, S)[i].call \in S
           /\ \A i, j \in 1..Len(Requests(kind, S)) :
                 Requests(kind, S)[i] = Requests(kind, S)[j] => i = j
           /\ \A c \in S : \E i \in 1..Len(Requests(kind, S)) :
                 Requests(kind, S)[i] = Request(kind, c)
<1> DEFINE n == Cardinality(S)
           q == InOrder(S)
<1>1. S \subseteq Nat /\ IsFiniteSet(S)
  BY Constants, FS_Subset
<1>2. /\ n \in Nat /\ q \in [1..n -> S]
      /\ \A i, j \in 1..n : q[i] = q[j] => i = j
      /\ \A c \in S : \E i \in 1..n : q[i] = c
  BY <1>1, InOrderIs
<1> HIDE DEF n, q
<1>3. Requests(kind, S) = [i \in 1..n |-> Request(kind, q[i])]
  BY DEF Requests, n, q
<1>4. \A i \in 1..n : Request(kind, q[i]) \in RequestType
  BY <1>2, Constants DEF Request, RequestType
<1>5. Requests(kind, S) \in Seq(RequestType) /\ Len(Requests(kind, S)) = n
  BY <1>2, <1>3, <1>4
<1>6. \A i \in 1..n : Requests(kind, S)[i] = Request(kind, q[i])
  BY <1>3
<1>7. ASSUME NEW i \in 1..n
      PROVE  Requests(kind, S)[i].kind = kind /\ Requests(kind, S)[i].call = q[i]
  <2>1. Requests(kind, S)[i] = [kind |-> kind, call |-> q[i]]
    BY <1>6 DEF Request
  <2> QED  BY <2>1
<1> QED  BY <1>2, <1>5, <1>6, <1>7

(* The requests of a queue, by position.                                   *)
LEMMA ToSetIs ==
    ASSUME NEW q \in Seq(RequestType)
    PROVE  /\ ToSet(q) = {q[i] : i \in 1..Len(q)}
           /\ ToSet(q) \subseteq RequestType
<1>1. DOMAIN q = 1..Len(q)
  OBVIOUS
<1>2. ToSet(q) = {q[i] : i \in 1..Len(q)}
  BY <1>1 DEF ToSet
<1> QED  BY <1>2

(* Appending requests other than confirmations.                            *)
LEMMA JoinIs ==
    ASSUME NEW s \in Seq(RequestType), NEW t \in Seq(RequestType)
    PROVE  /\ s \o t \in Seq(RequestType)
           /\ ToSet(s \o t) = ToSet(s) \cup ToSet(t)
           /\ OneConfirm(s) /\ (\A r \in ToSet(t) : r.kind # "confirm")
                => OneConfirm(s \o t)
<1> DEFINE q == s \o t
<1>1. /\ q \in Seq(RequestType) /\ Len(q) = Len(s) + Len(t)
      /\ Len(s) \in Nat /\ Len(t) \in Nat
      /\ \A i \in 1..Len(q) : q[i] = IF i <= Len(s) THEN s[i] ELSE t[i - Len(s)]
  OBVIOUS
<1> HIDE DEF q
<1>2. ToSet(s) = {s[i] : i \in 1..Len(s)} /\ ToSet(t) = {t[i] : i \in 1..Len(t)}
      /\ ToSet(q) = {q[i] : i \in 1..Len(q)}
  BY <1>1, ToSetIs
<1>3. \A i \in 1..Len(q) : (i \in 1..Len(s) /\ q[i] = s[i])
                             \/ (i - Len(s) \in 1..Len(t) /\ q[i] = t[i - Len(s)])
  BY <1>1
<1>4. \A i \in 1..Len(s) : i \in 1..Len(q) /\ q[i] = s[i]
  BY <1>1
<1>5. \A i \in 1..Len(t) : i + Len(s) \in 1..Len(q) /\ q[i + Len(s)] = t[i]
  BY <1>1
<1>6. ToSet(q) = ToSet(s) \cup ToSet(t)
  <2>1. ToSet(q) \subseteq ToSet(s) \cup ToSet(t)
    BY <1>2, <1>3
  <2>2. ToSet(s) \subseteq ToSet(q)
    BY <1>2, <1>4
  <2>3. ToSet(t) \subseteq ToSet(q)
    BY <1>2, <1>5
  <2> QED  BY <2>1, <2>2, <2>3
<1>7. ASSUME OneConfirm(s), \A r \in ToSet(t) : r.kind # "confirm" PROVE OneConfirm(q)
  <2>1. SUFFICES ASSUME NEW i \in 1..Len(q), NEW j \in 1..Len(q),
                        q[i].kind = "confirm", q[j] = q[i]
                 PROVE  i = j
    BY DEF OneConfirm
  <2>2. \A k \in 1..Len(t) : t[k].kind # "confirm"
    BY <1>7, <1>2
  <2>3. i \in 1..Len(s) /\ q[i] = s[i] /\ j \in 1..Len(s) /\ q[j] = s[j]
    BY <1>3, <2>1, <2>2
  <2> QED  BY <2>1, <2>3, <1>7 DEF OneConfirm
<1> QED  BY <1>1, <1>6, <1>7 DEF q

(* A queue is its first request and the rest.                              *)
LEMMA HeadAndTail ==
    ASSUME NEW q \in Seq(RequestType), q # <<>>
    PROVE  /\ Head(q) \in RequestType /\ Tail(q) \in Seq(RequestType)
           /\ ToSet(q) = {Head(q)} \cup ToSet(Tail(q))
           /\ ToSet(q) \subseteq RequestType
           /\ OneConfirm(q) => OneConfirm(Tail(q))
           /\ OneConfirm(q) /\ Head(q).kind = "confirm" => Head(q) \notin ToSet(Tail(q))
<1>1. /\ Len(q) \in Nat /\ Len(q) > 0 /\ Head(q) = q[1] /\ Head(q) \in RequestType
      /\ Tail(q) \in Seq(RequestType) /\ Len(Tail(q)) = Len(q) - 1
      /\ \A i \in 1..Len(Tail(q)) : Tail(q)[i] = q[i + 1]
  OBVIOUS
<1>2. ToSet(q) = {q[i] : i \in 1..Len(q)}
      /\ ToSet(Tail(q)) = {Tail(q)[i] : i \in 1..Len(Tail(q))}
  BY <1>1, ToSetIs
<1>3. \A i \in 1..Len(q) : i = 1 \/ (i - 1 \in 1..Len(Tail(q)) /\ q[i] = Tail(q)[i - 1])
  BY <1>1
<1>4. \A i \in 1..Len(Tail(q)) : i + 1 \in 1..Len(q) /\ Tail(q)[i] = q[i + 1] /\ i + 1 # 1
  BY <1>1
<1>5. ToSet(q) = {Head(q)} \cup ToSet(Tail(q))
  <2>1. ToSet(q) \subseteq {Head(q)} \cup ToSet(Tail(q))
    <3>1. ASSUME NEW i \in 1..Len(q) PROVE q[i] = Head(q) \/ q[i] \in ToSet(Tail(q))
      <4>1. CASE i = 1
        BY <1>1, <4>1
      <4>2. CASE i # 1
        BY <1>2, <1>3, <4>2
      <4> QED  BY <4>1, <4>2
    <3> QED  BY <1>2, <3>1
  <2>2. ToSet(Tail(q)) \subseteq ToSet(q)
    BY <1>2, <1>4
  <2>3. Head(q) \in ToSet(q)
    BY <1>1, <1>2
  <2> QED  BY <2>1, <2>2, <2>3
<1>6. ToSet(q) \subseteq RequestType
  BY <1>2
<1>7. ASSUME OneConfirm(q) PROVE OneConfirm(Tail(q))
  <2>1. SUFFICES ASSUME NEW i \in 1..Len(Tail(q)), NEW j \in 1..Len(Tail(q)),
                        Tail(q)[i].kind = "confirm", Tail(q)[j] = Tail(q)[i]
                 PROVE  i = j
    BY DEF OneConfirm
  <2>2. i + 1 = j + 1
    BY <2>1, <1>4, <1>7 DEF OneConfirm
  <2> QED  BY <2>2
<1>8. ASSUME OneConfirm(q), Head(q).kind = "confirm", Head(q) \in ToSet(Tail(q)) PROVE FALSE
  <2>1. PICK i \in 1..Len(Tail(q)) : Tail(q)[i] = Head(q)
    BY <1>8, <1>2
  <2>2. 1 \in 1..Len(q) /\ i + 1 \in 1..Len(q) /\ q[i + 1] = q[1] /\ i + 1 # 1
    BY <2>1, <1>1, <1>4
  <2> QED  BY <2>2, <1>8, <1>1 DEF OneConfirm
<1> QED  BY <1>1, <1>5, <1>6, <1>7, <1>8

(* What a suspension asks: each gated call without a record once, the      *)
(* awaited item, and questions about calls that have a record.             *)
LEMMA AwaitQueueIs ==
    ASSUME ResultInv, NEW b \in BatchType, DOMAIN b.recs \subseteq DOMAIN result.spec
    PROVE  LET q == AwaitQueue(b)
           IN  /\ q \in Seq(RequestType) /\ OneConfirm(q)
               /\ \A r \in ToSet(q) : AskedOf(r)
               /\ \A r \in ToSet(q) : r.kind = "confirm" => Gated(r.call)
               /\ \A c \in DOMAIN result.spec \ DOMAIN b.recs :
                     Gated(c) \/ c = AwaitCall => Waiting(q, c)
<1> DEFINE S1 == {c \in PlanCalls(result) \ DOMAIN b.recs : result.spec[c].confirm}
           q1 == Requests("confirm", S1)
           q2 == Requests("child", With(b, "child"))
           q3 == IF result.await = "none" THEN <<>> ELSE <<Request(result.await, AwaitCall)>>
           q4 == Requests("text", With(b, "clarify"))
<1>1. DOMAIN result.spec \subseteq Ids
  BY DEF ResultInv, ResultType, Specs
<1>2. S1 \in SUBSET Ids /\ With(b, "child") \in SUBSET Ids /\ With(b, "clarify") \in SUBSET Ids
      /\ With(b, "child") \subseteq DOMAIN result.spec
      /\ S1 = {c \in DOMAIN result.spec \ DOMAIN b.recs : Gated(c)}
      /\ AwaitCall \notin S1
  BY <1>1, Constants DEF With, PlanCalls, Gated
<1> HIDE DEF S1
<1>3. /\ q1 \in Seq(RequestType) /\ OneConfirm(q1)
      /\ ToSet(q1) = {Request("confirm", c) : c \in S1}
  <2>1. /\ q1 \in Seq(RequestType)
        /\ \A i \in 1..Len(q1) : q1[i].kind = "confirm" /\ q1[i].call \in S1
        /\ \A i, j \in 1..Len(q1) : q1[i] = q1[j] => i = j
        /\ \A c \in S1 : \E i \in 1..Len(q1) : q1[i] = Request("confirm", c)
    <3>1. S1 \in SUBSET Ids /\ "confirm" \in {"confirm", "child", "text", "tool"}
      BY <1>2
    <3> QED  BY ONLY <3>1, RequestsAre
  <2>2. ToSet(q1) = {q1[i] : i \in 1..Len(q1)}
    BY <2>1 DEF ToSet
  <2>3. ASSUME NEW i \in 1..Len(q1) PROVE q1[i] = Request("confirm", q1[i].call)
    <3>1. q1[i] \in RequestType
      BY <2>1
    <3>2. q1[i].kind = "confirm"
      BY <2>1
    <3> QED  BY <3>1, <3>2 DEF Request, RequestType
  <2>4. OneConfirm(q1)
    BY <2>1 DEF OneConfirm
  <2> QED  BY <2>1, <2>2, <2>3, <2>4
<1>4. /\ q2 \in Seq(RequestType)
      /\ \A r \in ToSet(q2) : r.kind = "child" /\ r.call \in DOMAIN result.spec
  <2>1. /\ q2 \in Seq(RequestType)
        /\ \A i \in 1..Len(q2) : q2[i].kind = "child" /\ q2[i].call \in With(b, "child")
    BY <1>2, RequestsAre
  <2> QED  BY <2>1, <1>2 DEF ToSet
<1>5. /\ q4 \in Seq(RequestType)
      /\ \A r \in ToSet(q4) : r.kind = "text"
  <2>1. /\ q4 \in Seq(RequestType)
        /\ \A i \in 1..Len(q4) : q4[i].kind = "text"
    BY <1>2, RequestsAre
  <2> QED  BY <2>1 DEF ToSet
<1>6. /\ q3 \in Seq(RequestType)
      /\ ToSet(q3) = IF result.await = "none" THEN {} ELSE {Request(result.await, AwaitCall)}
  <2>1. Request(result.await, AwaitCall) \in RequestType \/ result.await = "none"
    BY Constants DEF Request, RequestType, ResultInv, ResultType
  <2> QED  BY <2>1 DEF ToSet
<1> HIDE DEF q1, q2, q3, q4
<1>7. /\ q1 \o q2 \in Seq(RequestType) /\ ToSet(q1 \o q2) = ToSet(q1) \cup ToSet(q2)
      /\ OneConfirm(q1 \o q2)
  BY <1>3, <1>4, JoinIs
<1>8. \A r \in ToSet(q3) : r.kind # "confirm" /\ r.kind = result.await /\ r.call = AwaitCall
  BY <1>6 DEF Request, ResultInv, ResultType
<1>9. /\ q1 \o q2 \o q3 \in Seq(RequestType) /\ OneConfirm(q1 \o q2 \o q3)
      /\ ToSet(q1 \o q2 \o q3) = ToSet(q1) \cup ToSet(q2) \cup ToSet(q3)
  BY <1>6, <1>7, <1>8, JoinIs
<1> DEFINE q == q1 \o q2 \o q3 \o q4
<1>10. /\ q \in Seq(RequestType) /\ OneConfirm(q)
       /\ ToSet(q) = ToSet(q1) \cup ToSet(q2) \cup ToSet(q3) \cup ToSet(q4)
  BY <1>5, <1>9, JoinIs
<1>11. AwaitQueue(b) = q
  BY DEF AwaitQueue, q1, q2, q3, q4, S1
<1> HIDE DEF q
<1>12. \A r \in ToSet(q1) : r.kind = "confirm" /\ r.call \in S1
  BY <1>3 DEF Request
<1>13. \A r \in ToSet(q) : AskedOf(r) /\ (r.kind = "confirm" => Gated(r.call))
  <2> TAKE r \in ToSet(q)
  <2>1. CASE r \in ToSet(q1)  BY <2>1, <1>12, <1>2 DEF AskedOf
  <2>2. CASE r \in ToSet(q2)  BY <2>2, <1>4 DEF AskedOf
  <2>3. CASE r \in ToSet(q3)  BY <2>3, <1>8 DEF AskedOf, ResultInv, ResultType
  <2>4. CASE r \in ToSet(q4)  BY <2>4, <1>5 DEF AskedOf
  <2> QED  BY <1>10, <2>1, <2>2, <2>3, <2>4
<1>14. ASSUME NEW c \in DOMAIN result.spec \ DOMAIN b.recs, Gated(c) \/ c = AwaitCall
       PROVE  Waiting(q, c)
  <2>1. CASE Gated(c)
    <3>1. Request("confirm", c) \in ToSet(q)
      BY <2>1, <1>2, <1>3, <1>10, <1>14
    <3> QED  BY <3>1 DEF Waiting, Request
  <2>2. CASE c = AwaitCall
    <3>1. result.await = "tool"
      BY <2>2, <1>14 DEF ResultInv
    <3>2. Request("tool", c) \in ToSet(q)
      BY <3>1, <2>2, <1>6, <1>10
    <3> QED  BY <3>2 DEF Waiting, Request
  <2> QED  BY <1>14, <2>1, <2>2
<1> QED  BY <1>10, <1>11, <1>13, <1>14

-----------------------------------------------------------------------------
(* Caps and counts.                                                        *)

(* A policy decision only tightens: a cap that is left alone keeps its     *)
(* value, and one that is not exhausted is not exhausted by the decision.  *)
LEMMA MergeIs ==
    ASSUME NEW c \in Caps, NEW d \in Caps
    PROVE  /\ mergeCaps(c, d) \in Caps
           /\ \A k \in {"maxTools", "remTools", "maxFails", "remFails"} :
                 /\ mergeCaps(c, d)[k] <= c[k]
                 /\ c[k] > 0 => mergeCaps(c, d)[k] > 0
                 /\ d[k] = 0 => mergeCaps(c, d)[k] = c[k]
<1> DEFINE K == {"maxTools", "remTools", "maxFails", "remFails"}
<1>1. \A k \in K : c[k] \in Nat /\ d[k] \in Nat
  BY DEF Caps
<1>2. \A a, b \in Nat : /\ mergeCapDown(a, b) \in Nat /\ mergeCapDown(a, b) <= a
                        /\ a > 0 => mergeCapDown(a, b) > 0
                        /\ b = 0 => mergeCapDown(a, b) = a
  BY MinOfTwo DEF mergeCapDown
<1>3. mergeCaps(c, d) = [k \in K |-> mergeCapDown(c[k], d[k])]
  BY DEF mergeCaps, Caps
<1>4. mergeCaps(c, d) \in Caps
  BY <1>1, <1>2, <1>3 DEF Caps
<1>5. ASSUME NEW k \in K
      PROVE  /\ mergeCaps(c, d)[k] <= c[k]
             /\ c[k] > 0 => mergeCaps(c, d)[k] > 0
             /\ d[k] = 0 => mergeCaps(c, d)[k] = c[k]
  <2>1. mergeCaps(c, d)[k] = mergeCapDown(c[k], d[k])
    BY <1>3
  <2> QED  BY <2>1, <1>1, <1>2
<1> QED  BY <1>4, <1>5

(* A cap is charged at most what is left of it.                            *)
LEMMA DecrementIs ==
    ASSUME NEW a \in Nat, NEW n \in Nat
    PROVE  /\ decrementCap(a, n) \in Nat /\ decrementCap(a, n) <= a
           /\ n <= a => decrementCap(a, n) = a - n
BY MaxOfTwo DEF decrementCap

(* Charging a batch for its tool calls.                                    *)
LEMMA ChargedIs ==
    ASSUME Shapes
    PROVE  /\ ChargedCaps \in Caps
           /\ ChargedCaps.maxTools = caps.maxTools
           /\ ChargedCaps.maxFails = caps.maxFails
           /\ ChargedCaps.remFails = caps.remFails
           /\ ChargedCaps.remTools = decrementCap(caps.remTools, batch.cost)
           /\ ChargedCaps.remTools <= caps.remTools
           /\ batch.cost <= caps.remTools => ChargedCaps.remTools = caps.remTools - batch.cost
<1>1. caps \in Caps /\ caps.remTools \in Nat /\ batch.cost \in Nat
  BY DEF Shapes, Caps, BatchType
<1>2. /\ decrementCap(caps.remTools, batch.cost) \in Nat
      /\ decrementCap(caps.remTools, batch.cost) <= caps.remTools
      /\ batch.cost <= caps.remTools =>
            decrementCap(caps.remTools, batch.cost) = caps.remTools - batch.cost
  BY <1>1, DecrementIs
<1> DEFINE n == decrementCap(caps.remTools, batch.cost)
<1>3. ChargedCaps = [caps EXCEPT !.remTools = n]
  BY <1>1 DEF ChargedCaps, Caps
<1> HIDE DEF n
<1>4. n \in Nat /\ n = decrementCap(caps.remTools, batch.cost)
  BY <1>2 DEF n
<1> QED  BY <1>1, <1>2, <1>3, <1>4 DEF Caps

(* The failure cap after a step: reset by progress, one less when every    *)
(* budgeted call failed.                                                   *)
LEMMA StreakIs ==
    ASSUME NEW c \in Caps
    PROVE  /\ applyFailureStreak(c) \in Caps
           /\ applyFailureStreak(c).maxTools = c.maxTools
           /\ applyFailureStreak(c).remTools = c.remTools
           /\ applyFailureStreak(c).maxFails = c.maxFails
           /\ Progress /\ c.maxFails > 0 => applyFailureStreak(c).remFails = c.maxFails
           /\ AllFailed => applyFailureStreak(c).remFails = decrementCap(c.remFails, 1)
           /\ ~Progress /\ ~AllFailed => applyFailureStreak(c).remFails = c.remFails
<1>1. c.remFails \in Nat /\ c.maxFails \in Nat /\ decrementCap(c.remFails, 1) \in Nat
  BY DecrementIs DEF Caps
<1>2. ~(Progress /\ AllFailed)
  BY DEF AllFailed
<1> DEFINE n == decrementCap(c.remFails, 1)
<1>3. n \in Nat
  BY <1>1
<1> HIDE DEF n
<1>4. CASE Progress
  <2>1. applyFailureStreak(c) = IF c.maxFails > 0 THEN [c EXCEPT !.remFails = c.maxFails] ELSE c
    BY <1>2, <1>4 DEF applyFailureStreak
  <2> QED  BY <1>1, <1>2, <1>4, <2>1 DEF Caps
<1>5. CASE AllFailed
  <2>1. applyFailureStreak(c) = [c EXCEPT !.remFails = n]
    BY <1>2, <1>5 DEF applyFailureStreak, n, Caps
  <2> QED  BY <1>2, <1>3, <1>5, <2>1 DEF Caps, n
<1>6. CASE ~Progress /\ ~AllFailed
  <2>1. applyFailureStreak(c) = c
    BY <1>6 DEF applyFailureStreak
  <2> QED  BY <1>6, <2>1
<1> QED  BY <1>4, <1>5, <1>6

(* The calls a run has started, when it has a cap.                         *)
LEMMA SpendIs ==
    ASSUME Shapes, NEW n \in Nat
    PROVE  /\ Spend(n) \in Nat
           /\ MaxToolCalls > 0 => Spend(n) <= spent + n
<1>1. spent \in Nat /\ MaxToolCalls \in Nat /\ spent + n \in Nat /\ MaxToolCalls + 1 \in Nat
  BY Constants DEF Shapes
<1>2. Min({spent + n, MaxToolCalls + 1}) = IF spent + n <= MaxToolCalls + 1 THEN spent + n ELSE MaxToolCalls + 1
  BY <1>1, MinOfTwo
<1> QED  BY <1>1, <1>2 DEF Spend

(* The budgeted calls of disjoint parts of a set are no more than those of *)
(* the set.                                                                *)
LEMMA CountIs ==
    ASSUME NEW U \in SUBSET Ids, NEW S \in SUBSET U, NEW T \in SUBSET U, S \cap T = {}
    PROVE  /\ Cardinality(BudgetedCalls(result, S)) \in Nat
           /\ Cardinality(BudgetedCalls(result, T)) \in Nat
           /\ Cardinality(BudgetedCalls(result, U)) \in Nat
           /\ Cardinality(BudgetedCalls(result, S)) + Cardinality(BudgetedCalls(result, T))
                 <= Cardinality(BudgetedCalls(result, U))
<1> DEFINE BS == BudgetedCalls(result, S)
           BT == BudgetedCalls(result, T)
           BU == BudgetedCalls(result, U)
<1>1. BU \subseteq Ids /\ BS \subseteq BU /\ BT \subseteq BU /\ BS \cap BT = {}
      /\ BS \cup BT \subseteq BU
  BY DEF BudgetedCalls
<1> HIDE DEF BS, BT, BU
<1>2. IsFiniteSet(BU) /\ IsFiniteSet(BS) /\ IsFiniteSet(BT)
  BY <1>1, Constants, FS_Subset
<1>3. Cardinality(BS) \in Nat /\ Cardinality(BT) \in Nat /\ Cardinality(BU) \in Nat
  BY <1>2, FS_CardinalityType
<1>4. Cardinality(BS \cap BT) = 0
  BY <1>1, FS_EmptySet
<1>5. Cardinality(BS \cup BT) = Cardinality(BS) + Cardinality(BT)
  <2>1. Cardinality(BS \cup BT) = Cardinality(BS) + Cardinality(BT) - Cardinality(BS \cap BT)
    BY <1>2, FS_Union
  <2> QED  BY <2>1, <1>3, <1>4
<1>6. Cardinality(BS \cup BT) <= Cardinality(BU)
  BY <1>1, <1>2, FS_Subset
<1> QED  BY <1>3, <1>5, <1>6 DEF BS, BT, BU

(* A part of a set of calls has no more budgeted ones.                     *)
LEMMA CountLess ==
    ASSUME NEW U \in SUBSET Ids, NEW S \in SUBSET U
    PROVE  /\ Cardinality(BudgetedCalls(result, S)) \in Nat
           /\ Cardinality(BudgetedCalls(result, U)) \in Nat
           /\ Cardinality(BudgetedCalls(result, S)) <= Cardinality(BudgetedCalls(result, U))
<1> DEFINE BS == BudgetedCalls(result, S)
           BU == BudgetedCalls(result, U)
<1>1. BU \subseteq Ids /\ BS \subseteq BU
  BY DEF BudgetedCalls
<1> HIDE DEF BS, BU
<1>2. IsFiniteSet(BU) /\ IsFiniteSet(BS) /\ Cardinality(BS) <= Cardinality(BU)
  BY <1>1, Constants, FS_Subset
<1> QED  BY <1>2, FS_CardinalityType DEF BS, BU

(* A set of calls has a number of budgeted ones.                           *)
LEMMA CountType ==
    ASSUME NEW S \in SUBSET Ids
    PROVE  Cardinality(BudgetedCalls(result, S)) \in Nat
<1>1. BudgetedCalls(result, S) \in SUBSET Ids
  BY DEF BudgetedCalls
<1> QED  BY <1>1, Constants, FS_Subset, FS_CardinalityType

(* No call is unstarted: none of them is budgeted.                         *)
LEMMA CountNone == Cardinality(BudgetedCalls(result, {})) = 0
<1>1. BudgetedCalls(result, {}) = {}
  BY DEF BudgetedCalls
<1> QED  BY <1>1, FS_EmptySet

-----------------------------------------------------------------------------
(* Recording, and the queue of a suspension.                               *)

\* The results of S, and no others, are in the transcript.
Transcript(S) == \A c \in uses : answers[c] = IF c \in S THEN 1 ELSE 0

(* Recording a batch answers each of its calls once, those recorded before *)
(* included.                                                               *)
LEMMA RecordingIs ==
    ASSUME Shapes, Transcript(batch.recorded),
           NEW b \in BatchType, b.recorded = batch.recorded, b.recorded \subseteq DOMAIN b.recs,
           recordUnrecordedStepToolResults(b), UNCHANGED uses
    PROVE  /\ answers' \in [uses' -> Nat]
           /\ \A c \in uses' : answers'[c] = IF c \in DOMAIN b.recs THEN 1 ELSE 0
<1>1. answers \in [uses -> Nat]
  BY DEF Shapes
<1>2. answers' = [c \in uses |->
                    answers[c] + IF c \in DOMAIN b.recs \ b.recorded THEN 1 ELSE 0]
  BY <1>1 DEF recordUnrecordedStepToolResults
<1> QED  BY <1>1, <1>2 DEF Transcript

-----------------------------------------------------------------------------
(* The steps, in the order of the loop.                                    *)

\* What NothingStartedLate says of one step.
StartedInTime ==
    \A c \in exec.inflight' \ exec.inflight :
        Timed /\ result'.spec[c].class = "budgeted" => clock < TimeBudget

\* What is shown of every action: it keeps the invariant, and starts no call late.
StepInv == IInv' /\ StartedInTime

(* Time passes.                                                            *)
LEMMA TickStep ==
    ASSUME IInv, Tick
    PROVE  StepInv
<1> USE DEF IInv
<1>1. UNCHANGED <<pc, result, caps, batch, exec, pending, reason, out,
                  uses, answers, spent, streak>>
  BY DEF Tick
<1>2. left.budget \in Nat /\ left.hard \in Nat /\ left.hard > 0 /\ clock \in Nat
      /\ left.budget <= TimeBudget /\ left.hard <= TimeBudget + Grace
  BY Constants DEF Tick, Shapes
<1>3. /\ left' = [budget |-> IF left.budget - 1 >= 0 THEN left.budget - 1 ELSE 0,
                 hard |-> left.hard - 1]
      /\ clock' = clock + 1
  BY <1>2, MaxOfTwo DEF Tick
<1>4. TimeInv'
  BY <1>2, <1>3 DEF TimeInv
<1>5. left' \in [budget : 0..TimeBudget, hard : 0..(TimeBudget + Grace)]
  BY <1>2, <1>3, Constants
<1>6. Shapes'
  BY <1>1, <1>2, <1>3, <1>5 DEF Shapes
<1>7. ResultInv' /\ PhaseInv'
  BY <1>1 DEF ResultInv, PhaseInv, InStep
<1>8. AnswersInv'
  BY <1>1 DEF AnswersInv, Answered, AnsweredOnce, InStep
<1>9. OpenInv'
  BY <1>1 DEF OpenInv, QueueInv, OneConfirm, AskedOf, OpenCalls, Waiting, Gated
<1>10. CapInv'
  <2>1. Unstarted' = Unstarted
    BY <1>1 DEF Unstarted, ConfirmsIn, Gated
  <2> QED  BY <1>1, <2>1 DEF CapInv, InStep, BudgetedCalls, BookkeepingCall
<1>11. FailInv'
  BY <1>1
     DEF FailInv, FailuresWithinCap, FinalizedForFailures, Uncharged, MissingFields, Recs, InStep
<1>12. StartedInTime
  BY <1>1 DEF StartedInTime
<1> QED  BY <1>4, <1>6, <1>7, <1>8, <1>9, <1>10, <1>11, <1>12 DEF StepInv

(* A planner result, as the loop keeps it.                                 *)
LEMMA PlanResultIs ==
    ASSUME NEW r \in PlanResults
    PROVE  r \in ResultType /\ (AwaitCall \in DOMAIN r.spec <=> r.await = "tool")
<1> DEFINE Of(S, a, f) == {[spec |-> s, await |-> a, final |-> f] :
                             s \in [S \cup (IF a = "tool" THEN {AwaitCall} ELSE {}) ->
                                      [class : Classes, confirm : Confirms]]}
<1>0. PlanResults = UNION {Of(S, a, f) : S \in SUBSET Calls, a \in Awaits, f \in BOOLEAN}
  BY DEF PlanResults
<1> HIDE DEF Of
<1>1. PICK S \in SUBSET Calls, a \in Awaits, f \in BOOLEAN : r \in Of(S, a, f)
  BY <1>0
<1> USE DEF Of
<1> DEFINE D == S \cup (IF a = "tool" THEN {AwaitCall} ELSE {})
<1>2. PICK s \in [D -> [class : Classes, confirm : Confirms]] :
          r = [spec |-> s, await |-> a, final |-> f]
  BY <1>1
<1>3. D \subseteq Ids /\ (AwaitCall \in D <=> a = "tool")
  BY Constants
<1>4. [class : Classes, confirm : Confirms] \subseteq CallType
  BY Constants DEF CallType
<1>5. s \in [D -> CallType]
  BY <1>2, <1>4
<1>6. s \in Specs /\ DOMAIN s = D
  BY <1>3, <1>5 DEF Specs
<1>7. a \in {"none", "text", "tool"}
  BY Constants
<1> HIDE DEF D
<1> QED  BY <1>2, <1>3, <1>6, <1>7 DEF ResultType

(* An empty batch.                                                         *)
LEMMA NoBatchIs == NoBatch \in BatchType /\ DOMAIN NoBatch.recs = {} /\ NoBatch.recorded = {}
<1>1. <<>> \in [{} -> Returned]
  OBVIOUS
<1>2. <<>> \in Records
  BY <1>1 DEF Records
<1> QED  BY <1>2 DEF NoBatch, BatchType

(* The planner returns: a new step begins.                                 *)
LEMMA PlanReturnsStep ==
    ASSUME IInv, NEW r \in PlanResults, PlanReturns(r)
    PROVE  StepInv
<1> USE DEF IInv
<1>1. /\ pc = "planning" /\ pc' = "step" /\ result' = r /\ batch' = NoBatch
      /\ UNCHANGED <<caps, left, exec, pending, reason, out, uses, answers, spent, streak, clock>>
  BY DEF PlanReturns
<1>2. exec = NoExec
  BY <1>1 DEF PhaseInv
<1>3. ResultInv'
  BY <1>1, <1>2, PlanResultIs, NoBatchIs DEF ResultInv, NoExec
<1>4. Shapes' /\ PhaseInv' /\ TimeInv'
  BY <1>1, NoBatchIs DEF Shapes, PhaseInv, InStep, TimeInv
<1>5. AnswersInv' /\ OpenInv'
  BY <1>1 DEF AnswersInv, Answered, OpenInv, InStep
<1>6. CapInv' /\ FailInv'
  BY <1>1 DEF CapInv, FailInv, FailuresWithinCap, FinalizedForFailures, Uncharged, InStep
<1>7. StartedInTime
  BY <1>1 DEF StartedInTime
<1> QED  BY <1>3, <1>4, <1>5, <1>6, <1>7 DEF StepInv

\* The steps that leave the loop's step as it is.
Gives ==
    \/ PlanTimesOut \/ PlanFails \/ StepRejected \/ StepOutOfTime
    \/ ContinuationFails \/ FinalizeFails

(* The run is finalized or ends without touching its step.                 *)
LEMMA GivesStep ==
    ASSUME IInv, Gives
    PROVE  StepInv
<1> USE DEF IInv
<1>1. UNCHANGED <<result, caps, left, batch, exec, pending, uses, answers, spent, streak, clock>>
  BY DEF Gives, PlanTimesOut, PlanFails, StepRejected, StepOutOfTime, ContinuationFails,
         FinalizeFails
<1>2. \/ /\ pc \in {"planning", "step"} /\ pc' = "finalizing" /\ reason' = "time_budget"
         /\ out' = out
      \/ /\ pc \in {"planning", "step", "suspended", "confirmed", "finalizing"}
         /\ pc' = "done" /\ out' = "failed" /\ reason' = reason
         /\ pc = "confirmed" => exec = NoExec
  BY DEF Gives, PlanTimesOut, PlanFails, StepRejected, StepOutOfTime, ContinuationFails,
         FinalizeFails, finalizeStep, EndRun
<1>3. ResultInv' /\ TimeInv'
  BY <1>1 DEF ResultInv, TimeInv
<1>4. Shapes'
  BY <1>1, <1>2 DEF Shapes
<1>5. PhaseInv'
  BY <1>1, <1>2 DEF PhaseInv, InStep
<1>6. AnswersInv'
  <2>1. uses' = uses /\ answers' = answers /\ batch' = batch
    BY <1>1
  <2>2. CASE pc \in {"planning", "step", "finalizing"}
    BY <1>2, <2>1, <2>2 DEF AnswersInv, Answered, AnsweredOnce, InStep, PhaseInv
  <2>3. CASE pc \in {"suspended", "confirmed"}
    BY <1>2, <2>1, <2>3 DEF AnswersInv, AnsweredOnce, InStep, PhaseInv
  <2> QED  BY <1>2, <2>2, <2>3
<1>7. OpenInv'
  BY <1>2 DEF OpenInv
<1>8. CapInv'
  BY <1>1, <1>2 DEF CapInv, InStep
<1>9. FailInv'
  BY <1>1, <1>2 DEF FailInv, FailuresWithinCap, FinalizedForFailures, Uncharged, InStep, PhaseInv
<1>10. StartedInTime
  BY <1>1 DEF StartedInTime
<1> QED  BY <1>3, <1>4, <1>5, <1>6, <1>7, <1>8, <1>9, <1>10 DEF StepInv

\* Caps m that a decision may have tightened.
Tightened(m) ==
    /\ m \in Caps /\ m.remTools <= caps.remTools
    /\ MaxToolCalls > 0 => m.maxTools > 0
    /\ FailureCapUntouched => m.maxFails = caps.maxFails /\ m.remFails = caps.remFails
    /\ m.maxFails <= caps.maxFails /\ m.remFails <= caps.remFails
    /\ MaxFailures > 0 => m.maxFails > 0 /\ m.remFails > 0

(* The caps merged with a decision keep what CapInv and FailInv say of     *)
(* them before a step is committed.                                        *)
LEMMA MergedCaps ==
    ASSUME IInv, pc = "step", NEW d \in Decisions
    PROVE  Tightened(mergeCaps(caps, d))
<1>1. caps \in Caps /\ d \in Caps
  BY Constants DEF IInv, Shapes
<1>2. MaxToolCalls > 0 => caps.maxTools > 0
  BY DEF IInv, CapInv
<1>3. FailureCapUntouched => d.maxFails = 0 /\ d.remFails = 0
  BY DEF FailureCapUntouched
<1>4. /\ mergeCaps(caps, d) \in Caps
      /\ mergeCaps(caps, d).remTools <= caps.remTools
      /\ caps.maxTools > 0 => mergeCaps(caps, d).maxTools > 0
      /\ d.maxFails = 0 => mergeCaps(caps, d).maxFails = caps.maxFails
      /\ d.remFails = 0 => mergeCaps(caps, d).remFails = caps.remFails
      /\ mergeCaps(caps, d).maxFails <= caps.maxFails
      /\ mergeCaps(caps, d).remFails <= caps.remFails
      /\ caps.maxFails > 0 => mergeCaps(caps, d).maxFails > 0
      /\ caps.remFails > 0 => mergeCaps(caps, d).remFails > 0
  BY <1>1, MergeIs
<1>5. MaxFailures > 0 => caps.maxFails > 0 /\ caps.remFails > 0
  BY DEF IInv, FailInv, Uncharged
<1> QED  BY <1>2, <1>3, <1>4, <1>5 DEF Tightened

(* A final answer without tool calls.                                      *)
LEMMA StepTerminalStep ==
    ASSUME IInv, StepTerminal
    PROVE  StepInv
<1> USE DEF IInv
<1>1. /\ pc = "step" /\ pc' = "done" /\ out' = "completed"
      /\ uses' = {} /\ answers' = [c \in {} |-> 0]
      /\ UNCHANGED <<result, caps, left, batch, exec, pending, reason, spent, streak, clock>>
  BY DEF StepTerminal, EndRun, commitSelectedModelResponse
<1>2. ResultInv' /\ Shapes' /\ PhaseInv' /\ TimeInv'
  BY <1>1 DEF ResultInv, Shapes, PhaseInv, InStep, TimeInv
<1>3. AnswersInv' /\ OpenInv'
  BY <1>1 DEF AnswersInv, Answered, AnsweredOnce, InStep, OpenInv
<1>4. CapInv' /\ FailInv'
  BY <1>1 DEF CapInv, FailInv, FailuresWithinCap, FinalizedForFailures, Uncharged, InStep
<1>5. StartedInTime
  BY <1>1 DEF StartedInTime
<1> QED  BY <1>2, <1>3, <1>4, <1>5 DEF StepInv

(* A batch over the tool-call cap is answered and the run finalized.       *)
LEMMA StepCapDeniedStep ==
    ASSUME IInv, NEW d \in Decisions, StepCapDenied(d)
    PROVE  StepInv
<1> USE DEF IInv
<1>1. /\ pc = "step" /\ pc' = "finalizing" /\ reason' = "tool_cap"
      /\ caps' = mergeCaps(caps, d)
      /\ uses' = DOMAIN result.spec /\ answers' = [c \in DOMAIN result.spec |-> 1]
      /\ UNCHANGED <<result, left, batch, exec, pending, out, spent, streak, clock>>
  BY DEF StepCapDenied, finalizeStep
<1> DEFINE m == mergeCaps(caps, d)
<1>2. Tightened(m)
  BY <1>1, MergedCaps
<1> HIDE DEF m
<1>3. caps' = m
  BY <1>1 DEF m
<1>4. DOMAIN result.spec \subseteq Ids
  BY DEF ResultInv, ResultType, Specs
<1>5. ResultInv' /\ PhaseInv' /\ TimeInv'
  BY <1>1 DEF ResultInv, PhaseInv, InStep, TimeInv
<1>6. Shapes'
  BY <1>1, <1>2, <1>3, <1>4 DEF Shapes, Tightened
<1>7. AnswersInv' /\ OpenInv'
  BY <1>1 DEF AnswersInv, Answered, InStep, OpenInv
<1>8. CapInv'
  BY <1>1, <1>2, <1>3 DEF CapInv, InStep, Tightened
<1>9. FailInv'
  <2>1. m.maxFails \in Nat /\ caps.maxFails \in Nat
    BY <1>2 DEF Shapes, Caps, Tightened
  <2> QED
    BY <1>1, <1>2, <1>3, <2>1, Constants
       DEF Tightened, FailInv, FailuresWithinCap, FinalizedForFailures, Uncharged, InStep
<1>10. StartedInTime
  BY <1>1 DEF StartedInTime
<1> QED  BY <1>5, <1>6, <1>7, <1>8, <1>9, <1>10 DEF StepInv

(* The response is committed: its cost is within what the cap has left.    *)
LEMMA StepCommitsStep ==
    ASSUME IInv, NEW d \in Decisions, StepCommits(d)
    PROVE  StepInv
<1> USE DEF IInv
<1> DEFINE m == mergeCaps(caps, d)
           cost == Cardinality(BudgetedCalls(result, PlanCalls(result)))
           D == DOMAIN result.spec
           queue == {c \in PlanCalls(result) : ~result.spec[c].confirm}
<1>1. /\ pc = "step" /\ pc' = "executing"
      /\ IF PlanCalls(result) = {} THEN caps' = caps
         ELSE admitToolBatch(cost, m) /\ caps' = m
      /\ uses' = D /\ answers' = [c \in D |-> 0]
      /\ batch' = [NoBatch EXCEPT !.cost = cost]
      /\ exec' = [queue |-> queue, inflight |-> {}]
      /\ UNCHANGED <<result, left, pending, reason, out, spent, streak, clock>>
  BY DEF StepCommits, commitSelectedModelResponse
<1>2. D \subseteq Ids /\ queue \subseteq D /\ PlanCalls(result) \subseteq D
      /\ queue \subseteq Calls /\ D \subseteq Calls \cup {AwaitCall}
      /\ PlanCalls(result) = D \cap Calls
  BY Constants DEF ResultInv, ResultType, Specs, PlanCalls, Ids
<1>3. \A c \in D : result.spec[c].confirm \in BOOLEAN
  BY DEF ResultInv, ResultType, Specs, CallType
<1>4. cost \in Nat
  <2>1. PlanCalls(result) \in SUBSET Ids
    BY <1>2
  <2> QED  BY <2>1, CountType
<1>5. Tightened(m)
  BY <1>1, MergedCaps
<1>6. caps \in Caps /\ caps.remTools \in Nat /\ caps.maxTools \in Nat /\ spent \in Nat
  BY DEF Shapes, Caps
<1>7. PlanCalls(result) = {} => cost = 0
  BY CountNone
<1> HIDE DEF m, cost, queue, D
<1>8. /\ caps' \in Caps /\ caps'.remTools \in Nat /\ caps'.remTools <= caps.remTools
      /\ MaxToolCalls > 0 => caps'.maxTools > 0 /\ cost <= caps'.remTools
      /\ FailureCapUntouched => caps'.maxFails = caps.maxFails /\ caps'.remFails = caps.remFails
      /\ caps'.maxFails <= caps.maxFails /\ caps'.remFails <= caps.remFails
      /\ MaxFailures > 0 => caps'.maxFails > 0 /\ caps'.remFails > 0
  <2>1. /\ MaxToolCalls > 0 => caps.maxTools > 0
        /\ MaxFailures > 0 => caps.maxFails > 0 /\ caps.remFails > 0
        /\ caps.maxFails \in Nat /\ caps.remFails \in Nat
    BY <1>1, <1>6 DEF CapInv, FailInv, Uncharged, Caps
  <2>2. m.remTools \in Nat /\ m.maxTools \in Nat
    BY <1>5 DEF Caps, Tightened
  <2>3. CASE PlanCalls(result) = {}
    BY <2>1, <2>3, <1>1, <1>6, <1>7
  <2>4. CASE PlanCalls(result) # {}
    BY <2>2, <2>4, <1>1, <1>4, <1>5 DEF admitToolBatch, Tightened
  <2> QED  BY <2>3, <2>4
<1>9. /\ batch' \in BatchType /\ DOMAIN batch'.recs = {} /\ batch'.recorded = {}
      /\ batch'.cost = cost /\ ~batch'.counted /\ ~batch'.failed
  <2>1. NoBatch \in BatchType
    BY NoBatchIs
  <2>2. ~NoBatch.counted /\ ~NoBatch.failed
    BY DEF NoBatch
  <2> QED  BY <2>1, <2>2, <1>1, <1>4, NoBatchIs DEF BatchType
<1>10. ResultInv'
  BY <1>1, <1>2, <1>9 DEF ResultInv, D
<1>11. Shapes'
  <2>1. exec' \in [queue : SUBSET Ids, inflight : SUBSET Ids]
    BY <1>1, <1>2
  <2>2. answers' \in [uses' -> Nat] /\ uses' \subseteq Ids
    BY <1>1, <1>2
  <2> QED  BY <1>1, <1>8, <1>9, <2>1, <2>2 DEF Shapes
<1>12. PhaseInv' /\ TimeInv'
  BY <1>1, <1>9 DEF PhaseInv, InStep, TimeInv
<1>13. AnswersInv'
  BY <1>1, <1>9 DEF AnswersInv, InStep, D
<1>14. OpenInv'
  <2>1. \A c \in queue : ~result.spec[c].confirm
    BY DEF queue
  <2>2. \A c \in D : c \in queue \/ Gated(c) \/ c = AwaitCall
    BY <1>2, <1>3 DEF queue, Gated
  <2>3. \A c : Gated(c)' <=> Gated(c)
    BY <1>1 DEF Gated
  <2> QED  BY <1>1, <1>2, <2>1, <2>2, <2>3 DEF OpenInv, D
<1>15. CapInv'
  <2>1. Unstarted' \subseteq PlanCalls(result)
    BY <1>1, <1>2 DEF Unstarted, Gated, D, PlanCalls
  <2> DEFINE U == Unstarted'
  <2>2. /\ Cardinality(BudgetedCalls(result, U)) \in Nat
        /\ Cardinality(BudgetedCalls(result, U)) <= cost
    <3> HIDE DEF U
    <3>1. PlanCalls(result) \in SUBSET Ids /\ U \in SUBSET PlanCalls(result)
      BY <2>1, <1>2 DEF U
    <3> QED  BY <3>1, CountLess DEF cost
  <2>3. Cardinality(BudgetedCalls(result, U)) = Cardinality(BudgetedCalls(result, Unstarted))'
    BY <1>1 DEF BudgetedCalls, BookkeepingCall
  <2> DEFINE n == Cardinality(BudgetedCalls(result, Unstarted))'
  <2>4. n \in Nat /\ n <= cost
    BY <2>2, <2>3
  <2> HIDE DEF U, n
  <2>5. MaxToolCalls > 0 => spent + caps.remTools <= MaxToolCalls
    BY <1>1 DEF CapInv
  <2>6. MaxToolCalls > 0 => spent' + n + (caps'.remTools - cost) <= MaxToolCalls
    BY <1>1, <1>4, <1>6, <1>8, <2>4, <2>5, Constants
  <2>7. MaxToolCalls > 0 => spent' <= MaxToolCalls
    BY <1>1 DEF CapInv
  <2> QED  BY <1>1, <1>8, <1>9, <2>6, <2>7 DEF CapInv, InStep, n
<1>16. FailInv'
  <2>1. caps.maxFails \in Nat /\ caps.remFails \in Nat /\ streak \in Nat
        /\ caps'.maxFails \in Nat /\ caps'.remFails \in Nat
    BY <1>6, <1>8 DEF Shapes, Caps
  <2> QED
    BY <1>1, <1>8, <1>9, <2>1, Constants
       DEF FailInv, FailuresWithinCap, FinalizedForFailures, Uncharged, InStep
<1>17. StartedInTime
  BY <1>1 DEF StartedInTime
<1> QED  BY <1>10, <1>11, <1>12, <1>13, <1>14, <1>15, <1>16, <1>17 DEF StepInv

(* A step whose queue starts with a confirmation was not asked for missing *)
(* fields.                                                                 *)
LEMMA ConfirmingNotCounted ==
    ASSUME Shapes, QueueInv, pending # <<>>, Head(pending).kind # "text"
    PROVE  ~batch.counted
<1>1. pending \in Seq(RequestType)
  BY DEF Shapes
<1>2. Head(pending) \in ToSet(pending)
  BY <1>1, HeadAndTail
<1> QED  BY <1>2 DEF QueueInv

(* A group of calls is started, apart from those whose deadline has        *)
(* passed.                                                                 *)
LEMMA DispatchStep ==
    ASSUME IInv, NEW G \in NextGroups, DispatchToolCalls(G)
    PROVE  StepInv
<1> USE DEF IInv
<1> DEFINE late == {c \in G : DeadlinePassed(c)}
           started == {c \in G : ~DeadlinePassed(c)}
           recs == WithRecords(batch.recs, late, "timeout")
           n == Cardinality(BudgetedCalls(result, started))
<1>1. /\ pc = "executing" /\ exec.inflight = {}
      /\ exec' = [queue |-> exec.queue \ G, inflight |-> started]
      /\ batch' = [batch EXCEPT !.recs = recs,
                                !.timedOut = @ \/ \E c \in G : DeadlinePassed(c)]
      /\ UNCHANGED <<pc, result, caps, left, pending, reason, out, uses, answers, streak, clock>>
  BY DEF DispatchToolCalls
<1>2. spent' = Spend(n)
  <2>1. {c \in BudgetedCalls(result, G) : ~DeadlinePassed(c)} = BudgetedCalls(result, started)
    BY DEF BudgetedCalls
  <2> QED  BY <2>1 DEF DispatchToolCalls
<1>3. G \subseteq exec.queue
  BY DEF NextGroups, BudgetedCalls
<1>4. /\ exec.queue \subseteq Ids /\ exec.queue \subseteq DOMAIN result.spec
      /\ exec.queue \subseteq Calls /\ \A c \in exec.queue : ~result.spec[c].confirm
      /\ DOMAIN result.spec \subseteq Ids
  BY <1>1 DEF ResultInv, ResultType, Specs, Shapes, OpenInv
<1>5. late \subseteq G /\ started \subseteq G /\ late \cup started = G /\ started \cap late = {}
  OBVIOUS
<1>6. \A c \in started : result.spec[c].class = "budgeted" => ~BudgetPassed
  BY DEF DeadlinePassed, BookkeepingCall
<1> HIDE DEF late, started
<1>7. recs \in Records /\ DOMAIN recs = DOMAIN batch.recs \cup late
  <2>1. batch.recs \in Records /\ late \in SUBSET Ids /\ "timeout" \in Returned
    BY <1>3, <1>4, <1>5 DEF Shapes, BatchType, Returned
  <2> QED  BY <2>1, WithRecordsIs
<1> HIDE DEF recs
<1>8. /\ batch' \in BatchType /\ batch'.recs = recs /\ batch'.recorded = batch.recorded
      /\ batch'.cost = batch.cost /\ batch'.counted = batch.counted
      /\ batch'.failed = batch.failed /\ batch'.awaited = batch.awaited
  BY <1>1, <1>7 DEF Shapes, BatchType
<1>9. started \in SUBSET Ids
  BY <1>3, <1>4, <1>5
<1>10. n \in Nat /\ spent \in Nat /\ spent' \in Nat
       /\ (MaxToolCalls > 0 => spent' <= spent + n)
  <2>1. n \in Nat
    BY <1>9, CountType
  <2> HIDE DEF n
  <2> QED  BY <2>1, <1>2, SpendIs DEF Shapes
<1>11. ResultInv'
  BY <1>1, <1>3, <1>4, <1>5, <1>7, <1>8 DEF ResultInv
<1>12. Shapes'
  <2>1. exec' \in [queue : SUBSET Ids, inflight : SUBSET Ids]
    BY <1>1, <1>4, <1>9
  <2> QED  BY <1>1, <1>8, <1>10, <2>1 DEF Shapes
<1>13. PhaseInv' /\ TimeInv'
  BY <1>1, <1>8 DEF PhaseInv, InStep, TimeInv
<1>14. AnswersInv'
  BY <1>1, <1>8 DEF AnswersInv, InStep
<1>15. \A c : Gated(c)' <=> Gated(c)
  BY <1>1 DEF Gated
<1>16. OpenInv'
  BY <1>1, <1>3, <1>4, <1>5, <1>7, <1>8, <1>15 DEF OpenInv
<1>17. CapInv'
  <2>1. Unstarted \in SUBSET Ids /\ started \in SUBSET Unstarted
        /\ Unstarted' \in SUBSET Unstarted /\ started \cap Unstarted' = {}
    BY <1>1, <1>3, <1>4, <1>5, <1>15 DEF Unstarted, Gated
  <2> DEFINE U == Unstarted'
             u == Cardinality(BudgetedCalls(result, U))
             u0 == Cardinality(BudgetedCalls(result, Unstarted))
  <2>2. u = Cardinality(BudgetedCalls(result, Unstarted))'
    BY <1>1 DEF BudgetedCalls, BookkeepingCall
  <2>3. u \in Nat /\ u0 \in Nat /\ n + u <= u0
    <3> HIDE DEF U
    <3>1. U \in SUBSET Unstarted /\ started \cap U = {}
      BY <2>1 DEF U
    <3> QED  BY <2>1, <3>1, CountIs
  <2>4. ~batch.counted
    BY <1>1 DEF PhaseInv
  <2>5. MaxToolCalls > 0 => /\ batch.cost <= caps.remTools
                            /\ spent + u0 + (caps.remTools - batch.cost) <= MaxToolCalls
    BY <1>1, <2>4 DEF CapInv, InStep
  <2>6. caps.remTools \in Nat /\ batch.cost \in Nat
    BY DEF Shapes, Caps, BatchType
  <2> HIDE DEF u, u0, n
  <2>7. MaxToolCalls > 0 => /\ spent' <= MaxToolCalls
                            /\ spent' + u + (caps.remTools - batch.cost) <= MaxToolCalls
    BY <1>10, <2>3, <2>5, <2>6, Constants
  <2> QED  BY <1>1, <1>8, <2>2, <2>4, <2>5, <2>7 DEF CapInv, InStep
<1>18. FailInv'
  <2>1. ~batch.counted
    BY <1>1 DEF PhaseInv
  <2> QED
    BY <1>1, <1>8, <2>1
       DEF FailInv, FailuresWithinCap, FinalizedForFailures, Uncharged, InStep
<1>19. StartedInTime
  <2>1. SUFFICES ASSUME NEW c \in started, Timed, result.spec[c].class = "budgeted"
                 PROVE  clock < TimeBudget
    BY <1>1 DEF StartedInTime
  <2>2. left.budget # 0
    BY <1>6, <2>1 DEF BudgetPassed
  <2> QED  BY <2>2, Constants DEF TimeInv, Shapes
<1> QED  BY <1>11, <1>12, <1>13, <1>14, <1>16, <1>17, <1>18, <1>19 DEF StepInv

(* Calls under way come back, or are given up, and their results join the  *)
(* batch.                                                                  *)
LEMMA CallsEnd ==
    ASSUME IInv, pc \in {"executing", "confirmed"},
           NEW S \in SUBSET exec.inflight,
           exec' = [exec EXCEPT !.inflight = @ \ S],
           batch' \in BatchType, batch'.recorded = batch.recorded,
           batch'.cost = batch.cost, batch'.counted = batch.counted,
           batch'.awaited = batch.awaited, batch.failed => batch'.failed,
           DOMAIN batch.recs \subseteq DOMAIN batch'.recs,
           DOMAIN batch'.recs \subseteq DOMAIN batch.recs \cup S,
           batch'.failed \/ S \subseteq DOMAIN batch'.recs,
           UNCHANGED <<pc, result, caps, left, pending, reason, out,
                       uses, answers, spent, streak, clock>>
    PROVE  StepInv
<1> USE DEF IInv
<1>1. exec \in [queue : SUBSET Ids, inflight : SUBSET Ids]
  BY DEF Shapes
<1>2. exec' \in [queue : SUBSET Ids, inflight : SUBSET Ids]
      /\ exec'.queue = exec.queue /\ exec'.inflight = exec.inflight \ S
  BY <1>1
<1>3. ~batch.counted
  <2>1. CASE pc = "executing"
    BY <2>1 DEF PhaseInv
  <2>2. CASE pc = "confirmed"
    BY <2>2, ConfirmingNotCounted DEF OpenInv, PhaseInv
  <2> QED  BY <2>1, <2>2
<1>4. ResultInv'
  BY <1>2 DEF ResultInv
<1>5. Shapes'
  BY <1>2 DEF Shapes
<1>6. PhaseInv' /\ TimeInv'
  BY <1>3 DEF PhaseInv, InStep, TimeInv
<1>7. AnswersInv'
  BY DEF AnswersInv, InStep
<1>8. /\ \A c : Gated(c)' <=> Gated(c)
      /\ \A c : Waiting(Tail(pending), c)' <=> Waiting(Tail(pending), c)
      /\ QueueInv => QueueInv'
  BY <1>3 DEF Gated, Waiting, QueueInv, AskedOf, OneConfirm
<1>9. OpenInv'
  <2>1. CASE pc = "executing"
    BY <2>1, <1>2, <1>8 DEF OpenInv
  <2>2. CASE pc = "confirmed"
    BY <2>2, <1>2, <1>8 DEF OpenInv, OpenCalls
  <2> QED  BY <2>1, <2>2
<1>10. CapInv'
  <2>1. Unstarted' = Unstarted
    BY <1>2, <1>8 DEF Unstarted, ConfirmsIn
  <2> QED  BY <2>1, <1>3 DEF CapInv, InStep, BudgetedCalls, BookkeepingCall
<1>11. FailInv'
  BY <1>3 DEF FailInv, FailuresWithinCap, FinalizedForFailures, Uncharged, InStep
<1>12. StartedInTime
  BY <1>2 DEF StartedInTime
<1> QED  BY <1>4, <1>5, <1>6, <1>7, <1>9, <1>10, <1>11, <1>12 DEF StepInv

(* One call returns.                                                       *)
LEMMA ToolReturnsStep ==
    ASSUME IInv, NEW c \in exec.inflight, NEW o \in Outcomes, ToolReturns(c, o)
    PROVE  StepInv
<1>1. /\ pc \in {"executing", "confirmed"}
      /\ exec' = [exec EXCEPT !.inflight = @ \ {c}]
      /\ batch' = IF o = "error" THEN [batch EXCEPT !.failed = TRUE]
                  ELSE [batch EXCEPT !.recs = WithRecords(batch.recs, {c}, o)]
      /\ UNCHANGED <<pc, result, caps, left, pending, reason, out,
                     uses, answers, spent, streak, clock>>
  BY DEF ToolReturns
<1>2. batch \in BatchType /\ batch.recs \in Records /\ {c} \in SUBSET Ids /\ o \in Returned
      /\ {c} \in SUBSET exec.inflight
  BY DEF IInv, Shapes, BatchType, Returned
<1> DEFINE S == {c}
           recs == WithRecords(batch.recs, S, o)
<1>3. recs \in Records /\ DOMAIN recs = DOMAIN batch.recs \cup S
  <2>1. batch.recs \in Records /\ S \in SUBSET Ids /\ o \in Returned
    BY <1>2
  <2> HIDE DEF S
  <2>2. \A R \in Records : WithRecords(R, S, o) \in Records /\ DOMAIN WithRecords(R, S, o) = DOMAIN R \cup S
    BY ONLY <2>1, WithRecordsIs
  <2> QED  BY <2>1, <2>2
<1> HIDE DEF recs
<1>4. batch' = IF o = "error" THEN [batch EXCEPT !.failed = TRUE]
               ELSE [batch EXCEPT !.recs = recs]
  BY <1>1 DEF recs
<1>5. /\ batch' \in BatchType /\ batch'.recorded = batch.recorded
      /\ batch'.cost = batch.cost /\ batch'.counted = batch.counted
      /\ batch'.awaited = batch.awaited /\ (batch.failed => batch'.failed)
      /\ DOMAIN batch.recs \subseteq DOMAIN batch'.recs
      /\ DOMAIN batch'.recs \subseteq DOMAIN batch.recs \cup {c}
      /\ batch'.failed \/ {c} \subseteq DOMAIN batch'.recs
  BY <1>2, <1>3, <1>4 DEF BatchType
<1> QED  BY <1>1, <1>2, <1>5, CallsEnd

(* The finalize timer answers what is under way.                           *)
LEMMA ToolTimerFiresStep ==
    ASSUME IInv, ToolTimerFires
    PROVE  StepInv
<1> DEFINE S == exec.inflight
           recs == WithRecords(batch.recs, S, "timeout")
<1>1. /\ pc \in {"executing", "confirmed"}
      /\ exec' = [exec EXCEPT !.inflight = {}]
      /\ batch' = [batch EXCEPT !.recs = recs, !.timedOut = TRUE]
      /\ UNCHANGED <<pc, result, caps, left, pending, reason, out,
                     uses, answers, spent, streak, clock>>
  BY DEF ToolTimerFires
<1>2. /\ batch \in BatchType /\ batch.recs \in Records /\ "timeout" \in Returned
      /\ exec \in [queue : SUBSET Ids, inflight : SUBSET Ids] /\ S \in SUBSET Ids
  BY DEF IInv, Shapes, BatchType, Returned
<1>3. recs \in Records /\ DOMAIN recs = DOMAIN batch.recs \cup S
  <2>1. batch.recs \in Records /\ S \in SUBSET Ids /\ "timeout" \in Returned
    BY <1>2
  <2> HIDE DEF S
  <2> QED  BY <2>1, WithRecordsIs
<1>4. exec' = [exec EXCEPT !.inflight = @ \ S]
  BY <1>1, <1>2
<1> HIDE DEF recs
<1>5. /\ batch' \in BatchType /\ batch'.recorded = batch.recorded
      /\ batch'.cost = batch.cost /\ batch'.counted = batch.counted
      /\ batch'.awaited = batch.awaited /\ (batch.failed => batch'.failed)
      /\ DOMAIN batch'.recs = DOMAIN batch.recs \cup S
  BY <1>1, <1>2, <1>3 DEF BatchType
<1>6. S \in SUBSET exec.inflight
  OBVIOUS
<1> HIDE DEF S
<1> QED  BY <1>1, <1>4, <1>5, <1>6, CallsEnd

(* A committed step that fails answers all of its calls.                   *)
LEMMA FailCommittedIs ==
    ASSUME IInv, InStep, NEW b \in BatchType, b.recorded = batch.recorded,
           b.recorded \subseteq DOMAIN b.recs, DOMAIN b.recs \subseteq DOMAIN result.spec,
           failCommittedStep(b), UNCHANGED uses
    PROVE  /\ batch' \in BatchType /\ DOMAIN batch'.recs = DOMAIN result.spec
           /\ batch'.recorded = DOMAIN result.spec
           /\ answers' \in [uses' -> Nat] /\ Answered'
           /\ pc' = "done" /\ out' = "failed"
<1> DEFINE S == DOMAIN result.spec \ DOMAIN b.recs
           recs == WithRecords(b.recs, S, "finish")
           closed == [b EXCEPT !.recs = recs]
<1>1. /\ recordUnrecordedStepToolResults(closed) /\ batch' = Recorded(closed)
      /\ pc' = "done" /\ out' = "failed"
  BY DEF failCommittedStep, EndRun
<1>2. b.recs \in Records /\ S \in SUBSET Ids /\ "finish" \in Returned
  BY DEF BatchType, Returned, IInv, ResultInv, ResultType, Specs
<1>3. DOMAIN b.recs \cup S = DOMAIN result.spec
  OBVIOUS
<1> HIDE DEF S
<1>4. recs \in Records /\ DOMAIN recs = DOMAIN result.spec
  <2>1. recs \in Records /\ DOMAIN recs = DOMAIN b.recs \cup S
    BY <1>2, WithRecordsIs
  <2> QED  BY <1>3, <2>1
<1> HIDE DEF recs
<1>5. closed \in BatchType /\ closed.recorded = batch.recorded
      /\ DOMAIN closed.recs = DOMAIN result.spec /\ closed.recorded \subseteq DOMAIN closed.recs
  BY <1>4 DEF BatchType
<1> HIDE DEF closed
<1>6. Shapes /\ Transcript(batch.recorded) /\ uses = DOMAIN result.spec
  BY DEF IInv, AnswersInv, Transcript
<1>7. /\ answers' \in [uses' -> Nat]
      /\ \A c \in uses' : answers'[c] = IF c \in DOMAIN closed.recs THEN 1 ELSE 0
  BY <1>1, <1>5, <1>6, RecordingIs
<1>8. Answered'
  BY <1>5, <1>6, <1>7 DEF Answered
<1> QED  BY <1>1, <1>5, <1>7, <1>8, RecordedIs

(* What holds when every call of the first execution has come back.        *)
LEMMA ExecutionEndedIs ==
    ASSUME IInv, ExecutionEnded
    PROVE  LET b == resolveExpiredConfirmations(batch)
           IN  /\ pc = "executing" /\ exec = NoExec /\ InStep /\ ~batch.counted
               /\ b \in BatchType
               /\ DOMAIN batch.recs \subseteq DOMAIN b.recs
               /\ DOMAIN b.recs \subseteq DOMAIN result.spec
               /\ b.recorded = batch.recorded /\ b.recorded \subseteq DOMAIN b.recs
               /\ b.counted = batch.counted /\ b.awaited = batch.awaited
               /\ b.failed = batch.failed /\ b.cost = batch.cost
               /\ batch.recorded \subseteq DOMAIN batch.recs
               /\ DOMAIN batch.recs \subseteq DOMAIN result.spec
               /\ \A c \in DOMAIN result.spec \ DOMAIN b.recs :
                     batch.failed \/ Gated(c) \/ c = AwaitCall
<1> USE DEF IInv
<1>1. pc = "executing" /\ exec = NoExec /\ InStep
  BY DEF ExecutionEnded, InStep
<1>2. \A c \in DOMAIN result.spec \ DOMAIN batch.recs :
          batch.failed \/ Gated(c) \/ c = AwaitCall
  BY <1>1 DEF OpenInv, NoExec
<1>3. ~batch.counted /\ batch.recorded \subseteq DOMAIN batch.recs
      /\ DOMAIN batch.recs \subseteq DOMAIN result.spec
  BY <1>1 DEF PhaseInv, ResultInv
<1> QED  BY <1>1, <1>2, <1>3, ExpiredAre

(* Outputs that contradict the step, or a question nobody can be asked.    *)
LEMMA ExecutionFailsStep ==
    ASSUME IInv, ExecutionFails
    PROVE  StepInv
<1> USE DEF IInv
<1> DEFINE e == resolveExpiredConfirmations(batch)
<1>1. ExecutionEnded
  BY DEF ExecutionFails
<1>2. /\ pc = "executing" /\ exec = NoExec /\ InStep
      /\ e \in BatchType /\ DOMAIN e.recs \subseteq DOMAIN result.spec
      /\ e.recorded = batch.recorded /\ e.recorded \subseteq DOMAIN e.recs
      /\ batch.recorded \subseteq DOMAIN batch.recs
      /\ DOMAIN batch.recs \subseteq DOMAIN result.spec
  BY <1>1, ExecutionEndedIs
<1>3. PICK b \in {batch, e} : failCommittedStep(b)
  BY DEF ExecutionFails
<1> HIDE DEF e
<1>4. UNCHANGED <<result, caps, left, exec, pending, reason, uses, spent, streak, clock>>
  BY DEF ExecutionFails
<1>5. b \in BatchType /\ b.recorded = batch.recorded
      /\ b.recorded \subseteq DOMAIN b.recs /\ DOMAIN b.recs \subseteq DOMAIN result.spec
  BY <1>2, <1>3 DEF Shapes
<1>6. /\ batch' \in BatchType /\ DOMAIN batch'.recs = DOMAIN result.spec
      /\ batch'.recorded = DOMAIN result.spec
      /\ answers' \in [uses' -> Nat] /\ Answered'
      /\ pc' = "done" /\ out' = "failed"
  BY <1>2, <1>3, <1>4, <1>5, FailCommittedIs
<1>7. ResultInv' /\ PhaseInv' /\ TimeInv'
  BY <1>2, <1>4, <1>6 DEF ResultInv, PhaseInv, InStep, TimeInv
<1>8. Shapes'
  BY <1>4, <1>6 DEF Shapes
<1>9. AnswersInv' /\ OpenInv'
  BY <1>6 DEF AnswersInv, Answered, AnsweredOnce, InStep, OpenInv
<1>10. CapInv' /\ FailInv'
  BY <1>4, <1>6 DEF CapInv, FailInv, FailuresWithinCap, FinalizedForFailures, Uncharged, InStep
<1>11. StartedInTime
  BY <1>4 DEF StartedInTime
<1> QED  BY <1>7, <1>8, <1>9, <1>10, <1>11 DEF StepInv

(* The run suspends on what the step still needs.                          *)
LEMMA ExecutionSuspendsStep ==
    ASSUME IInv, ExecutionSuspends
    PROVE  StepInv
<1> USE DEF IInv
<1> DEFINE b == resolveExpiredConfirmations(batch)
           q == AwaitQueue(b)
<1>1. /\ ExecutionEnded /\ ~batch.failed /\ q # <<>>
      /\ pc' = "suspended" /\ pending' = q
      /\ \/ recordUnrecordedStepToolResults(b) /\ batch' = [Recorded(b) EXCEPT !.awaited = TRUE]
         \/ batch' = [b EXCEPT !.awaited = TRUE] /\ UNCHANGED answers
      /\ UNCHANGED <<result, caps, left, exec, reason, out, uses, spent, streak, clock>>
  BY DEF ExecutionSuspends, OutputsRejected, suspendRun
<1>2. /\ pc = "executing" /\ exec = NoExec /\ InStep /\ ~batch.counted
      /\ b \in BatchType /\ DOMAIN b.recs \subseteq DOMAIN result.spec
      /\ b.recorded = batch.recorded /\ b.recorded \subseteq DOMAIN b.recs
      /\ ~b.counted /\ ~b.failed /\ b.cost = batch.cost
      /\ \A c \in DOMAIN result.spec \ DOMAIN b.recs : Gated(c) \/ c = AwaitCall
  BY <1>1, ExecutionEndedIs
<1> HIDE DEF b
<1>3. /\ q \in Seq(RequestType) /\ OneConfirm(q)
      /\ \A r \in ToSet(q) : AskedOf(r) /\ (r.kind = "confirm" => Gated(r.call))
      /\ \A c \in DOMAIN result.spec \ DOMAIN b.recs : Gated(c) \/ c = AwaitCall => Waiting(q, c)
  BY <1>2, AwaitQueueIs
<1> HIDE DEF q
<1>4. Shapes /\ Transcript(batch.recorded) /\ uses = DOMAIN result.spec
  BY <1>2 DEF AnswersInv, Transcript
<1>5. /\ batch' \in BatchType /\ DOMAIN batch'.recs = DOMAIN b.recs
      /\ batch'.recorded \subseteq DOMAIN batch'.recs
      /\ batch'.awaited /\ ~batch'.counted /\ ~batch'.failed /\ batch'.cost = batch.cost
      /\ answers' \in [uses' -> Nat]
      /\ \A c \in uses' : answers'[c] = IF c \in batch'.recorded THEN 1 ELSE 0
  <2>1. CASE recordUnrecordedStepToolResults(b)
             /\ batch' = [Recorded(b) EXCEPT !.awaited = TRUE]
    <3>1. /\ answers' \in [uses' -> Nat]
          /\ \A c \in uses' : answers'[c] = IF c \in DOMAIN b.recs THEN 1 ELSE 0
      BY <1>1, <1>2, <1>4, <2>1, RecordingIs
    <3> DEFINE B == Recorded(b)
    <3>2. /\ B \in BatchType /\ B.recorded = DOMAIN b.recs /\ DOMAIN B.recs = DOMAIN b.recs
          /\ B.counted = b.counted /\ B.cost = b.cost /\ B.failed = b.failed
      BY <1>2, RecordedIs
    <3> HIDE DEF B
    <3>3. batch' = [B EXCEPT !.awaited = TRUE]
      BY <2>1 DEF B
    <3> QED  BY <3>1, <3>2, <3>3, <1>2 DEF BatchType
  <2>2. CASE batch' = [b EXCEPT !.awaited = TRUE] /\ UNCHANGED answers
    BY <2>2, <1>1, <1>2, <1>4 DEF BatchType, Transcript, Shapes
  <2> QED  BY <1>1, <2>1, <2>2
<1>6. ResultInv'
  BY <1>1, <1>2, <1>5 DEF ResultInv
<1>7. Shapes'
  BY <1>1, <1>3, <1>5 DEF Shapes
<1>8. PhaseInv' /\ TimeInv'
  BY <1>1, <1>2, <1>5 DEF PhaseInv, InStep, TimeInv
<1>9. AnswersInv'
  BY <1>1, <1>4, <1>5 DEF AnswersInv, InStep
<1>10. OpenInv'
  <2>1. \A r : AskedOf(r)' <=> AskedOf(r)
    BY <1>1 DEF AskedOf
  <2>2. QueueInv'
    BY <1>1, <1>3, <1>5, <2>1 DEF QueueInv, OneConfirm
  <2>3. \A c \in DOMAIN result.spec \ DOMAIN b.recs : Waiting(pending, c)'
    BY <1>1, <1>2, <1>3 DEF Waiting
  <2> QED  BY <1>1, <1>5, <2>2, <2>3 DEF OpenInv, OpenCalls
<1>11. CapInv'
  <2>1. Unstarted \in SUBSET Ids /\ Unstarted' \in SUBSET Unstarted
    <3>1. DOMAIN result.spec \subseteq Ids
      BY DEF ResultInv, ResultType, Specs
    <3>2. Unstarted = {c \in DOMAIN result.spec : c \in exec.queue \/ Gated(c)}
      BY <1>2 DEF Unstarted
    <3>3. Unstarted' = {c \in DOMAIN result.spec : Request("confirm", c) \in ToSet(q)}
      BY <1>1 DEF Unstarted, ConfirmsIn
    <3>4. \A c : Request("confirm", c) \in ToSet(q) => Gated(c)
      BY <1>3 DEF Request
    <3> QED  BY <3>1, <3>2, <3>3, <3>4
  <2> DEFINE U == Unstarted'
             u == Cardinality(BudgetedCalls(result, U))
             u0 == Cardinality(BudgetedCalls(result, Unstarted))
  <2>2. u = Cardinality(BudgetedCalls(result, Unstarted))'
    BY <1>1 DEF BudgetedCalls, BookkeepingCall
  <2>3. u \in Nat /\ u0 \in Nat /\ u <= u0
    <3> HIDE DEF U
    <3>1. U \in SUBSET Unstarted
      BY <2>1 DEF U
    <3> QED  BY <2>1, <3>1, CountLess
  <2>4. MaxToolCalls > 0 => /\ batch.cost <= caps.remTools /\ caps.maxTools > 0
                            /\ spent <= MaxToolCalls
                            /\ spent + u0 + (caps.remTools - batch.cost) <= MaxToolCalls
    BY <1>2 DEF CapInv, InStep
  <2>5. caps.remTools \in Nat /\ batch.cost \in Nat /\ spent \in Nat
    BY DEF Shapes, Caps, BatchType
  <2> HIDE DEF u, u0
  <2>6. MaxToolCalls > 0 => spent + u + (caps.remTools - batch.cost) <= MaxToolCalls
    BY <2>3, <2>4, <2>5, Constants
  <2> QED  BY <1>1, <1>5, <2>2, <2>4, <2>6 DEF CapInv, InStep
<1>12. FailInv'
  BY <1>1, <1>2, <1>5 DEF FailInv, FailuresWithinCap, FinalizedForFailures, Uncharged, InStep
<1>13. StartedInTime
  BY <1>1 DEF StartedInTime
<1> QED  BY <1>6, <1>7, <1>8, <1>9, <1>10, <1>11, <1>12, <1>13 DEF StepInv

(* Nothing is left to ask: every call of the step has a record.            *)
LEMMA ExecutionCompletesStep ==
    ASSUME IInv, ExecutionCompletes
    PROVE  StepInv
<1> USE DEF IInv
<1> DEFINE b == resolveExpiredConfirmations(batch)
<1>1. /\ ExecutionEnded /\ ~batch.failed /\ AwaitQueue(b) = <<>>
      /\ batch' = b /\ pc' = "advance"
      /\ UNCHANGED <<result, caps, left, exec, pending, reason, out,
                     uses, answers, spent, streak, clock>>
  BY DEF ExecutionCompletes, OutputsRejected
<1>2. /\ pc = "executing" /\ exec = NoExec /\ InStep /\ ~batch.counted
      /\ b \in BatchType /\ DOMAIN b.recs \subseteq DOMAIN result.spec
      /\ b.recorded = batch.recorded /\ b.recorded \subseteq DOMAIN b.recs
      /\ ~b.counted /\ ~b.failed /\ b.cost = batch.cost
      /\ \A c \in DOMAIN result.spec \ DOMAIN b.recs : Gated(c) \/ c = AwaitCall
  BY <1>1, ExecutionEndedIs
<1> HIDE DEF b
<1>3. DOMAIN b.recs = DOMAIN result.spec
  <2>1. \A c \in DOMAIN result.spec \ DOMAIN b.recs : Waiting(<<>>, c)
    BY <1>1, <1>2, AwaitQueueIs
  <2>2. ToSet(<<>>) = {}
    BY DEF ToSet
  <2> QED  BY <1>2, <2>1, <2>2 DEF Waiting
<1>4. ResultInv' /\ Shapes'
  BY <1>1, <1>2 DEF ResultInv, Shapes
<1>5. PhaseInv' /\ TimeInv'
  BY <1>1, <1>2 DEF PhaseInv, InStep, TimeInv
<1>6. AnswersInv' /\ OpenInv'
  BY <1>1, <1>2, <1>3 DEF AnswersInv, InStep, OpenInv
<1>7. CapInv'
  <2>1. Cardinality(BudgetedCalls(result, Unstarted))' = 0
    <3>1. BudgetedCalls(result, Unstarted)' = {}
      BY <1>1 DEF Unstarted, BudgetedCalls
    <3> QED  BY <3>1, FS_EmptySet
  <2> DEFINE u0 == Cardinality(BudgetedCalls(result, Unstarted))
  <2>2. u0 \in Nat
    <3>1. Unstarted \in SUBSET Ids
      BY <1>2 DEF Unstarted, ResultInv, ResultType, Specs
    <3> QED  BY <3>1, CountType
  <2>3. MaxToolCalls > 0 => /\ batch.cost <= caps.remTools /\ caps.maxTools > 0
                            /\ spent <= MaxToolCalls
                            /\ spent + u0 + (caps.remTools - batch.cost) <= MaxToolCalls
    BY <1>2 DEF CapInv, InStep
  <2>4. caps.remTools \in Nat /\ batch.cost \in Nat /\ spent \in Nat
    BY DEF Shapes, Caps, BatchType
  <2> HIDE DEF u0
  <2>5. MaxToolCalls > 0 => spent + 0 + (caps.remTools - batch.cost) <= MaxToolCalls
    BY <2>2, <2>3, <2>4, Constants
  <2> QED  BY <1>1, <1>2, <2>1, <2>3, <2>5 DEF CapInv, InStep
<1>8. FailInv'
  BY <1>1, <1>2 DEF FailInv, FailuresWithinCap, FinalizedForFailures, Uncharged, InStep
<1>9. StartedInTime
  BY <1>1 DEF StartedInTime
<1> QED  BY <1>4, <1>5, <1>6, <1>7, <1>8, <1>9 DEF StepInv

(* The suspended step's first request and the rest of its queue.           *)
LEMMA AskedIs ==
    ASSUME IInv, pc \in {"suspended", "confirmed"}
    PROVE  /\ pending \in Seq(RequestType) /\ pending # <<>>
           /\ Head(pending) \in RequestType /\ Tail(pending) \in Seq(RequestType)
           /\ ToSet(pending) = {Head(pending)} \cup ToSet(Tail(pending))
           /\ ToSet(pending) \subseteq RequestType
           /\ QueueInv /\ AskedOf(Head(pending)) /\ OneConfirm(Tail(pending))
           /\ Head(pending).kind = "confirm" => Head(pending) \notin ToSet(Tail(pending))
           /\ Head(pending).kind # "text" => ~batch.counted
<1>1. pending \in Seq(RequestType) /\ pending # <<>> /\ QueueInv /\ Shapes
  BY DEF IInv, Shapes, PhaseInv, OpenInv
<1>2. /\ Head(pending) \in RequestType /\ Tail(pending) \in Seq(RequestType)
      /\ ToSet(pending) = {Head(pending)} \cup ToSet(Tail(pending))
      /\ ToSet(pending) \subseteq RequestType
      /\ OneConfirm(pending) => OneConfirm(Tail(pending))
      /\ OneConfirm(pending) /\ Head(pending).kind = "confirm"
            => Head(pending) \notin ToSet(Tail(pending))
  BY <1>1, HeadAndTail
<1>3. Head(pending).kind # "text" => ~batch.counted
  BY <1>1, ConfirmingNotCounted
<1> QED  BY <1>1, <1>2, <1>3 DEF QueueInv

(* A call of the step gets its outcome.                                    *)
LEMMA ResolveIs ==
    ASSUME IInv, NEW c \in DOMAIN result.spec, NEW o \in Returned
    PROVE  /\ Resolve(c, o) \in BatchType
           /\ DOMAIN Resolve(c, o).recs = DOMAIN batch.recs \cup {c}
           /\ Resolve(c, o).recorded = batch.recorded /\ Resolve(c, o).cost = batch.cost
           /\ Resolve(c, o).counted = batch.counted /\ Resolve(c, o).awaited = batch.awaited
           /\ Resolve(c, o).failed = batch.failed
<1> DEFINE S == {c}
           recs == WithRecords(batch.recs, S, o)
<1>1. batch \in BatchType /\ batch.recs \in Records /\ S \in SUBSET Ids
  BY DEF IInv, Shapes, BatchType, ResultInv, ResultType, Specs
<1>2. Resolve(c, o) = [batch EXCEPT !.recs = recs]
  BY DEF Resolve
<1>3. recs \in Records /\ DOMAIN recs = DOMAIN batch.recs \cup S
  <2>1. batch.recs \in Records /\ S \in SUBSET Ids
    BY <1>1
  <2> HIDE DEF S
  <2> QED  BY <2>1, WithRecordsIs
<1> HIDE DEF recs
<1> QED  BY <1>1, <1>2, <1>3 DEF BatchType

\* What a continuation may put in place of the first request.
Consumed(b, g) ==
    /\ b \in BatchType /\ g \in Seq(RequestType)
    /\ DOMAIN batch.recs \subseteq DOMAIN b.recs /\ DOMAIN b.recs \subseteq DOMAIN result.spec
    /\ b.recorded = batch.recorded /\ b.cost = batch.cost /\ b.counted = batch.counted
    /\ b.awaited = batch.awaited /\ ~b.failed /\ (batch.counted => b = batch)
    /\ \A r \in ToSet(g) : /\ AskedOf(r) /\ r.kind # "confirm"
                           /\ batch.counted => r.kind = "text"
    /\ \A c \in DOMAIN result.spec \ DOMAIN b.recs : Waiting(Tail(pending), c)

(* A continuation consumes the first request of the queue.                 *)
LEMMA ConsumeStep ==
    ASSUME IInv, pc \in {"suspended", "confirmed"}, NEW b, NEW g, Consumed(b, g),
           consumePendingInput(b, g), exec' = NoExec,
           UNCHANGED <<result, caps, left, reason, out, uses, answers, spent, streak, clock>>
    PROVE  StepInv
<1> USE DEF IInv
<1> DEFINE q == Tail(pending) \o g
<1>1. /\ batch' = b /\ pending' = q
      /\ pc' = IF q = <<>> THEN "advance" ELSE "suspended"
  BY DEF consumePendingInput
<1>2. /\ pending \in Seq(RequestType) /\ pending # <<>> /\ Tail(pending) \in Seq(RequestType)
      /\ ToSet(pending) = {Head(pending)} \cup ToSet(Tail(pending))
      /\ QueueInv /\ OneConfirm(Tail(pending))
  BY AskedIs
<1>3. g \in Seq(RequestType)
  BY DEF Consumed
<1>4. q \in Seq(RequestType) /\ ToSet(q) = ToSet(Tail(pending)) \cup ToSet(g) /\ OneConfirm(q)
  BY <1>2, <1>3, JoinIs DEF Consumed
<1> HIDE DEF q
<1>5. b \in BatchType /\ b.recorded = batch.recorded /\ b.cost = batch.cost
      /\ b.counted = batch.counted /\ b.awaited = batch.awaited /\ ~b.failed
      /\ DOMAIN batch.recs \subseteq DOMAIN b.recs /\ DOMAIN b.recs \subseteq DOMAIN result.spec
  BY DEF Consumed
<1>6. ResultInv'
  BY <1>1, <1>5 DEF ResultInv, NoExec
<1>7. Shapes'
  BY <1>1, <1>4, <1>5 DEF Shapes, NoExec
<1>8. PhaseInv' /\ TimeInv'
  BY <1>1, <1>5 DEF PhaseInv, InStep, TimeInv
<1>9. AnswersInv'
  BY <1>1, <1>5 DEF AnswersInv, InStep
<1>10. \A c \in DOMAIN result.spec \ DOMAIN b.recs : Waiting(q, c)
  BY <1>4 DEF Consumed, Waiting
<1>11. OpenInv'
  <2>1. CASE q = <<>>
    <3>1. ToSet(q) = {}
      BY <2>1 DEF ToSet
    <3>2. DOMAIN b.recs = DOMAIN result.spec
      BY <1>5, <1>10, <3>1 DEF Waiting
    <3> QED  BY <1>1, <2>1, <3>2 DEF OpenInv
  <2>2. CASE q # <<>>
    <3>1. \A r \in ToSet(q) : AskedOf(r) /\ (batch.counted => r.kind = "text")
      BY <1>2, <1>4 DEF QueueInv, Consumed
    <3>2. \A r : AskedOf(r)' <=> AskedOf(r)
      BY DEF AskedOf
    <3>3. QueueInv'
      BY <1>1, <1>4, <1>5, <3>1, <3>2 DEF QueueInv, OneConfirm
    <3>4. OpenCalls(pending, {})'
      BY <1>1, <1>10 DEF OpenCalls, Waiting
    <3> QED  BY <1>1, <2>2, <3>3, <3>4 DEF OpenInv
  <2> QED  BY <2>1, <2>2
<1>12. CapInv'
  <2>1. Unstarted \in SUBSET Ids
    BY DEF Unstarted, ConfirmsIn, ResultInv, ResultType, Specs
  <2>2. Unstarted' \in SUBSET Unstarted
    <3>1. \A c : Request("confirm", c) \in ToSet(q) =>
                   Request("confirm", c) \in ToSet(Tail(pending))
      BY <1>4 DEF Consumed, Request
    <3>2. ConfirmsIn(Tail(pending)) \subseteq Unstarted
      BY <1>2 DEF Unstarted, ConfirmsIn
    <3>3. Unstarted' \subseteq ConfirmsIn(q)
      BY <1>1 DEF Unstarted, ConfirmsIn
    <3> QED  BY <3>1, <3>2, <3>3 DEF ConfirmsIn
  <2> DEFINE U == Unstarted'
             u == Cardinality(BudgetedCalls(result, U))
             u0 == Cardinality(BudgetedCalls(result, Unstarted))
  <2>3. u = Cardinality(BudgetedCalls(result, Unstarted))'
    BY DEF BudgetedCalls, BookkeepingCall
  <2>4. u \in Nat /\ u0 \in Nat /\ u <= u0
    <3> HIDE DEF U
    <3>1. U \in SUBSET Unstarted
      BY <2>2 DEF U
    <3> QED  BY <2>1, <3>1, CountLess
  <2>5. caps.remTools \in Nat /\ batch.cost \in Nat /\ spent \in Nat
    BY DEF Shapes, Caps, BatchType
  <2> HIDE DEF u, u0
  <2>6. CASE ~batch.counted
    <3>1. MaxToolCalls > 0 => /\ batch.cost <= caps.remTools /\ caps.maxTools > 0
                              /\ spent <= MaxToolCalls
                              /\ spent + u0 + (caps.remTools - batch.cost) <= MaxToolCalls
      BY <2>6 DEF CapInv, InStep, u0
    <3>2. MaxToolCalls > 0 => spent + u + (caps.remTools - batch.cost) <= MaxToolCalls
      BY <2>4, <2>5, <3>1, Constants
    <3> QED  BY <1>1, <1>5, <2>3, <2>6, <3>1, <3>2 DEF CapInv, InStep
  <2>7. CASE batch.counted
    <3>1. MaxToolCalls > 0 => /\ Unstarted = {} /\ caps.maxTools > 0 /\ spent <= MaxToolCalls
                              /\ spent + caps.remTools <= MaxToolCalls
      BY <2>7 DEF CapInv, InStep
    <3> QED  BY <1>1, <1>5, <2>2, <2>7, <3>1 DEF CapInv, InStep
  <2> QED  BY <2>6, <2>7
<1>13. FailInv'
  <2>1. CASE ~batch.counted
    BY <1>1, <1>5, <2>1 DEF FailInv, FailuresWithinCap, FinalizedForFailures, Uncharged, InStep
  <2>2. CASE batch.counted
    <3>1. batch' = batch
      BY <1>1, <2>2 DEF Consumed
    <3> QED
      BY <1>1, <3>1, <2>2
         DEF FailInv, FailuresWithinCap, FinalizedForFailures, Uncharged, InStep,
             MissingFields, Recs
  <2> QED  BY <2>1, <2>2
<1>14. StartedInTime
  BY DEF StartedInTime, NoExec
<1> QED  BY <1>6, <1>7, <1>8, <1>9, <1>11, <1>12, <1>13, <1>14 DEF StepInv

(* A call that got its outcome while the run was suspended.                *)
LEMMA ResolvedIsConsumed ==
    ASSUME IInv, pc = "suspended", Head(pending).kind # "text", NEW o \in Returned,
           NEW b \in {Resolve(Head(pending).call, o),
                     [Resolve(Head(pending).call, o) EXCEPT !.timedOut = TRUE]}
    PROVE  Consumed(b, <<>>) /\ exec = NoExec
<1> DEFINE c == Head(pending).call
           rb == Resolve(c, o)
<1>1. /\ Head(pending) \in RequestType /\ AskedOf(Head(pending)) /\ ~batch.counted
      /\ ToSet(pending) = {Head(pending)} \cup ToSet(Tail(pending))
  BY AskedIs
<1>2. c \in DOMAIN result.spec
  BY <1>1 DEF AskedOf, RequestType
<1> HIDE DEF c
<1>3. /\ rb \in BatchType
      /\ DOMAIN rb.recs = DOMAIN batch.recs \cup {c}
      /\ rb.recorded = batch.recorded /\ rb.cost = batch.cost
      /\ rb.counted = batch.counted /\ rb.awaited = batch.awaited /\ rb.failed = batch.failed
  BY <1>2, ResolveIs
<1> HIDE DEF rb
<1>4. b \in {rb, [rb EXCEPT !.timedOut = TRUE]}
  BY DEF rb, c
<1>5. /\ b \in BatchType /\ DOMAIN b.recs = DOMAIN batch.recs \cup {c}
      /\ b.recorded = batch.recorded /\ b.cost = batch.cost
      /\ b.counted = batch.counted /\ b.awaited = batch.awaited /\ b.failed = batch.failed
  BY <1>3, <1>4 DEF BatchType
<1>6. ~batch.failed /\ exec = NoExec /\ DOMAIN batch.recs \subseteq DOMAIN result.spec
      /\ OpenCalls(pending, {})
  BY DEF IInv, PhaseInv, ResultInv, OpenInv
<1>7. \A k \in DOMAIN result.spec \ DOMAIN b.recs : Waiting(Tail(pending), k)
  <2>1. SUFFICES ASSUME NEW k \in DOMAIN result.spec \ DOMAIN b.recs
                 PROVE  Waiting(Tail(pending), k)
    OBVIOUS
  <2>2. Waiting(pending, k) /\ k # c
    BY <1>5, <1>6 DEF OpenCalls
  <2> QED  BY <1>1, <2>2 DEF Waiting, c
<1>8. <<>> \in Seq(RequestType) /\ ToSet(<<>>) = {}
  BY DEF ToSet
<1> QED  BY <1>1, <1>2, <1>5, <1>6, <1>7, <1>8 DEF Consumed

\* The continuations that consume a request without starting a call.
Replies ==
    \/ AnswerClarification \/ DenyConfirmation \/ ConfirmedCompletes
    \/ \E o \in Provided : ProvideToolResult(o)
    \/ \E o \in {"answered", "child"} \cup (Outcomes \cap {"replan", "finish"}) : AnswerChild(o)

(* The user's and the children's answers.                                  *)
LEMMA AnswerStep ==
    ASSUME IInv, Replies
    PROVE  StepInv
<1>1. <<>> \in Seq(RequestType) /\ ToSet(<<>>) = {}
  BY DEF ToSet
<1>2. CASE AnswerClarification
  <2>1. /\ pc = "suspended" /\ Head(pending).kind = "text" /\ consumePendingInput(batch, <<>>)
        /\ UNCHANGED <<result, caps, left, exec, reason, out, uses, answers, spent, streak, clock>>
    BY <1>2 DEF AnswerClarification, Asked
  <2>2. ToSet(pending) = {Head(pending)} \cup ToSet(Tail(pending))
    BY <2>1, AskedIs
  <2>3. exec = NoExec /\ OpenCalls(pending, {}) /\ ~batch.failed /\ batch \in BatchType
        /\ DOMAIN batch.recs \subseteq DOMAIN result.spec
    BY <2>1 DEF IInv, PhaseInv, OpenInv, Shapes, ResultInv
  <2>4. \A c \in DOMAIN result.spec \ DOMAIN batch.recs : Waiting(Tail(pending), c)
    BY <2>1, <2>2, <2>3 DEF OpenCalls, Waiting
  <2>5. Consumed(batch, <<>>)
    BY <1>1, <2>3, <2>4 DEF Consumed
  <2> QED  BY <2>1, <2>3, <2>5, ConsumeStep
<1>3. CASE DenyConfirmation
  <2> DEFINE b == Resolve(Head(pending).call, "denied")
  <2>1. /\ pc = "suspended" /\ Head(pending).kind = "confirm" /\ consumePendingInput(b, <<>>)
        /\ UNCHANGED <<result, caps, left, exec, reason, out, uses, answers, spent, streak, clock>>
    BY <1>3 DEF DenyConfirmation, Asked
  <2>2. Consumed(b, <<>>) /\ exec = NoExec
    BY <2>1, ResolvedIsConsumed DEF Returned
  <2> HIDE DEF b
  <2> QED  BY <2>1, <2>2, ConsumeStep
<1>4. CASE \E o \in Provided : ProvideToolResult(o)
  <2>1. PICK o \in Provided : ProvideToolResult(o)
    BY <1>4
  <2>2. /\ pc = "suspended" /\ Head(pending).kind = "tool"
        /\ consumePendingInput(Resolve(AwaitCall, o), <<>>)
        /\ UNCHANGED <<result, caps, left, exec, reason, out, uses, answers, spent, streak, clock>>
    BY <2>1 DEF ProvideToolResult, Asked
  <2>3. Head(pending).call = AwaitCall
    BY <2>2, AskedIs DEF AskedOf
  <2>4. o \in Returned
    BY DEF Provided, Returned
  <2> DEFINE b == Resolve(Head(pending).call, o)
  <2>5. Consumed(b, <<>>) /\ exec = NoExec
    BY <2>2, <2>4, ResolvedIsConsumed
  <2>6. consumePendingInput(b, <<>>)
    BY <2>2, <2>3
  <2> HIDE DEF b
  <2> QED  BY <2>2, <2>5, <2>6, ConsumeStep
<1>5. CASE ConfirmedCompletes
  <2> DEFINE c == Head(pending).call
             g == IF batch.recs[c] = "clarify" THEN <<Request("text", c)>> ELSE <<>>
  <2>1. /\ pc = "confirmed" /\ exec = NoExec /\ ~batch.failed /\ consumePendingInput(batch, g)
        /\ UNCHANGED <<result, caps, left, exec, reason, out, uses, answers, spent, streak, clock>>
    BY <1>5 DEF ConfirmedCompletes
  <2>2. Head(pending) \in RequestType
    BY <2>1, AskedIs
  <2>3. c \in Ids
    BY <2>2 DEF RequestType
  <2> HIDE DEF c
  <2>4. g \in Seq(RequestType) /\ \A r \in ToSet(g) : r.kind = "text"
    <3>1. Request("text", c) \in RequestType /\ Request("text", c).kind = "text"
      BY <2>3 DEF Request, RequestType
    <3>2. ToSet(<<Request("text", c)>>) = {Request("text", c)}
      BY DEF ToSet
    <3> QED  BY <1>1, <3>1, <3>2
  <2>5. \A r \in ToSet(g) : AskedOf(r)
    BY <2>4 DEF AskedOf
  <2>6. OpenCalls(Tail(pending), {}) /\ batch \in BatchType
        /\ DOMAIN batch.recs \subseteq DOMAIN result.spec
    BY <2>1 DEF IInv, OpenInv, NoExec, Shapes, ResultInv
  <2> HIDE DEF g
  <2>7. Consumed(batch, g)
    BY <2>1, <2>4, <2>5, <2>6 DEF Consumed, OpenCalls
  <2> QED  BY <2>1, <2>7, ConsumeStep
<1>6. CASE \E o \in {"answered", "child"} \cup (Outcomes \cap {"replan", "finish"}) : AnswerChild(o)
  <2>1. PICK o \in {"answered", "child"} \cup (Outcomes \cap {"replan", "finish"}) : AnswerChild(o)
    BY <1>6
  <2>2. /\ pc = "suspended" /\ Head(pending).kind = "child"
        /\ UNCHANGED <<result, caps, left, exec, reason, out, uses, answers, spent, streak, clock>>
    BY <2>1 DEF AnswerChild, Asked
  <2>3. CASE o = "child"
    <3> DEFINE g == <<Head(pending)>>
    <3>1. consumePendingInput(batch, g)
      BY <2>1, <2>3 DEF AnswerChild
    <3>2. /\ Head(pending) \in RequestType /\ AskedOf(Head(pending)) /\ ~batch.counted
          /\ ToSet(pending) = {Head(pending)} \cup ToSet(Tail(pending))
      BY <2>2, AskedIs
    <3>3. g \in Seq(RequestType) /\ ToSet(g) = {Head(pending)}
      BY <3>2 DEF ToSet
    <3>4. exec = NoExec /\ OpenCalls(pending, {}) /\ ~batch.failed /\ batch \in BatchType
          /\ DOMAIN batch.recs \subseteq DOMAIN result.spec
      BY <2>2 DEF IInv, PhaseInv, OpenInv, Shapes, ResultInv
    <3> HIDE DEF g
    <3>5. \A c \in DOMAIN result.spec \ DOMAIN batch.recs : Waiting(Tail(pending), c)
      BY <2>2, <3>2, <3>4 DEF OpenCalls, Waiting
    <3>6. Consumed(batch, g)
      BY <2>2, <3>2, <3>3, <3>4, <3>5 DEF Consumed
    <3> QED  BY <2>2, <3>1, <3>4, <3>6, ConsumeStep
  <2>4. CASE o # "child"
    <3> DEFINE b == Resolve(Head(pending).call, o)
    <3>1. consumePendingInput(b, <<>>)
      BY <2>1, <2>4 DEF AnswerChild
    <3>2. o \in Returned
      BY <2>1, <2>4 DEF Returned
    <3>3. Consumed(b, <<>>) /\ exec = NoExec
      BY <2>2, <3>2, ResolvedIsConsumed
    <3> HIDE DEF b
    <3> QED  BY <2>2, <3>1, <3>3, ConsumeStep
  <2> QED  BY <2>3, <2>4
<1> QED  BY <1>2, <1>3, <1>4, <1>5, <1>6 DEF Replies

(* An approved call is started, unless its deadline has passed.            *)
LEMMA ApproveStep ==
    ASSUME IInv, ApproveConfirmation
    PROVE  StepInv
<1> USE DEF IInv
<1> DEFINE c == Head(pending).call
<1>1. /\ pc = "suspended" /\ Head(pending).kind = "confirm"
      /\ UNCHANGED <<result, caps, left, reason, out, uses, answers, streak, clock>>
  BY DEF ApproveConfirmation, Asked
<1>2. CASE DeadlinePassed(c)
  <2> DEFINE b == [Resolve(Head(pending).call, "timeout") EXCEPT !.timedOut = TRUE]
  <2>1. consumePendingInput(b, <<>>) /\ UNCHANGED <<exec, spent>>
    BY <1>2 DEF ApproveConfirmation
  <2>2. Consumed(b, <<>>) /\ exec = NoExec
    BY <1>1, ResolvedIsConsumed DEF Returned
  <2> HIDE DEF b
  <2> QED  BY <1>1, <2>1, <2>2, ConsumeStep
<1>3. CASE ~DeadlinePassed(c)
  <2> DEFINE S == {c}
             n == Cardinality(BudgetedCalls(result, S))
  <2>1. /\ exec' = [queue |-> {}, inflight |-> S] /\ spent' = Spend(n)
        /\ pc' = "confirmed" /\ UNCHANGED <<batch, pending>>
    BY <1>3 DEF ApproveConfirmation, NoExec
  <2>2. /\ Head(pending) \in RequestType /\ AskedOf(Head(pending)) /\ ~batch.counted /\ QueueInv
        /\ ToSet(pending) = {Head(pending)} \cup ToSet(Tail(pending))
        /\ Head(pending) \notin ToSet(Tail(pending))
    BY <1>1, AskedIs
  <2>3. c \in DOMAIN result.spec /\ c \in Ids /\ Head(pending) = Request("confirm", c)
    BY <1>1, <2>2 DEF AskedOf, RequestType, Request
  <2>4. DOMAIN result.spec \subseteq Ids /\ exec = NoExec /\ ~batch.failed /\ pending # <<>>
        /\ batch.awaited
    BY <1>1 DEF ResultInv, ResultType, Specs, PhaseInv
  <2>5. S \in SUBSET Ids /\ S \subseteq DOMAIN result.spec
    BY <2>3
  <2>6. result.spec[c].class = "budgeted" => ~BudgetPassed
    BY <1>3 DEF DeadlinePassed, BookkeepingCall
  <2>7. n \in Nat /\ spent \in Nat /\ spent' \in Nat /\ (MaxToolCalls > 0 => spent' <= spent + n)
    <3> HIDE DEF S
    <3>1. n \in Nat
      BY <2>5, CountType
    <3> HIDE DEF n
    <3> QED  BY <3>1, <2>1, SpendIs DEF Shapes
  <2>8. ResultInv'
    BY <1>1, <2>1, <2>5 DEF ResultInv
  <2>9. Shapes'
    <3>1. exec' \in [queue : SUBSET Ids, inflight : SUBSET Ids]
      BY <2>1, <2>5
    <3> QED  BY <1>1, <2>1, <2>7, <3>1 DEF Shapes
  <2>10. PhaseInv' /\ TimeInv'
    BY <1>1, <2>1, <2>4 DEF PhaseInv, InStep, TimeInv
  <2>11. AnswersInv'
    BY <1>1, <2>1 DEF AnswersInv, InStep
  <2>12. OpenInv'
    <3>1. QueueInv'
      BY <1>1, <2>1, <2>2 DEF QueueInv, AskedOf, OneConfirm
    <3>2. OpenCalls(pending, {})
      BY <1>1 DEF OpenInv
    <3>3. \A k \in DOMAIN result.spec \ DOMAIN batch.recs : k \in S \/ Waiting(Tail(pending), k)
      BY <2>2, <3>2 DEF OpenCalls, Waiting
    <3>4. OpenCalls(Tail(pending), exec.inflight)'
      BY <1>1, <2>1, <3>3 DEF OpenCalls, Waiting
    <3> QED  BY <1>1, <2>1, <3>1, <3>4 DEF OpenInv
  <2>13. CapInv'
    <3>1. /\ Unstarted \in SUBSET Ids /\ S \in SUBSET Unstarted
          /\ Unstarted' \in SUBSET Unstarted /\ S \cap Unstarted' = {}
      <4>1. Unstarted = ConfirmsIn(pending)
        BY <1>1 DEF Unstarted
      <4>2. Unstarted' = ConfirmsIn(Tail(pending))
        BY <1>1, <2>1 DEF Unstarted, ConfirmsIn
      <4> QED  BY <4>1, <4>2, <2>2, <2>3, <2>4 DEF ConfirmsIn
    <3> DEFINE U == Unstarted'
               u == Cardinality(BudgetedCalls(result, U))
               u0 == Cardinality(BudgetedCalls(result, Unstarted))
    <3>2. u = Cardinality(BudgetedCalls(result, Unstarted))'
      BY <1>1 DEF BudgetedCalls, BookkeepingCall
    <3>3. u \in Nat /\ u0 \in Nat /\ n + u <= u0
      <4> HIDE DEF U, S
      <4>1. U \in SUBSET Unstarted /\ S \cap U = {}
        BY <3>1 DEF U
      <4> QED  BY <3>1, <4>1, CountIs
    <3>4. MaxToolCalls > 0 => /\ batch.cost <= caps.remTools /\ caps.maxTools > 0
                              /\ spent + u0 + (caps.remTools - batch.cost) <= MaxToolCalls
      BY <1>1, <2>2 DEF CapInv, InStep
    <3>5. caps.remTools \in Nat /\ batch.cost \in Nat
      BY DEF Shapes, Caps, BatchType
    <3> HIDE DEF u, u0, n
    <3>6. MaxToolCalls > 0 => /\ spent' <= MaxToolCalls
                              /\ spent' + u + (caps.remTools - batch.cost) <= MaxToolCalls
      BY <2>7, <3>3, <3>4, <3>5, Constants
    <3> QED  BY <1>1, <2>1, <2>2, <3>2, <3>4, <3>6 DEF CapInv, InStep
  <2>14. FailInv'
    BY <1>1, <2>1, <2>2 DEF FailInv, FailuresWithinCap, FinalizedForFailures, Uncharged, InStep
  <2>15. StartedInTime
    <3>1. SUFFICES ASSUME Timed, result.spec[c].class = "budgeted"
                   PROVE  clock < TimeBudget
      BY <1>1, <2>1 DEF StartedInTime
    <3>2. left.budget # 0
      BY <2>6, <3>1 DEF BudgetPassed
    <3> QED  BY <3>2, Constants DEF TimeInv, Shapes
  <2> QED  BY <2>8, <2>9, <2>10, <2>11, <2>12, <2>13, <2>14, <2>15 DEF StepInv
<1> QED  BY <1>2, <1>3

-----------------------------------------------------------------------------
(* The end of a step.                                                      *)

\* The batch b after advanceStep has recorded the step.
Advanced(b) ==
    /\ b \in BatchType /\ b.recs = Recorded(batch).recs
    /\ b.recorded = DOMAIN batch.recs /\ ~b.failed

(* Recording keeps the missing fields, and closes the step's calls.        *)
LEMMA AdvanceIs ==
    ASSUME IInv, RecordStep, UNCHANGED <<uses, result>>
    PROVE  /\ pc = "advance" /\ exec = NoExec /\ pending = <<>> /\ reason = "none" /\ out = "none"
           /\ DOMAIN batch.recs = DOMAIN result.spec
           /\ answers' \in [uses' -> Nat] /\ Answered'
           /\ \A c \in uses' : answers'[c] = IF c \in DOMAIN batch.recs THEN 1 ELSE 0
           /\ uses = DOMAIN result.spec
           /\ Advanced(Recorded(batch))
           /\ Advanced([Recorded(batch) EXCEPT !.counted = TRUE])
           /\ [Recorded(batch) EXCEPT !.counted = TRUE].counted
           /\ Advanced([[Recorded(batch) EXCEPT !.counted = TRUE] EXCEPT !.awaited = TRUE])
           /\ [[Recorded(batch) EXCEPT !.counted = TRUE] EXCEPT !.awaited = TRUE].counted
           /\ [[Recorded(batch) EXCEPT !.counted = TRUE] EXCEPT !.awaited = TRUE].awaited
<1>1. pc = "advance" /\ recordUnrecordedStepToolResults(batch)
  BY DEF RecordStep
<1>2. /\ exec = NoExec /\ pending = <<>> /\ reason = "none" /\ out = "none" /\ ~batch.failed
      /\ DOMAIN batch.recs = DOMAIN result.spec /\ uses = DOMAIN result.spec
      /\ batch \in BatchType /\ batch.recorded \subseteq DOMAIN batch.recs
      /\ Shapes /\ Transcript(batch.recorded)
  BY <1>1 DEF IInv, PhaseInv, OpenInv, AnswersInv, InStep, Shapes, ResultInv, Transcript
<1>3. /\ answers' \in [uses' -> Nat]
      /\ \A c \in uses' : answers'[c] = IF c \in DOMAIN batch.recs THEN 1 ELSE 0
  BY <1>1, <1>2, RecordingIs
<1>4. Answered'
  BY <1>2, <1>3 DEF Answered
<1> DEFINE B == Recorded(batch)
<1>5. B \in BatchType /\ B.recorded = DOMAIN batch.recs /\ B.failed = batch.failed
  BY <1>2, RecordedIs
<1> HIDE DEF B
<1>6. Advanced(B) /\ Advanced([B EXCEPT !.counted = TRUE])
      /\ Advanced([[B EXCEPT !.counted = TRUE] EXCEPT !.awaited = TRUE])
  BY <1>2, <1>5 DEF Advanced, BatchType, B
<1>7. [B EXCEPT !.counted = TRUE].counted
      /\ [[B EXCEPT !.counted = TRUE] EXCEPT !.awaited = TRUE].counted
      /\ [[B EXCEPT !.counted = TRUE] EXCEPT !.awaited = TRUE].awaited
  BY <1>5 DEF BatchType
<1> QED  BY <1>1, <1>2, <1>3, <1>4, <1>6, <1>7 DEF B

MissingIn(b) == \E c \in DOMAIN b.recs : b.recs[c] = "missing"

(* Missing fields are still missing in the batch that was recorded.        *)
LEMMA MissingIs ==
    ASSUME batch \in BatchType, Advanced(batch'), MissingFields
    PROVE  MissingFields'
<1>1. batch' \in BatchType /\ batch'.recs = Recorded(batch).recs
  BY DEF Advanced
<1>2. \A b \in BatchType : MissingIn(Recorded(b)) <=> MissingIn(b)
  BY RecordedIs DEF MissingIn
<1>3. MissingIn(Recorded(batch))
  BY DEF MissingFields, MissingIn, Recs
<1>4. MissingIn(batch')
  BY <1>1, <1>3 DEF MissingIn
<1>5. MissingIn(Recorded(batch'))
  BY <1>1, <1>2, <1>4
<1> QED  BY <1>5 DEF MissingFields, MissingIn, Recs

\* The state after a step is over, but for the failure cap.
StepOver ==
    /\ Advanced(batch') /\ caps' \in Caps /\ streak' \in Nat
    /\ caps'.maxTools = caps.maxTools
    /\ \/ pc' = "planning" /\ caps'.remTools = ChargedCaps.remTools
          /\ UNCHANGED <<pending, reason, out>>
       \/ pc' = "finalizing" /\ UNCHANGED <<pending, out>>
          /\ reason' \in {"time_budget", "failure_cap", "tool_failure"}
       \/ pc' = "done" /\ out' \in {"completed", "failed"} /\ UNCHANGED <<pending, reason>>
       \/ /\ pc' = "suspended" /\ caps'.remTools = ChargedCaps.remTools
          /\ batch'.counted /\ batch'.awaited
          /\ pending' = <<Request("text", AwaitCall)>> /\ UNCHANGED <<reason, out>>

(* The end of a step keeps the invariant, if the failure cap is right.     *)
LEMMA StepOverStep ==
    ASSUME IInv, RecordStep, UNCHANGED <<result, left, exec, uses, spent, clock>>,
           StepOver, FailInv'
    PROVE  StepInv
<1> USE DEF IInv
<1>1. /\ pc = "advance" /\ exec = NoExec /\ pending = <<>> /\ reason = "none" /\ out = "none"
      /\ DOMAIN batch.recs = DOMAIN result.spec /\ uses = DOMAIN result.spec
      /\ answers' \in [uses' -> Nat] /\ Answered'
      /\ \A c \in uses' : answers'[c] = IF c \in DOMAIN batch.recs THEN 1 ELSE 0
  BY AdvanceIs
<1>2. /\ batch' \in BatchType /\ DOMAIN batch'.recs = DOMAIN result.spec
      /\ batch'.recorded = DOMAIN result.spec /\ ~batch'.failed
  <2>1. batch \in BatchType
    BY DEF Shapes
  <2> QED  BY <1>1, <2>1, RecordedIs DEF StepOver, Advanced
<1>3. /\ Request("text", AwaitCall) \in RequestType
      /\ Request("text", AwaitCall).kind = "text"
  BY Constants DEF Request, RequestType
<1>4. pc' \in {"planning", "finalizing", "done", "suspended"}
  BY DEF StepOver
<1>5. ResultInv' /\ TimeInv'
  BY <1>2 DEF ResultInv, TimeInv
<1>6. Shapes'
  <2> DEFINE req == Request("text", AwaitCall)
  <2>1. pending' = pending \/ pending' = <<req>>
    BY DEF StepOver
  <2>2. req \in RequestType
    BY <1>3
  <2> HIDE DEF req
  <2>3. <<req>> \in Seq(RequestType) /\ pending \in Seq(RequestType)
    BY <2>2 DEF Shapes
  <2>4. pending' \in Seq(RequestType)
    BY <2>1, <2>3
  <2>5. reason' \in {"none", "time_budget", "failure_cap", "tool_failure"}
    BY <1>1 DEF StepOver
  <2>6. out' \in {"none", "completed", "failed"}
    BY <1>1 DEF StepOver
  <2>7. caps' \in Caps /\ streak' \in Nat
    BY DEF StepOver
  <2> QED  BY <1>1, <1>2, <2>4, <2>5, <2>6, <2>7 DEF Shapes
<1>7. PhaseInv'
  <2>1. exec' = NoExec
    BY <1>1
  <2>2. CASE pc' = "planning"
    <3>1. pending' = <<>> /\ reason' = "none" /\ out' = "none"
      BY <1>1, <2>2 DEF StepOver
    <3> QED  BY <2>1, <2>2, <3>1 DEF PhaseInv, InStep
  <2>3. CASE pc' = "finalizing"
    <3>1. reason' # "none" /\ out' = "none"
      BY <1>1, <2>3 DEF StepOver
    <3> QED  BY <2>1, <2>3, <3>1 DEF PhaseInv, InStep
  <2>4. CASE pc' = "done"
    BY <2>1, <2>4 DEF PhaseInv, InStep
  <2>5. CASE pc' = "suspended"
    <3>1. reason' = "none" /\ out' = "none" /\ batch'.awaited
          /\ pending' = <<Request("text", AwaitCall)>>
      BY <1>1, <2>5 DEF StepOver
    <3>2. pending' # <<>>
      BY <3>1
    <3> QED  BY <1>2, <2>1, <2>5, <3>1, <3>2 DEF PhaseInv, InStep
  <2> QED  BY <1>4, <2>2, <2>3, <2>4, <2>5
<1>8. AnswersInv'
  BY <1>1, <1>2, <1>4 DEF AnswersInv, InStep, Answered, AnsweredOnce
<1>9. OpenInv'
  <2>1. CASE pc' = "suspended"
    <3>1. pending' = <<Request("text", AwaitCall)>>
      BY <2>1 DEF StepOver
    <3>2. ToSet(pending') = {Request("text", AwaitCall)}
      BY <3>1 DEF ToSet
    <3>3. OneConfirm(pending)'
      BY <1>3, <3>1 DEF OneConfirm
    <3>4. QueueInv'
      BY <1>3, <3>2, <3>3 DEF QueueInv, AskedOf
    <3>5. OpenCalls(pending, {})'
      BY <1>2 DEF OpenCalls
    <3> QED  BY <2>1, <3>4, <3>5 DEF OpenInv
  <2>2. CASE pc' # "suspended"
    BY <1>4, <2>2 DEF OpenInv
  <2> QED  BY <2>1, <2>2
<1>10. CapInv'
  <2>1. Unstarted = {}
    BY <1>1 DEF Unstarted
  <2>2. Unstarted' = {}
    <3>1. CASE pc' = "suspended"
      <4>1. ToSet(pending') = {Request("text", AwaitCall)}
        BY <3>1 DEF StepOver, ToSet
      <4>2. \A c : Request("confirm", c) # Request("text", AwaitCall)
        BY DEF Request
      <4> QED  BY <3>1, <4>1, <4>2 DEF Unstarted, ConfirmsIn
    <3>2. CASE pc' # "suspended"
      BY <1>4, <3>2 DEF Unstarted
    <3> QED  BY <3>1, <3>2
  <2>3. Cardinality(BudgetedCalls(result, Unstarted)) = 0
    BY <2>1, CountNone
  <2>4. /\ ChargedCaps.remTools <= caps.remTools /\ ChargedCaps.remTools \in Nat
        /\ batch.cost <= caps.remTools => ChargedCaps.remTools = caps.remTools - batch.cost
    BY ChargedIs DEF Caps
  <2>5. caps.remTools \in Nat /\ batch.cost \in Nat /\ spent \in Nat
    BY DEF Shapes, Caps, BatchType
  <2>6. MaxToolCalls > 0 => /\ caps.maxTools > 0 /\ spent <= MaxToolCalls
                            /\ spent + ChargedCaps.remTools <= MaxToolCalls
    <3>1. CASE batch.counted
      <4>1. MaxToolCalls > 0 => /\ caps.maxTools > 0 /\ spent <= MaxToolCalls
                                /\ spent + caps.remTools <= MaxToolCalls
        BY <1>1, <3>1 DEF CapInv, InStep
      <4> QED  BY <4>1, <2>4, <2>5, Constants
    <3>2. CASE ~batch.counted
      <4>1. MaxToolCalls > 0 => /\ caps.maxTools > 0 /\ spent <= MaxToolCalls
                                /\ batch.cost <= caps.remTools
                                /\ spent + 0 + (caps.remTools - batch.cost) <= MaxToolCalls
        BY <1>1, <2>3, <3>2 DEF CapInv, InStep
      <4> QED  BY <4>1, <2>4, <2>5, Constants
    <3> QED  BY <3>1, <3>2
  <2> QED  BY <2>2, <2>6 DEF CapInv, InStep, StepOver
<1>11. StartedInTime
  BY DEF StartedInTime
<1> QED  BY <1>5, <1>6, <1>7, <1>8, <1>9, <1>10, <1>11 DEF StepInv

(* The step timed out, or ends the run.                                    *)
LEMMA AdvanceEndsStep ==
    ASSUME IInv, AdvanceTimedOut \/ AdvanceToolTerminal \/ AdvanceEnds
    PROVE  StepInv
<1>1. /\ RecordStep /\ UNCHANGED <<result, left, exec, uses, spent, clock, streak>>
      /\ batch' = Recorded(batch)
      /\ caps' = caps \/ caps' = ChargedCaps
      /\ \/ pc' = "finalizing" /\ reason' = "time_budget" /\ UNCHANGED <<pending, out>>
         \/ pc' = "done" /\ out' \in {"completed", "failed"} /\ UNCHANGED <<pending, reason>>
  BY DEF AdvanceTimedOut, AdvanceToolTerminal, AdvanceEnds, Decides, EndRun, finalizeStep
<1>2. caps \in Caps /\ streak \in Nat /\ Shapes
  BY DEF IInv, Shapes
<1>3. caps' \in Caps /\ caps'.maxTools = caps.maxTools /\ caps'.maxFails = caps.maxFails
  BY <1>1, <1>2, ChargedIs
<1>4. Advanced(batch')
  BY <1>1, AdvanceIs
<1>5. StepOver
  BY <1>1, <1>2, <1>3, <1>4 DEF StepOver
<1>6. FailInv'
  BY <1>1, <1>3 DEF IInv, FailInv, FailuresWithinCap, FinalizedForFailures, Uncharged, InStep
<1> QED  BY <1>1, <1>5, <1>6, StepOverStep

(* The failure cap after a step that was not charged before.               *)
LEMMA StreakKept ==
    ASSUME IInv, RecordStep, MaxFailures > 0, ~batch.counted,
           caps' = applyFailureStreak(ChargedCaps), CountStreak
    PROVE  /\ caps'.remFails \in Nat
           /\ FailureCapTripped(ChargedCaps) /\ FailureCapUntouched => streak' >= MaxFailures
           /\ ~FailureCapTripped(ChargedCaps) =>
                 /\ caps'.remFails > 0 /\ streak' + caps'.remFails <= MaxFailures
                 /\ FailureCapUntouched => streak' + caps'.remFails = MaxFailures
<1>1. /\ Shapes /\ caps.maxFails > 0 /\ caps.maxFails <= MaxFailures /\ caps.remFails > 0
      /\ streak + caps.remFails <= MaxFailures
      /\ FailureCapUntouched =>
            caps.maxFails = MaxFailures /\ streak + caps.remFails = MaxFailures
  BY DEF IInv, FailInv, RecordStep, InStep, Uncharged
<1>2. ChargedCaps \in Caps /\ ChargedCaps.maxFails = caps.maxFails
      /\ ChargedCaps.remFails = caps.remFails
  BY <1>1, ChargedIs
<1>3. /\ caps' \in Caps
      /\ Progress => caps'.remFails = caps.maxFails
      /\ AllFailed => caps'.remFails = decrementCap(caps.remFails, 1)
      /\ ~Progress /\ ~AllFailed => caps'.remFails = caps.remFails
  <2> DEFINE C == ChargedCaps
  <2>1. C \in Caps /\ C.maxFails = caps.maxFails /\ C.maxFails > 0 /\ C.remFails = caps.remFails
    BY <1>1, <1>2
  <2>2. caps' = applyFailureStreak(C)
    OBVIOUS
  <2> HIDE DEF C
  <2> QED  BY <2>1, <2>2, StreakIs
<1>4. caps.remFails \in Nat /\ caps.maxFails \in Nat /\ streak \in Nat /\ caps'.remFails \in Nat
  BY <1>1, <1>3 DEF Shapes, Caps
<1>5. decrementCap(caps.remFails, 1) = caps.remFails - 1
  <2>1. 1 <= caps.remFails /\ 1 \in Nat
    BY <1>1, <1>4
  <2> QED  BY <2>1, <1>4, DecrementIs
<1>6. streak' = IF Progress THEN 0
                ELSE IF AllFailed THEN (IF streak + 1 <= MaxFailures + 1 THEN streak + 1
                                        ELSE MaxFailures + 1)
                ELSE streak
  BY <1>4, Constants, MinOfTwo DEF CountStreak
<1>7. AllFailed => ~Progress
  BY DEF AllFailed
<1>8. FailureCapTripped(ChargedCaps) <=> AllFailed /\ caps'.remFails <= 0
  BY <1>1, <1>2 DEF FailureCapTripped
<1>9. CASE FailureCapUntouched
  BY <1>1, <1>3, <1>4, <1>5, <1>6, <1>7, <1>8, <1>9, Constants
<1>10. CASE ~FailureCapUntouched
  BY <1>1, <1>3, <1>4, <1>5, <1>6, <1>7, <1>8, <1>10, Constants
<1> QED  BY <1>9, <1>10

\* The steps that charge the failure cap.
Charges == AdvanceFailureCap \/ AdvanceFinalizes \/ AdvanceAsks \/ AdvanceResumes

(* The run resumes, asks, or is finalized.                                 *)
LEMMA ChargesStep ==
    ASSUME IInv, Charges
    PROVE  StepInv
<1> DEFINE B == [Recorded(batch) EXCEPT !.counted = TRUE]
<1>1. /\ RecordStep /\ UNCHANGED <<result, left, exec, uses, spent, clock>>
      /\ caps' = applyFailureStreak(ChargedCaps) /\ CountStreak
  BY DEF Charges, AdvanceFailureCap, AdvanceFinalizes, AdvanceAsks, AdvanceResumes,
         Continues, Decides
<1>2. \/ /\ FailureCapTripped(ChargedCaps) /\ pc' = "finalizing" /\ reason' = "failure_cap"
         /\ batch' = B /\ UNCHANGED <<pending, out>>
      \/ /\ pc' = "finalizing" /\ reason' = "tool_failure"
         /\ batch' = B /\ UNCHANGED <<pending, out>>
      \/ /\ pc' = "done" /\ out' = "failed" /\ batch' = B /\ UNCHANGED <<pending, reason>>
      \/ /\ pc' = "suspended" /\ pending' = <<Request("text", AwaitCall)>>
         /\ batch' = [B EXCEPT !.awaited = TRUE] /\ UNCHANGED <<reason, out>>
         /\ MissingFields /\ OnMissingFields = "await"
      \/ /\ ~FailureCapTripped(ChargedCaps) /\ pc' = "planning"
         /\ batch' = B /\ UNCHANGED <<pending, reason, out>>
         /\ ~(MissingFields /\ OnMissingFields # "resume")
  BY DEF Charges, AdvanceFailureCap, AdvanceFinalizes, AdvanceAsks, AdvanceResumes, Continues,
         Decides, finalizeStep, suspendRun, EndRun
<1>3. Advanced(B) /\ B.counted /\ Advanced([B EXCEPT !.awaited = TRUE])
      /\ [B EXCEPT !.awaited = TRUE].counted /\ [B EXCEPT !.awaited = TRUE].awaited
      /\ pc = "advance" /\ reason = "none"
  BY <1>1, AdvanceIs
<1> HIDE DEF B
<1>4. Shapes /\ batch \in BatchType /\ streak \in Nat
  BY DEF IInv, Shapes
<1>5. /\ caps' \in Caps /\ caps'.maxTools = caps.maxTools
      /\ caps'.remTools = ChargedCaps.remTools /\ caps'.maxFails = caps.maxFails
  <2> DEFINE C == ChargedCaps
  <2>1. C \in Caps /\ C.maxTools = caps.maxTools /\ C.maxFails = caps.maxFails
    BY <1>4, ChargedIs
  <2>2. caps' = applyFailureStreak(C)
    BY <1>1
  <2> HIDE DEF C
  <2>3. caps' \in Caps /\ caps'.maxTools = caps.maxTools /\ caps'.remTools = C.remTools
        /\ caps'.maxFails = caps.maxFails
    BY <2>1, <2>2, StreakIs
  <2> QED  BY <2>3 DEF C
<1>6. streak' \in Nat
  BY <1>1, <1>4, Constants, MinOfTwo DEF CountStreak
<1>7. Advanced(batch')
  BY <1>2, <1>3
<1>8. StepOver
  BY <1>2, <1>3, <1>5, <1>6, <1>7 DEF StepOver
<1>9. FailInv'
  <2>1. SUFFICES ASSUME MaxFailures > 0
                 PROVE  /\ pc' = "planning" =>
                              caps'.remFails > 0 /\ streak' + caps'.remFails <= MaxFailures
                        /\ pc' = "suspended" => OnMissingFields = "await" /\ MissingFields'
                        /\ pc' = "planning" => streak' < MaxFailures
                        /\ FailureCapUntouched =>
                              /\ pc' = "planning" => streak' + caps'.remFails = MaxFailures
                              /\ pc' = "finalizing" /\ reason' = "failure_cap" =>
                                    \/ streak' >= MaxFailures
                                    \/ OnMissingFields = "await" /\ MissingFields'
    BY <1>2, <1>3, <1>5
       DEF IInv, FailInv, FailuresWithinCap, FinalizedForFailures, Uncharged, InStep
  <2>2. MissingFields => MissingFields'
    BY <1>4, <1>7, MissingIs
  <2>3. CASE batch.counted
    <3>1. OnMissingFields = "await" /\ MissingFields
      BY <1>3, <2>1, <2>3 DEF IInv, FailInv, InStep
    <3>2. pc' # "planning"
      BY <1>2, <3>1
    <3> QED  BY <2>2, <3>1, <3>2
  <2>4. CASE ~batch.counted
    <3>1. /\ caps'.remFails \in Nat
          /\ FailureCapTripped(ChargedCaps) /\ FailureCapUntouched => streak' >= MaxFailures
          /\ ~FailureCapTripped(ChargedCaps) =>
                /\ caps'.remFails > 0 /\ streak' + caps'.remFails <= MaxFailures
                /\ FailureCapUntouched => streak' + caps'.remFails = MaxFailures
      BY <1>1, <2>1, <2>4, StreakKept
    <3>2. pc' = "planning" =>
            /\ caps'.remFails > 0 /\ streak' + caps'.remFails <= MaxFailures
            /\ FailureCapUntouched => streak' + caps'.remFails = MaxFailures
      BY <1>2, <3>1
    <3>3. pc' = "planning" => streak' < MaxFailures
      BY <1>6, <3>1, <3>2, Constants
    <3>4. FailureCapUntouched /\ pc' = "finalizing" /\ reason' = "failure_cap" =>
            streak' >= MaxFailures
      BY <1>2, <3>1
    <3>5. pc' = "suspended" => OnMissingFields = "await" /\ MissingFields'
      BY <1>2, <2>2
    <3> QED  BY <3>2, <3>3, <3>4, <3>5
  <2> QED  BY <2>3, <2>4
<1> QED  BY <1>1, <1>8, <1>9, StepOverStep

-----------------------------------------------------------------------------
(* Finalizing.                                                             *)

(* The finalizer answers with text.                                        *)
LEMMA FinalizeWithTextStep ==
    ASSUME IInv, FinalizeWithText
    PROVE  StepInv
<1> USE DEF IInv
<1>1. /\ pc = "finalizing" /\ pc' = "done" /\ out' = "completed"
      /\ uses' = {} /\ answers' = [c \in {} |-> 0]
      /\ UNCHANGED <<result, caps, left, batch, exec, pending, reason, spent, streak, clock>>
  BY DEF FinalizeWithText, EndRun, commitSelectedModelResponse
<1>2. ResultInv' /\ Shapes' /\ PhaseInv' /\ TimeInv'
  BY <1>1 DEF ResultInv, Shapes, PhaseInv, InStep, TimeInv
<1>3. AnswersInv' /\ OpenInv'
  BY <1>1 DEF AnswersInv, Answered, AnsweredOnce, InStep, OpenInv
<1>4. CapInv' /\ FailInv'
  BY <1>1 DEF CapInv, FailInv, FailuresWithinCap, FinalizedForFailures, Uncharged, InStep
<1>5. StartedInTime
  BY <1>1 DEF StartedInTime
<1> QED  BY <1>2, <1>3, <1>4, <1>5 DEF StepInv

(* The finalizer makes a terminal call, which is bookkeeping: no budget    *)
(* bounds it.                                                              *)
LEMMA FinalizeWithCallStep ==
    ASSUME IInv, NEW confirm \in Confirms, FinalizeWithCall(confirm)
    PROVE  StepInv
<1> USE DEF IInv
<1> DEFINE call == [class |-> "terminal", confirm |-> confirm]
           spec == [c \in {FinalCall} |-> call]
<1>1. /\ pc = "finalizing" /\ result' = [spec |-> spec, await |-> "none", final |-> FALSE]
      /\ uses' = {FinalCall} /\ answers' = [c \in {FinalCall} |-> 0]
      /\ batch' = NoBatch
      /\ \/ pc' = "done" /\ out' = "failed" /\ UNCHANGED exec
         \/ pc' = "finaltool" /\ exec' = [queue |-> {}, inflight |-> {FinalCall}] /\ UNCHANGED out
      /\ UNCHANGED <<caps, left, pending, reason, spent, streak, clock>>
  BY DEF FinalizeWithCall, EndRun, commitSelectedModelResponse, NoResult, NoExec
<1>2. /\ FinalCall \in Ids /\ FinalCall # AwaitCall /\ FinalCall \in Calls
  BY Constants
<1>3. call \in CallType /\ call.class = "terminal"
  BY Constants DEF CallType
<1> HIDE DEF call
<1>4. spec \in Specs /\ DOMAIN spec = {FinalCall} /\ spec[FinalCall].class = "terminal"
  <2>1. spec \in [{FinalCall} -> CallType] /\ {FinalCall} \subseteq Ids
    BY <1>2, <1>3
  <2>2. spec[FinalCall] = call /\ DOMAIN spec = {FinalCall}
    OBVIOUS
  <2> HIDE DEF spec
  <2>3. spec \in Specs
    BY <2>1 DEF Specs
  <2> QED  BY <1>3, <2>2, <2>3
<1> HIDE DEF spec
<1>5. /\ result' \in ResultType /\ result'.spec = spec /\ result'.await = "none"
  BY <1>1, <1>4 DEF ResultType
<1>6. /\ batch' \in BatchType /\ DOMAIN batch'.recs = {} /\ batch'.recorded = {}
  BY <1>1, NoBatchIs
<1>7. exec = NoExec /\ reason # "none" /\ out = "none"
  BY <1>1 DEF PhaseInv
<1>8. /\ exec' \in [queue : SUBSET Ids, inflight : SUBSET Ids]
      /\ exec'.queue = {} /\ exec'.inflight \subseteq {FinalCall}
  BY <1>1, <1>2, <1>7 DEF NoExec
<1>9. ResultInv'
  BY <1>2, <1>4, <1>5, <1>6, <1>8 DEF ResultInv
<1>10. Shapes'
  <2>1. uses' \subseteq Ids /\ answers' \in [uses' -> Nat]
    BY <1>1, <1>2
  <2>2. out' \in {"none", "completed", "failed"}
    BY <1>1, <1>7
  <2> QED  BY <1>1, <1>6, <1>8, <2>1, <2>2 DEF Shapes
<1>11. PhaseInv'
  BY <1>1, <1>4, <1>5, <1>7 DEF PhaseInv, InStep
<1>12. AnswersInv'
  BY <1>1, <1>4, <1>5, <1>6, <1>7 DEF AnswersInv, AnsweredOnce, InStep
<1>13. OpenInv' /\ TimeInv'
  BY <1>1 DEF OpenInv, TimeInv
<1>14. CapInv' /\ FailInv'
  BY <1>1 DEF CapInv, FailInv, FailuresWithinCap, FinalizedForFailures, Uncharged, InStep
<1>15. StartedInTime
  BY <1>4, <1>5, <1>8 DEF StartedInTime
<1> QED  BY <1>9, <1>10, <1>11, <1>12, <1>13, <1>14, <1>15 DEF StepInv

(* The finalizer's call comes back or is timed out; it is answered either  *)
(* way.                                                                    *)
LEMMA FinalToolReturnsStep ==
    ASSUME IInv, NEW o \in Outcomes \cup {"timeout"}, FinalToolReturns(o)
    PROVE  StepInv
<1> USE DEF IInv
<1> DEFINE S == {FinalCall}
           recs == WithRecords(batch.recs, S, o)
           b == [batch EXCEPT !.recs = recs]
<1>1. /\ pc = "finaltool" /\ pc' = "done" /\ out' \in {"completed", "failed"}
      /\ recordUnrecordedStepToolResults(b) /\ batch' = Recorded(b) /\ exec' = NoExec
      /\ UNCHANGED <<result, caps, left, pending, reason, uses, spent, streak, clock>>
  BY DEF FinalToolReturns, EndRun
<1>2. /\ batch = NoBatch /\ DOMAIN result.spec = {FinalCall} /\ uses = {FinalCall}
      /\ batch.recorded = {} /\ batch \in BatchType /\ batch.recs \in Records
      /\ DOMAIN batch.recs = {} /\ Transcript({}) /\ reason # "none"
  BY <1>1, NoBatchIs DEF PhaseInv, AnswersInv, Shapes, BatchType, Transcript
<1>3. S \in SUBSET Ids /\ o \in Returned
  BY Constants DEF Returned
<1> HIDE DEF S
<1>4. recs \in Records /\ DOMAIN recs = S
  <2> DEFINE old == batch.recs
  <2>1. old \in Records /\ DOMAIN old = {}
    BY <1>2
  <2> HIDE DEF old
  <2>2. WithRecords(old, S, o) \in Records /\ DOMAIN WithRecords(old, S, o) = DOMAIN old \cup S
    BY <1>3, <2>1, WithRecordsIs
  <2> QED  BY <2>1, <2>2 DEF old
<1> HIDE DEF recs
<1>5. b \in BatchType /\ b.recs = recs /\ b.recorded = {}
  BY <1>2, <1>4 DEF BatchType
<1> HIDE DEF b
<1>6. batch' \in BatchType /\ batch'.recorded = S /\ DOMAIN batch'.recs = S
  BY <1>1, <1>4, <1>5, RecordedIs
<1>7. /\ answers' \in [uses' -> Nat]
      /\ \A c \in uses' : answers'[c] = IF c \in DOMAIN b.recs THEN 1 ELSE 0
  <2>1. /\ Transcript(batch.recorded) /\ b.recorded = batch.recorded
        /\ b.recorded \subseteq DOMAIN b.recs /\ Shapes
    BY <1>2, <1>5
  <2> QED  BY <1>1, <1>5, <2>1, RecordingIs
<1>8. Answered'
  BY <1>1, <1>2, <1>4, <1>5, <1>7 DEF Answered, S
<1>9. ResultInv'
  BY <1>1, <1>2, <1>6 DEF ResultInv, NoExec, S
<1>10. Shapes'
  BY <1>1, <1>6, <1>7 DEF Shapes, NoExec
<1>11. PhaseInv' /\ OpenInv' /\ TimeInv'
  BY <1>1 DEF PhaseInv, InStep, OpenInv, TimeInv
<1>12. AnswersInv'
  BY <1>1, <1>8 DEF AnswersInv, Answered, AnsweredOnce, InStep
<1>13. CapInv' /\ FailInv'
  BY <1>1 DEF CapInv, FailInv, FailuresWithinCap, FinalizedForFailures, Uncharged, InStep
<1>14. StartedInTime
  BY <1>1 DEF StartedInTime, NoExec
<1> QED  BY <1>9, <1>10, <1>11, <1>12, <1>13, <1>14 DEF StepInv

-----------------------------------------------------------------------------
(* The invariant of the loop.                                              *)

(* A run starts with its caps and its time in full and nothing committed.  *)
LEMMA InitInv ==
    ASSUME Init
    PROVE  IInv
<1>1. /\ pc = "planning" /\ result = NoResult /\ caps = initialCaps
      /\ left = [budget |-> TimeBudget, hard |-> TimeBudget + Grace]
      /\ batch = NoBatch /\ exec = NoExec /\ pending = <<>>
      /\ reason = "none" /\ out = "none" /\ uses = {} /\ answers = <<>>
      /\ spent = 0 /\ streak = 0 /\ clock = 0
  BY DEF Init
<1>2. ResultInv
  <2>1. <<>> \in Specs /\ DOMAIN <<>> = {}
    <3>1. <<>> = [c \in {} |-> 0] /\ [c \in {} |-> 0] \in [{} -> CallType]
      OBVIOUS
    <3> QED  BY <3>1 DEF Specs
  <2> DEFINE r == <<>>
  <2> HIDE DEF r
  <2>2. result = [spec |-> r, await |-> "none", final |-> FALSE] /\ r \in Specs /\ DOMAIN r = {}
    BY <1>1, <2>1 DEF NoResult, r
  <2>3. result \in ResultType /\ DOMAIN result.spec = {} /\ result.await = "none"
    BY <2>2 DEF ResultType
  <2> QED  BY <1>1, <2>3, NoBatchIs DEF ResultInv, NoExec
<1>3. caps \in Caps /\ caps.maxTools = MaxToolCalls /\ caps.remTools = MaxToolCalls
      /\ caps.maxFails = MaxFailures /\ caps.remFails = MaxFailures
  BY <1>1, Constants DEF initialCaps, Caps
<1>4. Shapes
  <2>1. answers \in [uses -> Nat]
    BY <1>1
  <2>2. left \in [budget : 0..TimeBudget, hard : 0..(TimeBudget + Grace)]
    BY <1>1, Constants
  <2>3. pending \in Seq(RequestType)
    BY <1>1
  <2> QED  BY <1>1, <1>3, <2>1, <2>2, <2>3, NoBatchIs DEF Shapes, NoExec
<1>5. PhaseInv /\ AnswersInv /\ OpenInv
  BY <1>1 DEF PhaseInv, AnswersInv, OpenInv, InStep, Answered
<1>6. CapInv
  BY <1>1, <1>3, Constants DEF CapInv, InStep
<1>7. FailInv
  BY <1>1, <1>3, Constants DEF FailInv, FailuresWithinCap, FinalizedForFailures, Uncharged, InStep
<1>8. TimeInv
  BY <1>1, Constants DEF TimeInv
<1> QED  BY <1>2, <1>4, <1>5, <1>6, <1>7, <1>8 DEF IInv

(* A step that changes nothing.                                            *)
LEMMA StutterStep ==
    ASSUME IInv, UNCHANGED vars
    PROVE  StepInv
<1>1. UNCHANGED <<pc, result, caps, left, batch, exec, pending, reason, out,
                  uses, answers, spent, streak, clock>>
  BY DEF vars
<1>2. Unstarted' = Unstarted /\ MissingFields' = MissingFields
  BY <1>1 DEF Unstarted, ConfirmsIn, Gated, MissingFields, Recs
<1>3. ResultInv' /\ Shapes' /\ PhaseInv' /\ AnswersInv' /\ TimeInv'
  BY <1>1 DEF IInv, ResultInv, Shapes, PhaseInv, AnswersInv, TimeInv, InStep, Answered, AnsweredOnce
<1>4. OpenInv'
  BY <1>1 DEF IInv, OpenInv, QueueInv, OpenCalls, Gated, OneConfirm, AskedOf, Waiting
<1>5. CapInv' /\ FailInv'
  BY <1>1, <1>2
     DEF IInv, CapInv, FailInv, FailuresWithinCap, FinalizedForFailures, Uncharged, InStep
<1>6. StartedInTime
  BY <1>1 DEF StartedInTime
<1> QED  BY <1>3, <1>4, <1>5, <1>6 DEF IInv, StepInv

(* Every step keeps the invariant and starts no budgeted call late.        *)
LEMMA NextStep ==
    ASSUME IInv, [Next]_vars
    PROVE  StepInv
<1>1. CASE UNCHANGED vars
  BY <1>1, StutterStep
<1>2. CASE Ended
  BY <1>2, StutterStep DEF Ended
<1>3. CASE Tick
  BY <1>3, TickStep
<1>4. CASE \E r \in PlanResults : PlanReturns(r)
  BY <1>4, PlanReturnsStep
<1>5. CASE Gives
  BY <1>5, GivesStep
<1>6. CASE StepTerminal
  BY <1>6, StepTerminalStep
<1>7. CASE \E d \in Decisions : StepCapDenied(d) \/ StepCommits(d)
  BY <1>7, StepCapDeniedStep, StepCommitsStep
<1>8. CASE \E G \in NextGroups : DispatchToolCalls(G)
  BY <1>8, DispatchStep
<1>9. CASE \E c \in exec.inflight, o \in Outcomes : ToolReturns(c, o)
  BY <1>9, ToolReturnsStep
<1>10. CASE ToolTimerFires
  BY <1>10, ToolTimerFiresStep
<1>11. CASE ExecutionFails \/ ExecutionSuspends \/ ExecutionCompletes
  BY <1>11, ExecutionFailsStep, ExecutionSuspendsStep, ExecutionCompletesStep
<1>12. CASE Replies
  BY <1>12, AnswerStep
<1>13. CASE ApproveConfirmation
  BY <1>13, ApproveStep
<1>14. CASE AdvanceTimedOut \/ AdvanceToolTerminal \/ AdvanceEnds
  BY <1>14, AdvanceEndsStep
<1>15. CASE Charges
  BY <1>15, ChargesStep
<1>16. CASE FinalizeWithText
  BY <1>16, FinalizeWithTextStep
<1>17. CASE \E confirm \in Confirms : FinalizeWithCall(confirm)
  BY <1>17, FinalizeWithCallStep
<1>18. CASE \E o \in Outcomes \cup {"timeout"} : FinalToolReturns(o)
  BY <1>18, FinalToolReturnsStep
<1>19. ChildCompletes \/ AnswerChild("child") => Replies
  BY DEF ChildCompletes, Replies
<1>20. CASE Work
  <2>1. (\E o \in Provided : ProvideToolResult(o)) \/ AnswerClarification
          \/ DenyConfirmation \/ ConfirmedCompletes => Replies
    BY DEF Replies
  <2> QED
    BY <1>4, <1>5, <1>6, <1>7, <1>8, <1>9, <1>10, <1>11, <1>12, <1>13, <1>14, <1>15, <1>16,
       <1>17, <1>18, <1>19, <1>20, <2>1 DEF Work, Gives, Charges
<1> QED  BY <1>1, <1>2, <1>3, <1>20 DEF Next

(* The invariant holds in every state of the loop.                         *)
LEMMA Invariant == Spec => []IInv
<1>1. Init => IInv
  BY InitInv
<1>2. IInv /\ [Next]_vars => IInv'
  BY NextStep DEF StepInv
<1> QED  BY <1>1, <1>2, PTL DEF Spec

-----------------------------------------------------------------------------
(* What the invariant gives.                                               *)

(* The loop's state has its types: calls recorded and under way are calls  *)
(* of the step (runLoopState, stepBatch, runDeadlines).                    *)
THEOREM LoopTypes == Spec => []TypeOK
<1>1. ASSUME IInv PROVE TypeOK
  <2>1. ResultInv /\ Shapes /\ PhaseInv
    BY <1>1 DEF IInv
  <2>2. DOMAIN result.spec \subseteq Ids
    BY <2>1 DEF ResultInv, ResultType, Specs
  <2>3. \A c \in DOMAIN batch.recs : batch.recs[c] \in Returned
    BY <2>1, RecordsAre DEF Shapes, BatchType
  <2>4. \A i \in 1..Len(pending) : pending[i] \in RequestType
    BY <2>1 DEF Shapes
  <2>5. left.budget \in 0..TimeBudget /\ left.hard \in 0..(TimeBudget + Grace)
    BY <2>1 DEF Shapes
  <2>6. DOMAIN answers = uses
    BY <2>1 DEF Shapes
  <2> QED
    BY <2>1, <2>2, <2>3, <2>4, <2>5, <2>6
       DEF TypeOK, ResultInv, Shapes, PhaseInv, Caps, Returned, RequestType
<1>2. IInv => TypeOK
  BY <1>1
<1> QED  BY <1>2, Invariant, PTL

(* Where an answered transcript stands in the invariant.                   *)
LEMMA AnswersOf ==
    ASSUME IInv
    PROVE  AnsweredOnce /\ PlannerSeesAnswers /\ FailureClosesCalls
<1>1. PhaseInv /\ AnswersInv /\ Shapes
  BY DEF IInv
<1>2. CASE pc \in {"planning", "step", "finalizing"}
  BY <1>1, <1>2 DEF PhaseInv, AnswersInv, Answered, AnsweredOnce, PlannerSeesAnswers,
                    FailureClosesCalls
<1>3. CASE InStep \/ pc = "finaltool"
  <2>1. AnsweredOnce
    BY <1>1, <1>3 DEF AnswersInv, AnsweredOnce
  <2>2. out = "none" /\ pc \notin {"planning", "finalizing"}
    BY <1>1, <1>3 DEF PhaseInv, InStep
  <2> QED  BY <2>1, <2>2 DEF PlannerSeesAnswers, FailureClosesCalls
<1>4. CASE pc = "done"
  BY <1>1, <1>4 DEF AnswersInv, PlannerSeesAnswers, FailureClosesCalls
<1> QED  BY <1>1, <1>2, <1>3, <1>4 DEF PhaseInv, InStep

(* No tool call is answered twice, over any number of suspensions and      *)
(* continuations (recordUnrecordedStepToolResults).                        *)
THEOREM CallsAnsweredOnce == Spec => []AnsweredOnce
<1>1. IInv => AnsweredOnce
  BY AnswersOf
<1> QED  BY <1>1, Invariant, PTL

(* The planner never sees a transcript with an unanswered tool use, and a  *)
(* run does not complete with one (advanceStep, finalizeFromHistory).      *)
THEOREM PlannerAlwaysSeesAnswers == Spec => []PlannerSeesAnswers
<1>1. IInv => PlannerSeesAnswers
  BY AnswersOf
<1> QED  BY <1>1, Invariant, PTL

(* A step that fails in the workflow that committed it has answered all of *)
(* its calls (failCommittedStep).                                          *)
THEOREM FailedStepsAreClosed == Spec => []FailureClosesCalls
<1>1. IInv => FailureClosesCalls
  BY AnswersOf
<1> QED  BY <1>1, Invariant, PTL

(* The run never starts more budgeted calls than its cap, whatever the     *)
(* policy decides (admitToolBatch, mergeCaps).                             *)
THEOREM ToolCapKept == Spec => []WithinToolCap
<1>1. IInv => WithinToolCap
  BY DEF IInv, CapInv, WithinToolCap
<1> QED  BY <1>1, Invariant, PTL

(* The planner is not asked again after MaxFailures failed steps in a row, *)
(* whatever the policy decides (applyFailureStreak, mergeCaps).            *)
THEOREM FailuresBounded == Spec => []FailuresWithinCap
<1>1. IInv => FailuresWithinCap
  BY DEF IInv, FailInv, FailuresWithinCap
<1> QED  BY <1>1, Invariant, PTL

(* The failure cap is kept exactly when no decision of the policy engine   *)
(* tightens it (applyFailureStreak): one that does finalizes the run       *)
(* before MaxFailures steps have failed.                                   *)
THEOREM FailureCapExact ==
    ASSUME FailureCapUntouched
    PROVE  Spec => []FailureCapKept
<1>1. ASSUME IInv PROVE FailureCapKept
  <2>1. CASE MaxFailures > 0
    BY <1>1, <2>1 DEF IInv, FailInv, FailureCapKept
  <2>2. CASE ~(MaxFailures > 0)
    BY <1>1, <2>2, Constants
       DEF IInv, Shapes, FailureCapKept, FailuresWithinCap, FinalizedForFailures
  <2> QED  BY <2>1, <2>2
<1>2. IInv => FailureCapKept
  BY <1>1
<1> QED  BY <1>2, Invariant, PTL

(* No budgeted call is started when the time budget is used up, at once or *)
(* after a confirmation (executeToolCalls).                                *)
THEOREM StartsInTime == Spec => NothingStartedLate
<1>1. IInv /\ [Next]_vars =>
        [\A c \in exec.inflight' \ exec.inflight :
            Timed /\ result'.spec[c].class = "budgeted" => clock < TimeBudget]_vars
  BY NextStep DEF StepInv, StartedInTime
<1> QED  BY <1>1, Invariant, PTL DEF Spec, NothingStartedLate

=============================================================================
