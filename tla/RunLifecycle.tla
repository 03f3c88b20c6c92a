--------------------------- MODULE RunLifecycle ---------------------------
(***************************************************************************)
(* Sessions, runs and their ends in the agent runtime                      *)
(* (runtime/agent/runtime: startRunOn, CancelRun, DeleteSession,           *)
(* PurgeSession, recordActivity, sessionEndedForPlanning and the repair of *)
(* terminal events), over the session store, the run log and the workflow  *)
(* engine.  One session; every call of a store is a step of its own, so    *)
(* that the reads and whole-record writes of one caller interleave with    *)
(* those of the others.                                                    *)
(***************************************************************************)
EXTENDS Naturals, Sequences, FiniteSets

CONSTANTS
    Runs,           \* run identities
    Users,          \* callers of CancelRun
    Deleter,        \* DeleteSession's own calls of CancelRun
    Readers,        \* ListRunEvents, GetRunSnapshot and Wait callers
    Processes,      \* runtime processes
    ProcessOf,      \* the process a reader runs in
    NoRun, NoReader,
    Endings,        \* how a run that is not cancelled can end
    EngineCancels,  \* CancelByID reaches the workflow (Temporal) or is a no-op (in memory)
    Streaming,      \* a stream sink is configured
    Abandons,       \* the terminal record can outlive its 10 s schedule-to-close timeout
    MaxFaults       \* bound: store and engine calls that fail

ASSUME ConstantsAssumption ==
    /\ ProcessOf \in [Readers -> Processes]
    /\ Deleter \notin Users
    /\ Runs \cap Readers = {}
    /\ NoReader \notin Readers
    /\ Endings \subseteq {"completed", "failed", "suspended"}
    /\ {EngineCancels, Streaming, Abandons} \subseteq BOOLEAN
    /\ MaxFaults \in Nat

VARIABLES
    sess,       \* the session's durable status
    runs,       \* the session store's RunMeta of each run
    log,        \* the lifecycle events of each run's log
    start,      \* where startRunOn is, for each run
    wf,         \* each run's workflow
    rec,        \* the recordActivity under way for a workflow or a reader
    cancel,     \* the CancelRun under way of each caller
    delete,     \* where DeleteSession is, and the runs it has still to cancel
    purge,      \* where PurgeSession is
    reader,     \* the terminal repair under way of each reader
    lock,       \* completionRepairMu of each process
    faults      \* calls that failed so far

vars == <<sess, runs, log, start, wf, rec, cancel, delete, purge, reader, lock, faults>>

-----------------------------------------------------------------------------
(* The session store's record of a run and the events of its log.          *)

NoReason == "none"
SessionEnded == "session_ended"
Reasons == {NoReason, SessionEnded, "user_requested"}

Active == {"pending", "running"}
Closing == {"completed", "failed", "canceled", "suspended"}

RunMeta == [status : Active \cup Closing, reason : Reasons, prompts : BOOLEAN]
MetaOrNone == RunMeta \cup {NoRun}

\* A fresh record: no metadata and no prompt references.
Meta(status) == [status |-> status, reason |-> NoReason, prompts |-> FALSE]

\* isTerminalSessionRunStatus
IsTerminal(m) == m.status \in Closing

Event == [type : {"started", "prompt", "terminal"}, status : {"running"} \cup Closing, reason : Reasons]
StartedEvent == [type |-> "started", status |-> "running", reason |-> NoReason]
PromptEvent == [type |-> "prompt", status |-> "running", reason |-> NoReason]

\* buildRunCompletedEvent: a cancelled run's event takes the stored reason.
TerminalEvent(status, m) ==
    [type |-> "terminal", status |-> status,
     reason |-> IF status = "canceled" /\ m # NoRun THEN m.reason ELSE NoReason]

Recorders == Runs \cup Readers
LogEntry == [by : Recorders, type : {"started", "terminal"},
             status : {"running"} \cup Closing, reason : Reasons]

\* runHasTerminalSnapshot
HasTerminal(r) == \E i \in DOMAIN log[r] : log[r][i].type = "terminal"

\* Append is idempotent by event key: a retried record keeps its key.
Appended(l, x, e) ==
    IF e.type = "prompt" \/ \E i \in DOMAIN l : l[i].by = x /\ l[i].type = e.type
    THEN l
    ELSE Append(l, [by |-> x, type |-> e.type, status |-> e.status, reason |-> e.reason])

\* updateRunMetaFromHookEvent: the loaded record with the event's change.
UpdatedMeta(m, e) ==
    CASE e.type = "started" -> IF m = NoRun THEN Meta("running") ELSE [m EXCEPT !.status = "running"]
      [] e.type = "prompt"  -> [(IF m = NoRun THEN Meta("running") ELSE m) EXCEPT !.prompts = TRUE]
      [] e.type = "terminal" -> [m EXCEPT !.status = e.status]

\* The bus subscriber of the session store writes a record of its own.
SubscriberMeta(e) == [Meta(e.status) EXCEPT !.reason = e.reason]

\* recordRunCancellation writes only an active run that has no reason yet.
TakesReason(m) == m # NoRun /\ ~IsTerminal(m) /\ m.reason = NoReason

Listed == {r \in Runs : runs[r] # NoRun /\ ~IsTerminal(runs[r])}

-----------------------------------------------------------------------------
(* startRunOn: the session check, the pending record, the engine.          *)

StartCheck(r) ==
    /\ start[r] = "idle"
    /\ sess = "active"
    /\ start' = [start EXCEPT ![r] = "checked"]
    /\ UNCHANGED <<sess, runs, log, wf, rec, cancel, delete, purge, reader, lock, faults>>

StartPending(r) ==
    /\ start[r] = "checked"
    /\ runs' = [runs EXCEPT ![r] = Meta("pending")]
    /\ start' = [start EXCEPT ![r] = "pended"]
    /\ UNCHANGED <<sess, log, wf, rec, cancel, delete, purge, reader, lock, faults>>

StartWorkflow(r) ==
    /\ start[r] = "pended"
    /\ start' = [start EXCEPT ![r] = "returned"]
    /\ \/ wf' = [wf EXCEPT ![r].pc = "begin"] /\ UNCHANGED faults
       \/ faults < MaxFaults /\ faults' = faults + 1 /\ UNCHANGED wf
    /\ UNCHANGED <<sess, runs, log, rec, cancel, delete, purge, reader, lock>>

-----------------------------------------------------------------------------
(* recordActivity, run for a workflow or by the reader that repairs it.    *)

Idle(x) == [pc |-> "idle", run |-> IF x \in Runs THEN x ELSE NoRun, ev |-> StartedEvent, meta |-> NoRun]
Record(r, e) == [pc |-> "append", run |-> r, ev |-> e, meta |-> NoRun]

RecordAppend(x) ==
    /\ rec[x].pc = "append"
    /\ log' = [log EXCEPT ![rec[x].run] = Appended(@, x, rec[x].ev)]
    /\ rec' = [rec EXCEPT ![x].pc = "load"]
    /\ UNCHANGED <<sess, runs, start, wf, cancel, delete, purge, reader, lock, faults>>

\* updateRunStatus fails when the run's record is gone.
RecordLoad(x) ==
    LET m == runs[rec[x].run] IN
    /\ rec[x].pc = "load"
    /\ rec' = [rec EXCEPT ![x].meta = m,
                          ![x].pc = IF m = NoRun /\ rec[x].ev.type = "terminal" THEN "failed" ELSE "store"]
    /\ UNCHANGED <<sess, runs, log, start, wf, cancel, delete, purge, reader, lock, faults>>

RecordStore(x) ==
    /\ rec[x].pc = "store"
    /\ runs' = [runs EXCEPT ![rec[x].run] = UpdatedMeta(rec[x].meta, rec[x].ev)]
    /\ rec' = [rec EXCEPT ![x].pc = "stream", ![x].meta = NoRun]
    /\ UNCHANGED <<sess, log, start, wf, cancel, delete, purge, reader, lock, faults>>

\* The stream is skipped for an ended session; a missing one is an error.
RecordStream(x) ==
    /\ rec[x].pc = "stream"
    /\ rec' = [rec EXCEPT ![x].pc = IF Streaming /\ sess = "none" THEN "failed" ELSE "bus"]
    /\ UNCHANGED <<sess, runs, log, start, wf, cancel, delete, purge, reader, lock, faults>>

RecordBus(x) ==
    /\ rec[x].pc = "bus"
    /\ runs' = IF rec[x].ev.type = "prompt" THEN runs
               ELSE [runs EXCEPT ![rec[x].run] = SubscriberMeta(rec[x].ev)]
    /\ rec' = [rec EXCEPT ![x].pc = "done"]
    /\ UNCHANGED <<sess, log, start, wf, cancel, delete, purge, reader, lock, faults>>

\* A store call fails: the engine retries a workflow's record from its first
\* step, or gives it up; a failing bus is logged and ignored.
RecordFail(x) ==
    /\ faults < MaxFaults
    /\ faults' = faults + 1
    /\ \/ /\ rec[x].pc \in {"append", "load", "store", "stream"}
          /\ \/ rec' = [rec EXCEPT ![x].pc = "failed"]
             \/ x \in Runs /\ rec[x].ev.type # "prompt" /\ rec' = [rec EXCEPT ![x].pc = "append"]
       \/ rec[x].pc = "bus" /\ rec' = [rec EXCEPT ![x].pc = "done"]
    /\ UNCHANGED <<sess, runs, log, start, wf, cancel, delete, purge, reader, lock>>

RecordStep(x) ==
    RecordAppend(x) \/ RecordLoad(x) \/ RecordStore(x) \/ RecordStream(x) \/ RecordBus(x)

-----------------------------------------------------------------------------
(* ExecuteWorkflow: the start event, planning turns behind the session     *)
(* gate, and the terminal event of the deferred function.                  *)

NewWorkflow == [pc |-> "none", status |-> "running", canceled |-> FALSE,
                refused |-> FALSE, late |-> 0, meta |-> NoRun]

Conclude(r, status) == [wf EXCEPT ![r].pc = "final", ![r].status = status]

\* An error before the deferred function is installed closes the workflow
\* without a terminal event.
CloseUnannounced(r, status) == [wf EXCEPT ![r].pc = "closed", ![r].status = status]

WorkflowBegin(r) ==
    /\ wf[r].pc = "begin"
    /\ wf' = [wf EXCEPT ![r].pc = "started"]
    /\ rec' = [rec EXCEPT ![r] = Record(r, StartedEvent)]
    /\ UNCHANGED <<sess, runs, log, start, cancel, delete, purge, reader, lock, faults>>

WorkflowStarted(r) ==
    /\ wf[r].pc = "started"
    /\ \/ rec[r].pc = "done" /\ wf' = [wf EXCEPT ![r].pc = "gate"]
       \/ rec[r].pc = "failed" /\ wf' = CloseUnannounced(r, "failed")
    /\ rec' = [rec EXCEPT ![r] = Idle(r)]
    /\ UNCHANGED <<sess, runs, log, start, cancel, delete, purge, reader, lock, faults>>

\* Mutant: only a missing session stops the planning.
GateWithoutStatus(r) ==
    /\ wf[r].pc = "gate"
    /\ wf' = IF sess = "none" THEN Conclude(r, "failed") ELSE [wf EXCEPT ![r].pc = "plan"]
    /\ UNCHANGED <<sess, runs, log, start, rec, cancel, delete, purge, reader, lock, faults>>

\* sessionEndedForPlanning, the read of the session; a missing one is an error.
Gate(r) ==
    /\ wf[r].pc = "gate"
    /\ wf' = CASE sess = "active" -> [wf EXCEPT ![r].pc = "plan"]
               [] sess = "ended"  -> [wf EXCEPT ![r].pc = "gateload"]
               [] sess = "none"   -> Conclude(r, "failed")
    /\ UNCHANGED <<sess, runs, log, start, rec, cancel, delete, purge, reader, lock, faults>>

Refuse(r) == [Conclude(r, "canceled") EXCEPT ![r].refused = TRUE, ![r].meta = NoRun]

\* ... and the recording of the reason, before the refusal is reported.
GateLoad(r) ==
    /\ wf[r].pc = "gateload"
    /\ wf' = IF TakesReason(runs[r])
             THEN [wf EXCEPT ![r].pc = "gatestore", ![r].meta = runs[r]]
             ELSE Refuse(r)
    /\ UNCHANGED <<sess, runs, log, start, rec, cancel, delete, purge, reader, lock, faults>>

GateStore(r) ==
    /\ wf[r].pc = "gatestore"
    /\ runs' = [runs EXCEPT ![r] = [wf[r].meta EXCEPT !.reason = SessionEnded]]
    /\ wf' = Refuse(r)
    /\ UNCHANGED <<sess, log, start, rec, cancel, delete, purge, reader, lock, faults>>

\* The planner is called; late counts the calls after the session ended (at
\* most 2 are told apart). It may render a prompt, which is recorded at once.
Plan(r) ==
    LET late == IF sess = "active" \/ wf[r].late = 2 THEN wf[r].late ELSE wf[r].late + 1 IN
    /\ wf[r].pc = "plan"
    /\ \/ wf' = [wf EXCEPT ![r].pc = "decide", ![r].late = late] /\ UNCHANGED rec
       \/ /\ wf' = [wf EXCEPT ![r].pc = "prompted", ![r].late = late]
          /\ rec' = [rec EXCEPT ![r] = Record(r, PromptEvent)]
    /\ UNCHANGED <<sess, runs, log, start, cancel, delete, purge, reader, lock, faults>>

Prompted(r) ==
    /\ wf[r].pc = "prompted"
    /\ \/ rec[r].pc = "done" /\ wf' = [wf EXCEPT ![r].pc = "decide"]
       \/ rec[r].pc = "failed" /\ wf' = Conclude(r, "failed")
    /\ rec' = [rec EXCEPT ![r] = Idle(r)]
    /\ UNCHANGED <<sess, runs, log, start, cancel, delete, purge, reader, lock, faults>>

\* The planner's answer: tools and another turn, or the end of the run.
Decide(r) ==
    /\ wf[r].pc = "decide"
    /\ \/ wf' = [wf EXCEPT ![r].pc = "gate"]
       \/ \E status \in Endings : wf' = Conclude(r, status)
    /\ UNCHANGED <<sess, runs, log, start, rec, cancel, delete, purge, reader, lock, faults>>

\* Mutant: cancellation is noticed between turns only.
WorkflowCanceledAtGate(r) ==
    /\ wf[r].canceled
    /\ wf[r].pc = "gate"
    /\ wf' = Conclude(r, "canceled")
    /\ UNCHANGED <<sess, runs, log, start, rec, cancel, delete, purge, reader, lock, faults>>

\* The engine's cancellation interrupts whatever the workflow awaits.
WorkflowCanceled(r) ==
    /\ wf[r].canceled
    /\ \/ wf[r].pc \in {"begin", "started"} /\ wf' = CloseUnannounced(r, "canceled")
       \/ /\ wf[r].pc \in {"gate", "gateload", "gatestore", "plan", "prompted", "decide"}
          /\ wf' = [Conclude(r, "canceled") EXCEPT ![r].meta = NoRun]
    /\ rec' = [rec EXCEPT ![r] = Idle(r)]
    /\ UNCHANGED <<sess, runs, log, start, cancel, delete, purge, reader, lock, faults>>

\* The deferred function, on a detached context.
WorkflowFinal(r) ==
    /\ wf[r].pc = "final"
    /\ wf' = [wf EXCEPT ![r].pc = "ending"]
    /\ rec' = [rec EXCEPT ![r] = Record(r, TerminalEvent(wf[r].status, runs[r]))]
    /\ UNCHANGED <<sess, runs, log, start, cancel, delete, purge, reader, lock, faults>>

\* The workflow closes once its record ended, failed, or timed out.
WorkflowClose(r) ==
    /\ wf[r].pc = "ending"
    /\ wf' = [wf EXCEPT ![r].pc = "closed"]
    /\ \/ rec[r].pc \in {"done", "failed"} /\ rec' = [rec EXCEPT ![r] = Idle(r)]
       \/ Abandons /\ UNCHANGED rec
    /\ UNCHANGED <<sess, runs, log, start, cancel, delete, purge, reader, lock, faults>>

WorkflowStep(r) ==
    \/ WorkflowBegin(r) \/ WorkflowStarted(r) \/ Gate(r) \/ GateLoad(r) \/ GateStore(r)
    \/ Plan(r) \/ Prompted(r) \/ Decide(r) \/ WorkflowCanceled(r)
    \/ WorkflowFinal(r) \/ WorkflowClose(r)

-----------------------------------------------------------------------------
(* CancelRun: the reason first, then the engine, then the rollback when    *)
(* the engine refused.                                                     *)

Cancelers == Users \cup {Deleter}
Reason(c) == IF c = Deleter THEN SessionEnded ELSE "user_requested"
NoCancel == [pc |-> "idle", run |-> NoRun, meta |-> NoRun, wrote |-> FALSE]

\* A user calls once; DeleteSession calls for each run it listed.
Finished(c) == [cancel EXCEPT ![c] = [NoCancel EXCEPT !.pc = IF c = Deleter THEN "idle" ELSE "over"]]

CancelLoad(c, r) ==
    /\ cancel[c].pc = "idle"
    /\ c = Deleter => delete.pc = "cancel" /\ r \in delete.todo
    /\ delete' = IF c = Deleter THEN [delete EXCEPT !.todo = @ \ {r}] ELSE delete
    /\ cancel' = [cancel EXCEPT ![c] =
          IF TakesReason(runs[r])
          THEN [pc |-> "store", run |-> r, meta |-> runs[r], wrote |-> FALSE]
          ELSE [pc |-> "engine", run |-> r, meta |-> NoRun, wrote |-> FALSE]]
    /\ UNCHANGED <<sess, runs, log, start, wf, rec, purge, reader, lock, faults>>

\* Mutant: the request marks the run cancelled as well.
CancelStoreCloses(c) ==
    /\ cancel[c].pc = "store"
    /\ runs' = [runs EXCEPT ![cancel[c].run] =
          [cancel[c].meta EXCEPT !.reason = Reason(c), !.status = "canceled"]]
    /\ cancel' = [cancel EXCEPT ![c].pc = "engine", ![c].wrote = TRUE, ![c].meta = NoRun]
    /\ UNCHANGED <<sess, log, start, wf, rec, delete, purge, reader, lock, faults>>

CancelStore(c) ==
    /\ cancel[c].pc = "store"
    /\ runs' = [runs EXCEPT ![cancel[c].run] = [cancel[c].meta EXCEPT !.reason = Reason(c)]]
    /\ cancel' = [cancel EXCEPT ![c].pc = "engine", ![c].wrote = TRUE, ![c].meta = NoRun]
    /\ UNCHANGED <<sess, log, start, wf, rec, delete, purge, reader, lock, faults>>

\* CancelByID: delivered, a no-op, or refused (not found, or a failure).
CancelEngine(c) ==
    LET r == cancel[c].run
        refused == IF cancel[c].wrote THEN [cancel EXCEPT ![c].pc = "rollback"] ELSE Finished(c)
    IN
    /\ cancel[c].pc = "engine"
    /\ \/ /\ EngineCancels /\ wf[r].pc \notin {"none", "closed"}
          /\ wf' = [wf EXCEPT ![r].canceled = TRUE]
          /\ cancel' = Finished(c)
          /\ UNCHANGED faults
       \/ ~EngineCancels /\ cancel' = Finished(c) /\ UNCHANGED <<wf, faults>>
       \/ EngineCancels /\ wf[r].pc \in {"none", "closed"} /\ cancel' = refused /\ UNCHANGED <<wf, faults>>
       \/ EngineCancels /\ faults < MaxFaults /\ faults' = faults + 1 /\ cancel' = refused /\ UNCHANGED wf
    /\ UNCHANGED <<sess, runs, log, start, rec, delete, purge, reader, lock>>

\* rollbackRunCancellation touches only an active run with this call's reason.
RollbackLoad(c) ==
    LET m == runs[cancel[c].run] IN
    /\ cancel[c].pc = "rollback"
    /\ cancel' = IF m # NoRun /\ ~IsTerminal(m) /\ m.reason = Reason(c)
                 THEN [cancel EXCEPT ![c].pc = "restore", ![c].meta = m]
                 ELSE Finished(c)
    /\ UNCHANGED <<sess, runs, log, start, wf, rec, delete, purge, reader, lock, faults>>

\* The metadata before the call had no reason: it wrote one.
RollbackStore(c) ==
    /\ cancel[c].pc = "restore"
    /\ runs' = [runs EXCEPT ![cancel[c].run] = [cancel[c].meta EXCEPT !.reason = NoReason]]
    /\ cancel' = Finished(c)
    /\ UNCHANGED <<sess, log, start, wf, rec, delete, purge, reader, lock, faults>>

CancelStep(c) ==
    CancelStore(c) \/ CancelEngine(c) \/ RollbackLoad(c) \/ RollbackStore(c)

-----------------------------------------------------------------------------
(* CreateSession, DeleteSession and PurgeSession.                          *)

CreateSession ==
    /\ sess = "none"
    /\ sess' = "active"
    /\ wf' = [r \in Runs |-> [wf[r] EXCEPT !.late = 0]]
    /\ UNCHANGED <<runs, log, start, rec, cancel, delete, purge, reader, lock, faults>>

EndSession ==
    /\ delete.pc = "idle"
    /\ sess # "none"
    /\ sess' = "ended"
    /\ delete' = [delete EXCEPT !.pc = "list"]
    /\ UNCHANGED <<runs, log, start, wf, rec, cancel, purge, reader, lock, faults>>

\* cancelSessionRuns
ListSessionRuns ==
    /\ delete.pc = "list"
    /\ delete' = [pc |-> "cancel", todo |-> Listed]
    /\ UNCHANGED <<sess, runs, log, start, wf, rec, cancel, purge, reader, lock, faults>>

\* The last cancellation is done, or the 5 s of the expedited ones are over.
DeleteReturns ==
    /\ delete.pc = "cancel"
    /\ cancel[Deleter].pc = "idle"
    /\ delete' = [pc |-> "idle", todo |-> {}]
    /\ UNCHANGED <<sess, runs, log, start, wf, rec, cancel, purge, reader, lock, faults>>

PurgeLoad ==
    /\ purge = "idle"
    /\ sess = "ended"
    /\ purge' = "list"
    /\ UNCHANGED <<sess, runs, log, start, wf, rec, cancel, delete, reader, lock, faults>>

PurgeList ==
    /\ purge = "list"
    /\ purge' = IF Listed = {} THEN "purge" ELSE "idle"
    /\ UNCHANGED <<sess, runs, log, start, wf, rec, cancel, delete, reader, lock, faults>>

PurgeDelete ==
    /\ purge = "purge"
    /\ purge' = "idle"
    /\ sess' = "none"
    /\ runs' = [r \in Runs |-> NoRun]
    /\ UNCHANGED <<log, start, wf, rec, cancel, delete, reader, lock, faults>>

-----------------------------------------------------------------------------
(* The repair of a closed run that has no terminal event.                  *)

NoRepair == [pc |-> "idle", run |-> NoRun, ev |-> StartedEvent]

\* repairTerminalRunCompletion: the first look at the log.
RepairCheck(p, r) ==
    /\ reader[p].pc = "idle"
    /\ start[r] = "returned"
    /\ ~HasTerminal(r)
    /\ reader' = [reader EXCEPT ![p] = [NoRepair EXCEPT !.pc = "query", !.run = r]]
    /\ UNCHANGED <<sess, runs, log, start, wf, rec, cancel, delete, purge, lock, faults>>

\* Mutant: a run that failed is not taken for closed.
RepairQueryMissesFailed(p) ==
    LET w == wf[reader[p].run] IN
    /\ reader[p].pc = "query"
    /\ reader' = IF w.pc = "closed" /\ w.status # "failed" THEN [reader EXCEPT ![p].pc = "lock"]
                 ELSE [reader EXCEPT ![p] = NoRepair]
    /\ UNCHANGED <<sess, runs, log, start, wf, rec, cancel, delete, purge, lock, faults>>

\* QueryRunStatus, and the choice of the observed handle or the query.
RepairQuery(p) ==
    /\ reader[p].pc = "query"
    /\ \/ /\ wf[reader[p].run].pc = "closed"
          /\ \E pc \in {"build", "lock"} : reader' = [reader EXCEPT ![p].pc = pc]
       \/ wf[reader[p].run].pc # "closed" /\ reader' = [reader EXCEPT ![p] = NoRepair]
    /\ UNCHANGED <<sess, runs, log, start, wf, rec, cancel, delete, purge, lock, faults>>

\* awaitCompletion: the handle's Wait returned.
WaitReturns(p, r) ==
    /\ reader[p].pc = "idle"
    /\ wf[r].pc = "closed"
    /\ ~HasTerminal(r)
    /\ reader' = [reader EXCEPT ![p] = [NoRepair EXCEPT !.pc = "build", !.run = r]]
    /\ UNCHANGED <<sess, runs, log, start, wf, rec, cancel, delete, purge, lock, faults>>

\* repairObservedTerminalRunCompletion builds its event before the lock.
RepairBuild(p) ==
    LET r == reader[p].run IN
    /\ reader[p].pc = "build"
    /\ reader' = [reader EXCEPT ![p].pc = "lock", ![p].ev = TerminalEvent(wf[r].status, runs[r])]
    /\ UNCHANGED <<sess, runs, log, start, wf, rec, cancel, delete, purge, lock, faults>>

\* Mutant: no second look under the lock.
RepairLockWithoutRecheck(p) ==
    LET r == reader[p].run
        built == reader[p].ev.type = "terminal"
    IN
    /\ reader[p].pc = "lock"
    /\ lock[ProcessOf[p]] = NoReader
    /\ lock' = [lock EXCEPT ![ProcessOf[p]] = p]
    /\ reader' = [reader EXCEPT ![p].pc = IF built THEN "publish" ELSE "compose"]
    /\ rec' = IF built THEN [rec EXCEPT ![p] = Record(r, reader[p].ev)] ELSE rec
    /\ UNCHANGED <<sess, runs, log, start, wf, cancel, delete, purge, faults>>

\* withSerializedTerminalRepair: the second look, holding the process's lock.
RepairLock(p) ==
    LET r == reader[p].run
        built == reader[p].ev.type = "terminal"
    IN
    /\ reader[p].pc = "lock"
    /\ lock[ProcessOf[p]] = NoReader
    /\ \/ HasTerminal(r) /\ reader' = [reader EXCEPT ![p] = NoRepair] /\ UNCHANGED <<rec, lock>>
       \/ /\ ~HasTerminal(r)
          /\ lock' = [lock EXCEPT ![ProcessOf[p]] = p]
          /\ reader' = [reader EXCEPT ![p].pc = IF built THEN "publish" ELSE "compose"]
          /\ rec' = IF built THEN [rec EXCEPT ![p] = Record(r, reader[p].ev)] ELSE rec
    /\ UNCHANGED <<sess, runs, log, start, wf, cancel, delete, purge, faults>>

\* repairQueriedTerminalRunCompletion: identity and event, under the lock.
RepairCompose(p) ==
    LET r == reader[p].run IN
    /\ reader[p].pc = "compose"
    /\ \/ /\ runs[r] = NoRun /\ log[r] = << >>
          /\ lock' = [lock EXCEPT ![ProcessOf[p]] = NoReader]
          /\ reader' = [reader EXCEPT ![p] = NoRepair]
          /\ UNCHANGED rec
       \/ /\ runs[r] # NoRun \/ log[r] # << >>
          /\ rec' = [rec EXCEPT ![p] = Record(r, TerminalEvent(wf[r].status, runs[r]))]
          /\ reader' = [reader EXCEPT ![p].pc = "publish"]
          /\ UNCHANGED lock
    /\ UNCHANGED <<sess, runs, log, start, wf, cancel, delete, purge, faults>>

RepairReturns(p) ==
    /\ reader[p].pc = "publish"
    /\ rec[p].pc \in {"done", "failed"}
    /\ rec' = [rec EXCEPT ![p] = Idle(p)]
    /\ lock' = [lock EXCEPT ![ProcessOf[p]] = NoReader]
    /\ reader' = [reader EXCEPT ![p] = NoRepair]
    /\ UNCHANGED <<sess, runs, log, start, wf, cancel, delete, purge, faults>>

RepairStep(p) ==
    \/ RepairQuery(p) \/ RepairBuild(p) \/ RepairLock(p) \/ RepairCompose(p) \/ RepairReturns(p)
    \/ \E r \in Runs : RepairCheck(p, r) \/ WaitReturns(p, r)

-----------------------------------------------------------------------------
Init ==
    /\ sess = "none"
    /\ runs = [r \in Runs |-> NoRun]
    /\ log = [r \in Runs |-> << >>]
    /\ start = [r \in Runs |-> "idle"]
    /\ wf = [r \in Runs |-> NewWorkflow]
    /\ rec = [x \in Recorders |-> Idle(x)]
    /\ cancel = [c \in Cancelers |-> NoCancel]
    /\ delete = [pc |-> "idle", todo |-> {}]
    /\ purge = "idle"
    /\ reader = [p \in Readers |-> NoRepair]
    /\ lock = [q \in Processes |-> NoReader]
    /\ faults = 0

StartStep(r) == StartCheck(r) \/ StartPending(r) \/ StartWorkflow(r)

Next ==
    \/ CreateSession \/ EndSession \/ ListSessionRuns \/ DeleteReturns
    \/ PurgeLoad \/ PurgeList \/ PurgeDelete
    \/ \E r \in Runs : StartStep(r) \/ WorkflowStep(r)
    \/ \E x \in Recorders : RecordStep(x) \/ RecordFail(x)
    \/ \E c \in Cancelers : CancelStep(c) \/ \E r \in Runs : CancelLoad(c, r)
    \/ \E p \in Readers : RepairStep(p)

Spec == Init /\ [][Next]_vars

\* Stores, workers and readers that keep running: no call hangs for ever.
FairWorkflows ==
    \A r \in Runs : WF_vars(WorkflowStep(r)) /\ WF_vars(WorkflowCanceled(r)) /\ WF_vars(RecordStep(r))
FairReaders == \A p \in Readers : WF_vars(RepairStep(p)) /\ WF_vars(RecordStep(p))

FairSpec == Spec /\ FairWorkflows /\ FairReaders

-----------------------------------------------------------------------------
(* Properties.                                                             *)

\* Every variable keeps its shape.
TypeOK ==
    /\ sess \in {"none", "active", "ended"}
    /\ runs \in [Runs -> MetaOrNone]
    /\ log \in [Runs -> Seq(LogEntry)]
    /\ start \in [Runs -> {"idle", "checked", "pended", "returned"}]
    /\ wf \in [Runs -> [pc : {"none", "begin", "started", "gate", "gateload", "gatestore", "plan",
                             "prompted", "decide", "final", "ending", "closed"},
                       status : {"running"} \cup Closing, canceled : BOOLEAN, refused : BOOLEAN,
                       late : 0..2, meta : MetaOrNone]]
    /\ rec \in [Recorders -> [pc : {"idle", "append", "load", "store", "stream", "bus", "done", "failed"},
                              run : Runs \cup {NoRun}, ev : Event, meta : MetaOrNone]]
    /\ cancel \in [Cancelers -> [pc : {"idle", "store", "engine", "rollback", "restore", "over"},
                                 run : Runs \cup {NoRun}, meta : MetaOrNone, wrote : BOOLEAN]]
    /\ delete \in [pc : {"idle", "list", "cancel"}, todo : SUBSET Runs]
    /\ purge \in {"idle", "list", "purge"}
    /\ reader \in [Readers -> [pc : {"idle", "query", "build", "lock", "compose", "publish"},
                               run : Runs \cup {NoRun}, ev : Event]]
    /\ lock \in [Processes -> Readers \cup {NoReader}]
    /\ faults \in 0..MaxFaults

\* The session store and the log never say a run ended otherwise than its
\* workflow did, nor before it decided: whatever stale records CancelRun, the
\* gate, the bus subscriber and the repairs write back, a terminal status in
\* the store (updateRunStatus, sessionSub) or in the log (recordActivity) is
\* the workflow's own.
OutcomeIsWorkflows ==
    \A r \in Runs :
        /\ runs[r] # NoRun /\ IsTerminal(runs[r]) =>
               wf[r].pc \in {"ending", "closed"} /\ runs[r].status = wf[r].status
        /\ \A i \in DOMAIN log[r] : log[r][i].type = "terminal" =>
               wf[r].pc \in {"ending", "closed"} /\ log[r][i].status = wf[r].status

\* DeleteSession: "No in-flight run plans another turn under an ended session".
\* The gate is a check before the call, so the planner may be called once for
\* a session that ends in between; never twice (sessionEndedForPlanning).
OneLateTurn == \A r \in Runs : wf[r].late <= 1

Terminals(r) == {i \in DOMAIN log[r] : log[r][i].type = "terminal"}
OnlyTerminal(r) == log[r][CHOOSE i \in Terminals(r) : TRUE]
Phase == [r \in Runs |->
    CASE Cardinality(Terminals(r)) = 1 -> <<OnlyTerminal(r).status, OnlyTerminal(r).reason>>
      [] Cardinality(Terminals(r)) > 1 -> <<"ambiguous", NoReason>>
      [] OTHER -> <<IF log[r] = << >> THEN "absent" ELSE "open", NoReason>>]

\* A log is what RunContract says: a run has one terminal event, final once it
\* is written, its cancellation provenance included. A workflow's own record,
\* retried or given up, and the repairs of the readers of one process
\* (withSerializedTerminalRepair) never append a second one, which would make
\* the log ambiguous.
Contract == INSTANCE RunContract WITH phase <- Phase, Outcomes <- Closing \X Reasons
ImplementsContract == Contract!Spec

InFlight(r) == wf[r].pc \notin {"none", "closed"}

\* The session's end reaches every run in flight, even when the engine cannot
\* cancel: the planner may ask for turns for ever, the gate stops it, unless
\* the session is purged and created again under the run.
EndedRunsStop ==
    \A r \in Runs : (sess = "ended" /\ InFlight(r)) ~> (~InFlight(r) \/ sess = "active")

\* A cancellation the engine accepted (CancelByID) ends the run, whatever turns
\* its planner still asks for.
CanceledRunsStop == \A r \in Runs : wf[r].canceled ~> ~InFlight(r)

\* A workflow that closed, whatever became of its own terminal record, gets a
\* terminal event from the readers that keep asking (repairTerminalRunCompletion),
\* unless its record was purged and nothing identifies the run.
ClosedRunsConverge ==
    \A r \in Runs : (wf[r].pc = "closed") ~> (HasTerminal(r) \/ (runs[r] = NoRun /\ log[r] = << >>))

(* What comments of the code say and runs refute. *)

\* session_lifecycle.go, DeleteSession: "No new run starts under an ended session".
NoStartUnderEnded ==
    [][\A r \in Runs : wf[r].pc = "none" /\ wf'[r].pc # "none" => sess = "active"]_vars

\* session_lifecycle.go, PurgeSession: "so a later workflow activity cannot
\* recreate run data after the session is gone" (rec[r] is r's record activity).
PurgedStaysGone ==
    [][\A r \in Runs : sess = "none" /\ runs[r] = NoRun /\ rec'[r] # rec[r] => runs'[r] = NoRun]_vars

\* session_lifecycle.go, DeleteSession: "the run stops at its next turn boundary
\* regardless".
StopsRegardless == \A r \in Runs : (sess = "ended" /\ InFlight(r)) ~> ~InFlight(r)

\* cancellation.go, isTerminalSessionRunStatus: "no longer accepts new
\* cancellation intent": a closed record does not become active again.
ClosedStaysClosed ==
    [][\A r \in Runs : runs[r] # NoRun /\ IsTerminal(runs[r]) /\ runs'[r] # NoRun => IsTerminal(runs'[r])]_vars

\* activities.go, sessionEndedForPlanning: "records CancellationReasonSessionEnded
\* [...] so the terminal RunCompleted event carries the canonical provenance":
\* a run the gate refused still has a reason when its event is built.
RefusedRunHasReason ==
    \A r \in Runs : wf[r].refused /\ wf[r].pc = "final" /\ runs[r] # NoRun => runs[r].reason # NoReason

\* session.go, RunMeta.PromptRefs: "enables downstream consumers to correlate run
\* outcomes with the exact prompt versions that were used": a run that ends
\* keeps the references it recorded.
PromptsKept ==
    [][\A r \in Runs : runs[r] # NoRun /\ runs[r].prompts /\ runs'[r] # NoRun /\ IsTerminal(runs'[r])
           => runs'[r].prompts]_vars
=============================================================================
