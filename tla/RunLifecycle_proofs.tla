------------------------ MODULE RunLifecycle_proofs ------------------------
(***************************************************************************)
(* Proofs about sessions and runs, for any number of runs, users, readers, *)
(* processes and failing calls, with any engine.                           *)
(*                                                                         *)
(* Every caller holds copies of the store (records it loaded, events it    *)
(* built) that are written back later.  The inductive invariant says what  *)
(* each copy may still claim: a terminal status only of a workflow that    *)
(* has decided, and then its own.  It is stable because a workflow that    *)
(* has decided never changes its status.                                   *)
(***************************************************************************)
EXTENDS RunLifecycle, FiniteSetTheorems, TLAPS

WorkflowType ==
    [pc : {"none", "begin", "started", "gate", "gateload", "gatestore", "plan",
           "prompted", "decide", "final", "ending", "closed"},
     status : {"running"} \cup Closing, canceled : BOOLEAN, refused : BOOLEAN,
     late : 0..2, meta : MetaOrNone]
RecordType ==
    [pc : {"idle", "append", "load", "store", "stream", "bus", "done", "failed"},
     run : Runs \cup {NoRun}, ev : Event, meta : MetaOrNone]
CancelType ==
    [pc : {"idle", "store", "engine", "rollback", "restore", "over"},
     run : Runs \cup {NoRun}, meta : MetaOrNone, wrote : BOOLEAN]
ReaderType ==
    [pc : {"idle", "query", "build", "lock", "compose", "publish"},
     run : Runs \cup {NoRun}, ev : Event]

(* The workflow of r, in W, has decided how it ends.                       *)
Decided(W, r) == W[r].pc \in {"ending", "closed"}

(* A run record, an event and a log that claim no end but W's own.         *)
TrueMeta(W, r, m) ==
    /\ m \in MetaOrNone
    /\ m # NoRun /\ IsTerminal(m) => Decided(W, r) /\ m.status = W[r].status
TrueEvent(W, r, e) ==
    /\ e \in Event
    /\ IF e.type = "terminal" THEN r \in Runs /\ Decided(W, r) /\ e.status = W[r].status
       ELSE e.status = "running"
TrueLog(W, r, l) ==
    /\ l \in Seq(LogEntry)
    /\ \A i \in DOMAIN l : l[i].type = "terminal" => Decided(W, r) /\ l[i].status = W[r].status

(* What the activities, readers and cancellers hold between two steps.     *)
TrueRecord(W, v) ==
    /\ v \in RecordType
    /\ v.pc # "idle" => v.run \in Runs
    /\ TrueEvent(W, v.run, v.ev)
    /\ v.meta # NoRun => v.run \in Runs /\ TrueMeta(W, v.run, v.meta)
    /\ v.pc = "store" /\ v.ev.type = "terminal" => v.meta # NoRun
TrueReader(W, v) ==
    /\ v \in ReaderType
    /\ v.pc # "idle" => v.run \in Runs
    /\ v.pc \in {"build", "lock", "compose", "publish"} => W[v.run].pc = "closed"
    /\ TrueEvent(W, v.run, v.ev)
ActiveCancel(v) ==
    /\ v \in CancelType
    /\ v.pc \notin {"idle", "over"} => v.run \in Runs
    /\ v.pc \in {"store", "restore"} => v.meta # NoRun /\ ~IsTerminal(v.meta)

(* A workflow of a session s: the record its gate loaded is active, and it *)
(* has planned late at most once, and not for an active session.           *)
GoodWorkflow(s, w) ==
    /\ w \in WorkflowType
    /\ w.pc = "gatestore" => w.meta # NoRun /\ ~IsTerminal(w.meta)
    /\ w.late = 0 \/ (w.late = 1 /\ s # "active" /\ w.pc # "plan")

Stores(W, s) == s \in [Runs -> MetaOrNone] /\ \A r \in Runs : TrueMeta(W, r, s[r])
Logs(W, l) == l \in [Runs -> Seq(LogEntry)] /\ \A r \in Runs : TrueLog(W, r, l[r])
Records(W, v) == v \in [Recorders -> RecordType] /\ \A x \in Recorders : TrueRecord(W, v[x])
ReadersTrue(W, v) == v \in [Readers -> ReaderType] /\ \A p \in Readers : TrueReader(W, v[p])
Cancels(v) == v \in [Cancelers -> CancelType] /\ \A c \in Cancelers : ActiveCancel(v[c])
Workflows(s, W) == W \in [Runs -> WorkflowType] /\ \A r \in Runs : GoodWorkflow(s, W[r])
Starts(W, s) ==
    /\ s \in [Runs -> {"idle", "checked", "pended", "returned"}]
    /\ \A r \in Runs : s[r] # "returned" => W[r].pc = "none"

Rest ==
    /\ sess \in {"none", "active", "ended"}
    /\ delete \in [pc : {"idle", "list", "cancel"}, todo : SUBSET Runs]
    /\ purge \in {"idle", "list", "purge"}
    /\ lock \in [Processes -> Readers \cup {NoReader}]
    /\ faults \in 0..MaxFaults

IInv ==
    /\ Rest
    /\ Stores(wf, runs)
    /\ Logs(wf, log)
    /\ Records(wf, rec)
    /\ ReadersTrue(wf, reader)
    /\ Cancels(cancel)
    /\ Workflows(sess, wf)
    /\ Starts(wf, start)

(* From W to V no workflow that has decided changes its mind or reopens.   *)
Advances(W, V) ==
    \A r \in Runs :
        /\ Decided(W, r) => Decided(V, r) /\ V[r].status = W[r].status
        /\ W[r].pc = "closed" => V[r].pc = "closed"

-----------------------------------------------------------------------------
(* What is true stays true while workflows advance.                        *)

(* A run record that was true stays true.                                  *)
LEMMA MetaStable ==
  ASSUME NEW W, NEW V, Advances(W, V), NEW r \in Runs, NEW m, TrueMeta(W, r, m)
  PROVE  TrueMeta(V, r, m)
  BY DEF Advances, TrueMeta

(* An event that was true stays true.                                      *)
LEMMA EventStable ==
  ASSUME NEW W, NEW V, Advances(W, V), NEW r, NEW e, TrueEvent(W, r, e)
  PROVE  TrueEvent(V, r, e)
  BY DEF Advances, TrueEvent

(* So does the whole store ...                                             *)
LEMMA StoresStable ==
  ASSUME NEW W, NEW V, Advances(W, V), NEW s, Stores(W, s)
  PROVE  Stores(V, s)
  BY MetaStable DEF Stores

(* ... every log ...                                                       *)
LEMMA LogsStable ==
  ASSUME NEW W, NEW V, Advances(W, V), NEW l, Logs(W, l)
  PROVE  Logs(V, l)
<1>1. ASSUME NEW r \in Runs PROVE TrueLog(V, r, l[r])
  BY DEF Advances, TrueLog, Logs
<1> QED BY <1>1 DEF Logs

(* ... every record activity ...                                           *)
LEMMA RecordStable ==
  ASSUME NEW W, NEW V, Advances(W, V), NEW v, TrueRecord(W, v)
  PROVE  TrueRecord(V, v)
  BY MetaStable, EventStable DEF TrueRecord

(* Together, all the record activities.                                    *)
LEMMA RecordsStable ==
  ASSUME NEW W, NEW V, Advances(W, V), NEW v, Records(W, v)
  PROVE  Records(V, v)
  BY RecordStable DEF Records

(* ... and every reader's repair.                                          *)
LEMMA ReaderStable ==
  ASSUME NEW W, NEW V, Advances(W, V), NEW v, TrueReader(W, v)
  PROVE  TrueReader(V, v)
<1>1. TrueEvent(V, v.run, v.ev)
  BY EventStable DEF TrueReader
<1> QED BY <1>1 DEF TrueReader, Advances

(* Together, all the readers.                                              *)
LEMMA ReadersStable ==
  ASSUME NEW W, NEW V, Advances(W, V), NEW v, ReadersTrue(W, v)
  PROVE  ReadersTrue(V, v)
  BY ReaderStable DEF ReadersTrue

(* Writing a true run record keeps the store true.                         *)
LEMMA StoresWrite ==
  ASSUME NEW W, NEW s, Stores(W, s), NEW r \in Runs, NEW m, TrueMeta(W, r, m)
  PROVE  Stores(W, [s EXCEPT ![r] = m])
  BY DEF Stores, TrueMeta

(* A record activity that moves to a true state.                           *)
LEMMA RecordsWrite ==
  ASSUME NEW W, NEW v, Records(W, v), NEW x \in Recorders, NEW d, TrueRecord(W, d)
  PROVE  Records(W, [v EXCEPT ![x] = d])
  BY DEF Records, TrueRecord

(* A reader that moves to a true state.                                    *)
LEMMA ReadersWrite ==
  ASSUME NEW W, NEW v, ReadersTrue(W, v), NEW p \in Readers, NEW d, TrueReader(W, d)
  PROVE  ReadersTrue(W, [v EXCEPT ![p] = d])
  BY DEF ReadersTrue, TrueReader

(* A cancellation that moves and still holds an active record.             *)
LEMMA CancelsWrite ==
  ASSUME NEW v, Cancels(v), NEW c \in Cancelers, NEW d, ActiveCancel(d)
  PROVE  Cancels([v EXCEPT ![c] = d])
  BY DEF Cancels, ActiveCancel

(* Moving one workflow that has not decided, or closing one that has,      *)
(* advances the workflows.                                                 *)
LEMMA WorkflowMoves ==
  ASSUME NEW s, NEW W, Workflows(s, W), NEW r \in Runs, NEW w, GoodWorkflow(s, w),
         Decided(W, r) => w.pc \in {"ending", "closed"} /\ w.status = W[r].status,
         W[r].pc = "closed" => w.pc = "closed"
  PROVE  Workflows(s, [W EXCEPT ![r] = w]) /\ Advances(W, [W EXCEPT ![r] = w])
<1>1. W \in [Runs -> WorkflowType] /\ w \in WorkflowType
  BY DEF Workflows, GoodWorkflow
<1> DEFINE V == [W EXCEPT ![r] = w]
<1>2. V \in [Runs -> WorkflowType] /\ V[r] = w /\ \A q \in Runs \ {r} : V[q] = W[q]
  BY <1>1
<1> HIDE DEF V
<1>3. Workflows(s, V)
  BY <1>2 DEF Workflows
<1>4. Advances(W, V)
  BY <1>2 DEF Advances, Decided
<1> QED BY <1>3, <1>4 DEF V

(* A workflow that moves has its start behind it.                          *)
LEMMA StartsMove ==
  ASSUME NEW W, NEW s, Starts(W, s), W \in [Runs -> WorkflowType], NEW r \in Runs, NEW w,
         W[r].pc # "none"
  PROVE  Starts([W EXCEPT ![r] = w], s)
  BY DEF Starts

(* Appending a true event to a log, or not appending it again.             *)
LEMMA LogsWrite ==
  ASSUME NEW W, NEW l, Logs(W, l), NEW r \in Runs, NEW x \in Recorders, NEW e, TrueEvent(W, r, e)
  PROVE  Logs(W, [l EXCEPT ![r] = Appended(@, x, e)])
<1>1. l[r] \in Seq(LogEntry) /\ TrueLog(W, r, l[r])
  BY DEF Logs
<1>2. TrueLog(W, r, Appended(l[r], x, e))
  <2>1. CASE Appended(l[r], x, e) = l[r]
    BY <1>1, <2>1
  <2>2. CASE Appended(l[r], x, e) # l[r]
    <3> DEFINE n == [by |-> x, type |-> e.type, status |-> e.status, reason |-> e.reason]
    <3>1. Appended(l[r], x, e) = Append(l[r], n) /\ e.type # "prompt"
      BY <2>2 DEF Appended
    <3>2. e.type \in {"started", "terminal"} /\ e.status \in {"running"} \cup Closing /\ e.reason \in Reasons
      BY <3>1 DEF TrueEvent, Event
    <3>3. n \in LogEntry /\ n.type = e.type /\ n.status = e.status
      BY <3>2 DEF LogEntry
    <3> HIDE DEF n
    <3>4. Append(l[r], n) \in Seq(LogEntry)
      BY <1>1, <3>3
    <3>5. ASSUME NEW i \in DOMAIN Append(l[r], n), Append(l[r], n)[i].type = "terminal"
          PROVE  Decided(W, r) /\ Append(l[r], n)[i].status = W[r].status
      <4>1. CASE i = Len(l[r]) + 1
        <5>1. Append(l[r], n)[i] = n
          BY <1>1, <4>1
        <5> QED BY <3>3, <3>5, <5>1 DEF TrueEvent
      <4>2. CASE i # Len(l[r]) + 1
        <5>1. i \in DOMAIN l[r] /\ Append(l[r], n)[i] = l[r][i]
          BY <1>1, <3>3, <3>4, <4>2
        <5> QED BY <1>1, <3>5, <5>1 DEF TrueLog
      <4> QED BY <4>1, <4>2
    <3> QED BY <3>1, <3>4, <3>5 DEF TrueLog
  <2> QED BY <2>1, <2>2
<1> QED BY <1>1, <1>2 DEF Logs, TrueLog

-----------------------------------------------------------------------------
(* The initial state, and the steps that move no copy.                     *)

(* The inductive invariant holds initially.                                *)
LEMMA InitInv == Init => IInv
<1> SUFFICES ASSUME Init PROVE IInv
  OBVIOUS
<1>1. NewWorkflow \in WorkflowType /\ NewWorkflow.pc = "none" /\ NewWorkflow.late = 0
  BY DEF NewWorkflow, WorkflowType, MetaOrNone
<1>2. StartedEvent \in Event /\ StartedEvent.type = "started" /\ StartedEvent.status = "running"
  BY DEF StartedEvent, Event, Reasons, NoReason
<1>3. Workflows(sess, wf) /\ Starts(wf, start)
  BY <1>1 DEF Init, Workflows, GoodWorkflow, Starts
<1>4. Stores(wf, runs) /\ Logs(wf, log)
  <2>1. << >> \in Seq(LogEntry) /\ DOMAIN << >> = {}
    OBVIOUS
  <2> QED BY <2>1 DEF Init, Stores, TrueMeta, MetaOrNone, Logs, TrueLog
<1>5. Records(wf, rec)
  <2>1. ASSUME NEW x \in Recorders PROVE TrueRecord(wf, Idle(x))
    BY <1>2 DEF Idle, TrueRecord, TrueEvent, RecordType, MetaOrNone
  <2> QED BY <2>1 DEF Init, Records, TrueRecord
<1>6. ReadersTrue(wf, reader)
  BY <1>2 DEF Init, NoRepair, ReadersTrue, TrueReader, TrueEvent, ReaderType
<1>7. Cancels(cancel)
  BY DEF Init, NoCancel, Cancels, ActiveCancel, CancelType, MetaOrNone
<1>8. Rest
  BY ConstantsAssumption DEF Init, Rest
<1> QED BY <1>3, <1>4, <1>5, <1>6, <1>7, <1>8 DEF IInv

(* CreateSession, DeleteSession and PurgeSession.                          *)
LEMMA SessionInv ==
  ASSUME IInv,
         \/ CreateSession \/ EndSession \/ ListSessionRuns \/ DeleteReturns
         \/ PurgeLoad \/ PurgeList \/ PurgeDelete
  PROVE  IInv'
<1>1. CASE CreateSession
  <2>1. wf \in [Runs -> WorkflowType] /\ \A r \in Runs : GoodWorkflow(sess, wf[r])
    BY DEF IInv, Workflows
  <2>2. ASSUME NEW r \in Runs
        PROVE  /\ wf'[r] = [wf[r] EXCEPT !.late = 0]
               /\ wf'[r] \in WorkflowType /\ wf'[r].late = 0 /\ wf'[r].pc = wf[r].pc
               /\ wf'[r].status = wf[r].status /\ wf'[r].meta = wf[r].meta
    BY <1>1, <2>1 DEF CreateSession, WorkflowType
  <2>3. wf' \in [Runs -> WorkflowType]
    BY <1>1, <2>2 DEF CreateSession
  <2>4. \A r \in Runs : GoodWorkflow(sess', wf'[r])
    BY <2>1, <2>2 DEF GoodWorkflow
  <2>5. Advances(wf, wf')
    BY <2>2 DEF Advances, Decided
  <2>6. Starts(wf', start)
    BY <2>2 DEF IInv, Starts
  <2>7. Workflows(sess', wf')
    BY <2>3, <2>4 DEF Workflows
  <2> QED BY <1>1, <2>5, <2>6, <2>7, StoresStable, LogsStable, RecordsStable, ReadersStable
          DEF CreateSession, IInv, Rest
<1>2. CASE EndSession
  <2>1. Workflows("ended", wf)
    BY DEF IInv, Workflows, GoodWorkflow
  <2> QED BY <1>2, <2>1 DEF EndSession, IInv, Rest
<1>3. CASE ListSessionRuns
  BY <1>3 DEF ListSessionRuns, Listed, IInv, Rest
<1>4. CASE DeleteReturns
  BY <1>4 DEF DeleteReturns, IInv, Rest
<1>5. CASE PurgeLoad
  BY <1>5 DEF PurgeLoad, IInv, Rest
<1>6. CASE PurgeList
  BY <1>6 DEF PurgeList, IInv, Rest
<1>7. CASE PurgeDelete
  <2>1. Workflows("none", wf)
    BY DEF IInv, Workflows, GoodWorkflow
  <2>2. Stores(wf, [r \in Runs |-> NoRun])
    BY DEF Stores, TrueMeta, MetaOrNone
  <2> QED BY <1>7, <2>1, <2>2 DEF PurgeDelete, IInv, Rest
<1> QED BY <1>1, <1>2, <1>3, <1>4, <1>5, <1>6, <1>7

(* A fresh record is active: it claims no end.                             *)
LEMMA FreshMeta ==
  ASSUME NEW W, NEW r, NEW status \in Active
  PROVE  Meta(status) \in RunMeta /\ Meta(status).status = status /\ TrueMeta(W, r, Meta(status))
<1>1. Meta(status) \in RunMeta /\ Meta(status).status = status
  BY DEF Meta, RunMeta, Reasons, NoReason
<1>2. status \notin Closing
  BY DEF Active, Closing
<1> QED BY <1>1, <1>2 DEF TrueMeta, MetaOrNone, IsTerminal

(* startRunOn: the workflow it starts did not exist before.                *)
LEMMA StartInv ==
  ASSUME IInv, NEW r \in Runs, StartStep(r)
  PROVE  IInv'
<1>0. start \in [Runs -> {"idle", "checked", "pended", "returned"}] /\ wf \in [Runs -> WorkflowType]
  BY DEF IInv, Starts, Workflows
<1>1. CASE StartCheck(r)
  <2>1. Starts(wf, start')
    BY <1>0, <1>1 DEF StartCheck, IInv, Starts
  <2> QED BY <1>1, <2>1 DEF StartCheck, IInv, Rest
<1>2. CASE StartPending(r)
  <2>1. Starts(wf, start')
    BY <1>0, <1>2 DEF StartPending, IInv, Starts
  <2>2. "pending" \in Active
    BY DEF Active
  <2>3. Stores(wf, runs')
    BY <1>2, <2>2, FreshMeta, StoresWrite DEF StartPending, IInv
  <2> QED BY <1>2, <2>1, <2>3 DEF StartPending, IInv, Rest
<1>3. CASE StartWorkflow(r) /\ wf' = wf
  <2>1. Starts(wf, start')
    BY <1>0, <1>3 DEF StartWorkflow, IInv, Starts
  <2>2. faults' \in 0..MaxFaults
    BY <1>3, ConstantsAssumption DEF StartWorkflow, IInv, Rest
  <2> QED BY <1>3, <2>1, <2>2 DEF StartWorkflow, IInv, Rest
<1>4. CASE StartWorkflow(r) /\ wf' = [wf EXCEPT ![r].pc = "begin"] /\ faults' = faults
  <2> DEFINE w == [wf[r] EXCEPT !.pc = "begin"]
  <2>1. wf[r].pc = "none" /\ GoodWorkflow(sess, wf[r]) /\ wf[r] \in WorkflowType
    BY <1>0, <1>4 DEF StartWorkflow, IInv, Starts, Workflows
  <2>2. w \in WorkflowType /\ w.pc = "begin" /\ w.late = wf[r].late
    BY <2>1 DEF WorkflowType
  <2>3. GoodWorkflow(sess, w)
    BY <2>1, <2>2 DEF GoodWorkflow
  <2>4. wf' = [wf EXCEPT ![r] = w]
    BY <1>0, <1>4
  <2>5. Workflows(sess, wf') /\ Advances(wf, wf')
    BY <2>1, <2>3, <2>4, WorkflowMoves DEF IInv, Decided
  <2>6. Starts(wf', start')
    BY <1>0, <1>4 DEF StartWorkflow, IInv, Starts
  <2> QED BY <1>4, <2>5, <2>6, StoresStable, LogsStable, RecordsStable, ReadersStable
          DEF StartWorkflow, IInv, Rest
<1> QED BY <1>1, <1>2, <1>3, <1>4 DEF StartStep, StartWorkflow

-----------------------------------------------------------------------------
(* recordActivity: what it appends, loads and writes back.                 *)

(* The record it writes is true when the one it loaded was.                *)
LEMMA UpdatedTrue ==
  ASSUME NEW W, NEW r \in Runs, NEW m, TrueMeta(W, r, m), NEW e, TrueEvent(W, r, e),
         e.type = "terminal" => m # NoRun
  PROVE  TrueMeta(W, r, UpdatedMeta(m, e))
<1>1. e.type \in {"started", "prompt", "terminal"} /\ e.status \in {"running"} \cup Closing
  BY DEF TrueEvent, Event
<1>2. "running" \in Active /\ "running" \notin Closing
  BY DEF Active, Closing
<1>3. m # NoRun => m \in RunMeta
  BY DEF TrueMeta, MetaOrNone
<1>4. CASE e.type = "started" /\ m # NoRun
  <2> DEFINE n == [m EXCEPT !.status = "running"]
  <2>1. UpdatedMeta(m, e) = n
    BY <1>4 DEF UpdatedMeta
  <2>2. n \in RunMeta /\ n.status = "running"
    BY <1>2, <1>3, <1>4 DEF RunMeta
  <2> QED BY <1>2, <2>1, <2>2 DEF TrueMeta, MetaOrNone, IsTerminal
<1>5. CASE e.type = "started" /\ m = NoRun
  BY <1>2, <1>5, FreshMeta DEF UpdatedMeta
<1>6. CASE e.type = "prompt"
  <2> DEFINE b == IF m = NoRun THEN Meta("running") ELSE m
             n == [b EXCEPT !.prompts = TRUE]
  <2>1. UpdatedMeta(m, e) = n
    BY <1>6 DEF UpdatedMeta
  <2>2. b \in RunMeta
    BY <1>2, <1>3, FreshMeta
  <2>3. TrueMeta(W, r, b)
    BY <1>2, FreshMeta
  <2> HIDE DEF b
  <2>4. n \in RunMeta /\ n.status = b.status
    BY <2>2 DEF RunMeta
  <2>5. b # NoRun => (IsTerminal(b) => Decided(W, r) /\ b.status = W[r].status)
    BY <2>3 DEF TrueMeta
  <2>6. b = NoRun => (IsTerminal(b) => Decided(W, r) /\ b.status = W[r].status)
    BY <1>2, FreshMeta DEF b, IsTerminal
  <2> QED BY <2>1, <2>4, <2>5, <2>6 DEF TrueMeta, MetaOrNone, IsTerminal
<1>7. CASE e.type = "terminal"
  <2> DEFINE n == [m EXCEPT !.status = e.status]
  <2>1. UpdatedMeta(m, e) = n
    BY <1>7 DEF UpdatedMeta
  <2>2. n \in RunMeta /\ n.status = e.status
    BY <1>1, <1>3, <1>7 DEF RunMeta, Active
  <2> QED BY <1>7, <2>1, <2>2 DEF TrueMeta, MetaOrNone, IsTerminal, TrueEvent
<1> QED BY <1>1, <1>4, <1>5, <1>6, <1>7

(* So is the record of the bus subscriber.                                 *)
LEMMA SubscriberTrue ==
  ASSUME NEW W, NEW r \in Runs, NEW e, TrueEvent(W, r, e)
  PROVE  TrueMeta(W, r, SubscriberMeta(e))
<1>1. e.type \in {"started", "prompt", "terminal"} /\ e.status \in {"running"} \cup Closing
      /\ e.reason \in Reasons
  BY DEF TrueEvent, Event
<1>2. SubscriberMeta(e) \in RunMeta /\ SubscriberMeta(e).status = e.status
  BY <1>1 DEF SubscriberMeta, Meta, RunMeta, Active
<1>3. "running" \notin Closing
  BY DEF Closing
<1> QED BY <1>1, <1>2, <1>3 DEF TrueMeta, MetaOrNone, IsTerminal, TrueEvent

(* Moving the program counter of a record activity that is under way.      *)
LEMMA RecordMoves ==
  ASSUME NEW W, NEW v, TrueRecord(W, v), v.pc # "idle",
         NEW pc \in {"append", "load", "stream", "bus", "done", "failed"}
  PROVE  TrueRecord(W, [v EXCEPT !.pc = pc])
<1> DEFINE n == [v EXCEPT !.pc = pc]
<1>1. n \in RecordType /\ n.pc = pc /\ n.run = v.run /\ n.ev = v.ev /\ n.meta = v.meta
  BY DEF TrueRecord, RecordType
<1> HIDE DEF n
<1>2. TrueRecord(W, n)
  BY <1>1 DEF TrueRecord
<1> QED BY <1>2 DEF n

(* The same, within all the record activities.                             *)
LEMMA RecordsMove ==
  ASSUME NEW W, NEW v, Records(W, v), NEW x \in Recorders, v[x].pc # "idle",
         NEW pc \in {"append", "load", "stream", "bus", "done", "failed"}
  PROVE  Records(W, [v EXCEPT ![x] = [v[x] EXCEPT !.pc = pc]])
<1>1. TrueRecord(W, v[x])
  BY DEF Records
<1>2. TrueRecord(W, [v[x] EXCEPT !.pc = pc])
  BY <1>1, RecordMoves
<1> QED BY <1>2, RecordsWrite

(* Every step of a record activity keeps the invariant, failures included. *)
LEMMA RecordInv ==
  ASSUME IInv, NEW x \in Recorders, RecordStep(x) \/ RecordFail(x)
  PROVE  IInv'
<1> DEFINE v == rec[x]
<1>0. TrueRecord(wf, v) /\ v \in RecordType /\ rec \in [Recorders -> RecordType]
  BY DEF IInv, Records
<1>m. ASSUME v.pc # "idle", NEW pc \in {"append", "load", "stream", "bus", "done", "failed"},
             rec' = [rec EXCEPT ![x] = [v EXCEPT !.pc = pc]]
      PROVE  Records(wf, rec')
  <2>1. Records(wf, rec)
    BY DEF IInv
  <2>2. Records(wf, [rec EXCEPT ![x] = [rec[x] EXCEPT !.pc = pc]])
    BY <1>m, <2>1, RecordsMove
  <2> QED BY <1>m, <2>2
<1>1. CASE RecordAppend(x)
  <2>1. v.run \in Runs /\ TrueEvent(wf, v.run, v.ev)
    BY <1>0, <1>1 DEF RecordAppend, TrueRecord
  <2>2. Logs(wf, log')
    BY <1>1, <2>1, LogsWrite DEF RecordAppend, IInv
  <2>3. rec' = [rec EXCEPT ![x] = [v EXCEPT !.pc = "load"]]
    BY <1>0, <1>1 DEF RecordAppend
  <2>4. Records(wf, rec')
    BY <1>1, <1>m, <2>3 DEF RecordAppend
  <2> QED BY <1>1, <2>2, <2>4 DEF RecordAppend, IInv, Rest
<1>2. CASE RecordLoad(x)
  <2> DEFINE m == runs[v.run]
             d == [v EXCEPT !.meta = m, !.pc = IF m = NoRun /\ v.ev.type = "terminal" THEN "failed" ELSE "store"]
  <2>1. v.run \in Runs /\ v.pc = "load"
    BY <1>0, <1>2 DEF RecordLoad, TrueRecord
  <2>2. TrueMeta(wf, v.run, m) /\ m \in MetaOrNone
    BY <2>1 DEF IInv, Stores
  <2>3. rec' = [rec EXCEPT ![x] = d]
    BY <1>0, <1>2 DEF RecordLoad
  <2> HIDE DEF m
  <2>4. /\ d \in RecordType /\ d.run = v.run /\ d.ev = v.ev /\ d.meta = m
        /\ d.pc = "store" => ~(m = NoRun /\ v.ev.type = "terminal")
    BY <1>0, <2>2 DEF RecordType
  <2> HIDE DEF d
  <2>5. TrueRecord(wf, d)
    BY <1>0, <2>1, <2>2, <2>4 DEF TrueRecord
  <2>6. Records(wf, rec')
    BY <2>3, <2>5, RecordsWrite DEF IInv
  <2> QED BY <1>2, <2>6 DEF RecordLoad, IInv, Rest
<1>3. CASE RecordStore(x)
  <2> DEFINE d == [v EXCEPT !.pc = "stream", !.meta = NoRun]
  <2>1. v.run \in Runs /\ v.pc = "store" /\ TrueEvent(wf, v.run, v.ev)
    BY <1>0, <1>3 DEF RecordStore, TrueRecord
  <2>2. TrueMeta(wf, v.run, v.meta) /\ (v.ev.type = "terminal" => v.meta # NoRun)
    BY <1>0, <2>1 DEF TrueRecord, TrueMeta, MetaOrNone
  <2>3. Stores(wf, runs')
    BY <1>3, <2>1, <2>2, UpdatedTrue, StoresWrite DEF RecordStore, IInv
  <2>4. rec' = [rec EXCEPT ![x] = d]
    BY <1>0, <1>3 DEF RecordStore
  <2>5. d \in RecordType /\ d.run = v.run /\ d.ev = v.ev /\ d.meta = NoRun /\ d.pc = "stream"
    BY <1>0 DEF RecordType, MetaOrNone
  <2> HIDE DEF d
  <2>6. TrueRecord(wf, d)
    BY <2>1, <2>5 DEF TrueRecord
  <2>7. Records(wf, rec')
    BY <2>4, <2>6, RecordsWrite DEF IInv
  <2> QED BY <1>3, <2>3, <2>7 DEF RecordStore, IInv, Rest
<1>4. CASE RecordStream(x)
  <2>1. PICK pc \in {"failed", "bus"} : rec' = [rec EXCEPT ![x] = [v EXCEPT !.pc = pc]]
    BY <1>0, <1>4 DEF RecordStream
  <2>2. Records(wf, rec')
    BY <1>4, <1>m, <2>1 DEF RecordStream
  <2> QED BY <1>4, <2>2 DEF RecordStream, IInv, Rest
<1>5. CASE RecordBus(x)
  <2>1. v.run \in Runs /\ TrueEvent(wf, v.run, v.ev)
    BY <1>0, <1>5 DEF RecordBus, TrueRecord
  <2>2. Stores(wf, runs')
    BY <1>5, <2>1, SubscriberTrue, StoresWrite DEF RecordBus, IInv
  <2>3. rec' = [rec EXCEPT ![x] = [v EXCEPT !.pc = "done"]]
    BY <1>0, <1>5 DEF RecordBus
  <2>4. Records(wf, rec')
    BY <1>5, <1>m, <2>3 DEF RecordBus
  <2> QED BY <1>5, <2>2, <2>4 DEF RecordBus, IInv, Rest
<1>6. CASE RecordFail(x)
  <2>1. PICK pc \in {"failed", "append", "done"} : rec' = [rec EXCEPT ![x] = [v EXCEPT !.pc = pc]]
    BY <1>0, <1>6 DEF RecordFail
  <2>2. v.pc # "idle"
    BY <1>6 DEF RecordFail
  <2>3. Records(wf, rec')
    BY <1>m, <2>1, <2>2
  <2>4. faults' \in 0..MaxFaults
    BY <1>6, ConstantsAssumption DEF RecordFail, IInv, Rest
  <2> QED BY <1>6, <2>3, <2>4 DEF RecordFail, IInv, Rest
<1> QED BY <1>1, <1>2, <1>3, <1>4, <1>5, <1>6 DEF RecordStep

-----------------------------------------------------------------------------
(* ExecuteWorkflow and the engine's cancellation.                          *)

(* A record activity that is not under way, and one that begins.           *)
LEMMA IdleTrue ==
  ASSUME NEW W, NEW x \in Recorders
  PROVE  TrueRecord(W, Idle(x))
<1>1. StartedEvent \in Event /\ StartedEvent.type = "started" /\ StartedEvent.status = "running"
  BY DEF StartedEvent, Event, Reasons, NoReason
<1> QED BY <1>1 DEF Idle, TrueRecord, TrueEvent, RecordType, MetaOrNone

(* A record activity begins with a true event.                             *)
LEMMA RecordBegins ==
  ASSUME NEW W, NEW r \in Runs, NEW e, TrueEvent(W, r, e)
  PROVE  TrueRecord(W, Record(r, e))
<1>1. e \in Event
  BY DEF TrueEvent
<1>2. Record(r, e) \in RecordType
  BY <1>1 DEF Record, RecordType, MetaOrNone
<1> QED BY <1>2 DEF Record, TrueRecord

(* The terminal event of a workflow that has decided is true.              *)
LEMMA TerminalTrue ==
  ASSUME NEW W, W \in [Runs -> WorkflowType], NEW r \in Runs, Decided(W, r), NEW m \in MetaOrNone
  PROVE  TrueEvent(W, r, TerminalEvent(W[r].status, m))
<1> DEFINE e == TerminalEvent(W[r].status, m)
<1>1. W[r].status \in {"running"} \cup Closing
  BY DEF WorkflowType
<1>2. m # NoRun => m.reason \in Reasons
  BY DEF MetaOrNone, RunMeta
<1>3. e \in Event /\ e.type = "terminal" /\ e.status = W[r].status
  BY <1>1, <1>2 DEF TerminalEvent, Event, Reasons, NoReason
<1> QED BY <1>3 DEF TrueEvent

(* A workflow that goes on, or concludes, without planning.                *)
LEMMA PcMoves ==
  ASSUME NEW s, NEW w, GoodWorkflow(s, w), NEW status \in {"running"} \cup Closing,
         NEW pc \in {"begin", "started", "gate", "gateload", "decide", "final", "ending", "closed"}
  PROVE  /\ GoodWorkflow(s, [w EXCEPT !.pc = pc])
         /\ GoodWorkflow(s, [w EXCEPT !.pc = pc, !.status = status])
         /\ GoodWorkflow(s, [w EXCEPT !.pc = pc, !.status = status, !.meta = NoRun])
         /\ GoodWorkflow(s, [w EXCEPT !.pc = pc, !.status = status, !.refused = TRUE, !.meta = NoRun])
<1>1. w \in WorkflowType /\ NoRun \in MetaOrNone
  BY DEF GoodWorkflow, MetaOrNone
<1> DEFINE a == [w EXCEPT !.pc = pc]
           b == [w EXCEPT !.pc = pc, !.status = status]
           c == [w EXCEPT !.pc = pc, !.status = status, !.meta = NoRun]
           d == [w EXCEPT !.pc = pc, !.status = status, !.refused = TRUE, !.meta = NoRun]
<1>2. a \in WorkflowType /\ a.pc = pc /\ a.late = w.late
  BY <1>1 DEF WorkflowType
<1>3. b \in WorkflowType /\ b.pc = pc /\ b.late = w.late
  BY <1>1 DEF WorkflowType
<1>4. c \in WorkflowType /\ c.pc = pc /\ c.late = w.late
  BY <1>1 DEF WorkflowType
<1>5. d \in WorkflowType /\ d.pc = pc /\ d.late = w.late
  BY <1>1 DEF WorkflowType
<1>6. ASSUME NEW v \in WorkflowType, v.pc = pc, v.late = w.late PROVE GoodWorkflow(s, v)
  BY <1>6 DEF GoodWorkflow
<1> HIDE DEF a, b, c, d
<1>7. GoodWorkflow(s, a) /\ GoodWorkflow(s, b) /\ GoodWorkflow(s, c) /\ GoodWorkflow(s, d)
  BY <1>2, <1>3, <1>4, <1>5, <1>6
<1> QED BY <1>7 DEF a, b, c, d

(* A step that moves one workflow, and perhaps its record activity and a   *)
(* true run record, keeps the invariant.                                   *)
LEMMA OneWorkflow ==
  ASSUME IInv, NEW r \in Runs, NEW w, GoodWorkflow(sess, w), wf[r].pc # "none",
         Decided(wf, r) => w.pc \in {"ending", "closed"} /\ w.status = wf[r].status,
         wf[r].pc = "closed" => w.pc = "closed",
         wf' = [wf EXCEPT ![r] = w],
         Stores(wf, runs'),
         rec' = rec \/ (\E d : rec' = [rec EXCEPT ![r] = d] /\ TrueRecord([wf EXCEPT ![r] = w], d)),
         UNCHANGED <<sess, log, start, cancel, delete, purge, reader, lock, faults>>
  PROVE  IInv'
<1>1. Workflows(sess, wf') /\ Advances(wf, wf')
  BY WorkflowMoves DEF IInv
<1>2. Starts(wf', start)
  BY StartsMove DEF IInv, Workflows
<1>3. Records(wf', rec)
  BY <1>1, RecordsStable DEF IInv
<1>4. Records(wf', rec')
  <2>1. CASE rec' = rec
    BY <1>3, <2>1
  <2>2. CASE \E d : rec' = [rec EXCEPT ![r] = d] /\ TrueRecord([wf EXCEPT ![r] = w], d)
    <3>1. PICK d : rec' = [rec EXCEPT ![r] = d] /\ TrueRecord(wf', d)
      BY <2>2
    <3>2. r \in Recorders
      BY DEF Recorders
    <3> QED BY <1>3, <3>1, <3>2, RecordsWrite
  <2> QED BY <2>1, <2>2
<1>5. Stores(wf', runs') /\ Logs(wf', log) /\ ReadersTrue(wf', reader)
  BY <1>1, StoresStable, LogsStable, ReadersStable DEF IInv
<1> QED BY <1>1, <1>2, <1>4, <1>5 DEF IInv, Rest

(* A loaded record that is active stays so when its reason is written.     *)
LEMMA ReasonTrue ==
  ASSUME NEW W, NEW r, NEW m \in MetaOrNone, m # NoRun, ~IsTerminal(m), NEW why \in Reasons
  PROVE  TrueMeta(W, r, [m EXCEPT !.reason = why])
<1> DEFINE n == [m EXCEPT !.reason = why]
<1>1. n \in RunMeta /\ n.status = m.status
  BY DEF MetaOrNone, RunMeta
<1> QED BY <1>1 DEF TrueMeta, MetaOrNone, IsTerminal

(* Every step of a workflow keeps the invariant.                           *)
LEMMA WorkflowInv ==
  ASSUME IInv, NEW r \in Runs, WorkflowStep(r)
  PROVE  IInv'
<1>0. /\ wf \in [Runs -> WorkflowType] /\ wf[r] \in WorkflowType /\ GoodWorkflow(sess, wf[r])
      /\ Stores(wf, runs) /\ runs[r] \in MetaOrNone
      /\ rec \in [Recorders -> RecordType]
  BY DEF IInv, Workflows, Stores, Records
<1>i. ASSUME NEW W PROVE TrueRecord(W, Idle(r))
  BY IdleTrue DEF Recorders
<1>e. ASSUME NEW W, NEW e \in {StartedEvent, PromptEvent} PROVE TrueRecord(W, Record(r, e))
  <2>1. TrueEvent(W, r, e)
    BY DEF StartedEvent, PromptEvent, TrueEvent, Event, Reasons, NoReason
  <2> QED BY <2>1, RecordBegins
<1>s. "running" \in {"running"} \cup Closing /\ "failed" \in {"running"} \cup Closing /\ "canceled" \in {"running"} \cup Closing
  BY DEF Closing
<1>1. CASE WorkflowBegin(r)
  <2>1. wf' = [wf EXCEPT ![r] = [wf[r] EXCEPT !.pc = "started"]]
    BY <1>0, <1>1 DEF WorkflowBegin
  <2>2. GoodWorkflow(sess, [wf[r] EXCEPT !.pc = "started"])
    BY <1>0, <1>s, PcMoves
  <2>3. TrueRecord(wf', Record(r, StartedEvent))
    BY <1>e
  <2>4. wf[r].pc = "begin" /\ ~Decided(wf, r)
    BY <1>1 DEF WorkflowBegin, Decided
  <2>5. rec' = [rec EXCEPT ![r] = Record(r, StartedEvent)] /\ runs' = runs
        /\ UNCHANGED <<sess, log, start, cancel, delete, purge, reader, lock, faults>>
    BY <1>1 DEF WorkflowBegin
  <2> DEFINE w == [wf[r] EXCEPT !.pc = "started"]
  <2> HIDE DEF w
  <2>6. wf' = [wf EXCEPT ![r] = w] /\ GoodWorkflow(sess, w)
    BY <2>1, <2>2 DEF w
  <2>7. \E d : rec' = [rec EXCEPT ![r] = d] /\ TrueRecord([wf EXCEPT ![r] = w], d)
    BY <2>3, <2>5, <2>6
  <2>8. wf[r].pc # "none" /\ wf[r].pc # "closed" /\ Stores(wf, runs')
    BY <1>0, <2>4, <2>5
  <2> QED BY <2>4, <2>5, <2>6, <2>7, <2>8, OneWorkflow
<1>2. CASE WorkflowStarted(r)
  <2>1. PICK w \in {[wf[r] EXCEPT !.pc = "gate"], [wf[r] EXCEPT !.pc = "closed", !.status = "failed"]} :
          wf' = [wf EXCEPT ![r] = w]
    BY <1>0, <1>2 DEF WorkflowStarted, CloseUnannounced
  <2>2. GoodWorkflow(sess, w)
    <3>1. GoodWorkflow(sess, [wf[r] EXCEPT !.pc = "gate"])
      BY <1>0, <1>s, PcMoves
    <3>2. GoodWorkflow(sess, [wf[r] EXCEPT !.pc = "closed", !.status = "failed"])
      BY <1>0, <1>s, PcMoves
    <3> QED BY <2>1, <3>1, <3>2
  <2>3. TrueRecord(wf', Idle(r))
    BY <1>i
  <2>4. wf[r].pc = "started" /\ ~Decided(wf, r)
    BY <1>2 DEF WorkflowStarted, Decided
  <2> QED BY <1>0, <1>2, <2>1, <2>2, <2>3, <2>4, OneWorkflow DEF WorkflowStarted
<1>3. CASE Gate(r)
  <2>1. sess \in {"none", "active", "ended"}
    BY DEF IInv, Rest
  <2>2. PICK w : /\ wf' = [wf EXCEPT ![r] = w]
                 /\ \/ sess = "active" /\ w = [wf[r] EXCEPT !.pc = "plan"]
                    \/ w = [wf[r] EXCEPT !.pc = "gateload"]
                    \/ w = [wf[r] EXCEPT !.pc = "final", !.status = "failed"]
    BY <1>0, <1>3, <2>1 DEF Gate, Conclude
  <2>3. GoodWorkflow(sess, w)
    <3>1. CASE sess = "active" /\ w = [wf[r] EXCEPT !.pc = "plan"]
      <4>1. w \in WorkflowType /\ w.pc = "plan" /\ w.late = wf[r].late
        BY <1>0, <3>1 DEF WorkflowType
      <4> QED BY <1>0, <3>1, <4>1 DEF GoodWorkflow
    <3>2. CASE w = [wf[r] EXCEPT !.pc = "gateload"] \/ w = [wf[r] EXCEPT !.pc = "final", !.status = "failed"]
      <4>1. GoodWorkflow(sess, [wf[r] EXCEPT !.pc = "gateload"])
        BY <1>0, <1>s, PcMoves
      <4>2. GoodWorkflow(sess, [wf[r] EXCEPT !.pc = "final", !.status = "failed"])
        BY <1>0, <1>s, PcMoves
      <4> QED BY <3>2, <4>1, <4>2
    <3> QED BY <2>2, <3>1, <3>2
  <2>4. wf[r].pc = "gate" /\ ~Decided(wf, r)
    BY <1>3 DEF Gate, Decided
  <2> QED BY <1>0, <1>3, <2>2, <2>3, <2>4, OneWorkflow DEF Gate
<1>4. CASE GateLoad(r)
  <2> DEFINE loaded == [wf[r] EXCEPT !.pc = "gatestore", !.meta = runs[r]]
             refused == [wf[r] EXCEPT !.pc = "final", !.status = "canceled", !.refused = TRUE, !.meta = NoRun]
  <2>1. CASE TakesReason(runs[r])
    <3>1. wf' = [wf EXCEPT ![r] = loaded]
      BY <1>0, <1>4, <2>1 DEF GateLoad
    <3>2. loaded \in WorkflowType /\ loaded.pc = "gatestore" /\ loaded.late = wf[r].late /\ loaded.meta = runs[r]
      BY <1>0 DEF WorkflowType
    <3> HIDE DEF loaded
    <3>3. GoodWorkflow(sess, loaded)
      BY <1>0, <1>4, <2>1, <3>2 DEF GoodWorkflow, TakesReason, GateLoad
    <3>4. wf[r].pc = "gateload" /\ ~Decided(wf, r)
      BY <1>4 DEF GateLoad, Decided
    <3> QED BY <1>0, <1>4, <3>1, <3>3, <3>4, OneWorkflow DEF GateLoad
  <2>2. CASE ~TakesReason(runs[r])
    <3>1. wf' = [wf EXCEPT ![r] = refused]
      BY <1>0, <1>4, <2>2 DEF GateLoad, Refuse, Conclude
    <3>2. GoodWorkflow(sess, refused)
      BY <1>0, <1>s, PcMoves
    <3> HIDE DEF refused
    <3>3. wf[r].pc = "gateload" /\ ~Decided(wf, r)
      BY <1>4 DEF GateLoad, Decided
    <3> QED BY <1>0, <1>4, <3>1, <3>2, <3>3, OneWorkflow DEF GateLoad
  <2> QED BY <2>1, <2>2
<1>5. CASE GateStore(r)
  <2> DEFINE refused == [wf[r] EXCEPT !.pc = "final", !.status = "canceled", !.refused = TRUE, !.meta = NoRun]
  <2>1. wf' = [wf EXCEPT ![r] = refused]
    BY <1>0, <1>5 DEF GateStore, Refuse, Conclude
  <2>2. GoodWorkflow(sess, refused)
    BY <1>0, <1>s, PcMoves
  <2>3. wf[r].meta \in MetaOrNone /\ wf[r].meta # NoRun /\ ~IsTerminal(wf[r].meta)
    BY <1>0, <1>5 DEF GateStore, GoodWorkflow, WorkflowType
  <2>4. SessionEnded \in Reasons
    BY DEF Reasons
  <2>5. Stores(wf, runs')
    <3>1. TrueMeta(wf, r, [wf[r].meta EXCEPT !.reason = SessionEnded])
      BY <2>3, <2>4, ReasonTrue
    <3> QED BY <1>0, <1>5, <3>1, StoresWrite DEF GateStore
  <2> HIDE DEF refused
  <2>6. wf[r].pc = "gatestore" /\ ~Decided(wf, r)
    BY <1>5 DEF GateStore, Decided
  <2> QED BY <1>0, <1>5, <2>1, <2>2, <2>5, <2>6, OneWorkflow DEF GateStore
<1>6. CASE Plan(r)
  <2> DEFINE late == IF sess = "active" \/ wf[r].late = 2 THEN wf[r].late ELSE wf[r].late + 1
  <2>1. wf[r].pc = "plan" /\ wf[r].late = 0 /\ ~Decided(wf, r)
    BY <1>0, <1>6 DEF Plan, GoodWorkflow, Decided
  <2>2. late = 0 \/ (late = 1 /\ sess # "active")
    BY <2>1
  <2>3. PICK pc \in {"decide", "prompted"} : wf' = [wf EXCEPT ![r] = [wf[r] EXCEPT !.pc = pc, !.late = late]]
    BY <1>0, <1>6 DEF Plan
  <2> DEFINE w == [wf[r] EXCEPT !.pc = pc, !.late = late]
  <2> HIDE DEF late
  <2>4. w \in WorkflowType /\ w.pc = pc /\ w.late = late
    <3>1. late \in 0..2 /\ pc \in {"decide", "prompted"}
      BY <2>2, <2>3
    <3> QED BY <1>0, <3>1 DEF WorkflowType
  <2>5. wf' = [wf EXCEPT ![r] = w]
    BY <2>3
  <2> HIDE DEF w
  <2>6. GoodWorkflow(sess, w)
    BY <2>2, <2>4 DEF GoodWorkflow
  <2>7. TrueRecord(wf', Record(r, PromptEvent))
    BY <1>e
  <2>8. rec' = rec \/ rec' = [rec EXCEPT ![r] = Record(r, PromptEvent)]
    BY <1>6 DEF Plan
  <2> QED BY <1>0, <1>6, <2>1, <2>5, <2>6, <2>7, <2>8, OneWorkflow DEF Plan
<1>7. CASE Prompted(r)
  <2>1. PICK w \in {[wf[r] EXCEPT !.pc = "decide"], [wf[r] EXCEPT !.pc = "final", !.status = "failed"]} :
          wf' = [wf EXCEPT ![r] = w]
    BY <1>0, <1>7 DEF Prompted, Conclude
  <2>2. GoodWorkflow(sess, w)
    <3>1. GoodWorkflow(sess, [wf[r] EXCEPT !.pc = "decide"])
      BY <1>0, <1>s, PcMoves
    <3>2. GoodWorkflow(sess, [wf[r] EXCEPT !.pc = "final", !.status = "failed"])
      BY <1>0, <1>s, PcMoves
    <3> QED BY <2>1, <3>1, <3>2
  <2>3. TrueRecord(wf', Idle(r))
    BY <1>i
  <2>4. wf[r].pc = "prompted" /\ ~Decided(wf, r)
    BY <1>7 DEF Prompted, Decided
  <2> QED BY <1>0, <1>7, <2>1, <2>2, <2>3, <2>4, OneWorkflow DEF Prompted
<1>8. CASE Decide(r)
  <2>1. PICK status \in Endings \cup {"running"} :
          \/ wf' = [wf EXCEPT ![r] = [wf[r] EXCEPT !.pc = "gate"]]
          \/ wf' = [wf EXCEPT ![r] = [wf[r] EXCEPT !.pc = "final", !.status = status]]
    BY <1>0, <1>8 DEF Decide, Conclude
  <2>2. status \in {"running"} \cup Closing
    BY ConstantsAssumption DEF Closing
  <2>3. PICK w \in {[wf[r] EXCEPT !.pc = "gate"], [wf[r] EXCEPT !.pc = "final", !.status = status]} :
          wf' = [wf EXCEPT ![r] = w]
    BY <2>1
  <2>4. GoodWorkflow(sess, w)
    <3>1. GoodWorkflow(sess, [wf[r] EXCEPT !.pc = "gate"])
      BY <1>0, <2>2, PcMoves
    <3>2. GoodWorkflow(sess, [wf[r] EXCEPT !.pc = "final", !.status = status])
      BY <1>0, <2>2, PcMoves
    <3> QED BY <2>3, <3>1, <3>2
  <2>5. wf[r].pc = "decide" /\ ~Decided(wf, r)
    BY <1>8 DEF Decide, Decided
  <2> QED BY <1>0, <1>8, <2>3, <2>4, <2>5, OneWorkflow DEF Decide
<1>9. CASE WorkflowCanceled(r)
  <2>1. PICK w \in {[wf[r] EXCEPT !.pc = "closed", !.status = "canceled"],
                    [wf[r] EXCEPT !.pc = "final", !.status = "canceled", !.meta = NoRun]} :
          wf' = [wf EXCEPT ![r] = w]
    BY <1>0, <1>9 DEF WorkflowCanceled, Conclude, CloseUnannounced
  <2>2. GoodWorkflow(sess, w)
    <3>1. GoodWorkflow(sess, [wf[r] EXCEPT !.pc = "closed", !.status = "canceled"])
      BY <1>0, <1>s, PcMoves
    <3>2. GoodWorkflow(sess, [wf[r] EXCEPT !.pc = "final", !.status = "canceled", !.meta = NoRun])
      BY <1>0, <1>s, PcMoves
    <3> QED BY <2>1, <3>1, <3>2
  <2>3. TrueRecord(wf', Idle(r))
    BY <1>i
  <2>4. wf[r].pc \notin {"none", "closed"} /\ ~Decided(wf, r)
    BY <1>9 DEF WorkflowCanceled, Decided
  <2> QED BY <1>0, <1>9, <2>1, <2>2, <2>3, <2>4, OneWorkflow DEF WorkflowCanceled
<1>10. CASE WorkflowFinal(r)
  <2> DEFINE w == [wf[r] EXCEPT !.pc = "ending"]
  <2>1. wf' = [wf EXCEPT ![r] = w]
    BY <1>0, <1>10 DEF WorkflowFinal
  <2>2. GoodWorkflow(sess, w)
    BY <1>0, <1>s, PcMoves
  <2>3. wf' \in [Runs -> WorkflowType] /\ Decided(wf', r) /\ wf'[r].status = wf[r].status
    BY <1>0, <2>1 DEF WorkflowType, Decided
  <2>4. TrueRecord(wf', Record(r, TerminalEvent(wf[r].status, runs[r])))
    <3>1. TrueEvent(wf', r, TerminalEvent(wf'[r].status, runs[r]))
      BY <1>0, <2>3, TerminalTrue
    <3> QED BY <2>3, <3>1, RecordBegins
  <2> HIDE DEF w
  <2>5. wf[r].pc = "final" /\ ~Decided(wf, r)
    BY <1>10 DEF WorkflowFinal, Decided
  <2>6. \E d : rec' = [rec EXCEPT ![r] = d] /\ TrueRecord([wf EXCEPT ![r] = w], d)
    BY <1>10, <2>1, <2>4 DEF WorkflowFinal
  <2> QED BY <1>0, <1>10, <2>1, <2>2, <2>5, <2>6, OneWorkflow DEF WorkflowFinal
<1>11. CASE WorkflowClose(r)
  <2> DEFINE w == [wf[r] EXCEPT !.pc = "closed"]
  <2>1. wf' = [wf EXCEPT ![r] = w]
    BY <1>0, <1>11 DEF WorkflowClose
  <2>2. GoodWorkflow(sess, w)
    BY <1>0, <1>s, PcMoves
  <2>3. w.pc = "closed" /\ w.status = wf[r].status
    BY <1>0 DEF WorkflowType
  <2>4. TrueRecord(wf', Idle(r))
    BY <1>i
  <2>5. rec' = rec \/ rec' = [rec EXCEPT ![r] = Idle(r)]
    BY <1>11 DEF WorkflowClose
  <2> HIDE DEF w
  <2>6. wf[r].pc = "ending"
    BY <1>11 DEF WorkflowClose
  <2>7. rec' = rec \/ (\E d : rec' = [rec EXCEPT ![r] = d] /\ TrueRecord([wf EXCEPT ![r] = w], d))
    BY <2>1, <2>4, <2>5
  <2>8. runs' = runs /\ UNCHANGED <<sess, log, start, cancel, delete, purge, reader, lock, faults>>
    BY <1>11 DEF WorkflowClose
  <2> QED BY <1>0, <2>1, <2>2, <2>3, <2>6, <2>7, <2>8, OneWorkflow
<1> QED BY <1>1, <1>2, <1>3, <1>4, <1>5, <1>6, <1>7, <1>8, <1>9, <1>10, <1>11 DEF WorkflowStep

-----------------------------------------------------------------------------
(* CancelRun: only active records are written back, whatever happened to   *)
(* the run in between.                                                     *)

(* A call that is over, or was never made, holds nothing.                  *)
LEMMA CancelFinishes ==
  ASSUME IInv, NEW c \in Cancelers
  PROVE  Cancels(Finished(c))
<1> DEFINE d == [NoCancel EXCEPT !.pc = IF c = Deleter THEN "idle" ELSE "over"]
<1>1. d \in CancelType /\ d.pc \in {"idle", "over"}
  BY DEF NoCancel, CancelType, MetaOrNone
<1> HIDE DEF d
<1>2. ActiveCancel(d)
  BY <1>1 DEF ActiveCancel
<1>3. Cancels([cancel EXCEPT ![c] = d])
  BY <1>2, CancelsWrite DEF IInv
<1> QED BY <1>3 DEF Finished, d

(* CancelRun's own read of the run.                                        *)
LEMMA CancelLoadInv ==
  ASSUME IInv, NEW c \in Cancelers, NEW r \in Runs, CancelLoad(c, r)
  PROVE  IInv'
<1> DEFINE loaded == [pc |-> "store", run |-> r, meta |-> runs[r], wrote |-> FALSE]
           bare == [pc |-> "engine", run |-> r, meta |-> NoRun, wrote |-> FALSE]
<1>1. runs[r] \in MetaOrNone /\ NoRun \in MetaOrNone
  BY DEF IInv, Stores, MetaOrNone
<1>2. TakesReason(runs[r]) => ActiveCancel(loaded)
  BY <1>1 DEF TakesReason, ActiveCancel, CancelType
<1>3. ActiveCancel(bare)
  BY <1>1 DEF ActiveCancel, CancelType
<1>4. PICK d : ActiveCancel(d) /\ cancel' = [cancel EXCEPT ![c] = d]
  BY <1>2, <1>3 DEF CancelLoad
<1>5. Cancels(cancel')
  BY <1>4, CancelsWrite DEF IInv
<1>6. delete' \in [pc : {"idle", "list", "cancel"}, todo : SUBSET Runs]
  BY DEF CancelLoad, IInv, Rest
<1> QED BY <1>5, <1>6 DEF CancelLoad, IInv, Rest

(* Its write, the engine's answer and the rollback.                        *)
LEMMA CancelInv ==
  ASSUME IInv, NEW c \in Cancelers, CancelStep(c)
  PROVE  IInv'
<1> DEFINE v == cancel[c]
<1>0. ActiveCancel(v) /\ v \in CancelType /\ cancel \in [Cancelers -> CancelType] /\ Stores(wf, runs)
  BY DEF IInv, Cancels
<1>f. Cancels(Finished(c))
  BY CancelFinishes
<1>r. Reason(c) \in Reasons /\ NoReason \in Reasons
  BY DEF Reason, Reasons
<1>w. ASSUME NEW why \in Reasons, v.pc \in {"store", "restore"},
             runs' = [runs EXCEPT ![v.run] = [v.meta EXCEPT !.reason = why]]
      PROVE  Stores(wf, runs')
  <2>1. v.run \in Runs /\ v.meta \in MetaOrNone /\ v.meta # NoRun /\ ~IsTerminal(v.meta)
    BY <1>0, <1>w DEF ActiveCancel, CancelType
  <2>2. TrueMeta(wf, v.run, [v.meta EXCEPT !.reason = why])
    BY <2>1, ReasonTrue
  <2> QED BY <1>0, <1>w, <2>1, <2>2, StoresWrite
<1>p. ASSUME NEW pc \in {"engine", "rollback"}, v.pc \notin {"idle", "over"},
             NEW d \in {[v EXCEPT !.pc = pc], [v EXCEPT !.pc = pc, !.wrote = TRUE, !.meta = NoRun]}
      PROVE  Cancels([cancel EXCEPT ![c] = d])
  <2>1. d \in CancelType /\ d.pc = pc /\ d.run = v.run
    BY <1>0, <1>p DEF CancelType, MetaOrNone
  <2>2. ActiveCancel(d)
    BY <1>0, <1>p, <2>1 DEF ActiveCancel
  <2> QED BY <2>2, CancelsWrite DEF IInv
<1>1. CASE CancelStore(c)
  <2>1. Stores(wf, runs')
    BY <1>1, <1>r, <1>w DEF CancelStore
  <2>2. cancel' = [cancel EXCEPT ![c] = [v EXCEPT !.pc = "engine", !.wrote = TRUE, !.meta = NoRun]]
    BY <1>0, <1>1 DEF CancelStore
  <2>3. v.pc = "store"
    BY <1>1 DEF CancelStore
  <2>4. Cancels(cancel')
    BY <1>p, <2>2, <2>3
  <2> QED BY <1>1, <2>1, <2>4 DEF CancelStore, IInv, Rest
<1>2. CASE CancelEngine(c)
  <2>1. v.pc = "engine" /\ v.run \in Runs
    BY <1>0, <1>2 DEF CancelEngine, ActiveCancel
  <2>2. cancel' = [cancel EXCEPT ![c] = [v EXCEPT !.pc = "rollback"]] \/ cancel' = Finished(c)
    BY <1>0, <1>2 DEF CancelEngine
  <2>3. Cancels(cancel')
    <3>1. Cancels([cancel EXCEPT ![c] = [v EXCEPT !.pc = "rollback"]])
      BY <1>p, <2>1
    <3> QED BY <1>f, <2>2, <3>1
  <2>4. faults' \in 0..MaxFaults
    BY <1>2, ConstantsAssumption DEF CancelEngine, IInv, Rest
  <2>5. CASE wf' = wf
    BY <1>2, <2>3, <2>4, <2>5 DEF CancelEngine, IInv, Rest
  <2>6. CASE wf' # wf
    <3> DEFINE w == [wf[v.run] EXCEPT !.canceled = TRUE]
    <3>1. wf \in [Runs -> WorkflowType] /\ GoodWorkflow(sess, wf[v.run]) /\ wf[v.run] \in WorkflowType
      BY <2>1 DEF IInv, Workflows
    <3>2. wf' = [wf EXCEPT ![v.run] = w] /\ wf[v.run].pc # "none" /\ faults' = faults
      BY <1>2, <2>6, <3>1 DEF CancelEngine
    <3>3. w \in WorkflowType /\ w.pc = wf[v.run].pc /\ w.status = wf[v.run].status
          /\ w.late = wf[v.run].late /\ w.meta = wf[v.run].meta
      BY <3>1 DEF WorkflowType
    <3> HIDE DEF w
    <3>4. GoodWorkflow(sess, w)
      BY <3>1, <3>3 DEF GoodWorkflow
    <3>5. Workflows(sess, wf') /\ Advances(wf, wf')
      BY <2>1, <3>2, <3>3, <3>4, WorkflowMoves DEF IInv, Decided
    <3>6. Starts(wf', start)
      BY <2>1, <3>1, <3>2, StartsMove DEF IInv
    <3>7. Stores(wf', runs) /\ Logs(wf', log) /\ Records(wf', rec) /\ ReadersTrue(wf', reader)
      BY <3>5, StoresStable, LogsStable, RecordsStable, ReadersStable DEF IInv
    <3> QED BY <1>2, <2>3, <2>4, <3>5, <3>6, <3>7 DEF CancelEngine, IInv, Rest
  <2> QED BY <2>5, <2>6
<1>3. CASE RollbackLoad(c)
  <2> DEFINE m == runs[v.run]
             d == [v EXCEPT !.pc = "restore", !.meta = m]
  <2>1. v.run \in Runs /\ m \in MetaOrNone
    BY <1>0, <1>3 DEF RollbackLoad, ActiveCancel, Stores
  <2>2. CASE m # NoRun /\ ~IsTerminal(m) /\ m.reason = Reason(c)
    <3>1. cancel' = [cancel EXCEPT ![c] = d]
      BY <1>0, <1>3, <2>2 DEF RollbackLoad
    <3>2. d \in CancelType /\ d.pc = "restore" /\ d.run = v.run /\ d.meta = m
      BY <1>0, <2>1 DEF CancelType
    <3> HIDE DEF d
    <3>3. ActiveCancel(d)
      BY <2>1, <2>2, <3>2 DEF ActiveCancel
    <3>4. Cancels(cancel')
      BY <3>1, <3>3, CancelsWrite DEF IInv
    <3> QED BY <1>3, <3>4 DEF RollbackLoad, IInv, Rest
  <2>3. CASE ~(m # NoRun /\ ~IsTerminal(m) /\ m.reason = Reason(c))
    <3>1. cancel' = Finished(c)
      BY <1>3, <2>3 DEF RollbackLoad
    <3> QED BY <1>3, <1>f, <3>1 DEF RollbackLoad, IInv, Rest
  <2> QED BY <2>2, <2>3
<1>4. CASE RollbackStore(c)
  <2>1. Stores(wf, runs')
    BY <1>4, <1>r, <1>w DEF RollbackStore
  <2> QED BY <1>4, <1>f, <2>1 DEF RollbackStore, IInv, Rest
<1> QED BY <1>1, <1>2, <1>3, <1>4 DEF CancelStep

-----------------------------------------------------------------------------
(* The repair of terminal events: a reader that builds one has seen the    *)
(* workflow closed, and closed workflows keep their status.                *)

(* A reader that is not repairing, or begins to.                           *)
LEMMA ReaderBegins ==
  ASSUME NEW W, NEW r \in Runs, NEW pc \in {"query", "build"}, pc = "build" => W[r].pc = "closed"
  PROVE  TrueReader(W, NoRepair) /\ TrueReader(W, [NoRepair EXCEPT !.pc = pc, !.run = r])
<1>1. StartedEvent \in Event /\ StartedEvent.type = "started" /\ StartedEvent.status = "running"
  BY DEF StartedEvent, Event, Reasons, NoReason
<1>2. TrueReader(W, NoRepair)
  BY <1>1 DEF NoRepair, TrueReader, TrueEvent, ReaderType
<1>3. TrueReader(W, [NoRepair EXCEPT !.pc = pc, !.run = r])
  BY <1>1 DEF NoRepair, TrueReader, TrueEvent, ReaderType
<1> QED BY <1>2, <1>3

(* A repair whose workflow is known to be closed goes on.                  *)
LEMMA ReaderMoves ==
  ASSUME NEW W, NEW v, TrueReader(W, v), v.pc # "idle", W[v.run].pc = "closed",
         NEW pc \in {"build", "lock", "compose", "publish"}
  PROVE  TrueReader(W, [v EXCEPT !.pc = pc])
<1> DEFINE n == [v EXCEPT !.pc = pc]
<1>1. n \in ReaderType /\ n.pc = pc /\ n.run = v.run /\ n.ev = v.ev
  BY DEF TrueReader, ReaderType
<1> HIDE DEF n
<1>2. TrueReader(W, n)
  BY <1>1 DEF TrueReader
<1> QED BY <1>2 DEF n

(* Every step of a repair keeps the invariant.                             *)
LEMMA RepairInv ==
  ASSUME IInv, NEW p \in Readers, RepairStep(p)
  PROVE  IInv'
<1> DEFINE v == reader[p]
<1>0. /\ TrueReader(wf, v) /\ v \in ReaderType /\ reader \in [Readers -> ReaderType]
      /\ p \in Recorders /\ ReadersTrue(wf, reader) /\ Records(wf, rec)
      /\ wf \in [Runs -> WorkflowType] /\ runs \in [Runs -> MetaOrNone]
  BY DEF IInv, ReadersTrue, Recorders, Workflows, Stores
<1>n. TrueReader(wf, NoRepair)
  <2>1. StartedEvent \in Event /\ StartedEvent.type = "started" /\ StartedEvent.status = "running"
    BY DEF StartedEvent, Event, Reasons, NoReason
  <2> QED BY <2>1 DEF NoRepair, TrueReader, TrueEvent, ReaderType
<1>l. lock' \in [Processes -> Readers \cup {NoReader}]
  <2>1. ProcessOf[p] \in Processes /\ lock \in [Processes -> Readers \cup {NoReader}]
    BY ConstantsAssumption DEF IInv, Rest
  <2>2. lock' = lock \/ (\E x \in Readers \cup {NoReader} : lock' = [lock EXCEPT ![ProcessOf[p]] = x])
    BY DEF RepairStep, RepairQuery, RepairBuild, RepairLock, RepairCompose, RepairReturns, RepairCheck, WaitReturns
  <2> QED BY <2>1, <2>2
<1>u. ASSUME NEW d, TrueReader(wf, d), reader' = [reader EXCEPT ![p] = d]
      PROVE  ReadersTrue(wf, reader')
  BY <1>0, <1>u, ReadersWrite
<1>v. ASSUME NEW d, TrueRecord(wf, d), rec' = [rec EXCEPT ![p] = d]
      PROVE  Records(wf, rec')
  BY <1>0, <1>v, RecordsWrite
<1>t. ASSUME v.run \in Runs, wf[v.run].pc = "closed"
      PROVE  /\ TrueEvent(wf, v.run, TerminalEvent(wf[v.run].status, runs[v.run]))
             /\ TerminalEvent(wf[v.run].status, runs[v.run]) \in Event
  <2>1. Decided(wf, v.run) /\ runs[v.run] \in MetaOrNone
    BY <1>0, <1>t DEF Decided
  <2>2. TrueEvent(wf, v.run, TerminalEvent(wf[v.run].status, runs[v.run]))
    BY <1>0, <1>t, <2>1, TerminalTrue
  <2> QED BY <2>2 DEF TrueEvent
<1>1. CASE RepairQuery(p)
  <2>1. v.pc = "query"
    BY <1>1 DEF RepairQuery
  <2>2. CASE wf[v.run].pc = "closed"
    <3>1. PICK pc \in {"build", "lock"} : reader' = [reader EXCEPT ![p] = [v EXCEPT !.pc = pc]]
      BY <1>0, <1>1, <2>2 DEF RepairQuery
    <3>2. TrueReader(wf, [v EXCEPT !.pc = pc])
      BY <1>0, <2>1, <2>2, <3>1, ReaderMoves
    <3>3. ReadersTrue(wf, reader')
      BY <1>u, <3>1, <3>2
    <3> QED BY <1>1, <3>3 DEF RepairQuery, IInv, Rest
  <2>3. CASE wf[v.run].pc # "closed"
    <3>1. ReadersTrue(wf, reader')
      BY <1>1, <1>n, <1>u, <2>3 DEF RepairQuery
    <3> QED BY <1>1, <3>1 DEF RepairQuery, IInv, Rest
  <2> QED BY <2>2, <2>3
<1>2. CASE RepairBuild(p)
  <2> DEFINE e == TerminalEvent(wf[v.run].status, runs[v.run])
             d == [v EXCEPT !.pc = "lock", !.ev = e]
  <2>1. v.run \in Runs /\ wf[v.run].pc = "closed"
    BY <1>0, <1>2 DEF RepairBuild, TrueReader
  <2>2. TrueEvent(wf, v.run, e) /\ e \in Event
    BY <1>t, <2>1
  <2>3. reader' = [reader EXCEPT ![p] = d]
    BY <1>0, <1>2 DEF RepairBuild
  <2> HIDE DEF e
  <2>4. d \in ReaderType /\ d.pc = "lock" /\ d.run = v.run /\ d.ev = e
    BY <1>0, <2>2 DEF ReaderType
  <2> HIDE DEF d
  <2>5. TrueReader(wf, d)
    BY <2>1, <2>2, <2>4 DEF TrueReader
  <2>6. ReadersTrue(wf, reader')
    BY <1>u, <2>3, <2>5
  <2> QED BY <1>2, <2>6 DEF RepairBuild, IInv, Rest
<1>3. CASE RepairLock(p)
  <2>1. v.pc = "lock" /\ v.run \in Runs /\ wf[v.run].pc = "closed" /\ TrueEvent(wf, v.run, v.ev)
    BY <1>0, <1>3 DEF RepairLock, TrueReader
  <2>2. CASE HasTerminal(v.run)
    <3>1. ReadersTrue(wf, reader') /\ rec' = rec
      BY <1>3, <1>n, <1>u, <2>2 DEF RepairLock
    <3> QED BY <1>3, <1>l, <3>1 DEF RepairLock, IInv, Rest
  <2>3. CASE ~HasTerminal(v.run)
    <3>1. PICK pc \in {"publish", "compose"} : reader' = [reader EXCEPT ![p] = [v EXCEPT !.pc = pc]]
      BY <1>0, <1>3, <2>3 DEF RepairLock
    <3>2. TrueReader(wf, [v EXCEPT !.pc = pc])
      BY <1>0, <2>1, <3>1, ReaderMoves
    <3>3. ReadersTrue(wf, reader')
      BY <1>u, <3>1, <3>2
    <3>4. rec' = rec \/ rec' = [rec EXCEPT ![p] = Record(v.run, v.ev)]
      BY <1>3, <2>3 DEF RepairLock
    <3>5. TrueRecord(wf, Record(v.run, v.ev))
      BY <2>1, RecordBegins
    <3>6. Records(wf, rec')
      BY <1>0, <1>v, <3>4, <3>5
    <3> QED BY <1>3, <1>l, <3>3, <3>6 DEF RepairLock, IInv, Rest
  <2> QED BY <2>2, <2>3
<1>4. CASE RepairCompose(p)
  <2> DEFINE e == TerminalEvent(wf[v.run].status, runs[v.run])
  <2>1. v.pc = "compose" /\ v.run \in Runs /\ wf[v.run].pc = "closed"
    BY <1>0, <1>4 DEF RepairCompose, TrueReader
  <2>2. CASE runs[v.run] = NoRun /\ log[v.run] = << >>
    <3>1. ReadersTrue(wf, reader') /\ rec' = rec
      BY <1>4, <1>n, <1>u, <2>2 DEF RepairCompose
    <3> QED BY <1>4, <1>l, <3>1 DEF RepairCompose, IInv, Rest
  <2>3. CASE ~(runs[v.run] = NoRun /\ log[v.run] = << >>)
    <3>1. reader' = [reader EXCEPT ![p] = [v EXCEPT !.pc = "publish"]] /\ rec' = [rec EXCEPT ![p] = Record(v.run, e)]
      BY <1>0, <1>4, <2>3 DEF RepairCompose
    <3>2. TrueReader(wf, [v EXCEPT !.pc = "publish"])
      BY <1>0, <2>1, ReaderMoves
    <3>3. ReadersTrue(wf, reader')
      BY <1>u, <3>1, <3>2
    <3>4. TrueRecord(wf, Record(v.run, e))
      BY <1>t, <2>1, RecordBegins
    <3>5. Records(wf, rec')
      BY <1>v, <3>1, <3>4
    <3> QED BY <1>4, <1>l, <3>3, <3>5 DEF RepairCompose, IInv, Rest
  <2> QED BY <2>2, <2>3
<1>5. CASE RepairReturns(p)
  <2>1. ReadersTrue(wf, reader')
    BY <1>5, <1>n, <1>u DEF RepairReturns
  <2>2. TrueRecord(wf, Idle(p))
    BY <1>0, IdleTrue
  <2>3. Records(wf, rec')
    BY <1>5, <1>v, <2>2 DEF RepairReturns
  <2> QED BY <1>5, <1>l, <2>1, <2>3 DEF RepairReturns, IInv, Rest
<1>6. ASSUME NEW r \in Runs, RepairCheck(p, r)
      PROVE  IInv'
  <2>1. TrueReader(wf, [NoRepair EXCEPT !.pc = "query", !.run = r])
    BY ReaderBegins
  <2>2. ReadersTrue(wf, reader')
    BY <1>6, <1>u, <2>1 DEF RepairCheck
  <2> QED BY <1>6, <2>2 DEF RepairCheck, IInv, Rest
<1>7. ASSUME NEW r \in Runs, WaitReturns(p, r)
      PROVE  IInv'
  <2>1. TrueReader(wf, [NoRepair EXCEPT !.pc = "build", !.run = r])
    BY <1>7, ReaderBegins DEF WaitReturns
  <2>2. ReadersTrue(wf, reader')
    BY <1>7, <1>u, <2>1 DEF WaitReturns
  <2> QED BY <1>7, <2>2 DEF WaitReturns, IInv, Rest
<1> QED BY <1>1, <1>2, <1>3, <1>4, <1>5, <1>6, <1>7 DEF RepairStep

-----------------------------------------------------------------------------
(* The theorems.                                                           *)

(* Every step of the specification keeps the inductive invariant.          *)
LEMMA NextInv ==
  ASSUME IInv, [Next]_vars
  PROVE  IInv'
<1>1. CASE Next
  BY <1>1, SessionInv, StartInv, WorkflowInv, RecordInv, CancelInv, CancelLoadInv, RepairInv DEF Next
<1>2. CASE UNCHANGED vars
  BY <1>2 DEF vars, IInv, Rest
<1> QED BY <1>1, <1>2

(* The inductive invariant is an invariant.                                *)
LEMMA SpecInv == Spec => []IInv
  BY InitInv, NextInv, PTL DEF Spec

(* Every variable keeps its type.                                          *)
THEOREM RunTypes == Spec => []TypeOK
<1>1. IInv => TypeOK
  BY DEF IInv, Rest, Stores, Logs, Records, ReadersTrue, Cancels, Workflows, Starts, TypeOK,
         WorkflowType, RecordType, CancelType, ReaderType
<1> QED BY <1>1, SpecInv, PTL

(* Whatever stale records are written back, in any number of callers and   *)
(* over any failures, a terminal status in the session store or in the log *)
(* is the one the run's workflow ended with.                               *)
THEOREM OutcomesAreWorkflows == Spec => []OutcomeIsWorkflows
<1>1. IInv => OutcomeIsWorkflows
  BY DEF IInv, Stores, TrueMeta, Logs, TrueLog, Decided, OutcomeIsWorkflows
<1> QED BY <1>1, SpecInv, PTL

(* The gate of sessionEndedForPlanning lets at most one planner call of a  *)
(* run through after the session ended, for any number of runs.            *)
THEOREM AtMostOneLateTurn == Spec => []OneLateTurn
<1>1. IInv => OneLateTurn
  BY DEF IInv, Workflows, GoodWorkflow, OneLateTurn
<1> QED BY <1>1, SpecInv, PTL
-----------------------------------------------------------------------------
(* The run log implements RunContract.  That takes a second invariant, on  *)
(* who may still append a terminal event: the workflow itself while it is  *)
(* ending, or the one reader that holds completionRepairMu once it is      *)
(* closed, and each only to a log without one.                             *)

(* All readers run in one process, and so share completionRepairMu.  With  *)
(* a mutex in each process two readers append a terminal event each.       *)
OneRepairLock == \A p, q \in Readers : ProcessOf[p] = ProcessOf[q]

TerminalsOf(l) == {i \in DOMAIN l : l[i].type = "terminal"}

OwnRecord(r) ==
    /\ rec[r].run = r
    /\ rec[r].pc # "idle" /\ rec[r].ev.type = "terminal" => wf[r].pc = "ending"
EndsClosing(w) == w.pc \in {"final", "ending", "closed"} => w.status \in Closing
OwnEntries(r) ==
    /\ \A i, j \in TerminalsOf(log[r]) : i = j
    /\ \A i \in TerminalsOf(log[r]) : log[r][i].by = r \/ wf[r].pc = "closed"
OwnRepair(p) ==
    /\ reader[p].pc \in {"compose", "publish"} => lock[ProcessOf[p]] = p
    /\ rec[p].pc # "idle" =>
         reader[p].pc = "publish" /\ rec[p].run = reader[p].run /\ rec[p].ev.type = "terminal"
    /\ reader[p].pc = "compose" \/ rec[p].pc = "append" => TerminalsOf(log[reader[p].run]) = {}

ContractInv ==
    /\ \A r \in Runs : OwnRecord(r) /\ EndsClosing(wf[r]) /\ OwnEntries(r)
    /\ \A p \in Readers : OwnRepair(p)

(* Initially nobody records anything.                                      *)
LEMMA InitContract == Init => ContractInv
<1> SUFFICES ASSUME Init PROVE ContractInv
  OBVIOUS
<1>1. ASSUME NEW r \in Runs PROVE OwnRecord(r) /\ EndsClosing(wf[r]) /\ OwnEntries(r)
  <2>1. rec[r] = Idle(r) /\ wf[r] = NewWorkflow /\ log[r] = << >>
    BY DEF Init, Recorders
  <2>2. Idle(r).run = r /\ Idle(r).pc = "idle" /\ NewWorkflow.pc = "none" /\ TerminalsOf(<< >>) = {}
    BY DEF Idle, NewWorkflow, TerminalsOf
  <2> QED BY <2>1, <2>2 DEF OwnRecord, EndsClosing, OwnEntries
<1>2. ASSUME NEW p \in Readers PROVE OwnRepair(p)
  <2>1. rec[p] = Idle(p) /\ reader[p] = NoRepair
    BY DEF Init, Recorders
  <2>2. Idle(p).pc = "idle" /\ NoRepair.pc = "idle"
    BY DEF Idle, NoRepair
  <2> QED BY <2>1, <2>2 DEF OwnRepair
<1> QED BY <1>1, <1>2 DEF ContractInv

(* A step of other parts: no log, no activity and no repair moves, and no  *)
(* workflow reopens or leaves its ending.                                  *)
LEMMA ContractQuiet ==
  ASSUME ContractInv, UNCHANGED <<log, rec, reader, lock>>,
         \A r \in Runs : /\ EndsClosing(wf'[r])
                         /\ wf[r].pc \in {"ending", "closed"} => wf'[r].pc = wf[r].pc
  PROVE  ContractInv'
<1>1. ASSUME NEW r \in Runs PROVE OwnRecord(r)' /\ EndsClosing(wf[r])' /\ OwnEntries(r)'
  BY DEF ContractInv, OwnRecord, EndsClosing, OwnEntries
<1>2. ASSUME NEW p \in Readers PROVE OwnRepair(p)'
  BY DEF ContractInv, OwnRepair
<1> QED BY <1>1, <1>2 DEF ContractInv

(* A step of one workflow, which may begin or end its record activity.     *)
LEMMA ContractWorkflow ==
  ASSUME IInv, ContractInv, NEW r \in Runs, NEW w, wf' = [wf EXCEPT ![r] = w],
         EndsClosing(w), wf[r].pc # "closed",
         \/ rec' = rec /\ wf[r].pc # "ending"
         \/ \E d : /\ rec' = [rec EXCEPT ![r] = d] /\ d.run = r
                   /\ d.pc # "idle" /\ d.ev.type = "terminal" => w.pc = "ending",
         UNCHANGED <<log, reader, lock>>
  PROVE  ContractInv'
<1>0. wf \in [Runs -> WorkflowType] /\ rec \in [Recorders -> RecordType] /\ r \in Recorders /\ r \notin Readers
  BY ConstantsAssumption DEF IInv, Workflows, Records, Recorders
<1>1. ASSUME NEW q \in Runs PROVE OwnRecord(q)' /\ EndsClosing(wf[q])' /\ OwnEntries(q)'
  <2>0. q \in Recorders /\ OwnRecord(q) /\ EndsClosing(wf[q]) /\ OwnEntries(q)
    BY DEF Recorders, ContractInv
  <2>1. CASE q = r
    <3>1. wf'[q] = w
      BY <1>0, <2>1
    <3>2. OwnRecord(q)'
      <4>1. CASE rec' = rec /\ wf[r].pc # "ending"
        BY <2>0, <2>1, <4>1 DEF OwnRecord
      <4>2. CASE \E d : /\ rec' = [rec EXCEPT ![r] = d] /\ d.run = r
                        /\ d.pc # "idle" /\ d.ev.type = "terminal" => w.pc = "ending"
        <5>1. PICK d : /\ rec' = [rec EXCEPT ![r] = d] /\ d.run = r
                       /\ d.pc # "idle" /\ d.ev.type = "terminal" => w.pc = "ending"
          BY <4>2
        <5>2. rec'[q] = d
          BY <1>0, <2>1, <5>1
        <5> QED BY <2>1, <3>1, <5>1, <5>2 DEF OwnRecord
      <4> QED BY <4>1, <4>2
    <3>3. OwnEntries(q)'
      BY <2>0, <2>1 DEF OwnEntries
    <3> QED BY <3>1, <3>2, <3>3 DEF EndsClosing
  <2>2. CASE q # r
    <3>1. wf'[q] = wf[q] /\ rec'[q] = rec[q] /\ log'[q] = log[q]
      BY <1>0, <2>0, <2>2
    <3> QED BY <2>0, <3>1 DEF OwnRecord, EndsClosing, OwnEntries
  <2> QED BY <2>1, <2>2
<1>2. ASSUME NEW p \in Readers PROVE OwnRepair(p)'
  <2>1. rec'[p] = rec[p]
    BY <1>0 DEF Recorders
  <2> QED BY <2>1 DEF ContractInv, OwnRepair
<1> QED BY <1>1, <1>2 DEF ContractInv

(* Every step of a workflow keeps it, when no record is abandoned.         *)
LEMMA WorkflowContract ==
  ASSUME IInv, ContractInv, ~Abandons, NEW r \in Runs, WorkflowStep(r)
  PROVE  ContractInv'
<1>0. /\ wf \in [Runs -> WorkflowType] /\ wf[r] \in WorkflowType
      /\ EndsClosing(wf[r])
  BY DEF IInv, Workflows, ContractInv
<1>i. Idle(r).run = r /\ Idle(r).pc = "idle"
  BY DEF Idle
<1>e. /\ Record(r, StartedEvent).run = r /\ Record(r, StartedEvent).ev.type = "started"
      /\ Record(r, PromptEvent).run = r /\ Record(r, PromptEvent).ev.type = "prompt"
  BY DEF Record, StartedEvent, PromptEvent
<1>s. {"failed", "canceled"} \subseteq Closing /\ Endings \subseteq Closing
  BY ConstantsAssumption DEF Closing
<1>1. CASE WorkflowBegin(r)
  <2>1. wf' = [wf EXCEPT ![r] = [wf[r] EXCEPT !.pc = "started"]] /\ wf[r].pc = "begin"
    BY <1>0, <1>1 DEF WorkflowBegin
  <2>2. EndsClosing([wf[r] EXCEPT !.pc = "started"])
    BY <1>0 DEF EndsClosing, WorkflowType
  <2>3. rec' = [rec EXCEPT ![r] = Record(r, StartedEvent)] /\ UNCHANGED <<log, reader, lock>>
    BY <1>1 DEF WorkflowBegin
  <2> QED BY <1>e, <2>1, <2>2, <2>3, ContractWorkflow
<1>2. CASE WorkflowStarted(r)
  <2>1. PICK w \in {[wf[r] EXCEPT !.pc = "gate"], [wf[r] EXCEPT !.pc = "closed", !.status = "failed"]} :
          wf' = [wf EXCEPT ![r] = w]
    BY <1>0, <1>2 DEF WorkflowStarted, CloseUnannounced
  <2>2. EndsClosing(w)
    BY <1>0, <1>s, <2>1 DEF EndsClosing, WorkflowType
  <2>3. rec' = [rec EXCEPT ![r] = Idle(r)] /\ wf[r].pc = "started" /\ UNCHANGED <<log, reader, lock>>
    BY <1>2 DEF WorkflowStarted
  <2> QED BY <1>i, <2>1, <2>2, <2>3, ContractWorkflow
<1>3. CASE Gate(r)
  <2>1. sess \in {"none", "active", "ended"}
    BY DEF IInv, Rest
  <2>2. PICK w \in {[wf[r] EXCEPT !.pc = "plan"], [wf[r] EXCEPT !.pc = "gateload"],
                    [wf[r] EXCEPT !.pc = "final", !.status = "failed"]} : wf' = [wf EXCEPT ![r] = w]
    BY <1>0, <1>3, <2>1 DEF Gate, Conclude
  <2>3. EndsClosing(w)
    BY <1>0, <1>s, <2>2 DEF EndsClosing, WorkflowType
  <2>4. rec' = rec /\ wf[r].pc = "gate" /\ UNCHANGED <<log, reader, lock>>
    BY <1>3 DEF Gate
  <2> QED BY <2>2, <2>3, <2>4, ContractWorkflow
<1>4. CASE GateLoad(r) \/ GateStore(r)
  <2>1. PICK w \in {[wf[r] EXCEPT !.pc = "gatestore", !.meta = runs[r]],
                    [wf[r] EXCEPT !.pc = "final", !.status = "canceled", !.refused = TRUE, !.meta = NoRun]} :
          wf' = [wf EXCEPT ![r] = w]
    BY <1>0, <1>4 DEF GateLoad, GateStore, Refuse, Conclude
  <2>2. EndsClosing(w)
    BY <1>0, <1>s, <2>1 DEF EndsClosing, WorkflowType
  <2>3. rec' = rec /\ wf[r].pc \in {"gateload", "gatestore"} /\ UNCHANGED <<log, reader, lock>>
    BY <1>4 DEF GateLoad, GateStore
  <2> QED BY <2>1, <2>2, <2>3, ContractWorkflow
<1>6. CASE Plan(r)
  <2> DEFINE late == IF sess = "active" \/ wf[r].late = 2 THEN wf[r].late ELSE wf[r].late + 1
  <2>1. PICK pc \in {"decide", "prompted"} : wf' = [wf EXCEPT ![r] = [wf[r] EXCEPT !.pc = pc, !.late = late]]
    BY <1>0, <1>6 DEF Plan
  <2> HIDE DEF late
  <2>2. EndsClosing([wf[r] EXCEPT !.pc = pc, !.late = late])
    BY <1>0, <2>1 DEF EndsClosing, WorkflowType
  <2>3. /\ rec' = rec \/ rec' = [rec EXCEPT ![r] = Record(r, PromptEvent)]
        /\ wf[r].pc = "plan" /\ UNCHANGED <<log, reader, lock>>
    BY <1>6 DEF Plan
  <2> QED BY <1>e, <2>1, <2>2, <2>3, ContractWorkflow
<1>7. CASE Prompted(r)
  <2>1. PICK w \in {[wf[r] EXCEPT !.pc = "decide"], [wf[r] EXCEPT !.pc = "final", !.status = "failed"]} :
          wf' = [wf EXCEPT ![r] = w]
    BY <1>0, <1>7 DEF Prompted, Conclude
  <2>2. EndsClosing(w)
    BY <1>0, <1>s, <2>1 DEF EndsClosing, WorkflowType
  <2>3. rec' = [rec EXCEPT ![r] = Idle(r)] /\ wf[r].pc = "prompted" /\ UNCHANGED <<log, reader, lock>>
    BY <1>7 DEF Prompted
  <2> QED BY <1>i, <2>1, <2>2, <2>3, ContractWorkflow
<1>8. CASE Decide(r)
  <2>1. PICK w : /\ wf' = [wf EXCEPT ![r] = w]
                 /\ \/ w = [wf[r] EXCEPT !.pc = "gate"]
                    \/ \E status \in Endings : w = [wf[r] EXCEPT !.pc = "final", !.status = status]
    <3>1. CASE wf' = [wf EXCEPT ![r].pc = "gate"]
      <4>1. wf' = [wf EXCEPT ![r] = [wf[r] EXCEPT !.pc = "gate"]]
        BY <1>0, <3>1
      <4> QED BY <4>1
    <3>2. CASE \E status \in Endings : wf' = Conclude(r, status)
      <4>1. PICK status \in Endings : wf' = Conclude(r, status)
        BY <3>2
      <4>2. wf' = [wf EXCEPT ![r] = [wf[r] EXCEPT !.pc = "final", !.status = status]]
        BY <1>0, <4>1 DEF Conclude
      <4> QED BY <4>2
    <3> QED BY <1>8, <3>1, <3>2 DEF Decide
  <2>2. EndsClosing(w)
    BY <1>0, <1>s, <2>1 DEF EndsClosing, WorkflowType
  <2>3. rec' = rec /\ wf[r].pc = "decide" /\ UNCHANGED <<log, reader, lock>>
    BY <1>8 DEF Decide
  <2> QED BY <2>1, <2>2, <2>3, ContractWorkflow
<1>9. CASE WorkflowCanceled(r)
  <2>1. PICK w \in {[wf[r] EXCEPT !.pc = "closed", !.status = "canceled"],
                    [wf[r] EXCEPT !.pc = "final", !.status = "canceled", !.meta = NoRun]} :
          wf' = [wf EXCEPT ![r] = w]
    BY <1>0, <1>9 DEF WorkflowCanceled, Conclude, CloseUnannounced
  <2>2. EndsClosing(w)
    BY <1>0, <1>s, <2>1 DEF EndsClosing, WorkflowType
  <2>3. rec' = [rec EXCEPT ![r] = Idle(r)] /\ wf[r].pc # "closed" /\ UNCHANGED <<log, reader, lock>>
    BY <1>9 DEF WorkflowCanceled
  <2> QED BY <1>i, <2>1, <2>2, <2>3, ContractWorkflow
<1>10. CASE WorkflowFinal(r)
  <2> DEFINE w == [wf[r] EXCEPT !.pc = "ending"]
             d == Record(r, TerminalEvent(wf[r].status, runs[r]))
  <2>1. wf' = [wf EXCEPT ![r] = w] /\ wf[r].pc = "final"
    BY <1>0, <1>10 DEF WorkflowFinal
  <2>2. EndsClosing(w) /\ w.pc = "ending"
    BY <1>0, <2>1 DEF EndsClosing, WorkflowType
  <2>3. rec' = [rec EXCEPT ![r] = d] /\ d.run = r /\ UNCHANGED <<log, reader, lock>>
    BY <1>10 DEF WorkflowFinal, Record
  <2> HIDE DEF w, d
  <2> QED BY <2>1, <2>2, <2>3, ContractWorkflow
<1>11. CASE WorkflowClose(r)
  <2> DEFINE w == [wf[r] EXCEPT !.pc = "closed"]
  <2>1. wf' = [wf EXCEPT ![r] = w] /\ wf[r].pc = "ending"
    BY <1>0, <1>11 DEF WorkflowClose
  <2>2. EndsClosing(w)
    BY <1>0, <2>1 DEF EndsClosing, WorkflowType
  <2>3. rec' = [rec EXCEPT ![r] = Idle(r)] /\ UNCHANGED <<log, reader, lock>>
    BY <1>11 DEF WorkflowClose
  <2> HIDE DEF w
  <2> QED BY <1>i, <2>1, <2>2, <2>3, ContractWorkflow
<1> QED BY <1>1, <1>2, <1>3, <1>4, <1>6, <1>7, <1>8, <1>9, <1>10, <1>11 DEF WorkflowStep

(* What appending an entry does to the terminal entries of a log.          *)
LEMMA AppendTerminals ==
  ASSUME NEW l \in Seq(LogEntry), NEW n \in LogEntry
  PROVE  /\ \A i \in DOMAIN l : Append(l, n)[i] = l[i]
         /\ Append(l, n)[Len(l) + 1] = n
         /\ Append(l, n) # << >>
         /\ n.type # "terminal" => TerminalsOf(Append(l, n)) = TerminalsOf(l)
         /\ n.type = "terminal" /\ TerminalsOf(l) = {} => TerminalsOf(Append(l, n)) = {Len(l) + 1}
<1>1. DOMAIN Append(l, n) = DOMAIN l \cup {Len(l) + 1} /\ Len(l) + 1 \notin DOMAIN l
  OBVIOUS
<1>2. (\A i \in DOMAIN l : Append(l, n)[i] = l[i]) /\ Append(l, n)[Len(l) + 1] = n
  OBVIOUS
<1>3. Append(l, n) # << >>
  <2>1. DOMAIN << >> = {}
    OBVIOUS
  <2> QED BY <1>1, <2>1
<1>4. ASSUME n.type # "terminal" PROVE TerminalsOf(Append(l, n)) = TerminalsOf(l)
  BY <1>1, <1>2, <1>4 DEF TerminalsOf
<1>5. ASSUME n.type = "terminal", TerminalsOf(l) = {} PROVE TerminalsOf(Append(l, n)) = {Len(l) + 1}
  BY <1>1, <1>2, <1>5 DEF TerminalsOf
<1> QED BY <1>2, <1>3, <1>4, <1>5

(* A recordActivity appends its event at most once, and a terminal event   *)
(* only to a log that has none.                                            *)
LEMMA AppendFresh ==
  ASSUME IInv, ContractInv, NEW x \in Recorders, RecordAppend(x)
  PROVE  log' = log \/ \E r \in Runs, n \in LogEntry :
           /\ r = rec[x].run /\ n.by = x /\ n.type = rec[x].ev.type /\ n.status = rec[x].ev.status
           /\ log' = [log EXCEPT ![r] = Append(log[r], n)]
           /\ n.type = "terminal" => TerminalsOf(log[r]) = {}
<1> DEFINE r == rec[x].run
           e == rec[x].ev
           n == [by |-> x, type |-> e.type, status |-> e.status, reason |-> e.reason]
<1>1. r \in Runs /\ TrueEvent(wf, r, e) /\ e \in Event /\ rec[x].pc = "append"
  BY DEF RecordAppend, IInv, Records, TrueRecord, TrueEvent
<1>2. log \in [Runs -> Seq(LogEntry)] /\ log' = [log EXCEPT ![r] = Appended(log[r], x, e)]
  BY <1>1 DEF RecordAppend, IInv, Logs
<1>3. CASE e.type = "prompt"
  BY <1>2, <1>3 DEF Appended
<1>4. CASE e.type # "prompt"
  <2>1. n \in LogEntry /\ n.by = x /\ n.type = e.type /\ n.status = e.status
    BY <1>1, <1>4 DEF Event, LogEntry
  <2>2. CASE \E i \in DOMAIN log[r] : log[r][i].by = x /\ log[r][i].type = e.type
    BY <1>2, <2>2 DEF Appended
  <2>3. CASE ~\E i \in DOMAIN log[r] : log[r][i].by = x /\ log[r][i].type = e.type
    <3>1. log' = [log EXCEPT ![r] = Append(log[r], n)]
      BY <1>2, <1>4, <2>3 DEF Appended
    <3>2. ASSUME e.type = "terminal" PROVE TerminalsOf(log[r]) = {}
      <4>1. CASE x \in Runs
        <5>1. x = r /\ wf[r].pc = "ending" /\ OwnEntries(r)
          BY <1>1, <3>2, <4>1 DEF ContractInv, OwnRecord
        <5> QED BY <2>3, <3>2, <5>1 DEF OwnEntries, TerminalsOf
      <4>2. CASE x \in Readers
        BY <1>1, <4>2 DEF ContractInv, OwnRepair
      <4> QED BY <4>1, <4>2 DEF Recorders
    <3> HIDE DEF n
    <3> QED BY <1>1, <2>1, <3>1, <3>2
  <2> QED BY <2>2, <2>3
<1> QED BY <1>3, <1>4

(* A recordActivity that goes on, fails, or starts again for a workflow.   *)
LEMMA RecordPasses ==
  ASSUME IInv, ContractInv, NEW x \in Recorders, NEW d, rec' = [rec EXCEPT ![x] = d],
         d.run = rec[x].run, d.ev = rec[x].ev, rec[x].pc # "idle",
         d.pc = "append" => x \in Runs,
         UNCHANGED <<log, wf, reader, lock>>
  PROVE  ContractInv'
<1>0. rec \in [Recorders -> RecordType] /\ Runs \cap Readers = {}
  BY ConstantsAssumption DEF IInv, Records
<1>1. ASSUME NEW r \in Runs PROVE OwnRecord(r)' /\ EndsClosing(wf[r])' /\ OwnEntries(r)'
  <2>0. OwnRecord(r) /\ EndsClosing(wf[r]) /\ OwnEntries(r) /\ r \in Recorders
    BY DEF ContractInv, Recorders
  <2>1. rec'[r] = rec[r] \/ (r = x /\ rec'[r] = d)
    BY <1>0, <2>0
  <2>2. OwnRecord(r)'
    BY <2>0, <2>1 DEF OwnRecord
  <2> QED BY <2>0, <2>2 DEF EndsClosing, OwnEntries
<1>2. ASSUME NEW p \in Readers PROVE OwnRepair(p)'
  <2>0. OwnRepair(p) /\ p \in Recorders /\ p \notin Runs
    BY <1>0 DEF ContractInv, Recorders
  <2>1. rec'[p] = rec[p] \/ (p = x /\ rec'[p] = d)
    BY <1>0, <2>0
  <2> QED BY <2>0, <2>1 DEF OwnRepair
<1> QED BY <1>1, <1>2 DEF ContractInv

(* The append itself: no other activity or reader is about to append a     *)
(* terminal event to the same log.                                         *)
LEMMA AppendContract ==
  ASSUME IInv, ContractInv, OneRepairLock, NEW x \in Recorders, RecordAppend(x)
  PROVE  ContractInv'
<1>0. /\ rec \in [Recorders -> RecordType] /\ Runs \cap Readers = {} /\ log \in [Runs -> Seq(LogEntry)]
      /\ rec[x].pc = "append" /\ rec[x] \in RecordType /\ UNCHANGED <<wf, reader, lock>>
  BY ConstantsAssumption DEF IInv, Records, Logs, RecordAppend
<1> DEFINE d == [rec[x] EXCEPT !.pc = "load"]
<1>2. d.pc = "load" /\ d.run = rec[x].run /\ d.ev = rec[x].ev /\ rec' = [rec EXCEPT ![x] = d]
  BY <1>0 DEF RecordAppend, RecordType
<1> HIDE DEF d
<1>3. CASE log' = log
  BY <1>0, <1>2, <1>3, RecordPasses
<1>4. CASE log' # log
  <2>n. PICK r \in Runs, n \in LogEntry :
          /\ r = rec[x].run /\ n.by = x /\ n.type = rec[x].ev.type /\ n.status = rec[x].ev.status
          /\ log' = [log EXCEPT ![r] = Append(log[r], n)]
          /\ n.type = "terminal" => TerminalsOf(log[r]) = {}
    BY <1>4, AppendFresh
  <2>0. /\ \A q \in Runs \ {r} : log'[q] = log[q]
        /\ log'[r] = Append(log[r], n) /\ log[r] \in Seq(LogEntry)
        /\ n.type = "terminal" => TerminalsOf(log[r]) = {}
    BY <1>0, <1>4, <2>n
  <2>r. x \in Readers => reader[x].pc = "publish" /\ reader[x].run = r /\ wf[r].pc = "closed"
                         /\ lock[ProcessOf[x]] = x
    BY <1>0, <2>n DEF ContractInv, OwnRepair, IInv, ReadersTrue, TrueReader
  <2>t. /\ \A i \in DOMAIN log[r] : log'[r][i] = log[r][i]
        /\ log'[r][Len(log[r]) + 1] = n
        /\ n.type # "terminal" => TerminalsOf(log'[r]) = TerminalsOf(log[r])
        /\ n.type = "terminal" => TerminalsOf(log'[r]) = {Len(log[r]) + 1}
    BY <2>0, AppendTerminals
  <2>1. ASSUME NEW q \in Runs PROVE OwnRecord(q)' /\ EndsClosing(wf[q])' /\ OwnEntries(q)'
    <3>0. OwnRecord(q) /\ EndsClosing(wf[q]) /\ OwnEntries(q) /\ q \in Recorders
      BY DEF ContractInv, Recorders
    <3>1. rec'[q] = rec[q] \/ (q = x /\ rec'[q] = d)
      BY <1>0, <1>2, <3>0
    <3>2. OwnRecord(q)'
      BY <1>0, <1>2, <3>0, <3>1 DEF OwnRecord
    <3>3. OwnEntries(q)'
      <4>1. CASE q # r
        BY <1>0, <2>0, <3>0, <4>1 DEF OwnEntries
      <4>2. CASE q = r /\ n.type # "terminal"
        <5>1. \A i \in TerminalsOf(log[r]) : log'[r][i] = log[r][i]
          BY <2>t DEF TerminalsOf
        <5> QED BY <1>0, <2>t, <3>0, <4>2, <5>1 DEF OwnEntries
      <4>3. CASE q = r /\ n.type = "terminal"
        <5>1. n.by = r \/ wf[r].pc = "closed"
          <6>1. CASE x \in Runs
            BY <2>n, <6>1 DEF ContractInv, OwnRecord
          <6>2. CASE x \in Readers
            BY <2>r, <6>2
          <6> QED BY <6>1, <6>2 DEF Recorders
        <5>2. TerminalsOf(log'[q]) = {Len(log[r]) + 1} /\ log'[q][Len(log[r]) + 1] = n /\ wf'[q] = wf[r]
          BY <1>0, <2>t, <4>3
        <5>3. \A i, j \in TerminalsOf(log'[q]) : i = j
          BY <5>2
        <5>4. \A i \in TerminalsOf(log'[q]) : log'[q][i].by = q \/ wf'[q].pc = "closed"
          BY <4>3, <5>1, <5>2
        <5> QED BY <5>3, <5>4 DEF OwnEntries
      <4> QED BY <4>1, <4>2, <4>3
    <3> QED BY <1>0, <3>0, <3>2, <3>3 DEF EndsClosing
  <2>2. ASSUME NEW p \in Readers PROVE OwnRepair(p)'
    <3>0. OwnRepair(p) /\ p \in Recorders /\ TrueReader(wf, reader[p])
      BY DEF ContractInv, Recorders, IInv, ReadersTrue
    <3>1. CASE p = x
      <4>1. rec'[p] = d /\ rec[p].pc # "idle"
        BY <1>0, <1>2, <3>1
      <4> QED BY <1>0, <1>2, <2>r, <3>0, <3>1, <4>1 DEF OwnRepair
    <3>2. CASE p # x
      <4>1. rec'[p] = rec[p]
        BY <1>0, <1>2, <3>0, <3>2
      <4>2. ASSUME reader[p].pc = "compose" \/ rec[p].pc = "append"
            PROVE  TerminalsOf(log'[reader[p].run]) = {}
        <5>1. /\ TerminalsOf(log[reader[p].run]) = {} /\ lock[ProcessOf[p]] = p
              /\ reader[p].run \in Runs /\ wf[reader[p].run].pc = "closed"
          BY <3>0, <4>2 DEF OwnRepair, TrueReader
        <5>2. CASE reader[p].run # r
          BY <2>0, <5>1, <5>2
        <5>3. CASE reader[p].run = r /\ n.type # "terminal"
          BY <2>t, <5>1, <5>3
        <5>4. CASE reader[p].run = r /\ n.type = "terminal"
          <6>1. CASE x \in Runs
            <7>1. OwnRecord(x)
              BY <6>1 DEF ContractInv
            <7>2. rec[x].run = x /\ wf[x].pc = "ending" /\ x = r
              BY <1>0, <2>n, <5>4, <7>1 DEF OwnRecord
            <7> QED BY <5>1, <5>4, <7>2
          <6>2. CASE x \in Readers
            BY <2>r, <3>2, <5>1, <6>2 DEF OneRepairLock
          <6> QED BY <6>1, <6>2 DEF Recorders
        <5> QED BY <5>2, <5>3, <5>4
      <4> QED BY <1>0, <3>0, <4>1, <4>2 DEF OwnRepair
    <3> QED BY <3>1, <3>2
  <2> QED BY <2>1, <2>2 DEF ContractInv
<1> QED BY <1>3, <1>4

(* Every step of a record activity keeps the invariant.                    *)
LEMMA RecordContract ==
  ASSUME IInv, ContractInv, OneRepairLock, NEW x \in Recorders, RecordStep(x) \/ RecordFail(x)
  PROVE  ContractInv'
<1>0. rec \in [Recorders -> RecordType] /\ rec[x] \in RecordType
  BY DEF IInv, Records
<1>1. CASE RecordAppend(x)
  BY <1>1, AppendContract
<1>2. CASE RecordLoad(x)
  <2> DEFINE m == runs[rec[x].run]
             d == [rec[x] EXCEPT !.meta = m,
                                 !.pc = IF m = NoRun /\ rec[x].ev.type = "terminal" THEN "failed" ELSE "store"]
  <2>1. rec' = [rec EXCEPT ![x] = d] /\ rec[x].pc = "load" /\ UNCHANGED <<log, wf, reader, lock>>
    BY <1>0, <1>2 DEF RecordLoad
  <2>2. d.run = rec[x].run /\ d.ev = rec[x].ev /\ d.pc # "append"
    BY <1>0 DEF RecordType
  <2> HIDE DEF d
  <2> QED BY <2>1, <2>2, RecordPasses
<1>3. CASE RecordStore(x)
  <2> DEFINE d == [rec[x] EXCEPT !.pc = "stream", !.meta = NoRun]
  <2>1. rec' = [rec EXCEPT ![x] = d] /\ rec[x].pc = "store" /\ UNCHANGED <<log, wf, reader, lock>>
    BY <1>0, <1>3 DEF RecordStore
  <2>2. d.run = rec[x].run /\ d.ev = rec[x].ev /\ d.pc # "append"
    BY <1>0 DEF RecordType
  <2> HIDE DEF d
  <2> QED BY <2>1, <2>2, RecordPasses
<1>4. CASE RecordStream(x) \/ RecordBus(x) \/ RecordFail(x)
  <2>1. PICK pc \in {"failed", "bus", "done", "append"} : /\ rec' = [rec EXCEPT ![x] = [rec[x] EXCEPT !.pc = pc]]
                                                          /\ pc = "append" => x \in Runs
    BY <1>0, <1>4 DEF RecordStream, RecordBus, RecordFail
  <2> DEFINE d == [rec[x] EXCEPT !.pc = pc]
  <2>2. d.run = rec[x].run /\ d.ev = rec[x].ev /\ d.pc = pc
    BY <1>0 DEF RecordType
  <2>3. rec' = [rec EXCEPT ![x] = d] /\ (d.pc = "append" => x \in Runs)
    BY <2>1, <2>2
  <2>4. rec[x].pc # "idle" /\ UNCHANGED <<log, wf, reader, lock>>
    BY <1>4 DEF RecordStream, RecordBus, RecordFail
  <2> HIDE DEF d
  <2> QED BY <2>2, <2>3, <2>4, RecordPasses
<1> QED BY <1>1, <1>2, <1>3, <1>4 DEF RecordStep

(* A reader that moves to v, its activity to d, and takes or releases the  *)
(* lock only when nobody else holds it.                                    *)
LEMMA ContractReader ==
  ASSUME IInv, ContractInv, NEW p \in Readers, NEW v, NEW d,
         reader' = [reader EXCEPT ![p] = v], rec' = [rec EXCEPT ![p] = d],
         \/ lock' = lock
         \/ /\ lock[ProcessOf[p]] \in {NoReader, p}
            /\ \E u : lock' = [lock EXCEPT ![ProcessOf[p]] = u],
         v.pc \in {"compose", "publish"} => lock'[ProcessOf[p]] = p,
         d.pc # "idle" => v.pc = "publish" /\ d.run = v.run /\ d.ev.type = "terminal",
         v.pc = "compose" \/ d.pc = "append" => TerminalsOf(log[v.run]) = {},
         UNCHANGED <<log, wf>>
  PROVE  ContractInv'
<1>0. /\ rec \in [Recorders -> RecordType] /\ reader \in [Readers -> ReaderType]
      /\ lock \in [Processes -> Readers \cup {NoReader}] /\ ProcessOf \in [Readers -> Processes]
      /\ Runs \cap Readers = {} /\ NoReader \notin Readers
  BY ConstantsAssumption DEF IInv, Records, ReadersTrue, Rest
<1>1. ASSUME NEW r \in Runs PROVE OwnRecord(r)' /\ EndsClosing(wf[r])' /\ OwnEntries(r)'
  <2>1. rec'[r] = rec[r] /\ OwnRecord(r) /\ EndsClosing(wf[r]) /\ OwnEntries(r)
    BY <1>0 DEF ContractInv, Recorders
  <2> QED BY <2>1 DEF OwnRecord, EndsClosing, OwnEntries
<1>2. ASSUME NEW q \in Readers PROVE OwnRepair(q)'
  <2>0. q \in Recorders /\ p \in Recorders /\ OwnRepair(q)
    BY DEF ContractInv, Recorders
  <2>1. CASE q = p
    <3>1. reader'[q] = v /\ rec'[q] = d
      BY <1>0, <2>0, <2>1
    <3> QED BY <2>1, <3>1 DEF OwnRepair
  <2>2. CASE q # p
    <3>1. reader'[q] = reader[q] /\ rec'[q] = rec[q]
      BY <1>0, <2>0, <2>2
    <3>2. lock[ProcessOf[q]] = q => lock'[ProcessOf[q]] = q
      BY <1>0, <2>2
    <3> QED BY <2>0, <3>1, <3>2 DEF OwnRepair
  <2> QED BY <2>1, <2>2
<1> QED BY <1>1, <1>2 DEF ContractInv

(* Every step of a repair keeps the invariant.                             *)
LEMMA RepairContract ==
  ASSUME IInv, ContractInv, NEW p \in Readers, RepairStep(p)
  PROVE  ContractInv'
<1> DEFINE v == reader[p]
<1>0. /\ rec \in [Recorders -> RecordType] /\ reader \in [Readers -> ReaderType] /\ v \in ReaderType
      /\ p \in Recorders /\ TrueReader(wf, v) /\ OwnRepair(p)
      /\ lock \in [Processes -> Readers \cup {NoReader}] /\ ProcessOf[p] \in Processes
  BY ConstantsAssumption DEF IInv, Records, ReadersTrue, Rest, Recorders, ContractInv
<1>n. NoRepair.pc = "idle"
  BY DEF NoRepair
<1>s. ASSUME v.pc \notin {"compose", "publish"}, NEW w, w.pc \notin {"compose", "publish"},
             reader' = [reader EXCEPT ![p] = w], UNCHANGED <<log, wf, rec, lock>>
      PROVE  ContractInv'
  <2>1. rec[p].pc = "idle"
    BY <1>0, <1>s DEF OwnRepair
  <2>2. rec' = [rec EXCEPT ![p] = rec[p]]
    BY <1>0, <1>s
  <2> QED BY <1>s, <2>1, <2>2, ContractReader
<1>1. CASE RepairQuery(p)
  <2>1. PICK w \in {[v EXCEPT !.pc = "build"], [v EXCEPT !.pc = "lock"], NoRepair} : reader' = [reader EXCEPT ![p] = w]
    BY <1>0, <1>1 DEF RepairQuery
  <2>2. w.pc \notin {"compose", "publish"}
    BY <1>0, <1>n, <2>1 DEF ReaderType
  <2> QED BY <1>1, <1>s, <2>1, <2>2 DEF RepairQuery
<1>2. CASE RepairBuild(p)
  <2> DEFINE w == [v EXCEPT !.pc = "lock", !.ev = TerminalEvent(wf[v.run].status, runs[v.run])]
  <2>1. reader' = [reader EXCEPT ![p] = w]
    BY <1>0, <1>2 DEF RepairBuild
  <2>2. w.pc = "lock"
    BY <1>0 DEF ReaderType
  <2> HIDE DEF w
  <2> QED BY <1>2, <1>s, <2>1, <2>2 DEF RepairBuild
<1>3. CASE RepairLock(p) /\ HasTerminal(v.run)
  BY <1>3, <1>n, <1>s DEF RepairLock
<1>4. CASE RepairLock(p) /\ ~HasTerminal(v.run)
  <2>1. TerminalsOf(log[v.run]) = {}
    BY <1>4 DEF HasTerminal, TerminalsOf
  <2>2. /\ v.pc = "lock" /\ lock[ProcessOf[p]] = NoReader /\ lock' = [lock EXCEPT ![ProcessOf[p]] = p]
        /\ UNCHANGED <<log, wf>>
    BY <1>4 DEF RepairLock
  <2>3. lock'[ProcessOf[p]] = p /\ rec[p].pc = "idle"
    BY <1>0, <2>2 DEF OwnRepair
  <2>4. CASE v.ev.type = "terminal"
    <3> DEFINE w == [v EXCEPT !.pc = "publish"]
               d == Record(v.run, v.ev)
    <3>1. reader' = [reader EXCEPT ![p] = w] /\ rec' = [rec EXCEPT ![p] = d]
      BY <1>0, <1>4, <2>4 DEF RepairLock
    <3>2. w.pc = "publish" /\ w.run = v.run /\ d.run = v.run /\ d.ev = v.ev
      BY <1>0 DEF ReaderType, Record
    <3> HIDE DEF w, d
    <3> QED BY <2>1, <2>2, <2>3, <2>4, <3>1, <3>2, ContractReader
  <2>5. CASE v.ev.type # "terminal"
    <3> DEFINE w == [v EXCEPT !.pc = "compose"]
    <3>1. reader' = [reader EXCEPT ![p] = w] /\ rec' = [rec EXCEPT ![p] = rec[p]]
      BY <1>0, <1>4, <2>5 DEF RepairLock
    <3>2. w.pc = "compose" /\ w.run = v.run
      BY <1>0 DEF ReaderType
    <3> HIDE DEF w
    <3> QED BY <2>1, <2>2, <2>3, <3>1, <3>2, ContractReader
  <2> QED BY <2>4, <2>5
<1>5. CASE RepairCompose(p)
  <2>1. /\ v.pc = "compose" /\ lock[ProcessOf[p]] = p /\ rec[p].pc = "idle"
        /\ TerminalsOf(log[v.run]) = {} /\ UNCHANGED <<log, wf>>
    BY <1>0, <1>5 DEF RepairCompose, OwnRepair
  <2>2. CASE runs[v.run] = NoRun /\ log[v.run] = << >>
    <3>1. /\ reader' = [reader EXCEPT ![p] = NoRepair] /\ rec' = [rec EXCEPT ![p] = rec[p]]
          /\ lock' = [lock EXCEPT ![ProcessOf[p]] = NoReader]
      BY <1>0, <1>5, <2>2 DEF RepairCompose
    <3> QED BY <1>n, <2>1, <3>1, ContractReader
  <2>3. CASE ~(runs[v.run] = NoRun /\ log[v.run] = << >>)
    <3> DEFINE w == [v EXCEPT !.pc = "publish"]
               d == Record(v.run, TerminalEvent(wf[v.run].status, runs[v.run]))
    <3>1. reader' = [reader EXCEPT ![p] = w] /\ rec' = [rec EXCEPT ![p] = d] /\ lock' = lock
      BY <1>0, <1>5, <2>3 DEF RepairCompose
    <3>2. w.pc = "publish" /\ w.run = v.run /\ d.run = v.run /\ d.ev.type = "terminal"
      BY <1>0 DEF ReaderType, Record, TerminalEvent
    <3> HIDE DEF w, d
    <3> QED BY <2>1, <3>1, <3>2, ContractReader
  <2> QED BY <2>2, <2>3
<1>6. CASE RepairReturns(p)
  <2>1. v.pc = "publish" /\ lock[ProcessOf[p]] = p /\ Idle(p).pc = "idle"
    BY <1>0, <1>6 DEF RepairReturns, OwnRepair, Idle
  <2>2. /\ reader' = [reader EXCEPT ![p] = NoRepair] /\ rec' = [rec EXCEPT ![p] = Idle(p)]
        /\ lock' = [lock EXCEPT ![ProcessOf[p]] = NoReader] /\ UNCHANGED <<log, wf>>
    BY <1>6 DEF RepairReturns
  <2> QED BY <1>n, <2>1, <2>2, ContractReader
<1>7. ASSUME NEW r \in Runs, RepairCheck(p, r) \/ WaitReturns(p, r)
      PROVE  ContractInv'
  <2>1. PICK pc \in {"query", "build"} : reader' = [reader EXCEPT ![p] = [NoRepair EXCEPT !.pc = pc, !.run = r]]
    BY <1>7 DEF RepairCheck, WaitReturns
  <2>2. [NoRepair EXCEPT !.pc = pc, !.run = r].pc = pc
    BY DEF NoRepair
  <2> QED BY <1>7, <1>s, <2>1, <2>2 DEF RepairCheck, WaitReturns
<1> QED BY <1>1, <1>2, <1>3, <1>4, <1>5, <1>6, <1>7 DEF RepairStep

(* Every step keeps it.                                                    *)
LEMMA NextContract ==
  ASSUME IInv, ContractInv, OneRepairLock, ~Abandons, [Next]_vars
  PROVE  ContractInv'
<1>0. wf \in [Runs -> WorkflowType] /\ \A r \in Runs : EndsClosing(wf[r])
  BY DEF IInv, Workflows, ContractInv
<1>q. ASSUME UNCHANGED <<log, rec, reader, lock>>,
             \A r \in Runs : wf'[r].pc = wf[r].pc /\ wf'[r].status = wf[r].status
      PROVE  ContractInv'
  <2>1. \A r \in Runs : EndsClosing(wf'[r])
    BY <1>0, <1>q DEF EndsClosing
  <2> QED BY <1>q, <2>1, ContractQuiet
<1>1. CASE CreateSession
  <2>1. \A r \in Runs : wf'[r].pc = wf[r].pc /\ wf'[r].status = wf[r].status
    BY <1>0, <1>1 DEF CreateSession, WorkflowType
  <2> QED BY <1>1, <1>q, <2>1 DEF CreateSession
<1>2. CASE EndSession \/ ListSessionRuns \/ DeleteReturns \/ PurgeLoad \/ PurgeList \/ PurgeDelete
  BY <1>2, <1>q DEF EndSession, ListSessionRuns, DeleteReturns, PurgeLoad, PurgeList, PurgeDelete
<1>3. ASSUME NEW r \in Runs, StartStep(r) PROVE ContractInv'
  <2>1. CASE wf' = wf
    BY <1>3, <1>q, <2>1 DEF StartStep, StartCheck, StartPending, StartWorkflow
  <2>2. CASE wf' # wf
    <3>1. StartWorkflow(r) /\ wf' = [wf EXCEPT ![r].pc = "begin"]
      BY <1>3, <2>2 DEF StartStep, StartCheck, StartPending, StartWorkflow
    <3>2. wf[r].pc = "none"
      BY <3>1 DEF StartWorkflow, IInv, Starts
    <3>3. ASSUME NEW q \in Runs
          PROVE  /\ EndsClosing(wf'[q])
                 /\ wf[q].pc \in {"ending", "closed"} => wf'[q].pc = wf[q].pc
      BY <1>0, <3>1, <3>2 DEF WorkflowType, EndsClosing
    <3> QED BY <3>1, <3>3, ContractQuiet DEF StartWorkflow
  <2> QED BY <2>1, <2>2
<1>4. ASSUME NEW c \in Cancelers, CancelStep(c) \/ \E r \in Runs : CancelLoad(c, r) PROVE ContractInv'
  <2>1. \A r \in Runs : wf'[r].pc = wf[r].pc /\ wf'[r].status = wf[r].status
    <3>1. wf' = wf \/ wf' = [wf EXCEPT ![cancel[c].run].canceled = TRUE]
      BY <1>4 DEF CancelStep, CancelLoad, CancelStore, CancelEngine, RollbackLoad, RollbackStore
    <3> QED BY <1>0, <3>1 DEF WorkflowType
  <2> QED BY <1>4, <1>q, <2>1 DEF CancelStep, CancelLoad, CancelStore, CancelEngine, RollbackLoad, RollbackStore
<1>5. CASE UNCHANGED vars
  BY <1>5, <1>q DEF vars
<1> QED BY <1>1, <1>2, <1>3, <1>4, <1>5, WorkflowContract, RecordContract, RepairContract DEF Next

(* What a reader sees of one log: Phase, run by run.                       *)
OnlyTerminalOf(l) == l[CHOOSE i \in TerminalsOf(l) : TRUE]
PhaseOf(l) ==
    CASE Cardinality(TerminalsOf(l)) = 1 -> <<OnlyTerminalOf(l).status, OnlyTerminalOf(l).reason>>
      [] Cardinality(TerminalsOf(l)) > 1 -> <<"ambiguous", NoReason>>
      [] OTHER -> <<IF l = << >> THEN "absent" ELSE "open", NoReason>>

(* A log without a terminal entry is absent or open; one with a single     *)
(* terminal entry shows that entry.                                        *)
LEMMA PhaseValue ==
  ASSUME NEW l
  PROVE  /\ TerminalsOf(l) = {} => PhaseOf(l) = <<IF l = << >> THEN "absent" ELSE "open", NoReason>>
         /\ \A i : TerminalsOf(l) = {i} => PhaseOf(l) = <<l[i].status, l[i].reason>>
<1>1. ASSUME TerminalsOf(l) = {} PROVE PhaseOf(l) = <<IF l = << >> THEN "absent" ELSE "open", NoReason>>
  <2>1. Cardinality(TerminalsOf(l)) = 0
    BY <1>1, FS_EmptySet
  <2> QED BY <2>1 DEF PhaseOf
<1>2. ASSUME NEW i, TerminalsOf(l) = {i} PROVE PhaseOf(l) = <<l[i].status, l[i].reason>>
  <2>1. Cardinality(TerminalsOf(l)) = 1
    BY <1>2, FS_Singleton
  <2>2. (CHOOSE j \in TerminalsOf(l) : TRUE) = i
    BY <1>2
  <2>3. PhaseOf(l) = <<OnlyTerminalOf(l).status, OnlyTerminalOf(l).reason>>
    BY <2>1 DEF PhaseOf
  <2> QED BY <2>2, <2>3 DEF OnlyTerminalOf
<1> QED BY <1>1, <1>2

(* A step that changes a log begins the run or ends it once, or shows      *)
(* nothing new.                                                            *)
LEMMA AppendImplements ==
  ASSUME IInv, ContractInv, NEW x \in Recorders, RecordAppend(x)
  PROVE  [Contract!Next]_Phase
<1>0. /\ Phase = [r \in Runs |-> PhaseOf(log[r])]
      /\ Phase' = [r \in Runs |-> PhaseOf(log'[r])]
  BY DEF Phase, PhaseOf, Terminals, TerminalsOf, OnlyTerminal, OnlyTerminalOf
<1>1. CASE log' = log
  BY <1>0, <1>1
<1>2. CASE log' # log
  <2>1. PICK r \in Runs, n \in LogEntry :
          /\ r = rec[x].run /\ n.by = x /\ n.type = rec[x].ev.type /\ n.status = rec[x].ev.status
          /\ log' = [log EXCEPT ![r] = Append(log[r], n)]
          /\ n.type = "terminal" => TerminalsOf(log[r]) = {}
    BY <1>2, AppendFresh
  <2> DEFINE l == log[r]
             k == Append(l, n)
  <2>2. l \in Seq(LogEntry) /\ log'[r] = k /\ (\A q \in Runs \ {r} : log'[q] = log[q])
    BY <2>1 DEF IInv, Logs
  <2>3. Phase' = [Phase EXCEPT ![r] = PhaseOf(k)] /\ Phase[r] = PhaseOf(l)
    BY <1>0, <2>2
  <2>4. /\ \A i \in DOMAIN l : k[i] = l[i]
        /\ k[Len(l) + 1] = n /\ k # << >>
        /\ n.type # "terminal" => TerminalsOf(k) = TerminalsOf(l)
        /\ n.type = "terminal" => TerminalsOf(k) = {Len(l) + 1}
    BY <2>1, <2>2, AppendTerminals
  <2>5. ASSUME TerminalsOf(l) = {}
        PROVE  Phase[r] = IF l = << >> THEN Contract!Absent ELSE Contract!Open
    BY <2>3, <2>5, PhaseValue DEF Contract!Absent, Contract!Open, NoReason
  <2> HIDE DEF k, l
  <2>6. CASE n.type = "terminal"
    <3>1. PhaseOf(k) = <<n.status, n.reason>>
      BY <2>4, <2>6, PhaseValue
    <3>2. n.status \in Closing /\ n.reason \in Reasons
      <4>1. TrueEvent(wf, r, rec[x].ev) /\ EndsClosing(wf[r])
        BY <2>1 DEF IInv, Records, TrueRecord, ContractInv
      <4> QED BY <2>1, <2>6, <4>1 DEF TrueEvent, Decided, EndsClosing, LogEntry
    <3>3. Phase[r] \in {Contract!Absent, Contract!Open}
      BY <2>1, <2>5, <2>6 DEF l
    <3>4. Contract!End(r)
      BY <2>3, <3>1, <3>2, <3>3 DEF Contract!End
    <3> QED BY <3>4 DEF Contract!Next
  <2>7. CASE n.type # "terminal" /\ TerminalsOf(l) = {}
    <3>1. PhaseOf(k) = Contract!Open
      BY <2>4, <2>7, PhaseValue DEF Contract!Open, NoReason
    <3>2. CASE l = << >>
      <4>1. Contract!Begin(r)
        BY <2>3, <2>5, <2>7, <3>1, <3>2 DEF Contract!Begin
      <4> QED BY <4>1 DEF Contract!Next
    <3>3. CASE l # << >>
      BY <1>0, <2>3, <2>5, <2>7, <3>1, <3>3
    <3> QED BY <3>2, <3>3
  <2>8. CASE n.type # "terminal" /\ TerminalsOf(l) # {}
    <3>1. PICK i \in DOMAIN l : TerminalsOf(l) = {i}
      BY <2>8 DEF ContractInv, OwnEntries, TerminalsOf, l
    <3>2. PhaseOf(k) = <<l[i].status, l[i].reason>> /\ PhaseOf(l) = <<l[i].status, l[i].reason>>
      BY <2>4, <2>8, <3>1, PhaseValue
    <3> QED BY <1>0, <2>3, <3>2
  <2> QED BY <2>6, <2>7, <2>8
<1> QED BY <1>1, <1>2

(* Every other step leaves the logs alone.                                 *)
LEMMA NextImplements ==
  ASSUME IInv, ContractInv, [Next]_vars
  PROVE  [Contract!Next]_Phase
<1>1. ASSUME log' = log PROVE Phase' = Phase
  BY <1>1 DEF Phase, Terminals, OnlyTerminal
<1>2. CASE \E x \in Recorders : RecordAppend(x)
  BY <1>2, AppendImplements
<1>3. CASE ~\E x \in Recorders : RecordAppend(x)
  <2>1. ASSUME NEW x \in Recorders, RecordStep(x) \/ RecordFail(x) PROVE log' = log
    BY <1>3, <2>1 DEF RecordStep, RecordLoad, RecordStore, RecordStream, RecordBus, RecordFail
  <2>2. ASSUME NEW r \in Runs, StartStep(r) \/ WorkflowStep(r) PROVE log' = log
    BY <2>2 DEF StartStep, StartCheck, StartPending, StartWorkflow, WorkflowStep, WorkflowBegin,
                WorkflowStarted, Gate, GateLoad, GateStore, Plan, Prompted, Decide, WorkflowCanceled,
                WorkflowFinal, WorkflowClose
  <2>3. ASSUME NEW c \in Cancelers, CancelStep(c) \/ \E r \in Runs : CancelLoad(c, r) PROVE log' = log
    BY <2>3 DEF CancelStep, CancelLoad, CancelStore, CancelEngine, RollbackLoad, RollbackStore
  <2>4. ASSUME NEW p \in Readers, RepairStep(p) PROVE log' = log
    BY <2>4 DEF RepairStep, RepairQuery, RepairBuild, RepairLock, RepairCompose, RepairReturns,
                RepairCheck, WaitReturns
  <2>5. CASE \/ CreateSession \/ EndSession \/ ListSessionRuns \/ DeleteReturns
             \/ PurgeLoad \/ PurgeList \/ PurgeDelete \/ UNCHANGED vars
    <3>1. log' = log
      BY <2>5 DEF CreateSession, EndSession, ListSessionRuns, DeleteReturns, PurgeLoad, PurgeList,
                  PurgeDelete, vars
    <3> QED BY <1>1, <3>1
  <2> QED BY <1>1, <2>1, <2>2, <2>3, <2>4, <2>5 DEF Next
<1> QED BY <1>2, <1>3

(* The run log keeps RunContract for any number of runs, users and         *)
(* failures: whatever is retried, given up or repaired, a run gets one     *)
(* terminal event, with a closing status, and it is final.  The readers    *)
(* share one process and no workflow abandons its terminal record: without *)
(* either, two terminal events are possible.                               *)
THEOREM RunContractKept ==
  ASSUME OneRepairLock, ~Abandons
  PROVE  Spec => ImplementsContract
<1>1. Init => Contract!Init
  <2> SUFFICES ASSUME Init PROVE Contract!Init
    OBVIOUS
  <2>1. \A r \in Runs : log[r] = << >>
    BY DEF Init
  <2>2. TerminalsOf(<< >>) = {}
    BY DEF TerminalsOf
  <2>3. PhaseOf(<< >>) = Contract!Absent
    BY <2>2, PhaseValue DEF Contract!Absent, NoReason
  <2>4. Phase = [r \in Runs |-> PhaseOf(log[r])]
    BY DEF Phase, PhaseOf, Terminals, TerminalsOf, OnlyTerminal, OnlyTerminalOf
  <2> QED BY <2>1, <2>3, <2>4 DEF Contract!Init
<1>2. Init => IInv /\ ContractInv
  BY InitInv, InitContract
<1>3. IInv /\ ContractInv /\ [Next]_vars => IInv' /\ ContractInv'
  BY NextInv, NextContract
<1>4. IInv /\ ContractInv /\ [Next]_vars => [Contract!Next]_Phase
  BY NextImplements
<1> QED BY <1>1, <1>2, <1>3, <1>4, PTL DEF Spec, ImplementsContract, Contract!Spec
=============================================================================
