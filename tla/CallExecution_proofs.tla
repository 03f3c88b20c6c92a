----------------------- MODULE CallExecution_proofs -----------------------
(***************************************************************************)
(* Proofs about the life of one tool-use identity, for any providers,      *)
(* admissions, faults, timeouts and bounds: a tool handler is started at   *)
(* most once per record, by a provider of the admission its request was    *)
(* published to; the terminal result is final; and the whole implements    *)
(* the contract with callers (ToolCallContract).                           *)
(*                                                                         *)
(* AtMostOnce is not inductive.  What makes it so is the bookkeeping of    *)
(* grants: a provider that was granted a call may start it at any later    *)
(* time, so the invariant counts the grants in flight as well as the       *)
(* starts, and ties both to the record's dispatch field.                   *)
(***************************************************************************)
EXTENDS CallExecution, CatalogEntry_proofs, CallRecord_proofs, FiniteSetTheorems

Generation(item) == message(item.event).gen

(* Requests were published by the current record or an earlier one, and    *)
(* the claim fields of the record are requests of its own.                 *)
RequestsOwned ==
    /\ \A i \in 1 .. Len(requests) : requests[i].gen <= gen
    /\ \A i \in record.claims :
          i \in 1 .. Len(requests) /\ requests[i].gen = gen /\ requests[i].token = record.token
    /\ record.decision # "none" => gen > 0

(* What providers hold was published.                                      *)
ItemsPublished == \A l \in Leases : \A item \in work[l] : item.event \in 1 .. Len(requests)

(* A generation has one grant in flight at most, and none once its handler *)
(* was started.                                                            *)
GrantOnce ==
    /\ \A l, m \in Leases : \A i \in work[l], j \in work[m] :
          i.stage = "granted" /\ j.stage = "granted" /\ Generation(i) = Generation(j) => l = m /\ i = j
    /\ \A l \in Leases : \A i \in work[l] : i.stage = "granted" => effects[Generation(i)] = 0

(* Nobody was granted, and nobody started, a call that is not dispatched,  *)
(* or one of a record to come.                                             *)
GrantsAreDispatched ==
    /\ \A g \in 1 .. MaxGeneration : g > gen => effects[g] = 0
    /\ record.decision # "none" /\ ~Dispatched(record) =>
          /\ effects[gen] = 0
          /\ \A l \in Leases : \A i \in work[l] : i.stage = "granted" => Generation(i) # gen

RecordInv ==
    /\ SoundRecord(record)
    /\ record.decision # "rejected"
    /\ IsFiniteSet(record.reported)

IInv ==
    /\ TypeOK
    /\ Named(entry)
    /\ RecordInv
    /\ RequestsOwned
    /\ ItemsPublished
    /\ NoForeignExecution
    /\ GrantOnce
    /\ GrantsAreDispatched
    /\ AtMostOnce

-----------------------------------------------------------------------------
(* Steps that grant nothing and start nothing.                             *)

(* No grant and no run is added to what providers hold.                    *)
WorkQuiet ==
    \A l \in Leases : \A i \in work'[l] :
        i \in work[l] \/ (i.event \in 1 .. Len(requests) /\ i.stage \notin {"granted", "executing"})

(* The record expires, or a script changes nothing but its result.         *)
RecordQuiet ==
    \/ record' = NoRecord
    \/ /\ SoundRecord(record') /\ KeepsCall(record, record')
       /\ record'.dispatch = record.dispatch
       /\ IsFiniteSet(record'.reported)

(* What one step may do to the record and to the starts: leave them alone  *)
(* but for expiration and result, begin a record, append a request, grant  *)
(* the call, or start a handler that was granted it.                       *)
Begun ==
    /\ record.decision = "none" /\ gen' = gen + 1 /\ UNCHANGED effects
    /\ record'.decision = "admitted" /\ record'.pub = 0 /\ ~Terminal(record')
    /\ record'.dispatch = NotDispatched

Appended ==
    /\ record.decision = "admitted" /\ ~Terminal(record) /\ UNCHANGED <<gen, effects>>
    /\ record'.decision = "admitted" /\ record'.pub # 0 /\ record'.terminal = record.terminal
    /\ record'.dispatch = record.dispatch

Granted ==
    /\ Published(record) /\ ~Terminal(record) /\ ~Dispatched(record) /\ UNCHANGED <<gen, effects>>
    /\ record'.decision = record.decision /\ record'.pub = record.pub
    /\ record'.terminal = record.terminal
    /\ record'.dispatch.lease \in Leases /\ Dispatched(record')

Started ==
    /\ UNCHANGED <<record, gen>>
    /\ \E g \in 1 .. MaxGeneration :
          /\ effects' = [effects EXCEPT ![g] = effects[g] + 1] /\ effects[g] = 0
          /\ record.decision # "none" /\ g = gen => Dispatched(record)

RecordStep ==
    (RecordQuiet /\ UNCHANGED <<gen, effects>>) \/ Begun \/ Appended \/ Granted \/ Started

StepInv == IInv' /\ RecordStep

(* The record's part of a quiet step.                                      *)
LEMMA RecordQuietInv ==
  ASSUME IInv, RecordQuiet, UNCHANGED <<gen, requests>>
  PROVE  /\ RecordInv' /\ RequestsOwned'
         /\ record'.decision # "none" => record.decision # "none" /\ (Dispatched(record') <=> Dispatched(record))
<1>1. CASE record' = NoRecord
  <2>1. SoundRecord(record') /\ record'.claims = {} /\ record'.decision = "none" /\ record'.reported = {}
    BY <1>1, NoRecordSound DEF NoRecord
  <2>2. RecordInv'
    BY <2>1, FS_EmptySet DEF RecordInv
  <2>3. RequestsOwned'
    BY <2>1 DEF RequestsOwned, IInv
  <2> QED BY <2>1, <2>2, <2>3
<1>2. CASE record' # NoRecord
  <2>1. /\ SoundRecord(record') /\ KeepsCall(record, record')
        /\ record'.dispatch = record.dispatch /\ IsFiniteSet(record'.reported)
    BY <1>2 DEF RecordQuiet
  <2>2. record'.decision = record.decision /\ record'.claims = record.claims /\ record'.token = record.token
    BY <2>1 DEF KeepsCall
  <2>3. RecordInv'
    BY <2>1, <2>2 DEF RecordInv, IInv
  <2>4. RequestsOwned'
    BY <2>2 DEF RequestsOwned, IInv
  <2>5. Dispatched(record') <=> Dispatched(record)
    BY <2>1 DEF Dispatched
  <2> QED BY <2>2, <2>3, <2>4, <2>5
<1> QED BY <1>1, <1>2

(* A quiet step keeps the invariant.                                       *)
LEMMA QuietInv ==
  ASSUME IInv, TypeOK', Named(entry)', UNCHANGED <<gen, requests, effects>>, WorkQuiet, RecordQuiet
  PROVE  StepInv
<1>1. RecordInv' /\ RequestsOwned'
  BY RecordQuietInv
<1>2. record'.decision # "none" => record.decision # "none" /\ (Dispatched(record') <=> Dispatched(record))
  BY RecordQuietInv
<1>3. ItemsPublished'
  BY DEF ItemsPublished, WorkQuiet, IInv
<1>4. ASSUME NEW l \in Leases, NEW i \in work'[l], i.stage \in {"granted", "executing"}
      PROVE  i \in work[l] /\ Generation(i)' = Generation(i) /\ message(i.event)' = message(i.event)
  BY <1>4 DEF WorkQuiet, Generation, message
<1>5. NoForeignExecution'
  BY <1>4 DEF NoForeignExecution, IInv
<1>6. GrantOnce'
  BY <1>4 DEF GrantOnce, IInv
<1>7. GrantsAreDispatched'
  BY <1>2, <1>4 DEF GrantsAreDispatched, IInv
<1>8. AtMostOnce'
  BY DEF AtMostOnce, IInv
<1> QED BY <1>1, <1>3, <1>5, <1>6, <1>7, <1>8 DEF IInv, StepInv, RecordStep

(* What a provider holds: a published request.                             *)
LEMMA ItemFacts ==
  ASSUME IInv, NEW l \in Leases, NEW item \in work[l]
  PROVE  /\ item \in Items /\ item.event \in 1 .. Len(requests) /\ item.event \in Nat
         /\ message(item.event) \in [token : Tokens, gen : 1 .. MaxGeneration]
         /\ message(item.event).token \in Tokens /\ Generation(item) \in 1 .. MaxGeneration
<1>1. item \in Items
  BY DEF IInv, TypeOK
<1>2. item.event \in 1 .. Len(requests)
  BY DEF IInv, ItemsPublished
<1> DEFINE Request == [token : Tokens, gen : 1 .. MaxGeneration]
<1>3. requests \in Seq(Request)
  BY DEF IInv, TypeOK
<1> HIDE DEF Request
<1>4. message(item.event) \in Request
  BY <1>2, <1>3 DEF message
<1> USE DEF Request
<1> QED BY <1>1, <1>2, <1>4 DEF Generation, Items

(* Moving an item to another stage.                                        *)
LEMMA MoveFacts ==
  ASSUME IInv, NEW l \in Leases, NEW item \in work[l], NEW stage \in Stages, Move(l, item, stage)
  PROVE  LET moved == [item EXCEPT !.stage = stage]
         IN  /\ work' = [work EXCEPT ![l] = (work[l] \ {item}) \cup {moved}]
             /\ work' \in [Leases -> SUBSET Items]
             /\ moved.event = item.event /\ moved.stage = stage
             /\ UNCHANGED providers
<1> DEFINE moved == [item EXCEPT !.stage = stage]
<1>1. item \in Items
  BY ItemFacts
<1>2. moved \in Items /\ moved.event = item.event /\ moved.stage = stage
  BY <1>1 DEF Items
<1>3. work \in [Leases -> SUBSET Items]
  BY DEF IInv, TypeOK
<1>4. work' = [work EXCEPT ![l] = (work[l] \ {item}) \cup {moved}] /\ UNCHANGED providers
  BY DEF Move
<1> HIDE DEF moved
<1>5. work' \in [Leases -> SUBSET Items]
  BY <1>2, <1>3, <1>4
<1> QED BY <1>2, <1>4, <1>5 DEF moved

(* Dropping an item.                                                       *)
LEMMA FailFacts ==
  ASSUME IInv, NEW l \in Leases, NEW item, FailWith(l, item)
  PROVE  /\ work' \in [Leases -> SUBSET Items] /\ providers' \in [Leases -> Modes]
         /\ WorkQuiet
<1>1. work \in [Leases -> SUBSET Items] /\ providers \in [Leases -> Modes]
  BY DEF IInv, TypeOK
<1>2. work' = [work EXCEPT ![l] = work[l] \ {item}]
  BY DEF FailWith
<1>3. providers' \in [Leases -> Modes]
  BY <1>1 DEF FailWith, Broken, Modes
<1> QED BY <1>1, <1>2, <1>3 DEF WorkQuiet

-----------------------------------------------------------------------------
(* The initial state.                                                      *)
LEMMA InitInv == Init => IInv
<1> SUFFICES ASSUME Init PROVE IInv
  OBVIOUS
<1>1. Absent \in Entries
  BY AbsentType
<1>2. SoundRecord(NoRecord) /\ ~Dispatched(NoRecord)
  BY NoRecordSound
<1>3. TypeOK
  BY <1>1, <1>2, CallExecutionAssumption DEF Init, TypeOK, SoundRecord, Modes
<1>4. Named(entry)
  BY <1>1 DEF Init, Named, Absent
<1>5. RecordInv
  BY <1>2, FS_EmptySet DEF RecordInv, Init, NoRecord
<1>6. record.claims = {} /\ record.decision = "none" /\ Len(requests) = 0
  BY DEF Init, NoRecord
<1>7. RequestsOwned
  BY <1>6 DEF RequestsOwned
<1>8. ItemsPublished /\ NoForeignExecution /\ GrantOnce
  BY DEF Init, ItemsPublished, NoForeignExecution, GrantOnce
<1>9. GrantsAreDispatched /\ AtMostOnce
  BY <1>6 DEF Init, GrantsAreDispatched, AtMostOnce
<1> QED BY <1>3, <1>4, <1>5, <1>7, <1>8, <1>9 DEF IInv

-----------------------------------------------------------------------------
(* The clock: a record that is not retained is dropped.                    *)
LEMMA TickInv == ASSUME IInv, Tick PROVE StepInv
<1>1. RecordQuiet
  <2>1. CASE record' = NoRecord
    BY <2>1 DEF RecordQuiet
  <2>2. CASE record' = record
    BY <2>2, KeepsItself DEF RecordQuiet, IInv, RecordInv
  <2> QED BY <2>1, <2>2 DEF Tick
<1>2. record' \in Records
  BY <1>1, NoRecordSound DEF RecordQuiet, SoundRecord
<1>3. TypeOK'
  BY <1>2 DEF Tick, TypeOK, IInv
<1>4. Named(entry)' /\ UNCHANGED <<gen, requests, effects>> /\ WorkQuiet
  BY DEF Tick, IInv, WorkQuiet
<1> QED BY <1>1, <1>3, <1>4, QuietInv

(* A record left alone is quiet.                                           *)
LEMMA SameRecord == IInv /\ record' = record => RecordQuiet
  BY KeepsItself DEF RecordQuiet, IInv, RecordInv

(* A catalog operation, whatever it decides.                               *)
LEMMA CatalogStepInv ==
  ASSUME IInv, NEW d, Named(d.entry), CatalogStep(d),
         providers' \in [Leases -> Modes], UNCHANGED <<unacked, work, effects>>
  PROVE  StepInv
<1> DEFINE f == [d.entry EXCEPT !.epoch = 1, !.lastPong = 0]
<1>1. f \in Entries /\ f.state = d.entry.state /\ f.token = d.entry.token
  BY DEF Named, Entries
<1>2. Named(f)
  BY <1>1 DEF Named
<1> HIDE DEF f
<1>3. entry' = f \/ entry' = entry
  BY DEF CatalogStep, f
<1>4. Named(entry')
  BY <1>2, <1>3 DEF IInv
<1>5. UNCHANGED <<clock, record, gen, requests, retries, index, scan>>
  BY DEF CatalogStep, registryVars
<1>6. TypeOK'
  BY <1>4, <1>5 DEF TypeOK, IInv, Named
<1>7. WorkQuiet
  BY DEF WorkQuiet
<1> QED BY <1>4, <1>5, <1>6, <1>7, SameRecord, QuietInv

(* Registration, drain and release.                                        *)
LEMMA LeaseInv ==
  ASSUME IInv, NEW l \in Leases, RegisterProvider(l) \/ Stop(l) \/ ReleaseLease(l)
  PROVE  StepInv
<1>1. Named(entry) /\ clock \in Nat /\ AdmissionOf[l] \in Tokens /\ Settlement \in Nat
  BY CallExecutionAssumption DEF IInv, TypeOK
<1>2. providers \in [Leases -> Modes]
  BY DEF IInv, TypeOK
<1>3. CASE RegisterProvider(l)
  <2>1. Named(Register(entry, AdmissionOf[l], l, clock).entry)
    BY <1>1, RegisterNamed
  <2>2. providers' \in [Leases -> Modes]
    BY <1>2, <1>3 DEF RegisterProvider, Modes
  <2> QED BY <1>3, <2>1, <2>2, CatalogStepInv DEF RegisterProvider
<1>4. CASE Stop(l)
  <2>1. Named(DrainProvider(entry, AdmissionOf[l], l, clock, Settlement).entry)
    BY <1>1, DrainNamed
  <2>2. providers' \in [Leases -> Modes]
    BY <1>2, <1>4 DEF Stop, Modes
  <2> QED BY <1>4, <2>1, <2>2, CatalogStepInv DEF Stop
<1>5. CASE ReleaseLease(l)
  <2>1. Named(ReleaseProvider(entry, AdmissionOf[l], l, clock).entry)
    BY <1>1, ReleaseNamed
  <2>2. providers' \in [Leases -> Modes]
    BY <1>2, <1>5 DEF ReleaseLease, Modes
  <2> QED BY <1>5, <2>1, <2>2, CatalogStepInv DEF ReleaseLease
<1> QED BY <1>3, <1>4, <1>5

(* A provider stops, exits or crashes; a request is delivered.             *)
LEMMA ProcessInv ==
  ASSUME IInv, NEW l \in Leases,
         \/ StopUndrained(l) \/ ShutdownTimesOut(l) \/ Exit(l) \/ Crash(l)
         \/ \E event \in unacked : Receive(l, event)
  PROVE  StepInv
<1>1. providers \in [Leases -> Modes] /\ work \in [Leases -> SUBSET Items]
  BY DEF IInv, TypeOK
<1>2. UNCHANGED <<clock, entry, record, gen, requests, retries, index, scan, unacked, effects>>
  BY DEF StopUndrained, ShutdownTimesOut, Exit, Crash, Receive, registryVars
<1>3. providers' \in [Leases -> Modes]
  BY <1>1 DEF StopUndrained, ShutdownTimesOut, Exit, Crash, Receive, Modes
<1>4. work' \in [Leases -> SUBSET Items] /\ WorkQuiet
  <2>1. CASE \E event \in unacked : Receive(l, event)
    <3>1. PICK event \in unacked : Receive(l, event)
      BY <2>1
    <3> DEFINE item == [event |-> event, stage |-> "queued"]
    <3>2. event \in 1 .. Len(requests) /\ Len(requests) <= MaxRequests /\ Len(requests) \in Nat
      BY <3>1 DEF IInv, TypeOK
    <3>2a. event \in 1 .. MaxRequests
      BY <3>2, CallExecutionAssumption
    <3>3. item \in Items /\ item.event = event /\ item.stage = "queued"
      BY <3>2a DEF Items, Stages
    <3>4. work' = [work EXCEPT ![l] = work[l] \cup {item}]
      BY <3>1 DEF Receive
    <3> HIDE DEF item
    <3> QED BY <1>1, <3>2, <3>3, <3>4 DEF WorkQuiet
  <2>2. CASE Crash(l)
    BY <1>1, <2>2 DEF Crash, WorkQuiet
  <2>3. CASE StopUndrained(l) \/ ShutdownTimesOut(l) \/ Exit(l)
    BY <1>1, <2>3 DEF StopUndrained, ShutdownTimesOut, Exit, WorkQuiet
  <2> QED BY <2>1, <2>2, <2>3
<1>5. TypeOK'
  BY <1>2, <1>3, <1>4 DEF TypeOK, IInv
<1>6. Named(entry)'
  BY <1>2 DEF IInv
<1> QED BY <1>2, <1>4, <1>5, <1>6, SameRecord, QuietInv

(* A provider's script on the record: whatever it answers, the item moves  *)
(* to a stage that neither grants nor runs, is dropped, or stays.          *)
ItemQuiet(l, item) ==
    \/ UNCHANGED <<work, providers>>
    \/ FailWith(l, item)
    \/ \E stage \in {"queued", "settled"} : Move(l, item, stage)

(* What ItemQuiet leaves to providers.                                     *)
LEMMA ItemQuietFacts ==
  ASSUME IInv, NEW l \in Leases, NEW item \in work[l], ItemQuiet(l, item)
  PROVE  WorkQuiet /\ work' \in [Leases -> SUBSET Items] /\ providers' \in [Leases -> Modes]
<1>1. work \in [Leases -> SUBSET Items] /\ providers \in [Leases -> Modes]
  BY DEF IInv, TypeOK
<1>2. CASE UNCHANGED <<work, providers>>
  BY <1>1, <1>2 DEF WorkQuiet
<1>3. CASE FailWith(l, item)
  BY <1>3, FailFacts
<1>4. CASE \E stage \in {"queued", "settled"} : Move(l, item, stage)
  <2>1. PICK stage \in {"queued", "settled"} : Move(l, item, stage)
    BY <1>4
  <2>2. stage \in Stages /\ stage \notin {"granted", "executing"}
    BY DEF Stages
  <2> DEFINE moved == [item EXCEPT !.stage = stage]
  <2>3. /\ work' = [work EXCEPT ![l] = (work[l] \ {item}) \cup {moved}]
        /\ work' \in [Leases -> SUBSET Items]
        /\ moved.event = item.event /\ moved.stage = stage
        /\ UNCHANGED providers
    BY <2>1, <2>2, MoveFacts
  <2>4. item.event \in 1 .. Len(requests)
    BY ItemFacts
  <2> HIDE DEF moved
  <2> QED BY <1>1, <2>2, <2>3, <2>4 DEF WorkQuiet
<1> QED BY <1>2, <1>3, <1>4 DEF ItemQuiet

(* Any such script step keeps the invariant.                               *)
LEMMA ScriptInv ==
  ASSUME IInv, SoundRecord(record'), KeepsCall(record, record'),
         record'.dispatch = record.dispatch, IsFiniteSet(record'.reported),
         index' \in Nat, WorkQuiet, work' \in [Leases -> SUBSET Items],
         providers' \in [Leases -> Modes], unacked' \subseteq unacked,
         scan' \in {"none", "present", "missing"},
         UNCHANGED <<clock, entry, gen, requests, retries, effects>>
  PROVE  StepInv
<1>1. RecordQuiet
  BY DEF RecordQuiet
<1>2. TypeOK'
  BY DEF TypeOK, IInv, SoundRecord
<1>3. Named(entry)'
  BY DEF IInv
<1> QED BY <1>1, <1>2, <1>3, QuietInv

(* The reported overloads stay finitely many, so that they can be counted. *)
LEMMA ReportedCount == IInv => Cardinality(record.reported) + 1 \in Nat
  BY FS_CardinalityType DEF IInv, RecordInv

(* A request that meets a full queue.                                      *)
LEMMA OverloadedInv ==
  ASSUME IInv, NEW l \in Leases, NEW event \in unacked, ReceiveOverloaded(l, event)
  PROVE  StepInv
<1> DEFINE id == Cardinality(record.reported) + 1
           q == ReportOverload(record, entry, message(event).token, AdmissionOf[l], l, event, id, clock)
           item == [event |-> event, stage |-> "settled"]
<1>1. id \in Nat /\ SoundRecord(record) /\ IsFiniteSet(record.reported) /\ index \in Nat
  BY ReportedCount DEF IInv, RecordInv, TypeOK
<1>2. event \in 1 .. Len(requests) /\ Len(requests) <= MaxRequests /\ Len(requests) \in Nat
  BY DEF IInv, TypeOK
<1>3. event \in Nat /\ event \in 1 .. MaxRequests
  BY <1>2, CallExecutionAssumption
<1> HIDE DEF id
<1>4. OverloadOutcome(record, event, q)
  BY <1>1, <1>3, OverloadFacts
<1> HIDE DEF q
<1>5. IsFiniteSet(q.record.reported) /\ SoundRecord(q.record) /\ KeepsCall(record, q.record)
      /\ q.record.dispatch = record.dispatch
  BY <1>1, <1>4, FS_AddElement DEF OverloadOutcome
<1>6. record' = q.record /\ index' = IndexAfter(q.record)
  BY DEF ReceiveOverloaded, id, q
<1>7. index' \in Nat
  BY <1>1, <1>6 DEF IndexAfter
<1>8. item \in Items /\ item.event = event /\ item.stage = "settled"
  BY <1>3 DEF Items, Stages
<1>9. \/ work' = [work EXCEPT ![l] = work[l] \cup {item}] /\ providers' = providers
      \/ work' = work /\ providers' = Broken(l)
  BY DEF ReceiveOverloaded
<1> HIDE DEF item
<1>10. work \in [Leases -> SUBSET Items] /\ providers \in [Leases -> Modes]
  BY DEF IInv, TypeOK
<1>11. work' \in [Leases -> SUBSET Items] /\ WorkQuiet
  BY <1>2, <1>8, <1>9, <1>10 DEF WorkQuiet
<1>12. providers' \in [Leases -> Modes]
  BY <1>9, <1>10 DEF Broken, Modes
<1>13. UNCHANGED <<clock, entry, gen, requests, unacked, retries, scan, effects>> /\ scan \in {"none", "present", "missing"}
  BY DEF ReceiveOverloaded, IInv, TypeOK
<1> QED BY <1>5, <1>6, <1>7, <1>11, <1>12, <1>13, ScriptInv

(* Output and result of a call that runs; a request that fails; an         *)
(* acknowledgement.                                                        *)
LEMMA WorkerInv ==
  ASSUME IInv, NEW l \in Leases, NEW item \in work[l],
         \/ PublishOutputDelta(l, item) \/ CompleteToolCall(l, item)
         \/ RequestFails(l, item) \/ Acknowledge(l, item)
  PROVE  StepInv
<1>1. /\ SoundRecord(record) /\ IsFiniteSet(record.reported) /\ index \in Nat
      /\ scan \in {"none", "present", "missing"}
      /\ work \in [Leases -> SUBSET Items] /\ providers \in [Leases -> Modes]
  BY DEF IInv, RecordInv, TypeOK
<1>2. CASE PublishOutputDelta(l, item)
  <2> DEFINE s == PublishLiveEvent(record, entry, message(item.event).token, AdmissionOf[l], l,
                                   item.event, clock).record
  <2>1. SoundRecord(s) /\ KeepsCall(record, s) /\ s.dispatch = record.dispatch /\ s.reported = record.reported
    BY <1>1, LiveEventFacts
  <2>2. record' = s
    BY <1>2 DEF PublishOutputDelta
  <2> HIDE DEF s
  <2>3. UNCHANGED <<clock, entry, gen, requests, retries, index, scan, unacked, providers, work, effects>>
    BY <1>2 DEF PublishOutputDelta, providerVars
  <2>4. WorkQuiet
    BY <2>3 DEF WorkQuiet
  <2> QED BY <1>1, <2>1, <2>2, <2>3, <2>4, ScriptInv
<1>3. CASE CompleteToolCall(l, item)
  <2> DEFINE q == Complete(record, entry, message(item.event).token, AdmissionOf[l], l, item.event, clock)
  <2>1. /\ SoundRecord(q.record) /\ KeepsCall(record, q.record)
        /\ q.record.dispatch = record.dispatch /\ q.record.reported = record.reported
    BY <1>1, CompleteFacts
  <2>2. /\ record' = q.record /\ index' = IndexAfter(q.record)
        /\ FailWith(l, item) \/ Move(l, item, "settled")
        /\ UNCHANGED <<clock, entry, gen, requests, unacked, retries, scan, effects>>
    BY <1>3 DEF CompleteToolCall
  <2> HIDE DEF q
  <2>3. index' \in Nat /\ ItemQuiet(l, item)
    BY <1>1, <2>2 DEF IndexAfter, ItemQuiet
  <2>4. WorkQuiet /\ work' \in [Leases -> SUBSET Items] /\ providers' \in [Leases -> Modes]
    BY <2>3, ItemQuietFacts
  <2> QED BY <1>1, <2>1, <2>2, <2>3, <2>4, ScriptInv
<1>4. CASE RequestFails(l, item) \/ Acknowledge(l, item)
  <2>1. /\ UNCHANGED <<clock, entry, record, gen, requests, retries, index, scan, effects>>
        /\ unacked' \subseteq unacked
    BY <1>4 DEF RequestFails, Acknowledge, registryVars
  <2>2. FailWith(l, item) \/ (work' = [work EXCEPT ![l] = work[l] \ {item}] /\ providers' = providers)
    BY <1>4 DEF RequestFails, Acknowledge
  <2>3. WorkQuiet /\ work' \in [Leases -> SUBSET Items] /\ providers' \in [Leases -> Modes]
    <3>1. CASE FailWith(l, item)
      BY <3>1, FailFacts
    <3>2. CASE work' = [work EXCEPT ![l] = work[l] \ {item}] /\ providers' = providers
      BY <1>1, <3>2 DEF WorkQuiet
    <3> QED BY <2>2, <3>1, <3>2
  <2> QED BY <1>1, <2>1, <2>3, KeepsItself, ScriptInv
<1> QED BY <1>2, <1>3, <1>4

(* RetryTool, and the settlement of due and released claims.               *)
LEMMA SettlementInv ==
  ASSUME IInv,
         \/ RetryTool \/ ReadDueCalls \/ SettleDueCall \/ CleanUpMissingCall \/ ScanFails
         \/ \E l \in Leases : SettleReleasedLease(l)
  PROVE  StepInv
<1>1. /\ SoundRecord(record) /\ IsFiniteSet(record.reported) /\ index \in Nat
      /\ record \in Records /\ entry \in Entries /\ record.overload \in Nat
      /\ scan \in {"none", "present", "missing"}
      /\ work \in [Leases -> SUBSET Items] /\ providers \in [Leases -> Modes]
  BY DEF IInv, RecordInv, TypeOK, Records
<1>2. ASSUME NEW cause \in {"execution_deadline", "provider_lease_released"}, SettleClaim(cause)
      PROVE  /\ SoundRecord(record') /\ KeepsCall(record, record') /\ record'.dispatch = record.dispatch
             /\ IsFiniteSet(record'.reported) /\ index' \in Nat
  <2> DEFINE q == SettleLostClaim(record, entry, cause, clock)
  <2>1. cause \in Causes
    BY DEF Causes, UncertainCauses
  <2>2. /\ SoundRecord(q.record) /\ KeepsCall(record, q.record)
        /\ q.record.dispatch = record.dispatch /\ q.record.reported = record.reported
        /\ q.result = "rescore" => Dispatched(record)
    BY <1>1, <2>1, SettleLostFacts
  <2>3. record' = q.record /\ index' = IF q.result = "rescore" THEN SettlementScore(record, record.dispatch.lease) ELSE 0
    BY <1>2 DEF SettleClaim
  <2> HIDE DEF q
  <2>4. Dispatched(record) => record.dispatch.lease \in Leases
    BY <1>1, DispatchNamesLease
  <2>5. record.deadline \in Nat /\ \A l \in Leases : entry.expires[l] \in Nat
    BY <1>1 DEF Records, Entries
  <2>6. index' \in Nat
    BY <2>2, <2>3, <2>4, <2>5 DEF SettlementScore
  <2> QED BY <1>1, <2>2, <2>3, <2>6
<1>3. CASE RetryTool
  <2>1. UNCHANGED <<clock, entry, record, gen, requests, index, scan, unacked, providers, work, effects>>
    BY <1>3 DEF RetryTool, providerVars
  <2>2. retries' \subseteq Nat
    BY <1>1, <1>3 DEF RetryTool, IInv, TypeOK
  <2>3. TypeOK'
    BY <2>1, <2>2 DEF IInv, TypeOK
  <2>4. Named(entry)' /\ WorkQuiet
    BY <2>1 DEF IInv, WorkQuiet
  <2> QED BY <2>1, <2>3, <2>4, SameRecord, QuietInv
<1>4. CASE ReadDueCalls \/ CleanUpMissingCall \/ ScanFails
  <2>1. /\ UNCHANGED <<clock, entry, record, gen, requests, retries, unacked, providers, work, effects>>
        /\ index' \in Nat /\ scan' \in {"none", "present", "missing"}
    BY <1>1, <1>4 DEF ReadDueCalls, CleanUpMissingCall, ScanFails, providerVars
  <2>2. WorkQuiet
    BY <2>1 DEF WorkQuiet
  <2> QED BY <1>1, <2>1, <2>2, KeepsItself, ScriptInv
<1>5. CASE SettleDueCall
  <2>1. /\ UNCHANGED <<clock, entry, gen, requests, retries, unacked, providers, work, effects>>
        /\ scan' = "none"
        /\ UNCHANGED <<record, index>> \/ SettleClaim("execution_deadline")
    BY <1>5 DEF SettleDueCall, providerVars
  <2>2. WorkQuiet
    BY <2>1 DEF WorkQuiet
  <2>3. /\ SoundRecord(record') /\ KeepsCall(record, record') /\ record'.dispatch = record.dispatch
        /\ IsFiniteSet(record'.reported) /\ index' \in Nat
    BY <1>1, <1>2, <2>1, KeepsItself
  <2> QED BY <1>1, <2>1, <2>2, <2>3, ScriptInv
<1>6. CASE \E l \in Leases : SettleReleasedLease(l)
  <2>1. PICK l \in Leases : SettleReleasedLease(l)
    BY <1>6
  <2>2. /\ UNCHANGED <<clock, entry, gen, requests, retries, scan, unacked, work, effects>>
        /\ UNCHANGED <<record, index>> \/ SettleClaim("provider_lease_released")
        /\ providers' = [providers EXCEPT ![l] = "gone"]
    BY <2>1 DEF SettleReleasedLease
  <2>3. WorkQuiet /\ providers' \in [Leases -> Modes]
    BY <1>1, <2>2 DEF WorkQuiet, Modes
  <2>4. /\ SoundRecord(record') /\ KeepsCall(record, record') /\ record'.dispatch = record.dispatch
        /\ IsFiniteSet(record'.reported) /\ index' \in Nat
    BY <1>1, <1>2, <2>2, KeepsItself
  <2> QED BY <1>1, <2>2, <2>3, <2>4, ScriptInv
<1> QED BY <1>3, <1>4, <1>5, <1>6

-----------------------------------------------------------------------------
(* Steps that begin a record, publish, grant or start.                     *)

(* A new record: nothing of its generation exists yet.                     *)
LEMMA AdmitInv == ASSUME IInv, Admit PROVE StepInv
<1> DEFINE q == Ensure(record, Digest, entry.token, ExecutionTimeout, clock)
<1>1. /\ SoundRecord(record) /\ entry.token \in Tokens /\ Digest \in Digests
      /\ ExecutionTimeout \in Nat /\ clock \in Nat /\ gen \in Nat /\ gen < MaxGeneration /\ MaxGeneration \in Nat
  BY CallExecutionAssumption, CallRecordAssumption DEF IInv, RecordInv, TypeOK, Named, Admit
<1>2. EnsureOutcome(record, Digest, entry.token, q)
  BY <1>1, EnsureFacts
<1>3. record' = q.record /\ q.result = "created" /\ gen' = gen + 1
  BY DEF Admit
<1> HIDE DEF q
<1>3a. /\ SoundRecord(q.record) /\ record.decision = "none"
      /\ q.record.decision = "admitted" /\ q.record.claims = {} /\ q.record.reported = {}
      /\ q.record.dispatch = NotDispatched /\ q.record.pub = 0 /\ ~Terminal(q.record)
  BY <1>2, <1>3 DEF EnsureOutcome
<1>4. UNCHANGED <<clock, entry, requests, retries, index, scan, unacked, providers, work, effects>>
  BY DEF Admit, providerVars
<1>5. TypeOK'
  <2>1. gen' \in 0 .. MaxGeneration
    BY <1>1, <1>3
  <2> QED BY <1>3, <1>3a, <1>4, <2>1 DEF IInv, TypeOK, SoundRecord
<1>6. RecordInv'
  BY <1>3, <1>3a, FS_EmptySet DEF RecordInv
<1>7. /\ \A i \in 1 .. Len(requests) : requests[i].gen <= gen
      /\ \A i \in 1 .. Len(requests) : requests[i].gen \in 1 .. MaxGeneration
  <2> DEFINE Request == [token : Tokens, gen : 1 .. MaxGeneration]
  <2>1. requests \in Seq(Request)
    BY DEF IInv, TypeOK
  <2>2. \A x \in Request : x.gen \in 1 .. MaxGeneration
    OBVIOUS
  <2> HIDE DEF Request
  <2>3. \A i \in 1 .. Len(requests) : requests[i] \in Request
    BY <2>1
  <2> QED BY <2>2, <2>3 DEF IInv, RequestsOwned
<1>8. RequestsOwned'
  <2>1. \A i \in 1 .. Len(requests) : requests[i].gen <= gen + 1
    BY <1>1, <1>7
  <2> QED BY <1>1, <1>3, <1>3a, <1>4, <2>1 DEF RequestsOwned
<1>9. \A l \in Leases : \A i \in work[l] : Generation(i) # gen + 1
  <2> SUFFICES ASSUME NEW l \in Leases, NEW i \in work[l] PROVE Generation(i) # gen + 1
    OBVIOUS
  <2>1. i.event \in 1 .. Len(requests)
    BY ItemFacts
  <2>2. requests[i.event].gen <= gen /\ requests[i.event].gen \in 1 .. MaxGeneration
    BY <1>7, <2>1
  <2> QED BY <1>1, <2>2 DEF Generation, message
<1>10. ItemsPublished' /\ NoForeignExecution' /\ GrantOnce' /\ AtMostOnce' /\ Named(entry)'
  BY <1>4 DEF IInv, ItemsPublished, NoForeignExecution, GrantOnce, AtMostOnce, Generation, message
<1>11. GrantsAreDispatched'
  <2>1. \A g \in 1 .. MaxGeneration : g > gen => effects[g] = 0
    BY DEF IInv, GrantsAreDispatched
  <2>2. effects[gen + 1] = 0
    BY <1>1, <2>1
  <2>3. \A g \in 1 .. MaxGeneration : g > gen + 1 => effects[g] = 0
    BY <1>1, <2>1
  <2> QED BY <1>3, <1>4, <1>9, <2>2, <2>3 DEF GrantsAreDispatched, Generation, message
<1>12. Begun
  BY <1>3, <1>3a, <1>4 DEF Begun
<1> QED BY <1>5, <1>6, <1>8, <1>10, <1>11, <1>12 DEF IInv, StepInv, RecordStep

(* A publication appends a request of the current record, with its token,  *)
(* and makes it the latest the record's providers may claim.               *)
LEMMA AppendInv ==
  ASSUME IInv, NEW overload \in Nat, Append1(overload), retries' \subseteq retries,
         UNCHANGED <<clock, entry, gen, index, scan, providers, work, effects>>
  PROVE  StepInv
<1> DEFINE n == Len(requests)
           q == Publish(record, entry, Digest, record.token, overload, FALSE, n + 1, clock)
           new == [token |-> record.token, gen |-> gen]
           Request == [token : Tokens, gen : 1 .. MaxGeneration]
<1>1. requests \in Seq(Request) /\ n \in Nat /\ n + 1 \in Nat /\ n + 1 # 0 /\ SoundRecord(record)
  BY DEF IInv, TypeOK, RecordInv
<1>2. PublishOutcome(record, entry, Digest, record.token, overload, n + 1, clock, q)
  BY <1>1, PublishFacts
<1>3. /\ q.result = "published" /\ record' = q.record /\ n < MaxRequests
      /\ requests' = Append(requests, new) /\ unacked' = unacked \cup {n + 1}
  BY DEF Append1
<1> HIDE DEF q
<1>4. /\ SoundRecord(record') /\ record.decision = "admitted" /\ record'.decision = "admitted"
      /\ record'.token = record.token /\ record'.claims = record.claims \cup {n + 1}
      /\ record'.dispatch = record.dispatch /\ record'.reported = record.reported
      /\ ~Terminal(record) /\ record'.terminal = record.terminal /\ record'.pub = n + 1
  BY <1>1, <1>2, <1>3 DEF PublishOutcome
<1>5. record.token \in Tokens /\ gen \in 1 .. MaxGeneration /\ gen \in Nat
  BY <1>4 DEF IInv, TypeOK, RecordInv, SoundRecord, RequestsOwned
<1>6. new \in Request /\ new.token = record.token /\ new.gen = gen
  BY <1>5
<1> HIDE DEF Request, new
<1>7. /\ requests' \in Seq(Request) /\ Len(requests') = n + 1
      /\ \A i \in 1 .. n : requests'[i] = requests[i]
      /\ requests'[n + 1] = new
  BY <1>1, <1>3, <1>6
<1>8. TypeOK'
  <2>1. n + 1 <= MaxRequests
    BY <1>1, <1>3, CallExecutionAssumption
  <2>2. unacked' \subseteq 1 .. Len(requests')
    <3>1. unacked \subseteq 1 .. n
      BY DEF IInv, TypeOK
    <3>2. n \in Nat /\ unacked' = unacked \cup {n + 1} /\ Len(requests') = n + 1
      BY <1>1, <1>3, <1>7
    <3> HIDE DEF n
    <3> QED BY ONLY <3>1, <3>2
  <2>3. record' \in Records
    BY <1>4 DEF SoundRecord
  <2>4. requests' \in Seq([token : Tokens, gen : 1 .. MaxGeneration]) /\ Len(requests') <= MaxRequests
    BY <1>7, <2>1 DEF Request
  <2>5. /\ clock' \in Nat /\ entry' \in Entries /\ gen' \in 0 .. MaxGeneration
        /\ providers' \in [Leases -> Modes] /\ work' \in [Leases -> SUBSET Items]
        /\ index' \in Nat /\ scan' \in {"none", "present", "missing"}
        /\ effects' \in [1 .. MaxGeneration -> Nat]
    BY DEF IInv, TypeOK
  <2>6. retries' \subseteq Nat
    BY DEF IInv, TypeOK
  <2> QED BY <2>2, <2>3, <2>4, <2>5, <2>6 DEF TypeOK
<1>9. RecordInv'
  BY <1>4 DEF IInv, RecordInv
<1>10. RequestsOwned'
  <2>1. \A i \in 1 .. n : requests[i].gen <= gen
    BY DEF IInv, RequestsOwned
  <2>2. \A i \in 1 .. Len(requests') : requests'[i].gen <= gen
    <3> SUFFICES ASSUME NEW i \in 1 .. (n + 1) PROVE requests'[i].gen <= gen
      BY <1>7
    <3>1. CASE i \in 1 .. n
      BY <1>7, <2>1, <3>1
    <3>2. CASE i = n + 1
      BY <1>5, <1>6, <1>7, <3>2
    <3> QED BY <1>1, <3>1, <3>2
  <2>3. \A i \in record.claims : i \in 1 .. n /\ requests[i].gen = gen /\ requests[i].token = record.token
    BY DEF IInv, RequestsOwned
  <2>4. \A i \in 1 .. n : i \in 1 .. (n + 1)
    BY <1>1
  <2>5. \A i \in record'.claims :
           i \in 1 .. Len(requests') /\ requests'[i].gen = gen /\ requests'[i].token = record.token
    BY <1>1, <1>4, <1>6, <1>7, <2>3, <2>4
  <2> QED BY <1>4, <1>5, <2>2, <2>5 DEF RequestsOwned
<1>11. \A l \in Leases : \A i \in work[l] :
          i.event \in 1 .. n /\ message(i.event)' = message(i.event) /\ Generation(i)' = Generation(i)
  BY <1>7 DEF IInv, ItemsPublished, message, Generation
<1>12. ItemsPublished'
  BY <1>1, <1>7, <1>11 DEF ItemsPublished
<1>13. NoForeignExecution' /\ GrantOnce' /\ AtMostOnce' /\ Named(entry)'
  BY <1>11 DEF IInv, NoForeignExecution, GrantOnce, AtMostOnce
<1>14. Dispatched(record') <=> Dispatched(record)
  BY <1>4 DEF Dispatched
<1>15. GrantsAreDispatched'
  BY <1>4, <1>11, <1>14 DEF IInv, GrantsAreDispatched
<1>16. Appended
  BY <1>1, <1>4 DEF Appended
<1> QED BY <1>8, <1>9, <1>10, <1>12, <1>13, <1>15, <1>16 DEF IInv, StepInv, RecordStep

(* The first publication, and the answer to an overload.                   *)
LEMMA PublicationInv ==
  ASSUME IInv, PublishCall \/ \E overload \in retries : PublishRetry(overload)
  PROVE  StepInv
<1>1. CASE PublishCall
  <2>1. Append1(0) /\ UNCHANGED <<clock, entry, gen, retries, index, scan, providers, work, effects>>
    BY <1>1 DEF PublishCall
  <2> QED BY <2>1, AppendInv
<1>2. CASE \E overload \in retries : PublishRetry(overload)
  <2>1. PICK overload \in retries : PublishRetry(overload)
    BY <1>2
  <2>2. /\ overload \in Nat /\ retries' \subseteq retries
        /\ UNCHANGED <<clock, entry, gen, index, scan, providers, work, effects>>
    BY <2>1 DEF PublishRetry, IInv, TypeOK
  <2>3. CASE Append1(overload)
    BY <2>2, <2>3, AppendInv
  <2>4. CASE UNCHANGED <<record, requests, unacked>>
    <3>1. TypeOK'
      BY <2>2, <2>4 DEF IInv, TypeOK
    <3>2. Named(entry)' /\ WorkQuiet
      BY <2>2, <2>4 DEF IInv, WorkQuiet
    <3> QED BY <2>2, <2>4, <3>1, <3>2, SameRecord, QuietInv
  <2> QED BY <2>1, <2>3, <2>4 DEF PublishRetry
<1> QED BY <1>1, <1>2

(* The claim script's grant, whether its reply arrives or is lost.         *)
LEMMA GrantInv ==
  ASSUME IInv, NEW l \in Leases, NEW item \in work[l], NEW q,
         ClaimOutcome(record, message(item.event).token, AdmissionOf[l], l, item.event, q),
         q.result = "execute", record' = q.record, index' \in Nat,
         FailWith(l, item) \/ Move(l, item, "granted"),
         UNCHANGED <<clock, entry, gen, requests, unacked, retries, scan, effects>>
  PROVE  StepInv
<1> DEFINE x == [token |-> AdmissionOf[l], lease |-> l, event |-> item.event]
<1>1. /\ SoundRecord(record') /\ KeepsCall(record, record') /\ record'.reported = record.reported
      /\ ~Dispatched(record) /\ ~Terminal(record) /\ record.decision # "none"
      /\ item.event \in record.claims /\ message(item.event).token = AdmissionOf[l]
      /\ record'.dispatch = x /\ record'.terminal = record.terminal
  BY DEF ClaimOutcome
<1>2. x # NotDispatched /\ x.lease \in Leases
  BY CallRecordAssumption DEF NotDispatched
<1> HIDE DEF x
<1>3. Dispatched(record')
  BY <1>1, <1>2 DEF Dispatched
<1>4. record'.decision = record.decision /\ record'.claims = record.claims /\ record'.token = record.token
  BY <1>1 DEF KeepsCall
<1>5. RecordInv' /\ RequestsOwned' /\ Named(entry)' /\ AtMostOnce'
  BY <1>1, <1>4 DEF IInv, RecordInv, RequestsOwned, AtMostOnce
<1>6. work' \in [Leases -> SUBSET Items] /\ providers' \in [Leases -> Modes]
  <2>1. CASE FailWith(l, item)
    BY <2>1, FailFacts
  <2>2. CASE Move(l, item, "granted")
    BY <2>2, MoveFacts DEF Stages, IInv, TypeOK
  <2> QED BY <2>1, <2>2
<1>7. TypeOK'
  BY <1>1, <1>6 DEF IInv, TypeOK, SoundRecord
<1>8. Generation(item) = gen /\ item.event \in 1 .. Len(requests)
  BY <1>1 DEF IInv, RequestsOwned, Generation, message
<1>9. /\ effects[gen] = 0
      /\ \A m \in Leases : \A j \in work[m] : j.stage = "granted" => Generation(j) # gen
  BY <1>1 DEF IInv, GrantsAreDispatched
<1>10. \A m \in Leases : \A j \in work'[m] :
          \/ j \in work[m]
          \/ m = l /\ j.event = item.event /\ j.stage = "granted" /\ j = [item EXCEPT !.stage = "granted"]
  <2>1. work \in [Leases -> SUBSET Items]
    BY DEF IInv, TypeOK
  <2>2. CASE FailWith(l, item)
    BY <2>1, <2>2 DEF FailWith
  <2>3. CASE Move(l, item, "granted")
    <3> DEFINE moved == [item EXCEPT !.stage = "granted"]
    <3>1. /\ work' = [work EXCEPT ![l] = (work[l] \ {item}) \cup {moved}]
          /\ moved.event = item.event /\ moved.stage = "granted"
      BY <2>3, MoveFacts DEF Stages
    <3> HIDE DEF moved
    <3>2. \A m \in Leases : \A j \in work'[m] : j \in work[m] \/ (m = l /\ j = moved)
      BY <2>1, <3>1
    <3> QED BY <3>1, <3>2 DEF moved
  <2> QED BY <2>2, <2>3
<1>11. \A j : Generation(j)' = Generation(j) /\ message(j.event)' = message(j.event)
  BY DEF Generation, message
<1>12. ItemsPublished'
  BY <1>8, <1>10 DEF IInv, ItemsPublished
<1>13. NoForeignExecution'
  BY <1>1, <1>10, <1>11 DEF IInv, NoForeignExecution
<1>14. \A m \in Leases : \A j \in work'[m] : j.stage = "granted" =>
          \/ j \in work[m] /\ Generation(j) # gen
          \/ m = l /\ j = [item EXCEPT !.stage = "granted"] /\ Generation(j) = gen
  BY <1>8, <1>9, <1>10 DEF Generation
<1>15. GrantOnce'
  BY <1>9, <1>11, <1>14 DEF IInv, GrantOnce
<1>16. GrantsAreDispatched'
  BY <1>3 DEF IInv, GrantsAreDispatched
<1>17. Published(record)
  BY <1>1 DEF IInv, RecordInv, SoundRecord
<1>18. Granted
  BY <1>1, <1>2, <1>3, <1>17 DEF Granted, KeepsCall
<1> QED BY <1>5, <1>7, <1>12, <1>13, <1>15, <1>16, <1>18 DEF IInv, StepInv, RecordStep

(* A claim, granted or not.                                                *)
LEMMA ClaimInv ==
  ASSUME IInv, NEW l \in Leases, NEW item \in work[l], ClaimToolCall(l, item)
  PROVE  StepInv
<1> DEFINE c == message(item.event).token
           q == Claim(record, entry, c, AdmissionOf[l], l, item.event, clock)
<1>1. /\ SoundRecord(record) /\ IsFiniteSet(record.reported) /\ c \in Tokens
      /\ item.event \in Nat /\ AdmissionOf[l] \in Tokens /\ index \in Nat
      /\ entry \in Entries /\ scan \in {"none", "present", "missing"}
  BY ItemFacts, CallExecutionAssumption DEF IInv, RecordInv, TypeOK
<1>2. ClaimOutcome(record, c, AdmissionOf[l], l, item.event, q)
  BY <1>1, ClaimFacts
<1>3. /\ record' = q.record
      /\ index' = IF q.result = "execute" THEN SettlementScore(q.record, l) ELSE IndexAfter(q.record)
      /\ \/ FailWith(l, item)
         \/ Move(l, item, IF q.result = "execute" THEN "granted" ELSE "settled")
      /\ UNCHANGED <<clock, entry, gen, requests, unacked, retries, scan, effects>>
  BY DEF ClaimToolCall
<1> HIDE DEF q
<1>4. SoundRecord(q.record) /\ KeepsCall(record, q.record) /\ q.record.reported = record.reported
  BY <1>2 DEF ClaimOutcome
<1>5. index' \in Nat
  BY <1>1, <1>3, <1>4 DEF SettlementScore, IndexAfter, SoundRecord, Records, Entries
<1>6. CASE q.result = "execute"
  BY <1>2, <1>3, <1>5, <1>6, GrantInv
<1>7. CASE q.result # "execute"
  <2>1. q.record.dispatch = record.dispatch
    BY <1>2, <1>7 DEF ClaimOutcome
  <2>2. ItemQuiet(l, item)
    BY <1>3, <1>7 DEF ItemQuiet
  <2>3. WorkQuiet /\ work' \in [Leases -> SUBSET Items] /\ providers' \in [Leases -> Modes]
    BY <2>2, ItemQuietFacts
  <2> QED BY <1>1, <1>3, <1>4, <1>5, <2>1, <2>3, ScriptInv
<1> QED BY <1>6, <1>7

(* The start of a handler uses up the only grant of its generation.        *)
LEMMA HandleInv ==
  ASSUME IInv, NEW l \in Leases, NEW item \in work[l], HandleToolCall(l, item)
  PROVE  StepInv
<1> DEFINE g == Generation(item)
           moved == [item EXCEPT !.stage = "executing"]
<1>1. g \in 1 .. MaxGeneration /\ item.event \in 1 .. Len(requests) /\ item.stage = "granted"
  BY ItemFacts DEF HandleToolCall
<1>2. /\ Move(l, item, "executing")
      /\ effects' = [effects EXCEPT ![g] = effects[g] + 1]
      /\ UNCHANGED <<clock, entry, unacked, record, gen, requests, retries, index, scan>>
  BY DEF HandleToolCall, registryVars, Generation
<1>3. /\ work' = [work EXCEPT ![l] = (work[l] \ {item}) \cup {moved}]
      /\ work' \in [Leases -> SUBSET Items]
      /\ moved.event = item.event /\ moved.stage = "executing"
      /\ UNCHANGED providers
  BY <1>2, MoveFacts DEF Stages
<1> HIDE DEF moved
<1>4. effects[g] = 0 /\ effects \in [1 .. MaxGeneration -> Nat] /\ work \in [Leases -> SUBSET Items]
  BY <1>1 DEF IInv, GrantOnce, TypeOK
<1>5. effects' \in [1 .. MaxGeneration -> Nat] /\ effects'[g] = 1 /\ \A k \in 1 .. MaxGeneration : k # g => effects'[k] = effects[k]
  BY <1>1, <1>2, <1>4
<1>6. TypeOK' /\ Named(entry)' /\ RecordInv' /\ RequestsOwned'
  BY <1>2, <1>3, <1>5 DEF IInv, TypeOK, RecordInv, RequestsOwned
<1>7. \A j : Generation(j)' = Generation(j) /\ message(j.event)' = message(j.event)
  BY <1>2 DEF Generation, message
<1>8. \A m \in Leases : \A j \in work'[m] : j \in work[m] \/ (m = l /\ j = moved)
  BY <1>3, <1>4
<1>9. \A m \in Leases : \A j \in work'[m] :
         j.stage = "granted" => j \in work[m] /\ Generation(j) # g /\ Generation(j) \in 1 .. MaxGeneration
  <2> SUFFICES ASSUME NEW m \in Leases, NEW j \in work'[m], j.stage = "granted"
               PROVE  j \in work[m] /\ Generation(j) # g /\ Generation(j) \in 1 .. MaxGeneration
    OBVIOUS
  <2>1. j \in work[m] /\ ~(m = l /\ j = item)
    BY <1>1, <1>3, <1>4, <1>8
  <2>2. Generation(j) # Generation(item)
    BY <1>1, <2>1 DEF IInv, GrantOnce
  <2> QED BY <2>1, <2>2, ItemFacts
<1>10. ItemsPublished'
  BY <1>1, <1>2, <1>3, <1>8 DEF IInv, ItemsPublished
<1>11. NoForeignExecution'
  BY <1>1, <1>3, <1>7, <1>8 DEF IInv, NoForeignExecution
<1>12. GrantOnce'
  BY <1>5, <1>7, <1>9 DEF IInv, GrantOnce
<1>13. g <= gen
  BY <1>1 DEF IInv, RequestsOwned, Generation, message
<1>14. GrantsAreDispatched'
  <2>1. \A k \in 1 .. MaxGeneration : k > gen => effects'[k] = 0
    <3> SUFFICES ASSUME NEW k \in 1 .. MaxGeneration, k > gen PROVE effects'[k] = 0
      OBVIOUS
    <3>1. k # g /\ effects[k] = 0
      BY <1>1, <1>13 DEF IInv, GrantsAreDispatched, TypeOK
    <3> QED BY <1>5, <3>1
  <2>2. ASSUME record.decision # "none", ~Dispatched(record)
        PROVE  /\ effects'[gen] = 0
               /\ \A m \in Leases : \A j \in work'[m] : j.stage = "granted" => Generation(j) # gen
    <3>1. g # gen /\ effects[gen] = 0
      BY <1>1, <2>2 DEF IInv, GrantsAreDispatched
    <3>2. gen \in 1 .. MaxGeneration
      BY <2>2 DEF IInv, TypeOK, RequestsOwned
    <3> QED BY <1>5, <1>9, <2>2, <3>1, <3>2 DEF IInv, GrantsAreDispatched
  <2> QED BY <1>2, <1>7, <2>1, <2>2 DEF GrantsAreDispatched
<1>15. AtMostOnce'
  BY <1>1, <1>5 DEF IInv, AtMostOnce
<1>16. record.decision # "none" /\ g = gen => Dispatched(record)
  BY <1>1 DEF IInv, GrantsAreDispatched
<1>17. Started
  BY <1>1, <1>2, <1>4, <1>16 DEF Started
<1> QED BY <1>6, <1>10, <1>11, <1>12, <1>14, <1>15, <1>17 DEF IInv, StepInv, RecordStep

-----------------------------------------------------------------------------
(* Every step keeps the invariant.                                         *)
LEMMA NextStep == IInv /\ [Next]_vars => StepInv
<1> SUFFICES ASSUME IInv, [Next]_vars PROVE StepInv
  OBVIOUS
<1>1. CASE UNCHANGED vars
  <2>1. UNCHANGED <<clock, entry, record, gen, requests, unacked, providers, work, retries, index, scan, effects>>
    BY <1>1 DEF vars
  <2>2. TypeOK' /\ Named(entry)' /\ WorkQuiet
    BY <2>1 DEF IInv, TypeOK, WorkQuiet
  <2> QED BY <2>1, <2>2, SameRecord, QuietInv
<1>2. CASE Tick
  BY <1>2, TickInv
<1>3. CASE Admit
  BY <1>3, AdmitInv
<1>4. CASE PublishCall \/ \E overload \in retries : PublishRetry(overload)
  BY <1>4, PublicationInv
<1>5. CASE RetryTool \/ SettleDue \/ ScanFails \/ \E l \in Leases : SettleReleasedLease(l)
  BY <1>5, SettlementInv DEF SettleDue
<1>6. ASSUME NEW l \in Leases, ProviderStep(l) PROVE StepInv
  <2>1. CASE RegisterProvider(l) \/ Stop(l) \/ ReleaseLease(l)
    BY <2>1, LeaseInv
  <2>2. CASE \/ StopUndrained(l) \/ ShutdownTimesOut(l) \/ Exit(l) \/ Crash(l)
             \/ \E event \in unacked : Receive(l, event)
    BY <2>2, ProcessInv
  <2>3. ASSUME NEW event \in unacked, ReceiveOverloaded(l, event) PROVE StepInv
    BY <2>3, OverloadedInv
  <2>4. ASSUME NEW item \in work[l], ClaimToolCall(l, item) PROVE StepInv
    BY <2>4, ClaimInv
  <2>5. ASSUME NEW item \in work[l], HandleToolCall(l, item) PROVE StepInv
    BY <2>5, HandleInv
  <2>6. ASSUME NEW item \in work[l],
               \/ PublishOutputDelta(l, item) \/ CompleteToolCall(l, item)
               \/ RequestFails(l, item) \/ Acknowledge(l, item)
        PROVE  StepInv
    BY <2>6, WorkerInv
  <2> QED BY <1>6, <2>1, <2>2, <2>3, <2>4, <2>5, <2>6 DEF ProviderStep
<1> QED BY <1>1, <1>2, <1>3, <1>4, <1>5, <1>6 DEF Next

(* The invariant holds throughout.                                         *)
LEMMA SpecInv == Spec => []IInv
<1>1. IInv /\ [Next]_vars => IInv'
  BY NextStep DEF StepInv
<1> QED BY <1>1, InitInv, PTL DEF Spec

(* Types.                                                                  *)
THEOREM ExecutionTypes == Spec => []TypeOK
<1>1. IInv => TypeOK
  BY DEF IInv
<1> QED BY <1>1, SpecInv, PTL

(* Whatever is redelivered, retried, lost or expired, a tool handler is    *)
(* started at most once for one record of the identity.                    *)
THEOREM RunsAtMostOnce == Spec => []AtMostOnce
<1>1. IInv => AtMostOnce
  BY DEF IInv
<1> QED BY <1>1, SpecInv, PTL

(* The request a call is dispatched for was published by the same record.  *)
THEOREM ClaimsAreOwn == Spec => []ClaimsOwnRequest
<1>1. IInv => ClaimsOwnRequest
  BY DEF IInv, ClaimsOwnRequest, RecordInv, SoundRecord, RequestsOwned, message
<1> QED BY <1>1, SpecInv, PTL

(* No provider is granted or runs a call published to another admission.   *)
THEOREM ForeignCallsNeverRun == Spec => []NoForeignExecution
<1>1. IInv => NoForeignExecution
  BY DEF IInv
<1> QED BY <1>1, SpecInv, PTL

(* Of the completion, the settlement and the stale rejection of a call,    *)
(* the first to commit is final until the record expires.                  *)
THEOREM FirstResultStands == Spec => TerminalIsFinal
<1>1. IInv /\ [Next]_vars => [Terminal(record) => record'.terminal = record.terminal \/ record' = NoRecord]_vars
  <2> SUFFICES ASSUME IInv, [Next]_vars, Terminal(record)
               PROVE  record'.terminal = record.terminal \/ record' = NoRecord
    OBVIOUS
  <2>1. RecordStep
    BY NextStep DEF StepInv
  <2>2. ~Begun
    <3>1. record.decision = "none" => ~Terminal(record)
      BY NoRecordSound DEF IInv, RecordInv, SoundRecord
    <3> QED BY <3>1 DEF Begun
  <2> QED BY <2>1, <2>2 DEF RecordStep, RecordQuiet, KeepsCall, Appended, Granted, Started
<1> QED BY <1>1, SpecInv, PTL DEF Spec, TerminalIsFinal

-----------------------------------------------------------------------------
(* The contract with callers.                                              *)

ran == IF record.decision = "none" THEN 0 ELSE effects[gen]

(* One step of the record is a step of the contract, or none.              *)
LEMMA StepKeepsContract ==
  ASSUME IInv, IInv', RecordStep
  PROVE  [Contract!Next]_(Contract!vars)
<1>1. record.decision \in {"none", "admitted"} /\ record'.decision \in {"none", "admitted"}
  BY DEF IInv, RecordInv, SoundRecord, Records
<1>2. /\ record.decision = "none" => record = NoRecord
      /\ Terminal(record) => Published(record)
      /\ Dispatched(record) => Published(record)
      /\ Dispatched(record) <=> record.dispatch.lease \in Leases
      /\ record.dispatch.lease \in Leases \cup {NoLease}
  BY DispatchNamesLease DEF IInv, RecordInv, SoundRecord, Records
<1>3. Phase(NoRecord) = "none" /\ NoRecord.dispatch.lease = NoLease
  BY DEF Phase, NoRecord, NotDispatched
<1>4. record.decision = "none" => Phase(record) = "none" /\ record.dispatch.lease = NoLease /\ ran = 0
  BY <1>2, <1>3 DEF ran
<1>5. CASE RecordQuiet /\ UNCHANGED <<gen, effects>>
  <2>1. CASE record' = NoRecord
    <3>1. Phase(record') = "none" /\ record'.dispatch.lease = NoLease /\ ran' = 0
      BY <1>3, <2>1 DEF ran, NoRecord
    <3>2. CASE record.decision = "none"
      BY <1>4, <3>1, <3>2 DEF Contract!vars, ran
    <3>3. CASE record.decision = "admitted"
      <4>1. Phase(record) # "none"
        BY <3>3 DEF Phase
      <4>2. Contract!Forget
        BY <3>1, <4>1 DEF Contract!Forget, ran
      <4> QED BY <4>2 DEF Contract!Next
    <3> QED BY <1>1, <3>2, <3>3
  <2>2. CASE record' # NoRecord
    <3>1. /\ record'.decision = record.decision /\ record'.pub = record.pub
          /\ Terminal(record) => record'.terminal = record.terminal
          /\ record'.dispatch = record.dispatch
      BY <1>5, <2>2 DEF RecordQuiet, KeepsCall
    <3>2. ran' = ran
      BY <1>5, <3>1 DEF ran
    <3>3. CASE record'.terminal = record.terminal
      <4>1. Phase(record') = Phase(record)
        BY <3>1, <3>3 DEF Phase, Terminal, Dispatched, Published
      <4> QED BY <3>1, <3>2, <4>1 DEF Contract!vars, ran
    <3>4. CASE ~Terminal(record) /\ Terminal(record')
      <4>1. Published(record') /\ record'.decision # "none"
        BY <3>4, NoRecordSound DEF IInv, RecordInv, SoundRecord
      <4>2. Phase(record) \in {"published", "claimed"} /\ Phase(record') = "settled"
        BY <1>1, <3>1, <3>4, <4>1 DEF Phase, Published
      <4>3. Contract!Settle
        BY <3>1, <3>2, <4>2 DEF Contract!Settle, ran
      <4> QED BY <4>3 DEF Contract!Next
    <3> QED BY <3>1, <3>3, <3>4 DEF Terminal
  <2> QED BY <2>1, <2>2
<1>6. CASE Begun
  <2>1. gen + 1 \in 1 .. MaxGeneration /\ gen + 1 > gen
    BY <1>6 DEF IInv, TypeOK, Begun
  <2>2. effects[gen + 1] = 0
    BY <2>1 DEF IInv, GrantsAreDispatched
  <2>3. ran' = 0 /\ record'.dispatch.lease = NoLease
    BY <1>6, <2>2 DEF Begun, ran, NotDispatched
  <2>4. Phase(record') = "admitted"
    BY <1>6 DEF Begun, Phase, Published, Dispatched
  <2>5. Contract!Admit
    BY <1>4, <1>6, <2>3, <2>4 DEF Contract!Admit, Begun, ran
  <2> QED BY <2>5 DEF Contract!Next
<1>7. CASE Appended
  <2>1. ran' = ran /\ record'.dispatch = record.dispatch
    BY <1>7 DEF Appended, ran
  <2>2. ~Terminal(record') /\ (Dispatched(record') <=> Dispatched(record)) /\ Published(record')
    BY <1>7 DEF Appended, Terminal, Dispatched, Published
  <2>3. CASE Published(record)
    <3>1. Phase(record') = Phase(record)
      BY <1>7, <2>2, <2>3 DEF Phase, Appended
    <3> QED BY <2>1, <3>1 DEF Contract!vars, ran
  <2>4. CASE ~Published(record)
    <3>1. Phase(record) = "admitted" /\ Phase(record') = "published"
      BY <1>2, <1>7, <2>2, <2>4 DEF Phase, Appended
    <3>2. Contract!Publish
      BY <2>1, <3>1 DEF Contract!Publish, ran
    <3> QED BY <3>2 DEF Contract!Next
  <2> QED BY <2>3, <2>4
<1>8. CASE Granted
  <2>1. record.decision = "admitted" /\ ran' = ran
    BY <1>1, <1>2, <1>8 DEF Granted, ran, Published, NoRecord
  <2>2. Phase(record) = "published" /\ Phase(record') = "claimed"
    BY <1>8, <2>1 DEF Granted, Phase, Terminal, Published
  <2>3. \E l \in Leases : Contract!Claim(l)
    BY <1>8, <2>1, <2>2 DEF Granted, Contract!Claim, ran
  <2> QED BY <2>3 DEF Contract!Next
<1>9. CASE Started
  <2>1. PICK g \in 1 .. MaxGeneration :
            /\ effects' = [effects EXCEPT ![g] = effects[g] + 1] /\ effects[g] = 0
            /\ record.decision # "none" /\ g = gen => Dispatched(record)
    BY <1>9 DEF Started
  <2>2. UNCHANGED <<record, gen>> /\ effects \in [1 .. MaxGeneration -> Nat]
    BY <1>9 DEF Started, IInv, TypeOK
  <2>3. CASE record.decision # "none" /\ g = gen
    <3>1. ran = 0 /\ ran' = 1
      BY <2>1, <2>2, <2>3 DEF ran
    <3>2. Phase(record) \in {"claimed", "settled"} /\ record.dispatch.lease # NoLease
      BY <1>1, <1>2, <2>1, <2>3, CallRecordAssumption DEF Phase
    <3>3. Contract!Run
      BY <2>2, <3>1, <3>2 DEF Contract!Run, ran
    <3> QED BY <3>3 DEF Contract!Next
  <2>4. CASE ~(record.decision # "none" /\ g = gen)
    <3>1. record.decision # "none" => gen \in 1 .. MaxGeneration
      BY DEF IInv, TypeOK, RequestsOwned
    <3>2. ran' = ran
      BY <2>1, <2>2, <2>4, <3>1 DEF ran
    <3> QED BY <2>2, <3>2 DEF Contract!vars, ran
  <2> QED BY <2>3, <2>4
<1> QED BY <1>5, <1>6, <1>7, <1>8, <1>9 DEF RecordStep

(* Publication, claims, runs and settlement of the identity implement the  *)
(* contract with callers: one decision, one holder, one run, one result.   *)
THEOREM ContractKept == Spec => ImplementsContract
<1>1. Init => Contract!Init
  BY DEF Init, Contract!Init, Phase, NoRecord, NotDispatched
<1>2. IInv /\ [Next]_vars => [Contract!Next]_(Contract!vars)
  BY NextStep, StepKeepsContract DEF StepInv
<1> QED BY <1>1, <1>2, SpecInv, PTL DEF Spec, Contract!Spec, ImplementsContract
=============================================================================
