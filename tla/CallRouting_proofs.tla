------------------------ MODULE CallRouting_proofs ------------------------
(***************************************************************************)
(* Proofs about racing CallTool handlers, for any handlers, registrations, *)
(* payloads, timeouts and bounds: callers of one record agree, its request *)
(* is appended once and to the admission that was validated, and the       *)
(* handlers take the record through the contract with callers.             *)
(*                                                                         *)
(* The invariant relates four things that are written in different steps:  *)
(* the record, the stream, the answers given, and what a handler that has  *)
(* published still carries while the record may expire under it.           *)
(***************************************************************************)
EXTENDS CallRouting, CatalogEntry_proofs, CallRecord_proofs

(* A decision that no handler may change any more.                         *)
Decided(r) == r.decision = "rejected" \/ Published(r)

(* Routing neither dispatches nor settles, and admits only validated       *)
(* registrations.                                                          *)
RecordInv ==
    /\ SoundRecord(record) /\ ~Dispatched(record) /\ ~Terminal(record)
    /\ record.decision # "none" => record.digest \in Digests /\ gen > 0
    /\ record.decision = "admitted" => record.token \in Accepts

(* One request per record, and one for the current record exactly when it  *)
(* says so.                                                                *)
StreamInv ==
    /\ \A i \in 1 .. Len(requests) : requests[i].gen <= gen
    /\ \A i, j \in 1 .. Len(requests) : requests[i].gen = requests[j].gen => i = j
    /\ Published(record) =>
          \E i \in 1 .. Len(requests) : requests[i].gen = gen /\ requests[i].token = record.token
    /\ record.decision # "none" /\ ~Published(record) =>
          \A i \in 1 .. Len(requests) : requests[i].gen # gen

(* Answers are those of decided records, and match the stream.             *)
AnswersInv ==
    /\ \A a \in answers : a.gen <= gen
    /\ \A a \in answers : a.gen = gen /\ record.decision # "none" =>
          Decided(record) /\ a.digest = record.digest /\ a.token = record.token
    /\ \A a, b \in answers : a.gen = b.gen => a = b
    /\ \A a \in answers : \A i \in 1 .. Len(requests) :
          a.gen = requests[i].gen => a.token = requests[i].token

(* A handler that has published, or found the call published, carries what *)
(* every other caller of that record is told.                              *)
OpenedInv ==
    \A h \in Handlers : handlers[h].pc = "opened" =>
        /\ \E i \in 1 .. Len(requests) :
              requests[i].gen = handlers[h].gen /\ requests[i].token = handlers[h].token
        /\ handlers[h].gen = gen /\ record.decision # "none" =>
              Published(record) /\ record.digest = handlers[h].digest /\ record.token = handlers[h].token
        /\ \A a \in answers : a.gen = handlers[h].gen =>
              a.digest = handlers[h].digest /\ a.token = handlers[h].token
        /\ \A k \in Handlers : handlers[k].pc = "opened" /\ handlers[k].gen = handlers[h].gen =>
              handlers[k].digest = handlers[h].digest /\ handlers[k].token = handlers[h].token

(* A handler under way asks for one digest, and ensures only a             *)
(* registration whose schema it validated.                                 *)
Validated(x) ==
    /\ x.pc # "idle" => x.digest \in Digests
    /\ x.pc \in {"health", "ensure"} => x.token \in Accepts

HandlersInv == \A h \in Handlers : Validated(handlers[h])

IInv ==
    /\ TypeOK
    /\ Named(entry)
    /\ RecordInv
    /\ StreamInv
    /\ AnswersInv
    /\ OpenedInv
    /\ HandlersInv

-----------------------------------------------------------------------------
(* The steps.                                                              *)

(* No handler reaches the result stream in the step.                       *)
HandlersQuiet ==
    /\ handlers' \in [Handlers -> HandlerStates]
    /\ \A k \in Handlers :
          handlers'[k] = handlers[k] \/ (handlers'[k].pc # "opened" /\ Validated(handlers'[k]))

(* A record is left alone, begun, or, unpublished, moved or rejected.      *)
RecordUpdate ==
    \/ record' = record /\ gen' = gen
    \/ record.decision = "none" /\ gen' = gen + 1 /\ record'.decision # "none" /\ record'.pub = 0
    \/ /\ record.decision = "admitted" /\ record.pub = 0 /\ gen' = gen
       /\ record'.decision # "none" /\ record'.pub = 0

(* A caller is told nothing, or the decision of the record.                *)
AnswersUpdate ==
    \/ answers' = answers
    \/ /\ record'.decision # "none" /\ Decided(record')
       /\ answers' = answers \cup {[gen |-> gen', digest |-> record'.digest, token |-> record'.token]}

(* What a step may do to the record.                                       *)
RecordStep ==
    \/ record' = NoRecord
    \/ RecordUpdate
    \/ /\ record.decision = "admitted" /\ record.pub = 0
       /\ record'.decision = "admitted" /\ record'.pub # 0

(* What a step may do to the stream.                                       *)
StreamStep ==
    \/ requests' = requests
    \/ /\ entry.state = "active" /\ Routable(entry, clock) # {}
       /\ requests'[Len(requests')].token = entry.token
       /\ entry.token \in Accepts
       /\ clock < record.deadline

StepInv == IInv' /\ RecordStep /\ StreamStep

(* Steps without a publication.                                            *)
LEMMA UpdateInv ==
  ASSUME IInv, clock' \in Nat, Named(entry'), UNCHANGED requests, HandlersQuiet,
         RecordInv', RecordUpdate, AnswersUpdate
  PROVE  StepInv
<1> DEFINE new == [gen |-> gen', digest |-> record'.digest, token |-> record'.token]
<1>1. gen \in Nat /\ gen' \in Nat /\ gen <= gen'
  BY DEF IInv, TypeOK, RecordUpdate
<1>2. record'.decision # "none" => new \in Answers
  BY <1>1 DEF RecordInv, SoundRecord, Records, Answers
<1>3. new.gen = gen' /\ new.digest = record'.digest /\ new.token = record'.token
  OBVIOUS
<1>4. \A a \in Answers : a.gen = new.gen /\ a.digest = new.digest /\ a.token = new.token => a = new
  BY DEF Answers
<1> HIDE DEF new
<1>5. answers \subseteq Answers /\ \A a \in answers : a.gen \in Nat
  BY DEF IInv, TypeOK, Answers
<1>6. answers' = answers \/ (record'.decision # "none" /\ Decided(record') /\ answers' = answers \cup {new})
  BY DEF AnswersUpdate, new
<1>7. TypeOK'
  BY <1>1, <1>2, <1>5, <1>6 DEF IInv, TypeOK, HandlersQuiet, RecordInv, SoundRecord, Named
<1>8. \A i \in 1 .. Len(requests) : requests[i].gen \in Nat
  <2> DEFINE Request == [token : Tokens, gen : Nat]
  <2>1. requests \in Seq(Request) /\ \A x \in Request : x.gen \in Nat
    BY DEF IInv, TypeOK
  <2> HIDE DEF Request
  <2>2. \A i \in 1 .. Len(requests) : requests[i] \in Request
    BY <2>1
  <2> QED BY <2>1, <2>2
<1>9. StreamInv'
  <2>1. CASE record' = record /\ gen' = gen
    BY <2>1 DEF IInv, StreamInv
  <2>2. CASE gen' = gen + 1 /\ record'.pub = 0
    <3>1. \A i \in 1 .. Len(requests) : requests[i].gen <= gen' /\ requests[i].gen # gen'
      BY <1>1, <1>8, <2>2 DEF IInv, StreamInv
    <3> QED BY <2>2, <3>1 DEF IInv, StreamInv, Published
  <2>3. CASE record.decision = "admitted" /\ record.pub = 0 /\ gen' = gen /\ record'.pub = 0
    BY <2>3 DEF IInv, StreamInv, Published
  <2> QED BY <2>1, <2>2, <2>3 DEF RecordUpdate
<1>10. \A a \in answers : a.gen <= gen'
  BY <1>1, <1>5 DEF IInv, AnswersInv
<1>11. \A a \in answers : a.gen = gen' /\ record'.decision # "none" =>
          Decided(record') /\ a.digest = record'.digest /\ a.token = record'.token
  <2>1. CASE record' = record /\ gen' = gen
    BY <2>1 DEF IInv, AnswersInv
  <2>2. CASE gen' = gen + 1
    BY <1>1, <1>5, <2>2 DEF IInv, AnswersInv
  <2>3. CASE record.decision = "admitted" /\ record.pub = 0 /\ gen' = gen
    BY <2>3 DEF IInv, AnswersInv, Decided, Published
  <2> QED BY <2>1, <2>2, <2>3 DEF RecordUpdate
<1>12. ASSUME answers' # answers
       PROVE  /\ \A a \in answers : a.gen = gen' => a = new
              /\ \A i \in 1 .. Len(requests) : requests[i].gen = gen' => requests[i].token = record'.token
  <2>1. record'.decision # "none" /\ Decided(record')
    BY <1>6, <1>12
  <2>2. \A a \in answers : a.gen = gen' => a = new
    BY <1>3, <1>4, <1>5, <1>11, <2>1
  <2>3. CASE Published(record')
    <3>1. PICK j \in 1 .. Len(requests) : requests[j].gen = gen' /\ requests[j].token = record'.token
      BY <1>9, <2>3 DEF StreamInv
    <3> QED BY <2>2, <3>1 DEF IInv, StreamInv
  <2>4. CASE ~Published(record')
    BY <1>9, <2>1, <2>2, <2>4 DEF StreamInv
  <2> QED BY <2>3, <2>4
<1>13. AnswersInv'
  <2>1. CASE answers' = answers
    BY <1>10, <1>11, <2>1 DEF IInv, AnswersInv
  <2>2. CASE answers' # answers
    <3>1. answers' = answers \cup {new} /\ record'.decision # "none" /\ Decided(record')
      BY <1>6, <2>2
    <3>2. \A a \in answers' : a.gen <= gen'
      BY <1>1, <1>3, <1>10, <3>1
    <3>3. \A a \in answers' : a.gen = gen' /\ record'.decision # "none" =>
             Decided(record') /\ a.digest = record'.digest /\ a.token = record'.token
      BY <1>3, <1>11, <3>1
    <3>4. \A a, b \in answers' : a.gen = b.gen => a = b
      BY <1>3, <1>12, <2>2, <3>1 DEF IInv, AnswersInv
    <3>5. \A a \in answers' : \A i \in 1 .. Len(requests) : a.gen = requests[i].gen => a.token = requests[i].token
      BY <1>3, <1>12, <2>2, <3>1 DEF IInv, AnswersInv
    <3> QED BY <3>2, <3>3, <3>4, <3>5 DEF AnswersInv
  <2> QED BY <2>1, <2>2
<1>14. OpenedInv'
  <2>1. \A h \in Handlers : handlers'[h].pc = "opened" => handlers'[h] = handlers[h]
    BY DEF HandlersQuiet
  <2>2. ASSUME NEW h \in Handlers, handlers[h].pc = "opened"
        PROVE  handlers[h].gen = gen' /\ record'.decision # "none" =>
                  /\ Published(record')
                  /\ record'.digest = handlers[h].digest /\ record'.token = handlers[h].token
    <3>1. handlers[h].gen <= gen /\ handlers[h].gen \in Nat
      <4>1. PICK i \in 1 .. Len(requests) : requests[i].gen = handlers[h].gen
        BY <2>2 DEF IInv, OpenedInv
      <4> QED BY <1>8, <4>1 DEF IInv, StreamInv
    <3>2. CASE record' = record /\ gen' = gen
      BY <2>2, <3>2 DEF IInv, OpenedInv
    <3>3. CASE gen' = gen + 1
      BY <1>1, <3>1, <3>3
    <3>4. CASE record.decision = "admitted" /\ record.pub = 0 /\ gen' = gen
      BY <2>2, <3>4 DEF IInv, OpenedInv, Published
    <3> QED BY <3>2, <3>3, <3>4 DEF RecordUpdate
  <2>3. ASSUME NEW h \in Handlers, handlers[h].pc = "opened", NEW a \in answers', a.gen = handlers[h].gen
        PROVE  a.digest = handlers[h].digest /\ a.token = handlers[h].token
    <3>1. CASE a \in answers
      BY <2>3, <3>1 DEF IInv, OpenedInv
    <3>2. CASE a \notin answers
      BY <1>3, <1>6, <2>2, <2>3, <3>2
    <3> QED BY <3>1, <3>2
  <2> QED BY <2>1, <2>2, <2>3 DEF IInv, OpenedInv
<1>15. HandlersInv'
  BY DEF IInv, HandlersInv, HandlersQuiet
<1> QED BY <1>7, <1>9, <1>13, <1>14, <1>15 DEF IInv, StepInv, RecordStep, StreamStep

(* A handler goes to another place.                                        *)
LEMMA OneHandler ==
  ASSUME IInv, NEW h \in Handlers, NEW x \in HandlerStates, Validated(x), x.pc # "opened",
         handlers' = [handlers EXCEPT ![h] = x]
  PROVE  HandlersQuiet
<1>1. handlers \in [Handlers -> HandlerStates]
  BY DEF IInv, TypeOK
<1> QED BY <1>1 DEF HandlersQuiet

(* The idle handler is well formed.                                        *)
LEMMA IdleFacts == Idle \in HandlerStates /\ Validated(Idle) /\ Idle.pc = "idle"
  BY DEF Idle, HandlerStates, Validated

(* A handler step that only goes on, rejects or returns.                   *)
LEMMA GotoQuiet ==
  ASSUME IInv, NEW h \in Handlers, handlers[h].pc # "idle",
         \/ Finish(h)
         \/ \E pc \in {"enter", "lookup", "wait", "ensured", "publish", "refused"} : Goto(h, pc)
         \/ \E cause \in RejectionCauses : RejectWith(h, cause)
  PROVE  HandlersQuiet
<1>1. handlers[h] \in HandlerStates /\ handlers[h].digest \in Digests
  BY DEF IInv, TypeOK, HandlersInv, Validated
<1>2. CASE Finish(h)
  BY <1>2, IdleFacts, OneHandler DEF Finish
<1>3. CASE \E pc \in {"enter", "lookup", "wait", "ensured", "publish", "refused"} : Goto(h, pc)
  <2>1. PICK pc \in {"enter", "lookup", "wait", "ensured", "publish", "refused"} : Goto(h, pc)
    BY <1>3
  <2> DEFINE x == [handlers[h] EXCEPT !.pc = pc]
  <2>2. x \in HandlerStates /\ x.pc = pc /\ x.digest = handlers[h].digest
    BY <1>1 DEF HandlerStates
  <2>3. handlers' = [handlers EXCEPT ![h] = x]
    BY <2>1 DEF Goto
  <2> HIDE DEF x
  <2>4. Validated(x) /\ x.pc # "opened"
    BY <1>1, <2>2 DEF Validated
  <2> QED BY <2>2, <2>3, <2>4, OneHandler
<1>4. CASE \E cause \in RejectionCauses : RejectWith(h, cause)
  <2>1. PICK cause \in RejectionCauses : RejectWith(h, cause)
    BY <1>4
  <2> DEFINE x == [handlers[h] EXCEPT !.pc = "reject", !.cause = cause]
  <2>2. x \in HandlerStates /\ x.pc = "reject" /\ x.digest = handlers[h].digest
    BY <1>1 DEF HandlerStates
  <2>3. handlers' = [handlers EXCEPT ![h] = x]
    BY <2>1 DEF RejectWith
  <2> HIDE DEF x
  <2>4. Validated(x)
    BY <1>1, <2>2 DEF Validated
  <2> QED BY <2>2, <2>3, <2>4, OneHandler
<1> QED BY <1>2, <1>3, <1>4

-----------------------------------------------------------------------------
(* The initial state.                                                      *)
LEMMA InitInv == Init => IInv
<1> SUFFICES ASSUME Init PROVE IInv
  OBVIOUS
<1>1. Absent \in Entries /\ SoundRecord(NoRecord) /\ ~Dispatched(NoRecord) /\ ~Terminal(NoRecord)
  BY AbsentType, NoRecordSound
<1>2. record.decision = "none" /\ record.pub = 0 /\ Len(requests) = 0
  BY DEF Init, NoRecord
<1>3. TypeOK
  BY <1>1, IdleFacts DEF Init, TypeOK, SoundRecord
<1>4. Named(entry)
  BY <1>1 DEF Init, Named, Absent
<1>5. RecordInv
  BY <1>1, <1>2 DEF Init, RecordInv
<1>6. StreamInv /\ AnswersInv
  BY <1>2 DEF Init, StreamInv, AnswersInv, Published
<1>7. OpenedInv /\ HandlersInv
  BY IdleFacts DEF Init, OpenedInv, HandlersInv
<1> QED BY <1>3, <1>4, <1>5, <1>6, <1>7 DEF IInv

(* The catalog's operations.                                               *)
LEMMA CatalogInv ==
  ASSUME IInv, NEW d, Named(d.entry), CatalogStep(d)
  PROVE  StepInv
<1>1. Named(Stored(d.entry))
  BY DEF Stored, Named, Entries
<1>2. Named(entry') /\ UNCHANGED <<clock, record, gen, requests, handlers, answers>>
  BY <1>1 DEF CatalogStep
<1>3. HandlersQuiet /\ RecordInv' /\ RecordUpdate /\ AnswersUpdate /\ clock' \in Nat
  BY <1>2 DEF IInv, TypeOK, HandlersQuiet, RecordInv, RecordUpdate, AnswersUpdate
<1> QED BY <1>2, <1>3, UpdateInv

(* Providers and operators.                                                *)
LEMMA EnvironmentInv ==
  ASSUME IInv,
         \/ \E l \in Leases : RegisterProvider(l) \/ Drain(l) \/ Release(l) \/ Pong(l)
         \/ \E t \in Tokens : Unregister(t)
  PROVE  StepInv
<1>1. Named(entry) /\ clock \in Nat /\ \A l \in Leases : AdmissionOf[l] \in Tokens
  BY CallRoutingAssumption DEF IInv, TypeOK
<1>2. ASSUME NEW l \in Leases, RegisterProvider(l) \/ Drain(l) \/ Release(l) \/ Pong(l) PROVE StepInv
  <2>1. CASE RegisterProvider(l)
    BY <1>1, <2>1, RegisterNamed, CatalogInv DEF RegisterProvider
  <2>2. CASE Drain(l)
    BY <1>1, <2>2, DrainNamed, CatalogInv DEF Drain
  <2>3. CASE Release(l)
    BY <1>1, <2>3, ReleaseNamed, CatalogInv DEF Release
  <2>4. CASE Pong(l)
    BY <1>1, <2>4, PongNamed, CatalogInv DEF Pong
  <2> QED BY <1>2, <2>1, <2>2, <2>3, <2>4
<1>3. ASSUME NEW t \in Tokens, Unregister(t) PROVE StepInv
  BY <1>1, <1>3, RetireNamed, CatalogInv DEF Unregister
<1> QED BY <1>2, <1>3

(* The clock: a record that is not retained is dropped, and what callers   *)
(* were told of it stays true.                                             *)
LEMMA TickInv == ASSUME IInv, Tick PROVE StepInv
<1>1. clock' \in Nat /\ UNCHANGED <<entry, gen, requests, handlers, answers>>
  BY DEF Tick, IInv, TypeOK
<1>2. CASE record' = record
  <2>1. HandlersQuiet /\ RecordInv' /\ RecordUpdate /\ AnswersUpdate /\ Named(entry')
    BY <1>1, <1>2 DEF IInv, TypeOK, HandlersQuiet, RecordInv, RecordUpdate, AnswersUpdate
  <2> QED BY <1>1, <2>1, UpdateInv
<1>3. CASE record' = NoRecord
  <2>1. /\ SoundRecord(record') /\ ~Dispatched(record') /\ ~Terminal(record')
        /\ record'.decision = "none" /\ ~Published(record') /\ record' \in Records
    BY <1>3, NoRecordSound DEF NoRecord, SoundRecord, Published
  <2>2. TypeOK'
    BY <1>1, <2>1 DEF IInv, TypeOK
  <2>3. RecordInv'
    BY <2>1 DEF RecordInv
  <2>4. StreamInv'
    BY <1>1, <2>1 DEF IInv, StreamInv
  <2>5. AnswersInv'
    BY <1>1, <2>1 DEF IInv, AnswersInv
  <2>6. OpenedInv'
    BY <1>1, <2>1 DEF IInv, OpenedInv
  <2>7. HandlersInv' /\ Named(entry)'
    BY <1>1 DEF IInv, HandlersInv
  <2> QED BY <1>1, <1>3, <2>2, <2>3, <2>4, <2>5, <2>6, <2>7 DEF IInv, StepInv, RecordStep, StreamStep
<1> QED BY <1>2, <1>3 DEF Tick

(* A step that leaves record, stream and answers alone.                    *)
LEMMA HandlerOnlyInv ==
  ASSUME IInv, HandlersQuiet, Named(entry'), UNCHANGED <<clock, record, gen, requests, answers>>
  PROVE  StepInv
<1>1. RecordInv' /\ RecordUpdate /\ AnswersUpdate /\ clock' \in Nat
  BY DEF IInv, TypeOK, RecordInv, RecordUpdate, AnswersUpdate
<1> QED BY <1>1, UpdateInv

(* An answer read from a record that is decided.                           *)
LEMMA AnswerInv ==
  ASSUME IInv, HandlersQuiet, UNCHANGED <<clock, entry, record, gen, requests>>,
         record.decision # "none", Decided(record),
         answers' = answers \cup {[gen |-> gen, digest |-> record.digest, token |-> record.token]}
  PROVE  StepInv
<1>1. RecordInv' /\ RecordUpdate /\ clock' \in Nat /\ Named(entry')
  BY DEF IInv, TypeOK, RecordInv, RecordUpdate
<1>2. AnswersUpdate
  BY DEF AnswersUpdate, Decided
<1> QED BY <1>1, <1>2, UpdateInv

(* What attach found.                                                      *)
LEMMA AttachFacts ==
  ASSUME IInv, NEW d
  PROVE  /\ Attach(record, d) \in {"published", "rejected"} =>
                record.decision # "none" /\ record.digest = d /\ Decided(record)
         /\ Attach(record, d) = "rejected" => record.token = NoToken
         /\ Attach(record, d) = "unpublished" => record.decision = "admitted"
         /\ Attach(record, d) \in {"not_found", "conflict", "rejected", "invalid", "published", "unpublished"}
<1>1. SoundRecord(record) /\ ~Terminal(record) /\ record.decision \in {"none", "admitted", "rejected"}
  BY DEF IInv, RecordInv, SoundRecord, Records
<1> QED BY <1>1 DEF Attach, Decided, SoundRecord

(* CallTool up to its first decision.                                      *)
LEMMA CallToolInv ==
  ASSUME IInv, NEW h \in Handlers, NEW d \in Digests, CallTool(h, d)
  PROVE  StepInv
<1>1. /\ UNCHANGED <<clock, entry, record, gen, requests>> /\ Named(entry')
      /\ clock \in Nat /\ record \in Records
  BY DEF CallTool, IInv, TypeOK
<1>2. CASE /\ Attach(record, d) \in {"published", "rejected"}
           /\ answers' = answers \cup {[gen |-> gen, digest |-> d, token |-> record.token]}
           /\ UNCHANGED handlers
  <2>1. HandlersQuiet
    BY <1>2 DEF HandlersQuiet, IInv, TypeOK
  <2> QED BY <1>1, <1>2, <2>1, AttachFacts, AnswerInv
<1>3. ASSUME NEW deadline \in Nat, UNCHANGED answers,
             handlers' = [handlers EXCEPT ![h] =
                      [Idle EXCEPT !.pc = "enter", !.digest = d, !.deadline = deadline]]
      PROVE  StepInv
  <2> DEFINE x == [Idle EXCEPT !.pc = "enter", !.digest = d, !.deadline = deadline]
  <2>1. x \in HandlerStates /\ x.pc = "enter" /\ x.digest = d
    BY IdleFacts DEF HandlerStates
  <2>2. handlers' = [handlers EXCEPT ![h] = x]
    BY <1>3
  <2> HIDE DEF x
  <2>3. Validated(x)
    BY <2>1 DEF Validated
  <2>4. HandlersQuiet
    BY <2>1, <2>2, <2>3, OneHandler
  <2> QED BY <1>1, <1>3, <2>4, HandlerOnlyInv
<1>4. clock + ExecutionTimeout \in Nat /\ record.deadline \in Nat
  BY <1>1, CallRoutingAssumption, CallRecordAssumption DEF Records
<1> QED BY <1>2, <1>3, <1>4 DEF CallTool

(* Waiting and looking up: nothing but the handler changes, and the health *)
(* check's pruning.                                                        *)
LEMMA WaitInv ==
  ASSUME IInv, NEW h \in Handlers,
         \/ EnterWait(h) \/ LookUpRegistration(h) \/ CheckHealth(h) \/ PollAgain(h)
         \/ WaitExhausted(h) \/ CatalogFails(h) \/ HandlerFails(h)
  PROVE  StepInv
<1>1. /\ handlers[h] \in HandlerStates /\ clock \in Nat /\ Named(entry)
      /\ Validated(handlers[h]) /\ handlers[h].deadline \in Nat
  BY DEF IInv, TypeOK, HandlersInv, HandlerStates
<1>2. CASE EnterWait(h)
  <2>1. HandlersQuiet
    BY <1>2, GotoQuiet DEF EnterWait, RejectionCauses
  <2> QED BY <1>1, <1>2, <2>1, HandlerOnlyInv DEF EnterWait
<1>3. CASE LookUpRegistration(h)
  <2>1. HandlersQuiet
    <3>1. CASE \E cause \in RejectionCauses : RejectWith(h, cause)
      BY <1>3, <3>1, GotoQuiet DEF LookUpRegistration
    <3>2. CASE /\ entry.token \in Accepts
               /\ handlers' = [handlers EXCEPT ![h].pc = "health", ![h].token = entry.token]
      <4> DEFINE x == [handlers[h] EXCEPT !.pc = "health", !.token = entry.token]
      <4>1. entry.token \in Tokens
        BY <3>2, CallRoutingAssumption
      <4>2. x \in HandlerStates /\ x.pc = "health" /\ x.digest = handlers[h].digest /\ x.token = entry.token
        BY <1>1, <4>1 DEF HandlerStates
      <4>3. handlers' = [handlers EXCEPT ![h] = x]
        BY <3>2
      <4> HIDE DEF x
      <4>4. Validated(x)
        BY <1>1, <1>3, <3>2, <4>2 DEF Validated, LookUpRegistration
      <4> QED BY <4>2, <4>3, <4>4, OneHandler
    <3> QED BY <1>3, <3>1, <3>2 DEF LookUpRegistration, RejectionCauses
  <2> QED BY <1>1, <1>3, <2>1, HandlerOnlyInv DEF LookUpRegistration
<1>4. CASE CheckHealth(h)
  <2>1. Named(entry')
    <3>1. Named(HealthIdentity(entry, clock).entry)
      BY <1>1, HealthNamed
    <3>2. Named(Stored(HealthIdentity(entry, clock).entry))
      BY <3>1 DEF Stored, Named, Entries
    <3> QED BY <1>1, <1>4, <3>2 DEF CheckHealth
  <2>2. HandlersQuiet
    <3>1. CASE RejectWith(h, "service_unavailable") \/ Goto(h, "wait")
      BY <1>4, <3>1, GotoQuiet DEF CheckHealth, RejectionCauses
    <3>2. CASE /\ ~(handlers[h].deadline <= clock)
               /\ handlers' = [handlers EXCEPT ![h].pc = "ensure", ![h].timeout = handlers[h].deadline - clock]
      <4> DEFINE x == [handlers[h] EXCEPT !.pc = "ensure", !.timeout = handlers[h].deadline - clock]
      <4>1. handlers[h].deadline - clock \in Nat
        BY <1>1, <3>2
      <4>2. x \in HandlerStates /\ x.pc = "ensure" /\ x.digest = handlers[h].digest /\ x.token = handlers[h].token
        BY <1>1, <4>1 DEF HandlerStates
      <4>3. handlers' = [handlers EXCEPT ![h] = x]
        BY <3>2
      <4> HIDE DEF x
      <4>4. Validated(x)
        BY <1>1, <1>4, <4>2 DEF Validated, CheckHealth
      <4> QED BY <4>2, <4>3, <4>4, OneHandler
    <3> QED BY <1>4, <3>1, <3>2 DEF CheckHealth
  <2> QED BY <1>4, <2>1, <2>2, HandlerOnlyInv DEF CheckHealth
<1>5. CASE PollAgain(h) \/ WaitExhausted(h) \/ CatalogFails(h) \/ HandlerFails(h)
  <2>1. HandlersQuiet
    BY <1>5, GotoQuiet DEF PollAgain, WaitExhausted, CatalogFails, HandlerFails, ReturnError, RejectionCauses
  <2>2. UNCHANGED <<clock, entry, record, gen, requests, answers>>
    BY <1>5 DEF PollAgain, WaitExhausted, CatalogFails, HandlerFails, ReturnError
  <2> QED BY <1>1, <2>1, <2>2, HandlerOnlyInv
<1> QED BY <1>2, <1>3, <1>4, <1>5

(* ensure: the decision is this handler's, another's, or in conflict.      *)
LEMMA EnsureInv ==
  ASSUME IInv, NEW h \in Handlers, EnsureAdmission(h)
  PROVE  StepInv
<1> DEFINE me == handlers[h]
           q == Ensure(record, me.digest, me.token, me.timeout, clock)
<1>1. /\ me \in HandlerStates /\ me.pc = "ensure" /\ me.digest \in Digests /\ me.token \in Accepts
      /\ me.token \in Tokens /\ me.timeout \in Nat /\ clock \in Nat /\ gen \in Nat /\ SoundRecord(record)
  BY CallRoutingAssumption DEF EnsureAdmission, IInv, TypeOK, HandlersInv, Validated, HandlerStates, RecordInv
<1>2. EnsureOutcome(record, me.digest, me.token, q)
  BY <1>1, EnsureFacts
<1>3. /\ record' = q.record /\ gen' = IF q.result = "created" THEN gen + 1 ELSE gen
      /\ UNCHANGED <<clock, entry, requests, answers>>
      /\ Finish(h) \/ Goto(h, "publish") \/ Goto(h, "ensured")
  BY DEF EnsureAdmission
<1> HIDE DEF q
<1>4. HandlersQuiet
  BY <1>1, <1>3, GotoQuiet
<1>5. AnswersUpdate /\ Named(entry') /\ clock' \in Nat
  BY <1>1, <1>3 DEF AnswersUpdate, IInv
<1>6. CASE q.result = "created"
  <2>1. /\ record.decision = "none" /\ SoundRecord(record') /\ record'.decision = "admitted"
        /\ record'.digest = me.digest /\ record'.token = me.token /\ record'.pub = 0
        /\ ~Terminal(record') /\ ~Dispatched(record') /\ gen' = gen + 1
    BY <1>2, <1>3, <1>6 DEF EnsureOutcome, Dispatched
  <2>2. RecordInv'
    BY <1>1, <2>1 DEF RecordInv
  <2>3. RecordUpdate
    BY <2>1 DEF RecordUpdate
  <2> QED BY <1>3, <1>4, <1>5, <2>2, <2>3, UpdateInv
<1>7. CASE q.result # "created" /\ record' = record
  <2>1. RecordInv' /\ RecordUpdate
    BY <1>3, <1>7 DEF RecordInv, RecordUpdate, IInv
  <2> QED BY <1>3, <1>4, <1>5, <2>1, UpdateInv
<1>8. CASE q.result # "created" /\ record' # record
  <2>1. /\ record.decision = "admitted" /\ Movable(record) /\ record' = [record EXCEPT !.token = me.token]
        /\ SoundRecord(record') /\ gen' = gen
    BY <1>2, <1>3, <1>8 DEF EnsureOutcome
  <2>2. /\ record'.decision = "admitted" /\ record'.digest = record.digest /\ record'.token = me.token
        /\ record'.pub = record.pub /\ record'.terminal = record.terminal /\ record'.dispatch = record.dispatch
    BY <1>1, <2>1 DEF SoundRecord, Records
  <2>3. RecordInv'
    BY <1>1, <2>1, <2>2 DEF IInv, RecordInv, Terminal, Dispatched
  <2>4. RecordUpdate
    BY <2>1, <2>2 DEF RecordUpdate, Movable, Published
  <2> QED BY <1>3, <1>4, <1>5, <2>3, <2>4, UpdateInv
<1> QED BY <1>6, <1>7, <1>8

(* The decision of another handler is reported.                            *)
LEMMA AttachExistingInv ==
  ASSUME IInv, NEW h \in Handlers, AttachExisting(h)
  PROVE  StepInv
<1> DEFINE me == handlers[h]
           found == Attach(record, me.digest)
<1>1. /\ me \in HandlerStates /\ me.pc \in {"ensured", "refused"} /\ me.digest \in Digests
      /\ UNCHANGED <<clock, entry, record, gen, requests>> /\ record \in Records /\ Named(entry')
  BY DEF AttachExisting, IInv, TypeOK, HandlersInv, Validated
<1>2. CASE found = "published" /\ Answer(h, gen, record.token)
  <2>1. /\ answers' = answers \cup {[gen |-> gen, digest |-> record.digest, token |-> record.token]}
        /\ Finish(h) /\ record.decision # "none" /\ Decided(record)
    BY <1>2, AttachFacts DEF Answer
  <2> QED BY <1>1, <2>1, GotoQuiet, AnswerInv
<1>3. CASE found = "rejected" /\ Answer(h, gen, NoToken)
  <2>1. /\ answers' = answers \cup {[gen |-> gen, digest |-> record.digest, token |-> record.token]}
        /\ Finish(h) /\ record.decision # "none" /\ Decided(record)
    BY <1>3, AttachFacts DEF Answer
  <2> QED BY <1>1, <2>1, GotoQuiet, AnswerInv
<1>4. CASE /\ handlers' = [handlers EXCEPT ![h].pc = "publish", ![h].token = record.token]
           /\ UNCHANGED answers
  <2> DEFINE x == [me EXCEPT !.pc = "publish", !.token = record.token]
  <2>1. x \in HandlerStates /\ x.pc = "publish" /\ x.digest = me.digest
    BY <1>1 DEF HandlerStates, Records
  <2>2. handlers' = [handlers EXCEPT ![h] = x]
    BY <1>4
  <2> HIDE DEF x
  <2>3. Validated(x)
    BY <1>1, <2>1 DEF Validated
  <2>4. HandlersQuiet
    BY <2>1, <2>2, <2>3, OneHandler
  <2> QED BY <1>1, <1>4, <2>4, HandlerOnlyInv
<1>5. CASE ReturnError(h)
  <2>1. HandlersQuiet /\ UNCHANGED answers
    BY <1>1, <1>5, GotoQuiet DEF ReturnError
  <2> QED BY <1>1, <2>1, HandlerOnlyInv
<1> QED BY <1>2, <1>3, <1>4, <1>5 DEF AttachExisting

(* reject: the call is rejected, was, or belongs to somebody else.         *)
LEMMA RejectInv ==
  ASSUME IInv, NEW h \in Handlers, RejectCall(h)
  PROVE  StepInv
<1> DEFINE me == handlers[h]
           q == Reject(record, me.digest, clock)
<1>1. /\ me.pc = "reject" /\ me.digest \in Digests /\ clock \in Nat /\ gen \in Nat
      /\ SoundRecord(record) /\ Named(entry)
      /\ record.decision # "none" => gen > 0
  BY DEF RejectCall, IInv, TypeOK, HandlersInv, Validated, RecordInv
<1>2. RejectOutcome(record, me.digest, q)
  BY <1>1, RejectFacts
<1>3. /\ record' = q.record /\ gen' = IF record.decision = "none" THEN gen + 1 ELSE gen
      /\ UNCHANGED <<clock, entry, requests>>
      /\ \/ q.result = "rejected" /\ Answer(h, gen', NoToken)
         \/ q.result = "conflict" /\ ReturnError(h)
         \/ q.result = "attach" /\ Goto(h, "refused") /\ UNCHANGED answers
  BY DEF RejectCall
<1> HIDE DEF q
<1>4. HandlersQuiet
  BY <1>1, <1>3, GotoQuiet DEF Answer, ReturnError
<1>5. CASE q.result # "rejected"
  <2>1. record' = record /\ gen' = gen /\ answers' = answers
    BY <1>2, <1>3, <1>5 DEF RejectOutcome, ReturnError
  <2> QED BY <1>1, <1>3, <1>4, <2>1, HandlerOnlyInv
<1>6. CASE q.result = "rejected"
  <2>1. /\ SoundRecord(record') /\ record'.decision = "rejected" /\ record'.digest = me.digest
        /\ record'.token = NoToken
        /\ \/ record' = record
           \/ /\ record.decision = "none" \/ (record.decision = "admitted" /\ Movable(record))
              /\ record'.pub = 0 /\ ~Terminal(record') /\ record'.dispatch = NotDispatched
    BY <1>2, <1>3, <1>6 DEF RejectOutcome, SoundRecord
  <2>2. answers' = answers \cup {[gen |-> gen', digest |-> record'.digest, token |-> record'.token]}
    BY <1>3, <1>6, <2>1 DEF Answer
  <2>3. AnswersUpdate
    BY <2>1, <2>2 DEF AnswersUpdate, Decided
  <2>4. gen' > 0
    BY <1>1, <1>3
  <2>5. RecordInv'
    BY <1>1, <2>1, <2>4 DEF RecordInv, Dispatched, IInv
  <2>6. RecordUpdate
    <3>1. CASE record.decision = "none"
      <4>1. record'.pub = 0
        BY <2>1, <3>1 DEF NoRecord, SoundRecord
      <4> QED BY <1>3, <2>1, <3>1, <4>1 DEF RecordUpdate
    <3>2. CASE record.decision # "none"
      BY <1>3, <2>1, <3>2 DEF RecordUpdate, Movable, Published
    <3> QED BY <3>1, <3>2
  <2> QED BY <1>1, <1>3, <1>4, <2>3, <2>5, <2>6, UpdateInv
<1> QED BY <1>5, <1>6

(* A handler learns that the call is published, by its own append or by    *)
(* another's, and from then on carries what every caller is told.          *)
LEMMA OpenedStep ==
  ASSUME IInv, NEW h \in Handlers, handlers[h].pc = "publish",
         handlers' = [handlers EXCEPT ![h].pc = "opened", ![h].gen = gen],
         UNCHANGED <<clock, entry, gen, answers>>,
         RecordInv', record.decision = "admitted", record'.decision = "admitted", Published(record'),
         record'.digest = record.digest, record'.token = record.token,
         handlers[h].digest = record.digest, handlers[h].token = record.token,
         \/ record' = record /\ requests' = requests
         \/ ~Published(record) /\ requests' = Append(requests, [token |-> record.token, gen |-> gen])
  PROVE  IInv'
<1> DEFINE Request == [token : Tokens, gen : Nat]
           q == [token |-> record.token, gen |-> gen]
           x == [handlers[h] EXCEPT !.pc = "opened", !.gen = gen]
<1>1. /\ clock \in Nat /\ gen \in Nat /\ requests \in Seq(Request) /\ Named(entry)
      /\ handlers \in [Handlers -> HandlerStates] /\ handlers[h] \in HandlerStates
      /\ handlers[h].digest \in Digests /\ record.token \in Tokens
  BY CallRoutingAssumption DEF IInv, TypeOK, HandlersInv, Validated, RecordInv
<1>2. q \in Request /\ q.token = record.token /\ q.gen = gen /\ \A y \in Request : y.gen \in Nat
  BY <1>1
<1>3. /\ x \in HandlerStates /\ x.pc = "opened" /\ x.gen = gen
      /\ x.digest = record.digest /\ x.token = record.token
  BY <1>1 DEF HandlerStates
<1>4. handlers' = [handlers EXCEPT ![h] = x]
  OBVIOUS
<1>5. requests' = requests \/ (~Published(record) /\ requests' = Append(requests, q))
  OBVIOUS
<1> HIDE DEF Request, q, x
<1>6. \A i \in 1 .. Len(requests) : requests[i] \in Request /\ requests[i].gen \in Nat
  BY <1>1, <1>2
<1>7. \A k \in Handlers : handlers'[k] = IF k = h THEN x ELSE handlers[k]
  BY <1>1, <1>4
<1>8. requests' \in Seq(Request)
  BY <1>1, <1>2, <1>5
<1>9. TypeOK' /\ Named(entry)'
  <2>1. handlers' \in [Handlers -> HandlerStates] /\ record' \in Records
    BY <1>1, <1>3, <1>4 DEF RecordInv, SoundRecord
  <2> QED BY <1>1, <1>8, <2>1 DEF IInv, TypeOK, Request
<1>10. HandlersInv'
  <2>1. Validated(x)
    BY <1>1, <1>3 DEF Validated
  <2> QED BY <1>7, <2>1 DEF IInv, HandlersInv
<1>11. \A a \in answers : a.gen = gen =>
          Published(record) /\ a.digest = record.digest /\ a.token = record.token
  BY DEF IInv, AnswersInv, Decided
<1>12. CASE requests' = Append(requests, q) /\ ~Published(record)
  <2>1. Len(requests') = Len(requests) + 1 /\ Len(requests) \in Nat
    BY <1>1, <1>2, <1>12
  <2>2. /\ \A i \in 1 .. Len(requests) : requests'[i] = requests[i]
        /\ requests'[Len(requests) + 1] = q
    BY <1>1, <1>2, <1>12
  <2>3. \A i \in 1 .. Len(requests) : requests[i].gen # gen /\ requests[i].gen <= gen
    BY <1>12 DEF IInv, StreamInv
  <2>4. \A i \in 1 .. Len(requests') :
           requests'[i] = IF i = Len(requests) + 1 THEN q ELSE requests[i]
    BY <2>1, <2>2
  <2>5. \A i \in 1 .. Len(requests') : i # Len(requests) + 1 => i \in 1 .. Len(requests)
    BY <2>1
  <2>6. Len(requests) + 1 \in 1 .. Len(requests')
    BY <2>1
  <2>7. StreamInv'
    <3>1. \A i \in 1 .. Len(requests') : requests'[i].gen <= gen'
      BY <1>1, <1>2, <2>3, <2>4, <2>5
    <3>2. \A i, j \in 1 .. Len(requests') : requests'[i].gen = requests'[j].gen => i = j
      BY <1>2, <2>3, <2>4, <2>5 DEF IInv, StreamInv
    <3>3. \E i \in 1 .. Len(requests') : requests'[i].gen = gen' /\ requests'[i].token = record'.token
      BY <1>2, <2>2, <2>6
    <3> QED BY <3>1, <3>2, <3>3 DEF StreamInv
  <2>8. \A a \in answers : a.gen # gen
    BY <1>11, <1>12
  <2>9. AnswersInv'
    BY <1>2, <2>4, <2>5, <2>8 DEF IInv, AnswersInv
  <2>10. \A k \in Handlers : handlers[k].pc = "opened" => handlers[k].gen # gen
    BY <1>12 DEF IInv, OpenedInv
  <2>11. OpenedInv'
    <3> SUFFICES ASSUME NEW k \in Handlers, handlers'[k].pc = "opened"
        PROVE  /\ \E i \in 1 .. Len(requests') :
                     requests'[i].gen = handlers'[k].gen /\ requests'[i].token = handlers'[k].token
               /\ handlers'[k].gen = gen' /\ record'.decision # "none" =>
                     Published(record') /\ record'.digest = handlers'[k].digest /\ record'.token = handlers'[k].token
               /\ \A a \in answers' : a.gen = handlers'[k].gen =>
                     a.digest = handlers'[k].digest /\ a.token = handlers'[k].token
               /\ \A m \in Handlers : handlers'[m].pc = "opened" /\ handlers'[m].gen = handlers'[k].gen =>
                     handlers'[m].digest = handlers'[k].digest /\ handlers'[m].token = handlers'[k].token
      BY DEF OpenedInv
    <3>1. CASE k = h
      <4>1. handlers'[k] = x
        BY <1>7, <3>1
      <4>2. \A m \in Handlers : handlers'[m].pc = "opened" /\ handlers'[m].gen = gen => m = h
        BY <1>7, <2>10
      <4> QED BY <1>2, <1>3, <2>2, <2>6, <2>8, <3>1, <4>1, <4>2
    <3>2. CASE k # h
      <4>1. handlers'[k] = handlers[k] /\ handlers[k].pc = "opened" /\ handlers[k].gen # gen
        BY <1>7, <2>10, <3>2
      <4>2. PICK i \in 1 .. Len(requests) :
               requests[i].gen = handlers[k].gen /\ requests[i].token = handlers[k].token
        BY <4>1 DEF IInv, OpenedInv
      <4>3. i \in 1 .. Len(requests') /\ requests'[i] = requests[i]
        BY <2>1, <2>2
      <4>4. \A m \in Handlers : handlers'[m].pc = "opened" /\ handlers'[m].gen = handlers[k].gen =>
               handlers'[m] = handlers[m]
        BY <1>3, <1>7, <4>1
      <4>5. \A a \in answers : a.gen = handlers[k].gen => a.digest = handlers[k].digest /\ a.token = handlers[k].token
        BY <4>1 DEF IInv, OpenedInv
      <4>6. \A m \in Handlers : handlers'[m].pc = "opened" /\ handlers'[m].gen = handlers[k].gen =>
               handlers'[m].digest = handlers[k].digest /\ handlers'[m].token = handlers[k].token
        <5>1. \A m \in Handlers : handlers[m].pc = "opened" /\ handlers[m].gen = handlers[k].gen =>
                 handlers[m].digest = handlers[k].digest /\ handlers[m].token = handlers[k].token
          BY <4>1 DEF IInv, OpenedInv
        <5> QED BY <4>4, <5>1
      <4>7. \E j \in 1 .. Len(requests') :
               requests'[j].gen = handlers'[k].gen /\ requests'[j].token = handlers'[k].token
        BY <4>1, <4>2, <4>3
      <4>8. gen' = gen /\ answers' = answers
        OBVIOUS
      <4>9. \A a \in answers' : a.gen = handlers'[k].gen =>
               a.digest = handlers'[k].digest /\ a.token = handlers'[k].token
        BY <4>1, <4>5, <4>8
      <4>10. \A m \in Handlers : handlers'[m].pc = "opened" /\ handlers'[m].gen = handlers'[k].gen =>
                handlers'[m].digest = handlers'[k].digest /\ handlers'[m].token = handlers'[k].token
        BY <4>1, <4>6
      <4>11. handlers'[k].gen # gen'
        BY <4>1, <4>8
      <4> QED BY <4>7, <4>9, <4>10, <4>11
    <3> QED BY <3>1, <3>2
  <2> QED BY <1>9, <1>10, <2>7, <2>9, <2>11 DEF IInv
<1>13. CASE record' = record /\ requests' = requests
  <2>1. StreamInv' /\ AnswersInv'
    BY <1>13 DEF IInv, StreamInv, AnswersInv
  <2>2. PICK i \in 1 .. Len(requests) : requests[i].gen = gen /\ requests[i].token = record.token
    BY <1>13 DEF IInv, StreamInv
  <2>3. \A k \in Handlers : handlers[k].pc = "opened" /\ handlers[k].gen = gen =>
           handlers[k].digest = record.digest /\ handlers[k].token = record.token
    BY DEF IInv, OpenedInv
  <2>4. \A k \in Handlers : handlers'[k].pc = "opened" /\ handlers'[k].gen = gen =>
           handlers'[k].digest = record.digest /\ handlers'[k].token = record.token
    <3> SUFFICES ASSUME NEW k \in Handlers, handlers'[k].pc = "opened", handlers'[k].gen = gen
        PROVE  handlers'[k].digest = record.digest /\ handlers'[k].token = record.token
      OBVIOUS
    <3>1. CASE k = h
      BY <1>3, <1>7, <3>1
    <3>2. CASE k # h
      <4>1. handlers'[k] = handlers[k]
        BY <1>7, <3>2
      <4> QED BY <2>3, <4>1
    <3> QED BY <3>1, <3>2
  <2>5. OpenedInv'
    <3> SUFFICES ASSUME NEW k \in Handlers, handlers'[k].pc = "opened"
        PROVE  /\ \E j \in 1 .. Len(requests') :
                     requests'[j].gen = handlers'[k].gen /\ requests'[j].token = handlers'[k].token
               /\ handlers'[k].gen = gen' /\ record'.decision # "none" =>
                     Published(record') /\ record'.digest = handlers'[k].digest /\ record'.token = handlers'[k].token
               /\ \A a \in answers' : a.gen = handlers'[k].gen =>
                     a.digest = handlers'[k].digest /\ a.token = handlers'[k].token
               /\ \A m \in Handlers : handlers'[m].pc = "opened" /\ handlers'[m].gen = handlers'[k].gen =>
                     handlers'[m].digest = handlers'[k].digest /\ handlers'[m].token = handlers'[k].token
      BY DEF OpenedInv
    <3>1. CASE handlers'[k].gen = gen
      <4>1. handlers'[k].digest = record.digest /\ handlers'[k].token = record.token
        BY <2>4, <3>1
      <4>2. requests' = requests /\ record' = record /\ gen' = gen /\ answers' = answers
        BY <1>13
      <4>3. \E j \in 1 .. Len(requests') :
               requests'[j].gen = handlers'[k].gen /\ requests'[j].token = handlers'[k].token
        BY <2>2, <3>1, <4>1, <4>2
      <4>4. record'.decision # "none" =>
               Published(record') /\ record'.digest = handlers'[k].digest /\ record'.token = handlers'[k].token
        BY <4>1, <4>2
      <4>5. \A a \in answers' : a.gen = handlers'[k].gen =>
               a.digest = handlers'[k].digest /\ a.token = handlers'[k].token
        BY <1>11, <3>1, <4>1, <4>2
      <4>6. \A m \in Handlers : handlers'[m].pc = "opened" /\ handlers'[m].gen = handlers'[k].gen =>
               handlers'[m].digest = handlers'[k].digest /\ handlers'[m].token = handlers'[k].token
        BY <2>4, <3>1, <4>1
      <4> QED BY <4>3, <4>4, <4>5, <4>6
    <3>2. CASE handlers'[k].gen # gen
      <4>1. handlers'[k] = handlers[k] /\ handlers[k].pc = "opened"
        BY <1>3, <1>7, <3>2
      <4>2. \A m \in Handlers : handlers'[m].pc = "opened" /\ handlers'[m].gen = handlers[k].gen =>
               handlers'[m] = handlers[m]
        BY <1>3, <1>7, <3>2, <4>1
      <4>3. /\ \E j \in 1 .. Len(requests) :
                  requests[j].gen = handlers[k].gen /\ requests[j].token = handlers[k].token
            /\ \A a \in answers : a.gen = handlers[k].gen =>
                  a.digest = handlers[k].digest /\ a.token = handlers[k].token
        BY <4>1 DEF IInv, OpenedInv
      <4>4. \A m \in Handlers : handlers'[m].pc = "opened" /\ handlers'[m].gen = handlers[k].gen =>
               handlers'[m].digest = handlers[k].digest /\ handlers'[m].token = handlers[k].token
        <5>1. \A m \in Handlers : handlers[m].pc = "opened" /\ handlers[m].gen = handlers[k].gen =>
                 handlers[m].digest = handlers[k].digest /\ handlers[m].token = handlers[k].token
          BY <4>1 DEF IInv, OpenedInv
        <5> QED BY <4>2, <5>1
      <4>5. requests' = requests /\ gen' = gen /\ answers' = answers
        BY <1>13
      <4>6. \E j \in 1 .. Len(requests') :
               requests'[j].gen = handlers'[k].gen /\ requests'[j].token = handlers'[k].token
        BY <4>1, <4>3, <4>5
      <4>7. \A a \in answers' : a.gen = handlers'[k].gen =>
               a.digest = handlers'[k].digest /\ a.token = handlers'[k].token
        BY <4>1, <4>3, <4>5
      <4>8. \A m \in Handlers : handlers'[m].pc = "opened" /\ handlers'[m].gen = handlers'[k].gen =>
               handlers'[m].digest = handlers'[k].digest /\ handlers'[m].token = handlers'[k].token
        BY <4>1, <4>4
      <4>9. handlers'[k].gen # gen'
        BY <3>2, <4>5
      <4> QED BY <4>6, <4>7, <4>8, <4>9
    <3> QED BY <3>1, <3>2
  <2> QED BY <1>9, <1>10, <2>1, <2>5 DEF IInv
<1> QED BY <1>5, <1>12, <1>13

(* publish: the append, or the discovery that another handler made it.     *)
LEMMA PublishInv ==
  ASSUME IInv, NEW h \in Handlers, PublishRequest(h)
  PROVE  StepInv
<1> DEFINE me == handlers[h]
           q(full) == Publish(record, entry, me.digest, me.token, 0, full, Len(requests) + 1, clock)
           new == [token |-> me.token, gen |-> gen]
<1>1. /\ me.pc = "publish" /\ UNCHANGED <<clock, entry, gen, answers>>
      /\ SoundRecord(record) /\ clock \in Nat /\ Named(entry) /\ ~Terminal(record) /\ ~Dispatched(record)
  BY DEF PublishRequest, IInv, TypeOK, RecordInv
<1>2. requests \in Seq([token : Tokens, gen : Nat]) /\ Len(requests) \in Nat
  BY DEF IInv, TypeOK
<1>3. PICK full \in BOOLEAN :
        /\ record' = q(full).record
        /\ requests' = IF q(full).result = "published" THEN Append(requests, new) ELSE requests
        /\ CASE q(full).result \in {"changed", "unroutable"} -> Goto(h, "enter")
             [] q(full).result = "full" -> Finish(h)
             [] OTHER -> handlers' = [handlers EXCEPT ![h].pc = "opened", ![h].gen = gen]
  BY DEF PublishRequest
<1> DEFINE p == q(full)
<1>4. PublishOutcome(record, entry, me.digest, me.token, 0, Len(requests) + 1, clock, p)
  BY <1>1, <1>2, PublishFacts
<1> HIDE DEF q
<1>5. /\ record' = p.record
      /\ requests' = IF p.result = "published" THEN Append(requests, new) ELSE requests
  BY <1>3
<1>6. /\ p.result \in {"changed", "unroutable"} => Goto(h, "enter")
      /\ p.result = "full" => Finish(h)
      /\ p.result \in {"duplicate", "published"} =>
            handlers' = [handlers EXCEPT ![h].pc = "opened", ![h].gen = gen]
  BY <1>3
<1> HIDE DEF p
<1>7. CASE p.result \in {"changed", "unroutable", "full"}
  <2>1. record' = record /\ requests' = requests
    BY <1>4, <1>5, <1>7 DEF PublishOutcome
  <2>2. HandlersQuiet
    BY <1>1, <1>6, <1>7, GotoQuiet
  <2> QED BY <1>1, <2>1, <2>2, HandlerOnlyInv
<1>8. CASE p.result = "duplicate"
  <2>1. /\ record.decision = "admitted" /\ record.digest = me.digest /\ record.token = me.token
        /\ Published(record) /\ record' = record /\ requests' = requests
    BY <1>1, <1>4, <1>5, <1>8 DEF PublishOutcome
  <2>2. RecordInv' /\ RecordUpdate
    BY <1>1, <2>1 DEF RecordInv, RecordUpdate, IInv
  <2>3. IInv'
    BY <1>1, <1>6, <1>8, <2>1, <2>2, OpenedStep
  <2> QED BY <2>1, <2>2, <2>3 DEF StepInv, RecordStep, StreamStep
<1>9. CASE p.result = "published"
  <2>1. /\ record.decision = "admitted" /\ record.digest = me.digest /\ record.token = me.token
        /\ ~Published(record) /\ ~(record.deadline <= clock)
        /\ entry.state = "active" /\ entry.token = me.token /\ Routable(entry, clock) # {}
        /\ record'.decision = record.decision /\ record'.digest = record.digest
        /\ record'.token = record.token /\ record'.terminal = record.terminal
        /\ record'.pub = Len(requests) + 1 /\ record'.dispatch = record.dispatch
        /\ Len(requests) + 1 # 0 => SoundRecord(record')
        /\ requests' = Append(requests, [token |-> record.token, gen |-> gen])
    BY <1>4, <1>5, <1>9 DEF PublishOutcome
  <2>2. Published(record') /\ SoundRecord(record')
    BY <1>2, <2>1 DEF Published
  <2>3. RecordInv'
    BY <1>1, <2>1, <2>2 DEF RecordInv, IInv, Terminal, Dispatched
  <2>4. IInv'
    BY <1>1, <1>6, <1>9, <2>1, <2>2, <2>3, OpenedStep
  <2>5. RecordStep
    BY <2>1, <2>2 DEF RecordStep, Published
  <2>6. StreamStep
    <3>1. me.token \in Tokens /\ me.token \in Accepts
      BY <2>1, CallRoutingAssumption DEF IInv, RecordInv
    <3>2. new \in [token : Tokens, gen : Nat] /\ new.token = me.token
      BY <3>1 DEF IInv, TypeOK
    <3> HIDE DEF new
    <3>3. requests'[Len(requests')] = new
      BY <1>2, <1>5, <1>9, <3>2
    <3>4. record.deadline \in Nat /\ clock \in Nat
      BY <1>1 DEF SoundRecord, Records
    <3> QED BY <2>1, <3>1, <3>2, <3>3, <3>4 DEF StreamStep
  <2> QED BY <2>4, <2>5, <2>6 DEF StepInv
<1> QED BY <1>4, <1>7, <1>8, <1>9 DEF PublishOutcome

(* The caller is told what its handler published.                          *)
LEMMA OpenInv ==
  ASSUME IInv, NEW h \in Handlers, OpenResultStream(h)
  PROVE  StepInv
<1> DEFINE me == handlers[h]
           new == [gen |-> me.gen, digest |-> me.digest, token |-> me.token]
<1>1. /\ me \in HandlerStates /\ me.pc = "opened" /\ me.digest \in Digests
      /\ UNCHANGED <<clock, entry, record, gen, requests>> /\ record \in Records /\ Named(entry')
  BY DEF OpenResultStream, IInv, TypeOK, HandlersInv, Validated
<1>2. HandlersQuiet
  BY <1>1, GotoQuiet DEF OpenResultStream, Answer, ReturnError
<1>3. CASE answers' = answers
  BY <1>1, <1>2, <1>3, HandlerOnlyInv
<1>4. CASE answers' = answers \cup {new}
  <2>1. new \in Answers /\ new.gen = me.gen /\ new.digest = me.digest /\ new.token = me.token
    BY <1>1 DEF HandlerStates, Answers
  <2>2. \A a \in Answers : a.gen = new.gen /\ a.digest = new.digest /\ a.token = new.token => a = new
    BY DEF Answers
  <2> HIDE DEF new
  <2>3. /\ answers \subseteq Answers
        /\ \A a \in answers : a.gen = me.gen => a.digest = me.digest /\ a.token = me.token
    BY <1>1 DEF IInv, TypeOK, OpenedInv
  <2>4. \A a \in answers : a.gen = new.gen => a = new
    BY <2>1, <2>2, <2>3
  <2>5. PICK i \in 1 .. Len(requests) : requests[i].gen = me.gen /\ requests[i].token = me.token
    BY <1>1 DEF IInv, OpenedInv
  <2>6. \A j \in 1 .. Len(requests) : requests[j].gen = me.gen => requests[j].token = me.token
    BY <2>5 DEF IInv, StreamInv
  <2>7. me.gen <= gen
    BY <2>5 DEF IInv, StreamInv
  <2>8. me.gen = gen /\ record.decision # "none" =>
           Published(record) /\ record.digest = me.digest /\ record.token = me.token
    BY <1>1 DEF IInv, OpenedInv
  <2>9. AnswersInv'
    <3>1. \A a \in answers' : a.gen <= gen'
      BY <1>1, <1>4, <2>1, <2>7 DEF IInv, AnswersInv
    <3>2. \A a \in answers' : a.gen = gen' /\ record'.decision # "none" =>
             Decided(record') /\ a.digest = record'.digest /\ a.token = record'.token
      BY <1>1, <1>4, <2>1, <2>8 DEF IInv, AnswersInv, Decided
    <3>3. \A a, b \in answers' : a.gen = b.gen => a = b
      BY <1>4, <2>4 DEF IInv, AnswersInv
    <3>4. \A a \in answers' : \A j \in 1 .. Len(requests') : a.gen = requests'[j].gen => a.token = requests'[j].token
      BY <1>1, <1>4, <2>1, <2>6 DEF IInv, AnswersInv
    <3> QED BY <3>1, <3>2, <3>3, <3>4 DEF AnswersInv
  <2>10. OpenedInv'
    <3>1. \A k \in Handlers : handlers'[k].pc = "opened" => handlers'[k] = handlers[k] /\ handlers[k].pc = "opened"
      BY <1>2 DEF HandlersQuiet
    <3>2. \A k \in Handlers : handlers[k].pc = "opened" =>
             \A a \in answers' : a.gen = handlers[k].gen =>
                a.digest = handlers[k].digest /\ a.token = handlers[k].token
      BY <1>1, <1>4, <2>1 DEF IInv, OpenedInv
    <3> QED BY <1>1, <3>1, <3>2 DEF IInv, OpenedInv
  <2>11. TypeOK' /\ HandlersInv' /\ RecordInv' /\ StreamInv'
    BY <1>1, <1>2, <1>4, <2>1, <2>3 DEF IInv, TypeOK, HandlersInv, HandlersQuiet, RecordInv, StreamInv
  <2> QED BY <1>1, <2>9, <2>10, <2>11 DEF IInv, StepInv, RecordStep, RecordUpdate, StreamStep
<1> QED BY <1>3, <1>4 DEF OpenResultStream, Answer, ReturnError

(* Every step keeps the invariant and is one of the changes named above.   *)
LEMMA NextInv == IInv /\ [Next]_vars => StepInv
<1> SUFFICES ASSUME IInv, [Next]_vars PROVE StepInv
  OBVIOUS
<1>1. CASE Tick
  BY <1>1, TickInv
<1>2. CASE \/ \E l \in Leases : RegisterProvider(l) \/ Drain(l) \/ Release(l) \/ Pong(l)
           \/ \E t \in Tokens : Unregister(t)
  BY <1>2, EnvironmentInv
<1>3. ASSUME NEW h \in Handlers, NEW d \in Digests, CallTool(h, d) PROVE StepInv
  BY <1>3, CallToolInv
<1>4. ASSUME NEW h \in Handlers, Step(h) \/ CatalogFails(h) \/ HandlerFails(h) PROVE StepInv
  BY <1>4, WaitInv, EnsureInv, AttachExistingInv, PublishInv, OpenInv, RejectInv DEF Step
<1>5. CASE UNCHANGED vars
  <2>1. HandlersQuiet /\ Named(entry') /\ UNCHANGED <<clock, record, gen, requests, answers>>
    BY <1>5 DEF vars, HandlersQuiet, IInv, TypeOK
  <2> QED BY <2>1, HandlerOnlyInv
<1> QED BY <1>1, <1>2, <1>3, <1>4, <1>5 DEF Next

(* The inductive invariant.                                                *)
LEMMA SpecInv == Spec => []IInv
<1>1. IInv /\ [Next]_vars => IInv'
  BY NextInv DEF StepInv
<1> QED BY InitInv, <1>1, PTL DEF Spec

-----------------------------------------------------------------------------
(* Records, stream, handlers and answers keep their types.                 *)
THEOREM RoutingTypes == Spec => []TypeOK
<1>1. IInv => TypeOK
  BY DEF IInv
<1> QED BY SpecInv, <1>1, PTL

(* CallTool, retried or raced on any replica: callers of one record are    *)
(* told one decision.                                                      *)
THEOREM CallersAlwaysAgree == Spec => []CallersAgree
<1>1. IInv => CallersAgree
  BY DEF IInv, AnswersInv, CallersAgree
<1> QED BY SpecInv, <1>1, PTL

(* The publication commit: one append per record, and the one callers are  *)
(* told of; none for a call they were told is rejected.                    *)
THEOREM RequestPublishedOnce == Spec => []PublishedOnce
<1>1. IInv => PublishedOnce
  BY DEF IInv, StreamInv, AnswersInv, PublishedOnce
<1> QED BY SpecInv, <1>1, PTL

(* The publication script: an append goes to the active, routable          *)
(* admission that validated the payload, before the deadline.              *)
THEOREM PublishedWhereValidated == Spec => PublishedToValidatedAdmission
<1>1. IInv /\ [Next]_vars =>
        [requests' # requests =>
           /\ entry.state = "active" /\ Routable(entry, clock) # {}
           /\ requests'[Len(requests')].token = entry.token
           /\ entry.token \in Accepts
           /\ clock < record.deadline]_vars
  BY NextInv DEF StepInv, StreamStep
<1> QED BY SpecInv, <1>1, PTL DEF Spec, PublishedToValidatedAdmission

(* What routing leaves of the contract with callers.                       *)
LEMMA RoutedPhase ==
  ASSUME NEW r, SoundRecord(r), ~Dispatched(r), ~Terminal(r)
  PROVE  /\ r.dispatch.lease = NoLease
         /\ Phase(r) = IF r.decision \in {"none", "rejected"} THEN r.decision
                       ELSE IF Published(r) THEN "published" ELSE "admitted"
         /\ r.decision \in {"none", "admitted", "rejected"}
  BY DEF SoundRecord, Records, Dispatched, NotDispatched, Phase

(* Each change of the record is a step of the contract.                    *)
LEMMA StepKeepsContract == IInv /\ StepInv => [Contract!Next]_(Contract!vars)
<1> SUFFICES ASSUME IInv, StepInv PROVE [Contract!Next]_(Contract!vars)
  OBVIOUS
<1> DEFINE ph == Phase(record)
           ph2 == Phase(record')
<1>1. /\ SoundRecord(record) /\ ~Dispatched(record) /\ ~Terminal(record)
      /\ SoundRecord(record') /\ ~Dispatched(record') /\ ~Terminal(record')
  BY DEF IInv, RecordInv, StepInv
<1>2. record.dispatch.lease = NoLease /\ record'.dispatch.lease = NoLease
  BY <1>1, RoutedPhase
<1>3. /\ ph = IF record.decision \in {"none", "rejected"} THEN record.decision
              ELSE IF Published(record) THEN "published" ELSE "admitted"
      /\ ph2 = IF record'.decision \in {"none", "rejected"} THEN record'.decision
               ELSE IF Published(record') THEN "published" ELSE "admitted"
      /\ record'.decision \in {"none", "admitted", "rejected"}
  BY <1>1, RoutedPhase
<1> HIDE DEF ph, ph2
<1>4. \/ ph2 = ph
      \/ ph = "none" /\ ph2 = "admitted"
      \/ ph \in {"none", "admitted"} /\ ph2 = "rejected"
      \/ ph = "admitted" /\ ph2 = "published"
      \/ ph # "none" /\ ph2 = "none"
  <2>1. CASE record' = NoRecord
    BY <1>3, <2>1 DEF NoRecord
  <2>2. CASE RecordUpdate
    BY <1>3, <2>2 DEF RecordUpdate, Published, ph, ph2
  <2>3. CASE /\ record.decision = "admitted" /\ record.pub = 0
             /\ record'.decision = "admitted" /\ record'.pub # 0
    BY <1>3, <2>3 DEF Published
  <2> QED BY <2>1, <2>2, <2>3 DEF StepInv, RecordStep
<1> QED
  BY <1>2, <1>4 DEF Contract!Next, Contract!vars, Contract!Admit, Contract!Reject,
                    Contract!Publish, Contract!Forget, ph, ph2

(* The racing handlers take the record through the contract with callers.  *)
THEOREM RoutingContractKept == Spec => ImplementsContract
<1>1. Init => Contract!Init
  BY DEF Init, Contract!Init, Phase, NoRecord, NotDispatched
<1>2. IInv /\ [Next]_vars => [Contract!Next]_(Contract!vars)
  BY NextInv, StepKeepsContract
<1> QED BY SpecInv, <1>1, <1>2, PTL DEF Spec, ImplementsContract, Contract!Spec
=============================================================================
