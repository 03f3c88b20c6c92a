------------------------- MODULE CallRecord_proofs -------------------------
(***************************************************************************)
(* Lemmas about the call record's scripts, for the proofs of the modules   *)
(* that run them (CallExecution, CallRouting): each maps a sound record to *)
(* a sound record, and what each may change.                               *)
(***************************************************************************)
EXTENDS CallRecord, TLAPS

(* The records the scripts can produce.  A rejected call has nothing of an *)
(* admitted one; what has been settled or dispatched was published; the    *)
(* dispatch names one of the published requests.                           *)
SoundRecord(r) ==
    /\ r \in Records
    /\ r.decision = "none" => r = NoRecord
    /\ r.decision = "rejected" => r.pub = 0 /\ r.token = NoToken
    /\ r.decision = "admitted" => r.token \in Tokens
    /\ r.claims # {} => Published(r)
    /\ Terminal(r) => Published(r)
    /\ Dispatched(r) => /\ r.dispatch.event \in r.claims
                        /\ r.dispatch.lease \in Leases

(* What a provider's script or a settlement leaves of the record.          *)
KeepsCall(r, s) ==
    /\ s.decision = r.decision /\ s.digest = r.digest /\ s.token = r.token
    /\ s.claims = r.claims /\ s.pub = r.pub
    /\ Terminal(r) => s.terminal = r.terminal

-----------------------------------------------------------------------------
(* The missing record is sound, and carries nothing.                       *)
LEMMA NoRecordSound == SoundRecord(NoRecord) /\ ~Terminal(NoRecord) /\ ~Dispatched(NoRecord)
<1>1. NoRecord \in Records
  BY CallRecordAssumption, TokenAssumption DEF NoRecord, Records, NotDispatched, Causes
<1> QED BY <1>1 DEF SoundRecord, NoRecord, Terminal, Dispatched, Published

(* A sound record that names a lease is dispatched, and conversely.        *)
LEMMA DispatchNamesLease ==
  ASSUME NEW r, SoundRecord(r)
  PROVE  Dispatched(r) <=> r.dispatch.lease \in Leases
  BY CallRecordAssumption DEF SoundRecord, Dispatched, NotDispatched, Records

(* Settling keeps everything but the terminal cause.                       *)
LEMMA SettleFacts ==
  ASSUME NEW r, SoundRecord(r), NEW cause \in Causes, Published(r), ~Terminal(r)
  PROVE  /\ SoundRecord(Settle(r, cause))
         /\ KeepsCall(r, Settle(r, cause))
         /\ Settle(r, cause).dispatch = r.dispatch
         /\ Settle(r, cause).reported = r.reported
<1> DEFINE s == Settle(r, cause)
<1>1. s \in Records
  BY DEF SoundRecord, Settle, Records
<1>2. /\ s.decision = r.decision /\ s.digest = r.digest /\ s.token = r.token
      /\ s.claims = r.claims /\ s.pub = r.pub /\ s.dispatch = r.dispatch
      /\ s.reported = r.reported
  BY DEF SoundRecord, Settle, Records
<1>3. r.decision # "none"
  BY DEF SoundRecord, NoRecord, Published
<1> HIDE DEF s
<1>4. SoundRecord(s)
  BY <1>1, <1>2, <1>3 DEF SoundRecord, Published, Dispatched
<1>5. KeepsCall(r, s)
  BY <1>2 DEF KeepsCall
<1> QED BY <1>2, <1>4, <1>5 DEF s

(* A script that leaves the record alone keeps the call.                   *)
LEMMA KeepsItself == \A r : KeepsCall(r, r)
  BY DEF KeepsCall

(* What ensure answers.                                                    *)
EnsureOutcome(r, d, t, q) ==
    /\ SoundRecord(q.record)
    /\ q.result = "created" <=> r.decision = "none"
    /\ q.result = "created" =>
          /\ q.record.decision = "admitted" /\ q.record.digest = d /\ q.record.token = t
          /\ q.record.pub = 0 /\ q.record.claims = {} /\ q.record.reported = {}
          /\ ~Published(q.record) /\ ~Terminal(q.record) /\ q.record.dispatch = NotDispatched
    /\ q.result # "created" => q.record = r \/ (r.decision = "admitted" /\ Movable(r) /\ q.record = [r EXCEPT !.token = t])
    /\ q.result = "conflict" <=> r.decision # "none" /\ r.digest # d
    /\ q.result \in {"created", "conflict", "rejected", "attach"}

(* ensure: a decision that exists is not made again; an unpublished one    *)
(* may move to the registration of the handler that asks.                  *)
LEMMA EnsureFacts ==
  ASSUME NEW r, SoundRecord(r), NEW d \in Digests, NEW t \in Tokens, NEW timeout \in Nat, NEW now \in Nat
  PROVE  EnsureOutcome(r, d, t, Ensure(r, d, t, timeout, now))
<1> DEFINE new == [NoRecord EXCEPT !.decision = "admitted", !.digest = d, !.token = t,
                                   !.deadline = now + timeout, !.expires = now + ResultTTL]
           moved == [r EXCEPT !.token = t]
<1>1. new \in Records
  <2>1. now + timeout \in Nat /\ now + ResultTTL \in Nat
    BY CallRecordAssumption
  <2> QED BY <2>1, NoRecordSound DEF SoundRecord, Records, NoRecord
<1>2. /\ new.decision = "admitted" /\ new.digest = d /\ new.token = t
      /\ new.pub = 0 /\ new.claims = {} /\ new.dispatch = NotDispatched /\ new.terminal = "none"
      /\ new.reported = {}
  BY DEF NoRecord
<1> HIDE DEF new
<1>3. SoundRecord(new) /\ ~Published(new) /\ ~Terminal(new)
  BY <1>1, <1>2 DEF SoundRecord, Published, Terminal, Dispatched
<1>4. ASSUME r.decision = "admitted", Movable(r) PROVE SoundRecord(moved)
  <2>1. moved \in Records
    BY DEF SoundRecord, Records
  <2>2. /\ moved.decision = "admitted" /\ moved.token = t /\ moved.pub = r.pub
        /\ moved.claims = r.claims /\ moved.dispatch = r.dispatch /\ moved.terminal = r.terminal
    BY <1>4 DEF SoundRecord, Records
  <2> HIDE DEF moved
  <2> QED BY <1>4, <2>1, <2>2 DEF SoundRecord, Published, Terminal, Dispatched, Movable
<1> HIDE DEF moved
<1>5. r.decision \in {"none", "admitted", "rejected"}
  BY DEF SoundRecord, Records
<1>6. Ensure(r, d, t, timeout, now) =
        IF r.decision = "none" THEN Reply(new, "created")
        ELSE IF r.digest # d THEN Reply(r, "conflict")
        ELSE IF r.decision = "rejected" THEN Reply(r, "rejected")
        ELSE IF Movable(r) THEN Reply(moved, "attach")
        ELSE Reply(r, "attach")
  BY DEF Ensure, new, moved
<1> QED BY <1>2, <1>3, <1>4, <1>5, <1>6 DEF Reply, moved, EnsureOutcome

(* What a rejection answers.                                               *)
RejectOutcome(r, d, q) ==
    /\ SoundRecord(q.record)
    /\ q.result \in {"conflict", "attach", "rejected"}
    /\ q.result # "rejected" => q.record = r /\ r.decision # "none"
    /\ q.result = "rejected" => q.record.decision = "rejected" /\ q.record.digest = d
    /\ \/ q.record = r
       \/ /\ r.decision = "none" \/ (r.decision = "admitted" /\ Movable(r))
          /\ q.record.pub = 0 /\ ~Terminal(q.record) /\ q.record.dispatch = NotDispatched

(* reject: only a call that is not published is rejected, and it loses     *)
(* what it had of an admission.                                            *)
LEMMA RejectFacts ==
  ASSUME NEW r, SoundRecord(r), NEW d \in Digests, NEW now \in Nat
  PROVE  RejectOutcome(r, d, Reject(r, d, now))
<1> DEFINE new == [NoRecord EXCEPT !.decision = "rejected", !.digest = d, !.expires = now + ResultTTL]
<1>1. now + ResultTTL \in Nat
  BY CallRecordAssumption
<1>2. new \in Records
  BY <1>1, NoRecordSound DEF SoundRecord, Records, NoRecord
<1>3. /\ new.decision = "rejected" /\ new.digest = d /\ new.token = NoToken
      /\ new.pub = 0 /\ new.claims = {} /\ new.dispatch = NotDispatched /\ new.terminal = "none"
  BY DEF NoRecord
<1> HIDE DEF new
<1>4. SoundRecord(new) /\ ~Terminal(new)
  BY <1>2, <1>3 DEF SoundRecord, Terminal, Dispatched
<1>5. r.decision \in {"none", "admitted", "rejected"}
  BY DEF SoundRecord, Records
<1>6. Reject(r, d, now) =
        IF r.decision # "none" /\ r.digest # d THEN Reply(r, "conflict")
        ELSE IF r.decision = "rejected" THEN Reply(r, "rejected")
        ELSE IF r.decision = "admitted" /\ ~Movable(r) THEN Reply(r, "attach")
        ELSE Reply(new, "rejected")
  BY DEF Reject, new
<1> QED BY <1>3, <1>4, <1>5, <1>6 DEF RejectOutcome, Reply

(* What a publication answers.                                             *)
PublishOutcome(r, e, d, t, overload, id, now, q) ==
    /\ q.result \in {"changed", "duplicate", "unroutable", "full", "published"}
    /\ q.result # "published" => q.record = r
    /\ q.result = "duplicate" =>
          /\ r.decision = "admitted" /\ r.digest = d /\ r.token = t
          /\ Terminal(r) \/ Published(r) \/ overload # 0
    /\ q.result = "published" =>
          /\ r.decision = "admitted" /\ r.digest = d /\ r.token = t
          /\ ~Terminal(r) /\ q.record.terminal = r.terminal
          /\ overload = 0 => ~Published(r)
          /\ ~(r.deadline <= now)
          /\ e.state = "active" /\ e.token = t /\ Routable(e, now) # {}
          /\ q.record.decision = r.decision /\ q.record.digest = r.digest /\ q.record.token = r.token
          /\ q.record.pub = id /\ q.record.claims = r.claims \cup {id} /\ q.record.dispatch = r.dispatch
          /\ q.record.reported = r.reported
          /\ id # 0 => SoundRecord(q.record)

(* Publication: the only script that adds a request to what providers may  *)
(* claim, of a call that is admitted and has no result.                    *)
LEMMA PublishFacts ==
  ASSUME NEW r, SoundRecord(r), NEW e, NEW d, NEW t, NEW overload \in Nat, NEW full,
         NEW id \in Nat, NEW now
  PROVE  PublishOutcome(r, e, d, t, overload, id, now, Publish(r, e, d, t, overload, full, id, now))
<1> DEFINE p == [r EXCEPT !.pub = id, !.claims = @ \cup {id}, !.retried = overload]
<1>1. r \in Records
  BY DEF SoundRecord
<1>2. p \in Records
  BY <1>1 DEF Records
<1>3. /\ p.decision = r.decision /\ p.digest = r.digest /\ p.token = r.token
      /\ p.pub = id /\ p.claims = r.claims \cup {id} /\ p.dispatch = r.dispatch
      /\ p.terminal = r.terminal /\ p.reported = r.reported
  BY <1>1 DEF Records
<1> HIDE DEF p
<1>4. r.decision = "admitted" /\ id # 0 => SoundRecord(p)
  BY <1>2, <1>3 DEF SoundRecord, Published, Terminal, Dispatched
<1> QED BY <1>3, <1>4 DEF Publish, Reply, p, PublishOutcome

(* What a claim answers.                                                   *)
ClaimOutcome(r, c, t, l, event, q) ==
    /\ SoundRecord(q.record) /\ KeepsCall(r, q.record) /\ q.record.reported = r.reported
    /\ q.result # "execute" => q.record.dispatch = r.dispatch
    /\ q.result = "execute" =>
          /\ ~Dispatched(r) /\ ~Terminal(r) /\ q.record.terminal = r.terminal
          /\ r.decision # "none" /\ event \in r.claims /\ c = t /\ r.token = c
          /\ q.record.dispatch = [token |-> t, lease |-> l, event |-> event]

(* claim: the only script that dispatches, and then a call that is neither *)
(* dispatched nor settled, to a provider of the admission that publishes   *)
(* the request.                                                            *)
LEMMA ClaimFacts ==
  ASSUME NEW r, SoundRecord(r), NEW e, NEW c \in Tokens, NEW t \in Tokens, NEW l \in Leases,
         NEW event \in Nat, NEW now
  PROVE  ClaimOutcome(r, c, t, l, event, Claim(r, e, c, t, l, event, now))
<1> DEFINE x == [token |-> t, lease |-> l, event |-> event]
           g == [r EXCEPT !.dispatch = x]
<1>1. r \in Records
  BY DEF SoundRecord
<1>2. x.event = event /\ x.lease = l /\ x \in [token : Tokens \cup {NoToken}, lease : Leases \cup {NoLease}, event : Nat]
  OBVIOUS
<1> HIDE DEF x
<1>3. g \in Records
  BY <1>1, <1>2 DEF Records
<1>4. /\ g.decision = r.decision /\ g.digest = r.digest /\ g.token = r.token
      /\ g.pub = r.pub /\ g.claims = r.claims /\ g.dispatch = x
      /\ g.terminal = r.terminal /\ g.reported = r.reported
  BY <1>1 DEF Records
<1> HIDE DEF g
<1>5. r.decision # "none" /\ event \in r.claims => SoundRecord(g)
  BY <1>2, <1>3, <1>4 DEF SoundRecord, Published, Terminal
<1>6. KeepsCall(r, g)
  BY <1>4 DEF KeepsCall
<1>7. event \in r.claims => Published(r)
  BY DEF SoundRecord
<1>8. "stale_admission" \in Causes
  BY DEF Causes
<1>9. event \in r.claims /\ ~Terminal(r) =>
         /\ SoundRecord(Settle(r, "stale_admission")) /\ KeepsCall(r, Settle(r, "stale_admission"))
         /\ Settle(r, "stale_admission").dispatch = r.dispatch
         /\ Settle(r, "stale_admission").reported = r.reported
  BY <1>7, <1>8, SettleFacts
<1>10. Claim(r, e, c, t, l, event, now) =
    IF ~LeaseLive(e, t, l, now) THEN Reply(r, "lease_changed")
    ELSE IF r.decision = "none" THEN Reply(r, "expired")
    ELSE IF r.token # c \/ event \notin r.claims THEN Reply(r, "claim_changed")
    ELSE IF Terminal(r) THEN Reply(r, "terminal")
    ELSE IF r.deadline <= now THEN Reply(r, "expired")
    ELSE IF Dispatched(r) THEN Reply(r, "claimed")
    ELSE IF c # t THEN Reply(Settle(r, "stale_admission"), "terminal")
    ELSE Reply(g, "execute")
  BY DEF Claim, g, x
<1> QED BY <1>4, <1>5, <1>6, <1>9, <1>10, KeepsItself DEF Reply, x, ClaimOutcome

(* complete: commits a result for the provider that holds the dispatch.    *)
LEMMA CompleteFacts ==
  ASSUME NEW r, SoundRecord(r), NEW e, NEW c, NEW t, NEW l \in Leases, NEW event, NEW now
  PROVE  LET s == Complete(r, e, c, t, l, event, now).record
         IN  /\ SoundRecord(s) /\ KeepsCall(r, s)
             /\ s.dispatch = r.dispatch /\ s.reported = r.reported
<1>1. event \in r.claims => Published(r)
  BY DEF SoundRecord
<1>2. {"execution_deadline", "provider"} \subseteq Causes
  BY DEF Causes, UncertainCauses
<1>3. ASSUME event \in r.claims, ~Terminal(r), NEW cause \in {"execution_deadline", "provider"}
      PROVE  /\ SoundRecord(Settle(r, cause)) /\ KeepsCall(r, Settle(r, cause))
             /\ Settle(r, cause).dispatch = r.dispatch /\ Settle(r, cause).reported = r.reported
  BY <1>1, <1>2, <1>3, SettleFacts
<1> QED BY <1>3, KeepsItself DEF Complete, Reply

(* A live output event only counts.                                        *)
LEMMA LiveEventFacts ==
  ASSUME NEW r, SoundRecord(r), NEW e, NEW c, NEW t, NEW l, NEW event, NEW now
  PROVE  LET s == PublishLiveEvent(r, e, c, t, l, event, now).record
         IN  /\ SoundRecord(s) /\ KeepsCall(r, s) /\ s.terminal = r.terminal
             /\ s.dispatch = r.dispatch /\ s.reported = r.reported
<1> DEFINE x == r.deltas + 1
           g == [r EXCEPT !.deltas = x]
<1>1. r \in Records
  BY DEF SoundRecord
<1>2. r.deltas < MaxToolOutputDeltas => x \in 0 .. MaxToolOutputDeltas
  BY <1>1, CallRecordAssumption DEF Records
<1>2a. r.deltas \in 0 .. MaxToolOutputDeltas
  BY <1>1 DEF Records
<1> HIDE DEF x
<1>3. r.deltas < MaxToolOutputDeltas => g \in Records
  BY <1>1, <1>2 DEF Records
<1>4. /\ g.decision = r.decision /\ g.digest = r.digest /\ g.token = r.token
      /\ g.pub = r.pub /\ g.claims = r.claims /\ g.dispatch = r.dispatch
      /\ g.terminal = r.terminal /\ g.reported = r.reported
  BY <1>1 DEF Records
<1> HIDE DEF g
<1>5. r.token = c /\ event \in r.claims /\ r.deltas < MaxToolOutputDeltas => SoundRecord(g)
  BY <1>3, <1>4 DEF SoundRecord, Published, Terminal, Dispatched, NoRecord
<1>6. KeepsCall(r, g)
  BY <1>4 DEF KeepsCall
<1>7. PublishLiveEvent(r, e, c, t, l, event, now).record =
        IF r.token = c /\ LeaseLive(e, t, l, now) /\ event \in r.claims /\ ~(r.expires <= now)
           /\ ~Terminal(r) /\ ~(r.deadline <= now) /\ Holds(r, t, l, event)
           /\ ~(r.deltas >= MaxToolOutputDeltas)
        THEN g ELSE r
  BY DEF PublishLiveEvent, Reply, g, x
<1>8. ~(r.deltas >= MaxToolOutputDeltas) => r.deltas < MaxToolOutputDeltas
  BY <1>2a, CallRecordAssumption
<1> QED BY <1>4, <1>5, <1>6, <1>7, <1>8, KeepsItself

(* What the report of an overload answers.                                 *)
OverloadOutcome(r, event, q) ==
    /\ SoundRecord(q.record) /\ KeepsCall(r, q.record) /\ q.record.dispatch = r.dispatch
    /\ q.record.reported = r.reported \/ q.record.reported = r.reported \cup {event}

(* An overload is reported once per request, of a call nobody runs.        *)
LEMMA OverloadFacts ==
  ASSUME NEW r, SoundRecord(r), NEW e, NEW c, NEW t, NEW l, NEW event \in Nat, NEW id \in Nat, NEW now
  PROVE  OverloadOutcome(r, event, ReportOverload(r, e, c, t, l, event, id, now))
<1> DEFINE b == Settle(r, "stale_admission")
           stale == [b EXCEPT !.reported = @ \cup {event}]
           over == [r EXCEPT !.overload = id, !.reported = @ \cup {event}]
<1>1. r \in Records
  BY DEF SoundRecord
<1>2. event \in r.claims /\ ~Terminal(r) => SoundRecord(b) /\ KeepsCall(r, b) /\ b.dispatch = r.dispatch /\ b.reported = r.reported
  BY SettleFacts DEF SoundRecord, Causes
<1> HIDE DEF b
<1>3. ASSUME event \in r.claims, ~Terminal(r)
      PROVE  /\ SoundRecord(stale) /\ KeepsCall(r, stale) /\ stale.dispatch = r.dispatch
             /\ stale.reported = r.reported \cup {event}
  <2>1. b \in Records
    BY <1>2, <1>3 DEF SoundRecord
  <2>2. stale \in Records
    BY <2>1 DEF Records
  <2>3. /\ stale.decision = b.decision /\ stale.digest = b.digest /\ stale.token = b.token
        /\ stale.pub = b.pub /\ stale.claims = b.claims /\ stale.dispatch = b.dispatch
        /\ stale.terminal = b.terminal /\ stale.reported = b.reported \cup {event}
    BY <2>1 DEF Records
  <2> HIDE DEF stale
  <2>4. b.claims = r.claims
    BY <1>2, <1>3 DEF KeepsCall
  <2>5. SoundRecord(stale)
    BY <1>2, <1>3, <2>2, <2>3, <2>4 DEF SoundRecord, Published, Terminal, Dispatched, NoRecord
  <2> QED BY <1>2, <1>3, <2>3, <2>5 DEF KeepsCall
<1> HIDE DEF stale
<1>4. ASSUME event \in r.claims
      PROVE  /\ SoundRecord(over) /\ KeepsCall(r, over) /\ over.dispatch = r.dispatch
             /\ over.reported = r.reported \cup {event}
  <2>2. over \in Records
    BY <1>1 DEF Records
  <2>3. /\ over.decision = r.decision /\ over.digest = r.digest /\ over.token = r.token
        /\ over.pub = r.pub /\ over.claims = r.claims /\ over.dispatch = r.dispatch
        /\ over.terminal = r.terminal /\ over.reported = r.reported \cup {event}
    BY <1>1 DEF Records
  <2> HIDE DEF over
  <2>5. SoundRecord(over)
    BY <1>4, <2>2, <2>3 DEF SoundRecord, Published, Terminal, Dispatched, NoRecord
  <2> QED BY <2>3, <2>5 DEF KeepsCall
<1> HIDE DEF over
<1>5. ReportOverload(r, e, c, t, l, event, id, now) =
    IF ~LeaseLive(e, t, l, now) THEN Reply(r, "lease_changed")
    ELSE IF r.decision = "none" THEN Reply(r, "ignored")
    ELSE IF r.token # c \/ event \notin r.claims THEN Reply(r, "claim_changed")
    ELSE IF event \in r.reported \/ r.deadline <= now \/ Terminal(r) \/ Dispatched(r)
         THEN Reply(r, "ignored")
    ELSE IF c # t THEN Reply(stale, "terminal")
    ELSE Reply(over, "overloaded")
  BY DEF ReportOverload, stale, over, b
<1> QED BY <1>3, <1>4, <1>5, KeepsItself DEF Reply, OverloadOutcome

(* settlement: settles a dispatched call, and only once.                   *)
LEMMA SettleLostFacts ==
  ASSUME NEW r, SoundRecord(r), NEW e, NEW cause \in Causes, NEW now
  PROVE  LET q == SettleLostClaim(r, e, cause, now)
             s == q.record
         IN  /\ SoundRecord(s) /\ KeepsCall(r, s)
             /\ s.dispatch = r.dispatch /\ s.reported = r.reported
             /\ q.result = "rescore" => Dispatched(r)
<1>1. Dispatched(r) => Published(r)
  BY DEF SoundRecord
<1>2. "provider_lease_lost" \in Causes
  BY DEF Causes, UncertainCauses
<1>3. ASSUME Dispatched(r), ~Terminal(r), NEW k \in {cause, "provider_lease_lost"}
      PROVE  /\ SoundRecord(Settle(r, k)) /\ KeepsCall(r, Settle(r, k))
             /\ Settle(r, k).dispatch = r.dispatch /\ Settle(r, k).reported = r.reported
  BY <1>1, <1>2, <1>3, SettleFacts
<1> QED BY <1>3, KeepsItself DEF SettleLostClaim, Reply
=============================================================================
