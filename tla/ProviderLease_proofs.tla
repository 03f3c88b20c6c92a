------------------------ MODULE ProviderLease_proofs ------------------------
(***************************************************************************)
(* Proofs about a provider's registry membership, for any lease, margins,  *)
(* timeouts, faults and tokens: a provider that consumes has a routable    *)
(* lease, a drained lease lasts through the settlement, and a drained      *)
(* provider returns to routing only by a renewal that was still under way. *)
(*                                                                         *)
(* The argument compares two clocks, the provider's deadline and the       *)
(* registry's expiry, which start at different moments of one attempt; the *)
(* timers are ordered so that the deadline is never reached in service.    *)
(***************************************************************************)
EXTENDS ProviderLease, CatalogEntry_proofs

(* A missing record names no admission and no lease.                       *)
AbsentInv == entry.state = "absent" => entry.token = NoToken /\ Held(entry) = {}

(* One attempt at a time, for at most its timeout, and none once Serve has *)
(* begun to drain.                                                         *)
AttemptInv ==
    /\ attempt.at = "none" => attempt = NoAttempt
    /\ attempt.at # "none" => attempt.token \in Mine
    /\ attempt.left + attempt.age <= AttemptTimeout
    /\ mode \notin {"registering", "serving", "finishing"} => attempt = NoAttempt
    /\ drained # "no" => mode \in {"settling", "releasing", "stopped"}
    /\ "late_request" \notin Faults => late = {}

(* While Serve consumes, the next thing it does is due before its cutoff,  *)
(* and the registry's lease outlasts its deadline.                         *)
ServingInv ==
    mode = "serving" =>
        /\ \A s, t \in held : s = t
        /\ deadline >= Margin
        /\ attempt.at = "none" => delay <= deadline - Margin
        /\ attempt.at # "none" => attempt.left <= deadline - Margin
        /\ ~lost => /\ entry.token \in held
                    /\ Me \notin entry.draining
                    /\ entry.expires[Me] >= deadline

(* The reply under way grants no more than the registry still has.         *)
GrantInv ==
    /\ mode = "registering" => held = {}
    /\ /\ attempt.at = "landed" /\ attempt.result = "admitted" /\ ~lost
       /\ mode = "registering" \/ (mode = "serving" /\ attempt.token \in held)
       => /\ entry.token = attempt.token
          /\ Me \notin entry.draining
          /\ entry.expires[Me] >= LeaseDuration - attempt.age

(* A renewal that is still on its way when the drain lands sets the lease  *)
(* back to its usual duration, whatever the drain had extended it to.      *)
LateRenewalIsLongEnough == "late_request" \notin Faults \/ ShutdownTimeout < LeaseDuration

SettlementInv ==
    LateRenewalIsLongEnough =>
        (mode = "settling" /\ drained = "kept" /\ ~lost => entry.expires[Me] > settle)

IInv ==
    /\ TypeOK
    /\ Named(entry)
    /\ AbsentInv
    /\ AttemptInv
    /\ ServingInv
    /\ GrantInv
    /\ SettlementInv

-----------------------------------------------------------------------------
(* The catalog's operations, at time 0, on the lease of one provider and   *)
(* on the others.                                                          *)

Keeps(e, f, k) ==
    /\ f.expires[k] = e.expires[k]
    /\ e.expires[k] > 0 => (k \in f.draining <=> k \in e.draining)

SameLeases(e, f) == \A k \in Leases : Keeps(e, f, k)

(* Nothing but the epoch and the last pong.                                *)
SameMembers(e, f) ==
    /\ f.state = e.state /\ f.token = e.token /\ f.expires = e.expires
    /\ f.draining = e.draining /\ f.retired = e.retired

(* Fencing and the model's fixed health change no lease.                   *)
LEMMA FenceMembers ==
  ASSUME NEW e \in Entries, NEW m, NEW now
  PROVE  SameMembers(e, FenceIfEmptied(m, e, now)) /\ SameMembers(e, NextEpoch(e))
  BY DEF FenceIfEmptied, NextEpoch, SameMembers, Entries

(* The health fields are not read here.                                    *)
LEMMA AnyHealthFacts ==
  ASSUME NEW e, Named(e)
  PROVE  /\ Named(AnyHealth(e)) /\ SameMembers(e, AnyHealth(e))
         /\ AnyHealth(e).epoch \in 0 .. 1 /\ AnyHealth(e).lastPong = 0
<1>1. e \in Entries /\ (e.state # "absent" => e.token \in Tokens)
  BY DEF Named
<1>2. /\ AnyHealth(e).state = e.state /\ AnyHealth(e).token = e.token
      /\ AnyHealth(e).expires = e.expires /\ AnyHealth(e).draining = e.draining
      /\ AnyHealth(e).retired = e.retired
      /\ AnyHealth(e).epoch \in 0 .. 1 /\ AnyHealth(e).lastPong = 0
  BY <1>1 DEF AnyHealth, Entries
<1>3. AnyHealth(e) \in Entries
  BY <1>1 DEF AnyHealth, Entries
<1> QED BY <1>1, <1>2, <1>3 DEF Named, SameMembers

(* A lease that has not expired survives pruning.                          *)
LEMMA PruneKeeps ==
  ASSUME NEW e \in Entries
  PROVE  /\ SameLeases(e, Prune(e, 0)) /\ Prune(e, 0) \in Entries
         /\ Prune(e, 0).state = e.state /\ Prune(e, 0).token = e.token
         /\ Prune(e, 0).retired = e.retired
<1> DEFINE kept == [e EXCEPT !.expires = [l \in Leases |-> IF e.expires[l] > 0 THEN e.expires[l] ELSE 0],
                             !.draining = {l \in e.draining : e.expires[l] > 0}]
<1>1. kept \in Entries
  BY DEF Entries
<1>2. kept.state = e.state /\ kept.token = e.token /\ kept.retired = e.retired
  BY DEF Entries
<1>3. SameLeases(e, kept)
  BY DEF SameLeases, Keeps, Entries
<1>4. Prune(e, 0) = FenceIfEmptied(NonDraining(e), kept, 0)
  BY DEF Prune
<1> HIDE DEF kept
<1>5. SameMembers(kept, Prune(e, 0))
  BY <1>1, <1>4, FenceMembers
<1> QED BY <1>2, <1>3, <1>5, PruneType DEF SameMembers, SameLeases, Keeps

(* What Register answers to lease l.                                       *)
RegisterOutcome(e, t, l, q) ==
    /\ Named(q.entry)
    /\ q.result \in {"admitted", "blocked", "retired"}
    /\ q.entry.state = "absent" => q.entry = e
    /\ \A k \in Leases \ {l} : Keeps(e, q.entry, k)
    /\ q.result # "admitted" => SameLeases(e, q.entry) /\ q.entry.token = e.token
    /\ q.result = "admitted" =>
          /\ q.entry.token = t /\ q.entry.expires[l] = LeaseDuration /\ l \notin q.entry.draining
          /\ e.token = t \/ Held(e) = {}

(* Register: it grants a lease of the usual duration, and replaces only an *)
(* admission without leases.                                               *)
LEMMA RegisterGrants ==
  ASSUME NEW e, Named(e), NEW t \in Tokens, NEW l \in Leases,
         e.state = "absent" => Held(e) = {}
  PROVE  RegisterOutcome(e, t, l, Register(e, t, l, 0))
<1> DEFINE p == Prune(e, 0)
           n(r) == NewEntry(t, l, 0, r)
           w == Renew(p, l, 0)
<1>1. e \in Entries /\ SameLeases(e, e)
  BY DEF Named, SameLeases, Keeps
<1>2. SameLeases(e, p) /\ p \in Entries /\ p.state = e.state /\ p.token = e.token
  BY <1>1, PruneKeeps
<1>3. Held(p) = Held(e)
  BY <1>2 DEF SameLeases, Keeps, Held
<1>4. ASSUME NEW r
      PROVE  /\ n(r).state = "active" /\ n(r).token = t /\ n(r).expires[l] = LeaseDuration
             /\ n(r).draining = {} /\ \A k \in Leases \ {l} : n(r).expires[k] = 0
  BY LeaseDurationAssumption DEF NewEntry
<1>5. Held(e) = {} => \A r : \A k \in Leases \ {l} : Keeps(e, n(r), k)
  <2>1. Held(e) = {} => \A k \in Leases : e.expires[k] = 0
    BY <1>1 DEF Held, Entries
  <2> HIDE DEF n
  <2> QED BY <1>4, <2>1 DEF Keeps
<1>6. /\ w.state = e.state /\ w.token = e.token /\ w.expires[l] = LeaseDuration
      /\ l \notin w.draining /\ \A k \in Leases \ {l} : Keeps(e, w, k)
  <2> DEFINE x == 0 + LeaseDuration
             g == [p EXCEPT !.expires[l] = x, !.draining = @ \ {l}]
  <2>1. x \in Nat /\ x = LeaseDuration
    BY LeaseDurationAssumption
  <2>2. w = g \/ w = NextEpoch(g)
    BY DEF Renew
  <2> HIDE DEF x, w, p
  <2>3. g \in Entries
    BY <1>2, <2>1 DEF Entries
  <2>4. /\ g.state = e.state /\ g.token = e.token /\ g.expires[l] = LeaseDuration /\ l \notin g.draining
        /\ \A k \in Leases \ {l} : g.expires[k] = p.expires[k] /\ (k \in g.draining <=> k \in p.draining)
    BY <1>2, <2>1 DEF Entries
  <2> HIDE DEF g
  <2>5. SameMembers(g, w)
    BY <2>2, <2>3, FenceMembers DEF SameMembers
  <2> QED BY <1>2, <2>4, <2>5 DEF SameMembers, SameLeases, Keeps
<1>7. Named(Register(e, t, l, 0).entry)
  BY RegisterNamed
<1> HIDE DEF p, w, n
<1>8. Register(e, t, l, 0) =
        IF e.state = "absent" THEN Write(n({}), "admitted")
        ELSE IF t \in p.retired THEN Return(e, "retired")
        ELSE IF p.token = t THEN Write(w, "admitted")
        ELSE IF Held(p) # {} THEN WriteIf(Expired(e, 0) # {}, p, "blocked")
        ELSE Write(n(p.retired \cup {p.token}), "admitted")
  BY DEF Register, p, w, n
<1> DEFINE q == Register(e, t, l, 0)
<1>9. CASE e.state = "absent"
  <2>1. q.entry = n({}) /\ q.result = "admitted"
    BY <1>8, <1>9 DEF Write
  <2> HIDE DEF q
  <2>2. Held(e) = {}
    BY <1>9
  <2>3. RegisterOutcome(e, t, l, q)
    BY <1>4, <1>5, <1>7, <2>1, <2>2 DEF RegisterOutcome, q
  <2> QED BY <2>3 DEF q
<1>10. CASE e.state # "absent" /\ t \in p.retired
  <2>1. q.entry = e /\ q.result = "retired"
    BY <1>8, <1>10 DEF Return
  <2> HIDE DEF q
  <2>2. RegisterOutcome(e, t, l, q)
    BY <1>1, <2>1 DEF RegisterOutcome, SameLeases
  <2> QED BY <2>2 DEF q
<1>11. CASE e.state # "absent" /\ t \notin p.retired /\ p.token = t
  <2>1. q.entry = w /\ q.result = "admitted"
    BY <1>8, <1>11 DEF Write
  <2> HIDE DEF q
  <2>2. RegisterOutcome(e, t, l, q)
    BY <1>2, <1>6, <1>7, <1>11, <2>1 DEF RegisterOutcome, q
  <2> QED BY <2>2 DEF q
<1>12. CASE e.state # "absent" /\ t \notin p.retired /\ p.token # t /\ Held(p) # {}
  <2>1. q.entry = p /\ q.result = "blocked"
    BY <1>8, <1>12 DEF WriteIf
  <2> HIDE DEF q
  <2>2. RegisterOutcome(e, t, l, q)
    BY <1>2, <1>7, <1>12, <2>1 DEF RegisterOutcome, SameLeases, q
  <2> QED BY <2>2 DEF q
<1>13. CASE e.state # "absent" /\ t \notin p.retired /\ p.token # t /\ Held(p) = {}
  <2>1. q.entry = n(p.retired \cup {p.token}) /\ q.result = "admitted"
    BY <1>8, <1>13 DEF Write
  <2> HIDE DEF q
  <2>2. RegisterOutcome(e, t, l, q)
    BY <1>3, <1>4, <1>5, <1>7, <1>13, <2>1 DEF RegisterOutcome, q
  <2> QED BY <2>2 DEF q
<1> QED BY <1>9, <1>10, <1>11, <1>12, <1>13

(* What DrainProvider leaves of the record.                                *)
DrainOutcome(e, t, l, s, f) ==
    /\ Named(f)
    /\ f.state = "absent" => f = e
    /\ f.token = e.token
    /\ \A k \in Leases \ {l} : Keeps(e, f, k)
    /\ \/ f = e /\ (e.state = "absent" \/ e.token # t \/ l \notin Held(e))
       \/ /\ l \in f.draining
          /\ f.expires[l] = IF e.expires[l] > s THEN e.expires[l] ELSE s

(* DrainProvider: a lease of the admission is extended through the         *)
(* settlement and marked.                                                  *)
LEMMA DrainExtends ==
  ASSUME NEW e, Named(e), NEW t, NEW l \in Leases, NEW s \in Nat
  PROVE  /\ DrainOutcome(e, t, l, s, DrainProvider(e, t, l, 0, s).entry)
         /\ DrainProvider(e, t, l, 0, s).result = "done"
<1> DEFINE until == IF e.expires[l] > 0 + s THEN e.expires[l] ELSE 0 + s
           d == [e EXCEPT !.draining = @ \cup {l}, !.expires[l] = until]
           g == FenceIfEmptied(Routable(e, 0), d, 0)
           f == DrainProvider(e, t, l, 0, s).entry
<1>1. e \in Entries /\ 0 + s = s /\ Expired(e, 0) = {}
  BY DEF Named, Expired, Held, Entries
<1>2. until \in Nat
  BY <1>1 DEF Entries
<1> HIDE DEF until
<1>3. d \in Entries
  BY <1>1, <1>2 DEF Entries
<1>4. /\ d.state = e.state /\ d.token = e.token /\ d.expires[l] = until /\ l \in d.draining
      /\ \A k \in Leases \ {l} : Keeps(e, d, k)
  BY <1>1, <1>2 DEF Entries, Keeps
<1> HIDE DEF d
<1>5. SameMembers(d, g)
  BY <1>3, FenceMembers
<1>6. DrainProvider(e, t, l, 0, s) =
        IF e.state = "absent" \/ e.token # t \/ l \notin Held(e) THEN Return(e, "done")
        ELSE IF l \in Expired(e, 0) THEN Write(Prune(e, 0), "done") ELSE Write(g, "done")
  BY <1>1 DEF DrainProvider, d, until
<1>7. Named(f)
  BY DrainNamed
<1> HIDE DEF g
<1>8. (f = e /\ (e.state = "absent" \/ e.token # t \/ l \notin Held(e))) \/ (f = g /\ e.state # "absent")
  BY <1>1, <1>6 DEF Return, Write
<1>9. DrainProvider(e, t, l, 0, s).result = "done"
  BY <1>6 DEF Return, Write
<1> HIDE DEF f
<1>10. DrainOutcome(e, t, l, s, f)
  BY <1>1, <1>4, <1>5, <1>7, <1>8 DEF DrainOutcome, SameMembers, Keeps, until
<1> QED BY <1>9, <1>10 DEF f

(* What ReleaseProvider leaves of the record.                              *)
ReleaseOutcome(e, t, l, f) ==
    /\ Named(f)
    /\ f.state = "absent" => f = e
    /\ f.token = e.token
    /\ \A k \in Leases \ {l} : Keeps(e, f, k)
    /\ Keeps(e, f, l) \/ f.expires[l] = 0
    /\ e.token # t => f = e

(* ReleaseProvider: one lease of the admission ends.                       *)
LEMMA ReleaseEnds ==
  ASSUME NEW e, Named(e), NEW t, NEW l \in Leases
  PROVE  /\ ReleaseOutcome(e, t, l, ReleaseProvider(e, t, l, 0).entry)
         /\ ReleaseProvider(e, t, l, 0).result = "done"
<1> DEFINE p == Prune(e, 0)
           d == [p EXCEPT !.expires[l] = 0, !.draining = @ \ {l}]
           g == FenceIfEmptied(Routable(p, 0), d, 0)
           f == ReleaseProvider(e, t, l, 0).entry
<1>1. e \in Entries
  BY DEF Named
<1>2. SameLeases(e, p) /\ p \in Entries /\ p.state = e.state /\ p.token = e.token
  BY <1>1, PruneKeeps
<1> HIDE DEF p
<1>3. d \in Entries
  BY <1>2 DEF Entries
<1>4. /\ d.state = e.state /\ d.token = e.token /\ d.expires[l] = 0
      /\ \A k \in Leases \ {l} : d.expires[k] = p.expires[k] /\ (k \in d.draining <=> k \in p.draining)
  BY <1>2 DEF Entries
<1> HIDE DEF d
<1>5. SameMembers(d, g)
  BY <1>3, FenceMembers
<1>6. ReleaseProvider(e, t, l, 0) =
        IF e.state = "absent" \/ e.token # t THEN Return(e, "done")
        ELSE IF l \notin Held(p) THEN WriteIf(Expired(e, 0) # {}, p, "done") ELSE Write(g, "done")
  BY DEF ReleaseProvider, p, d
<1>7. Named(f)
  BY ReleaseNamed
<1> HIDE DEF g
<1>8. \/ f = e
      \/ e.state # "absent" /\ e.token = t /\ (f = p \/ f = g)
  BY <1>6 DEF Return, Write, WriteIf
<1>9. ReleaseProvider(e, t, l, 0).result = "done"
  BY <1>6 DEF Return, Write, WriteIf
<1> HIDE DEF f
<1>10. /\ f.token = e.token /\ (f.state = "absent" => f = e)
       /\ \A k \in Leases \ {l} : Keeps(e, f, k)
       /\ Keeps(e, f, l) \/ f.expires[l] = 0
  <2>1. CASE f = e
    BY <2>1 DEF Keeps
  <2>2. CASE e.state # "absent" /\ f = p
    BY <1>2, <2>2 DEF SameLeases
  <2>3. CASE e.state # "absent" /\ f = g
    BY <1>2, <1>4, <1>5, <2>3 DEF SameMembers, SameLeases, Keeps
  <2> QED BY <1>8, <2>1, <2>2, <2>3
<1>11. ReleaseOutcome(e, t, l, f)
  BY <1>7, <1>8, <1>10 DEF ReleaseOutcome
<1> QED BY <1>9, <1>11 DEF f

(* Retire: no lease changes.                                               *)
LEMMA RetireKeeps ==
  ASSUME NEW e, Named(e), NEW t
  PROVE  LET f == Retire(e, t).entry
         IN  /\ Named(f) /\ SameLeases(e, f) /\ f.token = e.token
             /\ f.state = "absent" => f = e
<1>1. Named(Retire(e, t).entry)
  BY RetireNamed
<1>2. LET f == Retire(e, t).entry
      IN  f.expires = e.expires /\ f.draining = e.draining /\ f.token = e.token
          /\ (f.state = "absent" => f = e)
  BY DEF Retire, Return, Write, Entries, Named
<1> QED BY <1>1, <1>2 DEF SameLeases, Keeps

-----------------------------------------------------------------------------
(* Constants, and the arithmetic of the timers.                            *)

MaxExpiry == Max({LeaseDuration, ShutdownTimeout + AuthorityMargin})

(* The greater of two.                                                     *)
LEMMA MaxOfTwo ==
  ASSUME NEW a \in Int, NEW b \in Int
  PROVE  Max({a, b}) \in {a, b} /\ Max({a, b}) >= a /\ Max({a, b}) >= b
<1>1. \E x \in {a, b} : \A y \in {a, b} : x >= y
  <2>1. CASE a >= b
    BY <2>1
  <2>2. CASE b >= a
    BY <2>2
  <2> QED BY <2>1, <2>2
<1> QED BY <1>1 DEF Max

(* The lesser of two.                                                      *)
LEMMA MinOfTwo ==
  ASSUME NEW a \in Int, NEW b \in Int
  PROVE  Min({a, b}) \in {a, b} /\ Min({a, b}) <= a /\ Min({a, b}) <= b
<1>1. \E x \in {a, b} : \A y \in {a, b} : x <= y
  <2>1. CASE a <= b
    BY <2>1
  <2>2. CASE b <= a
    BY <2>2
  <2> QED BY <2>1, <2>2
<1> QED BY <1>1 DEF Min

(* A delay is never longer than what remains to the cutoff.                *)
LEMMA WaitFacts ==
  ASSUME NEW n \in Nat \ {0}, NEW r \in Nat \ {0}, Wait(n, r)
  PROVE  delay' \in 1 .. r
<1> DEFINE h == r \div 2
           m == Min({n, h})
<1>1. h \in Nat /\ h <= r
  OBVIOUS
<1> HIDE DEF h
<1>2. m \in Nat /\ m <= h
  <2>1. n \in Int /\ h \in Int
    BY <1>1
  <2>2. m \in {n, h} /\ m <= h
    BY <2>1, MinOfTwo
  <2> QED BY <1>1, <2>2
<1>3. delay' = Max({1, m})
  BY DEF Wait, h
<1> HIDE DEF m
<1>4. delay' \in {1, m} /\ delay' >= 1
  BY <1>2, <1>3, MaxOfTwo
<1> QED BY <1>1, <1>2, <1>4

(* What the assumptions say of the constants.                              *)
LEMMA ConstantFacts ==
  /\ Me \in Leases /\ Rival \in Leases \ {Me} /\ Me \in Leases \ {Rival}
  /\ Mine \subseteq Tokens /\ Others \subseteq Tokens /\ Mine \cap Others = {} /\ NoToken \notin Tokens
  /\ Margin \in Nat \ {0} /\ AttemptTimeout \in Nat \ {0} /\ RetryMax \in Nat \ {0}
  /\ ShutdownTimeout \in Nat \ {0} /\ AuthorityMargin \in Nat \ {0} /\ LeaseDuration \in Nat \ {0}
  /\ LeaseDuration > Margin + AttemptTimeout + RetryMax
  /\ MaxExpiry \in Nat /\ MaxExpiry >= LeaseDuration /\ MaxExpiry >= ShutdownTimeout + AuthorityMargin
<1>1. /\ Margin \in Nat \ {0} /\ AttemptTimeout \in Nat \ {0} /\ RetryMax \in Nat \ {0}
      /\ ShutdownTimeout \in Nat \ {0} /\ AuthorityMargin \in Nat \ {0} /\ LeaseDuration \in Nat \ {0}
      /\ LeaseDuration > Margin + AttemptTimeout + RetryMax
  BY ProviderLeaseAssumption, LeaseDurationAssumption
<1>2. MaxExpiry \in Nat /\ MaxExpiry >= LeaseDuration /\ MaxExpiry >= ShutdownTimeout + AuthorityMargin
  <2> DEFINE x == ShutdownTimeout + AuthorityMargin
  <2>1. x \in Int /\ x \in Nat /\ LeaseDuration \in Int /\ LeaseDuration \in Nat
    BY <1>1
  <2>2. MaxExpiry = Max({LeaseDuration, x})
    BY DEF MaxExpiry
  <2> HIDE DEF x
  <2>3. MaxExpiry \in {LeaseDuration, x} /\ MaxExpiry >= LeaseDuration /\ MaxExpiry >= x
    BY <2>1, <2>2, MaxOfTwo
  <2> QED BY <2>1, <2>3 DEF x
<1> QED BY <1>1, <1>2, ProviderLeaseAssumption, TokenAssumption

(* No attempt: nothing sent, nothing granted.                              *)
LEMMA NoAttemptFacts ==
  /\ NoAttempt.at = "none" /\ NoAttempt.token = NoToken /\ NoAttempt.left = 0
  /\ NoAttempt.age = 0 /\ NoAttempt.result = "none"
  /\ NoAttempt \in [at : {"none", "sent", "landed"}, token : Tokens \cup {NoToken},
                    left : 0..AttemptTimeout, age : 0..AttemptTimeout,
                    result : {"none", "admitted", "blocked", "retired"}]
  BY ConstantFacts DEF NoAttempt

(* A failed or refused attempt is tried again before the cutoff, or Serve  *)
(* stops.                                                                  *)
LEMMA RetryFacts ==
  ASSUME TypeOK, NEW n \in 1 .. RetryMax, Retry(n)
  PROVE  /\ UNCHANGED <<deadline, settle, drained>> /\ delay' \in 0 .. LeaseDuration
         /\ \/ mode \in {"registering", "finishing"} /\ mode' = mode
            \/ mode = "serving" /\ mode' = "finishing"
            \/ mode = "serving" /\ mode' = "serving" /\ delay' <= deadline - Margin
               /\ deadline >= Margin
            \/ mode \notin {"registering", "serving"} /\ mode' = mode
<1>1. deadline \in 0 .. LeaseDuration /\ delay \in 0 .. LeaseDuration
  BY DEF TypeOK
<1>2. n \in Nat \ {0} /\ n \in 0 .. LeaseDuration
  BY ConstantFacts
<1>3. CASE mode = "registering"
  BY <1>2, <1>3 DEF Retry
<1>4. CASE mode = "serving" /\ cutoff > 0
  <2>1. cutoff \in Nat \ {0} /\ cutoff <= LeaseDuration
    BY <1>1, <1>4, ConstantFacts DEF cutoff
  <2>2. Wait(n, cutoff) /\ UNCHANGED <<mode, deadline, settle, drained>>
    BY <1>4 DEF Retry
  <2>3. delay' \in 1 .. cutoff
    BY <1>2, <2>1, <2>2, WaitFacts
  <2> QED BY <1>1, <1>4, <2>1, <2>2, <2>3, ConstantFacts DEF cutoff
<1>5. CASE mode = "serving" /\ ~(cutoff > 0)
  BY <1>1, <1>5 DEF Retry, Stop
<1>6. CASE mode \notin {"registering", "serving"}
  BY <1>1, <1>6 DEF Retry
<1> QED BY <1>3, <1>4, <1>5, <1>6

-----------------------------------------------------------------------------
(* The steps.                                                              *)

RoutingStep ==
    drained # "no" /\ Me \notin Routable(entry, 0) /\ Me \in Routable(entry', 0) => late' # late

StepInv == IInv' /\ RoutingStep

EntryTypes(e) ==
    e \in [state : {"absent", "active", "retired"}, token : Tokens \cup {NoToken},
           expires : [Leases -> 0..MaxExpiry],
           draining : SUBSET Leases, retired : SUBSET Tokens, epoch : 0..1, lastPong : {0}]

(* The initial state.                                                      *)
LEMMA InitInv == Init => IInv
<1> SUFFICES ASSUME Init PROVE IInv
  OBVIOUS
<1>1. /\ entry = Absent /\ mode = "registering" /\ attempt = NoAttempt
      /\ delay = 0 /\ deadline = 0 /\ held = {} /\ late = {}
      /\ settle = 0 /\ drained = "no" /\ lost = FALSE /\ losses = 0
  BY DEF Init
<1>2. /\ Absent.state = "absent" /\ Absent.token = NoToken /\ Held(Absent) = {}
      /\ EntryTypes(Absent)
  BY ConstantFacts DEF Absent, Held, EntryTypes
<1>3. TypeOK
  <2>1. /\ 0 \in 0..LeaseDuration /\ 0 \in 0..ShutdownTimeout /\ 0 \in 0..MaxLosses
    BY ConstantFacts, ProviderLeaseAssumption
  <2>2. EntryTypes(entry)
    BY <1>1, <1>2
  <2> QED BY <1>1, <2>1, <2>2, NoAttemptFacts DEF TypeOK, EntryTypes, MaxExpiry
<1>4. Named(entry) /\ AbsentInv
  BY <1>1, <1>2, AbsentType DEF Named, AbsentInv
<1>5. AttemptInv
  BY <1>1, NoAttemptFacts, ConstantFacts DEF AttemptInv
<1>6. ServingInv /\ GrantInv /\ SettlementInv
  BY <1>1, NoAttemptFacts DEF ServingInv, GrantInv, SettlementInv
<1> QED BY <1>3, <1>4, <1>5, <1>6 DEF IInv

(* Steps of Serve that do not reach the registry.                          *)
LEMMA LocalStep ==
  ASSUME IInv, UNCHANGED <<entry, lost, losses>>,
         attempt' \in [at : {"none", "sent", "landed"}, token : Tokens \cup {NoToken},
                    left : 0..AttemptTimeout, age : 0..AttemptTimeout,
                    result : {"none", "admitted", "blocked", "retired"}],
         mode' \in {"registering", "serving", "finishing", "draining", "settling", "releasing", "stopped"},
         delay' \in 0..LeaseDuration, deadline' \in 0..LeaseDuration,
         held' \subseteq Mine, late' \subseteq Mine,
         settle' \in 0..ShutdownTimeout, drained' \in {"no", "kept", "ended"},
         AttemptInv', ServingInv', GrantInv', SettlementInv'
  PROVE  StepInv
<1>1. TypeOK'
  BY DEF IInv, TypeOK
<1>2. Named(entry)' /\ AbsentInv'
  BY DEF IInv, AbsentInv
<1> QED BY <1>1, <1>2 DEF StepInv, IInv, RoutingStep

(* An abandoned call leaves nothing, or a request on its way.              *)
LEMMA AbandonFacts ==
  ASSUME IInv, Abandon
  PROVE  /\ attempt' = NoAttempt /\ late' \subseteq Mine
         /\ "late_request" \notin Faults => late' = {}
  BY DEF IInv, TypeOK, AttemptInv, Abandon, Drop

(* An attempt begins, or Serve stops at its cutoff.                        *)
LEMMA StartsInv ==
  ASSUME IInv, NEW t \in Mine, AttemptStarts(t)
  PROVE  StepInv
<1>1. /\ mode \in {"registering", "serving"} /\ attempt = NoAttempt /\ attempt.at = "none"
      /\ UNCHANGED <<entry, held, late, lost, losses>>
  BY NoAttemptFacts DEF AttemptStarts
<1>2. TypeOK /\ AttemptInv /\ ServingInv /\ GrantInv /\ SettlementInv
  BY DEF IInv
<1>3. /\ delay \in 0..LeaseDuration /\ deadline \in 0..LeaseDuration /\ held \subseteq Mine /\ late \subseteq Mine
      /\ settle \in 0..ShutdownTimeout /\ drained \in {"no", "kept", "ended"}
  BY <1>2 DEF TypeOK
<1>4. drained = "no"
  BY <1>1, <1>2, <1>3 DEF AttemptInv
<1>5. CASE Stop /\ UNCHANGED attempt
  <2>1. mode' = "finishing" /\ UNCHANGED <<attempt, delay, deadline, settle, drained>>
    BY <1>5 DEF Stop
  <2>2. AttemptInv' /\ ServingInv' /\ GrantInv' /\ SettlementInv'
    BY <1>1, <1>2, <1>4, <2>1 DEF AttemptInv, ServingInv, GrantInv, SettlementInv
  <2> QED BY <1>1, <1>3, <2>1, <2>2, NoAttemptFacts, LocalStep
<1>6. CASE ~(mode = "serving" /\ cutoff <= 0)
  <2> DEFINE n == IF mode = "serving" THEN Min({AttemptTimeout, cutoff}) ELSE AttemptTimeout
             x == [NoAttempt EXCEPT !.at = "sent", !.token = t, !.left = n]
  <2>1. attempt' = x /\ UNCHANGED <<mode, delay, deadline, settle, drained>>
    BY <1>6 DEF AttemptStarts
  <2>2. cutoff \in Int /\ cutoff = deadline - Margin
    BY <1>3, ConstantFacts DEF cutoff
  <2>3. n \in 0 .. AttemptTimeout /\ (mode = "serving" => n <= cutoff /\ cutoff > 0)
    <3> DEFINE m == Min({AttemptTimeout, cutoff})
    <3>1. AttemptTimeout \in Int /\ cutoff \in Int /\ AttemptTimeout \in Nat
      BY <2>2, ConstantFacts
    <3>2. m \in {AttemptTimeout, cutoff} /\ m <= AttemptTimeout /\ m <= cutoff
      BY <3>1, MinOfTwo
    <3> HIDE DEF m
    <3>3. n = IF mode = "serving" THEN m ELSE AttemptTimeout
      BY DEF m
    <3> HIDE DEF n
    <3> QED BY <1>6, <3>1, <3>2, <3>3
  <2> HIDE DEF n
  <2>4. /\ x.at = "sent" /\ x.token = t /\ x.left = n /\ x.age = 0 /\ x.result = "none"
        /\ x \in [at : {"none", "sent", "landed"}, token : Tokens \cup {NoToken},
                    left : 0..AttemptTimeout, age : 0..AttemptTimeout,
                    result : {"none", "admitted", "blocked", "retired"}]
    <3>1. t \in Tokens \cup {NoToken} /\ 0 \in 0..AttemptTimeout
      BY ConstantFacts
    <3> QED BY <2>3, <3>1 DEF NoAttempt
  <2> HIDE DEF x
  <2>5. AttemptInv'
    BY <1>1, <1>2, <1>4, <2>1, <2>3, <2>4, ConstantFacts DEF AttemptInv
  <2>6. ServingInv'
    BY <1>1, <1>2, <1>3, <2>1, <2>2, <2>3, <2>4, ConstantFacts DEF ServingInv
  <2>7. GrantInv' /\ SettlementInv'
    BY <1>1, <1>2, <2>1, <2>4 DEF GrantInv, SettlementInv
  <2> QED BY <1>1, <1>3, <2>1, <2>4, <2>5, <2>6, <2>7, LocalStep
<1> QED BY <1>5, <1>6 DEF AttemptStarts

(* The reply: the first grant, a renewal, or a refusal.                    *)
LEMMA RepliesInv ==
  ASSUME IInv, RegisterReplies
  PROVE  StepInv
<1>1. /\ attempt.at = "landed" /\ mode \in {"registering", "serving"} /\ attempt' = NoAttempt
      /\ UNCHANGED <<entry, late, lost, losses>>
  BY DEF RegisterReplies, Drop
<1>2. TypeOK /\ AttemptInv /\ ServingInv /\ GrantInv /\ SettlementInv
  BY DEF IInv
<1>3. /\ delay \in 0..LeaseDuration /\ deadline \in 0..LeaseDuration /\ held \subseteq Mine /\ late \subseteq Mine
      /\ settle \in 0..ShutdownTimeout /\ drained \in {"no", "kept", "ended"}
      /\ attempt.age \in 0..AttemptTimeout /\ attempt.token \in Mine
  BY <1>1, <1>2 DEF TypeOK, AttemptInv
<1>4. drained = "no"
  BY <1>1, <1>2, <1>3 DEF AttemptInv
<1>5. Granted(attempt) = LeaseDuration - attempt.age /\ Granted(attempt) \in 0 .. LeaseDuration
  BY <1>3, ConstantFacts DEF Granted
<1>6. ASSUME mode' \in {"registering", "serving", "finishing", "stopped"}, UNCHANGED <<settle, drained>>
      PROVE  AttemptInv' /\ SettlementInv'
  BY <1>1, <1>2, <1>4, <1>6, NoAttemptFacts, ConstantFacts DEF AttemptInv, SettlementInv
<1>7. ASSUME mode' = "serving", UNCHANGED <<settle, drained>>, held' = {attempt.token},
             deadline' = Granted(attempt), Granted(attempt) > Margin,
             \E n \in renewalDelay : Wait(n, deadline' - Margin),
             ~lost => /\ entry.token = attempt.token /\ Me \notin entry.draining
                      /\ entry.expires[Me] >= LeaseDuration - attempt.age
      PROVE  StepInv
  <2>1. PICK n \in renewalDelay : Wait(n, deadline' - Margin)
    BY <1>7
  <2>2. n \in Nat \ {0}
    BY ConstantFacts DEF renewalDelay
  <2>3. deadline' - Margin \in Nat \ {0} /\ deadline' - Margin <= LeaseDuration
    BY <1>5, <1>7, ConstantFacts
  <2>4. delay' \in 1 .. (deadline' - Margin)
    BY <2>1, <2>2, <2>3, WaitFacts
  <2>5. delay' \in 0 .. LeaseDuration /\ deadline' >= Margin /\ delay' <= deadline' - Margin
    BY <1>5, <1>7, <2>3, <2>4, ConstantFacts
  <2>6. ServingInv'
    BY <1>1, <1>5, <1>7, <2>5, NoAttemptFacts DEF ServingInv
  <2>7. GrantInv'
    BY <1>1, <1>7, NoAttemptFacts DEF GrantInv
  <2> QED BY <1>1, <1>3, <1>5, <1>6, <1>7, <2>5, <2>6, <2>7, NoAttemptFacts, LocalStep
<1>8. CASE FirstGrant
  <2>1. /\ mode = "registering" /\ mode' = "serving" /\ deadline' = Granted(attempt) /\ held' = {attempt.token}
        /\ attempt.result = "admitted" /\ Granted(attempt) > Margin
        /\ \E n \in renewalDelay : Wait(n, deadline' - Margin)
        /\ UNCHANGED <<settle, drained>>
    BY <1>8 DEF FirstGrant
  <2>2. ~lost => /\ entry.token = attempt.token /\ Me \notin entry.draining
                 /\ entry.expires[Me] >= LeaseDuration - attempt.age
    BY <1>1, <1>2, <2>1 DEF GrantInv
  <2> QED BY <1>7, <2>1, <2>2
<1>9. ASSUME mode' \in {"finishing", "stopped"}, held' \subseteq Mine,
             UNCHANGED <<delay, deadline, settle, drained>>
      PROVE  StepInv
  <2>1. ServingInv' /\ GrantInv'
    BY <1>1, <1>9, NoAttemptFacts DEF ServingInv, GrantInv
  <2> QED BY <1>1, <1>3, <1>6, <1>9, <2>1, NoAttemptFacts, LocalStep
<1>10. CASE Renewed
  <2>1. CASE cutoff > 0 /\ attempt.token \in held /\ Granted(attempt) > Margin
    <3>1. /\ mode = "serving" /\ attempt.result = "admitted" /\ deadline' = Granted(attempt)
          /\ \E n \in renewalDelay : Wait(n, deadline' - Margin)
          /\ UNCHANGED <<mode, held, settle, drained>>
      BY <1>10, <2>1 DEF Renewed
    <3>2. held = {attempt.token}
      BY <1>2, <2>1, <3>1 DEF ServingInv
    <3>3. ~lost => /\ entry.token = attempt.token /\ Me \notin entry.draining
                   /\ entry.expires[Me] >= LeaseDuration - attempt.age
      BY <1>1, <1>2, <2>1, <3>1 DEF GrantInv
    <3> QED BY <1>7, <2>1, <3>1, <3>2, <3>3
  <2>2. CASE ~(cutoff > 0 /\ attempt.token \in held /\ Granted(attempt) > Margin)
    <3>1. mode' = "finishing" /\ held' \subseteq Mine /\ UNCHANGED <<delay, deadline, settle, drained>>
      BY <1>3, <1>10, <2>2 DEF Renewed, Stop
    <3> QED BY <1>9, <3>1
  <2> QED BY <2>1, <2>2
<1>11. CASE Refused
  <2>1. held' = held
    BY <1>11 DEF Refused
  <2>2. CASE mode = "serving" \/ attempt.result = "retired"
    <3>1. mode' \in {"finishing", "stopped"} /\ UNCHANGED <<delay, deadline, settle, drained>>
      BY <1>1, <1>11, <2>2 DEF Refused, Stop
    <3> QED BY <1>3, <1>9, <2>1, <3>1
  <2>3. CASE mode = "registering" /\ attempt.result # "retired"
    <3>1. PICK n \in 1 .. RetryMax : Retry(n)
      BY <1>11, <2>3 DEF Refused, retryDelay
    <3>2. UNCHANGED <<mode, deadline, settle, drained>> /\ delay' \in 0 .. LeaseDuration
      BY <1>2, <2>3, <3>1, RetryFacts
    <3>3. ServingInv' /\ GrantInv'
      BY <1>1, <1>2, <2>1, <2>3, <3>2, NoAttemptFacts DEF ServingInv, GrantInv
    <3> QED BY <1>1, <1>3, <1>6, <2>1, <2>3, <3>2, <3>3, NoAttemptFacts, LocalStep
  <2> QED BY <1>1, <2>2, <2>3
<1> QED BY <1>8, <1>10, <1>11 DEF RegisterReplies

(* A call that fails is tried again before the cutoff.                     *)
LEMMA FailsInv ==
  ASSUME IInv, RegisterFails
  PROVE  StepInv
<1>1. attempt # NoAttempt /\ Abandon /\ UNCHANGED <<entry, held, lost, losses>>
  BY DEF RegisterFails
<1>2. PICK n \in 1 .. RetryMax : Retry(n)
  BY DEF RegisterFails, retryDelay
<1>3. TypeOK /\ AttemptInv /\ ServingInv /\ GrantInv /\ SettlementInv
  BY DEF IInv
<1>4. mode \in {"registering", "serving", "finishing"}
  BY <1>1, <1>3 DEF AttemptInv
<1>5. /\ attempt' = NoAttempt /\ late' \subseteq Mine /\ ("late_request" \notin Faults => late' = {})
  BY <1>1, AbandonFacts
<1>6. /\ held \subseteq Mine /\ deadline \in 0..LeaseDuration
      /\ settle \in 0..ShutdownTimeout /\ drained \in {"no", "kept", "ended"}
  BY <1>3 DEF TypeOK
<1>7. /\ UNCHANGED <<deadline, settle, drained>> /\ delay' \in 0 .. LeaseDuration
      /\ \/ mode \in {"registering", "finishing"} /\ mode' = mode
         \/ mode = "serving" /\ mode' = "finishing"
         \/ mode = "serving" /\ mode' = "serving" /\ delay' <= deadline - Margin /\ deadline >= Margin
  BY <1>2, <1>3, <1>4, RetryFacts
<1>8. AttemptInv'
  BY <1>3, <1>4, <1>5, <1>7, NoAttemptFacts, ConstantFacts DEF AttemptInv
<1>9. ServingInv'
  BY <1>1, <1>3, <1>5, <1>7, NoAttemptFacts DEF ServingInv
<1>10. GrantInv' /\ SettlementInv'
  BY <1>1, <1>3, <1>5, <1>7, NoAttemptFacts DEF GrantInv, SettlementInv
<1> QED BY <1>1, <1>4, <1>5, <1>6, <1>7, <1>8, <1>9, <1>10, NoAttemptFacts, LocalStep

(* Serve leaves service, joins its registration and goes through shutdown. *)
LEMMA ShutdownInv ==
  ASSUME IInv, Cancel \/ RegistrationEnds \/ DrainGivesUp \/ Settled \/ ReleaseGivesUp
  PROVE  StepInv
<1>1. /\ UNCHANGED <<entry, delay, deadline, held, drained, lost, losses>>
      /\ Abandon \/ UNCHANGED <<attempt, late>>
  BY DEF Cancel, RegistrationEnds, DrainGivesUp, Settled, ReleaseGivesUp
<1>2. TypeOK /\ AttemptInv /\ ServingInv /\ GrantInv /\ SettlementInv
  BY DEF IInv
<1>3. /\ delay \in 0..LeaseDuration /\ deadline \in 0..LeaseDuration /\ held \subseteq Mine
      /\ settle \in 0..ShutdownTimeout /\ drained \in {"no", "kept", "ended"}
  BY <1>2 DEF TypeOK
<1>4. /\ late' \subseteq Mine /\ ("late_request" \notin Faults => late' = {})
      /\ attempt' \in {attempt, NoAttempt}
      /\ attempt' \in [at : {"none", "sent", "landed"}, token : Tokens \cup {NoToken},
                    left : 0..AttemptTimeout, age : 0..AttemptTimeout,
                    result : {"none", "admitted", "blocked", "retired"}]
  BY <1>1, <1>2, AbandonFacts, NoAttemptFacts DEF AttemptInv, TypeOK
<1>5. /\ settle' \in 0..ShutdownTimeout
      /\ \/ mode = "serving" /\ mode' = "finishing"
         \/ mode = "registering" /\ mode' = "stopped" /\ attempt' = NoAttempt
         \/ mode = "finishing" /\ mode' = "draining" /\ attempt' = NoAttempt
         \/ mode = "draining" /\ mode' = "settling"
         \/ mode = "settling" /\ mode' \in {"releasing", "stopped"}
         \/ mode = "releasing" /\ mode' = "stopped"
  BY <1>3, AbandonFacts, ConstantFacts
     DEF Cancel, RegistrationEnds, DrainGivesUp, Settled, ReleaseGivesUp
<1>6. AttemptInv'
  BY <1>1, <1>2, <1>4, <1>5, NoAttemptFacts, ConstantFacts DEF AttemptInv
<1>7. ServingInv' /\ GrantInv'
  BY <1>1, <1>5 DEF ServingInv, GrantInv
<1>8. SettlementInv'
  <2>1. mode = "draining" => drained = "no"
    BY <1>2, <1>3 DEF AttemptInv
  <2> QED BY <1>1, <1>2, <1>5, <2>1 DEF SettlementInv
<1>9. mode' \in {"registering", "serving", "finishing", "draining", "settling", "releasing", "stopped"}
  BY <1>5
<1> QED BY <1>1, <1>3, <1>4, <1>5, <1>6, <1>7, <1>8, <1>9, LocalStep

(* The record that an operation leaves is typed.                           *)
LEMMA CatalogTypes ==
  ASSUME IInv, NEW f, Named(f), f.state = "absent" => f = entry,
         \A k \in Leases : f.expires[k] <= MaxExpiry, entry' = AnyHealth(f)
  PROVE  Named(entry') /\ AbsentInv' /\ EntryTypes(entry') /\ SameMembers(f, entry')
<1>1. /\ Named(entry') /\ SameMembers(f, entry')
      /\ entry'.epoch \in 0 .. 1 /\ entry'.lastPong = 0
  BY AnyHealthFacts
<1>2. AbsentInv'
  BY <1>1 DEF SameMembers, IInv, AbsentInv, Held
<1>3. EntryTypes(entry')
  <2>1. /\ entry' \in Entries /\ \A k \in Leases : entry'.expires[k] <= MaxExpiry
    BY <1>1 DEF Named, SameMembers
  <2>2. entry'.expires \in [Leases -> 0 .. MaxExpiry]
    BY <2>1, ConstantFacts DEF Entries
  <2> QED BY <1>1, <2>1, <2>2 DEF Entries, EntryTypes
<1> QED BY <1>1, <1>2, <1>3

(* The types of the record in force.                                       *)
LEMMA EntryFacts ==
  ASSUME IInv
  PROVE  /\ Named(entry) /\ entry \in Entries /\ (entry.state = "absent" => Held(entry) = {})
         /\ \A k \in Leases : entry.expires[k] \in Nat /\ entry.expires[k] <= MaxExpiry
         /\ entry.expires[Me] > 0 => Held(entry) # {}
<1>1. Named(entry) /\ (entry.state = "absent" => Held(entry) = {}) /\ entry \in Entries
  BY DEF IInv, AbsentInv, Named
<1>2. entry.expires \in [Leases -> 0 .. MaxExpiry]
  BY DEF IInv, TypeOK, MaxExpiry
<1> QED BY <1>1, <1>2, ConstantFacts DEF Held

(* What a registration of this provider does.                              *)
RegisteredStep(t, q) ==
    /\ Named(entry') /\ AbsentInv' /\ EntryTypes(entry')
    /\ lost' \in BOOLEAN
    /\ ~lost' => ~lost \/ (q.result = "admitted" /\ t \in held)
    /\ q.result \in {"admitted", "blocked", "retired"}
    /\ q.result # "admitted" => entry'.token = entry.token /\ Keeps(entry, entry', Me)
    /\ q.result = "admitted" =>
          /\ entry'.token = t /\ entry'.expires[Me] = LeaseDuration /\ Me \notin entry'.draining
          /\ entry.token = t \/ Held(entry) = {}

(* A registration of this provider, prompt or late.                        *)
LEMMA RegisteredFacts ==
  ASSUME IInv, NEW t \in Mine, NEW q, q = Register(entry, t, Me, 0), Apply(q)
  PROVE  RegisteredStep(t, q)
<1>1. RegisterOutcome(entry, t, Me, q)
  BY EntryFacts, ConstantFacts, RegisterGrants
<1>2. \A k \in Leases : q.entry.expires[k] <= MaxExpiry
  BY <1>1, EntryFacts, ConstantFacts DEF RegisterOutcome, SameLeases, Keeps
<1>3. entry' = AnyHealth(q.entry) /\ lost' = (lost /\ ~(q.result = "admitted" /\ q.entry.token \in held))
  BY DEF Apply
<1>4. Named(entry') /\ AbsentInv' /\ EntryTypes(entry') /\ SameMembers(q.entry, entry')
  BY <1>1, <1>2, <1>3, CatalogTypes DEF RegisterOutcome
<1>5. lost' \in BOOLEAN /\ (~lost' => ~lost \/ (q.result = "admitted" /\ q.entry.token \in held))
  BY <1>3 DEF IInv, TypeOK
<1>6. q.result # "admitted" => entry'.token = entry.token /\ Keeps(entry, entry', Me)
  BY <1>1, <1>4, ConstantFacts DEF RegisterOutcome, SameLeases, SameMembers, Keeps
<1> QED BY <1>1, <1>4, <1>5, <1>6 DEF RegisterOutcome, SameMembers, RegisteredStep

(* A registration while Serve consumes.                                    *)
LEMMA RegisteredServing ==
  ASSUME IInv, NEW t \in Mine, NEW q, RegisteredStep(t, q), mode = "serving", ~lost'
  PROVE  entry'.token \in held /\ Me \notin entry'.draining /\ entry'.expires[Me] >= deadline
<1>1. deadline \in 0 .. LeaseDuration /\ LeaseDuration \in Nat /\ deadline >= Margin /\ Margin \in Nat \ {0}
  BY ConstantFacts DEF IInv, TypeOK, ServingInv
<1>2. CASE ~lost
  <2>1. entry.token \in held /\ Me \notin entry.draining /\ entry.expires[Me] >= deadline
    BY <1>2 DEF IInv, ServingInv
  <2>2. entry.expires[Me] > 0 /\ Held(entry) # {}
    BY <1>1, <2>1, EntryFacts, ConstantFacts
  <2> QED BY <1>1, <2>1, <2>2 DEF RegisteredStep, Keeps
<1>3. CASE lost
  BY <1>1, <1>3 DEF RegisteredStep
<1> QED BY <1>2, <1>3

(* The attempt reaches the registry.                                       *)
LEMMA LandsInv ==
  ASSUME IInv, RegisterLands
  PROVE  StepInv
<1> DEFINE t == attempt.token
           q == Register(entry, t, Me, 0)
           y == [attempt EXCEPT !.at = "landed", !.result = q.result]
<1>1. /\ attempt.at = "sent" /\ Apply(q) /\ attempt' = y /\ UNCHANGED <<late, losses>>
      /\ UNCHANGED <<mode, delay, deadline, held, settle, drained>>
  BY DEF RegisterLands, localVars
<1>2. TypeOK /\ AttemptInv /\ ServingInv /\ GrantInv /\ SettlementInv
  BY DEF IInv
<1>3. t \in Mine
  BY <1>1, <1>2 DEF AttemptInv
<1>4. RegisteredStep(t, q)
  BY <1>1, <1>3, RegisteredFacts
<1> HIDE DEF q
<1>5. attempt \in [at : {"none", "sent", "landed"}, token : Tokens \cup {NoToken},
                    left : 0..AttemptTimeout, age : 0..AttemptTimeout,
                    result : {"none", "admitted", "blocked", "retired"}]
  BY <1>2 DEF TypeOK
<1>6. /\ y \in [at : {"none", "sent", "landed"}, token : Tokens \cup {NoToken},
                    left : 0..AttemptTimeout, age : 0..AttemptTimeout,
                    result : {"none", "admitted", "blocked", "retired"}]
      /\ y.at = "landed" /\ y.token = t /\ y.left = attempt.left /\ y.age = attempt.age /\ y.result = q.result
  BY <1>4, <1>5 DEF RegisteredStep
<1>7. attempt.age \in Nat
  BY <1>5
<1> HIDE DEF y
<1>8. TypeOK'
  BY <1>1, <1>2, <1>4, <1>6 DEF TypeOK, EntryTypes, MaxExpiry, RegisteredStep
<1>9. attempt # NoAttempt
  BY <1>1, NoAttemptFacts
<1>10. AttemptInv'
  BY <1>1, <1>2, <1>6, <1>9 DEF AttemptInv
<1>11. ServingInv'
  <2>1. mode = "serving" /\ ~lost' =>
           entry'.token \in held /\ Me \notin entry'.draining /\ entry'.expires[Me] >= deadline
    BY <1>3, <1>4, RegisteredServing
  <2> QED BY <1>1, <1>2, <1>6, <2>1 DEF ServingInv
<1>12. GrantInv'
  <2>1. LeaseDuration >= LeaseDuration - attempt.age
    BY <1>7, ConstantFacts
  <2> QED BY <1>1, <1>2, <1>4, <1>6, <2>1 DEF GrantInv, RegisteredStep
<1>13. mode # "settling" /\ drained = "no"
  BY <1>2, <1>9 DEF AttemptInv, TypeOK
<1>14. SettlementInv' /\ RoutingStep
  BY <1>1, <1>13 DEF SettlementInv, RoutingStep
<1> QED BY <1>4, <1>8, <1>10, <1>11, <1>12, <1>14 DEF StepInv, IInv, RegisteredStep

(* A request whose call was given up reaches the registry.                 *)
LEMMA LateInv ==
  ASSUME IInv, NEW t, LateLands(t)
  PROVE  StepInv
<1> DEFINE q == Register(entry, t, Me, 0)
<1>1. /\ t \in late /\ late' = late \ {t} /\ Apply(q) /\ UNCHANGED <<attempt, losses>>
      /\ UNCHANGED <<mode, delay, deadline, held, settle, drained>>
  BY DEF LateLands, localVars
<1>2. TypeOK /\ AttemptInv /\ ServingInv /\ GrantInv /\ SettlementInv
  BY DEF IInv
<1>3. t \in Mine
  BY <1>1, <1>2 DEF TypeOK
<1>4. RegisteredStep(t, q)
  BY <1>1, <1>3, RegisteredFacts
<1> HIDE DEF q
<1>5. TypeOK'
  BY <1>1, <1>2, <1>4 DEF TypeOK, EntryTypes, MaxExpiry, RegisteredStep
<1>6. AttemptInv' /\ RoutingStep
  BY <1>1, <1>2 DEF AttemptInv, RoutingStep
<1>7. ServingInv'
  <2>1. mode = "serving" /\ ~lost' =>
           entry'.token \in held /\ Me \notin entry'.draining /\ entry'.expires[Me] >= deadline
    BY <1>3, <1>4, RegisteredServing
  <2> QED BY <1>1, <1>2, <2>1 DEF ServingInv
<1>8. GrantInv'
  <2> SUFFICES ASSUME attempt.at = "landed", attempt.result = "admitted", ~lost',
                      mode = "registering" \/ (mode = "serving" /\ attempt.token \in held)
               PROVE  /\ entry'.token = attempt.token
                      /\ Me \notin entry'.draining
                      /\ entry'.expires[Me] >= LeaseDuration - attempt.age
    BY <1>1, <1>2 DEF GrantInv
  <2>1. attempt.age \in 0 .. AttemptTimeout
    BY <1>2 DEF TypeOK
  <2>2. LeaseDuration - attempt.age > 0 /\ LeaseDuration >= LeaseDuration - attempt.age
    BY <2>1, ConstantFacts
  <2>3. CASE ~lost
    <3>1. /\ entry.token = attempt.token /\ Me \notin entry.draining
          /\ entry.expires[Me] >= LeaseDuration - attempt.age
      BY <1>2, <2>3 DEF GrantInv
    <3>2. entry.expires[Me] > 0 /\ Held(entry) # {}
      BY <2>1, <2>2, <3>1, EntryFacts, ConstantFacts
    <3> QED BY <1>4, <2>2, <3>1, <3>2 DEF RegisteredStep, Keeps
  <2>4. CASE lost
    <3>1. q.result = "admitted" /\ t \in held
      BY <1>4, <2>4 DEF RegisteredStep
    <3>2. attempt.token = t
      BY <1>2, <3>1 DEF GrantInv, ServingInv
    <3> QED BY <1>4, <2>2, <3>1, <3>2 DEF RegisteredStep
  <2> QED BY <2>3, <2>4
<1>9. SettlementInv'
  <2> SUFFICES ASSUME LateRenewalIsLongEnough, mode = "settling", drained = "kept", ~lost'
               PROVE  entry'.expires[Me] > settle
    BY <1>1 DEF SettlementInv
  <2>1. "late_request" \in Faults
    BY <1>1, <1>2 DEF AttemptInv
  <2>2. settle \in 0 .. ShutdownTimeout /\ LeaseDuration > settle
    BY <1>2, <2>1, ConstantFacts DEF TypeOK, LateRenewalIsLongEnough
  <2> QED BY <1>2, <1>4, <2>2 DEF SettlementInv, RegisteredStep, Keeps
<1> QED BY <1>4, <1>5, <1>6, <1>7, <1>8, <1>9 DEF StepInv, IInv, RegisteredStep

(* The drain extends the lease through the settlement.                     *)
LEMMA DrainInv ==
  ASSUME IInv, DrainLands
  PROVE  StepInv
<1> DEFINE s == ShutdownTimeout + AuthorityMargin
           q == DrainProvider(entry, HeldToken, Me, 0, s)
           f == q.entry
<1>1. /\ mode = "draining" /\ Apply(q) /\ UNCHANGED <<attempt, delay, deadline, held, late, settle, losses>>
      /\ \/ /\ mode' = "settling"
            /\ drained' = IF HeldToken # NoToken /\ Me \in Held(entry) THEN "kept" ELSE "ended"
         \/ UNCHANGED <<mode, drained>>
  BY DEF DrainLands
<1>2. TypeOK /\ AttemptInv /\ ServingInv /\ GrantInv /\ SettlementInv
  BY DEF IInv
<1>3. s \in Nat /\ s <= MaxExpiry /\ s > ShutdownTimeout
  BY ConstantFacts
<1> HIDE DEF s
<1>4. DrainOutcome(entry, HeldToken, Me, s, f) /\ q.result = "done"
  BY <1>3, EntryFacts, ConstantFacts, DrainExtends
<1>5. entry' = AnyHealth(f) /\ lost' = lost
  BY <1>1, <1>2, <1>4 DEF Apply, TypeOK
<1> HIDE DEF q, f
<1>6. \A k \in Leases : f.expires[k] <= MaxExpiry
  BY <1>3, <1>4, EntryFacts DEF DrainOutcome, Keeps
<1>7. Named(entry') /\ AbsentInv' /\ EntryTypes(entry') /\ SameMembers(f, entry')
  BY <1>4, <1>5, <1>6, CatalogTypes DEF DrainOutcome
<1>8. drained = "no"
  BY <1>1, <1>2 DEF AttemptInv, TypeOK
<1>9. TypeOK'
  BY <1>1, <1>2, <1>5, <1>7 DEF TypeOK, EntryTypes, MaxExpiry
<1>10. AttemptInv' /\ ServingInv' /\ GrantInv' /\ RoutingStep
  BY <1>1, <1>2, <1>8 DEF AttemptInv, ServingInv, GrantInv, RoutingStep
<1>11. SettlementInv'
  <2> SUFFICES ASSUME mode' = "settling", drained' = "kept" PROVE entry'.expires[Me] > settle
    BY <1>1 DEF SettlementInv
  <2>1. HeldToken # NoToken /\ Me \in Held(entry)
    BY <1>1, <1>8
  <2>2. entry.token = HeldToken /\ entry.state # "absent"
    BY <2>1, EntryFacts DEF HeldToken
  <2>3. f.expires[Me] = IF entry.expires[Me] > s THEN entry.expires[Me] ELSE s
    BY <1>4, <2>1, <2>2 DEF DrainOutcome
  <2>4. settle \in 0 .. ShutdownTimeout
    BY <1>2 DEF TypeOK
  <2> QED BY <1>3, <1>7, <2>3, <2>4, EntryFacts, ConstantFacts DEF SameMembers
<1> QED BY <1>7, <1>9, <1>10, <1>11 DEF StepInv, IInv

(* The release ends the lease.                                             *)
LEMMA ReleaseInv ==
  ASSUME IInv, ReleaseLands
  PROVE  StepInv
<1> DEFINE q == ReleaseProvider(entry, HeldToken, Me, 0)
           f == q.entry
<1>1. /\ mode = "releasing" /\ Apply(q) /\ mode' \in {"stopped", "releasing"}
      /\ UNCHANGED <<attempt, delay, deadline, held, late, settle, drained, losses>>
  BY DEF ReleaseLands
<1>2. TypeOK /\ AttemptInv /\ ServingInv /\ GrantInv /\ SettlementInv
  BY DEF IInv
<1>3. ReleaseOutcome(entry, HeldToken, Me, f) /\ q.result = "done"
  BY EntryFacts, ConstantFacts, ReleaseEnds
<1>4. entry' = AnyHealth(f) /\ lost' = lost
  BY <1>1, <1>2, <1>3 DEF Apply, TypeOK
<1> HIDE DEF q, f
<1>5. \A k \in Leases : f.expires[k] <= MaxExpiry
  BY <1>3, EntryFacts, ConstantFacts DEF ReleaseOutcome, Keeps
<1>6. Named(entry') /\ AbsentInv' /\ EntryTypes(entry') /\ SameMembers(f, entry')
  BY <1>3, <1>4, <1>5, CatalogTypes DEF ReleaseOutcome
<1>7. TypeOK'
  BY <1>1, <1>2, <1>4, <1>6 DEF TypeOK, EntryTypes, MaxExpiry
<1>8. AttemptInv' /\ ServingInv' /\ GrantInv' /\ SettlementInv'
  BY <1>1, <1>2 DEF AttemptInv, ServingInv, GrantInv, SettlementInv
<1>9. Me \in Routable(entry', 0) => Me \in Routable(entry, 0)
  BY <1>3, <1>6, EntryFacts DEF ReleaseOutcome, SameMembers, Keeps, Routable, NonDraining, Held
<1> QED BY <1>6, <1>7, <1>8, <1>9 DEF StepInv, IInv, RoutingStep

(* The rival and the operator: the lease of this provider stays as it is,  *)
(* and, while it lasts, so does its admission.                             *)
LEMMA OthersInv ==
  ASSUME IInv, NEW f, Named(f), f.state = "absent" => f = entry,
         \A k \in Leases : f.expires[k] <= MaxExpiry, Keeps(entry, f, Me),
         entry.expires[Me] > 0 /\ entry.token \in Mine => f.token = entry.token,
         entry' = AnyHealth(f),
         UNCHANGED <<mode, attempt, delay, deadline, held, late, settle, drained, lost, losses>>
  PROVE  StepInv
<1>1. Named(entry') /\ AbsentInv' /\ EntryTypes(entry') /\ SameMembers(f, entry')
  BY CatalogTypes
<1>2. TypeOK /\ AttemptInv /\ ServingInv /\ GrantInv /\ SettlementInv
  BY DEF IInv
<1>3. Keeps(entry, entry', Me) /\ (entry.expires[Me] > 0 /\ entry.token \in Mine => entry'.token = entry.token)
  BY <1>1 DEF SameMembers, Keeps
<1>4. TypeOK'
  BY <1>1, <1>2 DEF TypeOK, EntryTypes, MaxExpiry
<1>5. AttemptInv' /\ SettlementInv'
  BY <1>2, <1>3 DEF AttemptInv, SettlementInv, Keeps
<1>6. ServingInv'
  <2>1. held \subseteq Mine /\ deadline \in Nat
    BY <1>2, ConstantFacts DEF TypeOK
  <2>2. ASSUME mode = "serving", ~lost
        PROVE  entry'.token \in held /\ Me \notin entry'.draining /\ entry'.expires[Me] >= deadline
    <3>1. entry.token \in held /\ Me \notin entry.draining /\ entry.expires[Me] >= deadline /\ deadline >= Margin
      BY <1>2, <2>2 DEF ServingInv
    <3>2. entry.expires[Me] > 0
      BY <2>1, <3>1, EntryFacts, ConstantFacts
    <3> QED BY <1>3, <2>1, <3>1, <3>2 DEF Keeps
  <2> QED BY <1>2, <2>2 DEF ServingInv
<1>7. GrantInv'
  <2>1. attempt.age \in 0 .. AttemptTimeout
    BY <1>2 DEF TypeOK
  <2>2. ASSUME attempt.at = "landed", attempt.result = "admitted", ~lost,
               mode = "registering" \/ (mode = "serving" /\ attempt.token \in held)
        PROVE  /\ entry'.token = attempt.token
               /\ Me \notin entry'.draining
               /\ entry'.expires[Me] >= LeaseDuration - attempt.age
    <3>1. /\ entry.token = attempt.token /\ Me \notin entry.draining
          /\ entry.expires[Me] >= LeaseDuration - attempt.age /\ attempt.token \in Mine
      BY <1>2, <2>2 DEF GrantInv, AttemptInv
    <3>2. entry.expires[Me] > 0
      BY <2>1, <3>1, EntryFacts, ConstantFacts
    <3> QED BY <1>3, <3>1, <3>2 DEF Keeps
  <2> QED BY <1>2, <2>2 DEF GrantInv
<1>8. RoutingStep
  BY <1>3 DEF RoutingStep, Keeps, Routable, NonDraining, Held
<1> QED BY <1>1, <1>4, <1>5, <1>6, <1>7, <1>8 DEF StepInv, IInv

(* The rest of the system, but for the loss of the catalog and time.       *)
LEMMA RivalInv ==
  ASSUME IInv,
         \/ \E t \in Others : RivalRegisters(t) \/ RivalReleases(t)
         \/ \E t \in Tokens : OperatorRetires(t)
  PROVE  StepInv
<1>1. UNCHANGED <<mode, attempt, delay, deadline, held, late, settle, drained, lost, losses>>
  BY DEF RivalRegisters, RivalReleases, OperatorRetires, localVars
<1>2. ASSUME NEW t \in Others, RivalRegisters(t) PROVE StepInv
  <2> DEFINE q == Register(entry, t, Rival, 0)
             f == q.entry
  <2>1. entry' = AnyHealth(f)
    BY <1>2 DEF RivalRegisters
  <2>2. RegisterOutcome(entry, t, Rival, q)
    BY EntryFacts, ConstantFacts, RegisterGrants
  <2> HIDE DEF q
  <2>3. Named(f) /\ (f.state = "absent" => f = entry) /\ Keeps(entry, f, Me)
    BY <2>2, ConstantFacts DEF RegisterOutcome
  <2>4. \A k \in Leases : f.expires[k] <= MaxExpiry
    BY <2>2, EntryFacts, ConstantFacts DEF RegisterOutcome, SameLeases, Keeps
  <2>5. entry.expires[Me] > 0 /\ entry.token \in Mine => f.token = entry.token
    BY <2>2, EntryFacts, ConstantFacts DEF RegisterOutcome
  <2> HIDE DEF f
  <2> QED BY <1>1, <2>1, <2>3, <2>4, <2>5, OthersInv
<1>3. ASSUME NEW t \in Others, RivalReleases(t) PROVE StepInv
  <2> DEFINE f == ReleaseProvider(entry, t, Rival, 0).entry
  <2>1. entry' = AnyHealth(f)
    BY <1>3 DEF RivalReleases
  <2>2. ReleaseOutcome(entry, t, Rival, f)
    BY EntryFacts, ConstantFacts, ReleaseEnds
  <2> HIDE DEF f
  <2>3. Named(f) /\ (f.state = "absent" => f = entry) /\ Keeps(entry, f, Me) /\ f.token = entry.token
    BY <2>2, ConstantFacts DEF ReleaseOutcome
  <2>4. \A k \in Leases : f.expires[k] <= MaxExpiry
    BY <2>2, EntryFacts, ConstantFacts DEF ReleaseOutcome, Keeps
  <2> QED BY <1>1, <2>1, <2>3, <2>4, OthersInv
<1>4. ASSUME NEW t \in Tokens, OperatorRetires(t) PROVE StepInv
  <2> DEFINE f == Retire(entry, t).entry
  <2>1. entry' = AnyHealth(f)
    BY <1>4 DEF OperatorRetires
  <2>2. Named(f) /\ SameLeases(entry, f) /\ f.token = entry.token /\ (f.state = "absent" => f = entry)
    BY EntryFacts, RetireKeeps
  <2> HIDE DEF f
  <2>3. Keeps(entry, f, Me) /\ \A k \in Leases : f.expires[k] <= MaxExpiry
    BY <2>2, EntryFacts, ConstantFacts DEF SameLeases, Keeps
  <2> QED BY <1>1, <2>1, <2>2, <2>3, OthersInv
<1> QED BY <1>2, <1>3, <1>4

(* Redis loses the catalog.                                                *)
LEMMA LossInv ==
  ASSUME IInv, CatalogLost
  PROVE  StepInv
<1>1. /\ losses < MaxLosses /\ losses' = losses + 1 /\ entry' = Absent /\ lost' = TRUE
      /\ UNCHANGED <<mode, attempt, delay, deadline, held, late, settle, drained>>
  BY DEF CatalogLost, localVars
<1>2. TypeOK /\ AttemptInv /\ ServingInv /\ GrantInv /\ SettlementInv
  BY DEF IInv
<1>3. /\ Absent.state = "absent" /\ Absent.token = NoToken /\ Held(Absent) = {}
      /\ EntryTypes(Absent)
  BY ConstantFacts DEF Absent, Held, EntryTypes
<1>4. TypeOK'
  <2>1. losses' \in 0 .. MaxLosses
    BY <1>1, <1>2, ProviderLeaseAssumption DEF TypeOK
  <2> QED BY <1>1, <1>2, <1>3, <2>1 DEF TypeOK, EntryTypes, MaxExpiry
<1>5. Named(entry') /\ AbsentInv'
  BY <1>1, <1>3, AbsentType DEF Named, AbsentInv
<1>6. AttemptInv' /\ ServingInv' /\ GrantInv' /\ SettlementInv'
  BY <1>1, <1>2 DEF AttemptInv, ServingInv, GrantInv, SettlementInv
<1>7. RoutingStep
  BY <1>1, <1>3 DEF RoutingStep, Routable, NonDraining
<1> QED BY <1>4, <1>5, <1>6, <1>7 DEF StepInv, IInv

(* Time: what is due is served first, so that no deadline of service and   *)
(* no settlement runs out in a tick.                                       *)
LEMMA TickInv ==
  ASSUME IInv, Tick
  PROVE  StepInv
<1> DEFINE expires == [l \in Leases |-> Down(entry.expires[l])]
           draining == {l \in entry.draining : entry.expires[l] > 1}
           y == [attempt EXCEPT !.left = @ - 1, !.age = @ + 1]
<1>1. /\ ~Due
      /\ entry' = [entry EXCEPT !.expires = expires, !.draining = draining]
      /\ attempt' = IF attempt = NoAttempt THEN NoAttempt ELSE y
      /\ delay' = Down(delay) /\ deadline' = Down(deadline) /\ settle' = Down(settle)
      /\ UNCHANGED <<mode, held, late, drained, lost, losses>>
  BY DEF Tick
<1>2. TypeOK /\ AttemptInv /\ ServingInv /\ GrantInv /\ SettlementInv
  BY DEF IInv
<1>3. /\ delay \in 0..LeaseDuration /\ deadline \in 0..LeaseDuration /\ held \subseteq Mine /\ late \subseteq Mine
      /\ settle \in 0..ShutdownTimeout
      /\ attempt \in [at : {"none", "sent", "landed"}, token : Tokens \cup {NoToken},
                    left : 0..AttemptTimeout, age : 0..AttemptTimeout,
                    result : {"none", "admitted", "blocked", "retired"}]
  BY <1>2 DEF TypeOK
<1>4. \A n \in Nat : Down(n) = (IF n > 0 THEN n - 1 ELSE 0) /\ Down(n) \in Nat /\ Down(n) <= n
  BY DEF Down
<1>5. /\ EntryTypes(entry) /\ EntryTypes(entry')
      /\ entry'.state = entry.state /\ entry'.token = entry.token
      /\ \A l \in Leases : entry'.expires[l] = Down(entry.expires[l])
      /\ entry'.draining = draining
  <2>1. EntryTypes(entry)
    BY <1>2 DEF TypeOK, EntryTypes, MaxExpiry
  <2>2. \A l \in Leases : Down(entry.expires[l]) \in 0 .. MaxExpiry
    BY <1>4, <2>1, ConstantFacts DEF EntryTypes
  <2>3. expires \in [Leases -> 0 .. MaxExpiry] /\ draining \subseteq Leases
    BY <2>1, <2>2 DEF EntryTypes
  <2>4. \A l \in Leases : expires[l] = Down(entry.expires[l])
    OBVIOUS
  <2> HIDE DEF expires, draining
  <2> QED BY <1>1, <2>1, <2>3, <2>4 DEF EntryTypes
<1>6. Named(entry') /\ AbsentInv'
  <2>1. entry' \in Entries
    BY <1>5, ConstantFacts DEF EntryTypes, Entries
  <2>2. Named(entry')
    BY <1>5, <2>1 DEF IInv, Named
  <2>3. Held(entry) = {} => Held(entry') = {}
    BY <1>4, <1>5, EntryFacts DEF Held
  <2> QED BY <1>5, <2>2, <2>3 DEF IInv, AbsentInv
<1>7. /\ attempt = NoAttempt => attempt' = NoAttempt
      /\ attempt # NoAttempt =>
            /\ attempt.left \in 1 .. AttemptTimeout
            /\ attempt'.at = attempt.at /\ attempt'.token = attempt.token /\ attempt'.result = attempt.result
            /\ attempt'.left = attempt.left - 1 /\ attempt'.age = attempt.age + 1
            /\ attempt' \in [at : {"none", "sent", "landed"}, token : Tokens \cup {NoToken},
                    left : 0..AttemptTimeout, age : 0..AttemptTimeout,
                    result : {"none", "admitted", "blocked", "retired"}]
  <2>1. ASSUME attempt # NoAttempt
        PROVE  /\ attempt.left \in 1 .. AttemptTimeout /\ attempt.age + 1 \in 0 .. AttemptTimeout
               /\ attempt.left - 1 \in 0 .. AttemptTimeout
    <3>1. attempt.left # 0
      BY <1>1, <2>1 DEF Due
    <3>2. attempt.left + attempt.age <= AttemptTimeout
      BY <1>2 DEF AttemptInv
    <3> QED BY <1>3, <3>1, <3>2, ConstantFacts
  <2>2. attempt # NoAttempt => attempt' = y
    BY <1>1
  <2> QED BY <1>1, <1>3, <2>1, <2>2
<1> HIDE DEF y
<1>8. delay' \in 0..LeaseDuration /\ deadline' \in 0..LeaseDuration /\ settle' \in 0..ShutdownTimeout
  BY <1>1, <1>3, <1>4, ConstantFacts
<1>9. TypeOK'
  BY <1>1, <1>2, <1>5, <1>7, <1>8, NoAttemptFacts DEF TypeOK, EntryTypes, MaxExpiry
<1>10. AttemptInv'
  BY <1>1, <1>2, <1>3, <1>7, NoAttemptFacts, ConstantFacts DEF AttemptInv
<1>11. attempt.at = "none" <=> attempt = NoAttempt
  BY <1>2, NoAttemptFacts DEF AttemptInv
<1>12. ServingInv'
  <2> SUFFICES ASSUME mode = "serving"
               PROVE  /\ \A s, t \in held : s = t
                      /\ deadline' >= Margin
                      /\ attempt'.at = "none" => delay' <= deadline' - Margin
                      /\ attempt'.at # "none" => attempt'.left <= deadline' - Margin
                      /\ ~lost => /\ entry'.token \in held
                                  /\ Me \notin entry'.draining
                                  /\ entry'.expires[Me] >= deadline'
    BY <1>1 DEF ServingInv
  <2>1. /\ \A s, t \in held : s = t
        /\ deadline >= Margin
        /\ attempt.at = "none" => delay <= deadline - Margin
        /\ attempt.at # "none" => attempt.left <= deadline - Margin
        /\ ~lost => /\ entry.token \in held /\ Me \notin entry.draining
                    /\ entry.expires[Me] >= deadline
    BY <1>2 DEF ServingInv
  <2>2. attempt.at = "none" => delay > 0
    BY <1>1, <1>3, <1>11 DEF Due
  <2>3. deadline > Margin /\ deadline' = deadline - 1
    <3>1. deadline > Margin
      BY <1>3, <1>7, <1>11, <2>1, <2>2, ConstantFacts
    <3> QED BY <1>1, <1>3, <1>4, <3>1, ConstantFacts
  <2>4. attempt'.at = attempt.at
    BY <1>7, NoAttemptFacts
  <2>5. attempt.at = "none" => delay' = delay - 1
    BY <1>1, <1>3, <1>4, <2>2, ConstantFacts
  <2>6. ~lost => entry'.expires[Me] >= deadline' /\ Me \notin entry'.draining
    BY <1>3, <1>4, <1>5, <2>1, <2>3, EntryFacts, ConstantFacts
  <2> QED BY <1>3, <1>5, <1>7, <1>11, <2>1, <2>3, <2>4, <2>5, <2>6, ConstantFacts
<1>13. GrantInv'
  <2>1. mode = "registering" => held = {}
    BY <1>2 DEF GrantInv
  <2>2. ASSUME attempt'.at = "landed", attempt'.result = "admitted", ~lost,
               mode = "registering" \/ (mode = "serving" /\ attempt'.token \in held)
        PROVE  /\ entry'.token = attempt'.token
               /\ Me \notin entry'.draining
               /\ entry'.expires[Me] >= LeaseDuration - attempt'.age
    <3>1. attempt # NoAttempt
      BY <1>7, <2>2, NoAttemptFacts
    <3>2. /\ entry.token = attempt.token /\ Me \notin entry.draining
          /\ entry.expires[Me] >= LeaseDuration - attempt.age
      BY <1>2, <1>7, <2>2, <3>1 DEF GrantInv
    <3>3. entry'.expires[Me] >= LeaseDuration - attempt'.age
      BY <1>3, <1>4, <1>5, <1>7, <3>1, <3>2, EntryFacts, ConstantFacts
    <3> QED BY <1>5, <1>7, <3>1, <3>2, <3>3
  <2> QED BY <1>1, <2>1, <2>2 DEF GrantInv
<1>14. SettlementInv'
  <2> SUFFICES ASSUME LateRenewalIsLongEnough, mode = "settling", drained = "kept", ~lost
               PROVE  entry'.expires[Me] > settle'
    BY <1>1 DEF SettlementInv
  <2>1. entry.expires[Me] > settle
    BY <1>2 DEF SettlementInv
  <2>2. settle > 0
    BY <1>1, <1>3 DEF Due
  <2> QED BY <1>1, <1>3, <1>4, <1>5, <2>1, <2>2, EntryFacts, ConstantFacts
<1>15. Me \in Routable(entry', 0) => Me \in Routable(entry, 0)
  <2>1. entry.expires[Me] \in Nat /\ entry'.expires[Me] = Down(entry.expires[Me])
    BY <1>5, EntryFacts, ConstantFacts
  <2>2. entry'.expires[Me] > 0 => entry.expires[Me] > 1
    BY <1>4, <2>1
  <2> QED BY <1>5, <2>1, <2>2 DEF Routable, NonDraining, Held
<1> QED BY <1>6, <1>9, <1>10, <1>12, <1>13, <1>14, <1>15 DEF StepInv, IInv, RoutingStep

(* Every step keeps the invariant.                                         *)
LEMMA NextInv == IInv /\ [Next]_vars => StepInv
<1> SUFFICES ASSUME IInv, [Next]_vars PROVE StepInv
  OBVIOUS
<1>1. CASE Serve
  BY <1>1, StartsInv, RepliesInv, FailsInv, ShutdownInv, DrainInv, ReleaseInv DEF Serve
<1>2. CASE RegisterLands \/ Cancel \/ Tick \/ CatalogLost
  BY <1>2, LandsInv, ShutdownInv, TickInv, LossInv
<1>3. CASE \E t \in Tokens : LateLands(t) \/ OperatorRetires(t)
  BY <1>3, LateInv, RivalInv
<1>4. CASE \E t \in Others : RivalRegisters(t) \/ RivalReleases(t)
  BY <1>4, RivalInv
<1>5. CASE UNCHANGED vars
  <2>1. UNCHANGED <<entry, mode, attempt, delay, deadline, held, late, settle, drained, lost, losses>>
    BY <1>5 DEF vars
  <2>2. losses' = losses
    BY <1>5 DEF vars
  <2>3. TypeOK'
    <3>1. EntryTypes(entry) /\ TypeOK
      BY DEF IInv, TypeOK, EntryTypes, MaxExpiry
    <3> QED BY <2>1, <2>2, <3>1 DEF TypeOK, EntryTypes, MaxExpiry
  <2>4. AbsentInv' /\ Named(entry')
    BY <2>1 DEF IInv, AbsentInv
  <2>5. AttemptInv' /\ ServingInv' /\ GrantInv' /\ SettlementInv'
    BY <2>1 DEF IInv, AttemptInv, ServingInv, GrantInv, SettlementInv
  <2> QED BY <2>1, <2>3, <2>4, <2>5 DEF StepInv, IInv, RoutingStep
<1> QED BY <1>1, <1>2, <1>3, <1>4, <1>5 DEF Next

(* The inductive invariant.                                                *)
LEMMA SpecInv == Spec => []IInv
<1>1. IInv /\ [Next]_vars => IInv'
  BY NextInv DEF StepInv
<1> QED BY InitInv, <1>1, PTL DEF Spec

-----------------------------------------------------------------------------
(* Types; no timer of the provider or of the registry runs below zero.     *)
THEOREM LeaseTypes == Spec => []TypeOK
<1>1. IInv => TypeOK
  BY DEF IInv
<1> QED BY SpecInv, <1>1, PTL

(* superviseRegistration: for any lease duration beyond the safety budget, *)
(* a provider that consumes has a routable lease of its own admission,     *)
(* unless Redis has lost the catalog since its last grant.                 *)
THEOREM ConsumesWithinLease == Spec => []ServesWithinLease
<1>1. IInv => ServesWithinLease
  <2> SUFFICES ASSUME IInv, mode = "serving", ~lost
               PROVE  entry.token \in held /\ Me \in Routable(entry, 0)
    BY DEF ServesWithinLease
  <2>1. /\ entry.token \in held /\ Me \notin entry.draining
        /\ entry.expires[Me] >= deadline /\ deadline >= Margin /\ deadline \in 0 .. LeaseDuration
    BY DEF IInv, ServingInv, TypeOK
  <2>2. entry.expires[Me] > 0
    BY <2>1, EntryFacts, ConstantFacts
  <2> QED BY <2>1, <2>2, ConstantFacts DEF Routable, NonDraining, Held
<1> QED BY SpecInv, <1>1, PTL

(* A lease that its drain found alive outlasts the settlement, provided    *)
(* that the shutdown timeout is shorter than the registry's lease, as the  *)
(* defaults are (DefaultShutdownTimeout, MinProviderLeaseDuration), or     *)
(* that no renewal is left on its way: Register sets the expiry back.      *)
THEOREM AuthorityOutlastsSettlement ==
  ASSUME LateRenewalIsLongEnough
  PROVE  Spec => []AuthorityThroughSettlement
<1>1. IInv => AuthorityThroughSettlement
  <2> SUFFICES ASSUME IInv, mode = "settling", drained = "kept", ~lost
               PROVE  Me \in Held(entry)
    BY DEF AuthorityThroughSettlement
  <2>1. entry.expires[Me] > settle /\ settle \in 0 .. ShutdownTimeout
    BY DEF IInv, SettlementInv, TypeOK
  <2>2. entry.expires[Me] > 0
    BY <2>1, EntryFacts, ConstantFacts
  <2> QED BY <2>2, ConstantFacts DEF Held
<1> QED BY SpecInv, <1>1, PTL

(* superviseRegistration is joined before finish drains: a drained         *)
(* provider is routed to again only by a renewal given up on the wire.     *)
THEOREM DrainedStaysOut == Spec => DrainedStaysDrained
<1>1. IInv /\ [Next]_vars =>
        [drained # "no" /\ Me \notin Routable(entry, 0) /\ Me \in Routable(entry', 0) =>
           late' # late]_vars
  BY NextInv DEF StepInv, RoutingStep
<1> QED BY SpecInv, <1>1, PTL DEF Spec, DrainedStaysDrained
=============================================================================
