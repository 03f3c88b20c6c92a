--------------------------- MODULE Catalog_proofs ---------------------------
(***************************************************************************)
(* Proofs about the catalog for any sets of tokens, leases and callers,    *)
(* any lease duration and any bounds.                                      *)
(***************************************************************************)
EXTENDS Catalog, CatalogEntry_proofs, TLAPS

(* A caller never holds a time ahead of the authoritative clock, so what   *)
(* it saw expired is expired when its write lands.                         *)
TimesArePast == \A c \in Callers : calls[c].phase = "decide" => calls[c].now <= clock

(* The stored record is missing or one the parser accepts, and its pong     *)
(* evidence has a member.                                                  *)
Sound(e) ==
    /\ e \in Entries
    /\ e = Absent \/ Accepted(e)
    /\ e.lastPong # 0 => NonDraining(e) # {}

IInv ==
    /\ TypeOK
    /\ Sound(entry)
    /\ TimesArePast

(* The ways one write may change who owns the toolset.                     *)
Admits(e, f) ==
    e.state = "absent" /\ f.state = "active" /\ f.token \in Tokens /\ f.retired = {}

KeepsOwner(e, f) ==
    /\ e.state # "absent" /\ f.state = e.state /\ f.token = e.token /\ f.retired = e.retired
    /\ e.token \in e.retired => Held(f) \subseteq Held(e)

Closes(e, f) ==
    /\ e.state = "active" /\ f.state = "retired" /\ f.token = e.token
    /\ f.retired = e.retired \cup {e.token} /\ f.expires = e.expires

HandsOver(e, f, now) ==
    /\ e.state # "absent" /\ f.state = "active"
    /\ f.token \in Tokens \ (e.retired \cup {e.token})
    /\ f.retired = e.retired \cup {e.token}
    /\ \A l \in Held(e) : e.expires[l] <= now

Moves(e, f, now) ==
    Admits(e, f) \/ KeepsOwner(e, f) \/ Closes(e, f) \/ HandsOver(e, f, now)

-----------------------------------------------------------------------------
(* What the operations write.                                              *)

(* Pruning keeps identity, drops exactly the expired leases, and takes     *)
(* evidence back with the last member.                                     *)
LEMMA PruneSound ==
  ASSUME NEW e, Sound(e), e.state # "absent", NEW now \in Nat
  PROVE  /\ Sound(Prune(e, now))
         /\ KeepsOwner(e, Prune(e, now))
         /\ Held(Prune(e, now)) = Held(e) \ Expired(e, now)
         /\ \A l \in Leases : Prune(e, now).expires[l] =
                IF e.expires[l] > now THEN e.expires[l] ELSE 0
<1> DEFINE kept == [e EXCEPT !.expires = [l \in Leases |-> IF e.expires[l] > now THEN e.expires[l] ELSE 0],
                             !.draining = {l \in e.draining : e.expires[l] > now}]
           p == Prune(e, now)
<1>1. e \in Entries /\ Accepted(e)
  BY DEF Sound, Absent
<1>2. p \in Entries
  BY <1>1, PruneType
<1>3. p = kept \/ p = NextEpoch(kept)
  BY DEF Prune, FenceIfEmptied
<1>4. /\ p.state = e.state /\ p.token = e.token /\ p.retired = e.retired
      /\ p.draining = {l \in e.draining : e.expires[l] > now}
      /\ p.expires = [l \in Leases |-> IF e.expires[l] > now THEN e.expires[l] ELSE 0]
  BY <1>1, <1>3 DEF NextEpoch, Entries
<1>5. \A l \in Leases : e.expires[l] \in Nat
  BY <1>1 DEF Entries
<1>6. Held(p) = Held(e) \ Expired(e, now)
  BY <1>4, <1>5 DEF Held, Expired
<1>7. p.draining \subseteq Held(p)
  BY <1>1, <1>4, <1>5, <1>6 DEF Accepted, Held, Expired
<1>8. p.epoch > 0
  <2>1. p.epoch = e.epoch \/ p.epoch = e.epoch + 1
    BY <1>1, <1>3 DEF NextEpoch, Entries
  <2> QED BY <1>1, <2>1 DEF Accepted, Entries
<1>9. Accepted(p)
  BY <1>1, <1>4, <1>7, <1>8 DEF Accepted
<1>10. p.lastPong # 0 => NonDraining(p) # {}
  <2> SUFFICES ASSUME p.lastPong # 0 PROVE NonDraining(p) # {}
    OBVIOUS
  <2>1. NextEpoch(kept).lastPong = 0
    BY <1>1 DEF NextEpoch, Entries
  <2>2. p = kept /\ kept.lastPong = e.lastPong
    BY <1>1, <1>3, <2>1 DEF Entries
  <2>3. NonDraining(e) # {}
    BY <2>2 DEF Sound
  <2>4. ~(NonDraining(e) # {} /\ Routable(kept, now) = {})
    BY <2>1, <2>2 DEF Prune, FenceIfEmptied
  <2> QED BY <2>2, <2>3, <2>4 DEF Routable
<1> QED BY <1>2, <1>4, <1>5, <1>6, <1>9, <1>10 DEF Sound, KeepsOwner

(* Fencing changes nothing but the epoch and the evidence, and takes the   *)
(* evidence back whenever a member was counted and none routes any more.   *)
LEMMA FenceFacts ==
  ASSUME NEW e \in Entries, NEW members, NEW now \in Nat
  PROVE  LET f == FenceIfEmptied(members, e, now) IN
         /\ f \in Entries
         /\ f.state = e.state /\ f.token = e.token /\ f.retired = e.retired
         /\ f.expires = e.expires /\ f.draining = e.draining
         /\ f.epoch >= e.epoch
         /\ f.lastPong # 0 => /\ f.lastPong = e.lastPong
                              /\ members = {} \/ NonDraining(f) # {}
<1> DEFINE f == FenceIfEmptied(members, e, now)
<1>1. CASE members # {} /\ Routable(e, now) = {}
  <2>1. f = NextEpoch(e)
    BY <1>1 DEF FenceIfEmptied
  <2>2. f.epoch = e.epoch + 1 /\ e.epoch \in Nat
    BY <2>1 DEF NextEpoch, Entries
  <2>3. f.epoch >= e.epoch
    BY <2>2
  <2>4. /\ f.state = e.state /\ f.token = e.token /\ f.retired = e.retired
        /\ f.expires = e.expires /\ f.draining = e.draining /\ f.lastPong = 0
    BY <2>1 DEF NextEpoch, Entries
  <2> QED BY <2>3, <2>4, FenceType
<1>2. CASE ~(members # {} /\ Routable(e, now) = {})
  <2>1. f = e
    BY <1>2 DEF FenceIfEmptied
  <2>2. members = {} \/ NonDraining(f) # {}
    BY <1>2, <2>1 DEF Routable
  <2>3. f.epoch >= e.epoch
    BY <2>1 DEF Entries
  <2> QED BY <2>1, <2>2, <2>3
<1> QED BY <1>1, <1>2

(* A freshly admitted record is one the parser accepts.                    *)
LEMMA NewEntrySound ==
  ASSUME NEW t \in Tokens, NEW l \in Leases, NEW now \in Nat,
         NEW retired \in SUBSET Tokens, t \notin retired
  PROVE  LET f == NewEntry(t, l, now, retired) IN
         Sound(f) /\ f.state = "active" /\ f.token = t /\ f.retired = retired
<1> DEFINE f == NewEntry(t, l, now, retired)
<1>1. f \in Entries
  BY NewEntryType
<1>2. f.state = "active" /\ f.token = t /\ f.retired = retired /\ f.draining = {}
      /\ f.epoch = 1 /\ f.lastPong = 0
  BY DEF NewEntry
<1> QED BY <1>1, <1>2 DEF Sound, Accepted

(* Renewal keeps the owner and never loses members.                        *)
LEMMA RenewSound ==
  ASSUME NEW e, Sound(e), e.state # "absent", e.token \notin e.retired,
         NEW l \in Leases, NEW now \in Nat
  PROVE  Sound(Renew(e, l, now)) /\ KeepsOwner(e, Renew(e, l, now))
<1> DEFINE renewed == [e EXCEPT !.expires[l] = now + LeaseDuration, !.draining = @ \ {l}]
           f == Renew(e, l, now)
<1>1. e \in Entries /\ Accepted(e)
  BY DEF Sound, Absent
<1>2. f \in Entries
  BY <1>1, RenewType
<1>3. now + LeaseDuration \in Nat /\ now + LeaseDuration > 0
  BY LeaseDurationAssumption
<1>4. renewed \in Entries
  BY <1>1, <1>3 DEF Entries
<1>5. f = renewed \/ f = NextEpoch(renewed)
  BY DEF Renew
<1>6. /\ f.state = e.state /\ f.token = e.token /\ f.retired = e.retired
      /\ f.expires = [e.expires EXCEPT ![l] = now + LeaseDuration]
      /\ f.draining = e.draining \ {l}
  BY <1>1, <1>5 DEF NextEpoch, Entries
<1>7. f.epoch = e.epoch \/ f.epoch = e.epoch + 1
  BY <1>1, <1>5 DEF NextEpoch, Entries
<1>8. f.epoch > 0
  BY <1>1, <1>7 DEF Accepted, Entries
<1>9. f.expires[l] > 0 /\ \A k \in Leases \ {l} : f.expires[k] = e.expires[k]
  BY <1>1, <1>3, <1>6 DEF Entries
<1>10. f.draining \subseteq Held(f) /\ l \in NonDraining(f)
  BY <1>1, <1>6, <1>9 DEF Accepted, Held, NonDraining
<1>11. Accepted(f)
  BY <1>1, <1>6, <1>8, <1>10 DEF Accepted
<1> QED BY <1>2, <1>6, <1>10, <1>11 DEF Sound, KeepsOwner

(* Register writes a sound record: it admits, renews, prunes, or hands the *)
(* toolset over once every lease it read was over at the time it read.     *)
LEMMA RegisterMoves ==
  ASSUME NEW e, Sound(e), NEW t \in Tokens, NEW l \in Leases, NEW now \in Nat
  PROVE  LET d == Register(e, t, l, now) IN
         d.write => Sound(d.entry) /\ Moves(e, d.entry, now)
<1> DEFINE d == Register(e, t, l, now)
           p == Prune(e, now)
<1>1. CASE e.state = "absent"
  <2>1. d.entry = NewEntry(t, l, now, {})
    BY <1>1 DEF Register, Write
  <2>2. {} \in SUBSET Tokens /\ t \notin {}
    OBVIOUS
  <2> QED BY <1>1, <2>1, <2>2, NewEntrySound DEF Moves, Admits
<1>2. CASE e.state # "absent"
  <2>1. /\ Sound(p) /\ KeepsOwner(e, p)
        /\ Held(p) = Held(e) \ Expired(e, now)
    BY <1>2, PruneSound
  <2>2. p.state = e.state /\ p.token = e.token /\ p.retired = e.retired
    BY <2>1 DEF KeepsOwner
  <2>3. CASE t \in p.retired
    BY <1>2, <2>3 DEF Register, Return
  <2>4. CASE t \notin p.retired /\ p.token = t
    <3>1. d.entry = Renew(p, l, now)
      BY <1>2, <2>4 DEF Register, Write
    <3>2. Sound(d.entry) /\ KeepsOwner(p, d.entry)
      BY <1>2, <2>1, <2>2, <2>4, <3>1, RenewSound
    <3>3. KeepsOwner(e, d.entry)
      BY <1>2, <2>2, <2>4, <3>2 DEF KeepsOwner
    <3> QED BY <3>2, <3>3 DEF Moves
  <2>5. CASE t \notin p.retired /\ p.token # t /\ Held(p) # {}
    <3>1. d.entry = p
      BY <1>2, <2>5 DEF Register, WriteIf
    <3> QED BY <2>1, <3>1 DEF Moves
  <2>6. CASE t \notin p.retired /\ p.token # t /\ Held(p) = {}
    <3>1. d.entry = NewEntry(t, l, now, p.retired \cup {p.token})
      BY <1>2, <2>6 DEF Register, Write
    <3>2. e.retired \cup {e.token} \in SUBSET Tokens
      BY <1>2 DEF Sound, Accepted, Absent, Entries
    <3>3. \A k \in Held(e) : e.expires[k] <= now
      BY <2>1, <2>6 DEF Expired
    <3>4. t \notin e.retired \cup {e.token}
      BY <2>2, <2>6
    <3>5. /\ Sound(d.entry) /\ d.entry.state = "active" /\ d.entry.token = t
          /\ d.entry.retired = e.retired \cup {e.token}
      BY <2>2, <3>1, <3>2, <3>4, NewEntrySound
    <3> QED BY <1>2, <3>3, <3>4, <3>5 DEF Moves, HandsOver
  <2> QED BY <2>3, <2>4, <2>5, <2>6
<1> QED BY <1>1, <1>2

(* Draining writes a sound record of the same owner.                       *)
LEMMA DrainMoves ==
  ASSUME NEW e, Sound(e), NEW t, NEW l \in Leases, NEW now \in Nat, NEW s \in Nat
  PROVE  LET d == DrainProvider(e, t, l, now, s) IN
         d.write => Sound(d.entry) /\ Moves(e, d.entry, now)
<1> DEFINE d == DrainProvider(e, t, l, now, s)
           until == IF e.expires[l] > now + s THEN e.expires[l] ELSE now + s
           drained == [e EXCEPT !.draining = @ \cup {l}, !.expires[l] = until]
<1> SUFFICES ASSUME d.write PROVE Sound(d.entry) /\ Moves(e, d.entry, now)
  OBVIOUS
<1>1. e.state # "absent" /\ l \in Held(e)
  BY DEF DrainProvider, Return
<1>2. e \in Entries /\ Accepted(e)
  BY <1>1 DEF Sound, Absent
<1>3. CASE l \in Expired(e, now)
  <2>1. d.entry = Prune(e, now)
    BY <1>3 DEF DrainProvider, Write, Return
  <2> QED BY <1>1, <2>1, PruneSound DEF Moves
<1>4. CASE l \notin Expired(e, now)
  <2>1. d.entry = FenceIfEmptied(Routable(e, now), drained, now)
    BY <1>4 DEF DrainProvider, Write, Return
  <2>2. until \in Nat /\ until > 0
    <3>1. e.expires[l] \in Nat /\ e.expires[l] > 0
      BY <1>1, <1>2 DEF Held, Entries
    <3> QED BY <3>1
  <2> HIDE DEF until
  <2>3. drained \in Entries
    BY <1>2, <2>2 DEF Entries
  <2>4. /\ drained.state = e.state /\ drained.token = e.token /\ drained.retired = e.retired
        /\ drained.epoch = e.epoch /\ drained.lastPong = e.lastPong
        /\ drained.draining = e.draining \cup {l}
        /\ drained.expires = [e.expires EXCEPT ![l] = until]
    BY <1>2 DEF Entries
  <2> HIDE DEF drained
  <2>5. \A k \in Leases : drained.expires[k] > 0 <=> e.expires[k] > 0
    BY <1>1, <1>2, <2>2, <2>4 DEF Entries, Held
  <2>6. Held(drained) = Held(e)
    BY <2>5 DEF Held
  <2> DEFINE f == d.entry
  <2>7. /\ f \in Entries
        /\ f.state = e.state /\ f.token = e.token /\ f.retired = e.retired
        /\ f.expires = drained.expires /\ f.draining = e.draining \cup {l}
        /\ f.epoch >= e.epoch
        /\ f.lastPong # 0 => /\ f.lastPong = e.lastPong
                             /\ Routable(e, now) = {} \/ NonDraining(f) # {}
    BY <2>1, <2>3, <2>4, FenceFacts
  <2>8. Held(f) = Held(e)
    BY <2>6, <2>7 DEF Held
  <2>9. f.epoch > 0
    BY <1>2, <2>7 DEF Accepted, Entries
  <2>10. Accepted(f)
    BY <1>1, <1>2, <2>7, <2>8, <2>9 DEF Accepted
  <2>11. f.lastPong # 0 => NonDraining(f) # {}
    <3> SUFFICES ASSUME f.lastPong # 0, NonDraining(f) = {} PROVE FALSE
      OBVIOUS
    <3>1. NonDraining(e) # {} /\ Routable(e, now) = {}
      BY <2>7 DEF Sound
    <3>2. NonDraining(e) \subseteq {l}
      BY <2>7, <2>8 DEF NonDraining
    <3>3. l \in NonDraining(e) /\ e.expires[l] <= now
      BY <1>2, <3>1, <3>2 DEF Routable, Entries
    <3> QED BY <1>1, <1>4, <3>3 DEF Expired
  <2> QED BY <1>1, <2>7, <2>8, <2>10, <2>11 DEF Sound, Moves, KeepsOwner
<1> QED BY <1>3, <1>4

(* Releasing writes a sound record of the same owner.                      *)
LEMMA ReleaseMoves ==
  ASSUME NEW e, Sound(e), NEW t, NEW l \in Leases, NEW now \in Nat
  PROVE  LET d == ReleaseProvider(e, t, l, now) IN
         d.write => Sound(d.entry) /\ Moves(e, d.entry, now)
<1> DEFINE d == ReleaseProvider(e, t, l, now)
           p == Prune(e, now)
           released == [p EXCEPT !.expires[l] = 0, !.draining = @ \ {l}]
<1> SUFFICES ASSUME d.write PROVE Sound(d.entry) /\ Moves(e, d.entry, now)
  OBVIOUS
<1>1. e.state # "absent"
  BY DEF ReleaseProvider, Return
<1>2. /\ Sound(p) /\ KeepsOwner(e, p)
      /\ \A k \in Leases : p.expires[k] = IF e.expires[k] > now THEN e.expires[k] ELSE 0
  BY <1>1, PruneSound
<1>3. p.state = e.state /\ p.token = e.token /\ p.retired = e.retired
  BY <1>2 DEF KeepsOwner
<1>4. p \in Entries /\ Accepted(p)
  BY <1>1, <1>2, <1>3 DEF Sound, Absent
<1>5. CASE l \notin Held(p)
  <2>1. d.entry = p
    BY <1>1, <1>5 DEF ReleaseProvider, WriteIf, Return
  <2> QED BY <1>2, <2>1 DEF Moves
<1>6. CASE l \in Held(p)
  <2>1. d.entry = FenceIfEmptied(Routable(p, now), released, now)
    BY <1>1, <1>6 DEF ReleaseProvider, Write, Return
  <2>2. Routable(p, now) = NonDraining(p)
    BY <1>2 DEF Routable, NonDraining, Held
  <2> HIDE DEF p
  <2>3. released \in Entries
    BY <1>4 DEF Entries
  <2>4. /\ released.state = p.state /\ released.token = p.token
        /\ released.retired = p.retired
        /\ released.epoch = p.epoch /\ released.lastPong = p.lastPong
        /\ released.draining = p.draining \ {l}
        /\ released.expires = [p.expires EXCEPT ![l] = 0]
    BY <1>4 DEF Entries
  <2> HIDE DEF released
  <2>5. Held(released) = Held(p) \ {l}
    BY <1>4, <2>4 DEF Entries, Held
  <2> DEFINE f == d.entry
  <2>6. /\ f \in Entries
        /\ f.state = p.state /\ f.token = p.token /\ f.retired = p.retired
        /\ f.expires = released.expires /\ f.draining = p.draining \ {l}
        /\ f.epoch >= p.epoch
        /\ f.lastPong # 0 => /\ f.lastPong = p.lastPong
                             /\ Routable(p, now) = {} \/ NonDraining(f) # {}
    BY <2>1, <2>3, <2>4, FenceFacts
  <2>7. Held(f) = Held(p) \ {l}
    BY <2>5, <2>6 DEF Held
  <2>8. f.epoch > 0
    BY <1>4, <2>6 DEF Accepted, Entries
  <2>9. Accepted(f)
    BY <1>4, <2>6, <2>7, <2>8 DEF Accepted
  <2>10. f.lastPong # 0 => NonDraining(f) # {}
    BY <1>2, <2>2, <2>6 DEF Sound
  <2>11. KeepsOwner(e, f)
    BY <1>1, <1>2, <1>3, <2>6, <2>7 DEF KeepsOwner
  <2> QED BY <2>6, <2>9, <2>10, <2>11 DEF Sound, Moves
<1> QED BY <1>5, <1>6

(* Retiring writes a sound record that closes the owner.                   *)
LEMMA RetireMoves ==
  ASSUME NEW e, Sound(e), NEW t, NEW now \in Nat
  PROVE  LET d == Retire(e, t) IN
         d.write => Sound(d.entry) /\ Moves(e, d.entry, now)
<1> DEFINE d == Retire(e, t)
           f == [e EXCEPT !.state = "retired", !.retired = @ \cup {e.token}]
<1> SUFFICES ASSUME d.write PROVE Sound(d.entry) /\ Moves(e, d.entry, now)
  OBVIOUS
<1>1. e.state # "absent" /\ e.state # "retired" /\ d.entry = f
  BY DEF Retire, Write, Return
<1>2. e \in Entries /\ Accepted(e)
  BY <1>1 DEF Sound, Absent
<1>3. /\ f.state = "retired" /\ f.token = e.token /\ f.retired = e.retired \cup {e.token}
      /\ f.expires = e.expires /\ f.draining = e.draining /\ f.epoch = e.epoch
      /\ f.lastPong = e.lastPong
  BY <1>2 DEF Entries
<1>4. f \in Entries
  BY <1>2 DEF Accepted, Entries
<1> HIDE DEF f
<1>5. Held(f) = Held(e) /\ NonDraining(f) = NonDraining(e)
  BY <1>3 DEF Held, NonDraining
<1>6. Accepted(f)
  BY <1>2, <1>3, <1>5 DEF Accepted
<1> QED BY <1>1, <1>2, <1>3, <1>4, <1>5, <1>6 DEF Sound, Moves, Closes, Accepted

(* A pong or a health lookup writes a sound record of the same owner.      *)
LEMMA PongMoves ==
  ASSUME NEW e, Sound(e), NEW t, NEW l \in Leases, NEW k, NEW now \in Nat
  PROVE  LET d == RecordPong(e, t, l, k, now) IN
         d.write => Sound(d.entry) /\ Moves(e, d.entry, now)
<1> DEFINE d == RecordPong(e, t, l, k, now)
           later == IF e.lastPong > now THEN e.lastPong ELSE now
           f == [e EXCEPT !.lastPong = later]
<1> SUFFICES ASSUME d.write PROVE Sound(d.entry) /\ Moves(e, d.entry, now)
  OBVIOUS
<1>1. e.state # "absent"
  BY DEF RecordPong, Return
<1>2. CASE Expired(e, now) # {}
  <2>1. d.entry = Prune(e, now)
    BY <1>1, <1>2 DEF RecordPong, Write
  <2> QED BY <1>1, <2>1, PruneSound DEF Moves
<1>3. CASE Expired(e, now) = {}
  <2>1. d.entry = f /\ l \in Routable(e, now)
    BY <1>1, <1>3 DEF RecordPong, Write, Return
  <2>2. e \in Entries /\ Accepted(e)
    BY <1>1 DEF Sound, Absent
  <2>3. later \in Nat
    BY <2>2 DEF Entries
  <2> HIDE DEF later
  <2>4. f \in Entries
    BY <2>2, <2>3 DEF Entries
  <2>5. /\ f.state = e.state /\ f.token = e.token /\ f.retired = e.retired
        /\ f.expires = e.expires /\ f.draining = e.draining /\ f.epoch = e.epoch
    BY <2>2 DEF Entries
  <2> HIDE DEF f
  <2>6. Held(f) = Held(e) /\ NonDraining(f) # {}
    BY <2>1, <2>5 DEF Held, NonDraining, Routable
  <2>7. Accepted(f)
    BY <2>2, <2>5, <2>6 DEF Accepted
  <2> QED BY <1>1, <2>1, <2>4, <2>5, <2>6, <2>7 DEF Sound, Moves, KeepsOwner
<1> QED BY <1>2, <1>3

(* A health lookup writes a sound record of the same owner.                *)
LEMMA HealthMoves ==
  ASSUME NEW e, Sound(e), NEW now \in Nat
  PROVE  LET d == HealthIdentity(e, now) IN
         d.write => Sound(d.entry) /\ Moves(e, d.entry, now)
  BY PruneSound DEF HealthIdentity, Return, WriteIf, Moves

-----------------------------------------------------------------------------
(* The decision of any caller, whatever its request.                       *)
LEMMA DecisionMoves ==
  ASSUME NEW call \in Loops({"decide"}), Sound(call.raw)
  PROVE  LET d == Decision(call) IN
         d.write => Sound(d.entry) /\ Moves(call.raw, d.entry, call.now)
<1> DEFINE req == call.req
           e == call.raw
<1>1. req \in Requests(Identities) /\ call.now \in Nat
  BY DEF Loops
<1>2. CASE req.op = "register"
  <2>1. req.token \in Tokens /\ req.lease \in Leases
    BY <1>1, <1>2 DEF Requests
  <2> QED BY <1>1, <1>2, <2>1, RegisterMoves DEF Decision
<1>3. CASE req.op = "drain"
  <2>1. req.lease \in Leases /\ req.settlement \in Nat
    BY <1>1, <1>3, CatalogAssumption DEF Requests
  <2> QED BY <1>1, <1>3, <2>1, DrainMoves DEF Decision
<1>4. CASE req.op = "release"
  <2>1. req.lease \in Leases
    BY <1>1, <1>4 DEF Requests
  <2> QED BY <1>1, <1>4, <2>1, ReleaseMoves DEF Decision
<1>5. CASE req.op = "retire"
  BY <1>1, <1>5, RetireMoves DEF Decision
<1>6. CASE req.op = "pong"
  <2>1. req.lease \in Leases
    BY <1>1, <1>6 DEF Requests
  <2> QED BY <1>1, <1>6, <2>1, PongMoves DEF Decision
<1>7. CASE req.op \notin {"register", "drain", "release", "retire", "pong"}
  BY <1>1, <1>7, HealthMoves DEF Decision
<1> QED BY <1>2, <1>3, <1>4, <1>5, <1>6, <1>7

(* Only a health lookup reports an identity, and it is a typed one.        *)
LEMMA IdentityType ==
  ASSUME NEW call \in Loops({"decide"}), Decision(call).result = "identity"
  PROVE  [token |-> Decision(call).entry.token, epoch |-> Decision(call).entry.epoch] \in Identities
<1> DEFINE req == call.req
           e == call.raw
<1>1. e \in Entries /\ call.now \in Nat
  BY DEF Loops
<1>2. req.op # "register"
  BY DEF Decision, Register, Write, Return, WriteIf
<1>3. req.op # "drain"
  BY DEF Decision, DrainProvider, Write, Return
<1>4. req.op # "release"
  BY DEF Decision, ReleaseProvider, Write, Return, WriteIf
<1>5. req.op # "retire"
  BY DEF Decision, Retire, Write, Return
<1>6. req.op # "pong"
  BY DEF Decision, RecordPong, Write, Return
<1>7. Decision(call) = HealthIdentity(e, call.now)
  BY <1>2, <1>3, <1>4, <1>5, <1>6 DEF Decision
<1>8. Decision(call).entry \in Entries
  BY <1>1, <1>7, HealthType
<1> QED BY <1>8 DEF Entries, Identities

(* A concluded operation leaves the callers and the pings typed.           *)
LEMMA ConcludeType ==
  ASSUME TypeOK, NEW c \in Callers, calls[c] \in Loops({"decide"}),
         Conclude(c, Decision(calls[c]))
  PROVE  /\ pings' \subseteq Identities
         /\ calls' \in [Callers -> {Idle} \cup Loops({"read", "decide"})]
         /\ \A b \in Callers : calls'[b] = Idle \/ calls'[b] = calls[b]
<1>1. pings' \subseteq Identities
  <2>1. CASE Decision(calls[c]).result = "identity"
    BY <2>1, IdentityType DEF Conclude, TypeOK
  <2>2. CASE Decision(calls[c]).result # "identity"
    BY <2>2 DEF Conclude, TypeOK
  <2> QED BY <2>1, <2>2
<1> QED BY <1>1 DEF Conclude, TypeOK

(* The inductive invariant holds initially.                                *)
LEMMA InitInv == Init => IInv
<1> SUFFICES ASSUME Init PROVE IInv
  OBVIOUS
<1>1. Absent \in Entries /\ Absent.lastPong = 0
  BY AbsentType DEF Absent
<1>2. TypeOK
  BY <1>1 DEF Init, TypeOK
<1>3. Sound(entry)
  BY <1>1 DEF Init, Sound
<1> QED BY <1>2, <1>3 DEF Init, IInv, TimesArePast, Idle

(* Every step preserves the inductive invariant.                           *)
LEMMA NextInv == IInv /\ [Next]_vars => IInv'
<1> SUFFICES ASSUME IInv, [Next]_vars PROVE IInv'
  OBVIOUS
<1> USE DEF IInv
<1>0. ASSUME NEW c \in Callers, calls[c].phase = "decide"
      PROVE  calls[c] \in Loops({"decide"})
  BY <1>0 DEF TypeOK, Loops, Idle
<1>1. CASE Tick
  BY <1>1, CatalogAssumption DEF Tick, TypeOK, TimesArePast, Loops, Idle
<1>2. ASSUME NEW c \in Callers, NEW req \in Requests(pings), Start(c, req)
      PROVE  IInv'
  <2>1. req \in Requests(Identities)
    BY DEF Requests, TypeOK
  <2>2. [phase |-> "read", req |-> req, raw |-> entry, now |-> 0] \in Loops({"read", "decide"})
    BY <2>1 DEF Loops, TypeOK
  <2>3. TypeOK'
    BY <1>2, <2>2 DEF Start, TypeOK
  <2>4. TimesArePast'
    BY <1>2 DEF Start, TypeOK, TimesArePast
  <2> QED BY <1>2, <2>3, <2>4 DEF Start
<1>3. ASSUME NEW c \in Callers, ReadTime(c)
      PROVE  IInv'
  <2>1. calls[c] \in Loops({"read"})
    BY <1>3 DEF ReadTime, TypeOK, Loops, Idle
  <2>2. [calls[c] EXCEPT !.phase = "decide", !.now = clock] \in Loops({"read", "decide"})
    BY <2>1 DEF Loops, TypeOK
  <2>3. calls' = [calls EXCEPT ![c] = [calls[c] EXCEPT !.phase = "decide", !.now = clock]]
    BY <1>3 DEF ReadTime, TypeOK
  <2>4. TypeOK'
    BY <1>3, <2>2, <2>3 DEF ReadTime, TypeOK
  <2>5. TimesArePast'
    BY <1>3, <2>1, <2>3 DEF ReadTime, TypeOK, TimesArePast, Loops
  <2> QED BY <1>3, <2>4, <2>5 DEF ReadTime
<1>4. ASSUME NEW c \in Callers, ReturnDecision(c)
      PROVE  IInv'
  <2>1. /\ pings' \subseteq Identities
        /\ calls' \in [Callers -> {Idle} \cup Loops({"read", "decide"})]
        /\ \A b \in Callers : calls'[b] = Idle \/ calls'[b] = calls[b]
    BY <1>0, <1>4, ConcludeType DEF ReturnDecision
  <2> QED BY <1>4, <2>1 DEF ReturnDecision, TypeOK, TimesArePast, Idle
<1>5. ASSUME NEW c \in Callers, Replace(c)
      PROVE  IInv'
  <2> DEFINE d == Decision(calls[c])
  <2>1. calls[c] \in Loops({"decide"}) /\ Sound(calls[c].raw)
    BY <1>0, <1>5 DEF Replace
  <2>2. Sound(entry') /\ entry' = d.entry
    BY <1>5, <2>1, DecisionMoves DEF Replace
  <2>3. entry' \in Entries
    BY <2>2 DEF Sound
  <2>4. CASE d.result = "again"
    <3>1. calls' = [calls EXCEPT ![c] = [calls[c] EXCEPT !.raw = entry']]
      BY <1>5, <2>2, <2>4 DEF Replace, TypeOK
    <3>2. [calls[c] EXCEPT !.raw = entry'] \in Loops({"read", "decide"})
      BY <2>1, <2>3 DEF Loops
    <3>3. pings' = pings /\ clock' = clock
      BY <1>5, <2>4 DEF Replace
    <3>4. TimesArePast'
      BY <2>1, <3>1, <3>3 DEF TypeOK, TimesArePast, Loops
    <3> QED BY <2>2, <2>3, <3>1, <3>2, <3>3, <3>4 DEF TypeOK
  <2>5. CASE d.result # "again"
    <3>1. /\ pings' \subseteq Identities
          /\ calls' \in [Callers -> {Idle} \cup Loops({"read", "decide"})]
          /\ \A b \in Callers : calls'[b] = Idle \/ calls'[b] = calls[b]
      BY <1>5, <2>1, <2>5, ConcludeType DEF Replace
    <3> QED BY <1>5, <2>2, <2>3, <3>1 DEF Replace, TypeOK, TimesArePast, Idle
  <2> QED BY <2>4, <2>5
<1>6. ASSUME NEW c \in Callers, ReplaceFails(c)
      PROVE  IInv'
  <2>1. calls[c] \in Loops({"decide"})
    BY <1>0, <1>6 DEF ReplaceFails
  <2>2. [calls[c] EXCEPT !.phase = "read", !.raw = entry] \in Loops({"read", "decide"})
    BY <2>1 DEF Loops, TypeOK
  <2>3. calls' = [calls EXCEPT ![c] = [calls[c] EXCEPT !.phase = "read", !.raw = entry]]
    BY <1>6 DEF ReplaceFails, TypeOK
  <2>4. TypeOK'
    BY <1>6, <2>2, <2>3 DEF ReplaceFails, TypeOK
  <2>5. TimesArePast'
    BY <1>6, <2>1, <2>3 DEF ReplaceFails, TypeOK, TimesArePast, Loops
  <2> QED BY <1>6, <2>4, <2>5 DEF ReplaceFails
<1>7. ASSUME NEW c \in Callers, Fail(c)
      PROVE  IInv'
  BY <1>7 DEF Fail, TypeOK, TimesArePast, Idle
<1>8. CASE UNCHANGED vars
  BY <1>8 DEF vars, TypeOK, TimesArePast
<1> QED BY <1>1, <1>2, <1>3, <1>4, <1>5, <1>6, <1>7, <1>8 DEF Next

(* The inductive invariant holds in every reachable state.                 *)
LEMMA SpecInv == Spec => []IInv
  BY InitInv, NextInv, PTL DEF Spec

(* Every reachable state of the catalog is well typed.                     *)
THEOREM TypeCorrect == Spec => []TypeOK
<1>1. IInv => TypeOK
  BY DEF IInv
<1> QED BY <1>1, SpecInv, PTL

(* No interleaving of registrations, drains, releases, retirements, pongs  *)
(* and health lookups stores a record parseCatalogEntry would refuse.      *)
THEOREM AlwaysAccepted == Spec => []RecordAccepted
<1>1. IInv => RecordAccepted
  BY DEF IInv, Sound, RecordAccepted, Absent
<1> QED BY <1>1, SpecInv, PTL

(* Every step either leaves the record alone or moves it as one decision   *)
(* on the record being replaced allows, at a time not past the clock.      *)
LEMMA StepMoves ==
  ASSUME IInv, [Next]_vars, entry' # entry
  PROVE  Moves(entry, entry', clock) /\ clock' = clock
<1>1. PICK c \in Callers : Replace(c)
  BY DEF Next, vars, Tick, Start, ReadTime, ReturnDecision, ReplaceFails, Fail
<1>2. calls[c] \in Loops({"decide"}) /\ Sound(calls[c].raw) /\ entry = calls[c].raw
  BY <1>1 DEF Replace, IInv, TypeOK, Loops, Idle
<1>3. Moves(entry, entry', calls[c].now)
  BY <1>1, <1>2, DecisionMoves DEF Replace
<1>4. calls[c].now <= clock /\ calls[c].now \in Nat /\ clock \in Nat
  BY <1>1, <1>2 DEF Replace, IInv, TimesArePast, TypeOK, Loops
<1>5. \A l \in Leases : entry.expires[l] \in Nat
  BY DEF IInv, TypeOK, Entries
<1>6. HandsOver(entry, entry', calls[c].now) => HandsOver(entry, entry', clock)
  BY <1>4, <1>5 DEF HandsOver, Held
<1> QED BY <1>1, <1>3, <1>6 DEF Moves, Replace

(* A retired or replaced admission token is never the active one again.    *)
THEOREM RetiredForever == Spec => NeverReadmitted
<1>1. ASSUME IInv, [Next]_vars
      PROVE  [/\ entry.retired \subseteq entry'.retired
              /\ entry'.state = "active" => entry'.token \notin entry.retired]_vars
  <2>1. CASE entry' = entry
    BY <1>1, <2>1 DEF IInv, Sound, Accepted, Absent
  <2>2. CASE entry' # entry
    <3>1. Moves(entry, entry', clock)
      BY <1>1, <2>2, StepMoves
    <3>2. entry = Absent \/ Accepted(entry)
      BY <1>1 DEF IInv, Sound
    <3> QED BY <3>1, <3>2 DEF Moves, Admits, KeepsOwner, Closes, HandsOver, Accepted, Absent
  <2> QED BY <2>1, <2>2
<1> QED BY <1>1, SpecInv, PTL DEF Spec, NeverReadmitted

(* A toolset changes hands only when Redis TIME is past every lease of the *)
(* admission that loses it.                                                *)
THEOREM ReplacementIsSafe == Spec => ReplacementWaitsForLeases
<1>1. ASSUME IInv, [Next]_vars
      PROVE  [entry.token # NoToken /\ entry'.token # entry.token =>
                 \A l \in Held(entry) : entry.expires[l] <= clock]_vars
  <2>1. CASE entry' = entry
    BY <2>1
  <2>2. CASE entry' # entry
    <3>1. Moves(entry, entry', clock)
      BY <1>1, <2>2, StepMoves
    <3>2. entry = Absent \/ Accepted(entry)
      BY <1>1 DEF IInv, Sound
    <3> QED BY <3>1, <3>2 DEF Moves, Admits, KeepsOwner, Closes, HandsOver, Accepted, Absent
  <2> QED BY <2>1, <2>2
<1> QED BY <1>1, SpecInv, PTL DEF Spec, ReplacementWaitsForLeases

(* The catalog implements the lease-guarded lock of AdmissionOwnership:    *)
(* its reads and failed writes are stutters, its writes and the clock are  *)
(* steps of the lock.                                                      *)
THEOREM OwnershipRefined == Spec => ImplementsOwnership
<1>1. Init => Ownership!Init
  BY DEF Init, Absent, Ownership!Init
<1>2. ASSUME IInv, IInv', [Next]_vars
      PROVE  [Ownership!Next]_(Ownership!vars)
  <2>1. CASE entry' = entry
    <3>1. clock' = clock \/ clock' = clock + 1
      BY <1>2 DEF Next, vars, Tick, Start, ReadTime, ReturnDecision, Replace, ReplaceFails, Fail
    <3>2. clock' = clock \/ clock' > clock
      BY <1>2, <3>1 DEF IInv, TypeOK
    <3> QED BY <2>1, <3>2 DEF Ownership!Next, Ownership!Pass, Ownership!vars
  <2>2. CASE entry' # entry
    <3>1. Moves(entry, entry', clock) /\ clock' = clock
      BY <1>2, <2>2, StepMoves
    <3>2. entry'.expires \in [Leases -> Nat]
      BY <1>2 DEF IInv, TypeOK, Entries
    <3>3. entry = Absent \/ Accepted(entry)
      BY <1>2 DEF IInv, Sound
    <3>4. entry.state # "absent" => entry.token # NoToken
      BY <3>3, TokenAssumption DEF Accepted, Absent
    <3>5. CASE Admits(entry, entry')
      <4>1. entry.token = NoToken /\ entry.retired = {}
        BY <3>3, <3>5 DEF Admits, Accepted, Absent
      <4>2. Ownership!Admit(entry'.token)
        BY <3>1, <3>2, <3>5, <4>1 DEF Admits, Ownership!Admit
      <4> QED BY <3>5, <4>2 DEF Admits, Ownership!Next
    <3>6. CASE KeepsOwner(entry, entry')
      <4>1. entry.token \in entry.retired =>
              \A l \in Leases : entry'.expires[l] > 0 => entry.expires[l] > 0
        BY <3>6 DEF KeepsOwner, Held
      <4> QED BY <3>1, <3>2, <3>4, <3>6, <4>1 DEF KeepsOwner, Ownership!ChangeLeases, Ownership!Next
    <3>7. CASE Closes(entry, entry')
      BY <3>1, <3>4, <3>7 DEF Closes, Ownership!Close, Ownership!Next
    <3>8. CASE HandsOver(entry, entry', clock)
      <4>1. \A l \in Ownership!Granted : entry.expires[l] <= clock
        BY <3>8 DEF HandsOver, Held, Ownership!Granted
      <4>2. Ownership!HandOver(entry'.token)
        BY <3>1, <3>2, <3>4, <3>8, <4>1 DEF HandsOver, Ownership!HandOver
      <4> QED BY <3>8, <4>2 DEF HandsOver, Ownership!Next
    <3> QED BY <3>1, <3>5, <3>6, <3>7, <3>8 DEF Moves
  <2> QED BY <2>1, <2>2
<1> QED BY <1>1, <1>2, SpecInv, PTL DEF Spec, ImplementsOwnership, Ownership!Spec

-----------------------------------------------------------------------------
(* Health evidence: epochs and pongs.                                      *)

(* One write continues the membership of a record: its epoch never goes    *)
(* back, and while the epoch stays, evidence is not taken back and a       *)
(* membership that is not empty shares a lease with the one before.        *)
Continues(e, f) ==
    /\ f.epoch >= e.epoch
    /\ f.epoch = e.epoch =>
           /\ f.lastPong >= e.lastPong
           /\ NonDraining(f) # {} => NonDraining(e) \cap NonDraining(f) # {}

(* A write that admits no lease and fences or leaves the evidence alone.   *)
Shrinks(e, f) ==
    /\ NonDraining(f) \subseteq NonDraining(e)
    /\ \/ f.epoch = e.epoch /\ f.lastPong = e.lastPong
       \/ f.epoch = e.epoch + 1

-----------------------------------------------------------------------------
(* Shrinking a well formed record continues its membership.                *)
LEMMA ShrinkContinues ==
  ASSUME NEW e \in Entries, NEW f, Shrinks(e, f)
  PROVE  Continues(e, f)
<1>1. e.epoch \in Nat /\ e.lastPong \in Nat
  BY DEF Entries
<1>2. f.epoch >= e.epoch /\ (f.epoch = e.epoch => f.lastPong >= e.lastPong)
  BY <1>1 DEF Shrinks
<1>3. NonDraining(f) # {} => NonDraining(e) \cap NonDraining(f) # {}
  BY DEF Shrinks
<1> QED BY <1>2, <1>3 DEF Continues

(* Fencing adds at most one epoch and touches no lease.                    *)
LEMMA FenceShrinks ==
  ASSUME NEW e \in Entries, NEW f \in Entries, NEW members, NEW now,
         NonDraining(f) \subseteq NonDraining(e),
         f.epoch = e.epoch, f.lastPong = e.lastPong
  PROVE  Shrinks(e, FenceIfEmptied(members, f, now))
<1> DEFINE g == FenceIfEmptied(members, f, now)
<1>1. CASE g = f
  BY <1>1 DEF Shrinks
<1>2. CASE g = NextEpoch(f)
  <2>1. g.epoch = e.epoch + 1 /\ g.expires = f.expires /\ g.draining = f.draining
    BY <1>2 DEF NextEpoch, Entries
  <2>2. NonDraining(g) = NonDraining(f)
    BY <2>1 DEF NonDraining, Held
  <2> QED BY <2>1, <2>2 DEF Shrinks
<1> QED BY <1>1, <1>2 DEF FenceIfEmptied

(* Pruning only removes members.                                           *)
LEMMA PruneShrinks ==
  ASSUME NEW e \in Entries, NEW now \in Nat
  PROVE  Shrinks(e, Prune(e, now))
<1> DEFINE kept == [e EXCEPT !.expires = [l \in Leases |-> IF e.expires[l] > now THEN e.expires[l] ELSE 0],
                             !.draining = {l \in e.draining : e.expires[l] > now}]
<1>1. kept \in Entries
  BY DEF Entries
<1>2. /\ kept.epoch = e.epoch /\ kept.lastPong = e.lastPong
      /\ kept.expires = [l \in Leases |-> IF e.expires[l] > now THEN e.expires[l] ELSE 0]
      /\ kept.draining = {l \in e.draining : e.expires[l] > now}
  BY DEF Entries
<1>3. \A l \in Leases : e.expires[l] \in Nat
  BY DEF Entries
<1> HIDE DEF kept
<1>4. NonDraining(kept) \subseteq NonDraining(e)
  BY <1>2, <1>3 DEF NonDraining, Held
<1>5. Shrinks(e, FenceIfEmptied(NonDraining(e), kept, now))
  BY <1>1, <1>2, <1>4, FenceShrinks
<1> QED BY <1>5 DEF Prune, kept

(* A renewal keeps the epoch only when a member still routes, and that     *)
(* member stays.                                                           *)
LEMMA RenewContinues ==
  ASSUME NEW e \in Entries, NEW l \in Leases, NEW now \in Nat
  PROVE  /\ Renew(e, l, now).epoch = e.epoch \/ Renew(e, l, now).epoch = e.epoch + 1
         /\ Renew(e, l, now).epoch = e.epoch =>
                /\ Renew(e, l, now).lastPong = e.lastPong
                /\ NonDraining(e) # {}
                /\ NonDraining(e) \subseteq NonDraining(Renew(e, l, now))
<1> DEFINE renewed == [e EXCEPT !.expires[l] = now + LeaseDuration, !.draining = @ \ {l}]
           f == Renew(e, l, now)
<1>1. now + LeaseDuration \in Nat /\ now + LeaseDuration > 0
  BY LeaseDurationAssumption
<1>2. renewed \in Entries
  BY <1>1 DEF Entries
<1>3. /\ renewed.epoch = e.epoch /\ renewed.lastPong = e.lastPong
      /\ renewed.expires = [e.expires EXCEPT ![l] = now + LeaseDuration]
      /\ renewed.draining = e.draining \ {l}
  BY DEF Entries
<1>4. e.epoch \in Nat /\ e.expires \in [Leases -> Nat]
  BY DEF Entries
<1> HIDE DEF renewed
<1>5. CASE Routable(e, now) = {}
  <2>1. f = NextEpoch(renewed)
    BY <1>5 DEF Renew, renewed
  <2>2. f.epoch = e.epoch + 1
    BY <1>2, <1>3, <2>1 DEF NextEpoch, Entries
  <2>3. f.epoch # e.epoch
    BY <1>4, <2>2
  <2> QED BY <2>2, <2>3
<1>6. CASE Routable(e, now) # {}
  <2>1. f = renewed
    BY <1>6 DEF Renew, renewed
  <2>2. NonDraining(e) # {}
    BY <1>6 DEF Routable
  <2>3. NonDraining(e) \subseteq NonDraining(renewed)
    BY <1>1, <1>3, <1>4 DEF NonDraining, Held
  <2> QED BY <1>3, <2>1, <2>2, <2>3
<1> QED BY <1>5, <1>6

-----------------------------------------------------------------------------
(* Register continues the membership of an admission it does not replace.  *)
LEMMA RegisterContinues ==
  ASSUME NEW e, Sound(e), NEW t \in Tokens, NEW l \in Leases, NEW now \in Nat
  PROVE  LET d == Register(e, t, l, now) IN
         d.write /\ d.entry.token = e.token => Continues(e, d.entry)
<1> DEFINE d == Register(e, t, l, now)
           p == Prune(e, now)
<1>1. e \in Entries
  BY DEF Sound
<1>2. p \in Entries /\ Shrinks(e, p)
  BY <1>1, PruneType, PruneShrinks
<1>3. CASE e.state = "absent"
  <2>1. d.entry.token = t
    BY <1>3 DEF Register, Write, NewEntry
  <2>2. e.token = NoToken
    BY <1>3 DEF Sound, Accepted, Absent
  <2> QED BY <2>1, <2>2, TokenAssumption
<1>4. CASE e.state # "absent" /\ t \in p.retired
  BY <1>4 DEF Register, Return
<1>5. CASE e.state # "absent" /\ t \notin p.retired /\ p.token = t
  <2> DEFINE f == Renew(p, l, now)
  <2>1. d.entry = f
    BY <1>5 DEF Register, Write
  <2>2. /\ f.epoch = p.epoch \/ f.epoch = p.epoch + 1
        /\ f.epoch = p.epoch => /\ f.lastPong = p.lastPong
                                /\ NonDraining(p) # {}
                                /\ NonDraining(p) \subseteq NonDraining(f)
    BY <1>2, RenewContinues
  <2>3. e.epoch \in Nat /\ p.epoch \in Nat /\ e.lastPong \in Nat
    BY <1>1, <1>2 DEF Entries
  <2> HIDE DEF f, p
  <2>4. f.epoch >= e.epoch
    BY <1>2, <2>2, <2>3 DEF Shrinks
  <2>5. ASSUME f.epoch = e.epoch
        PROVE  f.lastPong >= e.lastPong /\ NonDraining(e) \cap NonDraining(f) # {}
    <3>1. f.epoch = p.epoch /\ p.epoch = e.epoch
      BY <1>2, <2>2, <2>3, <2>5 DEF Shrinks
    <3>2. p.lastPong = e.lastPong
      BY <1>2, <2>3, <3>1 DEF Shrinks
    <3>3. f.lastPong >= e.lastPong
      BY <2>2, <2>3, <3>1, <3>2
    <3>4. NonDraining(e) \cap NonDraining(f) # {}
      BY <1>2, <2>2, <3>1 DEF Shrinks
    <3> QED BY <3>3, <3>4
  <2> QED BY <2>1, <2>4, <2>5 DEF Continues
<1>6. CASE e.state # "absent" /\ t \notin p.retired /\ p.token # t /\ Held(p) # {}
  <2>1. d.entry = p
    BY <1>6 DEF Register, WriteIf
  <2> QED BY <1>1, <1>2, <2>1, ShrinkContinues
<1>7. CASE e.state # "absent" /\ t \notin p.retired /\ p.token # t /\ Held(p) = {}
  <2>1. d.entry.token = t
    BY <1>7 DEF Register, Write, NewEntry
  <2>2. p.token = e.token
    BY <1>7, PruneSound DEF KeepsOwner
  <2> QED BY <1>7, <2>1, <2>2
<1> QED BY <1>3, <1>4, <1>5, <1>6, <1>7

(* A drain only removes a member from routing.                             *)
LEMMA DrainContinues ==
  ASSUME NEW e \in Entries, NEW t, NEW l \in Leases, NEW now \in Nat, NEW s \in Nat
  PROVE  LET d == DrainProvider(e, t, l, now, s) IN d.write => Continues(e, d.entry)
<1> DEFINE d == DrainProvider(e, t, l, now, s)
           until == IF e.expires[l] > now + s THEN e.expires[l] ELSE now + s
           drained == [e EXCEPT !.draining = @ \cup {l}, !.expires[l] = until]
<1>1. until \in Nat
  BY DEF Entries
<1> HIDE DEF until
<1>2. drained \in Entries
  BY <1>1 DEF Entries
<1>3. /\ drained.epoch = e.epoch /\ drained.lastPong = e.lastPong
      /\ drained.expires = [e.expires EXCEPT ![l] = until]
      /\ drained.draining = e.draining \cup {l}
  BY DEF Entries
<1>4. e.expires \in [Leases -> Nat]
  BY DEF Entries
<1> HIDE DEF drained
<1>5. NonDraining(drained) \subseteq NonDraining(e)
  BY <1>3, <1>4 DEF NonDraining, Held
<1>6. Shrinks(e, FenceIfEmptied(Routable(e, now), drained, now))
  BY <1>2, <1>3, <1>5, FenceShrinks
<1>7. d.write => d.entry = Prune(e, now) \/ d.entry = FenceIfEmptied(Routable(e, now), drained, now)
  BY DEF DrainProvider, Write, Return, drained, until
<1> QED BY <1>6, <1>7, PruneShrinks, ShrinkContinues

(* A release only removes members.                                         *)
LEMMA ReleaseContinues ==
  ASSUME NEW e \in Entries, NEW t, NEW l \in Leases, NEW now \in Nat
  PROVE  LET d == ReleaseProvider(e, t, l, now) IN d.write => Continues(e, d.entry)
<1> DEFINE d == ReleaseProvider(e, t, l, now)
           p == Prune(e, now)
           released == [p EXCEPT !.expires[l] = 0, !.draining = @ \ {l}]
           g == FenceIfEmptied(Routable(p, now), released, now)
<1>1. p \in Entries /\ Shrinks(e, p)
  BY PruneType, PruneShrinks
<1>2. d.write => d.entry = p \/ (d.entry = g /\ l \in Held(p))
  BY DEF ReleaseProvider, Write, Return, WriteIf
<1>3. ASSUME d.write, d.entry = g PROVE Continues(e, d.entry)
  <2> HIDE DEF p
  <2>1. released \in Entries
    BY <1>1 DEF Entries
  <2>2. /\ released.epoch = p.epoch /\ released.lastPong = p.lastPong
        /\ released.expires = [p.expires EXCEPT ![l] = 0]
        /\ released.draining = p.draining \ {l}
    BY <1>1 DEF Entries
  <2>3. p.expires \in [Leases -> Nat] /\ e.epoch \in Nat /\ p.epoch \in Nat /\ e.lastPong \in Nat
    BY <1>1 DEF Entries
  <2> HIDE DEF released
  <2>4. NonDraining(released) \subseteq NonDraining(p)
    BY <2>2, <2>3 DEF NonDraining, Held
  <2>5. Shrinks(p, g)
    BY <1>1, <2>1, <2>2, <2>4, FenceShrinks
  <2> HIDE DEF g
  <2>6. NonDraining(g) \subseteq NonDraining(e)
    BY <1>1, <2>5 DEF Shrinks
  <2>7. g.epoch >= e.epoch /\ (g.epoch = e.epoch => g.lastPong = e.lastPong)
    BY <1>1, <2>3, <2>5 DEF Shrinks
  <2>8. NonDraining(g) # {} => NonDraining(e) \cap NonDraining(g) # {}
    BY <2>6
  <2>9. g.epoch = e.epoch => g.lastPong >= e.lastPong
    BY <2>3, <2>7
  <2> QED BY <1>3, <2>7, <2>8, <2>9 DEF Continues
<1>4. ASSUME d.write, d.entry = p PROVE Continues(e, d.entry)
  BY <1>1, <1>4, ShrinkContinues
<1> QED BY <1>2, <1>3, <1>4

(* Retirement changes neither members nor evidence.                        *)
LEMMA RetireContinues ==
  ASSUME NEW e \in Entries, NEW t
  PROVE  LET d == Retire(e, t) IN d.write => Continues(e, d.entry)
<1> DEFINE d == Retire(e, t)
           f == [e EXCEPT !.state = "retired", !.retired = @ \cup {e.token}]
<1>1. d.write => d.entry = f
  BY DEF Retire, Write, Return
<1>2. f.epoch = e.epoch /\ f.lastPong = e.lastPong /\ f.expires = e.expires /\ f.draining = e.draining
  BY DEF Entries
<1> HIDE DEF f
<1>3. Shrinks(e, f)
  BY <1>2 DEF Shrinks, NonDraining, Held
<1> QED BY <1>1, <1>3, ShrinkContinues

(* A pong prunes, or records a time that is not before the one recorded.   *)
LEMMA PongContinues ==
  ASSUME NEW e \in Entries, NEW t, NEW l, NEW k, NEW now \in Nat
  PROVE  LET d == RecordPong(e, t, l, k, now) IN d.write => Continues(e, d.entry)
<1> DEFINE d == RecordPong(e, t, l, k, now)
           later == IF e.lastPong > now THEN e.lastPong ELSE now
           f == [e EXCEPT !.lastPong = later]
<1>1. d.write => d.entry = Prune(e, now) \/ d.entry = f
  BY DEF RecordPong, Write, Return
<1>2. e.lastPong \in Nat /\ e.epoch \in Nat
  BY DEF Entries
<1>3. later >= e.lastPong
  BY <1>2
<1> HIDE DEF later
<1>4. f.epoch = e.epoch /\ f.lastPong = later /\ f.expires = e.expires /\ f.draining = e.draining
  BY DEF Entries
<1> HIDE DEF f
<1>5. NonDraining(f) = NonDraining(e)
  BY <1>4 DEF NonDraining, Held
<1>6. f.epoch >= e.epoch
  BY <1>2, <1>4
<1>7. Continues(e, f)
  BY <1>3, <1>4, <1>5, <1>6 DEF Continues
<1> QED BY <1>1, <1>7, PruneShrinks, ShrinkContinues

(* A health lookup only prunes.                                            *)
LEMMA HealthContinues ==
  ASSUME NEW e \in Entries, NEW now \in Nat
  PROVE  LET d == HealthIdentity(e, now) IN d.write => Continues(e, d.entry)
  BY PruneShrinks, ShrinkContinues DEF HealthIdentity, Return, WriteIf

(* The decision of any caller continues the membership of the record it    *)
(* read, unless it hands the toolset to another admission.                 *)
LEMMA DecisionContinues ==
  ASSUME NEW call \in Loops({"decide"}), Sound(call.raw)
  PROVE  LET d == Decision(call) IN
         d.write /\ d.entry.token = call.raw.token => Continues(call.raw, d.entry)
<1> DEFINE req == call.req
           e == call.raw
<1>1. req \in Requests(Identities) /\ call.now \in Nat /\ e \in Entries
  BY DEF Loops
<1>2. CASE req.op = "register"
  <2>1. req.token \in Tokens /\ req.lease \in Leases
    BY <1>1, <1>2 DEF Requests
  <2> QED BY <1>1, <1>2, <2>1, RegisterContinues DEF Decision
<1>3. CASE req.op = "drain"
  <2>1. req.lease \in Leases /\ req.settlement \in Nat
    BY <1>1, <1>3, CatalogAssumption DEF Requests
  <2> QED BY <1>1, <1>3, <2>1, DrainContinues DEF Decision
<1>4. CASE req.op = "release"
  <2>1. req.lease \in Leases
    BY <1>1, <1>4 DEF Requests
  <2> QED BY <1>1, <1>4, <2>1, ReleaseContinues DEF Decision
<1>5. CASE req.op = "retire"
  BY <1>1, <1>5, RetireContinues DEF Decision
<1>6. CASE req.op = "pong"
  BY <1>1, <1>6, PongContinues DEF Decision
<1>7. CASE req.op \notin {"register", "drain", "release", "retire", "pong"}
  BY <1>1, <1>7, HealthContinues DEF Decision
<1> QED BY <1>2, <1>3, <1>4, <1>5, <1>6, <1>7

(* Every write of a reachable state continues the membership it replaces.  *)
LEMMA StepContinues ==
  ASSUME IInv, [Next]_vars, entry' # entry, entry'.token = entry.token
  PROVE  Continues(entry, entry')
<1>1. PICK c \in Callers : Replace(c)
  BY DEF Next, vars, Tick, Start, ReadTime, ReturnDecision, ReplaceFails, Fail
<1>2. calls[c] \in Loops({"decide"}) /\ Sound(calls[c].raw) /\ entry = calls[c].raw
  BY <1>1 DEF Replace, IInv, TypeOK, Loops, Idle
<1> QED BY <1>1, <1>2, DecisionContinues DEF Replace

-----------------------------------------------------------------------------
(* Within (token, epoch) the set of routable members never empties and     *)
(* fills again, whatever callers race: a pong to a ping of an earlier      *)
(* membership cannot count for a later one.                                *)
THEOREM EpochsNameMemberships == Spec => EpochNamesOneMembership
<1>1. ASSUME IInv, [Next]_vars
      PROVE  [/\ entry'.token = entry.token => entry'.epoch >= entry.epoch
              /\ entry'.token = entry.token /\ entry'.epoch = entry.epoch /\ NonDraining(entry') # {} =>
                     NonDraining(entry) \cap NonDraining(entry') # {}]_vars
  <2>1. CASE entry' = entry
    <3>1. entry.epoch >= entry.epoch
      BY <1>1 DEF IInv, TypeOK, Entries
    <3>2. NonDraining(entry') = NonDraining(entry)
      BY <2>1 DEF NonDraining, Held
    <3> QED BY <2>1, <3>1, <3>2
  <2>2. CASE entry' # entry
    BY <1>1, <2>2, StepContinues DEF Continues
  <2> QED BY <2>1, <2>2
<1> QED BY <1>1, SpecInv, PTL DEF Spec, EpochNamesOneMembership

(* A caller with an older time never takes recorded evidence back within   *)
(* an epoch.                                                               *)
THEOREM PongsNeverGoBack == Spec => PongsMonotonic
<1>1. ASSUME IInv, [Next]_vars
      PROVE  [entry'.token = entry.token /\ entry'.epoch = entry.epoch =>
                 entry'.lastPong >= entry.lastPong]_vars
  <2>1. CASE entry' = entry
    <3>1. entry.lastPong >= entry.lastPong
      BY <1>1 DEF IInv, TypeOK, Entries
    <3> QED BY <2>1, <3>1
  <2>2. CASE entry' # entry
    BY <1>1, <2>2, StepContinues DEF Continues
  <2> QED BY <2>1, <2>2
<1> QED BY <1>1, SpecInv, PTL DEF Spec, PongsMonotonic

-----------------------------------------------------------------------------
(* Evidence and the pings it answers: a pong under way answers a ping that *)
(* was sent, and so does the pong the record keeps, for the identity the   *)
(* record has now.                                                         *)
AnswersPing(call) == call.phase # "idle" /\ call.req.op = "pong" => call.req.id \in pings
EvidenceInv ==
    /\ \A c \in Callers : AnswersPing(calls[c])
    /\ entry.lastPong # 0 => [token |-> entry.token, epoch |-> entry.epoch] \in pings

(* A write that brings no evidence: it keeps the record's, for the same    *)
(* identity, or takes it back.                                             *)
BringsNone(e, f) ==
    f.lastPong = 0 \/ (f.lastPong = e.lastPong /\ f.token = e.token /\ f.epoch = e.epoch)

(* Fencing takes evidence back with the epoch.                             *)
LEMMA FenceBringsNone ==
  ASSUME NEW e \in Entries, NEW f \in Entries, NEW members, NEW now,
         f.lastPong = e.lastPong, f.token = e.token, f.epoch = e.epoch
  PROVE  BringsNone(e, FenceIfEmptied(members, f, now))
<1>1. NextEpoch(f).lastPong = 0
  BY DEF NextEpoch, Entries
<1> QED BY <1>1 DEF FenceIfEmptied, BringsNone

(* Pruning brings no evidence.                                             *)
LEMMA PruneBringsNone ==
  ASSUME NEW e \in Entries, NEW now \in Nat
  PROVE  BringsNone(e, Prune(e, now))
<1> DEFINE kept == [e EXCEPT !.expires = [l \in Leases |-> IF e.expires[l] > now THEN e.expires[l] ELSE 0],
                             !.draining = {l \in e.draining : e.expires[l] > now}]
<1>1. kept \in Entries /\ kept.lastPong = e.lastPong /\ kept.token = e.token /\ kept.epoch = e.epoch
  BY DEF Entries
<1>2. Prune(e, now) = FenceIfEmptied(NonDraining(e), kept, now)
  BY DEF Prune
<1> HIDE DEF kept
<1> QED BY <1>1, <1>2, FenceBringsNone

(* What a write made of a pruned record brings, the record did not have.   *)
LEMMA BringsNoneTwice ==
  ASSUME NEW e, NEW p, NEW f, BringsNone(e, p), BringsNone(p, f)
  PROVE  BringsNone(e, f)
BY DEF BringsNone

(* Registrations start without evidence or renew what is there.            *)
LEMMA RegisterBringsNone ==
  ASSUME NEW e \in Entries, NEW t, NEW l \in Leases, NEW now \in Nat
  PROVE  LET d == Register(e, t, l, now) IN d.write => BringsNone(e, d.entry)
<1> DEFINE p == Prune(e, now)
           renewed == [p EXCEPT !.expires[l] = now + LeaseDuration, !.draining = @ \ {l}]
           d == Register(e, t, l, now)
<1>1. p \in Entries /\ BringsNone(e, p)
  BY PruneType, PruneBringsNone
<1> HIDE DEF p
<1>2. \A r : NewEntry(t, l, now, r).lastPong = 0
  BY DEF NewEntry
<1>3. BringsNone(p, Renew(p, l, now))
  <2>1. now + LeaseDuration \in Nat
    BY LeaseDurationAssumption
  <2>2. renewed \in Entries /\ renewed.lastPong = p.lastPong /\ renewed.token = p.token /\ renewed.epoch = p.epoch
    BY <1>1, <2>1 DEF Entries
  <2>3. Renew(p, l, now) = IF Routable(p, now) = {} THEN NextEpoch(renewed) ELSE renewed
    BY DEF Renew
  <2> HIDE DEF renewed
  <2>4. NextEpoch(renewed).lastPong = 0
    BY <2>2 DEF NextEpoch, Entries
  <2> QED BY <2>2, <2>3, <2>4 DEF BringsNone
<1>4. BringsNone(e, Renew(p, l, now))
  BY <1>1, <1>3, BringsNoneTwice
<1>5. d.write => d.entry = p \/ d.entry = Renew(p, l, now) \/ \E r : d.entry = NewEntry(t, l, now, r)
  BY DEF Register, Write, Return, WriteIf, p
<1>6. ASSUME NEW r PROVE BringsNone(e, NewEntry(t, l, now, r))
  BY <1>2 DEF BringsNone
<1> QED BY <1>1, <1>4, <1>5, <1>6

(* Drains bring no evidence.                                               *)
LEMMA DrainBringsNone ==
  ASSUME NEW e \in Entries, NEW t, NEW l \in Leases, NEW now \in Nat, NEW settlement \in Nat
  PROVE  LET d == DrainProvider(e, t, l, now, settlement) IN d.write => BringsNone(e, d.entry)
<1> DEFINE until == IF e.expires[l] > now + settlement THEN e.expires[l] ELSE now + settlement
           drained == [e EXCEPT !.draining = @ \cup {l}, !.expires[l] = until]
           d == DrainProvider(e, t, l, now, settlement)
<1>1. until \in Nat
  BY DEF Entries
<1>2. d.write => d.entry = Prune(e, now) \/ d.entry = FenceIfEmptied(Routable(e, now), drained, now)
  BY DEF DrainProvider, Write, Return
<1> HIDE DEF until
<1>3. drained \in Entries /\ drained.lastPong = e.lastPong /\ drained.token = e.token /\ drained.epoch = e.epoch
  BY <1>1 DEF Entries
<1> HIDE DEF drained
<1> QED BY <1>2, <1>3, PruneBringsNone, FenceBringsNone

(* Releases bring no evidence.                                             *)
LEMMA ReleaseBringsNone ==
  ASSUME NEW e \in Entries, NEW t, NEW l \in Leases, NEW now \in Nat
  PROVE  LET d == ReleaseProvider(e, t, l, now) IN d.write => BringsNone(e, d.entry)
<1> DEFINE p == Prune(e, now)
           released == [p EXCEPT !.expires[l] = 0, !.draining = @ \ {l}]
           d == ReleaseProvider(e, t, l, now)
<1>1. p \in Entries /\ BringsNone(e, p)
  BY PruneType, PruneBringsNone
<1>2. d.write => d.entry = p \/ d.entry = FenceIfEmptied(Routable(p, now), released, now)
  BY DEF ReleaseProvider, Write, Return, WriteIf
<1> HIDE DEF p
<1>3. released \in Entries /\ released.lastPong = p.lastPong /\ released.token = p.token /\ released.epoch = p.epoch
  BY <1>1 DEF Entries
<1> HIDE DEF released
<1>4. BringsNone(e, FenceIfEmptied(Routable(p, now), released, now))
  BY <1>1, <1>3, FenceBringsNone, BringsNoneTwice
<1> QED BY <1>1, <1>2, <1>4

(* Retirements keep the evidence.                                          *)
LEMMA RetireBringsNone ==
  ASSUME NEW e \in Entries, NEW t
  PROVE  LET d == Retire(e, t) IN d.write => BringsNone(e, d.entry)
<1> DEFINE f == [e EXCEPT !.state = "retired", !.retired = @ \cup {e.token}]
<1>1. Retire(e, t).write => Retire(e, t).entry = f
  BY DEF Retire, Write, Return
<1>2. f.lastPong = e.lastPong /\ f.token = e.token /\ f.epoch = e.epoch
  BY DEF Entries
<1> HIDE DEF f
<1> QED BY <1>1, <1>2 DEF BringsNone

(* A pong brings evidence only to the identity it answers.                 *)
LEMMA PongBrings ==
  ASSUME NEW e \in Entries, NEW t, NEW l, NEW k, NEW now \in Nat
  PROVE  LET d == RecordPong(e, t, l, k, now) IN
         d.write => BringsNone(e, d.entry) \/ (d.entry.token = t /\ d.entry.epoch = k)
<1> DEFINE later == IF e.lastPong > now THEN e.lastPong ELSE now
           f == [e EXCEPT !.lastPong = later]
           d == RecordPong(e, t, l, k, now)
<1>1. d.write => d.entry = Prune(e, now) \/ (d.entry = f /\ e.token = t /\ e.epoch = k)
  BY DEF RecordPong, Write, Return
<1> HIDE DEF later
<1>2. f.token = e.token /\ f.epoch = e.epoch
  BY DEF Entries
<1> HIDE DEF f
<1> QED BY <1>1, <1>2, PruneBringsNone

(* A health lookup only prunes.                                            *)
LEMMA HealthBringsNone ==
  ASSUME NEW e \in Entries, NEW now \in Nat
  PROVE  LET d == HealthIdentity(e, now) IN d.write => BringsNone(e, d.entry)
BY PruneBringsNone DEF HealthIdentity, Return, WriteIf

(* Whatever a caller decides, evidence of the record it writes is the one  *)
(* it read, or that of the pong it carries.                                *)
LEMMA DecisionBrings ==
  ASSUME NEW call \in Loops({"decide"})
  PROVE  LET d == Decision(call) IN
         d.write => \/ BringsNone(call.raw, d.entry)
                    \/ call.req.op = "pong" /\ call.req.id = [token |-> d.entry.token, epoch |-> d.entry.epoch]
<1> DEFINE req == call.req
           e == call.raw
<1>1. req \in Requests(Identities) /\ call.now \in Nat /\ e \in Entries
  BY DEF Loops
<1>2. CASE req.op = "register"
  <2>1. req.lease \in Leases
    BY <1>1, <1>2 DEF Requests
  <2> QED BY <1>1, <1>2, <2>1, RegisterBringsNone DEF Decision
<1>3. CASE req.op = "drain"
  <2>1. req.lease \in Leases /\ req.settlement \in Nat
    BY <1>1, <1>3, CatalogAssumption DEF Requests
  <2> QED BY <1>1, <1>3, <2>1, DrainBringsNone DEF Decision
<1>4. CASE req.op = "release"
  <2>1. req.lease \in Leases
    BY <1>1, <1>4 DEF Requests
  <2> QED BY <1>1, <1>4, <2>1, ReleaseBringsNone DEF Decision
<1>5. CASE req.op = "retire"
  BY <1>1, <1>5, RetireBringsNone DEF Decision
<1>6. CASE req.op = "pong"
  <2>1. req.id \in Identities
    BY <1>1, <1>6 DEF Requests
  <2>2. req.id = [token |-> req.id.token, epoch |-> req.id.epoch]
    BY <2>1 DEF Identities
  <2>3. Decision(call) = RecordPong(e, req.id.token, req.lease, req.id.epoch, call.now)
    BY <1>6 DEF Decision
  <2> QED BY <1>1, <1>6, <2>2, <2>3, PongBrings
<1>7. CASE req.op \notin {"register", "drain", "release", "retire", "pong"}
  BY <1>1, <1>7, HealthBringsNone DEF Decision
<1> QED BY <1>2, <1>3, <1>4, <1>5, <1>6, <1>7

(* Every step keeps the evidence answered.                                 *)
LEMMA NextEvidence == IInv /\ EvidenceInv /\ [Next]_vars => EvidenceInv'
<1> SUFFICES ASSUME IInv, EvidenceInv, [Next]_vars PROVE EvidenceInv'
  OBVIOUS
<1>1. pings \subseteq pings'
  BY DEF Next, vars, Tick, Start, ReadTime, ReturnDecision, Replace, ReplaceFails, Fail, Conclude
<1>2. calls \in [Callers -> {Idle} \cup Loops({"read", "decide"})] /\ Idle.phase = "idle"
  BY DEF IInv, TypeOK, Idle
<1>3. ASSUME NEW c \in Callers PROVE AnswersPing(calls[c])'
  <2>1. CASE calls'[c] = calls[c] \/ calls'[c] = Idle
    BY <1>1, <1>2, <2>1 DEF EvidenceInv, AnswersPing
  <2>2. CASE calls'[c].phase # "idle" /\ calls'[c].req = calls[c].req /\ calls[c].phase # "idle"
    BY <1>1, <2>2 DEF EvidenceInv, AnswersPing
  <2>3. CASE \E req \in Requests(pings) : Start(c, req)
    <3>1. PICK req \in Requests(pings) : Start(c, req)
      BY <2>3
    <3>2. calls'[c].req = req /\ pings' = pings
      BY <1>2, <3>1 DEF Start
    <3>3. req.op = "pong" => req.id \in pings
      BY DEF Requests
    <3> QED BY <3>2, <3>3 DEF AnswersPing
  <2>4. ASSUME NEW b \in Callers, b # c,
               \/ \E req \in Requests(pings) : Start(b, req)
               \/ ReadTime(b) \/ ReturnDecision(b) \/ Replace(b) \/ ReplaceFails(b) \/ Fail(b)
        PROVE  calls'[c] = calls[c]
    BY <1>2, <2>4 DEF Start, ReadTime, ReturnDecision, Replace, ReplaceFails, Fail, Conclude
  <2>5. ASSUME ReadTime(c) \/ ReplaceFails(c)
        PROVE  calls'[c].phase # "idle" /\ calls'[c].req = calls[c].req /\ calls[c].phase # "idle"
    <3>1. calls[c] \in Loops({"read", "decide"})
      BY <1>2, <2>5 DEF ReadTime, ReplaceFails
    <3> QED BY <1>2, <2>5, <3>1 DEF ReadTime, ReplaceFails, Loops
  <2>6. ASSUME Replace(c)
        PROVE  \/ calls'[c] = Idle
               \/ calls'[c].phase # "idle" /\ calls'[c].req = calls[c].req /\ calls[c].phase # "idle"
    <3>1. calls[c] \in Loops({"read", "decide"})
      BY <1>2, <2>6 DEF Replace
    <3> QED BY <1>2, <2>6, <3>1 DEF Replace, Conclude, Loops
  <2>7. ReturnDecision(c) \/ Fail(c) => calls'[c] = Idle
    BY <1>2 DEF ReturnDecision, Fail, Conclude
  <2>8. Tick \/ UNCHANGED vars => calls'[c] = calls[c]
    BY DEF Tick, vars
  <2> QED BY <2>1, <2>2, <2>3, <2>4, <2>5, <2>6, <2>7, <2>8 DEF Next
<1>4. entry'.lastPong # 0 => [token |-> entry'.token, epoch |-> entry'.epoch] \in pings'
  <2>1. CASE entry' = entry
    BY <1>1, <2>1 DEF EvidenceInv
  <2>2. CASE entry' # entry
    <3>1. PICK c \in Callers : Replace(c)
      BY <2>2 DEF Next, vars, Tick, Start, ReadTime, ReturnDecision, ReplaceFails, Fail
    <3>2. calls[c] \in Loops({"decide"}) /\ entry = calls[c].raw
      BY <3>1 DEF Replace, IInv, TypeOK, Loops, Idle
    <3>3. entry' = Decision(calls[c]).entry /\ Decision(calls[c]).write /\ calls[c].phase = "decide"
      BY <3>1 DEF Replace
    <3>4. CASE BringsNone(entry, entry')
      BY <1>1, <3>4 DEF BringsNone, EvidenceInv
    <3>5. CASE calls[c].req.op = "pong" /\ calls[c].req.id = [token |-> entry'.token, epoch |-> entry'.epoch]
      BY <1>1, <3>3, <3>5 DEF EvidenceInv, AnswersPing
    <3> QED BY <3>2, <3>3, <3>4, <3>5, DecisionBrings
  <2> QED BY <2>1, <2>2
<1> QED BY <1>3, <1>4 DEF EvidenceInv

(* A recorded pong answers a ping sent to the membership the record has    *)
(* now, however late it came and whatever raced it.                        *)
THEOREM EvidenceSound == Spec => []EvidenceIsCurrent
<1>1. Init => EvidenceInv
  <2>1. Absent.lastPong = 0 /\ Idle.phase = "idle"
    BY DEF Absent, Idle
  <2> QED BY <2>1 DEF Init, EvidenceInv, AnswersPing
<1>2. IInv /\ EvidenceInv => EvidenceIsCurrent
  BY DEF IInv, Sound, EvidenceInv, EvidenceIsCurrent
<1> QED BY <1>1, <1>2, SpecInv, NextEvidence, PTL DEF Spec
=============================================================================
