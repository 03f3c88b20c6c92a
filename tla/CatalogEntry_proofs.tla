------------------------ MODULE CatalogEntry_proofs ------------------------
(***************************************************************************)
(* Lemmas about the operations on one catalog record, for the proofs of    *)
(* every module that keeps one: each maps a well formed record to a well   *)
(* formed record, and none leaves a toolset without its token.             *)
(***************************************************************************)
EXTENDS CatalogEntry, TLAPS

(* The initial, missing record is well formed.                             *)
LEMMA AbsentType == Absent \in Entries
  BY TokenAssumption DEF Absent, Entries

(* Advancing the epoch keeps a record well formed.                         *)
LEMMA NextEpochType == ASSUME NEW e \in Entries PROVE NextEpoch(e) \in Entries
<1>1. e.epoch + 1 \in Nat
  BY DEF Entries
<1> QED BY <1>1 DEF NextEpoch, Entries

(* Fencing keeps a record well formed.                                     *)
LEMMA FenceType ==
  ASSUME NEW e \in Entries, NEW members, NEW now
  PROVE  FenceIfEmptied(members, e, now) \in Entries
  BY NextEpochType DEF FenceIfEmptied

(* Pruning keeps a record well formed.                                     *)
LEMMA PruneType ==
  ASSUME NEW e \in Entries, NEW now \in Nat
  PROVE  Prune(e, now) \in Entries
<1> DEFINE kept == [e EXCEPT !.expires = [l \in Leases |-> IF e.expires[l] > now THEN e.expires[l] ELSE 0],
                             !.draining = {l \in e.draining : e.expires[l] > now}]
<1>1. kept \in Entries
  BY DEF Entries
<1> QED BY <1>1, FenceType DEF Prune

(* A freshly admitted record is well formed.                               *)
LEMMA NewEntryType ==
  ASSUME NEW t \in Tokens, NEW l \in Leases, NEW now \in Nat, NEW retired \in SUBSET Tokens
  PROVE  NewEntry(t, l, now, retired) \in Entries
  BY LeaseDurationAssumption DEF NewEntry, Entries

(* Renewing a lease keeps a record well formed.                            *)
LEMMA RenewType ==
  ASSUME NEW e \in Entries, NEW l \in Leases, NEW now \in Nat
  PROVE  Renew(e, l, now) \in Entries
<1> DEFINE renewed == [e EXCEPT !.expires[l] = now + LeaseDuration, !.draining = @ \ {l}]
<1>1. now + LeaseDuration \in Nat
  BY LeaseDurationAssumption
<1>2. renewed \in Entries
  BY <1>1 DEF Entries
<1> QED BY <1>2, NextEpochType DEF Renew

(* Register decides on a well formed record.                               *)
LEMMA RegisterType ==
  ASSUME NEW e \in Entries, NEW t \in Tokens, NEW l \in Leases, NEW now \in Nat,
         e.state # "absent" => e.token \in Tokens
  PROVE  Register(e, t, l, now).entry \in Entries
<1> DEFINE p == Prune(e, now)
<1>1. p \in Entries
  BY PruneType
<1>2. p.token = e.token /\ p.retired \in SUBSET Tokens
  BY <1>1 DEF Prune, FenceIfEmptied, NextEpoch, Entries
<1>3. e.state # "absent" => p.retired \cup {p.token} \in SUBSET Tokens
  BY <1>2
<1> QED BY <1>1, <1>3, NewEntryType, RenewType DEF Register, Write, Return, WriteIf

(* DrainProvider decides on a well formed record.                          *)
LEMMA DrainType ==
  ASSUME NEW e \in Entries, NEW t, NEW l \in Leases, NEW now \in Nat, NEW s \in Nat
  PROVE  DrainProvider(e, t, l, now, s).entry \in Entries
<1> DEFINE until == IF e.expires[l] > now + s THEN e.expires[l] ELSE now + s
           drained == [e EXCEPT !.draining = @ \cup {l}, !.expires[l] = until]
<1>1. until \in Nat
  BY DEF Entries
<1> HIDE DEF until
<1>2. drained \in Entries
  BY <1>1 DEF Entries
<1> USE DEF until
<1> QED BY <1>2, PruneType, FenceType DEF DrainProvider, Write, Return

(* ReleaseProvider decides on a well formed record.                        *)
LEMMA ReleaseType ==
  ASSUME NEW e \in Entries, NEW t, NEW l \in Leases, NEW now \in Nat
  PROVE  ReleaseProvider(e, t, l, now).entry \in Entries
<1> DEFINE p == Prune(e, now)
           released == [p EXCEPT !.expires[l] = 0, !.draining = @ \ {l}]
<1>1. p \in Entries
  BY PruneType
<1>2. released \in Entries
  BY <1>1 DEF Entries
<1> QED BY <1>1, <1>2, FenceType DEF ReleaseProvider, Write, Return, WriteIf

(* Retire decides on a well formed record.                                 *)
LEMMA RetireType ==
  ASSUME NEW e \in Entries, NEW t, e.state # "absent" => e.token \in Tokens
  PROVE  Retire(e, t).entry \in Entries
  BY DEF Retire, Write, Return, Entries

(* RecordPong decides on a well formed record.                             *)
LEMMA PongType ==
  ASSUME NEW e \in Entries, NEW t, NEW l, NEW k, NEW now \in Nat
  PROVE  RecordPong(e, t, l, k, now).entry \in Entries
<1>1. ASSUME NEW x \in Nat PROVE [e EXCEPT !.lastPong = x] \in Entries
  BY DEF Entries
<1>2. (IF e.lastPong > now THEN e.lastPong ELSE now) \in Nat
  BY DEF Entries
<1> QED BY <1>1, <1>2, PruneType DEF RecordPong, Write, Return

(* HealthIdentity decides on a well formed record.                         *)
LEMMA HealthType ==
  ASSUME NEW e \in Entries, NEW now \in Nat
  PROVE  HealthIdentity(e, now).entry \in Entries
  BY PruneType DEF HealthIdentity, Return, WriteIf

-----------------------------------------------------------------------------
(* A record that exists names the admission that owns the toolset.         *)
Named(e) == e \in Entries /\ (e.state # "absent" => e.token \in Tokens)

(* Pruning touches neither state nor token.                                *)
LEMMA PruneOwner ==
  ASSUME NEW e \in Entries, NEW now
  PROVE  Prune(e, now).state = e.state /\ Prune(e, now).token = e.token
  BY DEF Prune, FenceIfEmptied, NextEpoch, Entries

(* Register leaves the toolset with an owner.                              *)
LEMMA RegisterNamed ==
  ASSUME NEW e, Named(e), NEW t \in Tokens, NEW l \in Leases, NEW now \in Nat
  PROVE  Named(Register(e, t, l, now).entry)
<1> DEFINE p == Prune(e, now)
<1>1. Register(e, t, l, now).entry \in Entries
  BY RegisterType DEF Named
<1>2. p \in Entries /\ p.token = e.token /\ p.state = e.state
  BY PruneType, PruneOwner DEF Named
<1>3. Renew(p, l, now).token = p.token
  BY <1>2 DEF Renew, NextEpoch, Entries
<1>4. \A r : NewEntry(t, l, now, r).token = t
  BY DEF NewEntry
<1> HIDE DEF p
<1> QED BY <1>1, <1>2, <1>3, <1>4 DEF Register, Write, Return, WriteIf, Named, p

(* DrainProvider keeps the owner.                                          *)
LEMMA DrainNamed ==
  ASSUME NEW e, Named(e), NEW t, NEW l \in Leases, NEW now \in Nat, NEW s \in Nat
  PROVE  Named(DrainProvider(e, t, l, now, s).entry)
<1>1. DrainProvider(e, t, l, now, s).entry \in Entries
  BY DrainType DEF Named
<1>2. Prune(e, now).state = e.state /\ Prune(e, now).token = e.token
  BY PruneOwner DEF Named
<1>3. DrainProvider(e, t, l, now, s).entry.token = e.token
  BY <1>2 DEF DrainProvider, Write, Return, FenceIfEmptied, NextEpoch, Entries, Named
<1>4. DrainProvider(e, t, l, now, s).entry.state = e.state
  BY <1>2 DEF DrainProvider, Write, Return, FenceIfEmptied, NextEpoch, Entries, Named
<1> QED BY <1>1, <1>3, <1>4 DEF Named

(* ReleaseProvider keeps the owner.                                        *)
LEMMA ReleaseNamed ==
  ASSUME NEW e, Named(e), NEW t, NEW l \in Leases, NEW now \in Nat
  PROVE  Named(ReleaseProvider(e, t, l, now).entry)
<1> DEFINE p == Prune(e, now)
<1>1. ReleaseProvider(e, t, l, now).entry \in Entries
  BY ReleaseType DEF Named
<1>2. p \in Entries /\ p.state = e.state /\ p.token = e.token
  BY PruneOwner, PruneType DEF Named
<1> HIDE DEF p
<1>3. ReleaseProvider(e, t, l, now).entry.token = e.token
  BY <1>2 DEF ReleaseProvider, Write, Return, WriteIf, FenceIfEmptied, NextEpoch, Entries, p
<1>4. ReleaseProvider(e, t, l, now).entry.state = e.state
  BY <1>2 DEF ReleaseProvider, Write, Return, WriteIf, FenceIfEmptied, NextEpoch, Entries, p
<1> QED BY <1>1, <1>3, <1>4 DEF Named

(* Retire keeps the owner.                                                 *)
LEMMA RetireNamed ==
  ASSUME NEW e, Named(e), NEW t
  PROVE  Named(Retire(e, t).entry)
<1>1. Retire(e, t).entry \in Entries
  BY RetireType DEF Named
<1>2. Retire(e, t).entry.token = e.token
  BY DEF Retire, Write, Return, Entries, Named
<1>3. e.state = "absent" => Retire(e, t).entry = e
  BY DEF Retire, Return
<1> QED BY <1>1, <1>2, <1>3 DEF Named

(* RecordPong keeps the owner.                                             *)
LEMMA PongNamed ==
  ASSUME NEW e, Named(e), NEW t, NEW l, NEW k, NEW now \in Nat
  PROVE  Named(RecordPong(e, t, l, k, now).entry)
<1>1. RecordPong(e, t, l, k, now).entry \in Entries
  BY PongType DEF Named
<1>2. Prune(e, now).state = e.state /\ Prune(e, now).token = e.token
  BY PruneOwner DEF Named
<1>3. RecordPong(e, t, l, k, now).entry.token = e.token
  BY <1>2 DEF RecordPong, Write, Return, Entries, Named
<1>4. RecordPong(e, t, l, k, now).entry.state = e.state
  BY <1>2 DEF RecordPong, Write, Return, Entries, Named
<1> QED BY <1>1, <1>3, <1>4 DEF Named

(* HealthIdentity keeps the owner.                                         *)
LEMMA HealthNamed ==
  ASSUME NEW e, Named(e), NEW now \in Nat
  PROVE  Named(HealthIdentity(e, now).entry)
<1>1. Prune(e, now).state = e.state /\ Prune(e, now).token = e.token
  BY PruneOwner DEF Named
<1> QED BY <1>1, HealthType DEF HealthIdentity, Return, WriteIf, Named
=============================================================================
