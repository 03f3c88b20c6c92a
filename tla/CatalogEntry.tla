---------------------------- MODULE CatalogEntry ----------------------------
(***************************************************************************)
(* The admission record of one toolset (registry/catalog.go, catalogEntry) *)
(* and the pure functions the catalog's operations apply to it between the *)
(* exact read and the compare-and-swap.                                    *)
(*                                                                         *)
(* The record keeps what routing, settlement and health decide on.  A      *)
(* provider lease is an expiry (0: no lease, a value the parser refuses in *)
(* a stored record) and membership of "draining".  The discovery metadata  *)
(* (toolset, fingerprint, revision) is represented by the registration     *)
(* token the code derives from it.                                         *)
(***************************************************************************)
EXTENDS Integers

CONSTANTS
    Tokens,          \* registration tokens, one per schema and revision
    NoToken,         \* the token of a record that does not exist
    Leases,          \* provider lease keys: provider id and incarnation id
    LeaseDuration    \* the registry's provider lease duration

ASSUME TokenAssumption == NoToken \notin Tokens
ASSUME LeaseDurationAssumption == LeaseDuration \in Nat \ {0}

Entries ==
    [state    : {"absent", "active", "retired"},
     token    : Tokens \cup {NoToken},
     expires  : [Leases -> Nat],
     draining : SUBSET Leases,
     retired  : SUBSET Tokens,
     epoch    : Nat,
     lastPong : Nat]

Absent ==
    [state |-> "absent", token |-> NoToken, expires |-> [l \in Leases |-> 0],
     draining |-> {}, retired |-> {}, epoch |-> 0, lastPong |-> 0]

-----------------------------------------------------------------------------
(* Lease membership *)

Held(e) == {l \in Leases : e.expires[l] > 0}

Expired(e, now) == {l \in Held(e) : e.expires[l] <= now}

NonDraining(e) == Held(e) \ e.draining

Routable(e, now) == {l \in NonDraining(e) : e.expires[l] > now}

(* Pongs carry the epoch they answer: advancing it fences the earlier ones. *)
NextEpoch(e) == [e EXCEPT !.epoch = @ + 1, !.lastPong = 0]

(* The last routable member of "members" is gone from e. *)
FenceIfEmptied(members, e, now) ==
    IF members # {} /\ Routable(e, now) = {} THEN NextEpoch(e) ELSE e

Prune(e, now) ==
    FenceIfEmptied(NonDraining(e),
        [e EXCEPT !.expires = [l \in Leases |-> IF e.expires[l] > now THEN e.expires[l] ELSE 0],
                  !.draining = {l \in e.draining : e.expires[l] > now}],
        now)

(* Group health: a fresh pong of the current epoch and a routable lease.   *)
Healthy(e, now, threshold) ==
    /\ e.state = "active"
    /\ Routable(e, now) # {}
    /\ e.lastPong # 0
    /\ now - e.lastPong <= threshold

(* parseCatalogEntry: the stored records the registry does not refuse.     *)
Accepted(e) ==
    /\ e.state \in {"active", "retired"}
    /\ e.token \in Tokens
    /\ e.epoch > 0
    /\ e.draining \subseteq Held(e)
    /\ (e.state = "active") <=> (e.token \notin e.retired)

-----------------------------------------------------------------------------
(* What each operation does with the record it read and the time it read:  *)
(* whether it attempts a CAS, the record it would write, and its result.   *)

Write(e, result) == [write |-> TRUE, entry |-> e, result |-> result]
Return(e, result) == [write |-> FALSE, entry |-> e, result |-> result]
WriteIf(changed, e, result) == [write |-> changed, entry |-> e, result |-> result]

NewEntry(t, l, now, retired) ==
    [state |-> "active", token |-> t,
     expires |-> [k \in Leases |-> IF k = l THEN now + LeaseDuration ELSE 0],
     draining |-> {}, retired |-> retired, epoch |-> 1, lastPong |-> 0]

(* Mutant of Renew: a membership that starts again keeps its epoch.        *)
RenewSameEpoch(e, l, now) ==
    [e EXCEPT !.expires[l] = now + LeaseDuration, !.draining = @ \ {l}]

Renew(e, l, now) ==
    LET renewed == [e EXCEPT !.expires[l] = now + LeaseDuration, !.draining = @ \ {l}]
    IN  IF Routable(e, now) = {} THEN NextEpoch(renewed) ELSE renewed

(* Mutants of Register: tombstones are not consulted; a replacement does   *)
(* not wait for the other admission's leases; a missing record is treated  *)
(* as one to replace.                                                      *)
RegisterIgnoringTombstones(e, t, l, now) ==
    LET p == Prune(e, now)
    IN  IF e.state = "absent" THEN Write(NewEntry(t, l, now, {}), "admitted")
        ELSE IF p.token = t THEN Write(Renew(p, l, now), "admitted")
        ELSE IF Held(p) # {} THEN WriteIf(Expired(e, now) # {}, p, "blocked")
        ELSE Write(NewEntry(t, l, now, p.retired \cup {p.token}), "admitted")

RegisterWithoutWaiting(e, t, l, now) ==
    LET p == Prune(e, now)
    IN  IF e.state = "absent" THEN Write(NewEntry(t, l, now, {}), "admitted")
        ELSE IF t \in p.retired THEN Return(e, "retired")
        ELSE IF p.token = t THEN Write(Renew(p, l, now), "admitted")
        ELSE Write(NewEntry(t, l, now, p.retired \cup {p.token}), "admitted")

RegisterOverMissing(e, t, l, now) ==
    LET p == Prune(e, now)
    IN  IF t \in p.retired THEN Return(e, "retired")
        ELSE IF p.token = t THEN Write(Renew(p, l, now), "admitted")
        ELSE IF Held(p) # {} THEN WriteIf(Expired(e, now) # {}, p, "blocked")
        ELSE Write(NewEntry(t, l, now, p.retired \cup {p.token}), "admitted")

Register(e, t, l, now) ==
    LET p == Prune(e, now)
    IN  IF e.state = "absent" THEN Write(NewEntry(t, l, now, {}), "admitted")
        ELSE IF t \in p.retired THEN Return(e, "retired")
        ELSE IF p.token = t THEN Write(Renew(p, l, now), "admitted")
        ELSE IF Held(p) # {} THEN WriteIf(Expired(e, now) # {}, p, "blocked")
        ELSE Write(NewEntry(t, l, now, p.retired \cup {p.token}), "admitted")

DrainProvider(e, t, l, now, settlement) ==
    LET until == IF e.expires[l] > now + settlement THEN e.expires[l] ELSE now + settlement
        drained == [e EXCEPT !.draining = @ \cup {l}, !.expires[l] = until]
    IN  IF e.state = "absent" \/ e.token # t \/ l \notin Held(e) THEN Return(e, "done")
        ELSE IF l \in Expired(e, now) THEN Write(Prune(e, now), "done")
        ELSE Write(FenceIfEmptied(Routable(e, now), drained, now), "done")

ReleaseProvider(e, t, l, now) ==
    LET p == Prune(e, now)
        released == [p EXCEPT !.expires[l] = 0, !.draining = @ \ {l}]
    IN  IF e.state = "absent" \/ e.token # t THEN Return(e, "done")
        ELSE IF l \notin Held(p) THEN WriteIf(Expired(e, now) # {}, p, "done")
        ELSE Write(FenceIfEmptied(Routable(p, now), released, now), "done")

(* Mutant of Retire: the state changes, the tombstone is forgotten.        *)
RetireWithoutTombstone(e, t) ==
    IF e.state = "absent" THEN Return(e, "done")
    ELSE IF e.token # t THEN Return(e, "conflict")
    ELSE IF e.state = "retired" THEN Return(e, "done")
    ELSE Write([e EXCEPT !.state = "retired"], "done")

Retire(e, t) ==
    IF e.state = "absent" THEN Return(e, "done")
    ELSE IF e.token # t THEN Return(e, "conflict")
    ELSE IF e.state = "retired" THEN Return(e, "done")
    ELSE Write([e EXCEPT !.state = "retired", !.retired = @ \cup {e.token}], "done")

(* Mutant of RecordPong: any pong of the admission is evidence.            *)
RecordPongAnyEpoch(e, t, l, epoch, now) ==
    LET p == Prune(e, now)
        later == IF e.lastPong > now THEN e.lastPong ELSE now
        current == e.state = "active" /\ e.token = t
    IN  IF e.state = "absent" THEN Return(e, "done")
        ELSE IF Expired(e, now) # {} THEN Write(p, IF Held(p) = {} THEN "done" ELSE "again")
        ELSE IF ~current \/ l \notin Routable(e, now) THEN Return(e, "done")
        ELSE Write([e EXCEPT !.lastPong = later], "done")

(* Expired leases are pruned by a CAS of their own; the pong then goes on  *)
(* from the pruned record with the same time ("again").                    *)
RecordPong(e, t, l, epoch, now) ==
    LET p == Prune(e, now)
        later == IF e.lastPong > now THEN e.lastPong ELSE now
        current == e.state = "active" /\ e.token = t /\ e.epoch = epoch
    IN  IF e.state = "absent" THEN Return(e, "done")
        ELSE IF Expired(e, now) # {} THEN Write(p, IF Held(p) = {} THEN "done" ELSE "again")
        ELSE IF ~current \/ l \notin Routable(e, now) THEN Return(e, "done")
        ELSE Write([e EXCEPT !.lastPong = later], "done")

(* healthEntry: prune, then report the identity pings must carry.          *)
HealthIdentity(e, now) ==
    LET p == Prune(e, now)
        found == IF Routable(p, now) = {} THEN "not_found" ELSE "identity"
    IN  IF e.state # "active" THEN Return(e, "not_found")
        ELSE WriteIf(Expired(e, now) # {}, p, found)
=============================================================================
