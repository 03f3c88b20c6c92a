----------------------------- MODULE CallRecord -----------------------------
(***************************************************************************)
(* The record of one tool-use identity (an expiring Redis hash) and the    *)
(* Lua scripts that change it, each an atomic function of the record, the  *)
(* toolset's catalog entry and Redis TIME:                                 *)
(*   registry/call_decision.go   attach, ensure, reject                    *)
(*   registry/bounded_publish.go publication of the request                *)
(*   registry/call_admission.go  claim, complete, live events, overload,   *)
(*                               settlement                                *)
(* Redis stream IDs are numbers in append order (0: none).  Payloads,      *)
(* digests of results and the outcome_unknown payload retained with the    *)
(* record are represented by the terminal cause, which determines them.    *)
(***************************************************************************)
EXTENDS CatalogEntry

CONSTANTS
    NoLease,             \* the dispatch of a call no provider has claimed
    Digests,             \* identities of immutable requests
    NoDigest,
    ResultTTL,           \* retention of the record
    MaxToolOutputDeltas  \* live output events a call may publish

ASSUME CallRecordAssumption ==
    /\ NoLease \notin Leases
    /\ NoDigest \notin Digests
    /\ ResultTTL \in Nat \ {0}
    /\ MaxToolOutputDeltas \in Nat

UncertainCauses == {"execution_deadline", "provider_lease_lost", "provider_lease_released"}

Causes == {"none", "provider", "stale_admission"} \cup UncertainCauses

NotDispatched == [token |-> NoToken, lease |-> NoLease, event |-> 0]

Records ==
    [decision : {"none", "admitted", "rejected"},
     digest   : Digests \cup {NoDigest},
     token    : Tokens \cup {NoToken},      \* provider assignment
     deadline : Nat,                        \* execution deadline
     expires  : Nat,
     pub      : Nat,                        \* last request published, 0: unpublished
     claims   : SUBSET Nat,                 \* requests a provider may claim
     retried  : Nat,                        \* overload the last publication answers
     overload : Nat,                        \* last overload reported
     reported : SUBSET Nat,                 \* requests reported as overloaded
     dispatch : [token : Tokens \cup {NoToken}, lease : Leases \cup {NoLease}, event : Nat],
     terminal : Causes,
     deltas   : 0 .. MaxToolOutputDeltas]

NoRecord ==
    [decision |-> "none", digest |-> NoDigest, token |-> NoToken, deadline |-> 0, expires |-> 0,
     pub |-> 0, claims |-> {}, retried |-> 0, overload |-> 0, reported |-> {},
     dispatch |-> NotDispatched, terminal |-> "none", deltas |-> 0]

Published(r) == r.pub # 0
Dispatched(r) == r.dispatch # NotDispatched
Terminal(r) == r.terminal # "none"
Movable(r) == ~Published(r) /\ ~Terminal(r)

(* Redis drops the hash at its absolute expiration.                        *)
Retained(r, now) == r.decision # "none" /\ r.expires > now

(* The record's place in the contract with callers (ToolCallContract).     *)
Phase(r) ==
    IF r.decision \in {"none", "rejected"} THEN r.decision
    ELSE IF Terminal(r) THEN "settled"
    ELSE IF Dispatched(r) THEN "claimed"
    ELSE IF Published(r) THEN "published"
    ELSE "admitted"

Reply(r, result) == [record |-> r, result |-> result]

-----------------------------------------------------------------------------
(* Decisions *)

(* admitted_state_error: the admitted records attach does not refuse.      *)
AdmittedState(r) ==
    /\ r.token \in Tokens
    /\ r.expires > r.deadline
    /\ Published(r) => r.pub \in r.claims
    /\ Terminal(r) => Published(r)
    /\ r.deltas <= MaxToolOutputDeltas
    /\ r.retried <= r.overload
    /\ ~Published(r) => r.overload = 0 /\ ~Dispatched(r)
    /\ Dispatched(r) => /\ r.dispatch.token = r.token
                        /\ r.dispatch.event = r.pub

(* Mutant of Attach: another request of the identity is answered by it.    *)
AttachAnyDigest(r, digest) ==
    IF r.decision = "none" THEN "not_found"
    ELSE IF r.decision = "rejected" THEN "rejected"
    ELSE IF ~AdmittedState(r) THEN "invalid"
    ELSE IF Published(r) \/ Terminal(r) THEN "published"
    ELSE "unpublished"

Attach(r, digest) ==
    IF r.decision = "none" THEN "not_found"
    ELSE IF r.digest # digest THEN "conflict"
    ELSE IF r.decision = "rejected" THEN "rejected"
    ELSE IF ~AdmittedState(r) THEN "invalid"
    ELSE IF Published(r) \/ Terminal(r) THEN "published"
    ELSE "unpublished"

Ensure(r, digest, token, timeout, now) ==
    IF r.decision = "none"
    THEN Reply([NoRecord EXCEPT !.decision = "admitted", !.digest = digest, !.token = token,
                                !.deadline = now + timeout, !.expires = now + ResultTTL],
               "created")
    ELSE IF r.digest # digest THEN Reply(r, "conflict")
    ELSE IF r.decision = "rejected" THEN Reply(r, "rejected")
    ELSE IF Movable(r) THEN Reply([r EXCEPT !.token = token], "attach")
    ELSE Reply(r, "attach")

(* Mutant of Reject: a published call is rejected as well.                 *)
RejectPublished(r, digest, now) ==
    IF r.decision # "none" /\ r.digest # digest THEN Reply(r, "conflict")
    ELSE Reply([NoRecord EXCEPT !.decision = "rejected", !.digest = digest,
                                !.expires = now + ResultTTL],
               "rejected")

Reject(r, digest, now) ==
    IF r.decision # "none" /\ r.digest # digest THEN Reply(r, "conflict")
    ELSE IF r.decision = "rejected" THEN Reply(r, "rejected")
    ELSE IF r.decision = "admitted" /\ ~Movable(r) THEN Reply(r, "attach")
    ELSE Reply([NoRecord EXCEPT !.decision = "rejected", !.digest = digest,
                                !.expires = now + ResultTTL],
               "rejected")

-----------------------------------------------------------------------------
(* Publication: the append of request id and the change of the record are  *)
(* one script.  overload is 0 for the first publication.                   *)

(* Mutants of Publish: a published request is appended again; the toolset  *)
(* is not rechecked.                                                       *)
PublishAgain(r, e, digest, token, overload, full, id, now) ==
    IF r.decision # "admitted" \/ r.digest # digest \/ r.token # token THEN Reply(r, "changed")
    ELSE IF Terminal(r) THEN Reply(r, "duplicate")
    ELSE IF r.deadline <= now THEN Reply(r, "changed")
    ELSE IF e.state # "active" \/ e.token # token \/ Routable(e, now) = {}
         THEN Reply(r, "unroutable")
    ELSE IF full THEN Reply(r, "full")
    ELSE Reply([r EXCEPT !.pub = id, !.claims = @ \cup {id}, !.retried = overload], "published")

PublishWithoutRecheck(r, e, digest, token, overload, full, id, now) ==
    IF r.decision # "admitted" \/ r.digest # digest \/ r.token # token THEN Reply(r, "changed")
    ELSE IF Terminal(r) THEN Reply(r, "duplicate")
    ELSE IF (overload = 0 /\ Published(r)) \/ (overload # 0 /\ r.retried = overload)
         THEN Reply(r, "duplicate")
    ELSE IF r.deadline <= now THEN Reply(r, "changed")
    ELSE IF full THEN Reply(r, "full")
    ELSE Reply([r EXCEPT !.pub = id, !.claims = @ \cup {id}, !.retried = overload], "published")

Publish(r, e, digest, token, overload, full, id, now) ==
    IF r.decision # "admitted" \/ r.digest # digest \/ r.token # token THEN Reply(r, "changed")
    ELSE IF Terminal(r) THEN Reply(r, "duplicate")
    ELSE IF (overload = 0 /\ Published(r)) \/ (overload # 0 /\ r.retried = overload)
         THEN Reply(r, "duplicate")
    ELSE IF r.deadline <= now THEN Reply(r, "changed")
    ELSE IF e.state # "active" \/ e.token # token \/ Routable(e, now) = {}
         THEN Reply(r, "unroutable")
    ELSE IF full THEN Reply(r, "full")
    ELSE Reply([r EXCEPT !.pub = id, !.claims = @ \cup {id}, !.retried = overload], "published")

-----------------------------------------------------------------------------
(* Provider operations.  A provider presents its own admission token, its  *)
(* lease, and the event and call token of the request it holds.            *)
LeaseLive(e, token, l, now) == e.token = token /\ l \in Leases /\ e.expires[l] > now

Settle(r, cause) == [r EXCEPT !.terminal = cause]

Holds(r, token, l, event) == r.dispatch = [token |-> token, lease |-> l, event |-> event]

(* Mutants of Claim: a call already dispatched is granted again; a call of *)
(* an older admission is granted; any request is granted, whichever record *)
(* published it.                                                           *)
ClaimTaken(r, e, callToken, token, l, event, now) ==
    IF ~LeaseLive(e, token, l, now) THEN Reply(r, "lease_changed")
    ELSE IF r.decision = "none" THEN Reply(r, "expired")
    ELSE IF r.token # callToken \/ event \notin r.claims THEN Reply(r, "claim_changed")
    ELSE IF Terminal(r) THEN Reply(r, "terminal")
    ELSE IF r.deadline <= now THEN Reply(r, "expired")
    ELSE IF callToken # token THEN Reply(Settle(r, "stale_admission"), "terminal")
    ELSE Reply([r EXCEPT !.dispatch = [token |-> token, lease |-> l, event |-> event]], "execute")

ClaimStale(r, e, callToken, token, l, event, now) ==
    IF ~LeaseLive(e, token, l, now) THEN Reply(r, "lease_changed")
    ELSE IF r.decision = "none" THEN Reply(r, "expired")
    ELSE IF r.token # callToken \/ event \notin r.claims THEN Reply(r, "claim_changed")
    ELSE IF Terminal(r) THEN Reply(r, "terminal")
    ELSE IF r.deadline <= now THEN Reply(r, "expired")
    ELSE IF Dispatched(r) THEN Reply(r, "claimed")
    ELSE Reply([r EXCEPT !.dispatch = [token |-> token, lease |-> l, event |-> event]], "execute")

ClaimAnyRequest(r, e, callToken, token, l, event, now) ==
    IF ~LeaseLive(e, token, l, now) THEN Reply(r, "lease_changed")
    ELSE IF r.decision = "none" THEN Reply(r, "expired")
    ELSE IF r.token # callToken THEN Reply(r, "claim_changed")
    ELSE IF Terminal(r) THEN Reply(r, "terminal")
    ELSE IF r.deadline <= now THEN Reply(r, "expired")
    ELSE IF Dispatched(r) THEN Reply(r, "claimed")
    ELSE IF callToken # token THEN Reply(Settle(r, "stale_admission"), "terminal")
    ELSE Reply([r EXCEPT !.dispatch = [token |-> token, lease |-> l, event |-> event]], "execute")

Claim(r, e, callToken, token, l, event, now) ==
    IF ~LeaseLive(e, token, l, now) THEN Reply(r, "lease_changed")
    ELSE IF r.decision = "none" THEN Reply(r, "expired")
    ELSE IF r.token # callToken \/ event \notin r.claims THEN Reply(r, "claim_changed")
    ELSE IF Terminal(r) THEN Reply(r, "terminal")
    ELSE IF r.deadline <= now THEN Reply(r, "expired")
    ELSE IF Dispatched(r) THEN Reply(r, "claimed")
    ELSE IF callToken # token THEN Reply(Settle(r, "stale_admission"), "terminal")
    ELSE Reply([r EXCEPT !.dispatch = [token |-> token, lease |-> l, event |-> event]], "execute")

(* Mutant of Complete: a result replaces the terminal already committed.   *)
CompleteOver(r, e, callToken, token, l, event, now) ==
    IF r.token # callToken THEN Reply(r, "changed")
    ELSE IF ~LeaseLive(e, token, l, now) THEN Reply(r, "lease_changed")
    ELSE IF event \notin r.claims \/ r.expires <= now \/ ~Holds(r, token, l, event)
         THEN Reply(r, "changed")
    ELSE IF r.deadline <= now THEN Reply(Settle(r, "execution_deadline"), "committed")
    ELSE Reply(Settle(r, "provider"), "committed")

Complete(r, e, callToken, token, l, event, now) ==
    IF r.token # callToken THEN Reply(r, "changed")
    ELSE IF ~LeaseLive(e, token, l, now) THEN Reply(r, "lease_changed")
    ELSE IF event \notin r.claims \/ r.expires <= now \/ ~Holds(r, token, l, event)
         THEN Reply(r, "changed")
    ELSE IF r.terminal \in {"execution_deadline", "provider"} THEN Reply(r, "committed")
    ELSE IF Terminal(r) THEN Reply(r, "terminal_conflict")
    ELSE IF r.deadline <= now THEN Reply(Settle(r, "execution_deadline"), "committed")
    ELSE Reply(Settle(r, "provider"), "committed")

PublishLiveEvent(r, e, callToken, token, l, event, now) ==
    IF r.token # callToken THEN Reply(r, "changed")
    ELSE IF ~LeaseLive(e, token, l, now) THEN Reply(r, "lease_changed")
    ELSE IF event \notin r.claims \/ r.expires <= now THEN Reply(r, "changed")
    ELSE IF Terminal(r) \/ r.deadline <= now THEN Reply(r, "dropped")
    ELSE IF ~Holds(r, token, l, event) THEN Reply(r, "changed")
    ELSE IF r.deltas >= MaxToolOutputDeltas THEN Reply(r, "dropped")
    ELSE Reply([r EXCEPT !.deltas = @ + 1], "appended")

ReportOverload(r, e, callToken, token, l, event, id, now) ==
    IF ~LeaseLive(e, token, l, now) THEN Reply(r, "lease_changed")
    ELSE IF r.decision = "none" THEN Reply(r, "ignored")
    ELSE IF r.token # callToken \/ event \notin r.claims THEN Reply(r, "claim_changed")
    ELSE IF event \in r.reported \/ r.deadline <= now \/ Terminal(r) \/ Dispatched(r)
         THEN Reply(r, "ignored")
    ELSE IF callToken # token
         THEN Reply([Settle(r, "stale_admission") EXCEPT !.reported = @ \cup {event}], "terminal")
    ELSE Reply([r EXCEPT !.overload = id, !.reported = @ \cup {event}], "overloaded")

-----------------------------------------------------------------------------
(* Settlement of a claim found in the index.  cause is what the caller of  *)
(* the script records once the execution deadline has passed.              *)

(* Mutant of SettleLostClaim: a claim whose lease is live is forgotten.    *)
ForgetLiveClaim(r, e, cause, now) ==
    IF r.decision = "none" \/ Terminal(r) \/ ~Dispatched(r) \/ r.expires <= now
    THEN Reply(r, "forget")
    ELSE IF now < r.deadline /\ LeaseLive(e, r.dispatch.token, r.dispatch.lease, now)
         THEN Reply(r, "forget")
    ELSE IF now < r.deadline THEN Reply(Settle(r, "provider_lease_lost"), "settled")
    ELSE Reply(Settle(r, cause), "settled")

SettleLostClaim(r, e, cause, now) ==
    IF r.decision = "none" \/ Terminal(r) \/ ~Dispatched(r) \/ r.expires <= now
    THEN Reply(r, "forget")
    ELSE IF now < r.deadline /\ LeaseLive(e, r.dispatch.token, r.dispatch.lease, now)
         THEN Reply(r, "rescore")
    ELSE IF now < r.deadline THEN Reply(Settle(r, "provider_lease_lost"), "settled")
    ELSE Reply(Settle(r, cause), "settled")
=============================================================================
