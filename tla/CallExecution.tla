--------------------------- MODULE CallExecution ---------------------------
(***************************************************************************)
(* One tool-use identity from publication to its terminal result: the      *)
(* toolset's request stream, the provider processes that consume it        *)
(* (runtime/toolregistry/provider, Serve), the registry's handlers for     *)
(* their requests, overload retries (RetryTool) and the settlement of      *)
(* claims whose provider is gone (call_settlement.go).                     *)
(*                                                                         *)
(* The stream delivers an unacknowledged request again, to any provider:   *)
(* that, a lost reply, a crash, an expired lease and the expiration of the *)
(* call record meet a handler that must not run twice.  Catalog operations *)
(* and scripts are one step each; health, which a retry needs besides a    *)
(* routable provider, is left to chance.                                   *)
(***************************************************************************)
EXTENDS CallRecord, Sequences, FiniteSets

CONSTANTS
    AdmissionOf,        \* the registration token each provider presents
    Digest,             \* the identity's request
    ExecutionTimeout,
    Settlement,         \* shutdownTimeout + SettlementAuthorityMargin
    Faults,             \* what may go wrong besides the passing of time
    MaxTime,            \* bound on Redis TIME
    MaxRequests,        \* bound on the request stream
    MaxGeneration,      \* bound on the records the identity gets
    MaxHeld             \* bound on its requests inside one provider

ASSUME CallExecutionAssumption ==
    /\ AdmissionOf \in [Leases -> Tokens]
    /\ Digest \in Digests
    /\ ExecutionTimeout \in 1 .. (ResultTTL - 1)
    /\ Settlement \in Nat
    /\ Faults \subseteq {"crash", "lost_request", "lost_reply", "redelivery", "overload", "drain_error"}
    /\ {MaxTime, MaxRequests, MaxGeneration, MaxHeld} \subseteq Nat

VARIABLES
    clock,      \* Redis TIME
    entry,      \* the toolset's catalog record
    record,     \* the call record
    gen,        \* ghost: how many records the identity has had
    requests,   \* the request stream: [token, gen (ghost)], in append order
    unacked,    \* requests the consumer group has not acknowledged
    providers,  \* per lease: the state of the Serve loop that holds it
    work,       \* per lease: requests in the process, with their stage
    retries,    \* overloads RetryTool handlers are about to answer
    index,      \* score of the call in the settlement index, 0: not indexed
    scan,       \* a settlement scan: the call it found due, record read or missing
    effects     \* ghost: per record, how often a tool handler was started

vars == <<clock, entry, record, gen, requests, unacked, providers, work, retries, index, scan, effects>>

registryVars == <<record, gen, requests, retries, index, scan>>
providerVars == <<unacked, providers, work, effects>>

Stages == {"queued", "granted", "executing", "settled"}
Items == [event : 1 .. MaxRequests, stage : Stages]

(* "broken" and "failing" are "serving" and "draining" with an error that   *)
(* the stop will report instead of releasing the lease.                    *)
Modes == {"new", "serving", "broken", "draining", "failing", "released", "gone"}

TypeOK ==
    /\ clock \in Nat
    /\ entry \in Entries
    /\ record \in Records
    /\ gen \in 0 .. MaxGeneration
    /\ requests \in Seq([token : Tokens, gen : 1 .. MaxGeneration]) /\ Len(requests) <= MaxRequests
    /\ unacked \subseteq 1 .. Len(requests)
    /\ providers \in [Leases -> Modes]
    /\ work \in [Leases -> SUBSET Items]
    /\ retries \subseteq Nat
    /\ index \in Nat
    /\ scan \in {"none", "present", "missing"}
    /\ effects \in [1 .. MaxGeneration -> Nat]

Init ==
    /\ clock = 1
    /\ entry = Absent
    /\ record = NoRecord
    /\ gen = 0
    /\ requests = <<>>
    /\ unacked = {}
    /\ providers = [l \in Leases |-> "new"]
    /\ work = [l \in Leases |-> {}]
    /\ retries = {}
    /\ index = 0
    /\ scan = "none"
    /\ effects = [g \in 1 .. MaxGeneration |-> 0]

-----------------------------------------------------------------------------
(* Callers: admission (module CallRouting has its detail), publication and *)
(* overload retry.                                                         *)

(* The record Redis drops at its expiration leaves the indexes behind.     *)
Tick ==
    /\ clock < MaxTime
    /\ clock' = clock + 1
    /\ record' = IF Retained(record, clock') THEN record ELSE NoRecord
    /\ UNCHANGED <<entry, gen, requests, unacked, providers, work, retries, index, scan, effects>>

Admit ==
    /\ gen < MaxGeneration /\ clock + ExecutionTimeout <= MaxTime
    /\ entry.state = "active" /\ Routable(entry, clock) # {}
    /\ LET r == Ensure(record, Digest, entry.token, ExecutionTimeout, clock) IN
        /\ r.result = "created"
        /\ record' = r.record
    /\ gen' = gen + 1
    /\ UNCHANGED <<clock, entry, requests, retries, index, scan>> /\ UNCHANGED providerVars

Append1(overload) ==
    LET r == Publish(record, entry, Digest, record.token, overload, FALSE, Len(requests) + 1, clock)
    IN  /\ r.result = "published"
        /\ Len(requests) < MaxRequests
        /\ record' = r.record
        /\ requests' = Append(requests, [token |-> record.token, gen |-> gen])
        /\ unacked' = unacked \cup {Len(requests) + 1}

PublishCall ==
    /\ record.decision = "admitted"
    /\ Append1(0)
    /\ UNCHANGED <<clock, entry, gen, retries, index, scan, providers, work, effects>>

(* RetryTool attaches, checks that the admission is the active one, and    *)
(* waits out the retry delay before it publishes.                          *)
RetryTool ==
    /\ Attach(record, Digest) = "published" /\ ~Terminal(record)
    /\ entry.state = "active" /\ entry.token = record.token /\ Routable(entry, clock) # {}
    /\ record.overload # 0
    /\ retries' = retries \cup {record.overload}
    /\ UNCHANGED <<clock, entry, record, gen, requests, index, scan>> /\ UNCHANGED providerVars

PublishRetry(overload) ==
    /\ overload \in retries
    /\ retries' = retries \ {overload}
    /\ \/ Append1(overload)
       \/ /\ Publish(record, entry, Digest, record.token, overload, FALSE, 0, clock).result # "published"
          /\ UNCHANGED <<record, requests, unacked>>
    /\ UNCHANGED <<clock, entry, gen, index, scan, providers, work, effects>>

-----------------------------------------------------------------------------
(* Provider lifecycle *)

Serving(l) == providers[l] \in {"serving", "broken"}
Running(l) == Serving(l) \/ providers[l] \in {"draining", "failing"}

(* Epochs and pongs are the business of module Catalog.                    *)
CatalogStep(decision) ==
    /\ entry' = IF decision.write THEN [decision.entry EXCEPT !.epoch = 1, !.lastPong = 0] ELSE entry
    /\ UNCHANGED clock /\ UNCHANGED registryVars

(* bootstrapRegistration, and the renewals of superviseRegistration.       *)
RegisterProvider(l) ==
    /\ providers[l] = "new" \/ Serving(l)
    /\ LET d == Register(entry, AdmissionOf[l], l, clock) IN
        /\ d.result = "admitted"
        /\ CatalogStep(d)
    /\ providers' = [providers EXCEPT ![l] = IF @ = "new" THEN "serving" ELSE @]
    /\ UNCHANGED <<unacked, work, effects>>

(* finish: the lease stops routing before intake closes.                   *)
Stop(l) ==
    /\ Serving(l)
    /\ CatalogStep(DrainProvider(entry, AdmissionOf[l], l, clock, Settlement))
    /\ providers' = [providers EXCEPT ![l] = IF @ = "serving" THEN "draining" ELSE "failing"]
    /\ UNCHANGED <<unacked, work, effects>>

StopUndrained(l) ==
    /\ "drain_error" \in Faults
    /\ Serving(l)
    /\ providers' = [providers EXCEPT ![l] = "failing"]
    /\ UNCHANGED <<clock, entry, unacked, work, effects>> /\ UNCHANGED registryVars

(* Closing the sink or joining a worker or an acknowledgement takes longer  *)
(* than the shutdown timeout: they are cancelled and joined all the same.  *)
ShutdownTimesOut(l) ==
    /\ "drain_error" \in Faults
    /\ providers[l] = "draining"
    /\ providers' = [providers EXCEPT ![l] = "failing"]
    /\ UNCHANGED <<clock, entry, unacked, work, effects>> /\ UNCHANGED registryVars

(* The workers and the acknowledgements have been joined.                  *)
ReleaseLease(l) ==
    /\ providers[l] = "draining" /\ work[l] = {}
    /\ CatalogStep(ReleaseProvider(entry, AdmissionOf[l], l, clock))
    /\ providers' = [providers EXCEPT ![l] = "released"]
    /\ UNCHANGED <<unacked, work, effects>>

(* No release: a stop with an error, or a registry that died between the   *)
(* release and the settlement it owes.                                     *)
Exit(l) ==
    /\ work[l] = {}
    /\ providers[l] = "failing" \/ (providers[l] = "released" /\ "crash" \in Faults)
    /\ providers' = [providers EXCEPT ![l] = "gone"]
    /\ UNCHANGED <<clock, entry, unacked, work, effects>> /\ UNCHANGED registryVars

Crash(l) ==
    /\ "crash" \in Faults
    /\ Running(l)
    /\ providers' = [providers EXCEPT ![l] = "gone"]
    /\ work' = [work EXCEPT ![l] = {}]
    /\ UNCHANGED <<clock, entry, unacked, effects>> /\ UNCHANGED registryVars

-----------------------------------------------------------------------------
(* Requests in a provider.  message(item) is the request as published.     *)

message(event) == requests[event]

Move(l, item, stage) ==
    /\ work' = [work EXCEPT ![l] = (@ \ {item}) \cup {[item EXCEPT !.stage = stage]}]
    /\ UNCHANGED providers

Broken(l) == [providers EXCEPT ![l] = IF Serving(l) THEN "broken" ELSE "failing"]

(* signalSettleFailure: the item is dropped without an acknowledgement.    *)
FailWith(l, item) ==
    /\ work' = [work EXCEPT ![l] = @ \ {item}]
    /\ providers' = Broken(l)

Delivered(event) == \E l \in Leases : \E item \in work[l] : item.event = event

Deliverable(l, event) ==
    /\ Serving(l)
    /\ event \in unacked
    /\ "redelivery" \notin Faults => ~Delivered(event)
    /\ Cardinality(work[l]) < MaxHeld

(* The consumer group hands a request to a provider: the first time, or    *)
(* again once its acknowledgement is overdue.                              *)
Receive(l, event) ==
    /\ Deliverable(l, event)
    /\ work' = [work EXCEPT ![l] = @ \cup {[event |-> event, stage |-> "queued"]}]
    /\ UNCHANGED <<clock, entry, unacked, providers, effects>> /\ UNCHANGED registryVars

(* Scripts that commit a terminal take the call out of the index.          *)
IndexAfter(r) == IF Terminal(r) /\ ~Terminal(record) THEN 0 ELSE index

(* acceptEvent with the local queue full of other calls.                   *)
ReceiveOverloaded(l, event) ==
    /\ "overload" \in Faults
    /\ Deliverable(l, event)
    /\ LET item == [event |-> event, stage |-> "settled"]
           r == ReportOverload(record, entry, message(event).token, AdmissionOf[l], l, event,
                               Cardinality(record.reported) + 1, clock)
       IN  /\ record' = r.record
           /\ index' = IndexAfter(r.record)
           /\ IF r.result \in {"lease_changed", "claim_changed"}
              THEN /\ providers' = Broken(l)
                   /\ UNCHANGED work
              ELSE /\ work' = [work EXCEPT ![l] = @ \cup {item}]
                   /\ UNCHANGED providers
    /\ UNCHANGED <<clock, entry, gen, requests, unacked, retries, scan, effects>>

(* Claim's ZADD: the call is due when its deadline or its lease is over.   *)
SettlementScore(r, l) == IF r.deadline < entry.expires[l] THEN r.deadline ELSE entry.expires[l]

ClaimToolCall(l, item) ==
    /\ Running(l)
    /\ item \in work[l] /\ item.stage = "queued"
    /\ \E lost \in BOOLEAN :
        LET r == Claim(record, entry, message(item.event).token, AdmissionOf[l], l, item.event, clock)
        IN  /\ lost => "lost_reply" \in Faults
            /\ record' = r.record
            /\ index' = IF r.result = "execute" THEN SettlementScore(r.record, l) ELSE IndexAfter(r.record)
            /\ IF lost \/ r.result \in {"lease_changed", "claim_changed"} THEN FailWith(l, item)
               ELSE Move(l, item, IF r.result = "execute" THEN "granted" ELSE "settled")
    /\ UNCHANGED <<clock, entry, gen, requests, unacked, retries, scan, effects>>

(* The claim's reply arrives, however late: the handler starts.            *)
HandleToolCall(l, item) ==
    /\ Running(l)
    /\ item \in work[l] /\ item.stage = "granted"
    /\ effects' = [effects EXCEPT ![message(item.event).gen] = @ + 1]
    /\ Move(l, item, "executing")
    /\ UNCHANGED <<clock, entry, unacked>> /\ UNCHANGED registryVars

PublishOutputDelta(l, item) ==
    /\ Running(l)
    /\ item \in work[l] /\ item.stage = "executing"
    /\ record' = PublishLiveEvent(record, entry, message(item.event).token, AdmissionOf[l], l,
                                  item.event, clock).record
    /\ UNCHANGED <<clock, entry, gen, requests, retries, index, scan>> /\ UNCHANGED providerVars

(* The tool handler has returned, with a result or an error.               *)
CompleteToolCall(l, item) ==
    /\ Running(l)
    /\ item \in work[l] /\ item.stage = "executing"
    /\ \E lost \in BOOLEAN :
        LET r == Complete(record, entry, message(item.event).token, AdmissionOf[l], l, item.event, clock)
        IN  /\ lost => "lost_reply" \in Faults
            /\ record' = r.record
            /\ index' = IndexAfter(r.record)
            /\ IF lost \/ r.result # "committed" THEN FailWith(l, item)
               ELSE Move(l, item, "settled")
    /\ UNCHANGED <<clock, entry, gen, requests, unacked, retries, scan, effects>>

(* The request never reaches the registry, or the tool handler returned a  *)
(* result that is not valid.                                               *)
RequestFails(l, item) ==
    /\ "lost_request" \in Faults
    /\ Running(l)
    /\ item \in work[l] /\ item.stage \in {"queued", "executing"}
    /\ FailWith(l, item)
    /\ UNCHANGED <<clock, entry, unacked, effects>> /\ UNCHANGED registryVars

Acknowledge(l, item) ==
    /\ Running(l)
    /\ item \in work[l] /\ item.stage = "settled"
    /\ \/ /\ unacked' = unacked \ {item.event}
          /\ work' = [work EXCEPT ![l] = @ \ {item}]
          /\ UNCHANGED providers
       \/ /\ "lost_reply" \in Faults
          /\ FailWith(l, item)
          /\ UNCHANGED unacked
    /\ UNCHANGED <<clock, entry, effects>> /\ UNCHANGED registryVars

-----------------------------------------------------------------------------
(* Settlement of lost claims *)

(* SettleLostClaims reads the calls whose score is due, and of each the    *)
(* tool-use identity in its record ...                                     *)
ReadDueCalls ==
    /\ scan = "none"
    /\ index # 0 /\ index <= clock
    /\ scan' = IF record.decision = "none" THEN "missing" ELSE "present"
    /\ UNCHANGED <<clock, entry, record, gen, requests, retries, index>> /\ UNCHANGED providerVars

(* ... and settles it, unless another settlement or a completion removed   *)
(* it from the index meanwhile ...                                         *)
SettleClaim(cause) ==
    LET r == SettleLostClaim(record, entry, cause, clock) IN
        /\ record' = r.record
        /\ index' = IF r.result = "rescore" THEN SettlementScore(record, record.dispatch.lease) ELSE 0

SettleDueCall ==
    /\ scan = "present"
    /\ scan' = "none"
    /\ IF index = 0 THEN UNCHANGED <<record, index>> ELSE SettleClaim("execution_deadline")
    /\ UNCHANGED <<clock, entry, gen, requests, retries>> /\ UNCHANGED providerVars

(* ... or, when there was no record, drops the call from the index.  The   *)
(* script does not look at the record again.                               *)
CleanUpMissingCall ==
    /\ scan = "missing"
    /\ scan' = "none"
    /\ index' = 0
    /\ UNCHANGED <<clock, entry, record, gen, requests, retries>> /\ UNCHANGED providerVars

(* The registry dies between the read and the settlement.                  *)
ScanFails ==
    /\ "crash" \in Faults
    /\ scan # "none"
    /\ scan' = "none"
    /\ UNCHANGED <<clock, entry, record, gen, requests, retries, index>> /\ UNCHANGED providerVars

(* SettleLostClaimsForLease, after the release that the registry handled.  *)
SettleReleasedLease(l) ==
    /\ providers[l] = "released"
    /\ IF index # 0 /\ record.dispatch.lease = l THEN SettleClaim("provider_lease_released")
                                                 ELSE UNCHANGED <<record, index>>
    /\ providers' = [providers EXCEPT ![l] = "gone"]
    /\ UNCHANGED <<clock, entry, gen, requests, retries, scan, unacked, work, effects>>

-----------------------------------------------------------------------------
ProviderStep(l) ==
    \/ RegisterProvider(l) \/ Stop(l) \/ StopUndrained(l) \/ ShutdownTimesOut(l) \/ ReleaseLease(l)
    \/ Exit(l) \/ Crash(l)
    \/ \E event \in unacked : Receive(l, event) \/ ReceiveOverloaded(l, event)
    \/ \E item \in work[l] :
        \/ ClaimToolCall(l, item)
        \/ HandleToolCall(l, item)
        \/ PublishOutputDelta(l, item)
        \/ CompleteToolCall(l, item)
        \/ RequestFails(l, item)
        \/ Acknowledge(l, item)

SettleDue == ReadDueCalls \/ SettleDueCall \/ CleanUpMissingCall

Next ==
    \/ Tick
    \/ Admit
    \/ PublishCall
    \/ RetryTool
    \/ \E overload \in retries : PublishRetry(overload)
    \/ \E l \in Leases : ProviderStep(l) \/ SettleReleasedLease(l)
    \/ SettleDue
    \/ ScanFails

Spec == Init /\ [][Next]_vars

(* Time passes and the settlement tracker of some replica keeps running;   *)
(* a scan that fails is repeated (SF) and providers owe nothing.           *)
FairSpec ==
    /\ Spec
    /\ WF_vars(Tick)
    /\ WF_vars(ReadDueCalls)
    /\ SF_vars(SettleDueCall) /\ SF_vars(CleanUpMissingCall)

-----------------------------------------------------------------------------
(* A tool handler is started at most once for a record, whatever is        *)
(* redelivered, retried or lost (Claim is the only grant).                 *)
AtMostOnce == \A g \in 1 .. MaxGeneration : effects[g] <= 1

(* The request a call is claimed by was published by the same record: one  *)
(* left over from an expired record of the identity cannot run under the   *)
(* next (the claim:<event> fields).                                        *)
ClaimsOwnRequest == Dispatched(record) => message(record.dispatch.event).gen = gen

(* The terminal result of a record is final: settlement, completion and    *)
(* stale rejection race for it, and one wins.                              *)
TerminalIsFinal ==
    [][Terminal(record) => record'.terminal = record.terminal \/ record' = NoRecord]_vars

(* A provider of one admission never runs a call published to another.     *)
NoForeignExecution ==
    \A l \in Leases : \A item \in work[l] :
        item.stage \in {"granted", "executing"} =>
            message(item.event).token = AdmissionOf[l]

(* Every claim gets a result while its record is retained, though its      *)
(* provider crash, stall or lose its lease.                                *)
ClaimIsSettled ==
    \A g \in 1 .. MaxGeneration :
        (gen = g /\ Dispatched(record) /\ ~Terminal(record)) ~>
            (Terminal(record) \/ record = NoRecord \/ gen # g)

(* Publication to settlement is the contract with callers.                 *)
Contract == INSTANCE ToolCallContract WITH
    phase <- Phase(record),
    holder <- record.dispatch.lease,
    ran <- IF record.decision = "none" THEN 0 ELSE effects[gen]

ImplementsContract == Contract!Spec

(* "Exact retained calls replay": a caller that asks again is answered     *)
(* from the record as long as it is retained.                              *)
RetainedCallReplays == Published(record) => Attach(record, Digest) = "published"
=============================================================================
