---------------------------- MODULE CallRouting ----------------------------
(***************************************************************************)
(* Routing of one tool-use identity (registry/service.go, CallTool): the   *)
(* handlers that race to admit, publish or reject the same call, on any    *)
(* replica, while the toolset's admissions change under them.              *)
(*                                                                         *)
(* A handler is a sequence of Redis operations, each one step: attach, the *)
(* active registration, the health of that registration, ensure, attach    *)
(* again, publish, and the rejection any of them may lead to.  Time passes *)
(* and admissions change between any two.  Catalog operations, whose       *)
(* compare-and-swap loops module Catalog checks, are one step here, and    *)
(* the clocks of the registry are Redis TIME.                              *)
(***************************************************************************)
EXTENDS CallRecord, Sequences

CONSTANTS
    Handlers,            \* CallTool invocations in flight
    AdmissionOf,         \* the registration token each provider presents
    Accepts,             \* tokens whose schema accepts the call's payload
    ExecutionTimeout,    \* the registry's tool execution timeout
    StalenessThreshold,  \* age of a pong that still proves health
    Faults,              \* the failures of handlers that may happen
    MaxTime,             \* bound on Redis TIME
    MaxGeneration        \* bound on the records one identity may get

ASSUME CallRoutingAssumption ==
    /\ AdmissionOf \in [Leases -> Tokens]
    /\ Accepts \subseteq Tokens
    /\ ExecutionTimeout \in 1 .. (ResultTTL - 1)
    /\ StalenessThreshold \in Nat
    /\ Faults \subseteq {"catalog", "handler"}
    /\ MaxTime \in Nat
    /\ MaxGeneration \in Nat

VARIABLES
    clock,      \* Redis TIME
    entry,      \* the toolset's catalog record
    record,     \* the call record of the identity
    gen,        \* ghost: how many records the identity has had
    requests,   \* the toolset's request stream: [token, gen], in append order
    handlers,
    answers     \* ghost: decisions returned to callers: [gen, digest, token]

vars == <<clock, entry, record, gen, requests, handlers, answers>>

RejectionCauses == {"not_found", "validation_error", "service_unavailable"}

Idle == [pc |-> "idle", digest |-> NoDigest, deadline |-> 0, token |-> NoToken,
         timeout |-> 0, cause |-> "none", gen |-> 0]

HandlerStates ==
    [pc : {"idle", "enter", "lookup", "health", "wait", "ensure", "ensured", "publish",
           "opened", "reject", "refused"},
     digest : Digests \cup {NoDigest},
     deadline : Nat,                        \* of this handler's wait
     token : Tokens \cup {NoToken},         \* the registration it validated or admitted
     timeout : Nat,                         \* what was left when health was proved
     cause : RejectionCauses \cup {"none"},
     gen : Nat]                             \* ghost: the record it published

(* The answer of a rejected call has no token.                             *)
Answers == [gen : Nat, digest : Digests, token : Tokens \cup {NoToken}]

TypeOK ==
    /\ clock \in Nat
    /\ entry \in Entries
    /\ record \in Records
    /\ gen \in Nat
    /\ requests \in Seq([token : Tokens, gen : Nat])
    /\ handlers \in [Handlers -> HandlerStates]
    /\ answers \subseteq Answers

Init ==
    /\ clock = 1
    /\ entry = Absent
    /\ record = NoRecord
    /\ gen = 0
    /\ requests = <<>>
    /\ handlers = [h \in Handlers |-> Idle]
    /\ answers = {}

-----------------------------------------------------------------------------
(* The environment: the catalog and time. *)

(* Module Catalog counts the epochs; here a pong answers the current one,  *)
(* the others change nothing.                                              *)
Stored(e) == IF e.state = "absent" THEN e ELSE [e EXCEPT !.epoch = 1]

CatalogStep(decision) ==
    /\ decision.write
    /\ entry' = Stored(decision.entry)
    /\ UNCHANGED <<clock, record, gen, requests, handlers, answers>>

RegisterProvider(l) == CatalogStep(Register(entry, AdmissionOf[l], l, clock))

Drain(l) == l \notin entry.draining /\ CatalogStep(DrainProvider(entry, AdmissionOf[l], l, clock, 1))

Release(l) == CatalogStep(ReleaseProvider(entry, AdmissionOf[l], l, clock))

Unregister(t) == CatalogStep(Retire(entry, t))

Pong(l) == CatalogStep(RecordPong(entry, AdmissionOf[l], l, entry.epoch, clock))

(* Redis drops the record at its expiration: the identity is new again.    *)
Tick ==
    /\ clock < MaxTime
    /\ clock' = clock + 1
    /\ record' = IF Retained(record, clock') THEN record ELSE NoRecord
    /\ UNCHANGED <<entry, gen, requests, handlers, answers>>

-----------------------------------------------------------------------------
(* Handlers *)

Goto(h, pc) == handlers' = [handlers EXCEPT ![h].pc = pc]

RejectWith(h, cause) == handlers' = [handlers EXCEPT ![h].pc = "reject", ![h].cause = cause]

Finish(h) == handlers' = [handlers EXCEPT ![h] = Idle]

(* The caller learns the decision of record g.                             *)
Answer(h, g, token) ==
    /\ answers' = answers \cup {[gen |-> g, digest |-> handlers[h].digest, token |-> token]}
    /\ Finish(h)

ReturnError(h) == Finish(h) /\ UNCHANGED answers

(* CallTool up to its first decision: a published call is replayed before  *)
(* any routing; a new one gets its deadline after the lookup.              *)
CallTool(h, digest) ==
    /\ handlers[h].pc = "idle"
    /\ clock + ExecutionTimeout <= MaxTime /\ record.deadline <= MaxTime
    /\ LET found == Attach(record, digest)
           route(deadline) ==
               /\ handlers' = [handlers EXCEPT ![h] =
                      [Idle EXCEPT !.pc = "enter", !.digest = digest, !.deadline = deadline]]
               /\ UNCHANGED answers
       IN  \/ found = "not_found" /\ gen < MaxGeneration /\ route(clock + ExecutionTimeout)
           \/ found = "unpublished" /\ route(record.deadline)
           \/ found \in {"published", "rejected"}
              /\ answers' = answers \cup {[gen |-> gen, digest |-> digest, token |-> record.token]}
              /\ UNCHANGED handlers
    /\ UNCHANGED <<clock, entry, record, gen, requests>>

(* waitForHealthyProvider, entered again after every lost publication.     *)
EnterWait(h) ==
    /\ handlers[h].pc = "enter"
    /\ IF handlers[h].deadline <= clock THEN RejectWith(h, "service_unavailable")
                                        ELSE Goto(h, "lookup")
    /\ UNCHANGED <<clock, entry, record, gen, requests, answers>>

(* activeRegistration, and the validation of the payload against it.       *)
LookUpRegistration(h) ==
    /\ handlers[h].pc = "lookup"
    /\ IF entry.state # "active" THEN RejectWith(h, "not_found")
       ELSE IF entry.token \notin Accepts THEN RejectWith(h, "validation_error")
       ELSE handlers' = [handlers EXCEPT ![h].pc = "health", ![h].token = entry.token]
    /\ UNCHANGED <<clock, entry, record, gen, requests, answers>>

(* healthTracker.Health of the registration looked up, which prunes, and   *)
(* reports another active registration as not found.                       *)
CheckHealth(h) ==
    /\ handlers[h].pc = "health"
    /\ LET d == HealthIdentity(entry, clock)
           me == handlers[h]
       IN  /\ entry' = IF d.write THEN Stored(d.entry) ELSE entry
           /\ IF entry.state # "active" \/ entry.token # me.token
              THEN RejectWith(h, "service_unavailable")
              ELSE IF ~Healthy(entry', clock, StalenessThreshold) THEN Goto(h, "wait")
              ELSE IF me.deadline <= clock THEN RejectWith(h, "service_unavailable")
              ELSE handlers' = [handlers EXCEPT ![h].pc = "ensure",
                                                ![h].timeout = me.deadline - clock]
    /\ UNCHANGED <<clock, record, gen, requests, answers>>

(* Any failure of the catalog while the handler asks it.                   *)
CatalogFails(h) ==
    /\ "catalog" \in Faults
    /\ handlers[h].pc \in {"lookup", "health"}
    /\ RejectWith(h, "service_unavailable")
    /\ UNCHANGED <<clock, entry, record, gen, requests, answers>>

(* The retry ticker and the deadline timer: either, when both are ready.   *)
PollAgain(h) ==
    /\ handlers[h].pc = "wait"
    /\ Goto(h, "lookup")
    /\ UNCHANGED <<clock, entry, record, gen, requests, answers>>

(* Mutant of WaitExhausted: the wait has no timer.                         *)
WaitWithoutTimer(h) ==
    /\ handlers[h].pc = "wait"
    /\ handlers[h].deadline <= clock
    /\ Goto(h, "lookup")
    /\ UNCHANGED <<clock, entry, record, gen, requests, answers>>

WaitExhausted(h) ==
    /\ handlers[h].pc = "wait"
    /\ handlers[h].deadline <= clock
    /\ RejectWith(h, "service_unavailable")
    /\ UNCHANGED <<clock, entry, record, gen, requests, answers>>

EnsureAdmission(h) ==
    /\ handlers[h].pc = "ensure"
    /\ LET me == handlers[h]
           r == Ensure(record, me.digest, me.token, me.timeout, clock)
       IN  /\ record' = r.record
           /\ gen' = IF r.result = "created" THEN gen + 1 ELSE gen
           /\ IF r.result = "conflict" THEN Finish(h)
              ELSE Goto(h, IF r.result = "created" THEN "publish" ELSE "ensured")
    /\ UNCHANGED <<clock, entry, requests, answers>>

(* Ensure and Reject report an existing decision by attaching to it.       *)
AttachExisting(h) ==
    /\ handlers[h].pc \in {"ensured", "refused"}
    /\ LET found == Attach(record, handlers[h].digest) IN
        \/ found = "published" /\ Answer(h, gen, record.token)
        \/ found = "rejected" /\ Answer(h, gen, NoToken)
        \/ /\ found = "unpublished" /\ handlers[h].pc = "ensured"
           /\ handlers' = [handlers EXCEPT ![h].pc = "publish", ![h].token = record.token]
           /\ UNCHANGED answers
        \/ /\ \/ found \in {"not_found", "conflict", "invalid"}
              \/ found = "unpublished" /\ handlers[h].pc = "refused"
           /\ ReturnError(h)
    /\ UNCHANGED <<clock, entry, record, gen, requests>>

(* publishAdmittedBounded; a full queue, which calls of other identities   *)
(* fill, is an error.                                                      *)
PublishRequest(h) ==
    /\ handlers[h].pc = "publish"
    /\ \E full \in BOOLEAN :
        LET me == handlers[h]
            r == Publish(record, entry, me.digest, me.token, 0, full, Len(requests) + 1, clock)
        IN  /\ record' = r.record
            /\ requests' = IF r.result = "published"
                           THEN Append(requests, [token |-> me.token, gen |-> gen])
                           ELSE requests
            /\ CASE r.result \in {"changed", "unroutable"} -> Goto(h, "enter")
                 [] r.result = "full" -> Finish(h)
                 [] OTHER -> handlers' = [handlers EXCEPT ![h].pc = "opened", ![h].gen = gen]
    /\ UNCHANGED <<clock, entry, gen, answers>>

(* InitializeResultStream and ensureResultStream, then the result.         *)
OpenResultStream(h) ==
    /\ handlers[h].pc = "opened"
    /\ IF record.digest = handlers[h].digest THEN Answer(h, handlers[h].gen, handlers[h].token)
                                           ELSE ReturnError(h)
    /\ UNCHANGED <<clock, entry, record, gen, requests>>

RejectCall(h) ==
    /\ handlers[h].pc = "reject"
    /\ LET r == Reject(record, handlers[h].digest, clock) IN
        /\ record' = r.record
        /\ gen' = IF record.decision = "none" THEN gen + 1 ELSE gen
        /\ \/ /\ r.result = "rejected"
              /\ Answer(h, gen', NoToken)
           \/ r.result = "conflict" /\ ReturnError(h)
           \/ r.result = "attach" /\ Goto(h, "refused") /\ UNCHANGED answers
    /\ UNCHANGED <<clock, entry, requests>>

(* A cancelled caller, a Redis error or the death of the replica: nothing  *)
(* is undone, and the caller may call again.                               *)
HandlerFails(h) ==
    /\ "handler" \in Faults
    /\ handlers[h].pc # "idle"
    /\ ReturnError(h)
    /\ UNCHANGED <<clock, entry, record, gen, requests>>

Step(h) ==
    \/ EnterWait(h)
    \/ LookUpRegistration(h)
    \/ CheckHealth(h)
    \/ PollAgain(h)
    \/ WaitExhausted(h)
    \/ EnsureAdmission(h)
    \/ AttachExisting(h)
    \/ PublishRequest(h)
    \/ OpenResultStream(h)
    \/ RejectCall(h)

Next ==
    \/ Tick
    \/ \E l \in Leases : RegisterProvider(l) \/ Drain(l) \/ Release(l) \/ Pong(l)
    \/ \E t \in Tokens : Unregister(t)
    \/ \E h \in Handlers :
        \/ \E d \in Digests : CallTool(h, d)
        \/ Step(h)
        \/ CatalogFails(h)
        \/ HandlerFails(h)

Spec == Init /\ [][Next]_vars

(* Handlers are goroutines that run, time passes, and a select with its    *)
(* timer ready is not passed over for ever.                                *)
FairSpec ==
    /\ Spec
    /\ WF_vars(Tick)
    /\ \A h \in Handlers : WF_vars(Step(h)) /\ SF_vars(WaitExhausted(h))
-----------------------------------------------------------------------------
(* Every caller of one retained record gets the same decision: the same    *)
(* registration, or the rejection, whichever handlers raced for it         *)
(* (Ensure, Reject and the publication commit are separate scripts).       *)
CallersAgree == \A a, b \in answers : a.gen = b.gen => a = b

(* A record's request is appended once, whichever handlers publish it, and *)
(* never after a caller was told the call was rejected ("executors may     *)
(* safely replan").                                                        *)
PublishedOnce ==
    \A i \in 1 .. Len(requests) :
        /\ \A j \in 1 .. Len(requests) : requests[i].gen = requests[j].gen => i = j
        /\ \A a \in answers : a.gen = requests[i].gen => a.token = requests[i].token

(* The request goes to the active admission that is routable at the moment *)
(* of the append and whose schema accepted it, though registration, health *)
(* and assignment were read in earlier steps.                              *)
PublishedToValidatedAdmission ==
    [][requests' # requests =>
           /\ entry.state = "active" /\ Routable(entry, clock) # {}
           /\ requests'[Len(requests')].token = entry.token
           /\ entry.token \in Accepts
           /\ clock < record.deadline]_vars

(* Racing handlers take the record through the contract with callers.      *)
Contract == INSTANCE ToolCallContract WITH
    phase <- Phase(record), holder <- record.dispatch.lease, ran <- 0

ImplementsContract == Contract!Spec

(* Every CallTool returns: the wait for a healthy provider ends with the   *)
(* execution deadline, whatever the catalog does meanwhile.                *)
HandlersReturn == \A h \in Handlers : handlers[h].pc # "idle" ~> handlers[h].pc = "idle"

(* "An active toolset with no healthy provider waits until its execution   *)
(* deadline", also while the admission changes: no handler gives up on an  *)
(* active toolset as unavailable before its deadline.                      *)
UnavailableOnlyAtDeadline ==
    [][\A h \in Handlers :
           /\ entry.state = "active"
           /\ handlers[h].pc # "reject" /\ handlers'[h].pc = "reject"
           /\ handlers'[h].cause = "service_unavailable"
           => handlers[h].deadline <= clock]_vars
=============================================================================
