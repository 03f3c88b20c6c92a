--------------------------- MODULE ProviderLease ---------------------------
(***************************************************************************)
(* The registry membership of one Serve lifecycle, from its first          *)
(* registration to its release (runtime/toolregistry/provider,             *)
(* registration.go and the shutdown of provider.go), against the           *)
(* catalog's record of its toolset (module CatalogEntry).                  *)
(*                                                                         *)
(* The provider keeps a deadline of its own, counted from the start of the *)
(* attempt that was granted, and stops consuming a margin before it.       *)
(* Requests and replies are lost, attempts time out, Redis loses the       *)
(* catalog, operators retire the admission and a rival admission waits to  *)
(* replace it.  All times are ticks left, so that no clock grows: expired  *)
(* leases leave the record as they expire, and the health fields, which no *)
(* registration reads, keep one value.  A timer that is due is served      *)
(* before time goes on; Serve's loop takes its time to notice that         *)
(* registration failed (an event it is accepting, or the one select picks  *)
(* first), and the lease runs on meanwhile.                                *)
(***************************************************************************)
EXTENDS CatalogEntry, FiniteSets, FiniteSetsExt

CONSTANTS
    Me, Rival,          \* lease keys of this lifecycle and of the rival's
    Mine, Others,       \* the tokens Register may return to each
    Margin,             \* shutdownMargin
    AttemptTimeout,
    RetryMax,           \* retryMaxInterval
    ShutdownTimeout,
    AuthorityMargin,    \* SettlementAuthorityMargin
    Faults,             \* what may go wrong besides the passing of time
    MaxLosses           \* bound: how often Redis loses the catalog

ASSUME ProviderLeaseAssumption ==
    /\ Leases = {Me, Rival} /\ Me # Rival
    /\ Tokens = Mine \cup Others /\ Mine # {} /\ Mine \cap Others = {}
    /\ {Margin, AttemptTimeout, RetryMax, ShutdownTimeout, AuthorityMargin} \subseteq Nat \ {0}
    /\ LeaseDuration > Margin + AttemptTimeout + RetryMax   \* leaseSafetyBudget
    /\ Faults \subseteq {"failed_call", "late_request", "drain_error", "unclean"}
    /\ MaxLosses \in Nat

VARIABLES
    entry,      \* the catalog's record of the toolset
    mode,       \* where Serve is
    attempt,    \* the Register call under way
    delay,      \* ticks until the next attempt
    deadline,   \* ticks until the local deadline of the lease
    held,       \* tokens Serve was granted: the admitted one and a changed one
    late,       \* tokens of abandoned Register calls still on their way
    settle,     \* ticks left of the settlement phase
    drained,    \* the drain was acknowledged, for a lease it kept or one ended
    lost,       \* history: the catalog was lost since the last grant to held
    losses

vars == <<entry, mode, attempt, delay, deadline, held, late, settle, drained, lost, losses>>
localVars == <<mode, delay, deadline, held, settle, drained>>

NoAttempt == [at |-> "none", token |-> NoToken, left |-> 0, age |-> 0, result |-> "none"]
cutoff == deadline - Margin

-----------------------------------------------------------------------------
(* The catalog's operations, at a time that is always 0.                   *)

AnyHealth(e) == [e EXCEPT !.epoch = IF e.state = "absent" THEN 0 ELSE 1, !.lastPong = 0]

Apply(op) ==
    /\ entry' = AnyHealth(op.entry)
    /\ lost' = (lost /\ ~(op.result = "admitted" /\ op.entry.token \in held))

\* The drains and releases of every token Serve was granted, one of which at
\* most is the record's.
HeldToken == IF entry.token \in held THEN entry.token ELSE NoToken

-----------------------------------------------------------------------------
(* Scheduling: jitter is a choice, and a delay is cut to half of what is   *)
(* left to the cutoff, rounded up to a tick.                               *)

renewalDelay == {n \in 1..LeaseDuration : 4 * LeaseDuration <= 15 * n /\ 5 * n <= 2 * LeaseDuration}
retryDelay == 1..RetryMax
Wait(n, remaining) == delay' = Max({1, Min({n, remaining \div 2})})

Drop == attempt' = NoAttempt

\* superviseRegistration returns: Serve stops.
Stop == mode' = "finishing" /\ UNCHANGED <<delay, deadline, settle, drained>>

\* Mutant: the deadline is counted from the reply.
GrantedFromReply(a) == LeaseDuration
Granted(a) == LeaseDuration - a.age

Retry(n) ==
    IF mode = "registering" THEN delay' = n /\ UNCHANGED <<mode, deadline, settle, drained>>
    ELSE IF mode = "serving" /\ cutoff > 0
         THEN Wait(n, cutoff) /\ UNCHANGED <<mode, deadline, settle, drained>>
    ELSE IF mode = "serving" THEN Stop
    ELSE UNCHANGED <<mode, delay, deadline, settle, drained>>

-----------------------------------------------------------------------------
(* registerUntilSuccess and superviseRegistration.                         *)

AttemptStarts(t) ==
    /\ mode \in {"registering", "serving"} /\ attempt = NoAttempt /\ delay = 0
    /\ IF mode = "serving" /\ cutoff <= 0
       THEN Stop /\ UNCHANGED attempt
       ELSE /\ attempt' = [NoAttempt EXCEPT !.at = "sent", !.token = t,
                 !.left = IF mode = "serving" THEN Min({AttemptTimeout, cutoff}) ELSE AttemptTimeout]
            /\ UNCHANGED <<mode, delay, deadline, settle, drained>>
    /\ UNCHANGED <<entry, held, late, lost, losses>>

RegisterLands ==
    /\ attempt.at = "sent"
    /\ LET op == Register(entry, attempt.token, Me, 0) IN
          /\ Apply(op)
          /\ attempt' = [attempt EXCEPT !.at = "landed", !.result = op.result]
    /\ UNCHANGED <<late, losses>> /\ UNCHANGED localVars

FirstGrant ==
    /\ mode = "registering" /\ attempt.result = "admitted" /\ Granted(attempt) > Margin
    /\ mode' = "serving" /\ deadline' = Granted(attempt) /\ held' = {attempt.token}
    /\ \E n \in renewalDelay : Wait(n, deadline' - Margin)
    /\ UNCHANGED <<settle, drained>>

Renewed ==
    /\ mode = "serving" /\ attempt.result = "admitted"
    /\ IF cutoff > 0 /\ attempt.token \in held /\ Granted(attempt) > Margin
       THEN /\ deadline' = Granted(attempt)
            /\ \E n \in renewalDelay : Wait(n, deadline' - Margin)
            /\ UNCHANGED <<mode, held, settle, drained>>
       ELSE Stop /\ held' = IF cutoff > 0 THEN held \cup {attempt.token} ELSE held

Refused ==
    /\ attempt.result # "admitted" \/ (mode = "registering" /\ Granted(attempt) <= Margin)
    /\ IF mode = "registering" /\ attempt.result = "retired"
       THEN mode' = "stopped" /\ UNCHANGED <<delay, deadline, settle, drained>>
       ELSE IF mode = "registering" THEN \E n \in retryDelay : Retry(n)
       ELSE Stop
    /\ UNCHANGED held

RegisterReplies ==
    /\ attempt.at = "landed" /\ mode \in {"registering", "serving"}
    /\ Drop
    /\ FirstGrant \/ Renewed \/ Refused
    /\ UNCHANGED <<entry, late, lost, losses>>

\* A call fails or times out; the request may reach the registry later.
Abandon ==
    /\ Drop
    /\ late' \in {late} \cup
          (IF attempt.at = "sent" /\ "late_request" \in Faults THEN {late \cup {attempt.token}} ELSE {})

\* Mutant: a renewal that fails is tried again whatever the deadline.
RegisterFailsForever ==
    /\ attempt # NoAttempt /\ (attempt.left = 0 \/ "failed_call" \in Faults)
    /\ Abandon
    /\ \E n \in retryDelay : delay' = n
    /\ deadline' = LeaseDuration
    /\ UNCHANGED <<entry, mode, held, settle, drained, lost, losses>>
RegisterFails ==
    /\ attempt # NoAttempt /\ (attempt.left = 0 \/ "failed_call" \in Faults)
    /\ Abandon
    /\ \E n \in retryDelay : Retry(n)
    /\ UNCHANGED <<entry, held, lost, losses>>

LateLands(t) ==
    /\ t \in late
    /\ late' = late \ {t}
    /\ Apply(Register(entry, t, Me, 0))
    /\ UNCHANGED <<attempt, losses>> /\ UNCHANGED localVars

-----------------------------------------------------------------------------
(* finish: registration ends, then drain, settlement and release.          *)

\* The owner's context ends, or intake or settlement fails.
Cancel ==
    /\ \/ mode = "serving" /\ mode' = "finishing" /\ UNCHANGED <<attempt, late>>
       \/ mode = "registering" /\ mode' = "stopped" /\ Abandon
    /\ UNCHANGED <<entry, delay, deadline, held, settle, drained, lost, losses>>

\* Mutant: the drain does not wait for the renewal under way.
RegistrationLeftRunning ==
    /\ mode = "finishing"
    /\ mode' = "draining" /\ settle' = ShutdownTimeout
    /\ UNCHANGED <<entry, attempt, late, delay, deadline, held, drained, lost, losses>>
RegistrationEnds ==
    /\ mode = "finishing"
    /\ mode' = "draining" /\ settle' = ShutdownTimeout
    /\ Abandon
    /\ UNCHANGED <<entry, delay, deadline, held, drained, lost, losses>>

\* Mutant: the lease is kept for the shutdown and no longer.
DrainLandsWithoutMargin ==
    /\ mode = "draining"
    /\ Apply(DrainProvider(entry, HeldToken, Me, 0, ShutdownTimeout))
    /\ mode' = "settling"
    /\ drained' = IF HeldToken # NoToken /\ Me \in Held(entry) THEN "kept" ELSE "ended"
    /\ UNCHANGED <<attempt, delay, deadline, held, late, settle, losses>>
DrainLands ==
    /\ mode = "draining"
    /\ Apply(DrainProvider(entry, HeldToken, Me, 0, ShutdownTimeout + AuthorityMargin))
    /\ \/ /\ mode' = "settling"
          /\ drained' = IF HeldToken # NoToken /\ Me \in Held(entry) THEN "kept" ELSE "ended"
       \/ "failed_call" \in Faults /\ UNCHANGED <<mode, drained>>
    /\ UNCHANGED <<attempt, delay, deadline, held, late, settle, losses>>

DrainGivesUp ==
    /\ mode = "draining" /\ (settle = 0 \/ "drain_error" \in Faults)
    /\ mode' = "settling"
    /\ UNCHANGED <<entry, attempt, delay, deadline, held, late, settle, drained, lost, losses>>

\* The sink is closed, workers and acknowledgements have ended or are cut off.
Settled ==
    /\ mode = "settling"
    /\ \/ drained # "no" /\ settle > 0 /\ mode' = "releasing"
       \/ (drained = "no" \/ settle = 0 \/ "unclean" \in Faults) /\ mode' = "stopped"
    /\ UNCHANGED <<entry, attempt, delay, deadline, held, late, settle, drained, lost, losses>>

ReleaseLands ==
    /\ mode = "releasing"
    /\ Apply(ReleaseProvider(entry, HeldToken, Me, 0))
    /\ mode' \in {"stopped"} \cup (IF "failed_call" \in Faults THEN {"releasing"} ELSE {})
    /\ UNCHANGED <<attempt, delay, deadline, held, late, settle, drained, losses>>

ReleaseGivesUp ==
    /\ mode = "releasing" /\ "failed_call" \in Faults
    /\ mode' = "stopped"
    /\ UNCHANGED <<entry, attempt, delay, deadline, held, late, settle, drained, lost, losses>>

-----------------------------------------------------------------------------
(* The rest of the system.                                                 *)

RivalRegisters(t) ==
    /\ entry' = AnyHealth(Register(entry, t, Rival, 0).entry)
    /\ UNCHANGED <<attempt, late, lost, losses>> /\ UNCHANGED localVars

RivalReleases(t) ==
    /\ entry' = AnyHealth(ReleaseProvider(entry, t, Rival, 0).entry)
    /\ UNCHANGED <<attempt, late, lost, losses>> /\ UNCHANGED localVars

OperatorRetires(t) ==
    /\ entry' = AnyHealth(Retire(entry, t).entry)
    /\ UNCHANGED <<attempt, late, lost, losses>> /\ UNCHANGED localVars

CatalogLost ==
    /\ losses < MaxLosses /\ losses' = losses + 1
    /\ entry' = Absent /\ lost' = TRUE
    /\ UNCHANGED <<attempt, late>> /\ UNCHANGED localVars

Down(n) == IF n > 0 THEN n - 1 ELSE 0

Due ==
    \/ attempt # NoAttempt /\ attempt.left = 0
    \/ mode \in {"registering", "serving"} /\ attempt = NoAttempt /\ delay = 0
    \/ mode \in {"draining", "settling"} /\ settle = 0

Tick ==
    /\ ~Due
    /\ entry' = [entry EXCEPT !.expires = [l \in Leases |-> Down(entry.expires[l])],
                              !.draining = {l \in entry.draining : entry.expires[l] > 1}]
    /\ attempt' = IF attempt = NoAttempt THEN NoAttempt
                  ELSE [attempt EXCEPT !.left = @ - 1, !.age = @ + 1]
    /\ delay' = Down(delay) /\ deadline' = Down(deadline) /\ settle' = Down(settle)
    /\ UNCHANGED <<mode, held, late, drained, lost, losses>>

-----------------------------------------------------------------------------

Init ==
    /\ entry = Absent /\ mode = "registering" /\ attempt = NoAttempt
    /\ delay = 0 /\ deadline = 0 /\ held = {} /\ late = {}
    /\ settle = 0 /\ drained = "no" /\ lost = FALSE /\ losses = 0

Serve ==
    \/ \E t \in Mine : AttemptStarts(t)
    \/ RegisterReplies \/ RegisterFails \/ RegistrationEnds
    \/ DrainLands \/ DrainGivesUp \/ Settled \/ ReleaseLands \/ ReleaseGivesUp

Next ==
    \/ Serve \/ RegisterLands \/ Cancel \/ Tick \/ CatalogLost
    \/ \E t \in Tokens : LateLands(t) \/ OperatorRetires(t)
    \/ \E t \in Others : RivalRegisters(t) \/ RivalReleases(t)

Spec == Init /\ [][Next]_vars

(* Serve's goroutines run, requests reach the registry and time passes.    *)
FairSpec == Spec /\ WF_vars(Serve) /\ WF_vars(RegisterLands) /\ WF_vars(Tick)

-----------------------------------------------------------------------------

(* Types; no counter of time is ever negative.                             *)
TypeOK ==
    /\ entry \in [state : {"absent", "active", "retired"}, token : Tokens \cup {NoToken},
                  expires : [Leases -> 0..Max({LeaseDuration, ShutdownTimeout + AuthorityMargin})],
                  draining : SUBSET Leases, retired : SUBSET Tokens, epoch : 0..1, lastPong : {0}]
    /\ mode \in {"registering", "serving", "finishing", "draining", "settling", "releasing", "stopped"}
    /\ attempt \in [at : {"none", "sent", "landed"}, token : Tokens \cup {NoToken},
                    left : 0..AttemptTimeout, age : 0..AttemptTimeout,
                    result : {"none", "admitted", "blocked", "retired"}]
    /\ delay \in 0..LeaseDuration /\ deadline \in 0..LeaseDuration
    /\ held \subseteq Mine /\ late \subseteq Mine
    /\ settle \in 0..ShutdownTimeout /\ drained \in {"no", "kept", "ended"}
    /\ lost \in BOOLEAN /\ losses \in 0..MaxLosses

(* A provider that serves has a routable lease of its own admission: its   *)
(* supervision tells it to stop before the registry's clock ends the lease.*)
(* A catalog that Redis lost is the exception, until the next grant.       *)
ServesWithinLease ==
    mode = "serving" /\ ~lost => entry.token \in held /\ Me \in Routable(entry, 0)

(* A lease that its drain found alive lasts as long as the settlement: the *)
(* results of the calls already claimed are still accepted.                *)
AuthorityThroughSettlement ==
    mode = "settling" /\ drained = "kept" /\ ~lost => Me \in Held(entry)

(* A provider whose drain took it out of routing is not routed to again,   *)
(* except by a renewal it gave up on that reaches the registry after the   *)
(* drain (superviseRegistration is cancelled and joined before finish      *)
(* drains; the request on the wire is not).                                *)
DrainedStaysDrained ==
    [][drained # "no" /\ Me \notin Routable(entry, 0) /\ Me \in Routable(entry', 0) =>
           late' # late]_vars

(* State loss does not strand a serving provider outside the catalog: it   *)
(* is registered again or it stops.                                        *)
Reconciled == (mode = "serving" /\ lost) ~> (~lost \/ mode = "stopped")

=============================================================================
