---------------------------- MODULE RateLimiter ----------------------------
(***************************************************************************)
(* The adaptive rate limiter of model clients                              *)
(* (features/model/middleware/ratelimit.go): each process halves or raises *)
(* its own tokens-per-minute budget as its calls are refused or succeed,   *)
(* and moves a budget shared over a replicated map the same way with at    *)
(* most three compare-and-swaps; a change of the map replaces the local    *)
(* budget of every process that watches it.                                *)
(*                                                                         *)
(* Local budgets are floats, kept here in units of 1/Scale and rounded     *)
(* down; the map holds whole numbers.  The filling of the token bucket is  *)
(* left out: only the burst, the largest request the bucket can ever hold, *)
(* decides whether a call is refused.                                      *)
(***************************************************************************)
EXTENDS Integers, FiniteSets, FiniteSetsExt

CONSTANTS
    Procs,          \* processes
    Late,           \* the ones that start while others are running
    InitialTPM,     \* the initial budget all are configured with; 0: none
    DefaultTPM,     \* the budget used when none is configured (60000)
    MaxTPM,         \* the maximum each is configured with
    Scale,          \* units of one token per minute
    Sizes,          \* token estimates of the requests
    MaxJobs,        \* bound: map updates in flight per process
    MaxThrottles,   \* bound: calls the provider refuses for their rate
    MaxFaults       \* bound: calls of the map that fail

ASSUME LimiterAssumption ==
    /\ IsFiniteSet(Procs) /\ Late \subseteq Procs
    /\ InitialTPM \in Nat /\ {DefaultTPM, Scale, MaxJobs} \subseteq Nat \ {0}
    /\ MaxTPM \in [Procs -> Nat] /\ Sizes \subseteq Nat \ {0}
    /\ {MaxThrottles, MaxFaults} \subseteq Nat

VARIABLES
    shared,     \* the map's value in Redis, Unset before it is seeded
    replica,    \* each process's copy of it
    dirty,      \* an update of the map is on its way to the process
    event,      \* an event is in the process's subscription channel
    phase,      \* "down", "joining" (has read the budget) or "up"
    lim,        \* the limiter: cur, min, max, step
    jobs,       \* globalBackoff and globalProbe goroutines
    throttles, faults

vars == <<shared, replica, dirty, event, phase, lim, jobs, throttles, faults>>

Unset == -1
maxAttempts == 3
Slots == 1..MaxJobs
NoJob == [op |-> "none", attempt |-> 0, read |-> Unset]

-----------------------------------------------------------------------------

\* Mutant: a budget of a few tokens recovers by fractions of one.
recoveryRateUnbounded(tpm) == tpm \div 20
recoveryRate(tpm) == Max({tpm \div 20, Scale})

newAdaptiveRateLimiter(initial, max) ==
    LET tpm == IF initial = 0 THEN DefaultTPM * Scale ELSE initial
    IN [cur  |-> tpm,
        min  |-> Max({tpm \div 10, Scale}),
        max  |-> Max({max, tpm}),
        step |-> recoveryRate(tpm)]

Clamped(l, tpm) == Min({Max({tpm, l.min}), l.max})
Burst(l) == l.cur \div Scale
Halved(l) == Max({l.cur \div 2, l.min})
Raised(l) == Min({l.cur + l.step, l.max})

\* What the map's jobs write: the next budget cut to a whole number.
BackoffNext(l, cur) == Max({(cur * Scale) \div 2, l.min}) \div Scale
ProbeNext(l, cur) == Min({cur * Scale + l.step, l.max}) \div Scale
JobNext(op, l, cur) == IF op = "backoff" THEN BackoffNext(l, cur) ELSE ProbeNext(l, cur)

-----------------------------------------------------------------------------
(* A process reads the shared budget, seeding it when there is none, and   *)
(* only then subscribes to its changes; the write may not have reached its *)
(* own copy.  A copy that is missing or not positive is no budget.         *)

JoinWith(p, seen) ==
    lim' = [lim EXCEPT ![p] =
        newAdaptiveRateLimiter(IF seen > 0 THEN seen * Scale ELSE InitialTPM * Scale,
                               MaxTPM[p] * Scale)]

JoinReads(p) ==
    /\ phase[p] = "down"
    /\ phase' = [phase EXCEPT ![p] = "joining"]
    /\ IF replica[p] # Unset
       THEN JoinWith(p, replica[p]) /\ UNCHANGED <<shared, replica, dirty>>
       ELSE /\ shared' = IF shared = Unset THEN InitialTPM ELSE shared
            /\ dirty' = IF shared = Unset THEN [q \in Procs |-> TRUE] ELSE dirty
            /\ \E seen \in {replica[p], shared'} :
                  /\ replica' = [replica EXCEPT ![p] = seen]
                  /\ JoinWith(p, seen)
    /\ UNCHANGED <<event, jobs, throttles, faults>>

JoinSubscribes(p) ==
    /\ phase[p] = "joining"
    /\ phase' = [phase EXCEPT ![p] = "up"]
    /\ UNCHANGED <<shared, replica, dirty, event, lim, jobs, throttles, faults>>

(* The process stops; a new one takes its place and joins the map anew.    *)
Restart(p) ==
    /\ p \in Late /\ phase[p] = "up"
    /\ phase' = [phase EXCEPT ![p] = "down"]
    /\ jobs' = [jobs EXCEPT ![p] = [s \in Slots |-> NoJob]]
    /\ event' = [event EXCEPT ![p] = FALSE]
    /\ UNCHANGED <<shared, replica, dirty, lim, throttles, faults>>

-----------------------------------------------------------------------------
(* One call: wait, the provider, observe.  A change of the local budget    *)
(* starts an update of the shared one.  A request above the burst is       *)
(* refused by wait at once and changes nothing.                            *)

Adjust(p, tpm, op) ==
    /\ lim' = [lim EXCEPT ![p].cur = tpm]
    /\ IF tpm = lim[p].cur THEN UNCHANGED jobs
       ELSE \E s \in Slots :
              /\ jobs[p][s] = NoJob
              /\ jobs' = [jobs EXCEPT ![p][s] = [op |-> op, attempt |-> 1, read |-> Unset]]

CallSucceeds(p, n) ==
    /\ phase[p] = "up" /\ n <= Burst(lim[p])
    /\ Adjust(p, Raised(lim[p]), "probe")
    /\ UNCHANGED <<shared, replica, dirty, event, phase, throttles, faults>>

CallThrottled(p, n) ==
    /\ phase[p] = "up" /\ n <= Burst(lim[p])
    /\ throttles < MaxThrottles /\ throttles' = throttles + 1
    /\ Adjust(p, Halved(lim[p]), "backoff")
    /\ UNCHANGED <<shared, replica, dirty, event, phase, faults>>

-----------------------------------------------------------------------------
(* globalBackoff and globalProbe.                                          *)

EndJob(p, s) == jobs' = [jobs EXCEPT ![p][s] = NoJob]

JobReads(p, s) ==
    /\ jobs[p][s].op # "none" /\ jobs[p][s].read = Unset
    /\ IF replica[p] <= 0 \/ (jobs[p][s].op = "probe" /\ replica[p] * Scale >= lim[p].max)
       THEN EndJob(p, s)
       ELSE jobs' = [jobs EXCEPT ![p][s].read = replica[p]]
    /\ UNCHANGED <<shared, replica, dirty, event, phase, lim, throttles, faults>>

\* Mutant: the value is written whatever the map holds by now.
JobSwapsBlindly(p, s) ==
    LET j == jobs[p][s]
    IN /\ j.read # Unset
       /\ shared' = JobNext(j.op, lim[p], j.read)
       /\ dirty' = [q \in Procs |-> TRUE]
       /\ EndJob(p, s)
       /\ UNCHANGED <<replica, event, phase, lim, throttles, faults>>

JobSwaps(p, s) ==
    LET j == jobs[p][s]
    IN /\ j.read # Unset
       /\ IF shared = j.read
          THEN /\ shared' = JobNext(j.op, lim[p], j.read)
               /\ dirty' = [q \in Procs |-> TRUE]
               /\ EndJob(p, s)
          ELSE /\ IF j.attempt = maxAttempts THEN EndJob(p, s)
                  ELSE jobs' = [jobs EXCEPT ![p][s] =
                          [j EXCEPT !.attempt = @ + 1, !.read = Unset]]
               /\ UNCHANGED <<shared, dirty>>
       /\ UNCHANGED <<replica, event, phase, lim, throttles, faults>>

JobFails(p, s) ==
    /\ jobs[p][s].read # Unset /\ faults < MaxFaults
    /\ faults' = faults + 1
    /\ EndJob(p, s)
    /\ UNCHANGED <<shared, replica, dirty, event, phase, lim, throttles>>

-----------------------------------------------------------------------------
(* The map's update reaches a process, which is notified when it has       *)
(* subscribed; the watcher then replaces the local budget.                 *)

Deliver(p) ==
    /\ dirty[p]
    /\ dirty' = [dirty EXCEPT ![p] = FALSE]
    /\ replica' = [replica EXCEPT ![p] = shared]
    /\ event' = [event EXCEPT ![p] = @ \/ phase[p] = "up"]
    /\ UNCHANGED <<shared, phase, lim, jobs, throttles, faults>>

replaceTPM(p) == lim' = [lim EXCEPT ![p].cur = Clamped(lim[p], replica[p] * Scale)]

Reconcile(p) ==
    /\ event[p]
    /\ event' = [event EXCEPT ![p] = FALSE]
    /\ IF replica[p] > 0 THEN replaceTPM(p) ELSE UNCHANGED lim
    /\ UNCHANGED <<shared, replica, dirty, phase, jobs, throttles, faults>>

-----------------------------------------------------------------------------

Init ==
    /\ shared = IF Late = Procs THEN Unset ELSE InitialTPM
    /\ replica = [p \in Procs |-> shared]
    /\ dirty = [p \in Procs |-> FALSE] /\ event = dirty
    /\ phase = [p \in Procs |-> IF p \in Late THEN "down" ELSE "up"]
    /\ lim = [p \in Procs |-> newAdaptiveRateLimiter(InitialTPM * Scale, MaxTPM[p] * Scale)]
    /\ jobs = [p \in Procs |-> [s \in Slots |-> NoJob]]
    /\ throttles = 0 /\ faults = 0

Joins(p) == JoinReads(p) \/ JoinSubscribes(p)
MapWork(p) ==
    \/ \E s \in Slots : JobReads(p, s) \/ JobSwaps(p, s)
    \/ Deliver(p) \/ Reconcile(p)

Next ==
    \E p \in Procs :
        \/ Joins(p) \/ Restart(p)
        \/ \E n \in Sizes : CallSucceeds(p, n) \/ CallThrottled(p, n)
        \/ \E s \in Slots : JobFails(p, s)
        \/ MapWork(p)

Spec == Init /\ [][Next]_vars

(* Goroutines run, the map's messages arrive, and the planners of each     *)
(* process keep calling: a call the provider does not throttle succeeds.   *)
BusySpec ==
    Spec /\ \A p \in Procs :
        /\ WF_vars(MapWork(p)) /\ WF_vars(Joins(p))
        /\ SF_vars(\E n \in Sizes : CallSucceeds(p, n))

-----------------------------------------------------------------------------

(* Types; a local budget stays within the bounds of its own process,       *)
(* whatever value other processes put into the map (replaceTPM).           *)
TypeOK ==
    /\ shared \in Nat \cup {Unset} /\ replica \in [Procs -> Nat \cup {Unset}]
    /\ {dirty, event} \subseteq [Procs -> BOOLEAN]
    /\ phase \in [Procs -> {"down", "joining", "up"}]
    /\ \A p \in Procs : lim[p].cur \in lim[p].min..lim[p].max /\ lim[p].min >= Scale
    /\ \A p \in Procs, s \in Slots :
          /\ jobs[p][s].op \in {"none", "backoff", "probe"}
          /\ jobs[p][s].attempt \in 0..maxAttempts
          /\ jobs[p][s].read \in Nat \cup {Unset}
    /\ throttles \in 0..MaxThrottles /\ faults \in 0..MaxFaults

(* Every change of the shared budget is one step up or down from the value *)
(* it replaces, however stale the copy of the process that makes it: no    *)
(* other process's step is lost (TestAndSet).                              *)
NoStepLost ==
    [][shared > 0 /\ shared' # shared =>
          \E p \in Procs, op \in {"backoff", "probe"} :
              shared' = JobNext(op, lim[p], shared)]_vars

(* Once the provider stops throttling and processes stop being replaced,   *)
(* every process gets back to its maximum, and the shared budget to the    *)
(* highest of them unless a call of the map failed.                        *)
Recovers ==
    <>[](\A p \in Procs : phase[p] = "up") =>
        <>[](/\ \A p \in Procs : lim[p].cur = lim[p].max
             /\ faults = 0 => shared = Max({lim[p].max \div Scale : p \in Procs}))
=============================================================================
