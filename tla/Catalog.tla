------------------------------ MODULE Catalog ------------------------------
(***************************************************************************)
(* The toolset catalog (registry/catalog.go) under concurrent callers.     *)
(*                                                                         *)
(* Every operation is an optimistic loop over one stored record: an exact  *)
(* read, a read of Redis TIME, a pure decision (CatalogEntry), and either  *)
(* a return or a compare-and-swap that starts the loop again when another  *)
(* replica wrote in between.  The three steps of a caller interleave with  *)
(* those of every other caller and with the passing of time; a caller may  *)
(* fail at any of them.                                                    *)
(***************************************************************************)
EXTENDS CatalogEntry

CONSTANTS
    Operations,     \* the catalog operations callers perform
    Callers,        \* registry handlers in flight, on any replica
    Settlements,    \* settlement durations providers ask for when draining
    MaxTime,        \* bound on Redis TIME
    MaxEpoch        \* no registration starts once the epoch is past this

AllOperations == {"register", "drain", "release", "retire", "pong", "health"}

ASSUME CatalogAssumption ==
    /\ Operations \subseteq AllOperations
    /\ Settlements \subseteq Nat
    /\ MaxTime \in Nat
    /\ MaxEpoch \in Nat

VARIABLES
    clock,    \* Redis TIME
    entry,    \* the stored record of the toolset
    pings,    \* health identities (token, epoch) pings were sent with
    calls     \* per caller: its request, loop phase, and what it has read

vars == <<clock, entry, pings, calls>>

Identities == [token : Tokens \cup {NoToken}, epoch : Nat]

(* A pong answers one of the pings ids the registry sent, perhaps long ago. *)
Requests(ids) ==
         [op : {"register", "release"}, token : Tokens, lease : Leases]
    \cup [op : {"drain"}, token : Tokens, lease : Leases, settlement : Settlements]
    \cup [op : {"retire"}, token : Tokens]
    \cup [op : {"pong"}, id : ids, lease : Leases]
    \cup [op : {"health"}]

Idle == [phase |-> "idle"]

Loops(phases) == [phase : phases, req : Requests(Identities), raw : Entries, now : Nat]

TypeOK ==
    /\ clock \in Nat
    /\ entry \in Entries
    /\ pings \subseteq Identities
    /\ calls \in [Callers -> {Idle} \cup Loops({"read", "decide"})]

Init ==
    /\ clock = 1
    /\ entry = Absent
    /\ pings = {}
    /\ calls = [c \in Callers |-> Idle]

-----------------------------------------------------------------------------
(* What a caller does with the record and the time it holds.               *)
Decision(call) ==
    LET req == call.req
        e == call.raw
    IN  CASE req.op = "register" -> Register(e, req.token, req.lease, call.now)
          [] req.op = "drain" -> DrainProvider(e, req.token, req.lease, call.now, req.settlement)
          [] req.op = "release" -> ReleaseProvider(e, req.token, req.lease, call.now)
          [] req.op = "retire" -> Retire(e, req.token)
          [] req.op = "pong" -> RecordPong(e, req.id.token, req.lease, req.id.epoch, call.now)
          [] OTHER -> HealthIdentity(e, call.now)

(* The operation is over for the caller; a health lookup that found an     *)
(* identity has the tracker publish a ping that carries it.                *)
Conclude(c, decision) ==
    /\ calls' = [calls EXCEPT ![c] = Idle]
    /\ pings' = IF decision.result = "identity"
                THEN pings \cup {[token |-> decision.entry.token, epoch |-> decision.entry.epoch]}
                ELSE pings

(* exactRaw: the authoritative read at the head of the loop.               *)
Start(c, req) ==
    /\ calls[c].phase = "idle"
    /\ req.op \in Operations
    /\ req.op = "register" => entry.epoch <= MaxEpoch
    /\ calls' = [calls EXCEPT ![c] = [phase |-> "read", req |-> req, raw |-> entry, now |-> 0]]
    /\ UNCHANGED <<clock, entry, pings>>

ReadTime(c) ==
    /\ calls[c].phase = "read"
    /\ calls' = [calls EXCEPT ![c].phase = "decide", ![c].now = clock]
    /\ UNCHANGED <<clock, entry, pings>>

(* The decision needs no write.                                            *)
ReturnDecision(c) ==
    /\ calls[c].phase = "decide"
    /\ LET d == Decision(calls[c]) IN
        /\ ~d.write
        /\ Conclude(c, d)
    /\ UNCHANGED <<clock, entry>>

(* Mutant of Replace: a plain set instead of a compare-and-swap.           *)
ReplaceBlindly(c) ==
    /\ calls[c].phase = "decide"
    /\ LET d == Decision(calls[c]) IN
        /\ d.write
        /\ entry' = d.entry
        /\ IF d.result = "again"
           THEN /\ calls' = [calls EXCEPT ![c].raw = d.entry]
                /\ UNCHANGED pings
           ELSE Conclude(c, d)
    /\ UNCHANGED clock

(* replace: the stored record is still the one the caller read.            *)
Replace(c) ==
    /\ calls[c].phase = "decide"
    /\ entry = calls[c].raw
    /\ LET d == Decision(calls[c]) IN
        /\ d.write
        /\ entry' = d.entry
        /\ IF d.result = "again"
           THEN /\ calls' = [calls EXCEPT ![c].raw = d.entry]
                /\ UNCHANGED pings
           ELSE Conclude(c, d)
    /\ UNCHANGED clock

(* Another caller replaced the record first: read it again.                *)
ReplaceFails(c) ==
    /\ calls[c].phase = "decide"
    /\ entry # calls[c].raw
    /\ Decision(calls[c]).write
    /\ calls' = [calls EXCEPT ![c].phase = "read", ![c].raw = entry]
    /\ UNCHANGED <<clock, entry, pings>>

(* A Redis error, a cancelled context or the death of the replica ends the *)
(* operation before its write.                                             *)
Fail(c) ==
    /\ calls[c].phase # "idle"
    /\ calls' = [calls EXCEPT ![c] = Idle]
    /\ UNCHANGED <<clock, entry, pings>>

Tick ==
    /\ clock < MaxTime
    /\ clock' = clock + 1
    /\ UNCHANGED <<entry, pings, calls>>

Next ==
    \/ Tick
    \/ \E c \in Callers :
        \/ \E req \in Requests(pings) : Start(c, req)
        \/ ReadTime(c)
        \/ ReturnDecision(c)
        \/ Replace(c)
        \/ ReplaceFails(c)
        \/ Fail(c)

Spec == Init /\ [][Next]_vars

-----------------------------------------------------------------------------
(* Whatever races whatever, the stored record stays one parseCatalogEntry   *)
(* accepts: a refused record would fail every later operation on the       *)
(* toolset, and the registry's start.                                      *)
RecordAccepted == entry.state = "absent" \/ Accepted(entry)

(* Health evidence belongs to the membership it is about: a recorded pong  *)
(* answers a ping that was sent with the record's own token and epoch, and *)
(* a lease that was not draining is still there (RecordPong, Prune): late  *)
(* pongs of an earlier membership prove nothing about a later one.         *)
EvidenceIsCurrent ==
    entry.lastPong # 0 =>
        /\ [token |-> entry.token, epoch |-> entry.epoch] \in pings
        /\ NonDraining(entry) # {}

(* Admission tombstones are permanent, whatever write races whatever read: *)
(* a retired or replaced token is never the active one again.              *)
NeverReadmitted ==
    [][/\ entry.retired \subseteq entry'.retired
       /\ entry'.state = "active" => entry'.token \notin entry.retired]_vars

(* Register hands the toolset to another admission only when Redis TIME, at *)
(* the moment of the write, is past every lease of the one replaced, even  *)
(* though the decision used a time and a record read earlier.              *)
ReplacementWaitsForLeases ==
    [][entry.token # NoToken /\ entry'.token # entry.token =>
           \A l \in Held(entry) : entry.expires[l] <= clock]_vars

(* (token, epoch) names one unbroken membership: within it the set of      *)
(* non-draining leases may not empty and fill again, nor be exchanged in   *)
(* one step, so that a pong to a ping of an earlier membership cannot      *)
(* count for a later one.                                                  *)
EpochNamesOneMembership ==
    [][/\ entry'.token = entry.token => entry'.epoch >= entry.epoch
       /\ entry'.token = entry.token /\ entry'.epoch = entry.epoch /\ NonDraining(entry') # {} =>
              NonDraining(entry) \cap NonDraining(entry') # {}]_vars

(* Pongs recorded within an epoch are monotonic (RecordPong): a slower     *)
(* caller with an older time does not take evidence back.                  *)
PongsMonotonic ==
    [][entry'.token = entry.token /\ entry'.epoch = entry.epoch =>
           entry'.lastPong >= entry.lastPong]_vars

(* The catalog implements the lease-guarded lock it promises.              *)
Ownership == INSTANCE AdmissionOwnership WITH
    owner <- entry.token, closed <- entry.retired, until <- entry.expires

ImplementsOwnership == Ownership!Spec
=============================================================================
