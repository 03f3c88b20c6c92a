---------------------------- MODULE SchemaCache ----------------------------
(***************************************************************************)
(* One toolset of one registry as the registry client serves it            *)
(* (runtime/registry): Manager.DiscoverToolset over MemoryCache, with the  *)
(* background refresh and the sync of the manager writing the same entry.  *)
(*                                                                         *)
(* Every fetch is a call of the registry between two critical sections of  *)
(* the cache, and Get releases its lock before it deletes what expired.    *)
(* Time is kept as ticks left, so that no clock grows.                     *)
(***************************************************************************)
EXTENDS Integers, FiniteSets, FiniteSetsExt

CONSTANTS
    Callers,        \* goroutines in DiscoverToolset
    Refreshing,     \* a refresh function is configured and its loop started
    Syncing,        \* the registry has a sync interval
    TTL,            \* cacheTTL of the registry, in ticks
    Cooldown,       \* refreshCooldown, in ticks
    ChannelSize,    \* capacity of refreshCh
    FetchTime,      \* bound: ticks from the registry's answer to its storing
    MaxVersion,     \* bound: versions of the schema
    MaxDeletes      \* bound: calls of Delete or Clear

ASSUME CacheAssumption ==
    /\ IsFiniteSet(Callers) /\ {Refreshing, Syncing} \subseteq BOOLEAN
    /\ {TTL, ChannelSize, MaxVersion} \subseteq Nat \ {0}
    /\ {Cooldown, FetchTime, MaxDeletes} \subseteq Nat

VARIABLES
    version,    \* the registry's current schema
    stale,      \* per version, ticks since it was superseded, at most StaleCap
    entry,      \* the cache's entry
    pc,         \* per caller
    got,        \* per writer, the schema fetched and the ticks left to store it
    queued,     \* requests in refreshCh
    loop,       \* the refresh loop
    cooling,    \* ticks left of the cooldown
    tried,      \* history: ticks left until the next attempt is due
    promised,   \* history: ticks left of the last stored entry, -1 once deleted
    served,     \* history: the longest time a schema that a hit served was superseded
    deletes

vars == <<version, stale, entry, pc, got, queued, loop, cooling, tried, promised, served, deletes>>

Versions == 1..MaxVersion
None == 0
NoEntry == [schema |-> None, left |-> -1]
Nothing == [schema |-> None, wait |-> 0]
StaleCap == TTL + FetchTime + 1
Refresher == "refresher"
Sync == "sync"
Writers == Callers \cup {Refresher, Sync}

Cached == entry.schema # None
Expired(e) == e.left < 0

-----------------------------------------------------------------------------
(* The critical sections of the cache.                                     *)

\* Within a fifth of its TTL of its end, a hit asks for a refresh; a full
\* channel drops the request.
triggerRefresh ==
    queued' = IF Refreshing /\ entry.left * 5 < TTL /\ queued < ChannelSize
              THEN queued + 1 ELSE queued

Set(schema) ==
    /\ entry' = [schema |-> schema, left |-> TTL]
    /\ promised' = TTL

\* An answer is on its way to its writer.
Fetch(w) == got' = [got EXCEPT ![w] = [schema |-> version, wait |-> FetchTime]]
Forget(w) == got' = [got EXCEPT ![w] = Nothing]

-----------------------------------------------------------------------------
(* DiscoverToolset: Get, the registry, and Get once more when that fails.  *)

GetHits(c) ==
    /\ pc[c] \in {"idle", "failed"} /\ Cached /\ ~Expired(entry)
    /\ triggerRefresh
    /\ pc' = [pc EXCEPT ![c] = "idle"]
    /\ served' = Max({served, stale[entry.schema]})
    /\ UNCHANGED <<version, stale, entry, got, loop, cooling, tried, promised, deletes>>

GetMisses(c) ==
    /\ pc[c] \in {"idle", "failed"} /\ ~Cached
    /\ pc' = [pc EXCEPT ![c] = IF @ = "idle" THEN "fetching" ELSE "error"]
    /\ UNCHANGED <<version, stale, entry, got, queued, loop, cooling, tried, promised, served, deletes>>

GetFindsExpired(c) ==
    /\ pc[c] \in {"idle", "failed"} /\ Cached /\ Expired(entry)
    /\ pc' = [pc EXCEPT ![c] = IF @ = "idle" THEN "dropping" ELSE "droppingLast"]
    /\ UNCHANGED <<version, stale, entry, got, queued, loop, cooling, tried, promised, served, deletes>>

GetDropsExpired(c) ==
    /\ pc[c] \in {"dropping", "droppingLast"}
    /\ entry' = NoEntry
    /\ pc' = [pc EXCEPT ![c] = IF @ = "dropping" THEN "fetching" ELSE "error"]
    /\ UNCHANGED <<version, stale, got, queued, loop, cooling, tried, promised, served, deletes>>

Fetches(c) ==
    /\ pc[c] = "fetching"
    /\ \/ Fetch(c) /\ pc' = [pc EXCEPT ![c] = "storing"]
       \/ pc' = [pc EXCEPT ![c] = "failed"] /\ UNCHANGED got
    /\ UNCHANGED <<version, stale, entry, queued, loop, cooling, tried, promised, served, deletes>>

Stores(c) ==
    /\ pc[c] = "storing"
    /\ Set(got[c].schema) /\ Forget(c)
    /\ pc' = [pc EXCEPT ![c] = "idle"]
    /\ UNCHANGED <<version, stale, queued, loop, cooling, tried, served, deletes>>

\* The error is returned to the caller, who may ask again.
ReturnsError(c) ==
    /\ pc[c] = "error"
    /\ pc' = [pc EXCEPT ![c] = "idle"]
    /\ UNCHANGED <<version, stale, entry, got, queued, loop, cooling, tried, promised, served, deletes>>

-----------------------------------------------------------------------------
(* The refresh loop.                                                       *)

RefreshTakes ==
    /\ Refreshing /\ loop = "idle" /\ queued > 0
    /\ queued' = queued - 1
    /\ loop' = IF cooling > 0 \/ ~Cached THEN "idle" ELSE "fetching"
    /\ tried' = IF loop' = "fetching" THEN Cooldown ELSE tried
    /\ UNCHANGED <<version, stale, entry, pc, got, cooling, promised, served, deletes>>

RefreshFetches ==
    /\ loop = "fetching"
    /\ Fetch(Refresher)
    /\ loop' = "storing"
    /\ UNCHANGED <<version, stale, entry, pc, queued, cooling, tried, promised, served, deletes>>

\* Mutant: an entry that could not be refreshed is given another lifetime.
RefreshFailsRenewing ==
    /\ loop = "fetching"
    /\ loop' = "idle"
    /\ entry' = [entry EXCEPT !.left = TTL]
    /\ UNCHANGED <<version, stale, pc, got, queued, cooling, tried, promised, served, deletes>>
RefreshFails ==
    /\ loop = "fetching"
    /\ loop' = "idle"
    /\ UNCHANGED <<version, stale, entry, pc, got, queued, cooling, tried, promised, served, deletes>>

RefreshStores ==
    /\ loop = "storing"
    /\ Set(got[Refresher].schema) /\ Forget(Refresher)
    /\ loop' = "idle" /\ cooling' = Cooldown
    /\ UNCHANGED <<version, stale, pc, queued, tried, served, deletes>>

-----------------------------------------------------------------------------
(* One toolset of doSync, at any time of the sync interval.                *)

SyncFetches ==
    /\ Syncing /\ got[Sync] = Nothing
    /\ Fetch(Sync)
    /\ UNCHANGED <<version, stale, entry, pc, queued, loop, cooling, tried, promised, served, deletes>>

SyncStores ==
    /\ got[Sync] # Nothing
    /\ Set(got[Sync].schema) /\ Forget(Sync)
    /\ UNCHANGED <<version, stale, pc, queued, loop, cooling, tried, served, deletes>>

Delete ==
    /\ deletes < MaxDeletes /\ deletes' = deletes + 1
    /\ entry' = NoEntry /\ promised' = -1
    /\ UNCHANGED <<version, stale, pc, got, queued, loop, cooling, tried, served>>

-----------------------------------------------------------------------------

\* The registry publishes another schema.
Publish ==
    /\ version < MaxVersion /\ version' = version + 1
    /\ UNCHANGED <<stale, entry, pc, got, queued, loop, cooling, tried, promised, served, deletes>>

Down(n) == IF n > 0 THEN n - 1 ELSE 0
Left(n) == IF n >= 0 THEN n - 1 ELSE -1

Tick ==
    /\ \A w \in Writers : got[w] # Nothing => got[w].wait > 0
    /\ stale' = [v \in Versions |->
                    IF v < version /\ stale[v] < StaleCap THEN stale[v] + 1 ELSE stale[v]]
    /\ entry' = [entry EXCEPT !.left = Left(@)]
    /\ got' = [w \in Writers |-> [got[w] EXCEPT !.wait = Down(@)]]
    /\ cooling' = Down(cooling) /\ tried' = Down(tried) /\ promised' = Left(promised)
    /\ UNCHANGED <<version, pc, queued, loop, served, deletes>>

Init ==
    /\ version = 1 /\ stale = [v \in Versions |-> 0]
    /\ entry = NoEntry /\ pc = [c \in Callers |-> "idle"]
    /\ got = [w \in Writers |-> Nothing]
    /\ queued = 0 /\ loop = "idle" /\ cooling = 0 /\ tried = 0
    /\ promised = -1 /\ served = 0 /\ deletes = 0

Discover(c) ==
    \/ GetHits(c) \/ GetMisses(c) \/ GetFindsExpired(c) \/ GetDropsExpired(c)
    \/ Fetches(c) \/ Stores(c) \/ ReturnsError(c)
Refresh == RefreshTakes \/ RefreshFetches \/ RefreshFails \/ RefreshStores

Next ==
    \/ \E c \in Callers : Discover(c)
    \/ Refresh
    \/ SyncFetches \/ SyncStores \/ Delete \/ Publish \/ Tick

Spec == Init /\ [][Next]_vars

(* Goroutines run and time passes; the registry may fail for ever and      *)
(* nobody has to ask.                                                      *)
FairSpec ==
    /\ Spec /\ WF_vars(Tick) /\ WF_vars(SyncStores) /\ WF_vars(Refresh)
    /\ \A c \in Callers : WF_vars(pc[c] # "idle" /\ Discover(c))

-----------------------------------------------------------------------------

(* Types; nobody is given more than its own time to store what it fetched. *)
TypeOK ==
    /\ version \in Versions /\ stale \in [Versions -> 0..StaleCap]
    /\ entry \in [schema : 0..MaxVersion, left : -1..TTL]
    /\ pc \in [Callers -> {"idle", "dropping", "fetching", "storing", "failed",
                           "droppingLast", "error"}]
    /\ got \in [Writers -> [schema : 0..MaxVersion, wait : 0..FetchTime]]
    /\ queued \in 0..ChannelSize /\ loop \in {"idle", "fetching", "storing"}
    /\ cooling \in 0..Cooldown /\ tried \in 0..Cooldown
    /\ promised \in -1..TTL /\ served \in 0..StaleCap /\ deletes \in 0..MaxDeletes

(* A hit never serves a schema that the registry replaced longer ago than  *)
(* one lifetime of an entry and the time of one fetch, whoever wrote it    *)
(* and however late the write came.                                        *)
StaleBounded == served <= TTL + FetchTime

(* Once the registry stops publishing, every hit serves its last schema.   *)
Converges == <>[](Cached /\ ~Expired(entry) => entry.schema = version)

(* A schema that was stored is there until its TTL ends (Delete apart):    *)
(* the fallback of a request that the registry fails finds it.             *)
CachedUntilTTL ==
    [][\A c \in Callers : pc[c] = "failed" /\ pc'[c] = "error" => promised < 0]_vars

(* Two attempts to refresh the key are a cooldown apart.                   *)
AttemptsSpaced ==
    [][loop = "idle" /\ loop' = "fetching" => tried = 0]_vars

=============================================================================
