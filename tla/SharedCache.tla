---------------------------- MODULE SharedCache ----------------------------
(***************************************************************************)
(* CacheService as the processes of a deployment share it: the connection  *)
(* of each to Redis, the flag `connected' by which it chooses between      *)
(* Redis and its own fallback store, and one lock key with its time to     *)
(* live.  Redis itself is external: SET NX PX and the compare-and-delete   *)
(* script are atomic, and a key is gone when its time is up.               *)
(***************************************************************************)
EXTENDS Naturals

CONSTANTS
    Processes,         \* backend processes, each with a CacheService
    FallbackAllowed,   \* NODE_ENV is not production
    Owners,            \* random UUIDs, finitely many of them
    LockTtl            \* time to live of the lock, in time steps

ASSUME SharedCacheAssumption ==
    /\ FallbackAllowed \in BOOLEAN
    /\ LockTtl \in Nat
    /\ LockTtl > 0
    /\ "redis" \notin Processes

VARIABLES
    link,       \* link[p]: "off" (p is down), "open", "closed" or "none" (redis = null)
    connected,  \* connected[p]: the flag, which only an error event clears
    locks       \* locks[s]: the lock key in store s

cacheVars == <<link, connected, locks>>

\* Each process falls back to a store of its own.
Stores == {"redis"} \cup Processes

\* The key is absent.
NoLock == [ttl |-> 0]

Lock == [owner: Owners, ttl: 1..LockTtl]

CacheTypeOK ==
    /\ link \in [Processes -> {"off", "open", "closed", "none"}]
    /\ connected \in [Processes -> BOOLEAN]
    /\ locks \in [Stores -> Lock \cup {NoLock}]

CacheInit ==
    /\ link = [p \in Processes |-> "off"]
    /\ connected = [p \in Processes |-> FALSE]
    /\ locks = [s \in Stores |-> NoLock]

-----------------------------------------------------------------------------
(* Operations *)

Up(p) == link[p] # "off"

\* Mutant: the fallback store is used in production too.
NeverUnavailable(p) == connected[p] /\ link[p] # "open"

\* A cache operation of p throws: its Redis client is closed, or it may not
\* fall back (assertAllowed).
Unavailable(p) == IF connected[p] THEN link[p] # "open" ELSE ~FallbackAllowed

StoreOf(p) == IF connected[p] THEN "redis" ELSE p

Held(s) == locks[s] # NoLock

\* acquireCacheLock answers true.
AcquireLock(p, owner) ==
    /\ ~Unavailable(p)
    /\ ~Held(StoreOf(p))
    /\ locks' = [locks EXCEPT ![StoreOf(p)] = [owner |-> owner, ttl |-> LockTtl]]

\* acquireCacheLock answers false.
LockRefused(p) == ~Unavailable(p) /\ Held(StoreOf(p))

\* Mutant: whoever releases deletes the key.
ReleaseAnyLock(p, owner) ==
    /\ ~Unavailable(p)
    /\ locks' = [locks EXCEPT ![StoreOf(p)] = NoLock]

\* releaseCacheLock: only the owner's own key is deleted.
ReleaseLock(p, owner) ==
    /\ ~Unavailable(p)
    /\ locks' = [locks EXCEPT ![StoreOf(p)] =
                    IF @ # NoLock /\ @.owner = owner THEN NoLock ELSE @]

\* getReadiness of the health service.
Ready(p, mongoUp) == Up(p) /\ mongoUp /\ (connected[p] \/ FallbackAllowed)

-----------------------------------------------------------------------------
(* What happens to processes, connections and keys *)

\* onModuleInit: Redis answers, or the process goes on without it.
Boot(p) ==
    /\ ~Up(p)
    /\ \/ /\ link' = [link EXCEPT ![p] = "open"]
          /\ connected' = [connected EXCEPT ![p] = TRUE]
       \/ /\ link' = [link EXCEPT ![p] = "none"]
          /\ connected' = [connected EXCEPT ![p] = FALSE]
    /\ UNCHANGED locks

\* The client emits an error: handleRedisUnavailable.
LoseRedis(p) ==
    /\ link[p] = "open"
    /\ link' = [link EXCEPT ![p] = "none"]
    /\ connected' = [connected EXCEPT ![p] = FALSE]

\* The connection closes without one: retryStrategy gives up at once and the
\* handlers of close and end only log.
CloseQuietly(p) ==
    /\ link[p] = "open"
    /\ link' = [link EXCEPT ![p] = "closed"]
    /\ UNCHANGED connected

\* The process dies, and its fallback store with it.
Exit(p) ==
    /\ Up(p)
    /\ link' = [link EXCEPT ![p] = "off"]
    /\ connected' = [connected EXCEPT ![p] = FALSE]
    /\ locks' = [locks EXCEPT ![p] = NoLock]

\* Mutant: a key whose time is up stays.
ElapseLate ==
    /\ \E s \in Stores : Held(s)
    /\ locks' = [s \in Stores |->
                   IF locks[s].ttl = 0 THEN locks[s]
                   ELSE [locks[s] EXCEPT !.ttl = @ - 1]]
    /\ UNCHANGED <<link, connected>>

\* Time passes for every key.
Elapse ==
    /\ \E s \in Stores : Held(s)
    /\ locks' = [s \in Stores |->
                   IF ~Held(s) THEN NoLock
                   ELSE IF locks[s].ttl = 1 THEN NoLock
                   ELSE [locks[s] EXCEPT !.ttl = @ - 1]]
    /\ UNCHANGED <<link, connected>>

\* The bounded fallback store of p drops its oldest key to make room.
Evict(p) ==
    /\ Held(p)
    /\ locks' = [locks EXCEPT ![p] = NoLock]
    /\ UNCHANGED <<link, connected>>
=============================================================================
