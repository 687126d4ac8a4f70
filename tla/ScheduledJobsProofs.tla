------------------------- MODULE ScheduledJobsProofs -------------------------
(***************************************************************************)
(* Proofs about the two jobs that a cron schedule starts, for any number   *)
(* of processes, orders, stocks, days, failures and crashes.               *)
(*                                                                         *)
(* The execution cycle: its invariant is built in three layers, the cycle  *)
(* flag and the stages (AloneInProcess), the names of the locks            *)
(* (LocksNamed), and what an activation knows of its own lock (LeaseKept). *)
(*                                                                         *)
(* The daily refresh: the API answers once a day for a stock, but for what *)
(* failures and crashes lose, and a price refreshed today was made today.  *)
(* The two share no state; no definition here mentions both.               *)
(***************************************************************************)
EXTENDS ExecutionCycle, DailyQuotes, TLAPS

-----------------------------------------------------------------------------
(* The execution cycle *)

\* A cycle that is under way holds the flag of its process, which is up, and
\* is the only one there.
AloneInProcess ==
    /\ \A c \in Activations : stage[c] # "idle" => isRunning[c[1]] /\ Up(c[1])
    /\ \A c, d \in Activations : c # d /\ c[1] = d[1] => stage[c] = "idle" \/ stage[d] = "idle"

\* An activation signs with a UUID of its own, and what it signed is in Redis
\* or in the fallback store of its process.
LocksNamed ==
    /\ \A c \in Activations : owner[c][1] = c
    /\ \A s \in Stores : Held(s) => s = "redis" \/ s = locks[s].owner[1][1]

\* In production an activation with time left on its lock is inside the cycle,
\* and the lock in Redis is the one it took.
LeaseKept ==
    /\ \A c \in Activations : lease[c] > 0 => Inside(c)
    /\ UnexpiredLockKept

CycleInvariant == TypeOK /\ AloneInProcess /\ LocksNamed /\ LeaseKept

-----------------------------------------------------------------------------
(* The lock in a store *)

LEMMA LockShape == NoLock \notin Lock /\ NoLock.ttl = 0 /\ \A lock \in Lock : lock.ttl \in 1..LockTtl
  BY DEF NoLock, Lock

\* The names an activation signs with are UUIDs.
LEMMA OwnNames ==
    ASSUME NEW c \in Activations
    PROVE  /\ c[1] \in Processes
           /\ \A n \in {1, 2, 3} : <<c, n>> \in Owners /\ <<c, n>>[1] = c
  BY ExecutionCycleAssumption DEF Activations

\* Redis and the fallback store hold one lock each, so one of three names is free.
LEMMA FreshIsFree ==
    ASSUME LocksNamed, NEW c \in Activations
    PROVE  Fresh(c) \in {1, 2, 3}
<1> DEFINE Taken(n) == \E s \in Stores : Held(s) /\ locks[s].owner = <<c, n>>
<1>1. \A n \in {1, 2, 3} : Taken(n) =>
          \/ Held("redis") /\ locks["redis"].owner = <<c, n>>
          \/ Held(c[1]) /\ locks[c[1]].owner = <<c, n>>
  BY DEF LocksNamed
<1>2. \E n \in {1, 2, 3} : ~Taken(n)
  BY <1>1
<1>3. QED
  BY <1>2 DEF Fresh

\* What a cache operation that takes a lock does to the stores.
LEMMA Acquired ==
    ASSUME TypeOK, NEW c \in Activations, AcquireLock(c[1], owner[c])
    PROVE  /\ StoreOf(c[1]) \in Stores
           /\ StoreOf(c[1]) \in {"redis", c[1]}
           /\ ~FallbackAllowed => StoreOf(c[1]) = "redis"
           /\ ~Held(StoreOf(c[1]))
           /\ [owner |-> owner[c], ttl |-> LockTtl] \in Lock
           /\ locks' = [locks EXCEPT ![StoreOf(c[1])] = [owner |-> owner[c], ttl |-> LockTtl]]
           /\ locks' \in [Stores -> Lock \cup {NoLock}]
<1>1. c[1] \in Processes /\ owner[c] \in Owners /\ connected[c[1]] \in BOOLEAN
  BY OwnNames DEF TypeOK, CacheTypeOK
<1>2. [owner |-> owner[c], ttl |-> LockTtl] \in Lock
  BY <1>1, SharedCacheAssumption DEF Lock
<1>3. StoreOf(c[1]) \in Stores /\ StoreOf(c[1]) \in {"redis", c[1]}
  BY <1>1 DEF StoreOf, Stores
<1>4. ~FallbackAllowed => StoreOf(c[1]) = "redis"
  BY DEF AcquireLock, Unavailable, StoreOf
<1>5. locks' = [locks EXCEPT ![StoreOf(c[1])] = [owner |-> owner[c], ttl |-> LockTtl]]
      /\ ~Held(StoreOf(c[1]))
  BY DEF AcquireLock
<1>6. locks' \in [Stores -> Lock \cup {NoLock}]
  BY <1>2, <1>3, <1>5 DEF TypeOK, CacheTypeOK
<1>7. QED
  BY <1>2, <1>3, <1>4, <1>5, <1>6

\* A release empties at most one store, and only of the caller's own lock.
LEMMA Released ==
    ASSUME TypeOK, NEW c \in Activations,
           ReleaseLock(c[1], owner[c]) \/ locks' = locks
    PROVE  /\ locks' \in [Stores -> Lock \cup {NoLock}]
           /\ \A s \in Stores :
                 \/ locks'[s] = locks[s]
                 \/ locks'[s] = NoLock /\ Held(s) /\ locks[s].owner = owner[c]
<1>1. CASE locks' = locks
  BY <1>1 DEF TypeOK, CacheTypeOK
<1>2. CASE ReleaseLock(c[1], owner[c])
  <2> DEFINE store == StoreOf(c[1])
  <2>1. store \in Stores
    BY OwnNames DEF StoreOf, Stores
  <2>2. locks \in [Stores -> Lock \cup {NoLock}]
    BY DEF TypeOK, CacheTypeOK
  <2>3. locks' = [locks EXCEPT ![store] =
                     IF locks[store] # NoLock /\ locks[store].owner = owner[c]
                     THEN NoLock ELSE locks[store]]
    BY <1>2 DEF ReleaseLock
  <2> HIDE DEF store
  <2>4. QED
    BY <2>1, <2>2, <2>3 DEF Held
<1>3. QED
  BY <1>1, <1>2

\* What time does to a key.
Older(lock) == IF lock = NoLock \/ lock.ttl = 1 THEN NoLock
               ELSE [lock EXCEPT !.ttl = @ - 1]

LEMMA Aged ==
    ASSUME TypeOK, Elapse
    PROVE  /\ locks' = [s \in Stores |-> Older(locks[s])]
           /\ locks' \in [Stores -> Lock \cup {NoLock}]
<1>1. locks' = [s \in Stores |-> Older(locks[s])]
  BY DEF Elapse, Held, Older
<1>2. ASSUME NEW lock \in Lock \cup {NoLock} PROVE Older(lock) \in Lock \cup {NoLock}
  <2>1. CASE lock \in Lock /\ lock.ttl # 1
    BY <2>1, SharedCacheAssumption DEF Older, Lock, NoLock
  <2>2. QED
    BY <2>1 DEF Older
<1>3. \A s \in Stores : locks[s] \in Lock \cup {NoLock}
  BY DEF TypeOK, CacheTypeOK
<1>4. QED
  BY <1>1, <1>2, <1>3

-----------------------------------------------------------------------------
(* The state stays well-formed *)

LEMMA CycleTypes ==
    ASSUME TypeOK, LocksNamed, NEW c \in Activations, Fire(c) \/ CycleStep(c)
    PROVE  TypeOK'
<1>1. CASE Fire(c)
  BY <1>1, FreshIsFree, OwnNames DEF TypeOK, CacheTypeOK, cacheVars, orderVars, worldVars, Fire, Goto
<1>2. CASE TakeLock(c)
  <2>1. lease' \in [Activations -> 0..LockTtl]
    BY <1>2, SharedCacheAssumption DEF TypeOK, TakeLock
  <2>2. locks' \in [Stores -> Lock \cup {NoLock}]
    BY <1>2, Acquired DEF TakeLock
  <2>3. QED
    BY <1>2, <2>1, <2>2 DEF TypeOK, CacheTypeOK, orderVars, worldVars, TakeLock, Goto
<1>3. CASE MissLock(c)
  BY <1>3, OwnNames DEF TypeOK, CacheTypeOK, cacheVars, orderVars, worldVars, MissLock, Leave, Goto
<1>4. CASE ReadOrders(c)
  BY <1>4 DEF TypeOK, CacheTypeOK, cacheVars, orderVars, worldVars, ReadOrders, Goto
<1>5. CASE PriceOrder(c)
  BY <1>5 DEF TypeOK, CacheTypeOK, cacheVars, orderVars, worldVars, PriceOrder
<1>6. CASE Settle(c)
  BY <1>6 DEF TypeOK, CacheTypeOK, cacheVars, orderVars, worldVars, Settle
<1>7. CASE Finish(c)
  BY <1>7 DEF TypeOK, CacheTypeOK, cacheVars, orderVars, worldVars, Finish, Goto
<1>8. CASE Release(c)
  <2>1. locks' \in [Stores -> Lock \cup {NoLock}]
    BY <1>8, Released DEF Release
  <2>2. lease' \in [Activations -> 0..LockTtl]
    BY <1>8, SharedCacheAssumption DEF TypeOK, Release
  <2>3. QED
    BY <1>8, <2>1, <2>2, OwnNames
    DEF TypeOK, CacheTypeOK, orderVars, worldVars, Release, Leave, Goto
<1>9. QED
  BY <1>1, <1>2, <1>3, <1>4, <1>5, <1>6, <1>7, <1>8 DEF CycleStep

LEMMA FaultTypes ==
    ASSUME TypeOK,
           \/ \E c \in Activations : LoseAnswer(c) \/ FailReading(c) \/ FailSettling(c)
           \/ \E p \in Processes : Disconnect(p) \/ Crash(p)
    PROVE  TypeOK'
<1>1. Fault => faults' \in 0..MaxFaults
  BY ExecutionCycleAssumption DEF TypeOK, Fault
<1>2. ASSUME NEW c \in Activations, LoseAnswer(c) PROVE TypeOK'
  <2>1. locks' \in [Stores -> Lock \cup {NoLock}]
    BY <1>2, Acquired DEF LoseAnswer
  <2>2. /\ link' \in [Processes -> {"off", "open", "closed", "none"}]
        /\ connected' \in [Processes -> BOOLEAN]
    BY <1>2, OwnNames DEF LoseAnswer, LoseRedis, CloseQuietly, TypeOK, CacheTypeOK
  <2>3. QED
    BY <1>1, <1>2, <2>1, <2>2, OwnNames
    DEF TypeOK, CacheTypeOK, orderVars, worldVars, LoseAnswer, Leave, Goto
<1>3. ASSUME NEW c \in Activations, FailReading(c) PROVE TypeOK'
  BY <1>1, <1>3 DEF TypeOK, CacheTypeOK, cacheVars, orderVars, worldVars, FailReading, Goto
<1>4. ASSUME NEW c \in Activations, FailSettling(c) PROVE TypeOK'
  BY <1>1, <1>4 DEF TypeOK, CacheTypeOK, cacheVars, orderVars, worldVars, FailSettling
<1>5. ASSUME NEW p \in Processes, Disconnect(p) PROVE TypeOK'
  BY <1>1, <1>5 DEF TypeOK, CacheTypeOK, cycleVars, orderVars, worldVars, Disconnect, LoseRedis,
                    CloseQuietly
<1>6. ASSUME NEW p \in Processes, Crash(p) PROVE TypeOK'
  <2>1. /\ lease' \in [Activations -> 0..LockTtl]
        /\ todo' \in [Activations -> SUBSET Orders]
        /\ target' \in [Activations -> SUBSET Orders]
        /\ stage' \in [Activations -> {"idle", "locking", "reading", "working", "releasing"}]
    BY <1>6, SharedCacheAssumption DEF TypeOK, Crash
  <2>2. CacheTypeOK'
    BY <1>6 DEF TypeOK, CacheTypeOK, Crash, Exit, Stores
  <2>3. QED
    BY <1>1, <1>6, <2>1, <2>2 DEF TypeOK, orderVars, worldVars, Crash
<1>7. QED
  BY <1>2, <1>3, <1>4, <1>5, <1>6

LEMMA WorldTypes ==
    ASSUME TypeOK,
           \/ \E p \in Processes : Start(p) \/ DropFallbackLock(p)
           \/ \E o \in Orders : PlaceOrder(o) \/ CancelOrder(o) \/ MovePrice(o)
           \/ Time \/ OpenOrClose \/ UNCHANGED vars
    PROVE  TypeOK'
<1>1. ASSUME NEW p \in Processes, Start(p) PROVE TypeOK'
  BY <1>1 DEF TypeOK, CacheTypeOK, cycleVars, orderVars, worldVars, Start, Boot
<1>2. ASSUME NEW p \in Processes, DropFallbackLock(p) PROVE TypeOK'
  BY <1>2 DEF TypeOK, CacheTypeOK, cycleVars, orderVars, worldVars, DropFallbackLock, Evict, Stores
<1>3. ASSUME NEW o \in Orders, PlaceOrder(o) \/ CancelOrder(o) \/ MovePrice(o) PROVE TypeOK'
  BY <1>3 DEF TypeOK, CacheTypeOK, cacheVars, cycleVars, worldVars, orderVars, PlaceOrder,
              CancelOrder, MovePrice
<1>4. CASE Time
  <2>1. CacheTypeOK'
    BY <1>4, Aged DEF TypeOK, CacheTypeOK, Time, Elapse
  <2>2. lease' \in [Activations -> 0..LockTtl]
    BY <1>4, SharedCacheAssumption DEF TypeOK, Time
  <2>3. QED
    BY <1>4, <2>1, <2>2 DEF TypeOK, orderVars, worldVars, Time
<1>5. CASE OpenOrClose
  BY <1>5 DEF TypeOK, CacheTypeOK, cacheVars, cycleVars, orderVars, OpenOrClose
<1>6. CASE UNCHANGED vars
  BY <1>6 DEF TypeOK, CacheTypeOK, vars, cacheVars, cycleVars, orderVars, worldVars
<1>7. QED
  BY <1>1, <1>2, <1>3, <1>4, <1>5, <1>6

-----------------------------------------------------------------------------
(* One cycle per process *)

LEMMA UpKept ==
    ASSUME TypeOK, NEW p \in Processes,
           LoseRedis(p) \/ CloseQuietly(p) \/ Boot(p)
    PROVE  \A q \in Processes : Up(q) => Up(q)'
  BY DEF TypeOK, CacheTypeOK, LoseRedis, CloseQuietly, Boot, Up

\* One activation moves on without leaving the cycle, or nobody does, and no
\* process goes down.
Proceeds ==
    /\ \A c \in Activations : stage'[c] # "idle" => stage[c] # "idle"
    /\ isRunning' = isRunning
    /\ \A p \in Processes : Up(p) => Up(p)'

\* One activation ends its cycle.
Leaves(c) ==
    /\ stage[c] # "idle"
    /\ Leave(c)
    /\ \A p \in Processes : Up(p) => Up(p)'

LEMMA AloneStep ==
    ASSUME TypeOK, AloneInProcess, [Next]_vars
    PROVE  AloneInProcess'
<1>1. \A c \in Activations : c[1] \in Processes
  BY OwnNames
<1>2. ASSUME Proceeds PROVE AloneInProcess'
  BY <1>1, <1>2 DEF AloneInProcess, Proceeds
<1>3. ASSUME NEW c \in Activations, Leaves(c) PROVE AloneInProcess'
  <2>1. /\ \A d \in Activations : stage'[d] = IF d = c THEN "idle" ELSE stage[d]
        /\ \A p \in Processes : isRunning'[p] = IF p = c[1] THEN FALSE ELSE isRunning[p]
    BY <1>1, <1>3 DEF Leaves, Leave, Goto, TypeOK
  <2>2. QED
    BY <1>1, <1>3, <2>1 DEF AloneInProcess, Leaves
<1>4. ASSUME NEW c \in Activations, Fire(c) PROVE AloneInProcess'
  <2>1. \A d \in Activations : d[1] = c[1] => stage[d] = "idle"
    BY <1>1, <1>4 DEF AloneInProcess, Fire
  <2>2. /\ \A d \in Activations : stage'[d] = IF d = c THEN "locking" ELSE stage[d]
        /\ \A p \in Processes : isRunning'[p] = IF p = c[1] THEN TRUE ELSE isRunning[p]
        /\ Up(c[1]) /\ link' = link
    BY <1>1, <1>4 DEF Fire, Goto, TypeOK, cacheVars
  <2>3. QED
    BY <1>1, <2>1, <2>2 DEF AloneInProcess, Up
<1>5. ASSUME NEW c \in Activations, TakeLock(c) \/ ReadOrders(c) \/ Finish(c) \/ FailReading(c)
      PROVE  AloneInProcess'
  <2>1. Proceeds
    BY <1>5 DEF Proceeds, TakeLock, ReadOrders, Finish, FailReading, Goto, TypeOK, Up, cacheVars
  <2>2. QED
    BY <1>2, <2>1
<1>6. ASSUME NEW c \in Activations, PriceOrder(c) \/ Settle(c) \/ FailSettling(c)
      PROVE  AloneInProcess'
  <2>1. Proceeds
    BY <1>6 DEF Proceeds, PriceOrder, Settle, FailSettling, Up, cacheVars
  <2>2. QED
    BY <1>2, <2>1
<1>7. ASSUME NEW c \in Activations, MissLock(c) \/ Release(c) PROVE AloneInProcess'
  <2>1. Leaves(c)
    BY <1>7 DEF Leaves, MissLock, Release, Up, cacheVars
  <2>2. QED
    BY <1>3, <2>1
<1>8. ASSUME NEW c \in Activations, LoseAnswer(c) PROVE AloneInProcess'
  <2>1. Leaves(c)
    BY <1>1, <1>8, UpKept DEF Leaves, LoseAnswer
  <2>2. QED
    BY <1>3, <2>1
<1>9. ASSUME NEW p \in Processes, Crash(p) PROVE AloneInProcess'
  <2>1. /\ \A d \in Activations : stage'[d] = IF d[1] = p THEN "idle" ELSE stage[d]
        /\ \A q \in Processes \ {p} : isRunning'[q] = isRunning[q] /\ link'[q] = link[q]
    BY <1>9 DEF Crash, Exit, TypeOK, CacheTypeOK
  <2>2. QED
    BY <1>1, <2>1 DEF AloneInProcess, Up
<1>10. ASSUME NEW p \in Processes, Start(p) \/ Disconnect(p) \/ DropFallbackLock(p)
       PROVE  AloneInProcess'
  <2>1. Proceeds
    BY <1>10, UpKept DEF Proceeds, Start, Disconnect, DropFallbackLock, Evict, cycleVars, Up
  <2>2. QED
    BY <1>2, <2>1
<1>11. ASSUME NEW o \in Orders, PlaceOrder(o) \/ CancelOrder(o) \/ MovePrice(o)
       PROVE  AloneInProcess'
  <2>1. Proceeds
    BY <1>11 DEF Proceeds, PlaceOrder, CancelOrder, MovePrice, cacheVars, cycleVars, Up
  <2>2. QED
    BY <1>2, <2>1
<1>12. ASSUME Time \/ OpenOrClose \/ UNCHANGED vars PROVE AloneInProcess'
  <2>1. Proceeds
    BY <1>12 DEF Proceeds, Time, Elapse, OpenOrClose, vars, cacheVars, cycleVars, Up
  <2>2. QED
    BY <1>2, <2>1
<1>13. QED
  BY <1>4, <1>5, <1>6, <1>7, <1>8, <1>9, <1>10, <1>11, <1>12 DEF Next, CycleStep

-----------------------------------------------------------------------------
(* Who signed the locks *)

LEMMA SignedStep ==
    ASSUME TypeOK, LocksNamed, [Next]_vars
    PROVE  LocksNamed'
<1>1. \A c \in Activations : c[1] \in Processes
  BY OwnNames
<1>2. ASSUME owner' = owner,
             \A s \in Stores : locks'[s] \in {locks[s], NoLock}
      PROVE  LocksNamed'
  BY <1>2 DEF LocksNamed, Held
<1>3. ASSUME NEW c \in Activations, AcquireLock(c[1], owner[c]), owner' = owner
      PROVE  LocksNamed'
  <2> DEFINE store == StoreOf(c[1])
             lock == [owner |-> owner[c], ttl |-> LockTtl]
  <2>1. /\ \A s \in Stores : locks'[s] = IF s = store THEN lock ELSE locks[s]
        /\ store \in {"redis", c[1]}
    BY <1>3, Acquired DEF TypeOK, CacheTypeOK
  <2>2. lock.owner = owner[c] /\ owner[c][1] = c
    BY DEF LocksNamed
  <2>3. QED
    BY <1>3, <2>1, <2>2 DEF LocksNamed, Held
<1>4. ASSUME NEW c \in Activations, Fire(c) PROVE LocksNamed'
  <2>1. \A d \in Activations : owner'[d] = IF d = c THEN <<c, Fresh(c)>> ELSE owner[d]
    BY <1>4 DEF Fire, TypeOK
  <2>2. locks' = locks
    BY <1>4 DEF Fire, cacheVars
  <2>3. QED
    BY <2>1, <2>2 DEF LocksNamed, Held
<1>5. ASSUME NEW c \in Activations, TakeLock(c) \/ LoseAnswer(c) PROVE LocksNamed'
  BY <1>3, <1>5 DEF TakeLock, LoseAnswer
<1>6. ASSUME NEW c \in Activations,
             \/ MissLock(c) \/ ReadOrders(c) \/ PriceOrder(c) \/ Settle(c) \/ Finish(c)
             \/ FailReading(c) \/ FailSettling(c)
      PROVE  LocksNamed'
  <2>1. owner' = owner /\ locks' = locks
    BY <1>6 DEF MissLock, ReadOrders, PriceOrder, Settle, Finish, FailReading, FailSettling,
                cacheVars
  <2>2. QED
    BY <1>2, <2>1
<1>7. ASSUME NEW c \in Activations, Release(c) PROVE LocksNamed'
  <2>1. \A s \in Stores : locks'[s] \in {locks[s], NoLock}
    BY <1>7, Released DEF Release
  <2>2. QED
    BY <1>2, <1>7, <2>1 DEF Release
<1>8. ASSUME NEW p \in Processes,
             Crash(p) \/ Start(p) \/ Disconnect(p) \/ DropFallbackLock(p)
      PROVE  LocksNamed'
  <2>1. \A s \in Stores : locks'[s] \in {locks[s], NoLock}
    BY <1>8 DEF Crash, Exit, Start, Boot, Disconnect, DropFallbackLock, Evict, TypeOK, CacheTypeOK
  <2>2. owner' = owner
    BY <1>8 DEF Crash, Start, Disconnect, DropFallbackLock, cycleVars
  <2>3. QED
    BY <1>2, <2>1, <2>2
<1>9. ASSUME NEW o \in Orders, PlaceOrder(o) \/ CancelOrder(o) \/ MovePrice(o)
      PROVE  LocksNamed'
  <2>1. owner' = owner /\ locks' = locks
    BY <1>9 DEF PlaceOrder, CancelOrder, MovePrice, cacheVars, cycleVars
  <2>2. QED
    BY <1>2, <2>1
<1>10. ASSUME OpenOrClose \/ UNCHANGED vars PROVE LocksNamed'
  <2>1. owner' = owner /\ locks' = locks
    BY <1>10 DEF OpenOrClose, vars, cacheVars, cycleVars
  <2>2. QED
    BY <1>2, <2>1
<1>11. CASE Time
  <2>1. \A s \in Stores : locks'[s] = Older(locks[s])
    BY <1>11, Aged DEF Time
  <2>2. \A s \in Stores : Older(locks[s]) = NoLock \/ Older(locks[s]).owner = locks[s].owner
    BY DEF Older, TypeOK, CacheTypeOK, Lock
  <2>3. \A s \in Stores : Held(s)' => Held(s) /\ locks'[s].owner = locks[s].owner
    BY <2>1, <2>2 DEF Held, Older
  <2>4. owner' = owner
    BY <1>11 DEF Time
  <2>5. QED
    BY <2>3, <2>4 DEF LocksNamed
<1>12. QED
  BY <1>4, <1>5, <1>6, <1>7, <1>8, <1>9, <1>10, <1>11 DEF Next, CycleStep

-----------------------------------------------------------------------------
(* The lock an activation knows of *)

\* Every lease goes on, ends, or belongs to an activation that stays inside.
LEMMA LeaseInside ==
    ASSUME TypeOK, AloneInProcess, [Next]_vars,
           \A c \in Activations : lease[c] > 0 => Inside(c)
    PROVE  \A c \in Activations : lease'[c] > 0 => Inside(c)'
<1>1. ASSUME NEW c \in Activations, Fire(c) \/ CycleStep(c)
      PROVE  \A d \in Activations : lease'[d] > 0 => Inside(d)'
  <2>1. CASE Fire(c)
    BY <2>1 DEF Fire, Goto, Inside, TypeOK
  <2>2. CASE TakeLock(c)
    BY <2>2 DEF TakeLock, Goto, Inside, TypeOK
  <2>3. CASE MissLock(c)
    BY <2>3 DEF MissLock, Leave, Goto, Inside, TypeOK
  <2>4. CASE ReadOrders(c)
    BY <2>4 DEF ReadOrders, Goto, Inside, TypeOK
  <2>5. CASE PriceOrder(c) \/ Settle(c)
    BY <2>5 DEF PriceOrder, Settle, Inside
  <2>6. CASE Finish(c)
    BY <2>6 DEF Finish, Goto, Inside, TypeOK
  <2>7. CASE Release(c)
    BY <2>7 DEF Release, Leave, Goto, Inside, TypeOK
  <2>8. QED
    BY <1>1, <2>1, <2>2, <2>3, <2>4, <2>5, <2>6, <2>7 DEF CycleStep
<1>2. ASSUME NEW c \in Activations, LoseAnswer(c) \/ FailReading(c) \/ FailSettling(c)
      PROVE  \A d \in Activations : lease'[d] > 0 => Inside(d)'
  BY <1>2 DEF LoseAnswer, FailReading, FailSettling, Leave, Goto, Inside, TypeOK
<1>3. ASSUME NEW p \in Processes,
             Start(p) \/ Disconnect(p) \/ Crash(p) \/ DropFallbackLock(p)
      PROVE  \A d \in Activations : lease'[d] > 0 => Inside(d)'
  BY <1>3 DEF Start, Disconnect, Crash, DropFallbackLock, cycleVars, Inside
<1>4. ASSUME NEW o \in Orders, PlaceOrder(o) \/ CancelOrder(o) \/ MovePrice(o)
      PROVE  \A d \in Activations : lease'[d] > 0 => Inside(d)'
  BY <1>4 DEF PlaceOrder, CancelOrder, MovePrice, cycleVars, Inside
<1>5. CASE Time
  <2>1. \A d \in Activations : lease'[d] > 0 => lease[d] > 0
    BY <1>5 DEF Time, TypeOK
  <2>2. stage' = stage
    BY <1>5 DEF Time
  <2>3. QED
    BY <2>1, <2>2 DEF Inside
<1>6. CASE OpenOrClose \/ UNCHANGED vars
  BY <1>6 DEF OpenOrClose, vars, cycleVars, Inside
<1>7. QED
  BY <1>1, <1>2, <1>3, <1>4, <1>5, <1>6 DEF Next

\* In production the lock in Redis is untouched while some lease has time left,
\* unless its own activation lets go of it or time passes for both.
LEMMA LeaseStep ==
    ASSUME CycleInvariant, [Next]_vars
    PROVE  LeaseKept'
<1>1. \A c \in Activations : lease'[c] > 0 => Inside(c)'
  BY LeaseInside DEF CycleInvariant, LeaseKept
<1> SUFFICES ASSUME ~FallbackAllowed
             PROVE  \A c \in Activations :
                       lease'[c] > 0 => locks'["redis"] = [owner |-> owner'[c], ttl |-> lease'[c]]
  BY <1>1 DEF LeaseKept, UnexpiredLockKept
<1> DEFINE Redis == locks["redis"]
           Kept(c) == lease'[c] > 0 => locks'["redis"] = [owner |-> owner'[c], ttl |-> lease'[c]]
<1>2. /\ TypeOK /\ locks \in [Stores -> Lock \cup {NoLock}]
      /\ lease \in [Activations -> 0..LockTtl]
  BY DEF CycleInvariant, TypeOK, CacheTypeOK
<1>3. /\ \A c \in Activations : lease[c] > 0 => Redis = [owner |-> owner[c], ttl |-> lease[c]]
      /\ \A c \in Activations : lease[c] > 0 => Inside(c)
      /\ \A c \in Activations : owner[c][1] = c
  BY DEF CycleInvariant, LeaseKept, UnexpiredLockKept, LocksNamed
<1>4. \A c \in Activations : lease[c] > 0 => Held("redis") /\ Redis.owner = owner[c]
  <2> SUFFICES ASSUME NEW c \in Activations, lease[c] > 0
               PROVE  Held("redis") /\ Redis.owner = owner[c]
    OBVIOUS
  <2>1. Redis = [owner |-> owner[c], ttl |-> lease[c]]
    BY <1>3
  <2>2. Redis.ttl = lease[c] /\ Redis.owner = owner[c]
    BY <2>1
  <2>3. QED
    BY <1>2, <2>2, LockShape DEF Held
<1>5. "redis" \in Stores /\ \A p \in Processes : p # "redis" /\ p \in Stores
  BY SharedCacheAssumption DEF Stores
<1>6. ASSUME lease' = lease, owner' = owner, locks'["redis"] = Redis
      PROVE  \A c \in Activations : Kept(c)
  BY <1>3, <1>6
<1>7. ASSUME NEW c \in Activations, Fire(c) PROVE \A d \in Activations : Kept(d)
  <2>1. /\ lease' = lease /\ locks' = locks
        /\ \A d \in Activations : d # c => owner'[d] = owner[d]
        /\ ~Inside(c)
    BY <1>2, <1>7 DEF Fire, TypeOK, cacheVars, Inside
  <2>2. QED
    BY <1>3, <2>1
<1>8. ASSUME NEW c \in Activations, AcquireLock(c[1], owner[c])
      PROVE  /\ \A d \in Activations : lease[d] = 0
             /\ locks'["redis"] = [owner |-> owner[c], ttl |-> LockTtl]
  <2>1. StoreOf(c[1]) = "redis" /\ ~Held("redis")
    BY <1>2, <1>8, Acquired
  <2>2. locks' = [locks EXCEPT !["redis"] = [owner |-> owner[c], ttl |-> LockTtl]]
    BY <1>2, <1>8, <2>1, Acquired
  <2>3. QED
    BY <1>2, <1>4, <1>5, <2>1, <2>2
<1>9. ASSUME NEW c \in Activations, TakeLock(c) PROVE \A d \in Activations : Kept(d)
  <2>1. /\ \A d \in Activations : lease'[d] = IF d = c THEN LockTtl ELSE lease[d]
        /\ owner' = owner
    BY <1>2, <1>9 DEF TakeLock
  <2>2. /\ \A d \in Activations : lease[d] = 0
        /\ locks'["redis"] = [owner |-> owner[c], ttl |-> LockTtl]
    <3>1. AcquireLock(c[1], owner[c])
      BY <1>9 DEF TakeLock
    <3>2. QED
      BY <1>8, <3>1
  <2>3. QED
    BY <2>1, <2>2
<1>10. ASSUME NEW c \in Activations, LoseAnswer(c) PROVE \A d \in Activations : Kept(d)
  <2>1. AcquireLock(c[1], owner[c]) /\ lease' = lease
    BY <1>10 DEF LoseAnswer
  <2>2. \A d \in Activations : lease[d] = 0
    BY <1>8, <2>1
  <2>3. QED
    BY <2>1, <2>2
<1>11. ASSUME NEW c \in Activations,
              \/ MissLock(c) \/ ReadOrders(c) \/ PriceOrder(c) \/ Settle(c) \/ Finish(c)
              \/ FailReading(c) \/ FailSettling(c)
       PROVE  \A d \in Activations : Kept(d)
  <2>1. owner' = owner /\ locks' = locks /\ lease' = lease
    BY <1>11 DEF MissLock, ReadOrders, PriceOrder, Settle, Finish, FailReading, FailSettling,
                 cacheVars
  <2>2. QED
    BY <1>6, <2>1
<1>12. ASSUME NEW c \in Activations, Release(c) PROVE \A d \in Activations : Kept(d)
  <2>1. /\ \A d \in Activations : lease'[d] = IF d = c THEN 0 ELSE lease[d]
        /\ owner' = owner
    BY <1>2, <1>12 DEF Release
  <2>2. locks'["redis"] = Redis \/ Redis.owner = owner[c]
    BY <1>2, <1>5, <1>12, Released DEF Release
  <2>3. \A d \in Activations : d # c /\ lease[d] > 0 => locks'["redis"] = Redis
    BY <1>3, <1>4, <2>2
  <2>4. QED
    BY <1>3, <2>1, <2>3
<1>13. ASSUME NEW p \in Processes, Crash(p) PROVE \A d \in Activations : Kept(d)
  <2>1. /\ \A d \in Activations : lease'[d] = IF d[1] = p THEN 0 ELSE lease[d]
        /\ owner' = owner
    BY <1>13 DEF Crash
  <2>2. locks'["redis"] = Redis
    BY <1>2, <1>5, <1>13 DEF Crash, Exit
  <2>3. QED
    BY <1>3, <2>1, <2>2
<1>14. ASSUME NEW p \in Processes, Start(p) \/ Disconnect(p) \/ DropFallbackLock(p)
       PROVE  \A d \in Activations : Kept(d)
  <2>1. owner' = owner /\ lease' = lease
    BY <1>14 DEF Start, Disconnect, DropFallbackLock, cycleVars
  <2>2. locks'["redis"] = Redis
    BY <1>2, <1>5, <1>14 DEF Start, Boot, Disconnect, DropFallbackLock, Evict
  <2>3. QED
    BY <1>6, <2>1, <2>2
<1>15. ASSUME NEW o \in Orders, PlaceOrder(o) \/ CancelOrder(o) \/ MovePrice(o)
       PROVE  \A d \in Activations : Kept(d)
  BY <1>6, <1>15 DEF PlaceOrder, CancelOrder, MovePrice, cacheVars, cycleVars
<1>16. CASE Time
  <2> SUFFICES ASSUME NEW d \in Activations, lease'[d] > 0
               PROVE  locks'["redis"] = [owner |-> owner'[d], ttl |-> lease'[d]]
    OBVIOUS
  <2>1. lease'[d] = lease[d] - 1 /\ lease[d] > 1 /\ owner' = owner
    BY <1>2, <1>16 DEF Time
  <2>2. Redis = [owner |-> owner[d], ttl |-> lease[d]] /\ Redis # NoLock
    BY <1>2, <1>3, <1>4, <2>1 DEF Held
  <2>3. locks'["redis"] = Older(Redis)
    BY <1>2, <1>5, <1>16, Aged DEF Time
  <2>4. Older(Redis) = [owner |-> owner[d], ttl |-> lease[d] - 1]
    BY <1>2, <2>1, <2>2 DEF Older
  <2>5. QED
    BY <2>1, <2>3, <2>4
<1>17. CASE OpenOrClose \/ UNCHANGED vars
  BY <1>6, <1>17 DEF OpenOrClose, vars, cacheVars, cycleVars
<1>18. QED
  BY <1>7, <1>9, <1>10, <1>11, <1>12, <1>13, <1>14, <1>15, <1>16, <1>17 DEF Next, CycleStep

-----------------------------------------------------------------------------
(* Theorems *)

LEMMA CycleInvariance == Spec => []CycleInvariant
<1>1. Init => CycleInvariant
  <2> SUFFICES ASSUME Init PROVE CycleInvariant
    OBVIOUS
  <2>1. TypeOK
    BY SharedCacheAssumption, ExecutionCycleAssumption, OwnNames
    DEF Init, CacheInit, TypeOK, CacheTypeOK
  <2>2. AloneInProcess
    BY DEF Init, AloneInProcess
  <2>3. LocksNamed
    BY DEF Init, CacheInit, LocksNamed, Held
  <2>4. LeaseKept
    BY DEF Init, LeaseKept, UnexpiredLockKept
  <2>5. QED
    BY <2>1, <2>2, <2>3, <2>4 DEF CycleInvariant
<1>2. CycleInvariant /\ [Next]_vars => CycleInvariant'
  <2> SUFFICES ASSUME CycleInvariant, [Next]_vars PROVE CycleInvariant'
    OBVIOUS
  <2>1. TypeOK'
    BY CycleTypes, FaultTypes, WorldTypes DEF CycleInvariant, Next
  <2>2. AloneInProcess' /\ LocksNamed'
    BY AloneStep, SignedStep DEF CycleInvariant
  <2>3. LeaseKept'
    BY LeaseStep
  <2>4. QED
    BY <2>1, <2>2, <2>3 DEF CycleInvariant
<1>3. QED
  BY <1>1, <1>2, PTL DEF Spec

\* In no process does a second cycle run beside the first, however its lock fared.
THEOREM CycleOnePerProcess == Spec => []OneCyclePerProcess
<1>1. CycleInvariant => OneCyclePerProcess
  BY DEF CycleInvariant, AloneInProcess, OneCyclePerProcess
<1>2. QED
  BY <1>1, CycleInvariance, PTL

\* In production a lock stays in Redis under its owner's name until it expires.
THEOREM CycleUnexpiredLockKept == Spec => []UnexpiredLockKept
<1>1. CycleInvariant => UnexpiredLockKept
  BY DEF CycleInvariant, LeaseKept
<1>2. QED
  BY <1>1, CycleInvariance, PTL

\* In production two cycles overlap only once the lock of one of them expired.
THEOREM CycleOverlapOnlyAfterExpiry == Spec => []OverlapOnlyAfterExpiry
<1>1. CycleInvariant => OverlapOnlyAfterExpiry
  <2> SUFFICES ASSUME CycleInvariant, ~FallbackAllowed,
                      NEW c \in Activations, NEW d \in Activations,
                      lease[c] # 0, lease[d] # 0
               PROVE  c = d
    BY DEF OverlapOnlyAfterExpiry
  <2>1. lease[c] > 0 /\ lease[d] > 0
    BY DEF CycleInvariant, TypeOK
  <2>2. /\ locks["redis"] = [owner |-> owner[c], ttl |-> lease[c]]
        /\ locks["redis"] = [owner |-> owner[d], ttl |-> lease[d]]
    BY <2>1 DEF CycleInvariant, LeaseKept, UnexpiredLockKept
  <2>3. owner[c] = owner[d]
    BY <2>2
  <2>4. QED
    BY <2>3 DEF CycleInvariant, LocksNamed
<1>2. QED
  BY <1>1, CycleInvariance, PTL

\* An order is filled at most once, and never after it was cancelled, with any
\* number of cycles at once.
THEOREM CycleFilledOnce == Spec => []FilledOnce
<1>1. Init => FilledOnce
  BY DEF Init, FilledOnce
<1>2. CycleInvariant /\ FilledOnce /\ [Next]_vars => FilledOnce'
  <2> SUFFICES ASSUME CycleInvariant, FilledOnce, [Next]_vars PROVE FilledOnce'
    OBVIOUS
  <2>1. status \in [Orders -> {"NEW", "PENDING", "EXECUTED", "CANCELLED"}]
        /\ fills \in [Orders -> Nat]
        /\ \A c \in Activations : target[c] \subseteq Orders
    BY DEF CycleInvariant, TypeOK
  <2>2. ASSUME NEW c \in Activations, Settle(c) PROVE FilledOnce'
    BY <2>1, <2>2 DEF Settle, FilledOnce, orderVars
  <2>3. ASSUME NEW o \in Orders, PlaceOrder(o) \/ CancelOrder(o) PROVE FilledOnce'
    BY <2>1, <2>3 DEF PlaceOrder, CancelOrder, FilledOnce
  <2>4. ASSUME UNCHANGED orderVars PROVE FilledOnce'
    BY <2>4 DEF orderVars, FilledOnce
  <2>5. ASSUME NEW c \in Activations,
               \/ Fire(c) \/ TakeLock(c) \/ MissLock(c) \/ ReadOrders(c) \/ PriceOrder(c)
               \/ Finish(c) \/ Release(c)
               \/ LoseAnswer(c) \/ FailReading(c) \/ FailSettling(c)
        PROVE  UNCHANGED orderVars
    BY <2>5 DEF Fire, TakeLock, MissLock, ReadOrders, PriceOrder, Finish, Release, LoseAnswer,
                FailReading, FailSettling
  <2>6. ASSUME NEW p \in Processes,
               Start(p) \/ Disconnect(p) \/ Crash(p) \/ DropFallbackLock(p)
        PROVE  UNCHANGED orderVars
    BY <2>6 DEF Start, Disconnect, Crash, DropFallbackLock
  <2>7. ASSUME NEW o \in Orders, MovePrice(o) PROVE UNCHANGED orderVars
    BY <2>7 DEF MovePrice
  <2>8. ASSUME Time \/ OpenOrClose \/ UNCHANGED vars PROVE UNCHANGED orderVars
    BY <2>8 DEF Time, OpenOrClose, vars
  <2>9. QED
    BY <2>2, <2>3, <2>4, <2>5, <2>6, <2>7, <2>8 DEF Next, CycleStep
<1>3. QED
  BY <1>1, <1>2, CycleInvariance, PTL DEF Spec

-----------------------------------------------------------------------------
(* Readiness *)

\* The flag is up exactly as long as a connection is open or has closed quietly.
FlagRaised == \A p \in Processes : connected[p] <=> link[p] \in {"open", "closed"}

\* A process that is ready in production without Redis has a connection that closed
\* without an error: no other failure or order of events breaks ReadyMeansRedis.
THEOREM CycleReadyUnlessClosed ==
    Spec => [](~FallbackAllowed =>
                   \A p \in Processes : Ready(p, TRUE) => ~Unavailable(p) \/ link[p] = "closed")
<1>1. Init => FlagRaised
  BY DEF Init, CacheInit, FlagRaised
<1>2. CycleInvariant /\ FlagRaised /\ [Next]_vars => FlagRaised'
  <2> SUFFICES ASSUME CycleInvariant, FlagRaised, [Next]_vars PROVE FlagRaised'
    OBVIOUS
  <2>1. /\ link \in [Processes -> {"off", "open", "closed", "none"}]
        /\ connected \in [Processes -> BOOLEAN]
    BY DEF CycleInvariant, TypeOK, CacheTypeOK
  <2>2. ASSUME NEW p \in Processes,
               LoseRedis(p) \/ CloseQuietly(p) \/ Boot(p) \/ Exit(p)
        PROVE  FlagRaised'
    BY <2>1, <2>2 DEF LoseRedis, CloseQuietly, Boot, Exit, FlagRaised
  <2>3. ASSUME UNCHANGED <<link, connected>> PROVE FlagRaised'
    BY <2>3 DEF FlagRaised
  <2>4. ASSUME NEW c \in Activations, LoseAnswer(c) PROVE FlagRaised'
    BY <2>2, <2>4, OwnNames DEF LoseAnswer
  <2>5. ASSUME NEW c \in Activations, Fire(c) \/ CycleStep(c) \/ FailReading(c) \/ FailSettling(c)
        PROVE  UNCHANGED <<link, connected>>
    BY <2>5 DEF Fire, CycleStep, TakeLock, MissLock, ReadOrders, PriceOrder, Settle, Finish,
                Release, FailReading, FailSettling, cacheVars
  <2>6. ASSUME NEW p \in Processes, Start(p) \/ Disconnect(p) \/ Crash(p) PROVE FlagRaised'
    BY <2>2, <2>6 DEF Start, Disconnect, Crash
  <2>7. ASSUME \/ \E p \in Processes : DropFallbackLock(p)
               \/ \E o \in Orders : PlaceOrder(o) \/ CancelOrder(o) \/ MovePrice(o)
               \/ Time \/ OpenOrClose \/ UNCHANGED vars
        PROVE  UNCHANGED <<link, connected>>
    BY <2>7 DEF DropFallbackLock, Evict, PlaceOrder, CancelOrder, MovePrice, Time, Elapse,
                OpenOrClose, vars, cacheVars
  <2>8. QED
    BY <2>3, <2>4, <2>5, <2>6, <2>7 DEF Next
<1>3. CycleInvariant /\ FlagRaised =>
          (~FallbackAllowed =>
              \A p \in Processes : Ready(p, TRUE) => ~Unavailable(p) \/ link[p] = "closed")
  BY DEF FlagRaised, Ready, Unavailable
<1>4. QED
  BY <1>1, <1>2, <1>3, CycleInvariance, PTL DEF Spec

-----------------------------------------------------------------------------
(* The daily refresh *)

FirstStock == [source |-> "eodhd", made |-> 0]

QuoteOrNone == Quote \cup {NoQuote}

QuotesMap == [Symbols -> QuoteOrNone]

NextRefresh == [stage: {"next", "history"}, todo: SUBSET Symbols, quotes: QuotesMap]

ApiRefresh == [stage: {"api"}, symbol: Symbols, todo: SUBSET Symbols, quotes: QuotesMap]

SnapshotRefresh == [stage: {"snapshot"}, symbol: Symbols, todo: SUBSET Symbols,
                    quotes: QuotesMap, quote: Quote]

Refresh == {Idle} \cup NextRefresh \cup ApiRefresh \cup SnapshotRefresh

Edit == {NoEdit} \cup [symbol: Symbols, made: 1..Days]

\* The types, with the fields each stage of a refresh has.
Types ==
    /\ day \in 1..Days
    /\ fired \in BOOLEAN /\ late \in BOOLEAN
    /\ phase \in {"down", "starting", "serving"}
    /\ history \in [Symbols -> Snapshot \cup {NoSnapshot}]
    /\ stock \in [Symbols -> Quote \cup {FirstStock}]
    /\ refresh \in Refresh /\ edit \in Edit
    /\ calls \in [Symbols -> Nat]
    /\ refreshed \subseteq Symbols
    /\ failures \in 0..MaxFailures /\ crashes \in 0..MaxCrashes

\* Nothing is in progress in a process that is down, no price comes from the
\* future, and what is left to do has no quote.
InProgress ==
    /\ refresh # Idle => phase # "down" /\ \A s \in refresh.todo : refresh.quotes[s] = NoQuote
    /\ edit # NoEdit => phase = "serving" /\ edit.made <= day
    /\ \A s \in Symbols : history[s].created <= day

Lost == failures + crashes

Answered(s) ==
    \/ TodaySnapshot(s)
    \/ refresh.stage = "snapshot" /\ s = refresh.symbol

\* The last answer of the API for a stock is lost, or on its way to the price
\* history or there, where the next refresh finds it; the API is only asked when
\* all answers are lost.
CallsWithin ==
    \A s \in Symbols :
        /\ calls[s] <= 1 + Lost
        /\ refresh.stage = "api" /\ s = refresh.symbol => calls[s] <= Lost
        /\ ~Answered(s) => calls[s] <= Lost

\* On a day that began with nothing under way, all prices at hand are of that day.
MadeToday ==
    ~late =>
        /\ \A s \in refreshed : stock[s].made = day
        /\ \A s \in Symbols : TodaySnapshot(s) => history[s].quote.made = day
        /\ refresh # Idle =>
               \A s \in Symbols : refresh.quotes[s] # NoQuote => refresh.quotes[s].made = day
        /\ refresh.stage = "snapshot" => refresh.quote.made = day
        /\ edit # NoEdit => edit.made = day

DailyInvariant == Types /\ InProgress /\ CallsWithin /\ MadeToday

-----------------------------------------------------------------------------
(* Refreshes *)

LEMMA RefreshStages ==
    ASSUME Types
    PROVE  /\ refresh.stage \in {"next", "history"} => refresh \in NextRefresh
           /\ refresh.stage = "api" => refresh \in ApiRefresh
           /\ refresh.stage = "snapshot" => refresh \in SnapshotRefresh
           /\ refresh.stage # "idle" <=> refresh # Idle
<1>1. refresh \in Refresh
  BY DEF Types
<1>2. QED
  BY <1>1 DEF Refresh, NextRefresh, ApiRefresh, SnapshotRefresh, Idle

\* What is left to do has no quote; the quotes at hand are of day d.
Fits(q) == q # Idle => \A s \in q.todo : q.quotes[s] = NoQuote

OfDay(q, d) ==
    /\ q # Idle => \A s \in Symbols : q.quotes[s] # NoQuote => q.quotes[s].made = d
    /\ q.stage = "snapshot" => q.quote.made = d

FreshNow == ~late => OfDay(refresh, day)

LEMMA FitsAndFresh ==
    ASSUME DailyInvariant
    PROVE  Types /\ Fits(refresh) /\ FreshNow
  BY DEF DailyInvariant, InProgress, MadeToday, Fits, OfDay, FreshNow

LEMMA NewRefreshFits ==
    ASSUME Types
    PROVE  NewRefresh \in Refresh /\ Fits(NewRefresh) /\ NewRefresh.stage \in {"idle", "next"}
           /\ \A d : OfDay(NewRefresh, d)
<1> DEFINE provided == {s \in Symbols : stock[s].source # "admin"}
           none == [s \in Symbols |-> NoQuote]
           q == [stage |-> "next", todo |-> provided, quotes |-> none]
<1>1. NewRefresh = Idle \/ NewRefresh = q
  BY DEF NewRefresh
<1>2. none \in QuotesMap /\ provided \in SUBSET Symbols
  BY DEF QuotesMap, QuoteOrNone
<1>3. \A s \in Symbols : none[s] = NoQuote
  OBVIOUS
<1> HIDE DEF none, provided
<1>4. q \in Refresh /\ Fits(q) /\ q.stage = "next" /\ \A d : OfDay(q, d)
  BY <1>2, <1>3 DEF Refresh, NextRefresh, Fits, OfDay
<1>5. Idle \in Refresh /\ Fits(Idle) /\ Idle.stage = "idle" /\ \A d : OfDay(Idle, d)
  BY DEF Refresh, Fits, OfDay, Idle
<1>6. QED
  BY <1>1, <1>4, <1>5

\* A refresh goes on to the next symbol with a quote of today.
LEMMA QuotedFits ==
    ASSUME DailyInvariant, NEW s \in Symbols, NEW quote \in Quote,
           refresh.stage \in {"next", "api", "snapshot"}, ~late => quote.made = day,
           Quoted(s, quote)
    PROVE  /\ refresh' \in Refresh /\ Fits(refresh') /\ (~late => OfDay(refresh', day))
           /\ refresh'.stage = "next" /\ refresh' # Idle
<1>1. Types /\ Fits(refresh) /\ FreshNow
  BY FitsAndFresh
<1>2. /\ refresh \in NextRefresh \/ refresh \in ApiRefresh \/ refresh \in SnapshotRefresh
      /\ refresh # Idle
  BY <1>1, RefreshStages
<1> DEFINE left == refresh.todo \ {s}
           quotes == [refresh.quotes EXCEPT ![s] = quote]
<1>3. refresh.todo \in SUBSET Symbols /\ refresh.quotes \in QuotesMap
  BY <1>2 DEF NextRefresh, ApiRefresh, SnapshotRefresh
<1>4. left \in SUBSET Symbols /\ quotes \in QuotesMap
  BY <1>3 DEF QuotesMap, QuoteOrNone
<1>5. /\ quotes[s] = quote
      /\ \A x \in Symbols \ {s} : quotes[x] = refresh.quotes[x]
  BY <1>3 DEF QuotesMap
<1>6. \A x \in left : quotes[x] = NoQuote
  BY <1>1, <1>2, <1>3, <1>5 DEF Fits
<1>7. ~late => \A x \in Symbols : quotes[x] # NoQuote => quotes[x].made = day
  BY <1>1, <1>2, <1>5 DEF FreshNow, OfDay
<1>8. refresh' = [stage |-> "next", todo |-> left, quotes |-> quotes]
  BY DEF Quoted
<1> HIDE DEF left, quotes
<1>9. /\ refresh'.stage = "next" /\ refresh'.todo = left /\ refresh'.quotes = quotes
      /\ refresh' \in NextRefresh
  BY <1>4, <1>8 DEF NextRefresh
<1>10. refresh' # Idle /\ refresh' \in Refresh
  BY <1>9 DEF Idle, Refresh
<1>11. Fits(refresh')
  BY <1>6, <1>9 DEF Fits
<1>12. ~late => OfDay(refresh', day)
  BY <1>7, <1>9 DEF OfDay
<1>13. QED
  BY <1>9, <1>10, <1>11, <1>12

-----------------------------------------------------------------------------
(* Steps of a refresh that write nothing *)

\* The calls that the answers lost so far leave room for.
CallsFit(q, lost) ==
    \A s \in Symbols :
        /\ q.stage = "api" /\ s = q.symbol => calls[s] <= lost
        /\ ~TodaySnapshot(s) /\ ~(q.stage = "snapshot" /\ s = q.symbol) => calls[s] <= lost

LEMMA SumsGrow ==
    ASSUME NEW a \in Nat, NEW b \in Nat, NEW c \in Nat, NEW d \in Nat, a <= c, b <= d
    PROVE  a + b <= c + d /\ a + b \in Nat /\ c + d \in Nat
  OBVIOUS

LEMMA LostGrows ==
    ASSUME DailyInvariant, failures' \in 0..MaxFailures, crashes' \in 0..MaxCrashes,
           failures <= failures', crashes <= crashes'
    PROVE  Lost <= Lost' /\ Lost \in Nat /\ Lost' \in Nat
<1>1. MaxFailures \in Nat /\ MaxCrashes \in Nat
  BY DailyQuotesAssumption
<1>2. failures \in 0..MaxFailures /\ crashes \in 0..MaxCrashes
  BY DEF DailyInvariant, Types
<1>3. failures \in Nat /\ crashes \in Nat /\ failures' \in Nat /\ crashes' \in Nat
  BY <1>1, <1>2
<1>4. Lost = failures + crashes /\ Lost' = failures' + crashes'
  BY DEF Lost
<1>5. /\ failures + crashes <= failures' + crashes'
      /\ failures + crashes \in Nat /\ failures' + crashes' \in Nat
  BY <1>3, SumsGrow
<1>6. QED
  BY <1>4, <1>5

\* A stage without an answer at hand needs no more of the calls than before.
LEMMA CallsStillFit ==
    ASSUME DailyInvariant, NEW q, NEW lost \in Nat, Lost <= lost, Lost \in Nat,
           q.stage \in {"idle", "next", "history"},
           refresh.stage = "snapshot" => lost = Lost + 1 \/ TodaySnapshot(refresh.symbol)
    PROVE  CallsFit(q, lost)
<1>1. CallsWithin /\ Types
  BY DEF DailyInvariant
<1>2. ASSUME NEW s \in Symbols, ~TodaySnapshot(s)
      PROVE  calls[s] <= lost
  <2>1. calls[s] \in Nat
    BY <1>1 DEF Types
  <2>2. CASE refresh.stage = "snapshot" /\ s = refresh.symbol
    <3>1. calls[s] <= 1 + Lost
      BY <1>1 DEF CallsWithin
    <3>2. lost = Lost + 1
      BY <1>2, <2>2
    <3>3. QED
      BY <2>1, <3>1, <3>2
  <2>3. CASE ~(refresh.stage = "snapshot" /\ s = refresh.symbol)
    <3>1. calls[s] <= Lost
      BY <1>1, <1>2, <2>3 DEF CallsWithin, Answered
    <3>2. QED
      BY <2>1, <3>1
  <2>4. QED
    BY <2>2, <2>3
<1>3. QED
  BY <1>2 DEF CallsFit

LEMMA RefreshMoves ==
    ASSUME DailyInvariant, UNCHANGED <<day, history, stock, edit, calls, refreshed, late, crashes>>,
           refresh' \in Refresh, Fits(refresh'), ~late => OfDay(refresh', day),
           phase' \in {"down", "starting", "serving"}, refresh' # Idle => phase' # "down",
           edit # NoEdit => phase' = "serving", fired' \in BOOLEAN,
           failures' \in 0..MaxFailures, failures <= failures', CallsFit(refresh', Lost')
    PROVE  DailyInvariant'
<1>1. Types /\ InProgress /\ CallsWithin /\ MadeToday
  BY DEF DailyInvariant
<1>2. Types'
  BY <1>1 DEF Types
<1>3. InProgress'
  BY <1>1 DEF InProgress, Fits
<1>4. CallsWithin'
  <2>1. crashes' \in 0..MaxCrashes /\ crashes <= crashes'
    BY <1>1, DailyQuotesAssumption DEF Types
  <2>2. Lost <= Lost' /\ Lost \in Nat /\ Lost' \in Nat
    BY <2>1, LostGrows
  <2>3. ASSUME NEW s \in Symbols
        PROVE  /\ calls'[s] <= 1 + Lost'
               /\ refresh'.stage = "api" /\ s = refresh'.symbol => calls'[s] <= Lost'
               /\ ~Answered(s)' => calls'[s] <= Lost'
    <3>1. calls'[s] = calls[s] /\ calls[s] \in Nat /\ calls[s] <= 1 + Lost
      BY <1>1 DEF Types, CallsWithin
    <3>2. calls'[s] <= 1 + Lost'
      BY <2>2, <3>1
    <3>3. QED
      BY <3>1, <3>2 DEF CallsFit, Answered, TodaySnapshot
  <2>4. QED
    BY <2>3 DEF CallsWithin
<1>5. MadeToday'
  BY <1>1 DEF MadeToday, OfDay, TodaySnapshot
<1>6. QED
  BY <1>2, <1>3, <1>4, <1>5 DEF DailyInvariant

-----------------------------------------------------------------------------
(* The actions: those that write nothing *)

\* What the counters of failures are worth.
LEMMA FailCounts ==
    ASSUME DailyInvariant, Fail
    PROVE  failures' \in 0..MaxFailures /\ failures <= failures' /\ failures' = failures + 1
<1>1. MaxFailures \in Nat /\ failures \in 0..MaxFailures
  BY DailyQuotesAssumption DEF DailyInvariant, Types
<1>2. QED
  BY <1>1 DEF Fail

LEMMA FailuresStay ==
    ASSUME DailyInvariant, UNCHANGED failures
    PROVE  failures' \in 0..MaxFailures /\ failures <= failures'
<1>1. MaxFailures \in Nat /\ failures \in 0..MaxFailures
  BY DailyQuotesAssumption DEF DailyInvariant, Types
<1>2. QED
  BY <1>1

LEMMA LostStays ==
    ASSUME DailyInvariant, UNCHANGED <<failures, crashes>>
    PROVE  Lost' = Lost /\ Lost <= Lost /\ Lost \in Nat
<1>1. MaxFailures \in Nat /\ failures \in 0..MaxFailures /\ MaxCrashes \in Nat
      /\ crashes \in 0..MaxCrashes
  BY DailyQuotesAssumption DEF DailyInvariant, Types
<1>2. QED
  BY <1>1 DEF Lost

LEMMA PhaseKeeps ==
    ASSUME DailyInvariant, StartBackend \/ StartServing \/ FireCron
    PROVE  DailyInvariant'
<1>1. Types /\ InProgress /\ Fits(refresh) /\ FreshNow
  BY FitsAndFresh DEF DailyInvariant
<1>2. /\ UNCHANGED <<day, history, stock, edit, calls, refreshed, late, crashes>>
      /\ UNCHANGED failures
  BY DEF StartBackend, StartServing, FireCron
<1>3. failures' \in 0..MaxFailures /\ failures <= failures'
  BY <1>2, FailuresStay
<1>4. Lost' = Lost /\ Lost <= Lost /\ Lost \in Nat
  BY <1>2, LostStays
<1>5. fired' \in BOOLEAN
  BY <1>1 DEF Types, StartBackend, StartServing, FireCron
<1>6. /\ phase' \in {"down", "starting", "serving"}
      /\ refresh' # Idle => phase' # "down"
      /\ edit # NoEdit => phase' = "serving"
  BY <1>1 DEF Types, InProgress, StartBackend, StartServing, FireCron
<1>7. /\ refresh' \in Refresh /\ Fits(refresh') /\ (~late => OfDay(refresh', day))
      /\ CallsFit(refresh', Lost')
  <2>1. NewRefresh \in Refresh /\ Fits(NewRefresh) /\ NewRefresh.stage \in {"idle", "next"}
        /\ \A d : OfDay(NewRefresh, d)
    BY <1>1, NewRefreshFits
  <2>2. CASE refresh' = refresh
    <3>1. CallsFit(refresh, Lost)
      BY DEF DailyInvariant, CallsWithin, CallsFit, Answered
    <3>2. QED
      BY <1>1, <1>4, <2>2, <3>1 DEF Types, FreshNow
  <2>3. CASE refresh' # refresh
    <3>1. refresh' = NewRefresh \/ refresh' = Idle
      BY <2>3 DEF StartBackend, StartServing, FireCron
    <3>2. refresh = Idle
      BY <1>1, <2>3 DEF StartBackend, StartServing, FireCron, InProgress
    <3>3. refresh'.stage \in {"idle", "next"} /\ refresh.stage # "snapshot"
      BY <2>1, <3>1, <3>2 DEF Idle
    <3>4. CallsFit(refresh', Lost)
      BY <1>4, <3>3, CallsStillFit
    <3>5. Idle \in Refresh /\ Fits(Idle) /\ \A d : OfDay(Idle, d)
      BY DEF Refresh, Fits, OfDay, Idle
    <3>6. QED
      BY <1>4, <2>1, <3>1, <3>4, <3>5
  <2>4. QED
    BY <2>2, <2>3
<1>8. QED
  BY <1>2, <1>3, <1>5, <1>6, <1>7, RefreshMoves

LEMMA ReuseKeeps ==
    ASSUME DailyInvariant, NEW s \in Symbols, Reuse(s)
    PROVE  DailyInvariant'
<1>1. Types /\ InProgress /\ MadeToday
  BY DEF DailyInvariant
<1>2. /\ UNCHANGED <<day, history, stock, edit, calls, refreshed, late, crashes>>
      /\ UNCHANGED <<failures, fired, phase>> /\ refresh.stage = "next"
      /\ Quoted(s, history[s].quote)
  BY DEF Reuse
<1>3. history[s].quote \in Quote
  <2>1. history[s] \in Snapshot \cup {NoSnapshot} /\ history[s].created = day /\ day # 0
    BY <1>1, DailyQuotesAssumption DEF Types, Reuse, TodaySnapshot
  <2>2. QED
    BY <2>1 DEF Snapshot, NoSnapshot
<1>4. ~late => history[s].quote.made = day
  BY <1>1 DEF MadeToday, Reuse
<1>5. /\ refresh' \in Refresh /\ Fits(refresh') /\ (~late => OfDay(refresh', day))
      /\ refresh'.stage = "next" /\ refresh' # Idle
  BY <1>2, <1>3, <1>4, QuotedFits
<1>6. failures' \in 0..MaxFailures /\ failures <= failures'
  BY <1>2, FailuresStay
<1>7. Lost' = Lost /\ Lost <= Lost /\ Lost \in Nat
  BY <1>2, LostStays
<1>8. CallsFit(refresh', Lost')
  BY <1>2, <1>5, <1>7, CallsStillFit
<1>9. /\ phase' \in {"down", "starting", "serving"} /\ phase' # "down" /\ fired' \in BOOLEAN
      /\ edit # NoEdit => phase' = "serving"
  BY <1>1, <1>2 DEF Types, InProgress, Idle
<1>10. QED
  BY <1>2, <1>5, <1>6, <1>8, <1>9, RefreshMoves

LEMMA AskApiKeeps ==
    ASSUME DailyInvariant, NEW s \in Symbols, AskApi(s)
    PROVE  DailyInvariant'
<1>1. Types /\ InProgress /\ CallsWithin /\ Fits(refresh) /\ FreshNow
  BY FitsAndFresh DEF DailyInvariant
<1>2. /\ UNCHANGED <<day, history, stock, edit, calls, refreshed, late, crashes>>
      /\ UNCHANGED <<failures, fired, phase>> /\ refresh.stage = "next" /\ ~TodaySnapshot(s)
      /\ refresh' = [stage |-> "api", symbol |-> s, todo |-> refresh.todo,
                     quotes |-> refresh.quotes]
  BY DEF AskApi
<1>3. refresh \in NextRefresh /\ refresh # Idle
  BY <1>1, <1>2, RefreshStages
<1>4. /\ refresh' \in ApiRefresh /\ refresh'.stage = "api" /\ refresh'.symbol = s
      /\ refresh'.todo = refresh.todo /\ refresh'.quotes = refresh.quotes
  BY <1>2, <1>3 DEF ApiRefresh, NextRefresh
<1>5. refresh' \in Refresh /\ Fits(refresh') /\ (~late => OfDay(refresh', day))
  BY <1>1, <1>3, <1>4 DEF Refresh, Fits, FreshNow, OfDay
<1>6. failures' \in 0..MaxFailures /\ failures <= failures'
  BY <1>2, FailuresStay
<1>7. Lost' = Lost
  BY <1>2, LostStays
<1>8. CallsFit(refresh', Lost')
  BY <1>1, <1>2, <1>4, <1>7 DEF CallsFit, CallsWithin, Answered
<1>9. /\ phase' \in {"down", "starting", "serving"} /\ phase' # "down" /\ fired' \in BOOLEAN
      /\ edit # NoEdit => phase' = "serving"
  BY <1>1, <1>2, <1>3 DEF Types, InProgress
<1>10. QED
  BY <1>2, <1>5, <1>6, <1>8, <1>9, RefreshMoves

\* What is lost when the mock provider has to do is a failure.
LEMMA FallBackKeeps ==
    ASSUME DailyInvariant, NEW s \in Symbols, FallBack(s)
    PROVE  DailyInvariant'
<1>1. Types /\ InProgress
  BY DEF DailyInvariant
<1>2. /\ UNCHANGED <<day, history, stock, edit, calls, refreshed, late, crashes>>
      /\ UNCHANGED <<fired, phase>> /\ refresh.stage \in {"next", "api", "snapshot"}
      /\ Quoted(s, Mock) /\ Fail
  BY DEF FallBack
<1>3. Mock \in Quote /\ Mock.made = day
  BY <1>1 DEF Mock, Quote, Sources, Types
<1>4. /\ refresh' \in Refresh /\ Fits(refresh') /\ (~late => OfDay(refresh', day))
      /\ refresh'.stage = "next" /\ refresh' # Idle
  BY <1>2, <1>3, QuotedFits
<1>5. failures' \in 0..MaxFailures /\ failures <= failures' /\ failures' = failures + 1
  BY <1>2, FailCounts
<1>6. Lost' = Lost + 1 /\ Lost <= Lost' /\ Lost \in Nat /\ Lost' \in Nat
  <2>1. failures \in Nat /\ crashes \in Nat
    BY <1>1, DailyQuotesAssumption DEF Types
  <2>2. QED
    BY <1>2, <1>5, <2>1 DEF Lost
<1>7. CallsFit(refresh', Lost')
  BY <1>4, <1>6, CallsStillFit
<1>8. /\ phase' \in {"down", "starting", "serving"} /\ phase' # "down" /\ fired' \in BOOLEAN
      /\ edit # NoEdit => phase' = "serving"
  BY <1>1, <1>2 DEF Types, InProgress, Idle
<1>9. QED
  BY <1>2, <1>4, <1>5, <1>7, <1>8, RefreshMoves

LEMMA FailRefreshKeeps ==
    ASSUME DailyInvariant, FailRefresh
    PROVE  DailyInvariant'
<1>1. Types /\ InProgress
  BY DEF DailyInvariant
<1>2. /\ UNCHANGED <<day, history, stock, edit, calls, refreshed, late, crashes>>
      /\ UNCHANGED fired /\ refresh.stage \in {"next", "history"} /\ refresh' = Idle /\ Fail
      /\ phase' = IF phase = "starting" THEN "down" ELSE phase
  BY DEF FailRefresh
<1>3. refresh' \in Refresh /\ Fits(refresh') /\ OfDay(refresh', day)
  BY <1>2 DEF Refresh, Fits, OfDay, Idle
<1>4. failures' \in 0..MaxFailures /\ failures <= failures' /\ failures' = failures + 1
  BY <1>2, FailCounts
<1>5. Lost <= Lost' /\ Lost \in Nat /\ Lost' \in Nat
  <2>1. crashes' \in 0..MaxCrashes /\ crashes <= crashes'
    BY <1>1, <1>2, DailyQuotesAssumption DEF Types
  <2>2. QED
    BY <1>4, <2>1, LostGrows
<1>6. refresh'.stage = "idle" /\ refresh.stage # "snapshot"
  BY <1>2 DEF Idle
<1>7. CallsFit(refresh', Lost')
  BY <1>5, <1>6, CallsStillFit
<1>8. /\ phase' \in {"down", "starting", "serving"} /\ fired' \in BOOLEAN
      /\ edit # NoEdit => phase' = "serving"
  BY <1>1, <1>2 DEF Types, InProgress
<1>9. QED
  BY <1>2, <1>3, <1>4, <1>7, <1>8, RefreshMoves

-----------------------------------------------------------------------------
(* The actions: those that write *)

LEMMA HistoryTypes ==
    ASSUME Types, NEW s \in Symbols
    PROVE  /\ history[s] \in Snapshot \cup {NoSnapshot} /\ day \in Nat /\ day # 0
           /\ calls[s] \in Nat /\ Days \in Nat
  BY DailyQuotesAssumption DEF Types

LEMMA AnswerApiKeeps ==
    ASSUME DailyInvariant, AnswerApi
    PROVE  DailyInvariant'
<1> DEFINE quote == [source |-> "eodhd", made |-> day]
           s == refresh.symbol
<1>1. Types /\ InProgress /\ CallsWithin /\ MadeToday
  BY DEF DailyInvariant
<1>2. /\ UNCHANGED <<day, fired, phase, history, stock, edit, refreshed, late, failures, crashes>>
      /\ refresh.stage = "api" /\ calls' = [calls EXCEPT ![s] = calls[s] + 1]
      /\ refresh' = [stage |-> "snapshot", symbol |-> s, todo |-> refresh.todo,
                     quotes |-> refresh.quotes, quote |-> quote]
  BY DEF AnswerApi
<1>3. refresh \in ApiRefresh /\ refresh # Idle
  BY <1>1, <1>2, RefreshStages
<1>4. quote \in Quote /\ quote.made = day
  BY <1>1 DEF Quote, Sources, Types
<1>5. s \in Symbols
  BY <1>3 DEF ApiRefresh
<1> HIDE DEF quote, s
<1>6. /\ refresh' \in SnapshotRefresh /\ refresh'.stage = "snapshot" /\ refresh'.symbol = s
      /\ refresh'.todo = refresh.todo /\ refresh'.quotes = refresh.quotes
      /\ refresh'.quote = quote
  BY <1>2, <1>3, <1>4, <1>5 DEF SnapshotRefresh, ApiRefresh
<1>7. calls' \in [Symbols -> Nat] /\ calls'[s] = calls[s] + 1
      /\ \A x \in Symbols \ {s} : calls'[x] = calls[x]
  BY <1>1, <1>2, <1>5 DEF Types
<1>8. Types'
  BY <1>1, <1>2, <1>6, <1>7 DEF Types, Refresh
<1>9. InProgress'
  BY <1>1, <1>2, <1>3, <1>6 DEF InProgress
<1>10. Lost' = Lost /\ Lost \in Nat
  BY <1>2, LostStays
<1>11. ASSUME NEW x \in Symbols
       PROVE  /\ calls'[x] <= 1 + Lost'
              /\ refresh'.stage = "api" /\ x = refresh'.symbol => calls'[x] <= Lost'
              /\ ~Answered(x)' => calls'[x] <= Lost'
  <2>1. CASE x = s
    <3>1. calls[s] <= Lost /\ calls[s] \in Nat
      BY <1>1, <1>2, <1>5, HistoryTypes DEF CallsWithin, s
    <3>2. calls'[x] <= 1 + Lost'
      BY <1>7, <1>10, <2>1, <3>1
    <3>3. Answered(x)'
      BY <1>6, <2>1 DEF Answered
    <3>4. QED
      BY <1>6, <3>2, <3>3
  <2>2. CASE x # s
    <3>1. calls'[x] = calls[x] /\ calls[x] <= 1 + Lost
      BY <1>1, <1>7, <2>2 DEF CallsWithin
    <3>2. ~Answered(x)' => ~Answered(x)
      BY <1>2, <1>6 DEF Answered, TodaySnapshot
    <3>3. ~Answered(x) => calls[x] <= Lost
      BY <1>1 DEF CallsWithin
    <3>4. QED
      BY <1>6, <1>10, <3>1, <3>2, <3>3
  <2>3. QED
    BY <2>1, <2>2
<1>12. CallsWithin'
  BY <1>11 DEF CallsWithin
<1>13. MadeToday'
  BY <1>1, <1>2, <1>3, <1>4, <1>6 DEF MadeToday, TodaySnapshot
<1>14. QED
  BY <1>8, <1>9, <1>12, <1>13 DEF DailyInvariant

\* A quote is recorded, as of today; the calls stay.
LEMMA HistoryWritten ==
    ASSUME DailyInvariant, NEW S \in SUBSET Symbols, UNCHANGED <<day, calls, failures, crashes>>,
           \A s \in S : history'[s].created = day,
           \A s \in Symbols \ S : history'[s] = history[s],
           refresh'.stage \notin {"api", "snapshot"} \/ refresh' = refresh,
           refresh.stage = "snapshot" => refresh' = refresh \/ refresh.symbol \in S
    PROVE  CallsWithin'
<1>1. Types /\ CallsWithin
  BY DEF DailyInvariant
<1>2. Lost' = Lost
  BY LostStays
<1>3. ASSUME NEW s \in Symbols
      PROVE  /\ calls'[s] <= 1 + Lost'
             /\ refresh'.stage = "api" /\ s = refresh'.symbol => calls'[s] <= Lost'
             /\ ~Answered(s)' => calls'[s] <= Lost'
  <2>1. /\ calls[s] <= 1 + Lost
        /\ refresh.stage = "api" /\ s = refresh.symbol => calls[s] <= Lost
        /\ ~Answered(s) => calls[s] <= Lost
    BY <1>1 DEF CallsWithin
  <2>2. refresh'.stage = "api" => refresh' = refresh
    OBVIOUS
  <2>3. ASSUME ~Answered(s)'
        PROVE  ~Answered(s)
    <3>1. history'[s].created # day /\ ~(refresh'.stage = "snapshot" /\ s = refresh'.symbol)
      BY <2>3 DEF Answered, TodaySnapshot
    <3>2. s \notin S /\ history'[s] = history[s]
      BY <3>1
    <3>3. QED
      BY <3>1, <3>2 DEF Answered, TodaySnapshot
  <2>4. QED
    BY <1>2, <2>1, <2>2, <2>3
<1>4. QED
  BY <1>3 DEF CallsWithin

LEMMA PersistSnapshotKeeps ==
    ASSUME DailyInvariant, PersistSnapshot
    PROVE  DailyInvariant'
<1> DEFINE s == refresh.symbol
           quote == refresh.quote
           snapshot == [quote |-> quote, created |-> day]
<1>1. Types /\ InProgress /\ MadeToday
  BY DEF DailyInvariant
<1>2. /\ UNCHANGED <<day, fired, phase, stock, edit, calls, refreshed, late, failures, crashes>>
      /\ refresh.stage = "snapshot" /\ history' = [history EXCEPT ![s] = snapshot]
      /\ Quoted(s, quote)
  BY DEF PersistSnapshot
<1>3. refresh \in SnapshotRefresh /\ refresh # Idle
  BY <1>1, <1>2, RefreshStages
<1>4. s \in Symbols /\ quote \in Quote /\ (~late => quote.made = day)
  BY <1>1, <1>2, <1>3 DEF SnapshotRefresh, MadeToday
<1>5. snapshot \in Snapshot /\ snapshot.created = day /\ snapshot.quote = quote
  BY <1>1, <1>4 DEF Snapshot, Types
<1> HIDE DEF snapshot, s, quote
<1>6. /\ refresh' \in Refresh /\ Fits(refresh') /\ (~late => OfDay(refresh', day))
      /\ refresh'.stage = "next" /\ refresh' # Idle
  BY <1>2, <1>4, QuotedFits
<1>7. /\ history' \in [Symbols -> Snapshot \cup {NoSnapshot}] /\ history'[s] = snapshot
      /\ \A x \in Symbols \ {s} : history'[x] = history[x]
  BY <1>1, <1>2, <1>4, <1>5 DEF Types
<1>8. Types'
  BY <1>1, <1>2, <1>6, <1>7 DEF Types
<1>9. day <= day
  BY <1>4, <1>1, HistoryTypes
<1>10. InProgress'
  <2>1. \A x \in Symbols : history'[x].created <= day'
    BY <1>1, <1>2, <1>5, <1>7, <1>9 DEF InProgress
  <2>2. QED
    BY <1>1, <1>2, <1>3, <1>6, <2>1 DEF InProgress, Fits
<1>11. CallsWithin'
  <2>1. {s} \in SUBSET Symbols /\ refresh.symbol = s
    BY <1>4 DEF s
  <2>2. QED
    BY <1>2, <1>5, <1>6, <1>7, <2>1, HistoryWritten
<1>12. MadeToday'
  <2>1. ASSUME ~late, NEW x \in Symbols, history'[x].created = day
        PROVE  history'[x].quote.made = day
    BY <1>1, <1>4, <1>5, <1>7, <2>1 DEF MadeToday, TodaySnapshot
  <2>2. QED
    BY <1>1, <1>2, <1>6, <2>1 DEF MadeToday, OfDay, TodaySnapshot
<1>13. QED
  BY <1>8, <1>10, <1>11, <1>12 DEF DailyInvariant

LEMMA SaveStocksKeeps ==
    ASSUME DailyInvariant, SaveStocks
    PROVE  DailyInvariant'
<1>1. Types /\ InProgress /\ MadeToday
  BY DEF DailyInvariant
<1>2. /\ UNCHANGED <<day, fired, phase, history, edit, calls, late, failures, crashes>>
      /\ refresh.stage = "next" /\ refresh.todo = {}
      /\ refresh' = [refresh EXCEPT !.stage = "history"]
      /\ stock' = [s \in Symbols |-> IF s \in QuotedStocks THEN refresh.quotes[s] ELSE stock[s]]
      /\ refreshed' = refreshed \cup QuotedStocks
  BY DEF SaveStocks
<1>3. refresh \in NextRefresh /\ refresh # Idle
  BY <1>1, <1>2, RefreshStages
<1>4. /\ refresh' \in NextRefresh /\ refresh'.stage = "history" /\ refresh'.todo = {}
      /\ refresh'.quotes = refresh.quotes
  BY <1>2, <1>3 DEF NextRefresh
<1>5. QuotedStocks \subseteq Symbols /\ \A s \in QuotedStocks : refresh.quotes[s] \in Quote
  BY <1>3 DEF QuotedStocks, NextRefresh, QuotesMap, QuoteOrNone
<1>6. stock' \in [Symbols -> Quote \cup {FirstStock}]
  BY <1>1, <1>2, <1>5 DEF Types
<1>7. Types'
  BY <1>1, <1>2, <1>4, <1>5, <1>6 DEF Types, Refresh
<1>8. InProgress'
  BY <1>1, <1>2, <1>3, <1>4 DEF InProgress
<1>9. CallsWithin'
  <2>1. {} \in SUBSET Symbols
    OBVIOUS
  <2>2. QED
    BY <1>2, <1>4, <2>1, HistoryWritten
<1>10. ASSUME ~late, NEW s \in refreshed'
       PROVE  stock'[s].made = day
  <2>1. CASE s \in QuotedStocks
    <3>1. refresh.quotes[s].made = day
      BY <1>1, <1>3, <1>10, <2>1 DEF MadeToday, QuotedStocks
    <3>2. QED
      BY <1>2, <1>5, <2>1, <3>1
  <2>2. CASE s \notin QuotedStocks
    <3>1. s \in refreshed /\ s \in Symbols
      BY <1>1, <1>2, <1>10, <2>2 DEF Types
    <3>2. QED
      BY <1>1, <1>2, <1>10, <2>2, <3>1 DEF MadeToday
  <2>3. QED
    BY <2>1, <2>2
<1>11. MadeToday'
  BY <1>1, <1>2, <1>3, <1>4, <1>10 DEF MadeToday, TodaySnapshot
<1>12. QED
  BY <1>7, <1>8, <1>9, <1>11 DEF DailyInvariant

LEMMA SaveHistoryKeeps ==
    ASSUME DailyInvariant, SaveHistory
    PROVE  DailyInvariant'
<1>1. Types /\ InProgress /\ MadeToday
  BY DEF DailyInvariant
<1>2. /\ UNCHANGED <<day, fired, phase, stock, edit, calls, refreshed, late, failures, crashes>>
      /\ refresh.stage = "history" /\ refresh' = Idle
      /\ history' = [s \in Symbols |->
                        IF s \in QuotedStocks
                        THEN [quote |-> refresh.quotes[s], created |-> day]
                        ELSE history[s]]
  BY DEF SaveHistory
<1>3. refresh \in NextRefresh /\ refresh # Idle
  BY <1>1, <1>2, RefreshStages
<1>4. QuotedStocks \subseteq Symbols /\ \A s \in QuotedStocks : refresh.quotes[s] \in Quote
  BY <1>3 DEF QuotedStocks, NextRefresh, QuotesMap, QuoteOrNone
<1>5. \A s \in QuotedStocks : /\ [quote |-> refresh.quotes[s], created |-> day] \in Snapshot
                              /\ history'[s].created = day
                              /\ history'[s].quote = refresh.quotes[s]
  BY <1>1, <1>2, <1>4 DEF Snapshot, Types
<1>6. history' \in [Symbols -> Snapshot \cup {NoSnapshot}]
  BY <1>1, <1>2, <1>5 DEF Types
<1>7. \A s \in Symbols \ QuotedStocks : history'[s] = history[s]
  BY <1>2
<1>8. Types'
  BY <1>1, <1>2, <1>6 DEF Types, Refresh
<1>9. InProgress'
  <2>1. \A s \in Symbols : day <= day /\ history'[s].created <= day'
    BY <1>1, <1>2, <1>5, <1>7, HistoryTypes DEF InProgress
  <2>2. QED
    BY <1>1, <1>2, <2>1 DEF InProgress
<1>10. CallsWithin'
  <2>1. refresh'.stage = "idle"
    BY <1>2 DEF Idle
  <2>2. QED
    BY <1>2, <1>4, <1>5, <1>7, <2>1, HistoryWritten
<1>11. MadeToday'
  <2>1. ASSUME ~late, NEW s \in Symbols, history'[s].created = day
        PROVE  history'[s].quote.made = day
    <3>1. CASE s \in QuotedStocks
      BY <1>1, <1>3, <1>5, <2>1, <3>1 DEF MadeToday, QuotedStocks
    <3>2. CASE s \notin QuotedStocks
      BY <1>1, <1>7, <2>1, <3>2 DEF MadeToday, TodaySnapshot
    <3>3. QED
      BY <3>1, <3>2
  <2>2. QED
    BY <1>1, <1>2, <2>1 DEF MadeToday, TodaySnapshot, Idle
<1>12. QED
  BY <1>8, <1>9, <1>10, <1>11 DEF DailyInvariant

LEMMA SetPriceKeeps ==
    ASSUME DailyInvariant, NEW s \in Symbols, SetPrice(s)
    PROVE  DailyInvariant'
<1> DEFINE new == [stock[s] EXCEPT !.made = day]
           price == [symbol |-> s, made |-> day]
<1>1. Types /\ InProgress /\ CallsWithin /\ MadeToday
  BY DEF DailyInvariant
<1>2. /\ UNCHANGED <<day, fired, phase, history, refresh, calls, refreshed, late, failures, crashes>>
      /\ phase = "serving" /\ stock' = [stock EXCEPT ![s] = new] /\ edit' = price
  BY <1>1 DEF SetPrice, Types
<1>3. new \in Quote /\ new.made = day
  <2>1. stock[s] \in Quote \cup {FirstStock} /\ day \in 1..Days
    BY <1>1 DEF Types
  <2>2. QED
    BY <2>1 DEF Quote, FirstStock, Sources
<1>4. price \in Edit /\ price.made = day
  BY <1>1 DEF Edit, Types
<1> HIDE DEF new, price
<1>5. stock' \in [Symbols -> Quote \cup {FirstStock}]
  BY <1>1, <1>2, <1>3 DEF Types
<1>6. Types'
  BY <1>1, <1>2, <1>4, <1>5 DEF Types
<1>7. day <= day
  BY <1>1, HistoryTypes
<1>8. InProgress'
  BY <1>1, <1>2, <1>4, <1>7 DEF InProgress
<1>9. CallsWithin'
  BY <1>1, <1>2 DEF CallsWithin, Answered, TodaySnapshot, Lost
<1>10. ASSUME ~late, NEW x \in refreshed
       PROVE  stock'[x].made = day
  <2>1. x \in Symbols /\ stock[x].made = day
    BY <1>1, <1>10 DEF Types, MadeToday
  <2>2. CASE x = s
    BY <1>1, <1>2, <1>3, <2>2 DEF Types
  <2>3. CASE x # s
    BY <1>1, <1>2, <2>1, <2>3 DEF Types
  <2>4. QED
    BY <2>2, <2>3
<1>11. MadeToday'
  BY <1>1, <1>2, <1>4, <1>10 DEF MadeToday, TodaySnapshot
<1>12. QED
  BY <1>6, <1>8, <1>9, <1>11 DEF DailyInvariant

LEMMA RecordPriceKeeps ==
    ASSUME DailyInvariant, RecordPrice
    PROVE  DailyInvariant'
<1> DEFINE s == edit.symbol
           quote == [source |-> "admin", made |-> edit.made]
           snapshot == [quote |-> quote, created |-> day]
<1>1. Types /\ InProgress /\ MadeToday
  BY DEF DailyInvariant
<1>2. /\ UNCHANGED <<day, fired, phase, stock, refresh, calls, refreshed, late, failures, crashes>>
      /\ edit # NoEdit /\ edit' = NoEdit /\ history' = [history EXCEPT ![s] = snapshot]
  BY DEF RecordPrice
<1>3. s \in Symbols /\ edit.made \in 1..Days /\ (~late => edit.made = day)
  BY <1>1, <1>2 DEF Types, Edit, MadeToday
<1>4. quote \in Quote /\ quote.made = edit.made
  BY <1>3 DEF Quote, Sources
<1> HIDE DEF quote, s
<1>5. snapshot \in Snapshot /\ snapshot.created = day /\ snapshot.quote = quote
  BY <1>1, <1>4 DEF Snapshot, Types
<1> HIDE DEF snapshot
<1>6. /\ history' \in [Symbols -> Snapshot \cup {NoSnapshot}] /\ history'[s] = snapshot
      /\ \A x \in Symbols \ {s} : history'[x] = history[x]
  BY <1>1, <1>2, <1>3, <1>5 DEF Types
<1>7. Types'
  BY <1>1, <1>2, <1>6 DEF Types, Edit
<1>8. InProgress'
  <2>1. day <= day
    BY <1>1, <1>3, HistoryTypes
  <2>2. \A x \in Symbols : history'[x].created <= day'
    BY <1>1, <1>2, <1>5, <1>6, <2>1 DEF InProgress
  <2>3. QED
    BY <1>1, <1>2, <2>2 DEF InProgress
<1>9. CallsWithin'
  <2>1. {s} \in SUBSET Symbols /\ refresh' = refresh
    BY <1>2, <1>3
  <2>2. QED
    BY <1>2, <1>5, <1>6, <2>1, HistoryWritten
<1>10. MadeToday'
  <2>1. ASSUME ~late, NEW x \in Symbols, history'[x].created = day
        PROVE  history'[x].quote.made = day
    BY <1>1, <1>3, <1>4, <1>5, <1>6, <2>1 DEF MadeToday, TodaySnapshot
  <2>2. QED
    BY <1>1, <1>2, <2>1 DEF MadeToday, TodaySnapshot
<1>11. QED
  BY <1>7, <1>8, <1>9, <1>10 DEF DailyInvariant

\* One more failure or crash leaves room for one more call.
LEMMA RoomStays ==
    ASSUME DailyInvariant, failures' \in 0..MaxFailures, crashes' \in 0..MaxCrashes,
           failures <= failures', crashes <= crashes', UNCHANGED <<day, history, calls>>,
           refresh' = refresh \/ (refresh' = Idle /\ Lost' = Lost + 1)
    PROVE  CallsWithin'
<1>1. Types /\ CallsWithin
  BY DEF DailyInvariant
<1>2. Lost <= Lost' /\ Lost \in Nat /\ Lost' \in Nat
  BY LostGrows
<1>3. ASSUME NEW s \in Symbols
      PROVE  /\ calls'[s] <= 1 + Lost'
             /\ refresh'.stage = "api" /\ s = refresh'.symbol => calls'[s] <= Lost'
             /\ ~Answered(s)' => calls'[s] <= Lost'
  <2>1. calls[s] \in Nat /\ calls[s] <= 1 + Lost /\ calls'[s] = calls[s]
    BY <1>1, HistoryTypes DEF CallsWithin
  <2>2. calls'[s] <= 1 + Lost'
    BY <1>2, <2>1
  <2>3. CASE refresh' = refresh
    <3>1. /\ refresh.stage = "api" /\ s = refresh.symbol => calls[s] <= Lost
          /\ ~Answered(s) => calls[s] <= Lost
      BY <1>1 DEF CallsWithin
    <3>2. Answered(s)' <=> Answered(s)
      BY <2>3 DEF Answered, TodaySnapshot
    <3>3. calls[s] <= Lost => calls'[s] <= Lost'
      BY <1>2, <2>1
    <3>4. QED
      BY <2>2, <2>3, <3>1, <3>2, <3>3
  <2>4. CASE refresh' = Idle /\ Lost' = Lost + 1
    <3>1. calls'[s] <= Lost'
      BY <1>2, <2>1, <2>4
    <3>2. QED
      BY <2>2, <3>1
  <2>5. QED
    BY <2>3, <2>4
<1>4. QED
  BY <1>3 DEF CallsWithin

LEMMA FailRecordKeeps ==
    ASSUME DailyInvariant, FailRecord
    PROVE  DailyInvariant'
<1>1. Types /\ InProgress /\ MadeToday
  BY DEF DailyInvariant
<1>2. /\ UNCHANGED <<day, fired, phase, history, stock, refresh, calls, refreshed, late, crashes>>
      /\ edit' = NoEdit /\ Fail
  BY DEF FailRecord
<1>3. failures' \in 0..MaxFailures /\ failures <= failures'
  BY <1>2, FailCounts
<1>4. crashes' \in 0..MaxCrashes /\ crashes <= crashes'
  BY <1>1, <1>2, DailyQuotesAssumption DEF Types
<1>5. Types'
  BY <1>1, <1>2, <1>3 DEF Types, Edit
<1>6. InProgress' /\ MadeToday'
  BY <1>1, <1>2 DEF InProgress, MadeToday, TodaySnapshot
<1>7. CallsWithin'
  BY <1>2, <1>3, <1>4, RoomStays
<1>8. QED
  BY <1>5, <1>6, <1>7 DEF DailyInvariant

LEMMA CrashKeeps ==
    ASSUME DailyInvariant, CrashBackend
    PROVE  DailyInvariant'
<1>1. Types /\ InProgress /\ MadeToday
  BY DEF DailyInvariant
<1>2. /\ UNCHANGED <<day, fired, history, stock, calls, refreshed, late, failures>>
      /\ phase' = "down" /\ refresh' = Idle /\ edit' = NoEdit
      /\ crashes < MaxCrashes /\ crashes' = crashes + 1
  BY DEF CrashBackend
<1>3. failures \in Nat /\ crashes \in Nat /\ MaxCrashes \in Nat
  BY <1>1, DailyQuotesAssumption DEF Types
<1>4. failures' \in 0..MaxFailures /\ failures <= failures'
  BY <1>2, FailuresStay
<1>5. crashes' \in 0..MaxCrashes /\ crashes <= crashes'
  BY <1>2, <1>3
<1>6. Lost' = Lost + 1
  <2>1. Lost = failures + crashes /\ Lost' = failures + (crashes + 1)
    BY <1>2 DEF Lost
  <2>2. QED
    BY <1>3, <2>1
<1>7. Types'
  BY <1>1, <1>2, <1>4, <1>5 DEF Types, Edit, Refresh
<1>8. InProgress' /\ MadeToday'
  BY <1>1, <1>2 DEF InProgress, MadeToday, TodaySnapshot, Idle
<1>9. CallsWithin'
  BY <1>2, <1>4, <1>5, <1>6, RoomStays
<1>10. QED
  BY <1>7, <1>8, <1>9 DEF DailyInvariant

\* No call was made on the new day, and nothing is recorded as of it.
LEMMA MidnightKeeps ==
    ASSUME DailyInvariant, Midnight
    PROVE  DailyInvariant'
<1>1. Types /\ InProgress /\ MadeToday
  BY DEF DailyInvariant
<1>2. /\ UNCHANGED <<phase, history, stock, refresh, edit, failures, crashes>>
      /\ day < Days /\ day' = day + 1 /\ fired' = FALSE /\ calls' = [s \in Symbols |-> 0]
      /\ refreshed' = {} /\ late' = (refresh # Idle \/ edit # NoEdit)
  BY DEF Midnight
<1>3. day \in 1..Days /\ Days \in Nat
  BY <1>1, DailyQuotesAssumption DEF Types
<1>4. day' \in 1..Days /\ day < day'
  BY <1>2, <1>3
<1>5. late' \in BOOLEAN /\ calls' \in [Symbols -> Nat] /\ \A s \in Symbols : calls'[s] = 0
  BY <1>2
<1>6. Types'
  BY <1>1, <1>2, <1>4, <1>5 DEF Types
<1>7. ASSUME NEW s \in Symbols
      PROVE  history[s].created <= day' /\ history[s].created # day'
  <2>1. history[s].created <= day
    BY <1>1 DEF InProgress
  <2>2. history[s].created \in Nat
    <3>1. history[s] \in Snapshot \cup {NoSnapshot}
      BY <1>1 DEF Types
    <3>2. QED
      BY <1>3, <3>1 DEF Snapshot, NoSnapshot
  <2>3. QED
    BY <1>3, <1>4, <2>1, <2>2
<1>8. edit # NoEdit => edit.made <= day'
  <2>1. edit # NoEdit => edit.made \in 1..Days /\ edit.made <= day
    BY <1>1 DEF Types, Edit, InProgress
  <2>2. QED
    BY <1>3, <1>4, <2>1
<1>9. InProgress'
  BY <1>1, <1>2, <1>7, <1>8 DEF InProgress
<1>10. Lost' = Lost /\ Lost \in Nat
  BY <1>2, LostStays
<1>11. CallsWithin'
  <2>1. 0 <= Lost' /\ 0 <= 1 + Lost'
    BY <1>10
  <2>2. QED
    BY <1>5, <2>1 DEF CallsWithin
<1>12. MadeToday'
  <2>1. ~late' => refresh' = Idle /\ edit' = NoEdit
    BY <1>2
  <2>2. \A s \in Symbols : ~TodaySnapshot(s)'
    BY <1>2, <1>7 DEF TodaySnapshot
  <2>3. QED
    BY <1>2, <2>1, <2>2 DEF MadeToday, Idle
<1>13. QED
  BY <1>6, <1>9, <1>11, <1>12 DEF DailyInvariant

-----------------------------------------------------------------------------
(* The invariant *)

LEMMA DailyInvariantInit == DailyInit => DailyInvariant
<1> SUFFICES ASSUME DailyInit PROVE DailyInvariant
  OBVIOUS
<1>1. Days \in Nat /\ MaxFailures \in Nat /\ MaxCrashes \in Nat
  BY DailyQuotesAssumption
<1>2. Types
  <2>1. 1 \in 1..Days
    BY <1>1, DailyQuotesAssumption
  <2>2. failures \in 0..MaxFailures /\ crashes \in 0..MaxCrashes
    BY <1>1 DEF DailyInit
  <2>3. history \in [Symbols -> Snapshot \cup {NoSnapshot}]
        /\ stock \in [Symbols -> Quote \cup {FirstStock}] /\ calls \in [Symbols -> Nat]
    BY DEF DailyInit, FirstStock
  <2>4. refresh \in Refresh /\ edit \in Edit
    BY DEF DailyInit, Refresh, Edit
  <2>5. /\ fired \in BOOLEAN /\ late \in BOOLEAN /\ phase \in {"down", "starting", "serving"}
        /\ refreshed \subseteq Symbols
    BY DEF DailyInit
  <2>6. day \in 1..Days
    BY <2>1 DEF DailyInit
  <2>7. QED
    BY <2>2, <2>3, <2>4, <2>5, <2>6 DEF Types
<1>3. InProgress
  BY DEF DailyInit, InProgress, NoSnapshot
<1>4. CallsWithin
  <2>1. Lost = 0
    BY DEF DailyInit, Lost
  <2>2. refresh.stage # "api" /\ \A s \in Symbols : calls[s] = 0
    BY DEF DailyInit, Idle
  <2>3. 0 <= Lost /\ 0 <= 1 + Lost
    BY <2>1
  <2>4. ASSUME NEW s \in Symbols
        PROVE  /\ calls[s] <= 1 + Lost
               /\ refresh.stage = "api" /\ s = refresh.symbol => calls[s] <= Lost
               /\ ~Answered(s) => calls[s] <= Lost
    <3>1. calls[s] <= Lost /\ calls[s] <= 1 + Lost
      BY <2>2, <2>3
    <3>2. QED
      BY <3>1
  <2>5. QED
    BY <2>4 DEF CallsWithin
<1>5. MadeToday
  BY DEF DailyInit, MadeToday, Idle, TodaySnapshot, NoSnapshot
<1>6. QED
  BY <1>2, <1>3, <1>4, <1>5 DEF DailyInvariant

LEMMA DailyStep == DailyInvariant /\ [DailyNext]_dailyVars => DailyInvariant'
<1> SUFFICES ASSUME DailyInvariant, [DailyNext]_dailyVars PROVE DailyInvariant'
  OBVIOUS
<1>1. CASE UNCHANGED dailyVars
  BY <1>1 DEF dailyVars, DailyInvariant, Types, InProgress, CallsWithin, MadeToday, Answered,
              TodaySnapshot, Lost
<1>2. CASE DailyNext
  BY <1>2, PhaseKeeps, ReuseKeeps, AskApiKeeps, FallBackKeeps, FailRefreshKeeps, AnswerApiKeeps,
     PersistSnapshotKeeps, SaveStocksKeeps, SaveHistoryKeeps, SetPriceKeeps, RecordPriceKeeps,
     FailRecordKeeps, CrashKeeps, MidnightKeeps
  DEF DailyNext
<1>3. QED
  BY <1>1, <1>2

LEMMA DailyInvariance == DailySpec => []DailyInvariant
  BY DailyInvariantInit, DailyStep, PTL DEF DailySpec

\* The API answers for a stock once a day, and once more only for a failure or a
\* crash that lost the snapshot of its answer: whatever else happens, the answer
\* is on its way to the price history, where the next refresh finds it.
THEOREM DailyOneCallPerDay == DailySpec => []OneCallPerDay
<1>1. ASSUME DailyInvariant
      PROVE  OneCallPerDay
  <2>1. Types /\ InProgress /\ CallsWithin
    BY <1>1 DEF DailyInvariant
  <2>2. failures \in 0..MaxFailures /\ crashes \in 0..MaxCrashes
        /\ MaxFailures \in Nat /\ MaxCrashes \in Nat
    BY <2>1, DailyQuotesAssumption DEF Types
  <2>3. ASSUME NEW s \in Symbols
        PROVE  /\ calls[s] <= 1 + failures + crashes
               /\ calls[s] \in 0..(1 + MaxFailures + MaxCrashes)
    <3>1. calls[s] \in Nat /\ calls[s] <= 1 + (failures + crashes)
      BY <2>1 DEF Types, CallsWithin, Lost
    <3>2. QED
      BY <2>2, <3>1
  <2>4. refresh # Idle =>
            /\ phase # "down"
            /\ refresh.stage \in {"next", "api", "snapshot", "history"}
            /\ refresh.quotes \in [Symbols -> Quote \cup {NoQuote}]
            /\ \A s \in refresh.todo : refresh.quotes[s] = NoQuote
    BY <2>1 DEF Types, Refresh, NextRefresh, ApiRefresh, SnapshotRefresh, QuotesMap,
                QuoteOrNone, InProgress
  <2>5. edit # NoEdit => phase = "serving" /\ edit.symbol \in Symbols /\ edit.made \in 1..day
    <3>1. edit # NoEdit =>
              /\ phase = "serving" /\ edit.symbol \in Symbols /\ edit.made \in 1..Days
              /\ edit.made <= day
      BY <2>1 DEF Types, Edit, InProgress
    <3>2. day \in 1..Days /\ Days \in Nat
      BY <2>1, DailyQuotesAssumption DEF Types
    <3>3. QED
      BY <3>1, <3>2
  <2>6. calls \in [Symbols -> 0..(1 + MaxFailures + MaxCrashes)]
    BY <2>1, <2>3 DEF Types
  <2>7. DailyTypeOK
    BY <2>1, <2>4, <2>5, <2>6 DEF DailyTypeOK, Types, FirstStock
  <2>8. QED
    BY <2>3, <2>7 DEF OneCallPerDay
<1>2. QED
  BY <1>1, DailyInvariance, PTL

\* A stock refreshed today has a price made today, unless a refresh or a price
\* change went on past midnight: otherwise every price at hand is of the day, the
\* latest snapshot in the history included if it is dated today.
THEOREM DailyQuotesOfToday == DailySpec => []QuotesOfToday
<1>1. DailyInvariant => QuotesOfToday
  BY DEF DailyInvariant, MadeToday, QuotesOfToday
<1>2. QED
  BY <1>1, DailyInvariance, PTL

-----------------------------------------------------------------------------
(* What becomes of a stock that a refresh takes for an administrator's *)

\* A refresh in progress leaves alone the stocks that are an administrator's.
Spared ==
    \A s \in Symbols : stock[s].source = "admin" =>
        /\ refresh.stage \in {"next", "api", "snapshot"} =>
               s \notin refresh.todo /\ refresh.quotes[s] = NoQuote
        /\ refresh.stage \in {"api", "snapshot"} => refresh.symbol # s

LEMMA SparedInit == DailyInit => Spared
  BY DEF DailyInit, Spared

\* A refresh that moves on with a quote for a stock it still had to do.
LEMMA QuotedSpares ==
    ASSUME Types, Spared, NEW s \in Symbols, NEW quote,
           refresh.stage \in {"next", "api", "snapshot"}, stock[s].source # "admin",
           Quoted(s, quote), UNCHANGED stock
    PROVE  Spared'
<1>1. refresh.quotes \in QuotesMap
  BY DEF Types, Refresh, Idle, NextRefresh, ApiRefresh, SnapshotRefresh
<1>2. /\ refresh'.stage = "next" /\ refresh'.todo = refresh.todo \ {s}
      /\ refresh'.quotes = [refresh.quotes EXCEPT ![s] = quote]
  BY DEF Quoted
<1>3. QED
  BY <1>1, <1>2 DEF Spared, QuotesMap

LEMMA SparedStep ==
    ASSUME Types, Spared, [DailyNext]_dailyVars
    PROVE  Spared' /\ \A s \in Symbols : stock[s].source = "admin" => stock'[s].source = "admin"
<1>1. ASSUME UNCHANGED stock, Spared'
      PROVE  \A s \in Symbols : stock[s].source = "admin" => stock'[s].source = "admin"
  BY <1>1
<1>2. ASSUME UNCHANGED <<stock, refresh>> PROVE Spared'
  BY <1>2 DEF Spared
<1>3. UNCHANGED dailyVars \/ StartServing \/ Midnight \/ RecordPrice \/ FailRecord =>
          UNCHANGED <<stock, refresh>>
  BY DEF dailyVars, StartServing, Midnight, RecordPrice, FailRecord
<1>4. ASSUME UNCHANGED stock, refresh' \in {refresh, Idle, NewRefresh} PROVE Spared'
  <2>1. refresh' = Idle => Spared'
    BY DEF Spared, Idle
  <2>2. refresh' = NewRefresh => Spared'
    BY <1>4, <2>1 DEF Spared, NewRefresh
  <2>3. QED
    BY <1>2, <1>4, <2>1, <2>2
<1>5. StartBackend \/ FireCron \/ CrashBackend \/ FailRefresh =>
          UNCHANGED stock /\ refresh' \in {refresh, Idle, NewRefresh}
  BY DEF StartBackend, FireCron, CrashBackend, FailRefresh
<1>6. ASSUME NEW s \in Symbols, Reuse(s) PROVE Spared' /\ UNCHANGED stock
  BY <1>6, QuotedSpares DEF Reuse, Spared
<1>7. ASSUME NEW s \in Symbols, AskApi(s) PROVE Spared' /\ UNCHANGED stock
  BY <1>7 DEF AskApi, Spared
<1>8. ASSUME NEW s \in Symbols, FallBack(s) PROVE Spared' /\ UNCHANGED stock
  BY <1>8, QuotedSpares DEF FallBack, Spared
<1>9. CASE AnswerApi
  <2>1. Spared' /\ UNCHANGED stock
    BY <1>9 DEF AnswerApi, Spared
  <2>2. QED
    BY <1>1, <2>1
<1>10. CASE PersistSnapshot
  <2>1. refresh.symbol \in Symbols
    BY <1>10 DEF PersistSnapshot, Types, Refresh, Idle, NextRefresh, ApiRefresh, SnapshotRefresh
  <2>2. Spared' /\ UNCHANGED stock
    BY <1>10, <2>1, QuotedSpares DEF PersistSnapshot, Spared
  <2>3. QED
    BY <1>1, <2>2
<1>11. CASE SaveStocks
  <2>1. refresh'.stage = "history"
    BY <1>11 DEF SaveStocks, Types, Refresh, Idle, NextRefresh, ApiRefresh, SnapshotRefresh
  <2>2. \A s \in Symbols : stock[s].source = "admin" => stock'[s] = stock[s]
    BY <1>11 DEF SaveStocks, QuotedStocks, Spared
  <2>3. QED
    BY <2>1, <2>2 DEF Spared
<1>12. CASE SaveHistory
  BY <1>4, <1>12 DEF SaveHistory
<1>13. ASSUME NEW s \in Symbols, SetPrice(s)
       PROVE  Spared' /\ \A x \in Symbols : stock'[x].source = stock[x].source
  <2>1. \A x \in Symbols : stock'[x].source = stock[x].source
    BY <1>13 DEF SetPrice, Types, Quote, FirstStock
  <2>2. QED
    BY <1>13, <2>1 DEF SetPrice, Spared
<1>14. QED
  BY <1>1, <1>2, <1>3, <1>4, <1>5, <1>6, <1>7, <1>8, <1>9, <1>10, <1>11, <1>12, <1>13 DEF DailyNext

\* A stock that a refresh has once taken for an administrator's never comes back to the
\* provider: no refresh, price change or restart undoes what breaks StaysWithProvider.
THEOREM DailyAdminForever ==
    DailySpec =>
        [][\A s \in Symbols : stock[s].source = "admin" => stock'[s].source = "admin"]_dailyVars
<1>1. DailyInvariant => Types
  BY DEF DailyInvariant
<1>2. Types /\ Spared /\ [DailyNext]_dailyVars => Spared'
  BY SparedStep
<1>3. Types /\ Spared /\ [DailyNext]_dailyVars =>
          [\A s \in Symbols : stock[s].source = "admin" => stock'[s].source = "admin"]_dailyVars
  BY SparedStep
<1>4. QED
  BY <1>1, <1>2, <1>3, SparedInit, DailyInvariance, PTL DEF DailySpec
=============================================================================
