--------------------------- MODULE ExecutionCycle ---------------------------
(***************************************************************************)
(* The execution cycle of limit orders: a cron job in every process that   *)
(* guards itself with the flag isRunning and with a lock in the shared     *)
(* cache, reads the pending orders and executes those whose limit the      *)
(* price crosses.  Processes die and restart, Redis goes away, a cycle may *)
(* last longer than its lock, an order may be cancelled at any time.       *)
(*                                                                         *)
(* executeOrder is one step here: its transaction is atomic, which         *)
(* OrderTransactions shows.  A cron firing while the previous cycle of the *)
(* process still runs is another activation of the same process.           *)
(***************************************************************************)
EXTENDS SharedCache

CONSTANTS
    Slots,     \* bound: activations of the cron job alive in one process
    Orders,    \* limit orders
    MaxFaults  \* bound: crashes, lost connections and failed operations

Activations == Processes \X Slots

ASSUME ExecutionCycleAssumption ==
    /\ MaxFaults \in Nat
    /\ Slots \subseteq Nat
    /\ Owners = Activations \X {1, 2, 3}

VARIABLES
    isRunning,  \* isRunning[p]: the flag of the service in process p
    stage,      \* stage[c]: where activation c stands
    owner,      \* owner[c]: the UUID it drew
    lease,      \* lease[c]: time left to the lock it took, when it knows it (history)
    todo,       \* todo[c]: pending orders it read and has not looked at
    target,     \* target[c]: the set of at most one order it is executing
    status,     \* status[o]: "NEW" before its creation, then as in the database
    fills,      \* fills[o]: trades made for o
    crossing,   \* orders whose limit the current price crosses
    open,       \* the market is open
    faults      \* faults so far

cycleVars == <<isRunning, stage, owner, lease, todo, target>>
orderVars == <<status, fills>>
worldVars == <<crossing, open>>
vars == <<cacheVars, cycleVars, orderVars, worldVars, faults>>

TypeOK ==
    /\ CacheTypeOK
    /\ isRunning \in [Processes -> BOOLEAN]
    /\ stage \in [Activations -> {"idle", "locking", "reading", "working", "releasing"}]
    /\ owner \in [Activations -> Owners]
    /\ lease \in [Activations -> 0..LockTtl]
    /\ todo \in [Activations -> SUBSET Orders]
    /\ target \in [Activations -> SUBSET Orders]
    /\ status \in [Orders -> {"NEW", "PENDING", "EXECUTED", "CANCELLED"}]
    /\ fills \in [Orders -> Nat]
    /\ crossing \subseteq Orders
    /\ open \in BOOLEAN
    /\ faults \in 0..MaxFaults

Init ==
    /\ CacheInit
    /\ isRunning = [p \in Processes |-> FALSE]
    /\ stage = [c \in Activations |-> "idle"]
    /\ owner = [c \in Activations |-> <<c, 1>>]
    /\ lease = [c \in Activations |-> 0]
    /\ todo = [c \in Activations |-> {}]
    /\ target = [c \in Activations |-> {}]
    /\ status = [o \in Orders |-> "NEW"]
    /\ fills = [o \in Orders |-> 0]
    /\ crossing = {}
    /\ open = TRUE
    /\ faults = 0

-----------------------------------------------------------------------------
(* handleMarketTick *)

Goto(c, s) == stage' = [stage EXCEPT ![c] = s]

\* A UUID no lock carries: three per activation are enough, since Redis and
\* the store of its process hold one lock each.
Fresh(c) ==
    CHOOSE n \in {1, 2, 3} :
        \A s \in Stores : ~(Held(s) /\ locks[s].owner = <<c, n>>)

\* Mutant: the flag is not looked at.
FireAnyway(c) ==
    LET p == c[1]
    IN  /\ Up(p)
        /\ stage[c] = "idle"
        /\ isRunning' = [isRunning EXCEPT ![p] = TRUE]
        /\ owner' = [owner EXCEPT ![c] = <<c, Fresh(c)>>]
        /\ Goto(c, "locking")
        /\ UNCHANGED <<cacheVars, lease, todo, target, orderVars, worldVars, faults>>

\* The cron job fires; it returns at once if the flag is up.
Fire(c) ==
    LET p == c[1]
    IN  /\ Up(p)
        /\ stage[c] = "idle"
        /\ ~isRunning[p]
        /\ isRunning' = [isRunning EXCEPT ![p] = TRUE]
        /\ owner' = [owner EXCEPT ![c] = <<c, Fresh(c)>>]
        /\ Goto(c, "locking")
        /\ UNCHANGED <<cacheVars, lease, todo, target, orderVars, worldVars, faults>>

\* The cycle ends and the flag goes down, whatever happened.
Leave(c) ==
    /\ Goto(c, "idle")
    /\ isRunning' = [isRunning EXCEPT ![c[1]] = FALSE]

TakeLock(c) ==
    /\ stage[c] = "locking"
    /\ AcquireLock(c[1], owner[c])
    /\ lease' = [lease EXCEPT ![c] = LockTtl]
    /\ Goto(c, "reading")
    /\ UNCHANGED <<link, connected, isRunning, owner, todo, target, orderVars,
                   worldVars, faults>>

\* Mutant: only a refusal, not an error, puts the flag down.
MissLockStuck(c) ==
    /\ stage[c] = "locking"
    /\ LockRefused(c[1]) \/ Unavailable(c[1])
    /\ Goto(c, "idle")
    /\ isRunning' = [isRunning EXCEPT ![c[1]] = Unavailable(c[1])]
    /\ UNCHANGED <<cacheVars, owner, lease, todo, target, orderVars, worldVars, faults>>

\* Another owner has the lock, or acquireLock throws.
MissLock(c) ==
    /\ stage[c] = "locking"
    /\ LockRefused(c[1]) \/ Unavailable(c[1])
    /\ Leave(c)
    /\ UNCHANGED <<cacheVars, owner, lease, todo, target, orderVars, worldVars, faults>>

\* executeCycle: nothing to do while the market is closed; else the pending
\* orders are read.
ReadOrders(c) ==
    /\ stage[c] = "reading"
    /\ IF open
       THEN /\ todo' = [todo EXCEPT ![c] = {o \in Orders : status[o] = "PENDING"}]
            /\ Goto(c, "working")
       ELSE /\ Goto(c, "releasing")
            /\ UNCHANGED todo
    /\ UNCHANGED <<cacheVars, isRunning, owner, lease, target, orderVars, worldVars,
                   faults>>

\* The next order: its price is read, and decides whether it is executed.
PriceOrder(c) ==
    /\ stage[c] = "working"
    /\ target[c] = {}
    /\ \E o \in todo[c] :
          /\ todo' = [todo EXCEPT ![c] = @ \ {o}]
          /\ target' = [target EXCEPT ![c] = {o} \cap crossing]
    /\ UNCHANGED <<cacheVars, isRunning, stage, owner, lease, orderVars, worldVars,
                   faults>>

\* Mutant: the order is settled as the cycle read it.
SettleUnread(c) ==
    \E o \in target[c] :
        /\ status' = [status EXCEPT ![o] = "EXECUTED"]
        /\ fills' = [fills EXCEPT ![o] = @ + 1]
        /\ target' = [target EXCEPT ![c] = {}]
        /\ UNCHANGED <<cacheVars, isRunning, stage, owner, lease, todo, worldVars,
                       faults>>

\* executeOrder: filled or cancelled defensively if it is still pending.
Settle(c) ==
    \E o \in target[c] :
        /\ \/ /\ status[o] = "PENDING"
              /\ status' = [status EXCEPT ![o] = "EXECUTED"]
              /\ fills' = [fills EXCEPT ![o] = @ + 1]
           \/ /\ status[o] = "PENDING"
              /\ status' = [status EXCEPT ![o] = "CANCELLED"]
              /\ UNCHANGED fills
           \/ /\ status[o] # "PENDING"
              /\ UNCHANGED orderVars
        /\ target' = [target EXCEPT ![c] = {}]
        /\ UNCHANGED <<cacheVars, isRunning, stage, owner, lease, todo, worldVars,
                       faults>>

Finish(c) ==
    /\ stage[c] = "working"
    /\ todo[c] = {} /\ target[c] = {}
    /\ Goto(c, "releasing")
    /\ UNCHANGED <<cacheVars, isRunning, owner, lease, todo, target, orderVars,
                   worldVars, faults>>

\* The finally block; an error of releaseLock is logged and the lock expires.
Release(c) ==
    /\ stage[c] = "releasing"
    /\ \/ ReleaseLock(c[1], owner[c])
       \/ Unavailable(c[1]) /\ UNCHANGED locks
    /\ lease' = [lease EXCEPT ![c] = 0]
    /\ Leave(c)
    /\ UNCHANGED <<link, connected, owner, todo, target, orderVars, worldVars, faults>>

CycleStep(c) ==
    \/ TakeLock(c) \/ MissLock(c) \/ ReadOrders(c) \/ PriceOrder(c)
    \/ Settle(c) \/ Finish(c) \/ Release(c)

-----------------------------------------------------------------------------
(* Faults *)

Fault == faults < MaxFaults /\ faults' = faults + 1

\* SET NX is carried out but the answer is lost with the connection.
LoseAnswer(c) ==
    /\ Fault
    /\ stage[c] = "locking"
    /\ connected[c[1]]
    /\ AcquireLock(c[1], owner[c])
    /\ LoseRedis(c[1]) \/ CloseQuietly(c[1])
    /\ Leave(c)
    /\ UNCHANGED <<owner, lease, todo, target, orderVars, worldVars>>

\* A read of the cycle throws: the rest of it is given up.
FailReading(c) ==
    /\ Fault
    /\ stage[c] \in {"reading", "working"}
    /\ target[c] = {}
    /\ todo' = [todo EXCEPT ![c] = {}]
    /\ Goto(c, "releasing")
    /\ UNCHANGED <<cacheVars, isRunning, owner, lease, target, orderVars, worldVars>>

\* The transaction of executeOrder fails: logged, the cycle goes on.
FailSettling(c) ==
    /\ Fault
    /\ target[c] # {}
    /\ target' = [target EXCEPT ![c] = {}]
    /\ UNCHANGED <<cacheVars, isRunning, stage, owner, lease, todo, orderVars, worldVars>>

Disconnect(p) ==
    /\ Fault
    /\ LoseRedis(p) \/ CloseQuietly(p)
    /\ UNCHANGED <<locks, cycleVars, orderVars, worldVars>>

Crash(p) ==
    /\ Fault
    /\ Exit(p)
    /\ isRunning' = [isRunning EXCEPT ![p] = FALSE]
    /\ stage' = [c \in Activations |-> IF c[1] = p THEN "idle" ELSE stage[c]]
    /\ lease' = [c \in Activations |-> IF c[1] = p THEN 0 ELSE lease[c]]
    /\ todo' = [c \in Activations |-> IF c[1] = p THEN {} ELSE todo[c]]
    /\ target' = [c \in Activations |-> IF c[1] = p THEN {} ELSE target[c]]
    /\ UNCHANGED <<owner, orderVars, worldVars>>

-----------------------------------------------------------------------------
(* The rest of the world *)

Start(p) == Boot(p) /\ UNCHANGED <<cycleVars, orderVars, worldVars, faults>>

Time ==
    /\ Elapse
    /\ lease' = [c \in Activations |-> IF lease[c] = 0 THEN 0 ELSE lease[c] - 1]
    /\ UNCHANGED <<isRunning, stage, owner, todo, target, orderVars, worldVars, faults>>

DropFallbackLock(p) ==
    Evict(p) /\ UNCHANGED <<cycleVars, orderVars, worldVars, faults>>

PlaceOrder(o) ==
    /\ status[o] = "NEW"
    /\ status' = [status EXCEPT ![o] = "PENDING"]
    /\ UNCHANGED <<cacheVars, cycleVars, fills, worldVars, faults>>

CancelOrder(o) ==
    /\ status[o] = "PENDING"
    /\ status' = [status EXCEPT ![o] = "CANCELLED"]
    /\ UNCHANGED <<cacheVars, cycleVars, fills, worldVars, faults>>

MovePrice(o) ==
    /\ crossing' = IF o \in crossing THEN crossing \ {o} ELSE crossing \cup {o}
    /\ UNCHANGED <<cacheVars, cycleVars, orderVars, open, faults>>

OpenOrClose ==
    /\ open' = ~open
    /\ UNCHANGED <<cacheVars, cycleVars, orderVars, crossing, faults>>

Next ==
    \/ \E c \in Activations : Fire(c) \/ CycleStep(c)
    \/ \E c \in Activations : LoseAnswer(c) \/ FailReading(c) \/ FailSettling(c)
    \/ \E p \in Processes : Start(p) \/ Disconnect(p) \/ Crash(p) \/ DropFallbackLock(p)
    \/ \E o \in Orders : PlaceOrder(o) \/ CancelOrder(o) \/ MovePrice(o)
    \/ Time
    \/ OpenOrClose

\* Processes are restarted (restart: unless-stopped), the cron job fires every
\* ten seconds, its promises settle, and time passes for the lock.
Fairness ==
    /\ \A p \in Processes : WF_vars(Start(p))
    /\ \A p \in Processes : WF_vars(\E s \in Slots : Fire(<<p, s>>))
    /\ \A c \in Activations : WF_vars(CycleStep(c))
    /\ WF_vars(Time)

Spec == Init /\ [][Next]_vars /\ Fairness

-----------------------------------------------------------------------------
(* Properties *)

Inside(c) == stage[c] \in {"reading", "working", "releasing"}

\* The flag keeps the cycles of one process apart, also when the lock is in
\* the fallback store, where it may expire or be evicted; the state of both
\* stays well-formed.
OneCyclePerProcess ==
    /\ TypeOK
    /\ \A c, d \in Activations : c # d /\ c[1] = d[1] =>
          stage[c] = "idle" \/ stage[d] = "idle"

\* In production, the lock an activation took is in Redis under its name until
\* it expires: no other activation takes it, and one that lost its own lock does
\* not release this one.
UnexpiredLockKept ==
    ~FallbackAllowed =>
        \A c \in Activations :
            lease[c] > 0 => locks["redis"] = [owner |-> owner[c], ttl |-> lease[c]]

\* In production, cycles of different processes overlap only once the lock of
\* one of them has expired.
OverlapOnlyAfterExpiry ==
    ~FallbackAllowed =>
        \A c, d \in Activations :
            c # d /\ Inside(c) /\ Inside(d) => lease[c] = 0 \/ lease[d] = 0

\* However cycles overlap, an order is filled at most once, and never after it
\* was cancelled.
FilledOnce ==
    \A o \in Orders : fills[o] = IF status[o] = "EXECUTED" THEN 1 ELSE 0

\* What the documentation promises of readiness: in production a ready process
\* can use Redis.  A connection that closed without an error breaks it.
ReadyMeansRedis ==
    ~FallbackAllowed => \A p \in Processes : Ready(p, TRUE) => ~Unavailable(p)

\* The flag never stays up: the next cron job can run.
CyclesEnd == \A p \in Processes : isRunning[p] ~> ~isRunning[p]

\* A crossed order is settled in the end, if the market and its price stay as
\* they are, and some process keeps a cache it can use: whatever crashed,
\* whatever lock a dead process left behind.
CrossedOrdersSettle ==
    \A o \in Orders :
        <>[](open /\ o \in crossing /\ \E p \in Processes : Up(p) /\ ~Unavailable(p))
            => (status[o] = "PENDING" ~> status[o] # "PENDING")
=============================================================================
