# Quill backend in TLA+

Specifications of the Quill backend, a paper-trading service (NestJS, MongoDB,
Redis), with the TLC runs that check them on small instances and the theorems
that TLAPS proves about them for all instances. Paths below are relative to the
repository's `src/src/` unless they say otherwise.

## 1. The system and its parts

| Part | State it keeps | Operations that change it | Talks to |
|------|----------------|---------------------------|----------|
| Orders (`modules/orders`: `orders.service`, `order-execution.service`, `commission.service`) | collections users (balances), positions, orders, trades; the flag `isRunning` | `createOrder`, `cancelOrder`, `executeMarketOrder`, the cron job `handleMarketTick` with `executeOrder` | stocks and live prices, currency rates, admin configuration, cache lock |
| Market (`modules/market`) | collections stocks and price_snapshots; cache keys `base_price`, `live_price`; the flags `isTicking`, `isRefreshing` | seeding, ticks, daily refresh, `createStock`, `updateStockPrice`, `deleteStock` | data providers, cache, event bus |
| Cache (`modules/system/.../cache`) | Redis connection, `connected`, fallback store, locks | get, set, delete, `acquireLock`, `releaseLock`, eviction | Redis |
| Readiness (`modules/system/.../health`) | none | – | cache, MongoDB |
| Admin configuration (`modules/admin`) | collections admin_configs, admin_config_snapshots | seeding, `get`, `set`, snapshots, `restoreSnapshot` | everyone who reads a setting |
| Users (`modules/users`) | collections users (profile), friendships | registration, profile, email, password, watchlist, friend requests | stocks, admin configuration |
| Authentication (`modules/auth`, `admin-users.controller`) | `tokenVersion` of a user | login, token check, `updateRole` | users |
| Currencies (`modules/currency`) | cache keys of forex rates; the flag `isTicking` | anchors at start and on a schedule, ticks | HTTP provider with its fallback, cache |
| Portfolio (`modules/portfolio`) | `rateCache`, shared by all requests of a process | `getSummary` clears and fills it | users, positions, stocks, rates |
| Realtime gateway (`modules/realtime`) | socket rooms | subscribe, unsubscribe | event bus |
| Market hours, price strategies (`common/utils`, `modules/common`) | none | – | clock |

What makes the system hard:

- **Concurrency.** HTTP handlers, a cron job every ten seconds, a tick interval
  and a daily refresh interleave at every `await`, in several processes at once.
  Orders and configuration use MongoDB transactions, whose snapshot isolation
  lets a transaction overlook what it only reads. Users, prices and friendships
  use no transaction at all.
- **Failure.** Redis may be lost with or without an error event, an answer may be
  lost after its command was carried out, a process may crash and restart at any
  point, and a lock or a price may expire while somebody relies on it.
- **Money.** Reservations, commissions and currency conversion are rounded at
  different times and with rates that move in between.

What makes each part correct is stated in section 4; the hazards, each at its
line of code, are listed in `PROJECT.json`.

## 2. Modules

```
OrderRules          handlers as operators on a database value
  OrderRulesProofs  lemmas about them
  Ledger            ... one at a time: what the service promises
    LedgerProofs    theorems, and lemmas about finite sums
  OrderTransactions ... as concurrent MongoDB transactions; implements Ledger
    OrderTransactionsProofs
SharedCache         Redis, connections, fallback stores, the lock
  ExecutionCycle    the cron cycle of several processes on top of it
PriceFeed           listing, base and live prices of stocks
  RealtimeGateway   a subscriber to their events
    RealtimeGatewayProofs
DailyQuotes         daily refresh with EODHD, price history
  ScheduledJobsProofs   theorems about ExecutionCycle and DailyQuotes
CurrencyFeed        anchors, ticks and live rates of currencies
  Portfolio         summaries at these rates, with the shared rateCache
    PortfolioProofs
AdminConfig         configuration versions and snapshots
  AdminConfigProofs
Friendships, UserAccounts
  UsersService      both, with interleaved handlers
    UsersServiceProofs
MC*                 instances for TLC
```

### Orders: OrderRules, Ledger, OrderTransactions

`OrderRules` translates each handler into a condition (`CanCreateBuy`: what its
checks and early returns let through) and a result (`CreateBuy`: the database it
leaves). `ExecuteOrder` and `CancelOrder` contain the defensive cancellations of
`processBuyOrder` and `processSellOrder`. Prices, currency rates and the
commission rate are parameters of a request: between two requests, caches and
administrators may change them arbitrarily.

`Ledger` runs these handlers one at a time. It is the abstract specification.
`OrderTransactions` runs them as the code does: a request opens a transaction on a
snapshot (`Begin`), commits its write set (`Commit`), or is run again on a
conflict (`Retry`), rejected (`Reject`) or aborted (`Fail`). A transaction that
touches a document with `$currentDate` writes it; one that only reads it does not.
`ImplementsLedger` says that every commit is a step of `Ledger`.

Balances, reservations and net amounts are whole cents, because the code rounds each
of them with `toDecimalPlaces(2)`. Prices and limits are not: the EODHD mapper keeps four
decimals and the DTOs ask only for a positive number (a limit of a cent at least). They
are counted in units of 1/`PriceScale` cent, and so is the average cost of a position, in
the currency of its stock. Wherever the code rounds a product or a quotient the model divides half up
(`Quotient`), in the order of the code:

- `Gross`: quantity times price, rounded to native cents, and the commission of that.
- `GrossClp`: the same for a price in CLP (FX rate 0, `InClp`). A price in another
  currency is converted and rounded to cents first (`PriceClp`), then multiplied.
- `Reservation`: for a limit in CLP, `createOrder` takes the commission of the gross amount
  before it is rounded, an execution after. An order filled at its own limit may
  therefore cost a cent more than it reserved.
- `Bought`: the first purchase stores its price as average cost as it is; each later one adds
  the rounded gross amount and rounds the mean to cents. `processBuyOrder` and
  `executeMarketOrder` have the same code.

The currency is an input of each request like the rate: an execution takes it from the
provider's quote, which may derive it from the symbol, a reservation and a market order
from the stock. A stock whose currency never changes is one case of this.
`cancelOrder` looks only among the orders of the user who asks; the model lets anyone
cancel, which only adds behaviours.

### The execution cycle: SharedCache, ExecutionCycle

`SharedCache` has the connection of each process (`link`), the flag `connected` by
which `CacheService` chooses between Redis and its fallback store, and the lock with
its time to live. `ExecutionCycle` has the cron activations of each process and
follows `handleMarketTick` through its `await`s: flag, lock, reading the pending
orders, pricing and settling each, release. Faults (crash, loss of Redis with or
without an error, lost answer, failed read, failed transaction) are actions, at
most `MaxFaults` of them. An activation draws a random UUID as owner of its lock; it
is one of three per activation, enough for it to be new as long as an older
one may still be in a store.

### Prices: PriceFeed, RealtimeGateway, DailyQuotes

`PriceFeed` models the writers of a stock's closing price and of its keys
`base_price` and `live_price`: seeding, ticks, refresh, administration. Each step
between two `await`s is an action. A price is abstracted to the event it derives
from: what a provider or an administrator sets gets a new number, which ticks leave
alone. Its provider is one whose quotes are its own, as the mock provider, the
default.

`RealtimeGateway` extends it with one subscription of one socket, any one of them
(`told`). Ticks note in `updates` what they write and emit it when they end; a refresh
emits the whole listing, and an administrator's request the stock it read again. Each
event is sent in the step that emits it, because `EventEmitter2` and the handler run
synchronously; that the listing is read just before is an abstraction. A socket in the
room receives what is sent while its connection lasts. Who may connect is decided as in
`Accepted` of `UserAccounts`.

`DailyQuotes` models the EODHD provider behind the fallback provider, where a
snapshot of today serves as a quote. A price is abstracted to the day it was made
and its source. It has the two writers of the price history, the provider and the
update writer, and the third, `updateStockPrice`. Its specification is
`DailySpec`: so the proofs about the two jobs of a cron schedule, the execution cycle and
the daily refresh, which share no state, have one module that extends both.

### Rates and summaries: CurrencyFeed, Portfolio

`CurrencyFeed` has the keys `base_price`, of which only matters whether it is set, and
`live_price` of each pair of currencies. The anchor fetch at start and on its schedule
and the tick go through the pairs one by one, and each of their cache accesses is an
action that may fail: the error of an anchor is caught per pair, that of a tick ends the
tick. A live rate may lapse at any moment, which covers every interval and time to live.
The model takes the ExchangeRate provider behind its fallback, which has a schedule;
the schedule may come round whenever no fetch is in progress.

`Portfolio` extends it with `getSummary`: it loads (`Ask`), clears `rateCache` and begins
(`Begin`), and then finds, or reads and keeps, one rate for each position (`LookUp`,
`ReadRate`, `KeepRate`). What a position is worth is left out; its rate is what the
properties are about. A `null` rate, which is kept as well, refuses the request.
A summary may be asked for as soon as the process runs, before the first anchors
are there, although the code listens a little later.

### Configuration and users: AdminConfig, Friendships, UserAccounts, UsersService

`AdminConfig` has the values in use of each key as a set, so that two at once can be
expressed; the partial unique index is what should prevent them. Transactions on
configuration conflict on the versions they retire or insert, and on the
`lastUsedAt` that every `get` writes.

`Friendships` and `UserAccounts` split each handler where it awaits: what it read is
kept in its request, and the second half writes. `UserAccounts` takes from Mongoose
that `save` writes changed fields only and that replacing an array compares and
increments `__v`. `changeEmail` and `changePassword` keep the `tokenVersion` they read
and save it plus one, `updateRole` increments it in the database. One token, any, is
followed from its login: it holds the version it was signed with, and the history
`outdated` whether its user's email, password or role changed since. `lost` has the
accounts of which one such change overwrote the increment of another.
`UsersService` interleaves both on registered users.

## 3. Runs

All runs are exhaustive. "States" are distinct states.

| Run | Instance | States | Shows |
|-----|----------|--------|-------|
| `ledger` | 2 users, 1 stock, 3 orders, prices of 1.25 and 1.75 cents, in CLP or at a rate of 1.6, commission 50 % | 286 k | the invariants of the ledger, average costs among them |
| `transactions` | 1 user, 1 stock, 5 requests | 152 k | transactions implement the ledger, cash is conserved |
| `cycle_fallback` | 2 processes with 2 activations each, 1 order, 1 fault, fallback stores allowed | 1.1 M | one cycle per process, no order filled twice |
| `cycle_production` | 2 processes, 2 faults, Redis required | 121 k | lock discipline, and liveness |
| `readiness_after_close` | as above | – | finding 1 |
| `price_ticks` | a provider's stock and an administrator's, 1 subscriber, 1 failure, 1 crash | 450 k | live prices do not lapse between ticks; workers end; subscribers catch up |
| `price_overwritten` | 1 stock, 1 administrator | – | finding 2 |
| `daily_quotes` | 2 stocks, 3 days, 1 failure, 1 crash | 695 k | one API call a day, quotes of today |
| `daily_source` | 2 stocks, 1 day | – | finding 3 |
| `users_service` | 2 users, 2 open requests, 2 names, 2 emails, 2 symbols, 1 change of `tokenVersion` | 1.4 M | uniqueness, no lost edit, old tokens refused, friendship protocol |
| `admin_config` | 2 processes, 2 keys, 2 open requests | 108 k | one value in use per key, whole restorations |
| `portfolio` | 1 pair of currencies, 2 rates, 2 requests with 2 positions each, 1 fault | 241 k | rates of this time, one rate per summary, rates come back, ticks end |

Why the bounds suffice:

- `ledger`: two users show that money and shares do not pass between accounts. Three
  orders are a reservation, a second one that must not lose by it, and a sale or
  market order in between. The second price and rate let an execution cost more
  than its reservation, and with the balance of 7 more than the user has, which
  brings about the defensive cancellation. The commission of 50 % makes it visible
  and rounded on amounts this small. Prices are in quarters of a cent (`PriceScale` 4),
  so gross amounts and averages are rounded up and down: two shares bought at 1.75
  cents average 2, two at 1.25 average 1. An average is thus outside the prices
  paid, in both directions, and `AverageWithinACent` is the bound that holds.
- `transactions`: the price is 1.5 cents, so that an execution costs more than its
  reservation. Five requests are listing, buying, executing, selling or
  cancelling and delisting. Conflicts involve two documents at most, so one user and
  one stock give all of them; two users would conflict less.
- `cycle_*`: two activations per process can overlap within it, two processes across
  it; a lock of two time units can outlast a cycle or expire during it. Two faults
  include a lost answer followed by a crash.
- `price_ticks`: a tick every two units takes up to one, and one may fail. The live
  price needs six units then; with five the run fails. In the code the price lives for
  60 s and a tick is due every 15 s by default (`MARKET_TICK_INTERVAL_SECONDS`), so
  the proportion there leaves two failures, of ticks that take less than their interval
  (section 6). No upper bound on the interval is validated: at 30 s and above one failed
  tick lets prices lapse.
- `daily_quotes`: the third day shows that what went on past one midnight is over by
  the next.
- `portfolio`: two positions in one currency are what makes a second rate visible, and
  two requests all that can share `rateCache` in a harmful way: one clears or fills it
  while the other is at work. The fault is one failed access or one restart.
- `users_service`, `admin_config`: two open requests suffice for every race of a read
  and a write; three snapshots or two documents for a third party in between. In
  `users_service`, a watchlist of one symbol is full, two saves of it are an addition
  and a removal, and one step of `tokenVersion` per user is enough for a save to find
  that another came first.

Every counter that could grow is bounded by a constant whose name begins with `Max`
(or `Days`, `Requests`, `Slots`), and every such guard is in the action that counts.
At the bounds the instances stop, and the code's processes may be idle as well, so
deadlock is not checked (`CHECK_DEADLOCK FALSE`).

**Fairness.** `ExecutionCycle`: a process that is down is restarted
(`restart: unless-stopped` in the compose files), the cron job fires every ten
seconds, promises settle, time passes. `PriceFeed` and `RealtimeGateway`: the interval
fires, promises settle, time passes. Nothing is assumed of users, prices, faults or market hours.
`CrossedOrdersSettle` supposes that the order stays crossed and the market open, and
that some process keeps a cache it can use. `Portfolio`: the schedule of anchors comes
round and promises settle; neither ticks nor lapses are assumed. The other modules state no liveness and
have no fairness.

## 4. Properties

- Orders: `ReservedBalanceBacked`, `ReservedSharesBacked`, `SharesCovered`,
  `OneTradePerExecution`, `LimitRespected`, `ReferencesListed`, `SharesConserved`,
  `AverageWithinACent`, `CashConserved`, `ClosedOrdersStay`, `MoneyMovesWithATrade`; of the transactions
  `SnapshotCurrent`, `DeletionSeesReferences`, `ImplementsLedger`.
- Cycle: `OneCyclePerProcess`, `UnexpiredLockKept`, `OverlapOnlyAfterExpiry`,
  `FilledOnce`; liveness `CyclesEnd`, `CrossedOrdersSettle`.
- Prices: `TicksComeInTime`, `OneCallPerDay`, `QuotesOfToday`; liveness `WorkersEnd`,
  `SubscribersCatchUp`.
- Rates: `RatesOfThisTime`, `OneRatePerSummary`; liveness `RatesReturn`, `TicksEnd`.
- Users: `NamesUnique`, `OldTokensRefused`, `SavesEditCurrent`, `FriendsAgreed`, `RemovalsStand`,
  `FriendsStay`.
- Configuration: `OneInUse`, `NothingMissing`, `RestoredWhole`.

In six runs the type invariant is a conjunct of the first invariant checked
(`SnapshotCurrent`, `OneCyclePerProcess`, `TicksComeInTime`, `OneInUse`,
`OneCallPerDay`, `RatesOfThisTime`), as it would be of an inductive one.

`OneRatePerSummary` and `OldTokensRefused` have exceptions, and these are the point of
them. Two summaries at work at one time do share `rateCache`: the one that starts later
clears it, so the other may value two positions in dollars at two rates, but never at
a rate older than the time since the service was last idle. Two changes of one account
that overlap may lose one increment of `tokenVersion`; without such an overlap, no
token survives a change, whatever watchlist or profile is saved in between, because
Mongoose writes changed fields only.

Each has its statement beside it in the module, and a mutant: an operator just
before the one it replaces, which changes it as a plausible bug would and makes TLC
find the property violated.

## 5. Findings

1. **Readiness after a quiet close** (`readiness_after_close`). When Redis closes the
   connection without an error event, `retryStrategy` gives up, the handlers of
   `close` and `end` only log, and `connected` stays true: in production the process
   reports ready, but no cache operation works. Nothing else does this
   (`CycleReadyUnlessClosed`).
2. **A tick undoes an administrator's price** (`price_overwritten`). `processTick`
   reads the live price, awaits, and writes the next one over what
   `updateStockPrice` wrote meanwhile. Without ticks, and with one request at a time,
   an administrator's price stands (`FeedAdminPricesStand`).
3. **A refresh hands a stock over to administrators** (`daily_source`). With EODHD,
   today's snapshot serves as the quote, also if an administrator recorded it. The
   refresh writes its source `admin` into the stock, which no later refresh selects: the
   stock never comes back to the provider (`DailyAdminForever`).

`DailyQuotes` also reaches states in which a mock price of a failed refresh is reused
by a second refresh of the same day. The documentation leaves open whether this is
meant, so it is listed as a hazard only.

## 6. Proofs

Eight modules hold 39 theorems and their lemmas, for all values of the constants that
satisfy the named assumptions of the modules and, in three theorems about ticks and
administrators' prices, a hypothesis of their own (below). These say that bounds are natural numbers
and that there is a first day, that quantities, prices and `PriceScale` are positive and a commission is at most 100 %
(`OrderRulesAssumption`), that a lock and a live price have a time to live, and that
UUIDs are new (`ExecutionCycleAssumption`).

| Component | Theorems | Inductive invariant |
|-----------|----------|---------------------|
| `Ledger` | `LedgerTypeOK`, `LedgerSharesCovered`, `LedgerOneTrade`, `LedgerLimitRespected`, `LedgerReferencesListed`, `LedgerClosedOrdersStay` | `LedgerInvariant` |
| | `LedgerReservedBalanceBacked`, `LedgerReservedSharesBacked`, `LedgerSharesConserved`, `LedgerCashConserved`, `LedgerMoneyMovesWithATrade` | `BooksInvariant` |
| | `LedgerAverageWithinACent` | `PricedInvariant` |
| `OrderTransactions` | `TransactionsImplementLedger`, `TransactionsSnapshotCurrent`, `TransactionsDeletionSeesReferences`, `TransactionsCashConserved` | `TxInvariant` |
| `ExecutionCycle` | `CycleOnePerProcess`, `CycleUnexpiredLockKept`, `CycleOverlapOnlyAfterExpiry`, `CycleFilledOnce` | `CycleInvariant` |
| | `CycleReadyUnlessClosed` | `FlagRaised` |
| `AdminConfig` | `AdminOneInUse`, `AdminNothingMissing`, `AdminRestoredWhole` | `AdminInvariant` |
| `UsersService` | `ServiceFriendsAgreed`, `ServiceRemovalsStand`, `ServiceFriendsStay` | `FriendInvariant` |
| | `ServiceTypes`, `ServiceNamesUnique`, `ServiceOldTokensRefused`, `ServiceSavesEditCurrent` | `AccountInvariant` |
| `PriceFeed`, `RealtimeGateway` | `FeedTicksComeInTime`, `GatewayTicksComeInTime` | `FeedInvariant` |
| | `FeedAdminPricesStand` | `AdminFeedInvariant` |
| `DailyQuotes` | `DailyOneCallPerDay`, `DailyQuotesOfToday` | `DailyInvariant` |
| | `DailyAdminForever` | `Spared` |
| `Portfolio` | `PortfolioRatesOfThisTime`, `PortfolioOneRate` | `PortfolioInvariant` |

### The ledger

`LedgerInvariant` has four parts:

- `TypeOK`. That sales pay out something non-negative needs the bound on the
  commission (`CommissionBound`); the other subtractions are guarded by the handlers.
- `Settled`: an executed order has one trade that agrees with it and respects its
  limit, any other has none. `OneTradePerExecution` and `LimitRespected` follow. They
  are not inductive alone: that a trade respects its limit needs the order to exist
  with the same terms.
- `Covered`: reserved shares are held. This is `SharesCovered`; a sale at market
  keeps it because it is limited to the free shares.
- `Referenced`: this is `ReferencesListed`. It needs `Settled`, because a trade refers
  to a stock through its order.

`OrderRulesProofs` has, for every handler, a lemma that says what it changes
(`...Effect`) and one that the result is a database again (`...TypeOK`).
`LedgerProofs` sorts the handlers into three kinds of step, which open, drop or fill
an order, and proves the parts of the invariant once for each kind.

`BooksInvariant` adds `Books`: each balance, reservation and position is the sum over
all orders of what one order contributes to it. A step changes one order, so it changes
one term of each sum, and the proof compares that term with what the handler writes.
`LedgerProofs` has the facts about sums that this needs: the sum over a finite set does not
depend on the order of its elements, and changes by what one term changes
(`SumChange`). The library's induction theorems take an operator as parameter, which
the provers cannot instantiate; the induction here looks at a smallest set for which the
claim fails, which `WFMin` provides. `SharesHeld` and `CashEarned` regroup the trades of
the properties by order, which `Settled` allows.

Backed reservations have a consequence for the code: the `Decimal.min` with which
`processBuyOrder` releases a reservation never takes less than was reserved, and a
pending sale finds its shares (`Deliverable`).

`PricedInvariant` adds that the average of a position lies between a price its user paid,
rounded down to a cent, and another, rounded up. It need not lie between the prices
themselves: two shares at 10.125 average 10.13. That the roundings do not add up over many
purchases rests on whole cents: a gross amount rounded to cents stays between as many
times a whole number of cents as its price did (`GrossBetween`), so does the sum with the old
cost, and a mean between two whole numbers of cents is still between them when rounded
(`QuotientBetween`, `BoughtBetween`). `PriceScale` is any positive number, so the theorem
holds for prices of any number of decimals.

### The transactions

`TxInvariant` is `SnapshotCurrent`, `DeletionSeesReferences`, `BooksInvariant` of the
committed database, and that the reservations a snapshot shows are backed. The step
that matters is a commit. `SameEffect` says, for one handler after the other, that if no
document it writes was written since its snapshot, merging its changes into the
committed database gives what the handler would have done there. What it reads and does
not write cannot mislead it: it either touches the stock, or needs only that the
stock is listed, or (`deleteStock`) looks for references that `DeletionSeesReferences`
says it would see. Where a handler reads a balance that another order of the same user
changes, it also writes it. So each commit maps to a step of `Ledger`, everything else
to a stutter, and `CashConserved` carries over.

### The execution cycle

`CycleInvariant` has three layers over the types: a cycle under way holds the flag of
its process and is alone there (`AloneInProcess`); a lock is signed with a UUID of the
activation that took it, and a fallback store has only locks of its own process
(`LocksNamed`); in production an activation with time left on its lock is inside the
cycle, and the lock in Redis is its own (`LeaseKept`). `OverlapOnlyAfterExpiry` follows,
as one key cannot hold two locks. `FilledOnce` does not need the lock at all: the status
is read again where the order is settled.

`FlagRaised` relates the flag `connected` to the connection: it is up exactly while
the connection is open or has closed without an error. So a quiet close is the only way
to be ready without Redis.

### Prices

`FeedInvariant` says how long a live price can still last. A tick renews a price only if
it finds one, so the time to live must not run out before the next tick has come to the
stock. The interval fires whether a tick is running or not, and one that is running lets
the firing pass, so ticks start at multiples of the interval (`Due`), at most `Turn`
apart: the first multiple beyond the duration of a tick. `TimeToTick` is the time until
the next tick has come to the stock, in each phase of the ticks: what is left of the one
under way if the stock is still ahead of it, else the rest of the turn and the duration
of a tick. A failed tick costs a turn, and so each failure still possible adds one
(`Budget`). The time to live of a price the ticks keep up stays above the sum of both
(`InTime`): it decreases with `TimeToTick` as time passes, a failure uses up its part of
the budget, and a tick that writes starts it anew.

What starts anew must be enough, and this is the hypothesis of the two theorems
(`Proportioned`): `(MaxFailures + 1) * Turn + TickTime < LiveTtl`. On the instance of
`price_ticks` it is 2 * 2 + 1 < 6, and with a time to live of 5 TLC finds the property
violated, so it is not stronger than needed there. In the code the time to live is a
constant (60 s, `market-tick.service.ts:17`) while the interval is configured: with
ticks shorter than their interval, 15 s (the default of `env.validation.ts:41`) leaves
room for two failures, 5 s (`.env.example:21`) for ten, and from 60 s on prices can
lapse without any. `MaxFailures` counts all failures of a run, so the theorem says
nothing of more failures that are far apart.

`AdminFeedInvariant` says that, where the simulated ticks are disabled (interval 0) and
there is one request at a time (`NoRace`), only administrators write what belongs to a
stock they listed (`OnlyAdministrators`), and that the keys derive from the price in the
listing but for what the request has still to write (`KeysFollow`). Refreshes, their
late cache writes, deletions, new listings under the same symbol, expiry and the passing
of time all keep this, unless something fails or the process crashes between two writes.
TLC finds `AdminPricesStand` violated as soon as there are ticks or a second request, so
both conditions are needed.

`Spared`: a refresh in progress has neither a quote nor work to do for a stock that is
an administrator's. `NewRefresh` selects none, and only one refresh runs at a time, so
none that began earlier is left.

### Configuration, users, quotes, summaries

`AdminInvariant`: a key has one value in use wherever somebody relies on it, and a
transaction has read that of every key nobody wrote since its snapshot. So what a
commit retires is all there is.

`FriendInvariant`: no two documents have one `_id`, so an acceptance saved by `_id`
changes the document that was read or none. `AccountInvariant`: the version of a token is
at most that of its user's document, and below it once it is outdated, unless the
account is in `lost`; an edit of a watchlist was read at the version `__v` it is saved at
or is refused.

`DailyInvariant`: calls of the API that were answered today exceed what failures and
crashes lost by at most one, and by none unless the last answer is on its way to the
price history or there (`CallsWithin`); if the day began with nothing under way, all
prices at hand are of the day (`MadeToday`).

`PortfolioInvariant`: while a summary is at work, what `rateCache` keeps was read since the
service was last without a request (`RatesRecent`); a summary with which no other
overlapped finds there every rate it has used, and asks only for a currency that it has
not used (`OneAlone`).

TLC checked the invariants on the instances of section 3 before they were proved,
`AdminFeedInvariant` without ticks and with one request, but for
`PricedInvariant`, which quantifies over all prices, and which `AverageWithinACent` stands
for.

### Only model-checked

- Liveness, with fairness and `ENABLED`, is out of the prover's reach: `CyclesEnd`,
  `CrossedOrdersSettle`, `WorkersEnd`, `SubscribersCatchUp`, `RatesReturn`, `TicksEnd`.
- The properties of the findings, which do not hold. What holds instead is proved
  (section 5).

## 7. What is left out

- Doubles: amounts and prices are exact decimals, rounded where the code calls
  `toDecimalPlaces`; the 20 significant digits of decimal.js are taken to be enough. Of a
  trade only what the properties need is kept.
- A live stock price that lapses is not renewed by ticks, which renew only a live price
  they find (`market-tick.service.ts:59`), nor is a live rate. `TicksComeInTime` shows
  that it does not lapse while ticks keep it up; after a restart with a price about to
  run out it may, and stays away until a refresh, an administrator or a later restart
  sets it.
- `CurrencyFeed` takes one anchor fetch at a time: the schedule is hourly by default.
  With the mock provider alone there is no schedule, and a rate that lapsed returns
  after a restart only. `getRates` reads like `getRate`.
- The user, the positions and the quotes of a summary are read one beside or after the
  other, outside a transaction: its balance and its positions may be of two moments.
- Validation of input, wording of errors, logging.
- `createStock` runs no transaction in the code; `OrderTransactions` gives it the rules
  of one, which a check and an insert under a unique index obey. MongoDB detects a
  conflict at the write, the model at the commit; the same transactions abort.
- `PriceFeed` and `DailyQuotes` have one process. The stock document is read and saved
  whole in two actions; the cache key `market:{symbol}`, which nothing reads to
  decide, is left out.
- Of `updateProfile` only the username is modelled: `fullName` is written without a
  check. In `UserAccounts` a handler's reads before its save are one step. Passwords
  and roles are not there, only that they change; nor is the expiry of tokens.
- `AdminConfig` takes `create` with a session to insert all documents. Mongoose may
  demand `ordered: true` for it; the repository's tests mock the model.
- Of the realtime gateway, the events of currencies, which only ticks emit, and the room
  of a user, to which nothing is sent. An event of a stock deleted meanwhile carries
  `null`; the gateway is taken to send nothing.
- Not modelled: market hours, which the cycle takes as an input; price strategies; the
  seeding of stocks at start. `PROJECT.json` says why, part by part.

## 8. Plan

Done, in this order: orders (`OrderRules`, `Ledger`, `OrderTransactions`), the
cycle (`SharedCache`, `ExecutionCycle`), prices (`PriceFeed`, `DailyQuotes`), users
(`Friendships`, `UserAccounts`, `UsersService`), configuration (`AdminConfig`), the
proofs about `Ledger`, average costs, tokens (`UserAccounts`), rates and summaries
(`CurrencyFeed`, `Portfolio`), events (`RealtimeGateway`).

Theorems, in this order: the ledger, its sums and averages, the cycle, the transactions
and the refinement, configuration, users, daily quotes, summaries, ticks, and what holds
in place of the properties of the findings. Every safety and action property of a passing
run is the statement of a theorem.

Next modules, where a run can take the place of one it subsumes:

1. `MarketHours` over the minutes of a week, in place of the input of the cycle.
2. The seeding of stocks by several processes at once.
