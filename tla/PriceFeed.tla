------------------------------ MODULE PriceFeed ------------------------------
(***************************************************************************)
(* The prices of listed stocks: the closing price in the database and two  *)
(* cache keys per stock, base_price and live_price, written by the seeding *)
(* at start, the simulated ticks, the refresh from the data provider and   *)
(* the administration of stocks, each of which awaits between its reads    *)
(* and its writes.  live_price is what orders execute at.                  *)
(*                                                                         *)
(* A price is abstracted to the event it derives from: a closing price set *)
(* by the provider or by an administrator gets a number of its own, and a  *)
(* tick, which moves the live price a little, leaves that number alone.    *)
(* One process is modelled; it may restart.  The provider's quotes are its *)
(* own, as with the mock provider, the default; how EODHD's reuse the      *)
(* prices of administrators is in DailyQuotes.                             *)
(***************************************************************************)
EXTENDS Naturals, FiniteSets

CONSTANTS
    Symbols,        \* stocks
    AdminSymbols,   \* those that only administrators list
    Requests,       \* bound: requests of administrators open at one time
    LiveTtl,        \* time to live of a live price set by a tick or the seeding
    TickInterval,   \* time between two ticks; 0 disables them
    TickTime,       \* bound: time a tick takes
    MaxPrices,      \* bound: prices set by provider and administrators
    MaxFailures,    \* bound: operations that fail
    MaxCrashes      \* bound: restarts of the process

ASSUME PriceFeedAssumption ==
    /\ AdminSymbols \subseteq Symbols
    /\ \A n \in {LiveTtl, TickInterval, TickTime, MaxPrices, MaxFailures, MaxCrashes} :
          n \in Nat
    /\ LiveTtl > 0

VARIABLES
    listing,   \* listing[s]: the document of s in stocks
    base,      \* base[s]: the key stock:s:base_price
    live,      \* live[s]: the key stock:s:live_price
    last,      \* number of the last price set
    phase,     \* "down", "seeding" or "running"
    seeding,   \* stocks the seeding has read and not yet looked at
    timer,     \* time until the tick interval fires
    tick,      \* the tick in progress (isTicking)
    refresh,   \* the refresh in progress (isRefreshing)
    writes,    \* cache writes a refresh has issued and Redis not yet carried out
    request,   \* request[r]: the administrator's request r
    renewed,   \* stocks whose live price the ticks keep up (history)
    failures, crashes

cacheKeys == <<base, live>>
workers == <<tick, refresh, writes, request>>
bounded == <<failures, crashes>>
vars == <<listing, cacheKeys, last, phase, seeding, timer, workers, renewed, bounded>>

Prices == 1..MaxPrices

NotListed == [source |-> "none"]
Listing == [source: {"admin", "provider"}, close: Prices]

\* A key that was never set, or whose time is up.
NoKey == [ttl |-> 0]

\* The time to live of a day and the lack of one, above those of a tick.
Day == LiveTtl + 1
Forever == LiveTtl + 2
Key == [from: Prices, ttl: 1..Forever]
SetKey(price, ttl) == [from |-> price, ttl |-> ttl]

Idle == [stage |-> "idle"]

TypeOK ==
    /\ listing \in [Symbols -> Listing \cup {NotListed}]
    /\ base \in [Symbols -> Key \cup {NoKey}]
    /\ live \in [Symbols -> Key \cup {NoKey}]
    /\ last \in 0..MaxPrices
    /\ phase \in {"down", "seeding", "running"}
    /\ \A d \in seeding : d.symbol \in Symbols /\ d.close \in Prices
    /\ timer \in 0..TickInterval
    /\ tick # Idle => tick.todo \subseteq Symbols /\ tick.age \in 0..TickTime
    /\ refresh # Idle => refresh.stage \in {"fetching", "persisting", "caching"}
    /\ \A w \in writes : w.symbol \in Symbols /\ w.price \in Prices
    /\ \A r \in Requests :
          request[r] # Idle => request[r].stage \in {"saving", "base", "live", "answer"}
    /\ renewed \subseteq Symbols
    /\ failures \in 0..MaxFailures
    /\ crashes \in 0..MaxCrashes

Listed(s) == listing[s] # NotListed
Set(key) == key # NoKey

\* The stocks of the provider are in the database, each with its own price.
Init ==
    /\ \E number \in [Symbols \ AdminSymbols -> Prices] :
          /\ \A s, t \in DOMAIN number : number[s] = number[t] => s = t
          /\ \A s \in DOMAIN number : number[s] <= Cardinality(DOMAIN number)
          /\ listing = [s \in Symbols |->
                          IF s \in AdminSymbols THEN NotListed
                          ELSE [source |-> "provider", close |-> number[s]]]
    /\ base = [s \in Symbols |-> NoKey]
    /\ live = [s \in Symbols |-> NoKey]
    /\ last = Cardinality(Symbols \ AdminSymbols)
    /\ phase = "down"
    /\ seeding = {}
    /\ timer = TickInterval
    /\ tick = Idle
    /\ refresh = Idle
    /\ writes = {}
    /\ request = [r \in Requests |-> Idle]
    /\ renewed = {}
    /\ failures = 0
    /\ crashes = 0

NewPrice(n) == n <= MaxPrices /\ n = last + 1 /\ last' = n

Fail == failures < MaxFailures /\ failures' = failures + 1

-----------------------------------------------------------------------------
(* seedInitialRedisPrices, when the process starts *)

Boot ==
    /\ phase = "down"
    /\ phase' = "seeding"
    /\ seeding' = {[symbol |-> s, close |-> listing[s].close] :
                     s \in {t \in Symbols : Listed(t)}}
    /\ timer' = TickInterval
    /\ UNCHANGED <<listing, cacheKeys, last, workers, renewed, bounded>>

SeedPrice(d) ==
    LET s == d.symbol
    IN  /\ phase = "seeding"
        /\ base' = IF Set(base[s]) THEN base
                   ELSE [base EXCEPT ![s] = SetKey(d.close, Forever)]
        /\ live' = IF Set(live[s]) THEN live
                   ELSE [live EXCEPT ![s] = SetKey(d.close, LiveTtl)]
        /\ seeding' = seeding \ {d}
        /\ UNCHANGED <<listing, last, phase, timer, workers, renewed, bounded>>

StartServing ==
    /\ phase = "seeding"
    /\ seeding = {}
    /\ phase' = "running"
    /\ UNCHANGED <<listing, cacheKeys, last, seeding, timer, workers, renewed, bounded>>

\* What the process was doing is lost.
Crash ==
    /\ phase # "down"
    /\ crashes < MaxCrashes
    /\ crashes' = crashes + 1
    /\ phase' = "down"
    /\ seeding' = {}
    /\ tick' = Idle
    /\ refresh' = Idle
    /\ writes' = {}
    /\ request' = [r \in Requests |-> Idle]
    /\ renewed' = {}
    /\ UNCHANGED <<listing, cacheKeys, last, timer, failures>>

-----------------------------------------------------------------------------
(* processTick *)

\* updates[s] is the price the tick gave s, or 0.
NewTick(todo) ==
    [stage |-> "next", todo |-> todo, current |-> {}, price |-> 0, age |-> 0,
     updates |-> [s \in Symbols |-> 0]]

\* The interval fires; a tick still in progress makes it skip one.
FireTick ==
    LET listed == {s \in Symbols : Listed(s)}
    IN  /\ TickInterval > 0
        /\ phase # "down"
        /\ timer = 0
        /\ timer' = TickInterval
        /\ tick' = IF tick # Idle THEN tick ELSE NewTick(listed)
        /\ renewed' = renewed \cap listed
        /\ UNCHANGED <<listing, cacheKeys, last, phase, seeding, refresh, writes, request,
                       bounded>>

\* The base price and then the live price of the next stock are read.
TickReadsBase ==
    /\ tick.stage = "next"
    /\ \E s \in tick.todo :
          /\ tick' = [tick EXCEPT !.todo = @ \ {s},
                               !.current = IF Set(base[s]) THEN {s} ELSE {},
                               !.stage = IF Set(base[s]) THEN "live" ELSE "next"]
          /\ renewed' = IF Set(base[s]) THEN renewed ELSE renewed \ {s}
    /\ UNCHANGED <<listing, cacheKeys, last, phase, seeding, timer, refresh, writes,
                   request, bounded>>

TickReadsLive ==
    /\ tick.stage = "live"
    /\ \E s \in tick.current :
          tick' = IF Set(live[s])
                  THEN [tick EXCEPT !.stage = "write", !.price = live[s].from]
                  ELSE [tick EXCEPT !.stage = "next", !.current = {}]
    /\ UNCHANGED <<listing, cacheKeys, last, phase, seeding, timer, refresh, writes,
                   request, renewed, bounded>>

NextStock ==
    [tick EXCEPT !.stage = "next", !.current = {},
                 !.updates = [s \in Symbols |-> IF s \in tick.current THEN tick.price ELSE @[s]]]

\* Mutant: the update is not noted for the event.
TickWritesSilently ==
    /\ tick.stage = "write"
    /\ \E s \in tick.current : live' = [live EXCEPT ![s] = SetKey(tick.price, LiveTtl)]
    /\ tick' = [tick EXCEPT !.stage = "next", !.current = {}]
    /\ renewed' = renewed \cup tick.current
    /\ UNCHANGED <<listing, base, last, phase, seeding, timer, refresh, writes, request,
                   bounded>>

\* Mutant: the key keeps the time it has left.
TickKeepsTtl ==
    /\ tick.stage = "write"
    /\ \E s \in tick.current :
          live' = [live EXCEPT ![s] = IF Set(@) THEN SetKey(tick.price, @.ttl) ELSE @]
    /\ tick' = NextStock
    /\ renewed' = renewed \cup tick.current
    /\ UNCHANGED <<listing, base, last, phase, seeding, timer, refresh, writes, request,
                   bounded>>

TickWritesLive ==
    /\ tick.stage = "write"
    /\ \E s \in tick.current : live' = [live EXCEPT ![s] = SetKey(tick.price, LiveTtl)]
    /\ tick' = NextStock
    /\ renewed' = renewed \cup tick.current
    /\ UNCHANGED <<listing, base, last, phase, seeding, timer, refresh, writes, request,
                   bounded>>

EndTick ==
    /\ tick.stage = "next"
    /\ tick.todo = {}
    /\ tick' = Idle
    /\ UNCHANGED <<listing, cacheKeys, last, phase, seeding, timer, refresh, writes,
                   request, renewed, bounded>>

\* A read or write of the cache fails: the finally block ends the tick.
FailTick ==
    /\ Fail
    /\ tick # Idle
    /\ tick' = Idle
    /\ UNCHANGED <<listing, cacheKeys, last, phase, seeding, timer, refresh, writes,
                   request, renewed, crashes>>

TickAccess == TickReadsBase \/ TickReadsLive \/ TickWritesLive
TickStep == TickAccess \/ EndTick

-----------------------------------------------------------------------------
(* refreshMarket and the update writer *)

StartRefresh ==
    LET provided == {s \in Symbols : listing[s].source = "provider"}
    IN  /\ phase = "running"
        /\ refresh = Idle
        /\ provided # {}
        /\ refresh' = [stage |-> "fetching", symbols |-> provided]
        /\ UNCHANGED <<listing, cacheKeys, last, phase, seeding, timer, tick, writes,
                       request, renewed, bounded>>

\* The provider answers; symbols it has no quote for are left out.
FetchQuotes ==
    /\ refresh.stage = "fetching"
    /\ \E quoted \in SUBSET refresh.symbols : \E n \in Prices :
          /\ quoted # {}
          /\ NewPrice(n)
          /\ refresh' = [stage |-> "persisting", quotes |-> quoted, price |-> n]
    /\ UNCHANGED <<listing, cacheKeys, phase, seeding, timer, tick, writes, request,
                   renewed, bounded>>

\* persist: the documents in one bulkWrite, then all keys at once.
Persist ==
    /\ refresh.stage = "persisting"
    /\ listing' = [s \in Symbols |->
                     IF s \in refresh.quotes /\ Listed(s)
                     THEN [source |-> "provider", close |-> refresh.price]
                     ELSE listing[s]]
    /\ writes' = writes \cup [key: {"base", "live"}, symbol: refresh.quotes,
                              price: {refresh.price}]
    /\ refresh' = [stage |-> "caching", price |-> refresh.price]
    /\ UNCHANGED <<cacheKeys, last, phase, seeding, timer, tick, request, renewed, bounded>>

CacheQuote(w) ==
    /\ base' = IF w.key = "base" THEN [base EXCEPT ![w.symbol] = SetKey(w.price, Day)]
               ELSE base
    /\ live' = IF w.key = "live" THEN [live EXCEPT ![w.symbol] = SetKey(w.price, Day)]
               ELSE live
    /\ writes' = writes \ {w}
    /\ UNCHANGED <<listing, last, phase, seeding, timer, tick, refresh, request,
                   renewed, bounded>>

EndRefresh ==
    /\ refresh.stage = "caching"
    /\ \A w \in writes : w.price # refresh.price
    /\ refresh' = Idle
    /\ UNCHANGED <<listing, cacheKeys, last, phase, seeding, timer, tick, writes,
                   request, renewed, bounded>>

\* Mutant: no finally block puts the flag down.
FailRefreshStuck ==
    /\ Fail
    /\ \E w \in writes : writes' = writes \ {w}
    /\ refresh' = IF refresh = Idle THEN Idle ELSE [refresh EXCEPT !.stage = "failed"]
    /\ UNCHANGED <<listing, cacheKeys, last, phase, seeding, timer, tick, request, renewed, crashes>>

\* A write of a key fails: Promise.all rejects and the refresh ends at once,
\* though its other writes are under way.
FailRefresh ==
    /\ Fail
    /\ \E w \in writes :
          /\ writes' = writes \ {w}
          /\ refresh' = IF refresh.stage = "caching" /\ refresh.price = w.price THEN Idle
                        ELSE refresh
    /\ UNCHANGED <<listing, cacheKeys, last, phase, seeding, timer, tick, request, renewed, crashes>>

\* The provider has no quote at all, or the database fails.
AbandonRefresh ==
    /\ refresh.stage \in {"fetching", "persisting"}
    /\ refresh' = Idle
    /\ UNCHANGED <<listing, cacheKeys, last, phase, seeding, timer, tick, writes,
                   request, renewed, bounded>>

-----------------------------------------------------------------------------
(* createStock, updateStockPrice, deleteStock *)

Awaiting(stage, s, n) == [stage |-> stage, symbol |-> s, price |-> n]

\* createStock up to its cache writes: the document is inserted.
Create(r, s) ==
    /\ phase = "running"
    /\ request[r] = Idle
    /\ s \in AdminSymbols
    /\ ~Listed(s)
    /\ \E n \in Prices :
          /\ NewPrice(n)
          /\ listing' = [listing EXCEPT ![s] = [source |-> "admin", close |-> n]]
          /\ request' = [request EXCEPT ![r] = Awaiting("base", s, n)]
    /\ UNCHANGED <<cacheKeys, phase, seeding, timer, tick, refresh, writes, renewed, bounded>>

\* updateStockPrice reads the document ...
Update(r, s) ==
    /\ phase = "running"
    /\ request[r] = Idle
    /\ Listed(s)
    /\ \E n \in Prices :
          /\ NewPrice(n)
          /\ request' = [request EXCEPT ![r] = Awaiting("saving", s, n)]
    /\ UNCHANGED <<listing, cacheKeys, phase, seeding, timer, tick, refresh, writes,
                   renewed, bounded>>

\* ... and saves it, unless it was deleted.
Save(r) ==
    LET q == request[r]
    IN  /\ q.stage = "saving"
        /\ IF Listed(q.symbol)
           THEN /\ listing' = [listing EXCEPT ![q.symbol].close = q.price]
                /\ request' = [request EXCEPT ![r].stage = "base"]
           ELSE /\ request' = [request EXCEPT ![r] = Idle]
                /\ UNCHANGED listing
        /\ UNCHANGED <<cacheKeys, last, phase, seeding, timer, tick, refresh, writes,
                       renewed, bounded>>

CacheBase(r) ==
    LET q == request[r]
    IN  /\ q.stage = "base"
        /\ base' = [base EXCEPT ![q.symbol] = SetKey(q.price, Day)]
        /\ request' = [request EXCEPT ![r].stage = "live"]
        /\ UNCHANGED <<listing, live, last, phase, seeding, timer, tick, refresh, writes,
                       renewed, bounded>>

CacheLive(r) ==
    LET q == request[r]
    IN  /\ q.stage = "live"
        /\ live' = [live EXCEPT ![q.symbol] = SetKey(q.price, Day)]
        /\ request' = [request EXCEPT ![r].stage = "answer"]
        /\ UNCHANGED <<listing, base, last, phase, seeding, timer, tick, refresh, writes,
                       renewed, bounded>>

\* The event is emitted and the request answered; or a write failed on the way.
Answer(r) ==
    /\ request[r].stage = "answer"
    /\ request' = [request EXCEPT ![r] = Idle]
    /\ UNCHANGED <<listing, cacheKeys, last, phase, seeding, timer, tick, refresh, writes,
                   renewed, bounded>>

FailRequest(r) ==
    /\ Fail
    /\ request[r] # Idle
    /\ request' = [request EXCEPT ![r] = Idle]
    /\ UNCHANGED <<listing, cacheKeys, last, phase, seeding, timer, tick, refresh, writes, renewed, crashes>>

\* deleteStock: one transaction; it leaves the keys alone.
Delete(s) ==
    /\ phase = "running"
    /\ listing[s].source = "admin"
    /\ listing' = [listing EXCEPT ![s] = NotListed]
    /\ UNCHANGED <<cacheKeys, last, phase, seeding, timer, workers, renewed, bounded>>

-----------------------------------------------------------------------------
(* Time *)

\* Mutant: a key whose time is up stays.
OlderLate(key) ==
    IF key.ttl \in 1..LiveTtl THEN [key EXCEPT !.ttl = @ - 1] ELSE key

Older(key) ==
    CASE key.ttl = 1 -> NoKey
      [] key.ttl \in 2..LiveTtl -> [key EXCEPT !.ttl = @ - 1]
      [] OTHER -> key

\* A tick that is due starts first, and a tick takes at most TickTime.
PassTime ==
    /\ phase # "down" /\ TickInterval > 0 => timer > 0
    /\ tick # Idle => tick.age < TickTime
    /\ timer' = IF timer = 0 THEN 0 ELSE timer - 1
    /\ tick' = IF tick = Idle THEN Idle ELSE [tick EXCEPT !.age = @ + 1]
    /\ base' = [s \in Symbols |-> Older(base[s])]
    /\ live' = [s \in Symbols |-> Older(live[s])]
    /\ UNCHANGED <<listing, last, phase, seeding, refresh, writes, request, renewed, bounded>>

\* A day is over for a key.
ExpireBase(s) ==
    /\ base[s].ttl = Day
    /\ base' = [base EXCEPT ![s] = NoKey]
    /\ UNCHANGED <<listing, live, last, phase, seeding, timer, workers, renewed, bounded>>

\* In a day, a tick would have given the live price a shorter time, if it could.
ExpireLive(s) ==
    /\ live[s].ttl = Day
    /\ s \notin renewed
    /\ TickInterval = 0 \/ phase = "down" \/ ~Set(base[s]) \/ ~Listed(s)
    /\ live' = [live EXCEPT ![s] = NoKey]
    /\ UNCHANGED <<listing, base, last, phase, seeding, timer, workers, renewed, bounded>>

-----------------------------------------------------------------------------
Startup == Boot \/ StartServing \/ \E d \in seeding : SeedPrice(d)
RefreshAccess == FetchQuotes \/ AbandonRefresh \/ Persist
RequestAccess(r) == Save(r) \/ CacheBase(r) \/ CacheLive(r)

\* The steps that emit no event of prices and keep the process up.
Silent ==
    \/ Startup
    \/ FireTick \/ TickAccess \/ FailTick
    \/ StartRefresh \/ RefreshAccess \/ FailRefresh
    \/ \E w \in writes : CacheQuote(w)
    \/ \E r \in Requests : RequestAccess(r) \/ FailRequest(r)
    \/ \E r \in Requests, s \in Symbols : Create(r, s) \/ Update(r, s)
    \/ \E s \in Symbols : Delete(s) \/ ExpireBase(s) \/ ExpireLive(s)
    \/ PassTime

Next == Silent \/ Crash \/ EndTick \/ EndRefresh \/ (\E r \in Requests : Answer(r))

\* The interval fires on time and promises settle.
Fairness ==
    /\ WF_vars(Startup)
    /\ WF_vars(FireTick)
    /\ WF_vars(TickStep)
    /\ WF_vars(RefreshAccess \/ EndRefresh)
    /\ WF_vars(\E w \in writes : CacheQuote(w))
    /\ WF_vars(PassTime)

Spec == Init /\ [][Next]_vars /\ Fairness

-----------------------------------------------------------------------------
(* Properties *)

\* A tick always comes in time: the live price the ticks keep up has not run
\* out when the next tick that gets to its stock reads it, though a tick may
\* fail.  The time to live is set for this: it must exceed the interval of
\* every tick that can be missed.  No key outlives the time it was set for.
TicksComeInTime ==
    /\ TypeOK
    /\ \A s \in Symbols :
          tick.stage = "live" /\ tick.current = {s} /\ s \in renewed => Set(live[s])

\* isTicking and isRefreshing never stay up, whatever fails.
WorkersEnd ==
    /\ tick # Idle ~> tick = Idle
    /\ refresh # Idle ~> refresh = Idle

\* Nothing that could write a price of s is under way, or failed on its way.
Quiet ==
    /\ phase = "running" /\ failures = 0 /\ crashes = 0
    /\ tick = Idle /\ refresh = Idle /\ writes = {}
    /\ \A r \in Requests : request[r] = Idle

\* What the documentation says of the administrator's requests: they set the
\* keys to the new price.  Once they are answered, orders on a stock that
\* administrators list execute at the price in the listing, or at one a tick
\* made of it.
AdminPricesStand ==
    Quiet => \A s \in AdminSymbols : Listed(s) =>
        /\ Set(base[s]) => base[s].from = listing[s].close
        /\ Set(live[s]) => live[s].from = listing[s].close
=============================================================================
