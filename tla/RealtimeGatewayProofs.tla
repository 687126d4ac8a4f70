------------------------ MODULE RealtimeGatewayProofs ------------------------
(***************************************************************************)
(* The ticks come to a stock before its live price runs out, whatever the  *)
(* number of stocks, requests, failures and crashes, if its time to live   *)
(* is in proportion; and the prices of administrators stand where neither  *)
(* ticks nor other requests race with them.                                *)
(*                                                                         *)
(* The invariant of the first is FeedInvariant: at which times ticks start *)
(* (Ticking), and how long a live price has to last until the next one has *)
(* come to it (InTime).  That of the second is AdminFeedInvariant.         *)
(***************************************************************************)
EXTENDS RealtimeGateway, FiniteSetTheorems, TLAPS

FeedKey == Key \cup {NoKey}

FeedListing == Listing \cup {NotListed}

Updates == [Symbols -> 0..MaxPrices]

\* A tick between two stocks, one that has read the base price of a stock, and
\* one that has read its live price.
NextTick ==
    [stage: {"next"}, todo: SUBSET Symbols, current: {{}}, price: 0..MaxPrices,
     age: 0..TickTime, updates: Updates]

ReadTick ==
    [stage: {"live"}, todo: SUBSET Symbols, current: {{s} : s \in Symbols},
     price: 0..MaxPrices, age: 0..TickTime, updates: Updates]

WriteTick ==
    [stage: {"write"}, todo: SUBSET Symbols, current: {{s} : s \in Symbols},
     price: Prices, age: 0..TickTime, updates: Updates]

FeedTick == {Idle} \cup NextTick \cup ReadTick \cup WriteTick

FetchingRefresh == [stage: {"fetching"}, symbols: SUBSET Symbols]

PersistingRefresh == [stage: {"persisting"}, quotes: SUBSET Symbols, price: Prices]

CachingRefresh == [stage: {"caching"}, price: Prices]

FeedRefresh == {Idle} \cup FetchingRefresh \cup PersistingRefresh \cup CachingRefresh

CacheWrite == [key: {"base", "live"}, symbol: Symbols, price: Prices]

OpenRequest ==
    [stage: {"saving", "base", "live", "answer"}, symbol: Symbols, price: Prices]

\* The types, with the fields each stage of a tick and of a refresh has.
FeedTypes ==
    /\ listing \in [Symbols -> FeedListing]
    /\ base \in [Symbols -> FeedKey]
    /\ live \in [Symbols -> FeedKey]
    /\ last \in 0..MaxPrices
    /\ phase \in {"down", "seeding", "running"}
    /\ seeding \subseteq [symbol: Symbols, close: Prices]
    /\ timer \in 0..TickInterval
    /\ tick \in FeedTick
    /\ refresh \in FeedRefresh
    /\ writes \subseteq CacheWrite
    /\ request \in [Requests -> OpenRequest \cup {Idle}]
    /\ renewed \subseteq Symbols
    /\ failures \in 0..MaxFailures
    /\ crashes \in 0..MaxCrashes

\* The interval fires at these times after the start of a tick, and the tick that
\* follows starts after Turn at the latest, the first of them beyond TickTime.
Due == {TickInterval * k : k \in Nat}

Turn == TickInterval * (TickTime \div TickInterval + 1)

Ticking ==
    /\ phase = "down" => renewed = {} /\ tick = Idle
    /\ renewed # {} \/ tick # Idle => TickInterval > 0
    /\ tick # Idle => tick.age + timer \in Due /\ tick.age + timer <= Turn

\* The tick in progress has still to come to s.
Awaits(s) == tick # Idle /\ s \in tick.todo \cup tick.current

\* The time until the next tick that comes to s has read it, at the latest.
TimeToTick(s) ==
    IF Awaits(s) THEN TickTime - tick.age
    ELSE IF tick = Idle THEN timer + TickTime
    ELSE Turn - tick.age + TickTime

\* Each operation that may still fail can cost a tick, and so one turn.
Budget(f) == (MaxFailures - f) * Turn

\* A live price the ticks keep up lasts until a tick comes to it, even if all that
\* can fail are ticks; those of the provider and the administrators last a day.
InTime ==
    \A s \in renewed :
        live[s].ttl > LiveTtl \/ live[s].ttl > TimeToTick(s) + Budget(failures)

FeedInvariant == FeedTypes /\ Ticking /\ InTime

\* The time to live of a tick covers a turn for each tick that can fail and for
\* the one that does not, and the time this one takes.
Proportioned ==
    TickInterval > 0 => (MaxFailures + 1) * Turn + TickTime < LiveTtl

LEMMA ConstantTypes ==
    /\ LiveTtl \in Nat /\ LiveTtl > 0 /\ TickInterval \in Nat /\ TickTime \in Nat
    /\ MaxPrices \in Nat /\ MaxFailures \in Nat /\ MaxCrashes \in Nat
    /\ AdminSymbols \subseteq Symbols
  BY PriceFeedAssumption DEF PriceFeedAssumption

-----------------------------------------------------------------------------
(* Time *)

\* However late a tick ends, the next one starts at a multiple of the interval.
LEMMA DueTimes ==
    ASSUME TickInterval > 0
    PROVE  /\ Turn \in Nat /\ TickInterval \in Due /\ TickInterval <= Turn
           /\ \A d \in Due : d \in Nat
           /\ \A d \in Due : d <= TickTime => d + TickInterval \in Due /\ d + TickInterval <= Turn
<1> DEFINE q == TickTime \div TickInterval
<1>1. TickInterval \in Nat /\ TickTime \in Nat
  BY ConstantTypes
<1>2. q \in Nat /\ TickTime < TickInterval * (q + 1)
  BY <1>1
<1> HIDE DEF q
<1>3. \A a, b \in Nat : a * b \in Nat /\ a * (b + 1) = a * b + a
  OBVIOUS
<1>4. \A a, b, c \in Nat : b <= c => a * b <= a * c
  <2>1. SUFFICES ASSUME NEW a \in Nat, NEW b \in Nat, NEW c \in Nat, b <= c
                 PROVE  a * b <= a * c
    OBVIOUS
  <2>2. c - b \in Nat /\ c = b + (c - b)
    BY <2>1
  <2>3. a * (b + (c - b)) = a * b + a * (c - b)
    OBVIOUS
  <2>4. a * (c - b) \in Nat /\ a * b \in Nat
    BY <2>2, <1>3
  <2>5. QED
    BY <2>2, <2>3, <2>4
<1>5. Turn = TickInterval * (q + 1) /\ Turn \in Nat
  BY <1>1, <1>2, <1>3 DEF Turn, q
<1>6. TickInterval \in Due /\ TickInterval <= Turn
  <2>1. TickInterval * 1 = TickInterval /\ 1 \in Nat /\ 1 <= q + 1
    BY <1>1, <1>2
  <2>2. TickInterval * 1 <= TickInterval * (q + 1)
    BY <1>1, <1>2, <1>4, <2>1
  <2>3. QED
    BY <1>5, <2>1, <2>2 DEF Due
<1>7. \A d \in Due : d \in Nat
  BY <1>1, <1>3 DEF Due
<1>8. ASSUME NEW d \in Due, d <= TickTime
      PROVE  d + TickInterval \in Due /\ d + TickInterval <= Turn
  <2>1. PICK k \in Nat : d = TickInterval * k
    BY DEF Due
  <2>2. TickInterval * (k + 1) = d + TickInterval /\ k + 1 \in Nat
    BY <1>1, <1>3, <2>1
  <2>3. k < q + 1
    <3>1. SUFFICES ASSUME q + 1 <= k PROVE FALSE
      BY <1>2
    <3>2. TickInterval * (q + 1) <= TickInterval * k
      BY <1>1, <1>2, <1>4, <3>1
    <3>3. QED
      BY <1>1, <1>2, <1>3, <1>5, <1>7, <1>8, <2>1, <3>2
  <2>4. TickInterval * (k + 1) <= TickInterval * (q + 1)
    BY <1>1, <1>2, <1>4, <2>3
  <2>5. QED
    BY <1>5, <2>2, <2>4 DEF Due
<1>9. QED
  BY <1>5, <1>6, <1>7, <1>8

LEMMA BudgetSteps ==
    ASSUME TickInterval > 0, NEW f \in 0..MaxFailures
    PROVE  /\ Budget(f) \in Nat
           /\ f < MaxFailures => Budget(f + 1) \in Nat /\ Budget(f) = Budget(f + 1) + Turn
<1>1. Turn \in Nat /\ MaxFailures \in Nat /\ TickTime \in Nat /\ LiveTtl \in Nat
  BY ConstantTypes, DueTimes
<1>2. \A a, b \in Nat : a * b \in Nat /\ (a + 1) * b = a * b + b
  OBVIOUS
<1>3. MaxFailures - f \in Nat
  BY <1>1
<1>4. Budget(f) \in Nat
  BY <1>1, <1>2, <1>3 DEF Budget
<1>5. ASSUME f < MaxFailures
      PROVE  Budget(f + 1) \in Nat /\ Budget(f) = Budget(f + 1) + Turn
  <2> DEFINE a == MaxFailures - (f + 1)
  <2>1. a \in Nat /\ MaxFailures - f = a + 1
    BY <1>1, <1>5
  <2> HIDE DEF a
  <2>2. QED
    BY <1>1, <1>2, <2>1 DEF Budget, a
<1>6. QED
  BY <1>4, <1>5

\* A time to live that starts anew lasts, whatever can still fail.
LEMMA EnoughTime ==
    ASSUME Proportioned, TickInterval > 0, NEW f \in 0..MaxFailures
    PROVE  Turn + TickTime + Budget(f) < LiveTtl
<1>1. Turn \in Nat /\ MaxFailures \in Nat /\ TickTime \in Nat /\ LiveTtl \in Nat
      /\ Budget(f) \in Nat
  BY ConstantTypes, DueTimes, BudgetSteps
<1>2. \A a, b \in Nat : a * b \in Nat /\ (a + 1) * b = a * b + b
  OBVIOUS
<1>3. MaxFailures - f \in Nat
  BY <1>1
<1>4. Budget(f) <= MaxFailures * Turn
  <2>1. MaxFailures = (MaxFailures - f) + f /\ f \in Nat
    BY <1>1
  <2>2. \A a, b, c \in Nat : (a + b) * c = a * c + b * c
    OBVIOUS
  <2>3. MaxFailures * Turn = Budget(f) + f * Turn
    BY <1>1, <1>3, <2>1, <2>2 DEF Budget
  <2>4. f * Turn \in Nat
    BY <1>1, <1>2, <2>1
  <2>5. QED
    BY <1>1, <2>3, <2>4
<1>5. (MaxFailures + 1) * Turn + TickTime < LiveTtl
  BY DEF Proportioned
<1>6. (MaxFailures + 1) * Turn = MaxFailures * Turn + Turn /\ MaxFailures * Turn \in Nat
  BY <1>1, <1>2
<1>7. QED
  BY <1>1, <1>4, <1>5, <1>6

-----------------------------------------------------------------------------
(* Types *)

LEMMA TickStages ==
    ASSUME tick \in FeedTick
    PROVE  /\ tick.stage = "next" => tick \in NextTick
           /\ tick.stage = "live" => tick \in ReadTick
           /\ tick.stage = "write" => tick \in WriteTick
           /\ tick # Idle => tick.stage \in {"next", "live", "write"}
           /\ tick.stage \in {"next", "live", "write"} => tick # Idle
  BY DEF FeedTick, NextTick, ReadTick, WriteTick, Idle

LEMMA TickFields ==
    ASSUME tick \in FeedTick, tick # Idle
    PROVE  /\ tick.todo \in SUBSET Symbols /\ tick.current \in SUBSET Symbols
           /\ tick.age \in 0..TickTime /\ tick.age \in Nat
<1>1. tick \in NextTick \/ tick \in ReadTick \/ tick \in WriteTick
  BY TickStages
<1>2. TickTime \in Nat
  BY ConstantTypes
<1>3. QED
  BY <1>1, <1>2 DEF NextTick, ReadTick, WriteTick

LEMMA RefreshStagesOfFeed ==
    ASSUME refresh \in FeedRefresh
    PROVE  /\ refresh.stage = "fetching" => refresh \in FetchingRefresh
           /\ refresh.stage = "persisting" => refresh \in PersistingRefresh
           /\ refresh.stage = "caching" => refresh \in CachingRefresh
           /\ refresh # Idle => refresh.stage \in {"fetching", "persisting", "caching"}
  BY DEF FeedRefresh, FetchingRefresh, PersistingRefresh, CachingRefresh, Idle

LEMMA RequestStages ==
    ASSUME FeedTypes, NEW r \in Requests,
           request[r] # Idle \/ request[r].stage \in {"saving", "base", "live", "answer"}
    PROVE  request[r] \in OpenRequest
  BY DEF FeedTypes, Idle

LEMMA NewKey ==
    ASSUME NEW price \in Prices,
           NEW ttl \in {LiveTtl, Day, Forever}
    PROVE  /\ SetKey(price, ttl) \in FeedKey
           /\ SetKey(price, ttl).ttl = ttl
<1>1. ttl \in 1..Forever
  BY ConstantTypes DEF Day, Forever
<1>2. QED
  BY <1>1 DEF FeedKey, Key, SetKey

LEMMA KeyTtl ==
    ASSUME NEW key \in FeedKey
    PROVE  /\ key.ttl \in Nat
           /\ Set(key) <=> key.ttl > 0
           /\ Set(key) => key \in Key /\ key.from \in Prices
<1>1. CASE key = NoKey
  <2>1. key.ttl = 0
    BY <1>1 DEF NoKey
  <2>2. QED
    BY <1>1, <2>1 DEF Set
<1>2. CASE key \in Key
  <2>1. key.ttl \in 1..Forever /\ key.from \in Prices
    BY <1>2 DEF Key
  <2>2. key.ttl \in Nat /\ key.ttl > 0
    BY <2>1, ConstantTypes DEF Forever
  <2>3. key # NoKey
    BY <2>2 DEF NoKey
  <2>4. QED
    BY <1>2, <2>1, <2>2, <2>3 DEF Set
<1>3. QED
  BY <1>1, <1>2 DEF FeedKey

\* A key gets older by one, and keeps a time to live above that of a tick.
LEMMA OlderKey ==
    ASSUME NEW key \in FeedKey
    PROVE  /\ Older(key) \in FeedKey
           /\ key.ttl > LiveTtl => Older(key) = key
           /\ key.ttl > 0 => Older(key).ttl = key.ttl \/ Older(key).ttl = key.ttl - 1
<1>1. key.ttl \in Nat /\ LiveTtl \in Nat /\ LiveTtl > 0
  BY KeyTtl, ConstantTypes
<1>2. CASE key.ttl = 1
  <2>1. Older(key) = NoKey
    BY <1>2 DEF Older
  <2>2. NoKey.ttl = 0
    BY DEF NoKey
  <2>3. QED
    BY <1>1, <1>2, <2>1, <2>2 DEF FeedKey
<1>3. CASE key.ttl \in 2..LiveTtl
  <2>1. Older(key) = [key EXCEPT !.ttl = @ - 1]
    BY <1>1, <1>3 DEF Older
  <2>2. key \in Key
    BY <1>1, <1>3, KeyTtl
  <2>3. key.ttl - 1 \in 1..Forever
    BY <1>1, <1>3 DEF Forever
  <2>4. [key EXCEPT !.ttl = @ - 1] \in Key /\ [key EXCEPT !.ttl = @ - 1].ttl = key.ttl - 1
    BY <2>2, <2>3 DEF Key
  <2>5. QED
    BY <1>1, <1>3, <2>1, <2>4 DEF FeedKey
<1>4. CASE key.ttl # 1 /\ key.ttl \notin 2..LiveTtl
  <2>1. Older(key) = key
    BY <1>4 DEF Older
  <2>2. QED
    BY <2>1
<1>5. QED
  BY <1>2, <1>3, <1>4

LEMMA SetOneKey ==
    ASSUME NEW keys \in [Symbols -> FeedKey], NEW s \in Symbols, NEW key \in FeedKey
    PROVE  [keys EXCEPT ![s] = key] \in [Symbols -> FeedKey]
OBVIOUS

\* The stocks of the provider have prices of their own, so there are no more of them.
LEMMA ProvidedBound ==
    ASSUME NEW number \in [Symbols \ AdminSymbols -> Prices],
           \A s, t \in DOMAIN number : number[s] = number[t] => s = t
    PROVE  Cardinality(Symbols \ AdminSymbols) \in 0..MaxPrices
<1> DEFINE provided == Symbols \ AdminSymbols
<1>1. MaxPrices \in Nat
  BY ConstantTypes
<1>2. IsFiniteSet(1..MaxPrices) /\ Cardinality(1..MaxPrices) = MaxPrices
  BY <1>1, FS_Interval
<1>3. number \in Injection(provided, 1..MaxPrices)
  BY DEF Prices, Injection, IsInjective
<1> HIDE DEF provided
<1>4. IsFiniteSet(provided) /\ Cardinality(provided) <= MaxPrices
  BY <1>2, <1>3, FS_Injection
<1>5. Cardinality(provided) \in Nat
  BY <1>4, FS_CardinalityType
<1>6. QED
  BY <1>1, <1>4, <1>5 DEF provided

LEMMA FeedInitTypes ==
    ASSUME Init
    PROVE  FeedTypes
<1>1. PICK number \in [Symbols \ AdminSymbols -> Prices] :
          /\ \A s, t \in DOMAIN number : number[s] = number[t] => s = t
          /\ listing = [s \in Symbols |->
                          IF s \in AdminSymbols THEN NotListed
                          ELSE [source |-> "provider", close |-> number[s]]]
  BY DEF Init
<1>2. listing \in [Symbols -> FeedListing]
  <2>1. ASSUME NEW s \in Symbols
        PROVE  (IF s \in AdminSymbols THEN NotListed
                ELSE [source |-> "provider", close |-> number[s]]) \in FeedListing
    BY <1>1 DEF FeedListing, Listing
  <2>2. QED
    BY <1>1, <2>1
<1>3. last \in 0..MaxPrices
  BY <1>1, ProvidedBound DEF Init
<1>4. base \in [Symbols -> FeedKey] /\ live \in [Symbols -> FeedKey]
  BY DEF Init, FeedKey
<1>5. timer \in 0..TickInterval /\ failures \in 0..MaxFailures /\ crashes \in 0..MaxCrashes
  BY ConstantTypes DEF Init
<1>6. tick \in FeedTick /\ refresh \in FeedRefresh
      /\ request \in [Requests -> OpenRequest \cup {Idle}]
  BY DEF Init, FeedTick, FeedRefresh
<1>7. QED
  BY <1>2, <1>3, <1>4, <1>5, <1>6 DEF Init, FeedTypes

-----------------------------------------------------------------------------
(* The tick: what each of its steps does *)

\* A tick starts with all listed stocks to come to.
LEMMA TickStarts ==
    ASSUME FeedTypes, FireTick, tick = Idle
    PROVE  /\ tick' \in NextTick /\ tick'.age = 0
           /\ renewed' \subseteq renewed /\ renewed' \subseteq tick'.todo
<1> DEFINE listed == {s \in Symbols : Listed(s)}
<1>1. tick' = NewTick(listed) /\ renewed' = renewed \cap listed
  BY DEF FireTick
<1>2. listed \in SUBSET Symbols
  OBVIOUS
<1> HIDE DEF listed
<1>3. 0 \in 0..MaxPrices /\ 0 \in 0..TickTime
  BY ConstantTypes
<1>4. [s \in Symbols |-> 0] \in Updates
  BY <1>3 DEF Updates
<1>5. QED
  BY <1>1, <1>2, <1>3, <1>4 DEF NewTick, NextTick

\* It comes to a stock, or leaves it alone for good.
LEMMA TickComes ==
    ASSUME FeedTypes, TickReadsBase
    PROVE  /\ tick # Idle
           /\ tick' \in NextTick \cup ReadTick /\ tick'.age = tick.age
           /\ renewed' \subseteq renewed
           /\ \A s \in renewed' :
                  s \in tick.todo \cup tick.current <=> s \in tick'.todo \cup tick'.current
<1>1. tick \in NextTick /\ tick # Idle
  BY TickStages DEF FeedTypes, TickReadsBase
<1>2. PICK s \in tick.todo :
          /\ tick' = [tick EXCEPT !.todo = @ \ {s},
                               !.current = IF Set(base[s]) THEN {s} ELSE {},
                               !.stage = IF Set(base[s]) THEN "live" ELSE "next"]
          /\ renewed' = IF Set(base[s]) THEN renewed ELSE renewed \ {s}
  BY DEF TickReadsBase
<1>3. s \in Symbols /\ tick.current = {} /\ tick.todo \ {s} \in SUBSET Symbols
  BY <1>1 DEF NextTick
<1>4. CASE Set(base[s])
  <2>1. tick' = [tick EXCEPT !.todo = @ \ {s}, !.current = {s}, !.stage = "live"]
        /\ renewed' = renewed
    BY <1>2, <1>4
  <2>2. tick' \in ReadTick
    BY <1>1, <1>3, <2>1 DEF NextTick, ReadTick
  <2>3. tick'.todo = tick.todo \ {s} /\ tick'.current = {s} /\ tick'.age = tick.age
    BY <1>1, <2>1 DEF NextTick
  <2>4. QED
    BY <1>1, <1>3, <2>1, <2>2, <2>3
<1>5. CASE ~Set(base[s])
  <2>1. tick' = [tick EXCEPT !.todo = @ \ {s}, !.current = {}, !.stage = "next"]
        /\ renewed' = renewed \ {s}
    BY <1>2, <1>5
  <2>2. tick' \in NextTick
    BY <1>1, <1>3, <2>1 DEF NextTick
  <2>3. tick'.todo = tick.todo \ {s} /\ tick'.current = {} /\ tick'.age = tick.age
    BY <1>1, <2>1 DEF NextTick
  <2>4. QED
    BY <1>1, <1>3, <2>1, <2>2, <2>3
<1>6. QED
  BY <1>4, <1>5

\* It gives a stock up whose live price ran out, which InTime excludes for the
\* stocks it keeps up.
LEMMA TickReads ==
    ASSUME FeedTypes, TickReadsLive
    PROVE  /\ tick # Idle
           /\ tick' \in NextTick \cup WriteTick /\ tick'.age = tick.age
           /\ tick'.todo = tick.todo
           /\ \/ tick'.current = tick.current
              \/ \E s \in Symbols : tick.current = {s} /\ ~Set(live[s]) /\ tick'.current = {}
<1>1. tick \in ReadTick /\ tick # Idle
  BY TickStages DEF FeedTypes, TickReadsLive
<1>2. PICK s \in tick.current :
          tick' = IF Set(live[s])
                  THEN [tick EXCEPT !.stage = "write", !.price = live[s].from]
                  ELSE [tick EXCEPT !.stage = "next", !.current = {}]
  BY DEF TickReadsLive
<1>3. s \in Symbols /\ tick.current = {s}
  BY <1>1 DEF ReadTick
<1>4. CASE Set(live[s])
  <2>1. live[s].from \in Prices
    BY <1>3, <1>4, KeyTtl DEF FeedTypes
  <2>2. tick' = [tick EXCEPT !.stage = "write", !.price = live[s].from]
    BY <1>2, <1>4
  <2>3. QED
    BY <1>1, <2>1, <2>2 DEF ReadTick, WriteTick
<1>5. CASE ~Set(live[s])
  <2>1. tick' = [tick EXCEPT !.stage = "next", !.current = {}]
    BY <1>2, <1>5
  <2>2. QED
    BY <1>1, <1>3, <1>5, <2>1 DEF ReadTick, NextTick
<1>6. QED
  BY <1>4, <1>5

\* It renews the live price of its stock.
LEMMA TickWrites ==
    ASSUME FeedTypes, TickWritesLive
    PROVE  /\ tick # Idle
           /\ tick' \in NextTick /\ tick'.age = tick.age /\ tick'.todo = tick.todo
           /\ \E s \in Symbols :
                  /\ tick.current = {s}
                  /\ live' = [live EXCEPT ![s] = SetKey(tick.price, LiveTtl)]
                  /\ renewed' = renewed \cup {s}
           /\ tick.price \in Prices
<1>1. tick \in WriteTick /\ tick # Idle
  BY TickStages DEF FeedTypes, TickWritesLive
<1>2. /\ tick' = NextStock /\ renewed' = renewed \cup tick.current
      /\ \E s \in tick.current : live' = [live EXCEPT ![s] = SetKey(tick.price, LiveTtl)]
  BY DEF TickWritesLive
<1>3. PICK s \in Symbols : tick.current = {s}
  BY <1>1 DEF WriteTick
<1> DEFINE updates == [x \in Symbols |-> IF x \in tick.current THEN tick.price ELSE tick.updates[x]]
<1>4. updates \in Updates
  <2>1. tick.updates \in Updates /\ tick.price \in 1..MaxPrices
    BY <1>1 DEF WriteTick, Prices
  <2>2. tick.price \in 0..MaxPrices
    BY <2>1, ConstantTypes
  <2>3. QED
    BY <2>1, <2>2 DEF Updates
<1>5. tick' = [tick EXCEPT !.stage = "next", !.current = {}, !.updates = updates]
  BY <1>1, <1>2 DEF NextStock, WriteTick
<1> HIDE DEF updates
<1>6. tick.price \in Prices /\ tick.price \in 0..MaxPrices
  BY <1>1, ConstantTypes DEF WriteTick, Prices
<1>7. tick' \in NextTick /\ tick'.age = tick.age /\ tick'.todo = tick.todo
  BY <1>1, <1>4, <1>5, <1>6 DEF WriteTick, NextTick
<1>8. QED
  BY <1>1, <1>2, <1>3, <1>6, <1>7

-----------------------------------------------------------------------------
(* Every step keeps the types *)

LEMMA StartupTypes ==
    ASSUME FeedTypes, Startup \/ Crash
    PROVE  FeedTypes'
<1>1. CASE Boot
  <2>1. ASSUME NEW s \in Symbols, Listed(s)
        PROVE  [symbol |-> s, close |-> listing[s].close]
                   \in [symbol: Symbols, close: Prices]
    BY <2>1 DEF FeedTypes, FeedListing, Listing, Listed
  <2>2. seeding' \subseteq [symbol: Symbols, close: Prices]
    BY <1>1, <2>1 DEF Boot
  <2>3. timer' \in 0..TickInterval
    BY <1>1, ConstantTypes DEF Boot
  <2>4. QED
    BY <1>1, <2>2, <2>3 DEF Boot, cacheKeys, workers, bounded, FeedTypes
<1>2. ASSUME NEW d \in seeding, SeedPrice(d)
      PROVE  FeedTypes'
  <2>1. d.symbol \in Symbols /\ d.close \in Prices
    BY DEF FeedTypes
  <2>2. base \in [Symbols -> FeedKey] /\ live \in [Symbols -> FeedKey]
    BY DEF FeedTypes
  <2>3. SetKey(d.close, Forever) \in FeedKey /\ SetKey(d.close, LiveTtl) \in FeedKey
    BY <2>1, NewKey
  <2>4. base' = base \/ base' = [base EXCEPT ![d.symbol] = SetKey(d.close, Forever)]
    BY <1>2 DEF SeedPrice
  <2>5. live' = live \/ live' = [live EXCEPT ![d.symbol] = SetKey(d.close, LiveTtl)]
    BY <1>2 DEF SeedPrice
  <2>6. base' \in [Symbols -> FeedKey] /\ live' \in [Symbols -> FeedKey]
    BY <2>1, <2>2, <2>3, <2>4, <2>5, SetOneKey
  <2>7. seeding' \subseteq seeding
    BY <1>2 DEF SeedPrice
  <2>8. QED
    BY <1>2, <2>6, <2>7 DEF SeedPrice, workers, bounded, FeedTypes
<1>3. CASE StartServing
  BY <1>3 DEF StartServing, cacheKeys, workers, bounded, FeedTypes
<1>4. CASE Crash
  <2>1. crashes' \in 0..MaxCrashes
    BY <1>4, ConstantTypes DEF Crash, FeedTypes
  <2>2. QED
    BY <1>4, <2>1 DEF Crash, cacheKeys, FeedTypes, FeedTick, FeedRefresh
<1>5. QED
  BY <1>1, <1>2, <1>3, <1>4 DEF Startup

LEMMA FailureCounted ==
    ASSUME FeedTypes, Fail
    PROVE  /\ failures' \in 0..MaxFailures /\ failures \in 0..MaxFailures
           /\ failures < MaxFailures /\ failures' = failures + 1
  BY ConstantTypes DEF Fail, FeedTypes

LEMMA TickTypes ==
    ASSUME FeedTypes,
           FireTick \/ TickAccess \/ EndTick \/ FailTick
    PROVE  FeedTypes'
<1>1. CASE FireTick
  <2>1. tick' \in FeedTick
    BY <1>1, TickStarts DEF FireTick, FeedTypes, FeedTick
  <2>2. timer' \in 0..TickInterval /\ renewed' \subseteq renewed
    BY <1>1, ConstantTypes DEF FireTick
  <2>3. QED
    BY <1>1, <2>1, <2>2 DEF FireTick, cacheKeys, bounded, FeedTypes
<1>2. CASE TickReadsBase
  <2>1. tick' \in FeedTick /\ renewed' \subseteq renewed
    BY <1>2, TickComes DEF FeedTick
  <2>2. QED
    BY <1>2, <2>1 DEF TickReadsBase, cacheKeys, bounded, FeedTypes
<1>3. CASE TickReadsLive
  <2>1. tick' \in FeedTick
    BY <1>3, TickReads DEF FeedTick
  <2>2. QED
    BY <1>3, <2>1 DEF TickReadsLive, cacheKeys, bounded, FeedTypes
<1>4. CASE TickWritesLive
  <2>1. PICK s \in Symbols :
            /\ live' = [live EXCEPT ![s] = SetKey(tick.price, LiveTtl)]
            /\ renewed' = renewed \cup {s}
    BY <1>4, TickWrites
  <2>2. tick' \in FeedTick /\ tick.price \in Prices
    BY <1>4, TickWrites DEF FeedTick
  <2>3. SetKey(tick.price, LiveTtl) \in FeedKey
    BY <2>2, NewKey
  <2>4. live' \in [Symbols -> FeedKey]
    BY <2>1, <2>3, SetOneKey DEF FeedTypes
  <2>5. renewed' \subseteq Symbols
    BY <2>1 DEF FeedTypes
  <2>6. QED
    BY <1>4, <2>2, <2>4, <2>5 DEF TickWritesLive, bounded, FeedTypes
<1>5. CASE EndTick
  BY <1>5 DEF EndTick, cacheKeys, bounded, FeedTypes, FeedTick
<1>6. CASE FailTick
  <2>1. failures' \in 0..MaxFailures
    BY <1>6, FailureCounted DEF FailTick
  <2>2. QED
    BY <1>6, <2>1 DEF FailTick, cacheKeys, FeedTypes, FeedTick
<1>7. QED
  BY <1>1, <1>2, <1>3, <1>4, <1>5, <1>6 DEF TickAccess

LEMMA RefreshTypes ==
    ASSUME FeedTypes,
           \/ StartRefresh \/ RefreshAccess \/ EndRefresh \/ FailRefresh
           \/ \E w \in writes : CacheQuote(w)
    PROVE  FeedTypes'
<1>1. CASE StartRefresh
  <2>1. refresh' \in FetchingRefresh
    BY <1>1 DEF StartRefresh, FetchingRefresh
  <2>2. QED
    BY <1>1, <2>1 DEF StartRefresh, cacheKeys, bounded, FeedTypes, FeedRefresh
<1>2. CASE FetchQuotes
  <2>1. refresh \in FetchingRefresh
    BY <1>2, RefreshStagesOfFeed DEF FetchQuotes, FeedTypes
  <2>2. PICK quoted \in SUBSET refresh.symbols, n \in Prices :
            /\ NewPrice(n)
            /\ refresh' = [stage |-> "persisting", quotes |-> quoted, price |-> n]
    BY <1>2 DEF FetchQuotes
  <2>3. refresh' \in PersistingRefresh
    BY <2>1, <2>2 DEF FetchingRefresh, PersistingRefresh
  <2>4. last' \in 0..MaxPrices
    BY <2>2, ConstantTypes DEF NewPrice, Prices
  <2>5. QED
    BY <1>2, <2>3, <2>4 DEF FetchQuotes, cacheKeys, bounded, FeedTypes, FeedRefresh
<1>3. CASE AbandonRefresh
  BY <1>3 DEF AbandonRefresh, cacheKeys, bounded, FeedTypes, FeedRefresh
<1>4. CASE Persist
  <2>1. refresh \in PersistingRefresh
    BY <1>4, RefreshStagesOfFeed DEF Persist, FeedTypes
  <2>2. refresh.quotes \in SUBSET Symbols /\ refresh.price \in Prices
    BY <2>1 DEF PersistingRefresh
  <2>3. listing' \in [Symbols -> FeedListing]
    <3>1. [source |-> "provider", close |-> refresh.price] \in FeedListing
      BY <2>2 DEF FeedListing, Listing
    <3>2. \A s \in Symbols : listing[s] \in FeedListing
      BY DEF FeedTypes
    <3>3. QED
      BY <1>4, <3>1, <3>2 DEF Persist
  <2>4. writes' \subseteq CacheWrite
    BY <1>4, <2>2 DEF Persist, FeedTypes, CacheWrite
  <2>5. refresh' \in FeedRefresh
    BY <1>4, <2>2 DEF Persist, FeedRefresh, CachingRefresh
  <2>6. QED
    BY <1>4, <2>3, <2>4, <2>5 DEF Persist, cacheKeys, bounded, FeedTypes
<1>5. ASSUME NEW w \in writes, CacheQuote(w)
      PROVE  FeedTypes'
  <2>1. w.symbol \in Symbols /\ w.price \in Prices
    BY DEF FeedTypes, CacheWrite
  <2>2. SetKey(w.price, Day) \in FeedKey
    BY <2>1, NewKey
  <2>3. base' = base \/ base' = [base EXCEPT ![w.symbol] = SetKey(w.price, Day)]
    BY <1>5 DEF CacheQuote
  <2>4. live' = live \/ live' = [live EXCEPT ![w.symbol] = SetKey(w.price, Day)]
    BY <1>5 DEF CacheQuote
  <2>5. base' \in [Symbols -> FeedKey] /\ live' \in [Symbols -> FeedKey]
    BY <2>1, <2>2, <2>3, <2>4, SetOneKey DEF FeedTypes
  <2>6. writes' \subseteq writes
    BY <1>5 DEF CacheQuote
  <2>7. QED
    BY <1>5, <2>5, <2>6 DEF CacheQuote, bounded, FeedTypes
<1>6. CASE EndRefresh
  BY <1>6 DEF EndRefresh, cacheKeys, bounded, FeedTypes, FeedRefresh
<1>7. CASE FailRefresh
  <2>1. failures' \in 0..MaxFailures
    BY <1>7, FailureCounted DEF FailRefresh
  <2>2. refresh' \in FeedRefresh /\ writes' \subseteq writes
    BY <1>7 DEF FailRefresh, FeedTypes, FeedRefresh
  <2>3. QED
    BY <1>7, <2>1, <2>2 DEF FailRefresh, cacheKeys, FeedTypes
<1>8. QED
  BY <1>1, <1>2, <1>3, <1>4, <1>5, <1>6, <1>7 DEF RefreshAccess

LEMMA RequestStored ==
    ASSUME FeedTypes, NEW r \in Requests, NEW q \in OpenRequest \cup {Idle}
    PROVE  [request EXCEPT ![r] = q] \in [Requests -> OpenRequest \cup {Idle}]
  BY DEF FeedTypes

LEMMA RequestMoves ==
    ASSUME FeedTypes, NEW r \in Requests, request[r] \in OpenRequest,
           NEW stage \in {"saving", "base", "live", "answer"}
    PROVE  [request EXCEPT ![r].stage = stage] \in [Requests -> OpenRequest \cup {Idle}]
<1>1. [request[r] EXCEPT !.stage = stage] \in OpenRequest
  BY DEF OpenRequest
<1>2. [request EXCEPT ![r].stage = stage] = [request EXCEPT ![r] = [request[r] EXCEPT !.stage = stage]]
  OBVIOUS
<1>3. QED
  BY <1>1, <1>2, RequestStored

LEMMA RequestTypes ==
    ASSUME FeedTypes, NEW r \in Requests,
           RequestAccess(r) \/ Answer(r) \/ FailRequest(r)
    PROVE  FeedTypes'
<1> DEFINE q == request[r]
<1>1. q \in OpenRequest => q.symbol \in Symbols /\ q.price \in Prices
  BY DEF OpenRequest
<1>2. [request EXCEPT ![r] = Idle] \in [Requests -> OpenRequest \cup {Idle}]
  BY RequestStored
<1>3. CASE Save(r)
  <2>1. q \in OpenRequest
    BY <1>3, RequestStages DEF Save
  <2>2. CASE Listed(q.symbol)
    <3>1. listing' = [listing EXCEPT ![q.symbol].close = q.price]
          /\ request' = [request EXCEPT ![r].stage = "base"]
      BY <1>3, <2>2 DEF Save
    <3>2. listing[q.symbol] \in Listing
      BY <1>1, <2>1, <2>2 DEF Listed, FeedTypes, FeedListing
    <3>3. [listing[q.symbol] EXCEPT !.close = q.price] \in FeedListing
      BY <1>1, <2>1, <3>2 DEF FeedListing, Listing
    <3>4. listing' \in [Symbols -> FeedListing]
      BY <1>1, <2>1, <3>1, <3>3 DEF FeedTypes
    <3>5. request' \in [Requests -> OpenRequest \cup {Idle}]
      BY <2>1, <3>1, RequestMoves
    <3>6. QED
      BY <1>3, <3>4, <3>5 DEF Save, cacheKeys, bounded, FeedTypes
  <2>3. CASE ~Listed(q.symbol)
    <3>1. listing' = listing /\ request' = [request EXCEPT ![r] = Idle]
      BY <1>3, <2>3 DEF Save
    <3>2. QED
      BY <1>2, <1>3, <3>1 DEF Save, cacheKeys, bounded, FeedTypes
  <2>4. QED
    BY <2>2, <2>3
<1>4. CASE CacheBase(r)
  <2>1. q \in OpenRequest
    BY <1>4, RequestStages DEF CacheBase
  <2>2. SetKey(q.price, Day) \in FeedKey
    BY <1>1, <2>1, NewKey
  <2>3. base' = [base EXCEPT ![q.symbol] = SetKey(q.price, Day)]
        /\ request' = [request EXCEPT ![r].stage = "live"]
    BY <1>4 DEF CacheBase
  <2>4. base' \in [Symbols -> FeedKey]
    BY <1>1, <2>1, <2>2, <2>3, SetOneKey DEF FeedTypes
  <2>5. request' \in [Requests -> OpenRequest \cup {Idle}]
    BY <2>1, <2>3, RequestMoves
  <2>6. QED
    BY <1>4, <2>4, <2>5 DEF CacheBase, bounded, FeedTypes
<1>5. CASE CacheLive(r)
  <2>1. q \in OpenRequest
    BY <1>5, RequestStages DEF CacheLive
  <2>2. SetKey(q.price, Day) \in FeedKey
    BY <1>1, <2>1, NewKey
  <2>3. live' = [live EXCEPT ![q.symbol] = SetKey(q.price, Day)]
        /\ request' = [request EXCEPT ![r].stage = "answer"]
    BY <1>5 DEF CacheLive
  <2>4. live' \in [Symbols -> FeedKey]
    BY <1>1, <2>1, <2>2, <2>3, SetOneKey DEF FeedTypes
  <2>5. request' \in [Requests -> OpenRequest \cup {Idle}]
    BY <2>1, <2>3, RequestMoves
  <2>6. QED
    BY <1>5, <2>4, <2>5 DEF CacheLive, bounded, FeedTypes
<1>6. CASE Answer(r)
  BY <1>2, <1>6 DEF Answer, cacheKeys, bounded, FeedTypes
<1>7. CASE FailRequest(r)
  <2>1. failures' \in 0..MaxFailures
    BY <1>7, FailureCounted DEF FailRequest
  <2>2. QED
    BY <1>2, <1>7, <2>1 DEF FailRequest, cacheKeys, FeedTypes
<1>8. QED
  BY <1>3, <1>4, <1>5, <1>6, <1>7 DEF RequestAccess

LEMMA ListingTypes ==
    ASSUME FeedTypes, NEW s \in Symbols,
           Delete(s) \/ \E r \in Requests : Create(r, s) \/ Update(r, s)
    PROVE  FeedTypes'
<1>1. ASSUME NEW n \in Prices, NewPrice(n)
      PROVE  last' \in 0..MaxPrices
  BY <1>1, ConstantTypes DEF NewPrice, Prices
<1>2. ASSUME NEW stage \in {"saving", "base"}, NEW n \in Prices
      PROVE  Awaiting(stage, s, n) \in OpenRequest
  BY DEF Awaiting, OpenRequest
<1>3. ASSUME NEW r \in Requests, Create(r, s)
      PROVE  FeedTypes'
  <2>1. PICK n \in Prices :
            /\ NewPrice(n)
            /\ listing' = [listing EXCEPT ![s] = [source |-> "admin", close |-> n]]
            /\ request' = [request EXCEPT ![r] = Awaiting("base", s, n)]
    BY <1>3 DEF Create
  <2>2. [source |-> "admin", close |-> n] \in FeedListing
    BY DEF FeedListing, Listing
  <2>3. listing' \in [Symbols -> FeedListing]
    BY <2>1, <2>2 DEF FeedTypes
  <2>4. request' \in [Requests -> OpenRequest \cup {Idle}]
    BY <1>2, <2>1, RequestStored
  <2>5. QED
    BY <1>1, <1>3, <2>1, <2>3, <2>4 DEF Create, cacheKeys, bounded, FeedTypes
<1>4. ASSUME NEW r \in Requests, Update(r, s)
      PROVE  FeedTypes'
  <2>1. PICK n \in Prices :
            /\ NewPrice(n)
            /\ request' = [request EXCEPT ![r] = Awaiting("saving", s, n)]
    BY <1>4 DEF Update
  <2>2. request' \in [Requests -> OpenRequest \cup {Idle}]
    BY <1>2, <2>1, RequestStored
  <2>3. QED
    BY <1>1, <1>4, <2>1, <2>2 DEF Update, cacheKeys, bounded, FeedTypes
<1>5. CASE Delete(s)
  <2>1. listing' \in [Symbols -> FeedListing]
    BY <1>5 DEF Delete, FeedTypes, FeedListing
  <2>2. QED
    BY <1>5, <2>1 DEF Delete, cacheKeys, workers, bounded, FeedTypes
<1>6. QED
  BY <1>3, <1>4, <1>5

LEMMA TickAges ==
    ASSUME FeedTypes, PassTime, tick # Idle
    PROVE  /\ tick' \in FeedTick /\ tick' # Idle
           /\ tick'.todo = tick.todo /\ tick'.current = tick.current /\ tick'.age = tick.age + 1
           /\ tick.age < TickTime
<1>1. tick' = [tick EXCEPT !.age = @ + 1] /\ tick.age < TickTime
  BY DEF PassTime
<1>2. tick.age \in 0..TickTime /\ TickTime \in Nat
  BY TickFields, ConstantTypes DEF FeedTypes
<1>3. tick.age + 1 \in 0..TickTime
  BY <1>1, <1>2
<1>4. tick \in NextTick \/ tick \in ReadTick \/ tick \in WriteTick
  BY TickStages DEF FeedTypes
<1>5. CASE tick \in NextTick
  <2>1. tick' \in NextTick
    BY <1>1, <1>3, <1>5 DEF NextTick
  <2>2. QED
    BY <1>1, <1>5, <2>1 DEF NextTick, FeedTick, Idle
<1>6. CASE tick \in ReadTick
  <2>1. tick' \in ReadTick
    BY <1>1, <1>3, <1>6 DEF ReadTick
  <2>2. QED
    BY <1>1, <1>6, <2>1 DEF ReadTick, FeedTick, Idle
<1>7. CASE tick \in WriteTick
  <2>1. tick' \in WriteTick
    BY <1>1, <1>3, <1>7 DEF WriteTick
  <2>2. QED
    BY <1>1, <1>7, <2>1 DEF WriteTick, FeedTick, Idle
<1>8. QED
  BY <1>4, <1>5, <1>6, <1>7

LEMMA TimeTypes ==
    ASSUME FeedTypes,
           PassTime \/ \E s \in Symbols : ExpireBase(s) \/ ExpireLive(s)
    PROVE  FeedTypes'
<1>1. CASE PassTime
  <2>1. \A s \in Symbols : Older(base[s]) \in FeedKey /\ Older(live[s]) \in FeedKey
    BY OlderKey DEF FeedTypes
  <2>2. base' \in [Symbols -> FeedKey] /\ live' \in [Symbols -> FeedKey]
    BY <1>1, <2>1 DEF PassTime
  <2>3. timer' \in 0..TickInterval
    BY <1>1, ConstantTypes DEF PassTime, FeedTypes
  <2>4. tick' \in FeedTick
    BY <1>1, TickAges DEF PassTime, FeedTypes
  <2>5. QED
    BY <1>1, <2>2, <2>3, <2>4 DEF PassTime, bounded, FeedTypes
<1>2. NoKey \in FeedKey
  BY DEF FeedKey
<1>3. ASSUME NEW s \in Symbols, ExpireBase(s)
      PROVE  FeedTypes'
  <2>1. base' \in [Symbols -> FeedKey]
    BY <1>2, <1>3, SetOneKey DEF ExpireBase, FeedTypes
  <2>2. QED
    BY <1>3, <2>1 DEF ExpireBase, workers, bounded, FeedTypes
<1>4. ASSUME NEW s \in Symbols, ExpireLive(s)
      PROVE  FeedTypes'
  <2>1. live' \in [Symbols -> FeedKey]
    BY <1>2, <1>4, SetOneKey DEF ExpireLive, FeedTypes
  <2>2. QED
    BY <1>4, <2>1 DEF ExpireLive, workers, bounded, FeedTypes
<1>5. QED
  BY <1>1, <1>3, <1>4

\* All that can happen, by what it is about.
LEMMA FeedSteps ==
    ASSUME Next
    PROVE  \/ Startup \/ Crash
           \/ FireTick \/ TickAccess \/ EndTick \/ FailTick
           \/ StartRefresh \/ RefreshAccess \/ EndRefresh \/ FailRefresh
           \/ \E w \in writes : CacheQuote(w)
           \/ \E r \in Requests : RequestAccess(r) \/ Answer(r) \/ FailRequest(r)
           \/ \E s \in Symbols :
                  Delete(s) \/ \E r \in Requests : Create(r, s) \/ Update(r, s)
           \/ PassTime \/ \E s \in Symbols : ExpireBase(s) \/ ExpireLive(s)
  BY DEF Next, Silent

LEMMA FeedTypesStep ==
    ASSUME FeedTypes, [Next]_vars
    PROVE  FeedTypes'
<1>1. CASE UNCHANGED vars
  BY <1>1 DEF vars, cacheKeys, workers, bounded, FeedTypes
<1>2. CASE Next
  BY <1>2, FeedSteps, StartupTypes, TickTypes, RefreshTypes, RequestTypes, ListingTypes, TimeTypes
<1>3. QED
  BY <1>1, <1>2

-----------------------------------------------------------------------------
(* Ticks follow one another in time *)

LEMMA TickingStays ==
    ASSUME Ticking, phase' = "down" => phase = "down",
           tick' = tick, timer' = timer, renewed' \subseteq renewed
    PROVE  Ticking'
  BY DEF Ticking

LEMMA TickingSteps ==
    ASSUME FeedTypes, Ticking, [Next]_vars
    PROVE  Ticking'
<1>1. timer \in Nat /\ TickInterval \in Nat
  BY ConstantTypes DEF FeedTypes
<1>2. CASE UNCHANGED vars
  BY <1>2, TickingStays DEF vars, workers
<1>3. CASE Startup
  <2>1. tick' = tick /\ renewed' = renewed /\ phase' # "down"
    BY <1>3 DEF Startup, Boot, SeedPrice, StartServing, workers
  <2>2. CASE Boot
    BY <2>1, <2>2 DEF Boot, Ticking
  <2>3. CASE StartServing \/ \E d \in seeding : SeedPrice(d)
    BY <2>1, <2>3, TickingStays DEF SeedPrice, StartServing
  <2>4. QED
    BY <1>3, <2>2, <2>3 DEF Startup
<1>4. CASE Crash
  BY <1>4 DEF Crash, Ticking
<1>5. CASE FireTick
  <2>1. /\ TickInterval > 0 /\ phase' # "down" /\ timer = 0 /\ timer' = TickInterval
    BY <1>5 DEF FireTick
  <2>2. CASE tick = Idle
    <3>1. tick'.age = 0
      BY <1>5, <2>2, TickStarts
    <3>2. tick'.age + timer' = TickInterval
      BY <1>1, <2>1, <3>1
    <3>3. QED
      BY <2>1, <3>2, DueTimes DEF Ticking
  <2>3. CASE tick # Idle
    <3>1. tick' = tick
      BY <1>5, <2>3 DEF FireTick
    <3>2. tick.age \in Nat /\ tick.age <= TickTime /\ tick.age \in Due
      <4>1. tick.age \in 0..TickTime /\ tick.age \in Nat /\ TickTime \in Nat
        BY <2>3, TickFields, ConstantTypes DEF FeedTypes
      <4>2. tick.age + timer = tick.age
        BY <2>1, <4>1
      <4>3. QED
        BY <2>3, <4>1, <4>2 DEF Ticking
    <3>3. tick.age + TickInterval \in Due /\ tick.age + TickInterval <= Turn
      BY <2>1, <3>2, DueTimes
    <3>4. QED
      BY <2>1, <3>1, <3>3 DEF Ticking
  <2>4. QED
    BY <2>2, <2>3
<1>6. CASE TickAccess
  <2>1. tick # Idle /\ tick'.age = tick.age
    BY <1>6, TickComes, TickReads, TickWrites DEF TickAccess
  <2>2. phase' = phase /\ timer' = timer
    BY <1>6 DEF TickAccess, TickReadsBase, TickReadsLive, TickWritesLive
  <2>3. phase # "down" /\ TickInterval > 0 /\ tick.age + timer \in Due /\ tick.age + timer <= Turn
    BY <2>1 DEF Ticking
  <2>4. QED
    BY <2>1, <2>2, <2>3 DEF Ticking
<1>7. CASE EndTick \/ FailTick
  BY <1>7 DEF EndTick, FailTick, Ticking
<1>8. CASE \/ StartRefresh \/ RefreshAccess \/ EndRefresh \/ FailRefresh
           \/ \E w \in writes : CacheQuote(w)
  <2>1. tick' = tick /\ timer' = timer /\ renewed' = renewed /\ phase' = phase
    BY <1>8 DEF StartRefresh, RefreshAccess, FetchQuotes, AbandonRefresh,
                Persist, EndRefresh, FailRefresh, CacheQuote
  <2>2. QED
    BY <2>1, TickingStays
<1>9. CASE \E r \in Requests : RequestAccess(r) \/ Answer(r) \/ FailRequest(r)
  <2>1. tick' = tick /\ timer' = timer /\ renewed' = renewed /\ phase' = phase
    BY <1>9 DEF RequestAccess, Save, CacheBase, CacheLive, Answer,
                FailRequest
  <2>2. QED
    BY <2>1, TickingStays
<1>10. CASE \E s \in Symbols :
                Delete(s) \/ \E r \in Requests : Create(r, s) \/ Update(r, s)
  <2>1. tick' = tick /\ timer' = timer /\ renewed' = renewed /\ phase' = phase
    BY <1>10 DEF Delete, Create, Update, workers
  <2>2. QED
    BY <2>1, TickingStays
<1>11. CASE \E s \in Symbols : ExpireBase(s) \/ ExpireLive(s)
  <2>1. tick' = tick /\ timer' = timer /\ renewed' = renewed /\ phase' = phase
    BY <1>11 DEF ExpireBase, ExpireLive, workers
  <2>2. QED
    BY <2>1, TickingStays
<1>12. CASE PassTime
  <2>1. phase' = phase /\ renewed' = renewed
    BY <1>12 DEF PassTime
  <2>2. CASE tick = Idle
    <3>1. tick' = Idle
      BY <1>12, <2>2 DEF PassTime
    <3>2. QED
      BY <2>1, <2>2, <3>1 DEF Ticking
  <2>3. CASE tick # Idle
    <3>1. phase # "down" /\ TickInterval > 0 /\ timer > 0
      BY <1>12, <2>3 DEF Ticking, PassTime
    <3>2. timer' = timer - 1
      BY <1>1, <1>12, <3>1 DEF PassTime
    <3>3. tick'.age = tick.age + 1 /\ tick.age \in Nat
      BY <1>12, <2>3, TickAges, TickFields DEF FeedTypes
    <3>4. tick'.age + timer' = tick.age + timer
      BY <1>1, <3>2, <3>3
    <3>5. QED
      BY <2>1, <2>3, <3>1, <3>4 DEF Ticking
  <2>4. QED
    BY <2>2, <2>3
<1>13. QED
  BY <1>2, <1>3, <1>4, <1>5, <1>6, <1>7, <1>8, <1>9, <1>10, <1>11, <1>12, FeedSteps

-----------------------------------------------------------------------------
(* A live price lasts until the tick comes *)

\* What the constants and types say of the times, for a stock the ticks keep up.
LEMMA Times ==
    ASSUME FeedTypes, Ticking, NEW s \in renewed
    PROVE  /\ s \in Symbols /\ live[s] \in FeedKey /\ live[s].ttl \in Nat
           /\ TickInterval > 0 /\ phase # "down"
           /\ timer \in Nat /\ timer <= TickInterval /\ TickTime \in Nat /\ Turn \in Nat
           /\ LiveTtl \in Nat /\ TickInterval <= Turn
           /\ failures \in 0..MaxFailures /\ Budget(failures) \in Nat
           /\ tick # Idle => /\ tick.age \in Nat /\ tick.age <= TickTime
                                  /\ tick.age + timer <= Turn
           /\ TimeToTick(s) \in Nat
<1>1. s \in Symbols /\ live[s] \in FeedKey /\ timer \in 0..TickInterval
      /\ failures \in 0..MaxFailures
  BY DEF FeedTypes
<1>2. live[s].ttl \in Nat
  BY <1>1, KeyTtl
<1>3. TickInterval > 0 /\ phase # "down"
  BY DEF Ticking
<1>4. TickTime \in Nat /\ TickInterval \in Nat /\ LiveTtl \in Nat /\ Turn \in Nat
      /\ TickInterval <= Turn
  BY <1>3, ConstantTypes, DueTimes
<1>5. Budget(failures) \in Nat
  BY <1>1, <1>3, BudgetSteps
<1>6. ASSUME tick # Idle
      PROVE  tick.age \in Nat /\ tick.age <= TickTime /\ tick.age + timer <= Turn
  BY <1>4, <1>6, TickFields DEF FeedTypes, Ticking
<1>7. TimeToTick(s) \in Nat
  BY <1>1, <1>4, <1>6 DEF TimeToTick, Awaits
<1>8. QED
  BY <1>1, <1>2, <1>3, <1>4, <1>5, <1>6, <1>7

LEMMA KeptUp ==
    ASSUME FeedTypes, Ticking, InTime, NEW s \in renewed
    PROVE  live[s].ttl > 0
<1>1. live[s].ttl > LiveTtl \/ live[s].ttl > TimeToTick(s) + Budget(failures)
  BY DEF InTime
<1>2. QED
  BY <1>1, Times

\* It stays so while no time passes, the tick stays where it is, and no key of a
\* stock the ticks keep up gets a shorter time to live.
LEMMA InTimeStays ==
    ASSUME FeedTypes, Ticking, InTime,
           tick' = tick, timer' = timer, renewed' \subseteq renewed,
           failures' = failures \/ Fail,
           \A s \in renewed' : live'[s] = live[s] \/ live'[s].ttl > LiveTtl
    PROVE  InTime'
<1> SUFFICES ASSUME NEW s \in renewed', ~(live'[s].ttl > LiveTtl)
             PROVE  live'[s].ttl > TimeToTick(s)' + Budget(failures')
  BY DEF InTime
<1>1. s \in renewed /\ live'[s] = live[s]
  OBVIOUS
<1>2. live[s].ttl > TimeToTick(s) + Budget(failures)
  BY <1>1 DEF InTime
<1>3. TimeToTick(s)' = TimeToTick(s)
  BY DEF TimeToTick, Awaits
<1>4. TimeToTick(s) \in Nat /\ Budget(failures) \in Nat /\ live[s].ttl \in Nat
      /\ TickInterval > 0 /\ Turn \in Nat
  BY <1>1, Times
<1>5. Budget(failures') \in Nat /\ Budget(failures') <= Budget(failures)
  <2>1. CASE failures' = failures
    BY <1>4, <2>1
  <2>2. CASE Fail
    BY <1>4, <2>2, FailureCounted, BudgetSteps
  <2>3. QED
    BY <2>1, <2>2
<1>6. QED
  BY <1>1, <1>2, <1>3, <1>4, <1>5

LEMMA FireTickInTime ==
    ASSUME FeedTypes, Ticking, InTime, FireTick
    PROVE  InTime'
<1>1. /\ live' = live /\ failures' = failures /\ timer = 0
      /\ renewed' \subseteq renewed
  BY DEF FireTick, cacheKeys, bounded
<1> SUFFICES ASSUME NEW s \in renewed', ~(live'[s].ttl > LiveTtl)
             PROVE  live'[s].ttl > TimeToTick(s)' + Budget(failures')
  BY DEF InTime
<1>2. live[s].ttl > TimeToTick(s) + Budget(failures)
  BY <1>1 DEF InTime
<1>3. TimeToTick(s)' <= TimeToTick(s) /\ TimeToTick(s)' \in Nat
  <2>1. CASE tick = Idle
    <3>1. tick' # Idle /\ s \in tick'.todo /\ tick'.age = 0
      BY <2>1, TickStarts, TickStages DEF NextTick, Idle
    <3>2. TimeToTick(s)' = TickTime - 0
      BY <3>1 DEF TimeToTick, Awaits
    <3>3. TimeToTick(s) = timer + TickTime
      BY <2>1 DEF TimeToTick, Awaits
    <3>4. QED
      BY <1>1, <3>2, <3>3, Times
  <2>2. CASE tick # Idle
    <3>1. tick' = tick
      BY <2>2 DEF FireTick
    <3>2. TimeToTick(s)' = TimeToTick(s)
      BY <2>2, <3>1 DEF TimeToTick, Awaits
    <3>3. QED
      BY <1>1, <3>2, Times
  <2>3. QED
    BY <2>1, <2>2
<1>4. QED
  BY <1>1, <1>2, <1>3, Times

\* A tick that goes on without a stock had no live price to keep up.
LEMMA TickGoesOnInTime ==
    ASSUME FeedTypes, Ticking, InTime,
           TickReadsBase \/ TickReadsLive
    PROVE  InTime'
<1>1. live' = live /\ failures' = failures /\ timer' = timer /\ renewed' \subseteq renewed
  BY TickComes DEF TickReadsBase, TickReadsLive, cacheKeys, bounded
<1>2. tick # Idle /\ tick' # Idle /\ tick'.age = tick.age
  <2>1. tick # Idle /\ tick' \in NextTick \cup ReadTick \cup WriteTick /\ tick'.age = tick.age
    BY TickComes, TickReads
  <2>2. QED
    BY <2>1 DEF NextTick, ReadTick, WriteTick, Idle
<1>3. ASSUME NEW s \in renewed'
      PROVE  s \in tick.todo \cup tick.current <=> s \in tick'.todo \cup tick'.current
  <2>1. CASE TickReadsBase
    BY <2>1, TickComes
  <2>2. CASE TickReadsLive
    <3>1. tick'.todo = tick.todo
      BY <2>2, TickReads
    <3>2. CASE tick'.current = tick.current
      BY <3>1, <3>2
    <3>3. CASE \E x \in Symbols : tick.current = {x} /\ ~Set(live[x]) /\ tick'.current = {}
      <4>1. PICK x \in Symbols : tick.current = {x} /\ ~Set(live[x]) /\ tick'.current = {}
        BY <3>3
      <4>2. Set(live[s])
        BY <1>1, <1>3, KeptUp, KeyTtl, Times
      <4>3. QED
        BY <3>1, <4>1, <4>2
    <3>4. QED
      BY <2>2, <3>2, <3>3, TickReads
  <2>3. QED
    BY <2>1, <2>2
<1>4. \A s \in renewed' : TimeToTick(s)' = TimeToTick(s)
  BY <1>1, <1>2, <1>3 DEF TimeToTick, Awaits
<1>5. QED
  BY <1>1, <1>4 DEF InTime

LEMMA TickWritesInTime ==
    ASSUME Proportioned, FeedTypes, Ticking, InTime, TickWritesLive
    PROVE  InTime'
<1>1. failures' = failures /\ timer' = timer
  BY DEF TickWritesLive, bounded
<1>2. PICK x \in Symbols :
          /\ tick.current = {x}
          /\ live' = [live EXCEPT ![x] = SetKey(tick.price, LiveTtl)]
          /\ renewed' = renewed \cup {x}
  BY TickWrites
<1>3. tick # Idle /\ tick' # Idle /\ tick'.age = tick.age /\ tick'.todo = tick.todo
      /\ tick'.current = {} /\ tick.price \in Prices
  BY TickWrites DEF NextTick, Idle
<1>4. live \in [Symbols -> FeedKey]
  BY DEF FeedTypes
<1> SUFFICES ASSUME NEW s \in renewed', ~(live'[s].ttl > LiveTtl)
             PROVE  live'[s].ttl > TimeToTick(s)' + Budget(failures')
  BY DEF InTime
<1>5. CASE s = x
  <2>1. live'[s].ttl = LiveTtl
    BY <1>2, <1>3, <1>4, <1>5, NewKey
  <2>2. TickInterval > 0 /\ failures \in 0..MaxFailures
    BY <1>3 DEF Ticking, FeedTypes
  <2>3. /\ Turn \in Nat /\ Budget(failures) \in Nat
        /\ Turn + TickTime + Budget(failures) < LiveTtl
    BY <2>2, DueTimes, BudgetSteps, EnoughTime
  <2>4. tick.age \in Nat /\ TickTime \in Nat /\ LiveTtl \in Nat
    BY <1>3, TickFields, ConstantTypes DEF FeedTypes
  <2>5. TimeToTick(s)' = TickTime - tick.age \/ TimeToTick(s)' = Turn - tick.age + TickTime
    BY <1>3 DEF TimeToTick, Awaits
  <2>6. QED
    BY <1>1, <2>1, <2>3, <2>4, <2>5
<1>6. CASE s # x
  <2>1. s \in renewed /\ live'[s] = live[s]
    BY <1>2, <1>4, <1>6 DEF FeedTypes
  <2>2. live[s].ttl > TimeToTick(s) + Budget(failures)
    BY <2>1 DEF InTime
  <2>3. TimeToTick(s)' = TimeToTick(s)
    BY <1>2, <1>3, <1>6 DEF TimeToTick, Awaits
  <2>4. QED
    BY <1>1, <2>1, <2>2, <2>3
<1>7. QED
  BY <1>5, <1>6

\* A tick that ends leaves the next one to come at the next multiple of the
\* interval; one that fails costs a turn, which the failure was allowed for.
LEMMA TickEndsInTime ==
    ASSUME FeedTypes, Ticking, InTime, EndTick \/ FailTick
    PROVE  InTime'
<1>1. /\ live' = live /\ timer' = timer /\ renewed' = renewed
      /\ tick # Idle /\ tick' = Idle
  BY TickStages DEF EndTick, FailTick, cacheKeys, FeedTypes
<1> SUFFICES ASSUME NEW s \in renewed', ~(live'[s].ttl > LiveTtl)
             PROVE  live'[s].ttl > TimeToTick(s)' + Budget(failures')
  BY DEF InTime
<1>2. s \in renewed /\ live[s].ttl > TimeToTick(s) + Budget(failures)
  BY <1>1 DEF InTime
<1>3. TimeToTick(s)' = timer + TickTime
  BY <1>1 DEF TimeToTick, Awaits
<1>4. CASE EndTick
  <2>1. tick.todo = {} /\ tick.current = {} /\ failures' = failures
    BY <1>4, TickStages DEF EndTick, bounded, FeedTypes, NextTick
  <2>2. TimeToTick(s) = Turn - tick.age + TickTime
    BY <1>1, <2>1 DEF TimeToTick, Awaits
  <2>3. QED
    BY <1>1, <1>2, <1>3, <2>1, <2>2, Times
<1>5. CASE FailTick
  <2>1. /\ failures' = failures + 1 /\ failures < MaxFailures
    BY <1>5, FailureCounted DEF FailTick
  <2>2. Budget(failures) = Budget(failures') + Turn /\ Budget(failures') \in Nat
    BY <1>2, <2>1, BudgetSteps, Times
  <2>3. TimeToTick(s) = TickTime - tick.age \/ TimeToTick(s) = Turn - tick.age + TickTime
    BY <1>1 DEF TimeToTick, Awaits
  <2>4. timer <= Turn - tick.age
    BY <1>1, <1>2, Times
  <2>5. QED
    BY <1>1, <1>2, <1>3, <2>2, <2>3, <2>4, Times
<1>6. QED
  BY <1>4, <1>5

\* The time a live price has left and the time to the tick go down together.
LEMMA PassTimeInTime ==
    ASSUME FeedTypes, Ticking, InTime, PassTime
    PROVE  InTime'
<1>1. failures' = failures /\ renewed' = renewed
  BY DEF PassTime, bounded
<1> SUFFICES ASSUME NEW s \in renewed', ~(live'[s].ttl > LiveTtl)
             PROVE  live'[s].ttl > TimeToTick(s)' + Budget(failures')
  BY DEF InTime
<1>2. s \in renewed
  BY <1>1
<1>3. live'[s] = Older(live[s])
  BY <1>2, Times DEF PassTime
<1>4. live[s].ttl > TimeToTick(s) + Budget(failures)
  BY <1>2, <1>3, OlderKey, Times DEF InTime
<1>5. live'[s].ttl = live[s].ttl \/ live'[s].ttl = live[s].ttl - 1
  BY <1>2, <1>3, OlderKey, KeptUp, Times
<1>6. timer > 0 /\ timer' = timer - 1
  BY <1>2, Times DEF PassTime
<1>7. TimeToTick(s)' = TimeToTick(s) - 1
  <2>1. CASE tick = Idle
    <3>1. tick' = Idle
      BY <2>1 DEF PassTime
    <3>2. TimeToTick(s)' = timer' + TickTime /\ TimeToTick(s) = timer + TickTime
      BY <2>1, <3>1 DEF TimeToTick, Awaits
    <3>3. QED
      BY <1>2, <1>6, <3>2, Times
  <2>2. CASE tick # Idle
    <3>1. /\ tick' # Idle /\ tick'.todo = tick.todo /\ tick'.current = tick.current
          /\ tick'.age = tick.age + 1
      BY <2>2, TickAges
    <3>2. Awaits(s)' <=> Awaits(s)
      BY <2>2, <3>1 DEF Awaits
    <3>3. CASE Awaits(s)
      <4>1. TimeToTick(s)' = TickTime - tick'.age /\ TimeToTick(s) = TickTime - tick.age
        BY <3>2, <3>3 DEF TimeToTick
      <4>2. QED
        BY <1>2, <2>2, <3>1, <4>1, Times
    <3>4. CASE ~Awaits(s)
      <4>1. /\ TimeToTick(s)' = Turn - tick'.age + TickTime
            /\ TimeToTick(s) = Turn - tick.age + TickTime
        BY <2>2, <3>1, <3>2, <3>4 DEF TimeToTick
      <4>2. QED
        BY <1>2, <2>2, <3>1, <4>1, Times
    <3>5. QED
      BY <3>3, <3>4
  <2>3. QED
    BY <2>1, <2>2
<1>8. QED
  BY <1>1, <1>2, <1>4, <1>5, <1>7, Times

\* The seeding leaves a key alone that is set, and what the provider and the
\* administrators set lasts a day.
LEMMA OthersInTime ==
    ASSUME FeedTypes, Ticking, InTime,
           \/ Startup
           \/ StartRefresh \/ RefreshAccess \/ EndRefresh \/ FailRefresh
           \/ \E w \in writes : CacheQuote(w)
           \/ \E r \in Requests : RequestAccess(r) \/ Answer(r) \/ FailRequest(r)
           \/ \E s \in Symbols :
                  Delete(s) \/ \E r \in Requests : Create(r, s) \/ Update(r, s)
           \/ \E s \in Symbols : ExpireBase(s) \/ ExpireLive(s)
    PROVE  InTime'
<1>1. live \in [Symbols -> FeedKey] /\ LiveTtl \in Nat
  BY ConstantTypes DEF FeedTypes
<1>2. ASSUME NEW s \in Symbols, NEW price \in Prices,
             live' = [live EXCEPT ![s] = SetKey(price, Day)]
      PROVE  \A x \in Symbols : live'[x] = live[x] \/ live'[x].ttl > LiveTtl
  <2>1. live'[s].ttl = Day
    BY <1>1, <1>2, NewKey
  <2>2. QED
    BY <1>1, <1>2, <2>1 DEF Day
<1>3. CASE Boot
  BY <1>3 DEF Boot, Ticking, InTime
<1>4. CASE StartServing
  BY <1>4, InTimeStays DEF StartServing, cacheKeys, workers, bounded
<1>5. ASSUME NEW d \in seeding, SeedPrice(d)
      PROVE  InTime'
  <2>1. /\ live' = IF Set(live[d.symbol]) THEN live
                   ELSE [live EXCEPT ![d.symbol] = SetKey(d.close, LiveTtl)]
        /\ tick' = tick /\ timer' = timer /\ renewed' = renewed /\ failures' = failures
    BY <1>5 DEF SeedPrice, workers, bounded
  <2>2. ASSUME NEW s \in renewed
        PROVE  live'[s] = live[s]
    <3>1. s \in Symbols /\ Set(live[s])
      BY KeptUp, KeyTtl, Times
    <3>2. QED
      BY <1>1, <2>1, <3>1
  <2>3. QED
    BY <2>1, <2>2, InTimeStays
<1>6. ASSUME NEW w \in writes, CacheQuote(w)
      PROVE  InTime'
  <2>1. w.symbol \in Symbols /\ w.price \in Prices
    BY DEF FeedTypes, CacheWrite
  <2>2. live' = live \/ live' = [live EXCEPT ![w.symbol] = SetKey(w.price, Day)]
    BY <1>6 DEF CacheQuote
  <2>3. \A x \in Symbols : live'[x] = live[x] \/ live'[x].ttl > LiveTtl
    BY <1>2, <2>1, <2>2
  <2>4. tick' = tick /\ timer' = timer /\ renewed' = renewed /\ failures' = failures
    BY <1>6 DEF CacheQuote, bounded
  <2>5. QED
    BY <2>3, <2>4, InTimeStays DEF FeedTypes
<1>7. CASE StartRefresh \/ RefreshAccess \/ EndRefresh \/ FailRefresh
  <2>1. /\ live' = live /\ tick' = tick /\ timer' = timer /\ renewed' = renewed
        /\ failures' = failures \/ Fail
    BY <1>7 DEF StartRefresh, RefreshAccess, FetchQuotes, AbandonRefresh,
                Persist, EndRefresh, FailRefresh, cacheKeys, bounded
  <2>2. QED
    BY <2>1, InTimeStays
<1>8. ASSUME NEW r \in Requests, CacheLive(r)
      PROVE  InTime'
  <2>1. request[r].symbol \in Symbols /\ request[r].price \in Prices
    BY <1>8, RequestStages DEF CacheLive, OpenRequest
  <2>2. live' = [live EXCEPT ![request[r].symbol] = SetKey(request[r].price, Day)]
        /\ tick' = tick /\ timer' = timer /\ renewed' = renewed /\ failures' = failures
    BY <1>8 DEF CacheLive, bounded
  <2>3. \A x \in Symbols : live'[x] = live[x] \/ live'[x].ttl > LiveTtl
    BY <1>2, <2>1, <2>2
  <2>4. QED
    BY <2>2, <2>3, InTimeStays DEF FeedTypes
<1>9. ASSUME NEW r \in Requests,
             Save(r) \/ CacheBase(r) \/ Answer(r) \/ FailRequest(r)
      PROVE  InTime'
  <2>1. /\ live' = live /\ tick' = tick /\ timer' = timer /\ renewed' = renewed
        /\ failures' = failures \/ Fail
    BY <1>9 DEF Save, CacheBase, Answer, FailRequest, cacheKeys,
                bounded
  <2>2. QED
    BY <2>1, InTimeStays
<1>10. ASSUME NEW s \in Symbols,
              \/ Delete(s) \/ ExpireBase(s)
              \/ \E r \in Requests : Create(r, s) \/ Update(r, s)
       PROVE  InTime'
  <2>1. /\ live' = live /\ tick' = tick /\ timer' = timer /\ renewed' = renewed
        /\ failures' = failures
    BY <1>10 DEF Delete, ExpireBase, Create, Update, cacheKeys,
                 workers, bounded
  <2>2. QED
    BY <2>1, InTimeStays
<1>11. ASSUME NEW s \in Symbols, ExpireLive(s)
       PROVE  InTime'
  <2>1. s \notin renewed /\ live' = [live EXCEPT ![s] = NoKey]
        /\ tick' = tick /\ timer' = timer /\ renewed' = renewed /\ failures' = failures
    BY <1>11 DEF ExpireLive, workers, bounded
  <2>2. \A x \in renewed : live'[x] = live[x]
    BY <1>1, <2>1 DEF FeedTypes
  <2>3. QED
    BY <2>1, <2>2, InTimeStays
<1>12. QED
  BY <1>3, <1>4, <1>5, <1>6, <1>7, <1>8, <1>9, <1>10, <1>11
  DEF Startup, RequestAccess

LEMMA FeedStep ==
    ASSUME Proportioned
    PROVE  FeedInvariant /\ [Next]_vars => FeedInvariant'
<1> SUFFICES ASSUME FeedInvariant, [Next]_vars
             PROVE  FeedInvariant'
  OBVIOUS
<1>1. FeedTypes /\ Ticking /\ InTime
  BY DEF FeedInvariant
<1>2. FeedTypes' /\ Ticking'
  BY <1>1, FeedTypesStep, TickingSteps
<1>3. InTime'
  <2>1. CASE UNCHANGED vars
    BY <1>1, <2>1, InTimeStays DEF vars, cacheKeys, workers, bounded
  <2>2. CASE Crash
    BY <2>2 DEF Crash, InTime
  <2>3. CASE Next /\ ~Crash
    <3>1. TickAccess => InTime'
      BY <1>1, TickGoesOnInTime, TickWritesInTime DEF TickAccess
    <3>2. QED
      BY <1>1, <2>3, <3>1, FeedSteps, FireTickInTime, TickEndsInTime, PassTimeInTime, OthersInTime
  <2>4. QED
    BY <2>1, <2>2, <2>3
<1>4. QED
  BY <1>2, <1>3 DEF FeedInvariant

LEMMA FeedInit == Init => FeedInvariant
<1> SUFFICES ASSUME Init PROVE FeedInvariant
  OBVIOUS
<1>1. FeedTypes
  BY FeedInitTypes
<1>2. renewed = {} /\ tick = Idle
  BY DEF Init
<1>3. QED
  BY <1>1, <1>2 DEF FeedInvariant, Ticking, InTime

LEMMA FeedInvariantTypes ==
    ASSUME FeedInvariant
    PROVE  TypeOK
<1>1. FeedTypes
  BY DEF FeedInvariant
<1>2. \A d \in seeding : d.symbol \in Symbols /\ d.close \in Prices
  BY <1>1 DEF FeedTypes
<1>3. tick # Idle => tick.todo \subseteq Symbols /\ tick.age \in 0..TickTime
  BY <1>1, TickFields DEF FeedTypes
<1>4. refresh # Idle => refresh.stage \in {"fetching", "persisting", "caching"}
  BY <1>1, RefreshStagesOfFeed DEF FeedTypes
<1>5. \A w \in writes : w.symbol \in Symbols /\ w.price \in Prices
  BY <1>1 DEF FeedTypes, CacheWrite
<1>6. ASSUME NEW r \in Requests, request[r] # Idle
      PROVE  request[r].stage \in {"saving", "base", "live", "answer"}
  BY <1>1, <1>6, RequestStages DEF OpenRequest
<1>7. QED
  BY <1>1, <1>2, <1>3, <1>4, <1>5, <1>6
  DEF TypeOK, FeedTypes, FeedListing, FeedKey

LEMMA FeedInvariantInTime == FeedInvariant => TicksComeInTime
<1> SUFFICES ASSUME FeedInvariant PROVE TicksComeInTime
  OBVIOUS
<1>1. FeedTypes /\ Ticking /\ InTime
  BY DEF FeedInvariant
<1>2. \A s \in renewed : Set(live[s])
  BY <1>1, KeptUp, KeyTtl, Times
<1>3. QED
  BY <1>2, FeedInvariantTypes DEF TicksComeInTime

-----------------------------------------------------------------------------
(* Theorems *)

\* The next tick that gets to a stock always comes before the live price the last
\* one set has run out, for any number of stocks and requests: however long a tick
\* takes within its bound, whatever it skips, and though ticks fail, if the time to
\* live covers the interval of each that can.
THEOREM FeedTicksComeInTime ==
    Proportioned => (Spec => []TicksComeInTime)
<1> SUFFICES ASSUME Proportioned
             PROVE  Spec => []TicksComeInTime
  OBVIOUS
<1>1. QED
  BY FeedInit, FeedStep, FeedInvariantInTime, PTL DEF Spec

\* The gateway passes on what the feed does and does nothing else to it: every
\* step of the two together is one of the feed or leaves the feed alone.
LEMMA GatewayKeepsFeed ==
    GatewaySpec => Init /\ [][Next]_vars
<1>1. GatewayInit => Init
  BY DEF GatewayInit
<1>2. [GatewayNext]_gatewayVars => [Next]_vars
  BY DEF GatewayNext, gatewayVars, EmitTick, EmitRefresh, EmitAnswer,
         Subscribe, Unsubscribe, Next
<1>3. QED
  BY <1>1, <1>2, PTL DEF GatewaySpec

\* So its subscribers do not disturb the ticks.
THEOREM GatewayTicksComeInTime ==
    Proportioned => (GatewaySpec => []TicksComeInTime)
<1> SUFFICES ASSUME Proportioned
             PROVE  GatewaySpec => []TicksComeInTime
  OBVIOUS
<1>1. QED
  BY GatewayKeepsFeed, FeedInit, FeedStep, FeedInvariantInTime, PTL

-----------------------------------------------------------------------------
(* Prices of administrators stand where nothing races with them *)

\* The simulated ticks are disabled, and requests come one after the other.
NoRace == TickInterval = 0 /\ \A q, r \in Requests : q = r

AtStage(s, stages) ==
    \E r \in Requests : request[r].stage \in stages /\ request[r].symbol = s

\* Only administrators write the prices of a stock that only they list.
OnlyAdministrators ==
    /\ \A s \in AdminSymbols : listing[s].source # "provider"
    /\ refresh.stage = "fetching" => refresh.symbols \cap AdminSymbols = {}
    /\ refresh.stage = "persisting" => refresh.quotes \cap AdminSymbols = {}
    /\ \A w \in writes : w.symbol \notin AdminSymbols
    /\ crashes = 0 =>
          /\ \A d \in seeding : d.symbol \notin AdminSymbols
          /\ phase # "running" => \A s \in AdminSymbols : ~Listed(s)

\* The keys derive from the price in the listing, but for what is still to be written.
KeysFollow ==
    \A s \in AdminSymbols : Listed(s) =>
        /\ \A r \in Requests :
               request[r].stage \in {"base", "live"} /\ request[r].symbol = s =>
                   request[r].price = listing[s].close
        /\ Set(base[s]) /\ ~AtStage(s, {"base"}) => base[s].from = listing[s].close
        /\ Set(live[s]) /\ ~AtStage(s, {"base", "live"}) => live[s].from = listing[s].close

AdminFeedInvariant ==
    /\ FeedTypes /\ Ticking
    /\ OnlyAdministrators
    /\ failures = 0 /\ crashes = 0 => KeysFollow

LEMMA OlderPrice ==
    ASSUME NEW key \in FeedKey, Set(Older(key))
    PROVE  Set(key) /\ Older(key).from = key.from
<1>1. Older(NoKey) = NoKey
  BY ConstantTypes DEF Older, NoKey
<1>2. Set(key)
  BY <1>1 DEF Set
<1>3. key \in Key
  BY <1>2, KeyTtl
<1>4. Older(key) # NoKey
  BY DEF Set
<1>5. Older(key) = key \/ Older(key) = [key EXCEPT !.ttl = @ - 1]
  BY <1>4 DEF Older
<1>6. QED
  BY <1>2, <1>3, <1>5 DEF Key

LEMMA NoTicks ==
    ASSUME Ticking, NoRace
    PROVE  /\ tick = Idle /\ renewed = {}
           /\ ~FireTick /\ ~TickAccess /\ ~EndTick /\ ~FailTick
<1>1. tick = Idle /\ renewed = {} /\ ~(TickInterval > 0)
  BY DEF Ticking, NoRace
<1>2. tick.stage = "idle"
  BY <1>1 DEF Idle
<1>3. QED
  BY <1>1, <1>2 DEF FireTick, TickAccess, TickReadsBase, TickReadsLive,
                    TickWritesLive, EndTick, FailTick

\* What administrators have to themselves stays so when a step neither lists one of
\* their stocks nor touches the refresh.
LEMMA AdministratorsStay ==
    ASSUME OnlyAdministrators, refresh' = refresh, writes' \subseteq writes,
           seeding' \subseteq seeding, crashes' = crashes,
           phase' = phase \/ phase' = "running",
           \A s \in AdminSymbols :
               \/ listing'[s] = listing[s]
               \/ listing'[s] = NotListed
               \/ listing'[s].source = "admin" /\ (phase = "running" \/ Listed(s))
    PROVE  OnlyAdministrators'
<1>1. \A s \in AdminSymbols : listing'[s].source # "provider"
  BY DEF OnlyAdministrators, NotListed
<1>2. ASSUME crashes' = 0
      PROVE  /\ \A d \in seeding' : d.symbol \notin AdminSymbols
             /\ phase' # "running" => \A s \in AdminSymbols : listing'[s] = NotListed
  BY <1>2 DEF OnlyAdministrators, Listed
<1>3. QED
  BY <1>1, <1>2 DEF OnlyAdministrators, Listed

LEMMA OnlyAdministratorsStep ==
    ASSUME NoRace, FeedTypes, Ticking, OnlyAdministrators,
           [Next]_vars
    PROVE  OnlyAdministrators'
<1>1. AdminSymbols \subseteq Symbols /\ listing \in [Symbols -> FeedListing]
      /\ crashes \in Nat
  BY ConstantTypes DEF FeedTypes
<1>2. CASE UNCHANGED vars
  BY <1>2, AdministratorsStay DEF vars, workers, bounded
<1>3. CASE Boot
  <2>1. /\ listing' = listing /\ refresh' = refresh /\ writes' = writes /\ crashes' = crashes
        /\ phase = "down" /\ phase' = "seeding"
        /\ \A d \in seeding' : \E s \in Symbols : Listed(s) /\ d.symbol = s
    BY <1>3 DEF Boot, workers, bounded
  <2>2. crashes = 0 => \A s \in AdminSymbols : ~Listed(s)
    BY <2>1 DEF OnlyAdministrators
  <2>3. crashes = 0 => \A d \in seeding' : d.symbol \notin AdminSymbols
    BY <2>1, <2>2
  <2>4. QED
    BY <2>1, <2>2, <2>3 DEF OnlyAdministrators, Listed
<1>4. ASSUME NEW d \in seeding, SeedPrice(d)
      PROVE  OnlyAdministrators'
  <2>1. seeding' \subseteq seeding
    BY <1>4 DEF SeedPrice
  <2>2. QED
    BY <1>4, <2>1, AdministratorsStay DEF SeedPrice, workers, bounded
<1>5. CASE StartServing
  BY <1>5, AdministratorsStay DEF StartServing, workers, bounded
<1>6. CASE Crash
  <2>1. crashes' # 0 /\ refresh' = Idle /\ writes' = {} /\ listing' = listing
    BY <1>1, <1>6 DEF Crash
  <2>2. QED
    BY <2>1 DEF OnlyAdministrators, Idle
<1>7. CASE StartRefresh
  <2>1. /\ listing' = listing /\ writes' = writes /\ crashes' = crashes /\ phase' = phase
        /\ seeding' = seeding
        /\ refresh' = [stage |-> "fetching",
                       symbols |-> {s \in Symbols : listing[s].source = "provider"}]
    BY <1>7 DEF StartRefresh, bounded
  <2>2. {s \in Symbols : listing[s].source = "provider"} \cap AdminSymbols = {}
    BY DEF OnlyAdministrators
  <2>3. refresh'.stage = "fetching" /\ refresh'.symbols \cap AdminSymbols = {}
    BY <2>1, <2>2
  <2>4. QED
    BY <2>1, <2>3 DEF OnlyAdministrators, Listed
<1>8. CASE FetchQuotes
  <2>1. /\ listing' = listing /\ writes' = writes /\ crashes' = crashes /\ phase' = phase
        /\ seeding' = seeding /\ refresh.stage = "fetching"
        /\ \E quoted \in SUBSET refresh.symbols : \E n \in Prices :
               refresh' = [stage |-> "persisting", quotes |-> quoted, price |-> n]
    BY <1>8 DEF FetchQuotes, bounded
  <2>2. refresh'.stage = "persisting" /\ refresh'.quotes \cap AdminSymbols = {}
    BY <2>1 DEF OnlyAdministrators
  <2>3. QED
    BY <2>1, <2>2 DEF OnlyAdministrators, Listed
<1>9. CASE AbandonRefresh \/ EndRefresh
  <2>1. refresh' = Idle /\ listing' = listing /\ writes' = writes /\ crashes' = crashes
        /\ phase' = phase /\ seeding' = seeding
    BY <1>9 DEF AbandonRefresh, EndRefresh, bounded
  <2>2. QED
    BY <2>1 DEF OnlyAdministrators, Listed, Idle
<1>10. CASE Persist
  <2>1. /\ crashes' = crashes /\ phase' = phase /\ seeding' = seeding
        /\ refresh.stage = "persisting" /\ refresh'.stage = "caching"
        /\ writes' = writes \cup [key: {"base", "live"}, symbol: refresh.quotes,
                                  price: {refresh.price}]
        /\ \A s \in Symbols : s \notin refresh.quotes => listing'[s] = listing[s]
    BY <1>10 DEF Persist, bounded
  <2>2. refresh.quotes \cap AdminSymbols = {}
    BY <2>1 DEF OnlyAdministrators
  <2>3. \A s \in AdminSymbols : listing'[s] = listing[s]
    BY <1>1, <2>1, <2>2
  <2>4. \A w \in writes' : w.symbol \notin AdminSymbols
    BY <2>1, <2>2 DEF OnlyAdministrators
  <2>5. QED
    BY <2>1, <2>3, <2>4 DEF OnlyAdministrators, Listed
<1>11. CASE FailRefresh
  <2>1. /\ listing' = listing /\ writes' \subseteq writes /\ crashes' = crashes /\ phase' = phase
        /\ seeding' = seeding /\ (refresh' = refresh \/ refresh' = Idle)
    BY <1>11 DEF FailRefresh
  <2>2. QED
    BY <2>1 DEF OnlyAdministrators, Listed, Idle
<1>12. ASSUME NEW w \in writes, CacheQuote(w)
       PROVE  OnlyAdministrators'
  <2>1. writes' \subseteq writes
    BY <1>12 DEF CacheQuote
  <2>2. QED
    BY <1>12, <2>1, AdministratorsStay DEF CacheQuote, bounded
<1>13. ASSUME NEW r \in Requests,
              CacheBase(r) \/ CacheLive(r) \/ Answer(r) \/ FailRequest(r)
       PROVE  OnlyAdministrators'
  BY <1>13, AdministratorsStay
  DEF CacheBase, CacheLive, Answer, FailRequest, bounded
<1>14. ASSUME NEW r \in Requests, Save(r)
       PROVE  OnlyAdministrators'
  <2>1. /\ refresh' = refresh /\ writes' = writes /\ seeding' = seeding /\ crashes' = crashes
        /\ phase' = phase
    BY <1>14 DEF Save, bounded
  <2>2. ASSUME NEW s \in AdminSymbols, listing'[s] # listing[s]
        PROVE  listing'[s].source = "admin" /\ Listed(s)
    <3>1. /\ Listed(request[r].symbol)
          /\ listing' = [listing EXCEPT ![request[r].symbol].close = request[r].price]
      BY <1>14, <2>2 DEF Save
    <3>2. s = request[r].symbol /\ s \in Symbols
      BY <1>1, <2>2, <3>1
    <3>3. listing[s] \in Listing /\ listing'[s] = [listing[s] EXCEPT !.close = request[r].price]
      BY <1>1, <3>1, <3>2 DEF FeedListing, Listed
    <3>4. listing[s].source = "admin"
      BY <3>3 DEF OnlyAdministrators, Listing
    <3>5. QED
      BY <3>1, <3>2, <3>3, <3>4 DEF Listing
  <2>3. QED
    BY <2>1, <2>2, AdministratorsStay
<1>15. ASSUME NEW s \in Symbols, NEW r \in Requests, Create(r, s) \/ Update(r, s)
       PROVE  OnlyAdministrators'
  <2>1. /\ refresh' = refresh /\ writes' = writes /\ seeding' = seeding /\ crashes' = crashes
        /\ phase' = phase /\ phase = "running"
    BY <1>15 DEF Create, Update, bounded
  <2>2. ASSUME NEW x \in AdminSymbols, listing'[x] # listing[x]
        PROVE  listing'[x].source = "admin"
    <3>1. PICK n \in Prices : listing' = [listing EXCEPT ![s] = [source |-> "admin", close |-> n]]
      BY <1>15, <2>2 DEF Create, Update
    <3>2. QED
      BY <1>1, <2>2, <3>1
  <2>3. QED
    BY <2>1, <2>2, AdministratorsStay
<1>16. ASSUME NEW s \in Symbols, Delete(s)
       PROVE  OnlyAdministrators'
  <2>1. \A x \in AdminSymbols : listing'[x] = listing[x] \/ listing'[x] = NotListed
    BY <1>1, <1>16 DEF Delete
  <2>2. QED
    BY <1>16, <2>1, AdministratorsStay DEF Delete, workers, bounded
<1>17. CASE PassTime \/ \E s \in Symbols : ExpireBase(s) \/ ExpireLive(s)
  BY <1>17, AdministratorsStay
  DEF PassTime, ExpireBase, ExpireLive, workers, bounded
<1>18. QED
  BY <1>2, <1>3, <1>4, <1>5, <1>6, <1>7, <1>8, <1>9, <1>10, <1>11, <1>12, <1>13, <1>14, <1>15,
     <1>16, <1>17, NoTicks, FeedSteps
  DEF Startup, RefreshAccess, RequestAccess

\* The keys still follow the listing when a step only deletes stocks and keys of
\* administrators, or makes a key older.
LEMMA KeysFollowOn ==
    ASSUME KeysFollow, request' = request,
           \A s \in AdminSymbols :
               /\ listing'[s] = listing[s] \/ listing'[s] = NotListed
               /\ Set(base'[s]) => Set(base[s]) /\ base'[s].from = base[s].from
               /\ Set(live'[s]) => Set(live[s]) /\ live'[s].from = live[s].from
    PROVE  KeysFollow'
<1> SUFFICES ASSUME NEW s \in AdminSymbols, listing'[s] # NotListed
             PROVE  /\ \A r \in Requests :
                           request'[r].stage \in {"base", "live"} /\ request'[r].symbol = s =>
                               request'[r].price = listing'[s].close
                    /\ Set(base'[s]) /\ ~AtStage(s, {"base"})' =>
                           base'[s].from = listing'[s].close
                    /\ Set(live'[s]) /\ ~AtStage(s, {"base", "live"})' =>
                           live'[s].from = listing'[s].close
  BY DEF KeysFollow, Listed, Set
<1>1. listing'[s] = listing[s] /\ Listed(s)
  BY DEF Listed
<1>2. /\ AtStage(s, {"base"})' <=> AtStage(s, {"base"})
      /\ AtStage(s, {"base", "live"})' <=> AtStage(s, {"base", "live"})
  BY DEF AtStage
<1>3. QED
  BY <1>1, <1>2 DEF KeysFollow

\* With one request at a time, what it is about to write is all that is missing.
LEMMA OneRequest ==
    ASSUME NoRace, NEW r \in Requests, NEW s, NEW stages
    PROVE  /\ AtStage(s, stages) <=> request[r].stage \in stages /\ request[r].symbol = s
           /\ AtStage(s, stages)' <=> request'[r].stage \in stages /\ request'[r].symbol = s
  BY DEF NoRace, AtStage

LEMMA RequestsFollow ==
    ASSUME NoRace, FeedTypes, OnlyAdministrators, KeysFollow,
           NEW r \in Requests, RequestAccess(r) \/ Answer(r)
    PROVE  KeysFollow'
<1> DEFINE q == request[r]
           c == request'[r]
<1>1. AdminSymbols \subseteq Symbols /\ listing \in [Symbols -> FeedListing]
      /\ base \in [Symbols -> FeedKey] /\ live \in [Symbols -> FeedKey]
      /\ request \in [Requests -> OpenRequest \cup {Idle}]
  BY ConstantTypes DEF FeedTypes
<1>2. q \in OpenRequest
  BY RequestStages DEF RequestAccess, Save, CacheBase, CacheLive, Answer
<1>3. q.symbol \in Symbols /\ q.price \in Prices
  BY <1>2 DEF OpenRequest
<1>4. SUFFICES ASSUME NEW s \in AdminSymbols, listing'[s] # NotListed
               PROVE  /\ c.stage \in {"base", "live"} /\ c.symbol = s => c.price = listing'[s].close
                      /\ Set(base'[s]) /\ ~(c.stage = "base" /\ c.symbol = s) =>
                             base'[s].from = listing'[s].close
                      /\ Set(live'[s]) /\ ~(c.stage \in {"base", "live"} /\ c.symbol = s) =>
                             live'[s].from = listing'[s].close
  <2>1. \A x \in Requests : x = r
    BY DEF NoRace
  <2>2. QED
    BY <1>4, <2>1, OneRequest DEF KeysFollow, Listed, Set
<1>5. Listed(s) =>
          /\ q.stage \in {"base", "live"} /\ q.symbol = s => q.price = listing[s].close
          /\ Set(base[s]) /\ ~(q.stage = "base" /\ q.symbol = s) => base[s].from = listing[s].close
          /\ Set(live[s]) /\ ~(q.stage \in {"base", "live"} /\ q.symbol = s) =>
                 live[s].from = listing[s].close
  BY OneRequest DEF KeysFollow
<1>6. ASSUME NEW stage \in {"base", "live", "answer"},
             request' = [request EXCEPT ![r].stage = stage]
      PROVE  c.stage = stage /\ c.symbol = q.symbol /\ c.price = q.price
  <2>1. c = [q EXCEPT !.stage = stage]
    BY <1>1, <1>6
  <2>2. QED
    BY <1>2, <2>1 DEF OpenRequest
<1>7. CASE Save(r)
  <2>1. base' = base /\ live' = live /\ q.stage = "saving"
    BY <1>7 DEF Save, cacheKeys
  <2>2. CASE Listed(q.symbol)
    <3>1. /\ listing' = [listing EXCEPT ![q.symbol].close = q.price]
          /\ c.stage = "base" /\ c.symbol = q.symbol /\ c.price = q.price
      BY <1>6, <1>7, <2>2 DEF Save
    <3>2. CASE s = q.symbol
      <4>1. listing[s] \in Listing /\ listing'[s] = [listing[s] EXCEPT !.close = q.price]
        BY <1>1, <1>3, <2>2, <3>1, <3>2 DEF FeedListing, Listed
      <4>2. listing'[s].close = q.price
        BY <4>1 DEF Listing
      <4>3. QED
        BY <3>1, <3>2, <4>2
    <3>3. CASE s # q.symbol
      <4>1. listing'[s] = listing[s] /\ Listed(s)
        BY <1>1, <1>4, <3>1, <3>3 DEF Listed
      <4>2. QED
        BY <1>5, <2>1, <3>1, <3>3, <4>1
    <3>4. QED
      BY <3>2, <3>3
  <2>3. CASE ~Listed(q.symbol)
    <3>1. listing' = listing /\ c = Idle
      BY <1>1, <1>7, <2>3 DEF Save
    <3>2. Listed(s) /\ c.stage = "idle"
      BY <1>4, <3>1 DEF Listed, Idle
    <3>3. QED
      BY <1>5, <2>1, <3>1, <3>2
  <2>4. QED
    BY <2>2, <2>3
<1>8. CASE CacheBase(r)
  <2>1. /\ listing' = listing /\ live' = live /\ q.stage = "base"
        /\ base' = [base EXCEPT ![q.symbol] = SetKey(q.price, Day)]
        /\ c.stage = "live" /\ c.symbol = q.symbol /\ c.price = q.price
    BY <1>6, <1>8 DEF CacheBase
  <2>2. Listed(s)
    BY <1>4, <2>1 DEF Listed
  <2>3. base'[q.symbol].from = q.price
    BY <1>1, <1>3, <2>1 DEF SetKey
  <2>4. s # q.symbol => base'[s] = base[s]
    BY <1>1, <2>1
  <2>5. QED
    BY <1>5, <2>1, <2>2, <2>3, <2>4
<1>9. CASE CacheLive(r)
  <2>1. /\ listing' = listing /\ base' = base /\ q.stage = "live"
        /\ live' = [live EXCEPT ![q.symbol] = SetKey(q.price, Day)]
        /\ c.stage = "answer" /\ c.symbol = q.symbol /\ c.price = q.price
    BY <1>6, <1>9 DEF CacheLive
  <2>2. Listed(s)
    BY <1>4, <2>1 DEF Listed
  <2>3. live'[q.symbol].from = q.price
    BY <1>1, <1>3, <2>1 DEF SetKey
  <2>4. s # q.symbol => live'[s] = live[s]
    BY <1>1, <2>1
  <2>5. QED
    BY <1>5, <2>1, <2>2, <2>3, <2>4
<1>10. CASE Answer(r)
  <2>1. /\ listing' = listing /\ base' = base /\ live' = live
        /\ q.stage = "answer" /\ c = Idle
    BY <1>1, <1>10 DEF Answer, cacheKeys
  <2>2. Listed(s) /\ c.stage = "idle"
    BY <1>4, <2>1 DEF Listed, Idle
  <2>3. QED
    BY <1>5, <2>1, <2>2
<1>11. QED
  BY <1>7, <1>8, <1>9, <1>10 DEF RequestAccess

LEMMA NewRequestsFollow ==
    ASSUME NoRace, FeedTypes, KeysFollow,
           NEW r \in Requests, NEW x \in Symbols, Create(r, x) \/ Update(r, x)
    PROVE  KeysFollow'
<1> DEFINE q == request[r]
           c == request'[r]
<1>1. AdminSymbols \subseteq Symbols /\ listing \in [Symbols -> FeedListing]
      /\ request \in [Requests -> OpenRequest \cup {Idle}]
  BY ConstantTypes DEF FeedTypes
<1>2. base' = base /\ live' = live /\ q = Idle /\ q.stage = "idle"
  BY DEF Create, Update, cacheKeys, Idle
<1>3. PICK n \in Prices :
          \/ /\ listing' = [listing EXCEPT ![x] = [source |-> "admin", close |-> n]]
             /\ c = Awaiting("base", x, n)
          \/ listing' = listing /\ c = Awaiting("saving", x, n)
  BY <1>1 DEF Create, Update
<1>4. SUFFICES ASSUME NEW s \in AdminSymbols, listing'[s] # NotListed
               PROVE  /\ c.stage \in {"base", "live"} /\ c.symbol = s => c.price = listing'[s].close
                      /\ Set(base'[s]) /\ ~(c.stage = "base" /\ c.symbol = s) =>
                             base'[s].from = listing'[s].close
                      /\ Set(live'[s]) /\ ~(c.stage \in {"base", "live"} /\ c.symbol = s) =>
                             live'[s].from = listing'[s].close
  <2>1. \A y \in Requests : y = r
    BY DEF NoRace
  <2>2. QED
    BY <1>4, <2>1, OneRequest DEF KeysFollow, Listed, Set
<1>5. Listed(s) =>
          /\ Set(base[s]) => base[s].from = listing[s].close
          /\ Set(live[s]) => live[s].from = listing[s].close
  BY <1>2, OneRequest DEF KeysFollow
<1>6. CASE /\ listing' = [listing EXCEPT ![x] = [source |-> "admin", close |-> n]]
           /\ c = Awaiting("base", x, n)
  <2>1. c.stage = "base" /\ c.symbol = x /\ c.price = n
    BY <1>6 DEF Awaiting
  <2>2. CASE s = x
    BY <1>1, <1>6, <2>1, <2>2
  <2>3. CASE s # x
    <3>1. listing'[s] = listing[s] /\ Listed(s)
      BY <1>1, <1>4, <1>6, <2>3 DEF Listed
    <3>2. QED
      BY <1>2, <1>5, <2>1, <2>3, <3>1
  <2>4. QED
    BY <2>2, <2>3
<1>7. CASE listing' = listing /\ c = Awaiting("saving", x, n)
  <2>1. c.stage = "saving" /\ Listed(s)
    BY <1>4, <1>7 DEF Awaiting, Listed
  <2>2. QED
    BY <1>2, <1>5, <1>7, <2>1
<1>8. QED
  BY <1>3, <1>6, <1>7

LEMMA KeysFollowStep ==
    ASSUME NoRace, FeedTypes, Ticking, OnlyAdministrators, KeysFollow,
           [Next]_vars, failures' = 0, crashes' = 0
    PROVE  KeysFollow'
<1>1. /\ AdminSymbols \subseteq Symbols /\ listing \in [Symbols -> FeedListing]
      /\ base \in [Symbols -> FeedKey] /\ live \in [Symbols -> FeedKey]
      /\ failures \in Nat /\ crashes \in Nat
  BY ConstantTypes DEF FeedTypes
<1>2. CASE UNCHANGED vars
  BY <1>2, KeysFollowOn DEF vars, cacheKeys, workers
<1>3. ~Crash /\ ~Fail
  BY <1>1 DEF Crash, Fail
<1>4. CASE Boot \/ StartServing
  BY <1>4, KeysFollowOn DEF Boot, StartServing, cacheKeys, workers
<1>5. ASSUME NEW d \in seeding, SeedPrice(d)
      PROVE  KeysFollow'
  <2>1. listing' = listing /\ request' = request /\ crashes = 0
    BY <1>5 DEF SeedPrice, workers, bounded
  <2>2. d.symbol \notin AdminSymbols
    BY <2>1 DEF OnlyAdministrators
  <2>3. /\ base' = base \/ base' = [base EXCEPT ![d.symbol] = SetKey(d.close, Forever)]
        /\ live' = live \/ live' = [live EXCEPT ![d.symbol] = SetKey(d.close, LiveTtl)]
    BY <1>5 DEF SeedPrice
  <2>4. \A s \in AdminSymbols : base'[s] = base[s] /\ live'[s] = live[s]
    BY <1>1, <2>2, <2>3
  <2>5. QED
    BY <2>1, <2>4, KeysFollowOn
<1>6. CASE StartRefresh \/ FetchQuotes \/ AbandonRefresh \/ EndRefresh
  BY <1>6, KeysFollowOn
  DEF StartRefresh, FetchQuotes, AbandonRefresh, EndRefresh, cacheKeys
<1>7. CASE Persist
  <2>1. base' = base /\ live' = live /\ request' = request /\ refresh.stage = "persisting"
        /\ \A s \in Symbols : s \notin refresh.quotes => listing'[s] = listing[s]
    BY <1>7 DEF Persist, cacheKeys
  <2>2. \A s \in AdminSymbols : listing'[s] = listing[s]
    BY <1>1, <2>1 DEF OnlyAdministrators
  <2>3. QED
    BY <2>1, <2>2, KeysFollowOn
<1>8. ASSUME NEW w \in writes, CacheQuote(w)
      PROVE  KeysFollow'
  <2>1. listing' = listing /\ request' = request
    BY <1>8 DEF CacheQuote
  <2>2. w.symbol \notin AdminSymbols
    BY DEF OnlyAdministrators
  <2>3. /\ base' = base \/ base' = [base EXCEPT ![w.symbol] = SetKey(w.price, Day)]
        /\ live' = live \/ live' = [live EXCEPT ![w.symbol] = SetKey(w.price, Day)]
    BY <1>8 DEF CacheQuote
  <2>4. \A s \in AdminSymbols : base'[s] = base[s] /\ live'[s] = live[s]
    BY <1>1, <2>2, <2>3
  <2>5. QED
    BY <2>1, <2>4, KeysFollowOn
<1>9. ASSUME NEW s \in Symbols, Delete(s)
      PROVE  KeysFollow'
  <2>1. base' = base /\ live' = live /\ request' = request
        /\ listing' = [listing EXCEPT ![s] = NotListed]
    BY <1>9 DEF Delete, cacheKeys, workers
  <2>2. \A x \in AdminSymbols : listing'[x] = listing[x] \/ listing'[x] = NotListed
    BY <1>1, <2>1
  <2>3. QED
    BY <2>1, <2>2, KeysFollowOn
<1>10. CASE PassTime
  <2>1. listing' = listing /\ request' = request
    BY <1>10 DEF PassTime
  <2>2. \A s \in AdminSymbols : base'[s] = Older(base[s]) /\ live'[s] = Older(live[s])
    BY <1>1, <1>10 DEF PassTime
  <2>3. \A s \in AdminSymbols : base[s] \in FeedKey /\ live[s] \in FeedKey
    BY <1>1
  <2>4. QED
    BY <2>1, <2>2, <2>3, OlderPrice, KeysFollowOn
<1>11. ASSUME NEW s \in Symbols, ExpireBase(s) \/ ExpireLive(s)
       PROVE  KeysFollow'
  <2>1. /\ listing' = listing /\ request' = request
        /\ base' = base \/ base' = [base EXCEPT ![s] = NoKey]
        /\ live' = live \/ live' = [live EXCEPT ![s] = NoKey]
    BY <1>11 DEF ExpireBase, ExpireLive, workers
  <2>2. \A x \in AdminSymbols : /\ base'[x] = base[x] \/ base'[x] = NoKey
                                /\ live'[x] = live[x] \/ live'[x] = NoKey
    BY <1>1, <2>1
  <2>3. QED
    BY <2>1, <2>2, KeysFollowOn DEF Set
<1>12. CASE \E r \in Requests : RequestAccess(r) \/ Answer(r)
  BY <1>12, RequestsFollow
<1>13. CASE \E r \in Requests, s \in Symbols : Create(r, s) \/ Update(r, s)
  BY <1>13, NewRequestsFollow
<1>14. QED
  BY <1>2, <1>3, <1>4, <1>5, <1>6, <1>7, <1>8, <1>9, <1>10, <1>11, <1>12, <1>13, NoTicks, FeedSteps
  DEF Startup, RefreshAccess, FailRefresh, FailRequest

LEMMA AdminFeedInit ==
    ASSUME NoRace
    PROVE  Init => AdminFeedInvariant
<1> SUFFICES ASSUME Init PROVE AdminFeedInvariant
  OBVIOUS
<1>1. FeedTypes /\ Ticking
  BY FeedInit DEF FeedInvariant
<1>2. \A s \in AdminSymbols : listing[s] = NotListed
  BY ConstantTypes DEF Init
<1>3. refresh.stage = "idle" /\ writes = {} /\ seeding = {}
  BY DEF Init, Idle
<1>4. OnlyAdministrators
  BY <1>2, <1>3 DEF OnlyAdministrators, Listed, NotListed
<1>5. KeysFollow
  BY <1>2 DEF KeysFollow, Listed
<1>6. QED
  BY <1>1, <1>4, <1>5 DEF AdminFeedInvariant

LEMMA AdminFeedStep ==
    ASSUME NoRace
    PROVE  AdminFeedInvariant /\ [Next]_vars => AdminFeedInvariant'
<1> SUFFICES ASSUME AdminFeedInvariant, [Next]_vars
             PROVE  AdminFeedInvariant'
  OBVIOUS
<1>1. FeedTypes /\ Ticking /\ OnlyAdministrators
  BY DEF AdminFeedInvariant
<1>2. FeedTypes' /\ Ticking' /\ OnlyAdministrators'
  BY <1>1, FeedTypesStep, TickingSteps, OnlyAdministratorsStep
<1>3. ASSUME failures' = 0, crashes' = 0
      PROVE  KeysFollow'
  <2>1. failures \in Nat /\ crashes \in Nat
    BY <1>1, ConstantTypes DEF FeedTypes
  <2>2. /\ failures' = failures \/ failures' = failures + 1
        /\ crashes' = crashes \/ crashes' = crashes + 1
    BY DEF Next, Silent, vars, bounded, Fail, Startup, Boot,
           StartServing, SeedPrice, Crash, FireTick, TickAccess,
           TickReadsBase, TickReadsLive, TickWritesLive, EndTick,
           FailTick, StartRefresh, RefreshAccess, FetchQuotes,
           AbandonRefresh, Persist, EndRefresh, FailRefresh,
           CacheQuote, RequestAccess, Save, CacheBase, CacheLive,
           Answer, FailRequest, Create, Update, Delete,
           PassTime, ExpireBase, ExpireLive
  <2>3. failures = 0 /\ crashes = 0
    BY <1>3, <2>1, <2>2
  <2>4. KeysFollow
    BY <2>3 DEF AdminFeedInvariant
  <2>5. QED
    BY <1>1, <1>3, <2>4, KeysFollowStep
<1>4. QED
  BY <1>2, <1>3 DEF AdminFeedInvariant

LEMMA AdminFeedPrices ==
    ASSUME NoRace
    PROVE  AdminFeedInvariant => AdminPricesStand
<1> SUFFICES ASSUME AdminFeedInvariant, Quiet, NEW s \in AdminSymbols, Listed(s)
             PROVE  /\ Set(base[s]) => base[s].from = listing[s].close
                    /\ Set(live[s]) => live[s].from = listing[s].close
  BY DEF AdminPricesStand
<1>1. failures = 0 /\ crashes = 0 /\ \A r \in Requests : request[r].stage = "idle"
  BY DEF Quiet, Idle
<1>2. KeysFollow
  BY <1>1 DEF AdminFeedInvariant
<1>3. ~AtStage(s, {"base"}) /\ ~AtStage(s, {"base", "live"})
  BY <1>1 DEF AtStage
<1>4. QED
  BY <1>2, <1>3 DEF KeysFollow

\* Where the ticks are disabled and administrators' requests do not overlap, the
\* price an administrator set stands, whatever refreshes, deletions and new listings
\* under the same symbol go on beside: only ticks and a second request can undo it.
THEOREM FeedAdminPricesStand == NoRace => (Spec => []AdminPricesStand)
<1> SUFFICES ASSUME NoRace
             PROVE  Spec => []AdminPricesStand
  OBVIOUS
<1>1. QED
  BY AdminFeedInit, AdminFeedStep, AdminFeedPrices, PTL DEF Spec
==============================================================================
