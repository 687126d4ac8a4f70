--------------------------- MODULE PortfolioProofs ---------------------------
(***************************************************************************)
(* Every rate a summary uses is of its time, and all positions of one      *)
(* currency are valued at one rate unless summaries overlap: for any       *)
(* number of currencies, rates, requests, positions and faults, and        *)
(* without any fairness.                                                   *)
(***************************************************************************)
EXTENDS Portfolio, FiniteSetTheorems, TLAPS

Singles == {{}} \cup {{s} : s \in Symbols}

Anchors == {Idle} \cup [stage: {"quote", "base", "check", "live"}, todo: SUBSET Symbols,
                        current: Singles]

Ticks == {Idle} \cup [stage: {"base", "live", "write"}, todo: SUBSET Symbols, current: Singles]

FeedTypes ==
    /\ base \subseteq Symbols
    /\ live \in [Symbols -> Found]
    /\ anchor \in Anchors
    /\ tick \in Ticks
    /\ faults \in 0..MaxFaults

Used == [Symbols -> SUBSET Rates]

Loading == [stage: {"loading"}]

Valuing == [stage: {"valuing"}, todo: Seq(Symbols), used: Used, shared: BOOLEAN]

Asking == [stage: {"asking"}, todo: Seq(Symbols) \ {<<>>}, used: Used, shared: BOOLEAN]

Answered == [stage: {"answered"}, todo: Seq(Symbols) \ {<<>>}, used: Used, shared: BOOLEAN,
             rate: Found]

Summary == {Idle} \cup Loading \cup Valuing \cup Asking \cup Answered

KeptRates == {{}} \cup {{rate} : rate \in Found}

Types ==
    /\ FeedTypes
    /\ rateCache \in [Symbols -> KeptRates]
    /\ summary \in [Requests -> Summary]
    /\ recent \in [Symbols -> SUBSET Found]

\* While a summary is at work, what is kept, used or on its way is recent.
RatesRecent ==
    /\ \A s \in Symbols : RateOf(s) \in recent[s]
    /\ \A r \in AtWork, s \in Symbols :
           summary[r].used[s] \subseteq recent[s] /\ rateCache[s] \subseteq recent[s]
    /\ \A r \in Requests : summary[r].stage = "answered" =>
           summary[r].rate \in recent[Head(summary[r].todo)]

\* A summary that shares rateCache with no other finds there what it has used, and
\* asks only for a rate that it has not used.
Alone(r) ==
    /\ AtWork \subseteq {r}
    /\ \A s \in Symbols : summary[r].used[s] \subseteq rateCache[s]
    /\ summary[r].stage \in {"asking", "answered"} => rateCache[Head(summary[r].todo)] = {}

OneAlone == \A r \in AtWork : ~summary[r].shared => Alone(r)

PortfolioInvariant == Types /\ RatesRecent /\ OneAlone

-----------------------------------------------------------------------------
(* The feed *)

LEMMA AnchorShape ==
    ASSUME anchor \in Anchors, anchor.stage \in {"quote", "base", "check", "live"}
    PROVE  /\ anchor.todo \subseteq Symbols /\ anchor.current \subseteq Symbols
           /\ NextAnchor \in Anchors
           /\ \A stage \in {"quote", "base", "check", "live"} :
                  [anchor EXCEPT !.stage = stage] \in Anchors
<1>1. anchor \in [stage: {"quote", "base", "check", "live"}, todo: SUBSET Symbols,
                  current: Singles]
  BY DEF Anchors, Idle
<1>2. anchor.current \subseteq Symbols
  BY <1>1 DEF Singles
<1>3. {} \in Singles
  BY DEF Singles
<1>4. NextAnchor \in Anchors
  BY <1>1, <1>3 DEF NextAnchor, Anchors
<1>5. \A stage \in {"quote", "base", "check", "live"} :
          [anchor EXCEPT !.stage = stage] \in Anchors
  BY <1>1 DEF Anchors
<1>6. QED
  BY <1>1, <1>2, <1>4, <1>5

LEMMA TickShape ==
    ASSUME tick \in Ticks, tick.stage \in {"base", "live", "write"}
    PROVE  /\ tick.todo \subseteq Symbols /\ tick.current \subseteq Symbols
           /\ NextTick \in Ticks
           /\ [tick EXCEPT !.stage = "write"] \in Ticks
           /\ \A s \in Symbols, stage \in {"base", "live"} : \A current \in {{}, {s}} :
                  [tick EXCEPT !.todo = @ \ {s}, !.stage = stage, !.current = current] \in Ticks
<1>1. tick \in [stage: {"base", "live", "write"}, todo: SUBSET Symbols, current: Singles]
  BY DEF Ticks, Idle
<1>2. tick.current \subseteq Symbols
  BY <1>1 DEF Singles
<1>3. {} \in Singles /\ \A s \in Symbols : {s} \in Singles
  BY DEF Singles
<1>4. NextTick \in Ticks /\ [tick EXCEPT !.stage = "write"] \in Ticks
  BY <1>1, <1>3 DEF NextTick, Ticks
<1>5. ASSUME NEW s \in Symbols, NEW stage \in {"base", "live"}, NEW current \in {{}, {s}}
      PROVE  [tick EXCEPT !.todo = @ \ {s}, !.stage = stage, !.current = current] \in Ticks
  <2>1. current \in Singles /\ tick.todo \ {s} \subseteq Symbols
    BY <1>1, <1>3
  <2>2. QED
    BY <1>1, <2>1 DEF Ticks
<1>6. QED
  BY <1>1, <1>2, <1>4, <1>5

LEMMA StartShape == FetchAnchors \in Anchors /\ Idle \in Anchors /\ Idle \in Ticks
  BY DEF FetchAnchors, Anchors, Ticks, Singles

LEMMA FaultCounts ==
    ASSUME Fault, faults \in 0..MaxFaults
    PROVE  faults' \in 0..MaxFaults
  BY CurrencyFeedAssumption DEF Fault

LEMMA AnchorTypes ==
    ASSUME FeedTypes, StartAnchors \/ AnchorStep \/ FailAnchor
    PROVE  FeedTypes'
<1>1. CASE StartAnchors
  BY <1>1, StartShape DEF StartAnchors, FeedTypes
<1>2. CASE QuoteAnchor
  <2>1. PICK s \in anchor.todo :
            anchor' = [stage |-> "base", todo |-> anchor.todo \ {s}, current |-> {s}]
    BY <1>2 DEF QuoteAnchor
  <2>2. anchor.todo \subseteq Symbols
    BY <1>2, AnchorShape DEF FeedTypes, QuoteAnchor
  <2>3. {s} \in Singles /\ anchor.todo \ {s} \subseteq Symbols
    BY <2>2 DEF Singles
  <2>4. anchor' \in Anchors
    BY <2>1, <2>3 DEF Anchors
  <2>5. QED
    BY <1>2, <2>4 DEF QuoteAnchor, FeedTypes
<1>3. CASE SetBase
  <2>1. anchor.current \subseteq Symbols /\ anchor' \in Anchors
    BY <1>3, AnchorShape DEF FeedTypes, SetBase
  <2>2. QED
    BY <1>3, <2>1 DEF SetBase, FeedTypes
<1>4. CASE CheckLive
  <2>1. anchor' \in Anchors
    BY <1>4, AnchorShape DEF FeedTypes, CheckLive
  <2>2. QED
    BY <1>4, <2>1 DEF CheckLive, FeedTypes
<1>5. CASE SeedLive
  <2>1. anchor.current \subseteq Symbols /\ anchor' \in Anchors
    BY <1>5, AnchorShape DEF FeedTypes, SeedLive
  <2>2. live' \in [Symbols -> Found]
    BY <1>5, <2>1 DEF SeedLive, FeedTypes, Found
  <2>3. QED
    BY <1>5, <2>1, <2>2 DEF SeedLive, FeedTypes
<1>6. CASE EndAnchors
  BY <1>6, StartShape DEF EndAnchors, FeedTypes
<1>7. CASE FailAnchor
  <2>1. anchor' \in Anchors
    BY <1>7, AnchorShape DEF FeedTypes, FailAnchor
  <2>2. QED
    BY <1>7, <2>1, FaultCounts DEF FailAnchor, FeedTypes
<1>8. QED
  BY <1>1, <1>2, <1>3, <1>4, <1>5, <1>6, <1>7 DEF AnchorStep

LEMMA TickTypes ==
    ASSUME FeedTypes, StartTick \/ TickStep \/ FailTick
    PROVE  FeedTypes'
<1>1. CASE StartTick
  <2>1. tick' \in Ticks
    BY <1>1 DEF StartTick, Ticks, Singles
  <2>2. QED
    BY <1>1, <2>1 DEF StartTick, FeedTypes
<1>2. CASE TickReadsBase
  <2>1. tick.todo \subseteq Symbols
    BY <1>2, TickShape DEF FeedTypes, TickReadsBase
  <2>2. PICK s \in tick.todo :
            tick' = [tick EXCEPT !.todo = @ \ {s},
                                 !.stage = IF s \in base THEN "live" ELSE "base",
                                 !.current = IF s \in base THEN {s} ELSE {}]
    BY <1>2 DEF TickReadsBase
  <2>3. tick' \in Ticks
    <3>1. CASE s \in base
      BY <1>2, <2>1, <2>2, <3>1, TickShape DEF FeedTypes, TickReadsBase
    <3>2. CASE s \notin base
      BY <1>2, <2>1, <2>2, <3>2, TickShape DEF FeedTypes, TickReadsBase
    <3>3. QED
      BY <3>1, <3>2
  <2>4. QED
    BY <1>2, <2>3 DEF TickReadsBase, FeedTypes
<1>3. CASE TickReadsLive
  <2>1. tick' \in Ticks
    BY <1>3, TickShape DEF FeedTypes, TickReadsLive
  <2>2. QED
    BY <1>3, <2>1 DEF TickReadsLive, FeedTypes
<1>4. CASE TickWritesLive
  <2>1. tick.current \subseteq Symbols /\ tick' \in Ticks
    BY <1>4, TickShape DEF FeedTypes, TickWritesLive
  <2>2. live' \in [Symbols -> Found]
    BY <1>4, <2>1 DEF TickWritesLive, FeedTypes, Found
  <2>3. QED
    BY <1>4, <2>1, <2>2 DEF TickWritesLive, FeedTypes
<1>5. CASE EndTick
  BY <1>5, StartShape DEF EndTick, FeedTypes
<1>6. CASE FailTick
  BY <1>6, StartShape, FaultCounts DEF FailTick, FeedTypes
<1>7. QED
  BY <1>1, <1>2, <1>3, <1>4, <1>5, <1>6 DEF TickStep

LEMMA FeedKeepsTypes ==
    ASSUME FeedTypes, FeedNext \/ Restart
    PROVE  FeedTypes'
<1>1. ASSUME NEW s \in Symbols, Lapse(s)
      PROVE  FeedTypes'
  <2>1. live' \in [Symbols -> Found]
    BY <1>1 DEF Lapse, FeedTypes, Found
  <2>2. QED
    BY <1>1, <2>1 DEF Lapse, FeedTypes
<1>2. CASE Restart
  BY <1>2, StartShape, FaultCounts DEF Restart, FeedTypes
<1>3. QED
  BY <1>1, <1>2, AnchorTypes, TickTypes DEF FeedNext

-----------------------------------------------------------------------------
(* Summaries *)

WorkStages == {"valuing", "asking", "answered"}

LEMMA StageShapes ==
    ASSUME NEW q \in Summary
    PROVE  /\ q.stage \in WorkStages =>
                  q.todo \in Seq(Symbols) /\ q.used \in Used /\ q.shared \in BOOLEAN
           /\ q.stage = "loading" => q \in Loading
           /\ q.stage = "valuing" => q \in Valuing
           /\ q.stage = "asking" => q \in Asking
           /\ q.stage = "answered" => q \in Answered
           /\ q.stage \in {"idle", "loading", "valuing", "asking", "answered"}
<1>1. CASE q = Idle
  BY <1>1 DEF Idle, WorkStages
<1>2. CASE q \in Loading
  BY <1>2 DEF Loading, WorkStages
<1>3. CASE q \in Valuing
  BY <1>3 DEF Valuing, WorkStages
<1>4. CASE q \in Asking
  BY <1>4 DEF Asking, WorkStages
<1>5. CASE q \in Answered
  BY <1>5 DEF Answered, WorkStages
<1>6. QED
  BY <1>1, <1>2, <1>3, <1>4, <1>5 DEF Summary

LEMMA NextPosition ==
    ASSUME NEW todo \in Seq(Symbols), todo # <<>>
    PROVE  Head(todo) \in Symbols /\ Tail(todo) \in Seq(Symbols)
  OBVIOUS

\* A position valued at a rate adds this rate to those used.
LEMMA ValuedShape ==
    ASSUME NEW q, q.todo \in Seq(Symbols), q.todo # <<>>, q.used \in Used,
           q.shared \in BOOLEAN, NEW rate \in Found
    PROVE  /\ Valued(q, rate) \in Summary
           /\ Valued(q, rate).stage \notin {"asking", "answered"}
           /\ Valued(q, rate).stage \in WorkStages =>
                  /\ Valued(q, rate).shared = q.shared
                  /\ Valued(q, rate).used = [q.used EXCEPT ![Head(q.todo)] = @ \cup {rate}]
<1>1. CASE rate = Missing
  BY <1>1 DEF Valued, Idle, Summary, WorkStages
<1>2. CASE rate # Missing
  <2> DEFINE used == [q.used EXCEPT ![Head(q.todo)] = @ \cup {rate}]
  <2>1. rate \in Rates
    BY <1>2 DEF Found
  <2>2. Head(q.todo) \in Symbols /\ Tail(q.todo) \in Seq(Symbols)
    BY NextPosition
  <2>3. used \in Used
    BY <2>1, <2>2 DEF Used
  <2>4. Valued(q, rate) = [stage |-> "valuing", todo |-> Tail(q.todo), shared |-> q.shared,
                           used |-> used]
    BY <1>2 DEF Valued
  <2> HIDE DEF used
  <2>5. Valued(q, rate) \in Valuing
    BY <2>2, <2>3, <2>4 DEF Valuing
  <2>6. QED
    BY <2>4, <2>5 DEF Summary, used
<1>3. QED
  BY <1>1, <1>2

LEMMA AtWorkMeans ==
    \A r \in Requests : r \in AtWork <=> summary[r].stage \in WorkStages
  BY DEF AtWork, WorkStages

\* What a step leaves in the summaries and in rateCache was recent before it.
RecentBefore ==
    /\ \A r \in Requests, s \in Symbols : summary'[r].stage \in WorkStages =>
           summary'[r].used[s] \subseteq recent[s] /\ rateCache'[s] \subseteq recent[s]
    /\ \A r \in Requests : summary'[r].stage = "answered" =>
           summary'[r].rate \in recent[Head(summary'[r].todo)]

\* The rates remembered are at least those before, while a summary is at work.
LEMMA Remembered ==
    ASSUME Types, RatesRecent, Remember, FeedTypes', RecentBefore,
           rateCache' \in [Symbols -> KeptRates], summary' \in [Requests -> Summary]
    PROVE  Types' /\ RatesRecent'
<1>1. \A s \in Symbols : RateOf(s)' \in Found
  BY DEF FeedTypes, RateOf, Found
<1>2. /\ recent' \in [Symbols -> SUBSET Found]
      /\ \A s \in Symbols : RateOf(s)' \in recent'[s]
  BY <1>1 DEF Remember, Types
<1>3. ASSUME NEW r \in Requests, summary'[r].stage \in WorkStages, NEW s \in Symbols
      PROVE  recent[s] \subseteq recent'[s]
  <2>1. summary' # [q \in Requests |-> Idle]
    <3>1. summary'[r] # Idle
      BY <1>3 DEF WorkStages, Idle
    <3>2. QED
      BY <3>1
  <2>2. QED
    BY <2>1 DEF Remember
<1>4. Types'
  BY <1>2 DEF Types
<1>5. ASSUME NEW r \in Requests, summary'[r].stage \in WorkStages, NEW s \in Symbols
      PROVE  summary'[r].used[s] \subseteq recent'[s] /\ rateCache'[s] \subseteq recent'[s]
  BY <1>3, <1>5 DEF RecentBefore
<1>6. ASSUME NEW r \in Requests, summary'[r].stage = "answered"
      PROVE  summary'[r].rate \in recent'[Head(summary'[r].todo)]
  <2>1. summary'[r] \in Answered
    BY <1>6, StageShapes
  <2>2. Head(summary'[r].todo) \in Symbols
    BY <2>1, NextPosition DEF Answered
  <2>3. summary'[r].stage \in WorkStages
    BY <1>6 DEF WorkStages
  <2>4. QED
    BY <1>3, <1>6, <2>2, <2>3 DEF RecentBefore
<1>7. \A r \in AtWork' : r \in Requests /\ summary'[r].stage \in WorkStages
  BY DEF AtWork, WorkStages
<1>8. RatesRecent'
  BY <1>2, <1>5, <1>6, <1>7 DEF RatesRecent
<1>9. QED
  BY <1>4, <1>8

\* What a step of the requests has to keep; Remember does the rest.
RequestsKept ==
    /\ rateCache' \in [Symbols -> KeptRates]
    /\ summary' \in [Requests -> Summary]
    /\ RecentBefore
    /\ OneAlone'

LEMMA UnchangedKept ==
    ASSUME PortfolioInvariant, UNCHANGED <<rateCache, summary>>
    PROVE  RequestsKept
<1>1. Types /\ RatesRecent /\ OneAlone
  BY DEF PortfolioInvariant
<1>2. RecentBefore
  BY <1>1, AtWorkMeans DEF RecentBefore, RatesRecent
<1>3. OneAlone'
  BY <1>1 DEF OneAlone, Alone, AtWork
<1>4. QED
  BY <1>1, <1>2, <1>3 DEF RequestsKept, Types

LEMMA IdleKept ==
    ASSUME rateCache' = NoRates, summary' = [r \in Requests |-> Idle]
    PROVE  RequestsKept
<1>1. rateCache' \in [Symbols -> KeptRates] /\ summary' \in [Requests -> Summary]
  BY DEF NoRates, KeptRates, Summary
<1>2. \A r \in Requests : summary'[r].stage = "idle"
  BY DEF Idle
<1>3. RecentBefore
  BY <1>2 DEF RecentBefore, WorkStages
<1>4. OneAlone'
  BY <1>2 DEF OneAlone, AtWork
<1>5. QED
  BY <1>1, <1>3, <1>4 DEF RequestsKept

\* One summary goes on with rates that it used already or that are kept, asks for
\* one that is not, or has the answer; or it begins to load, or ends.
LEMMA OneGoesOn ==
    ASSUME PortfolioInvariant, NEW r \in Requests, NEW q \in Summary,
           Set(r, q), UNCHANGED rateCache,
           q.stage \in WorkStages =>
               /\ r \in AtWork /\ q.shared = summary[r].shared
               /\ \A s \in Symbols : q.used[s] \subseteq summary[r].used[s] \cup rateCache[s],
           q.stage = "answered" => q.rate \in recent[Head(q.todo)],
           q.stage \in {"asking", "answered"} /\ ~q.shared => rateCache[Head(q.todo)] = {}
    PROVE  RequestsKept
<1>1. Types /\ RatesRecent /\ OneAlone
  BY DEF PortfolioInvariant
<1>2. /\ summary' \in [Requests -> Summary] /\ summary'[r] = q
      /\ \A x \in Requests \ {r} : summary'[x] = summary[x]
  BY <1>1 DEF Set, Types
<1>3. rateCache' \in [Symbols -> KeptRates] /\ rateCache' = rateCache
  BY <1>1 DEF Types
<1>4. RecentBefore
  <2>1. ASSUME NEW x \in Requests, NEW s \in Symbols, summary'[x].stage \in WorkStages
        PROVE  summary'[x].used[s] \subseteq recent[s] /\ rateCache'[s] \subseteq recent[s]
    <3>1. CASE x = r
      BY <1>1, <1>2, <1>3, <2>1, <3>1 DEF RatesRecent
    <3>2. CASE x # r
      <4>1. x \in AtWork /\ summary'[x] = summary[x]
        BY <1>2, <2>1, <3>2, AtWorkMeans
      <4>2. QED
        BY <1>1, <1>3, <4>1 DEF RatesRecent
    <3>3. QED
      BY <3>1, <3>2
  <2>2. ASSUME NEW x \in Requests, summary'[x].stage = "answered"
        PROVE  summary'[x].rate \in recent[Head(summary'[x].todo)]
    <3>1. CASE x = r
      BY <1>2, <2>2, <3>1
    <3>2. CASE x # r
      BY <1>1, <1>2, <2>2, <3>2 DEF RatesRecent
    <3>3. QED
      BY <3>1, <3>2
  <2>3. QED
    BY <2>1, <2>2 DEF RecentBefore
<1>5. AtWork' \subseteq AtWork
  BY <1>2, AtWorkMeans DEF AtWork, WorkStages
<1>6. ASSUME NEW x \in AtWork', ~summary'[x].shared
      PROVE  Alone(x)'
  <2>1. x \in Requests /\ x \in AtWork /\ summary'[x].stage \in WorkStages
    BY <1>5, <1>6 DEF AtWork, WorkStages
  <2>2. ~summary[x].shared
    BY <1>2, <1>6, <2>1
  <2>3. /\ AtWork \subseteq {x}
        /\ \A s \in Symbols : summary[x].used[s] \subseteq rateCache[s]
        /\ summary[x].stage \in {"asking", "answered"} =>
               rateCache[Head(summary[x].todo)] = {}
    BY <1>1, <2>1, <2>2 DEF OneAlone, Alone
  <2>4. \A s \in Symbols : summary'[x].used[s] \subseteq rateCache[s]
    BY <1>2, <2>1, <2>3
  <2>5. summary'[x].stage \in {"asking", "answered"} => rateCache[Head(summary'[x].todo)] = {}
    BY <1>2, <1>6, <2>1, <2>3
  <2>6. QED
    BY <1>3, <1>5, <2>3, <2>4, <2>5 DEF Alone
<1>7. QED
  BY <1>2, <1>3, <1>4, <1>6 DEF RequestsKept, OneAlone

LEMMA AskKept ==
    ASSUME PortfolioInvariant, NEW r \in Requests, Ask(r)
    PROVE  RequestsKept
<1> DEFINE q == [stage |-> "loading"]
<1>1. q \in Summary /\ q.stage = "loading"
  BY DEF Summary, Loading
<1>2. Set(r, q) /\ UNCHANGED rateCache
  BY DEF Ask
<1> HIDE DEF q
<1>3. QED
  BY <1>1, <1>2, OneGoesOn DEF WorkStages

LEMMA EndKept ==
    ASSUME PortfolioInvariant, NEW r \in Requests, Set(r, Idle), UNCHANGED rateCache
    PROVE  RequestsKept
<1>1. Idle \in Summary /\ Idle.stage = "idle"
  BY DEF Summary, Idle
<1>2. QED
  BY <1>1, OneGoesOn DEF WorkStages

\* rateCache is cleared and all summaries at work, if any, share it from now on.
LEMMA BeginKept ==
    ASSUME PortfolioInvariant, NEW r \in Requests, NEW positions \in Holdings,
           Begin(r, positions)
    PROVE  RequestsKept
<1> DEFINE q == Loaded(positions)
<1>1. Types /\ RatesRecent /\ OneAlone
  BY DEF PortfolioInvariant
<1>2. /\ q \in Valuing /\ q.stage = "valuing" /\ q.used = NoRates
      /\ q.shared = (AtWork # {})
  <2>1. positions \in Seq(Symbols) /\ NoRates \in Used
    BY PortfolioAssumption DEF NoRates, Used
  <2>2. QED
    BY <2>1 DEF Loaded, Valuing
<1> HIDE DEF q
<1>3. /\ summary[r].stage = "loading" /\ rateCache' = NoRates
      /\ summary' = [x \in Requests |->
                       CASE x = r -> q
                         [] x \in AtWork -> [summary[x] EXCEPT !.shared = TRUE]
                         [] OTHER -> summary[x]]
  BY DEF Begin, q
<1>4. r \notin AtWork
  BY <1>3, AtWorkMeans DEF WorkStages
<1>5. summary'[r] = q
  BY <1>3, <1>4
<1>6. \A x \in AtWork : summary'[x] = [summary[x] EXCEPT !.shared = TRUE]
  BY <1>3, <1>4 DEF AtWork
<1>7. \A x \in Requests \ {r} : x \notin AtWork => summary'[x] = summary[x]
  BY <1>3
<1>8. ASSUME NEW x \in AtWork
      PROVE  /\ summary'[x] \in Summary /\ summary'[x].shared
             /\ summary'[x].stage = summary[x].stage
             /\ summary'[x].used = summary[x].used /\ summary'[x].todo = summary[x].todo
             /\ summary[x].stage = "answered" => summary'[x].rate = summary[x].rate
  <2>1. x \in Requests /\ summary[x] \in Summary /\ summary[x].stage \in WorkStages
    BY <1>1, AtWorkMeans DEF Types, AtWork
  <2>2. summary[x] \in Valuing \cup Asking \cup Answered
    BY <2>1, StageShapes DEF WorkStages
  <2>3. CASE summary[x] \in Valuing
    <3>1. summary'[x] = [summary[x] EXCEPT !.shared = TRUE]
      BY <1>6
    <3>2. /\ summary'[x] \in Valuing /\ summary'[x].shared
          /\ summary'[x].stage = summary[x].stage
          /\ summary'[x].used = summary[x].used /\ summary'[x].todo = summary[x].todo
      BY <2>3, <3>1 DEF Valuing
    <3>3. summary[x].stage # "answered"
      BY <2>3 DEF Valuing
    <3>4. QED
      BY <3>2, <3>3 DEF Summary
  <2>4. CASE summary[x] \in Asking
    <3>1. summary'[x] = [summary[x] EXCEPT !.shared = TRUE]
      BY <1>6
    <3>2. /\ summary'[x] \in Asking /\ summary'[x].shared
          /\ summary'[x].stage = summary[x].stage
          /\ summary'[x].used = summary[x].used /\ summary'[x].todo = summary[x].todo
      BY <2>4, <3>1 DEF Asking
    <3>3. summary[x].stage # "answered"
      BY <2>4 DEF Asking
    <3>4. QED
      BY <3>2, <3>3 DEF Summary
  <2>5. CASE summary[x] \in Answered
    BY <1>6, <2>5 DEF Answered, Summary
  <2>6. QED
    BY <2>2, <2>3, <2>4, <2>5
<1>9. rateCache' \in [Symbols -> KeptRates] /\ \A s \in Symbols : rateCache'[s] = {}
  BY <1>3 DEF NoRates, KeptRates
<1>10. ASSUME NEW x \in Requests
       PROVE  /\ summary'[x] \in Summary
              /\ x # r /\ x \notin AtWork => summary'[x].stage \notin WorkStages
  <2>1. CASE x = r
    BY <1>2, <1>5, <2>1 DEF Summary
  <2>2. CASE x \in AtWork
    BY <1>8, <2>2
  <2>3. CASE x # r /\ x \notin AtWork
    BY <1>1, <1>7, <2>3, AtWorkMeans DEF Types
  <2>4. QED
    BY <2>1, <2>2, <2>3
<1>11. summary' \in [Requests -> Summary]
  <2>1. summary' = [x \in Requests |-> summary'[x]]
    BY <1>3
  <2>2. QED
    BY <1>10, <2>1
<1>12. RecentBefore
  <2>1. ASSUME NEW x \in Requests, NEW s \in Symbols, summary'[x].stage \in WorkStages
        PROVE  summary'[x].used[s] \subseteq recent[s] /\ rateCache'[s] \subseteq recent[s]
    <3>1. CASE x = r
      BY <1>2, <1>5, <1>9, <3>1 DEF NoRates
    <3>2. CASE x # r
      BY <1>1, <1>8, <1>9, <1>10, <2>1, <3>2 DEF RatesRecent
    <3>3. QED
      BY <3>1, <3>2
  <2>2. ASSUME NEW x \in Requests, summary'[x].stage = "answered"
        PROVE  summary'[x].rate \in recent[Head(summary'[x].todo)]
    <3>1. x # r /\ summary'[x].stage \in WorkStages
      BY <1>2, <1>5, <2>2 DEF WorkStages
    <3>2. x \in AtWork
      BY <1>10, <3>1
    <3>3. QED
      BY <1>1, <1>8, <2>2, <3>2 DEF RatesRecent
  <2>3. QED
    BY <2>1, <2>2 DEF RecentBefore
<1>13. ASSUME NEW x \in AtWork', ~summary'[x].shared
       PROVE  Alone(x)'
  <2>1. x \in Requests /\ summary'[x].stage \in WorkStages
    BY <1>13 DEF AtWork, WorkStages
  <2>2. x = r
    BY <1>8, <1>10, <1>13, <2>1
  <2>3. AtWork = {}
    BY <1>2, <1>5, <1>13, <2>2
  <2>4. AtWork' \subseteq {r}
    <3>1. ASSUME NEW y \in AtWork', y # r
          PROVE  FALSE
      <4>1. y \in Requests /\ summary'[y].stage \in WorkStages
        BY <3>1 DEF AtWork, WorkStages
      <4>2. QED
        BY <1>10, <2>3, <3>1, <4>1
    <3>2. QED
      BY <3>1
  <2>5. summary'[r].used = NoRates /\ summary'[r].stage = "valuing"
    BY <1>2, <1>5
  <2>6. QED
    BY <1>9, <2>2, <2>4, <2>5 DEF Alone, NoRates
<1>14. QED
  BY <1>9, <1>11, <1>12, <1>13 DEF RequestsKept, OneAlone

LEMMA LookUpKept ==
    ASSUME PortfolioInvariant, NEW r \in Requests, LookUp(r)
    PROVE  RequestsKept
<1> DEFINE q == summary[r]
           s == Head(q.todo)
           next == [q EXCEPT !.stage = "asking"]
<1>1. Types /\ OneAlone
  BY DEF PortfolioInvariant
<1>2. /\ UNCHANGED rateCache /\ q.stage = "valuing" /\ q.todo # <<>>
      /\ rateCache[s] = {} => Set(r, next)
      /\ rateCache[s] # {} => \E rate \in rateCache[s] : Set(r, Valued(q, rate))
  BY DEF LookUp
<1>3. q \in Valuing /\ r \in AtWork
  BY <1>1, <1>2, StageShapes, AtWorkMeans DEF Types, WorkStages
<1>4. q.todo \in Seq(Symbols) /\ q.used \in Used /\ q.shared \in BOOLEAN /\ s \in Symbols
  BY <1>2, <1>3, NextPosition DEF Valuing
<1>5. CASE rateCache[s] = {}
  <2>1. next \in Asking /\ next.stage = "asking" /\ next.shared = q.shared
        /\ next.used = q.used /\ next.todo = q.todo
    BY <1>2, <1>3 DEF Valuing, Asking
  <2>2. next \in Summary /\ \A t \in Symbols : next.used[t] \subseteq q.used[t] \cup rateCache[t]
    BY <2>1 DEF Summary
  <2>3. Set(r, next)
    BY <1>2, <1>5
  <2> HIDE DEF next
  <2>4. QED
    BY <1>2, <1>3, <1>5, <2>1, <2>2, <2>3, OneGoesOn
<1>6. CASE rateCache[s] # {}
  <2>1. PICK rate \in rateCache[s] : Set(r, Valued(q, rate))
    BY <1>2, <1>6
  <2>2. rate \in Found
    BY <1>1, <1>4 DEF Types, KeptRates
  <2> DEFINE valued == Valued(q, rate)
  <2>3. /\ valued \in Summary /\ valued.stage \notin {"asking", "answered"}
        /\ valued.stage \in WorkStages =>
               /\ valued.shared = q.shared
               /\ valued.used = [q.used EXCEPT ![s] = @ \cup {rate}]
    BY <1>2, <1>4, <2>2, ValuedShape
  <2>4. ASSUME valued.stage \in WorkStages, NEW t \in Symbols
        PROVE  valued.used[t] \subseteq q.used[t] \cup rateCache[t]
    BY <1>4, <2>3, <2>4 DEF Used
  <2> HIDE DEF valued
  <2>5. Set(r, valued)
    BY <2>1 DEF valued
  <2>6. QED
    BY <1>2, <1>3, <2>3, <2>4, <2>5, OneGoesOn
<1>7. QED
  BY <1>5, <1>6

LEMMA ReadRateKept ==
    ASSUME PortfolioInvariant, NEW r \in Requests, ReadRate(r)
    PROVE  RequestsKept
<1> DEFINE q == summary[r]
           s == Head(q.todo)
           next == [stage |-> "answered", todo |-> q.todo, shared |-> q.shared,
                    used |-> q.used, rate |-> RateOf(s)]
<1>1. Types /\ RatesRecent /\ OneAlone
  BY DEF PortfolioInvariant
<1>2. UNCHANGED rateCache /\ q.stage = "asking" /\ Set(r, next)
  BY DEF ReadRate
<1>3. q \in Asking /\ r \in AtWork
  BY <1>1, <1>2, StageShapes, AtWorkMeans DEF Types, WorkStages
<1>4. s \in Symbols
  BY <1>3, NextPosition DEF Asking
<1>5. RateOf(s) \in Found /\ RateOf(s) \in recent[s]
  BY <1>1, <1>4 DEF Types, FeedTypes, RateOf, Found, RatesRecent
<1>6. /\ next \in Answered /\ next.stage = "answered" /\ next.shared = q.shared
      /\ next.used = q.used /\ next.todo = q.todo /\ next.rate = RateOf(s)
  BY <1>3, <1>5 DEF Asking, Answered
<1>7. next \in Summary /\ \A t \in Symbols : next.used[t] \subseteq q.used[t] \cup rateCache[t]
  BY <1>6 DEF Summary
<1>8. ~q.shared => rateCache[s] = {}
  BY <1>1, <1>2, <1>3 DEF OneAlone, Alone
<1> HIDE DEF next
<1>9. QED
  BY <1>2, <1>3, <1>5, <1>6, <1>7, <1>8, OneGoesOn

\* Only here does a rate come into rateCache; a summary that is alone had none
\* for the currency, there or among those it has used.
LEMMA KeepRateKept ==
    ASSUME PortfolioInvariant, NEW r \in Requests, KeepRate(r)
    PROVE  RequestsKept
<1> DEFINE q == summary[r]
           s == Head(q.todo)
           valued == Valued(q, q.rate)
<1>1. Types /\ RatesRecent /\ OneAlone
  BY DEF PortfolioInvariant
<1>2. /\ q.stage = "answered" /\ Set(r, valued)
      /\ rateCache' = [rateCache EXCEPT ![s] = {q.rate}]
  BY DEF KeepRate
<1>3. q \in Answered /\ r \in AtWork
  BY <1>1, <1>2, StageShapes, AtWorkMeans DEF Types, WorkStages
<1>4. /\ q.todo \in Seq(Symbols) /\ q.todo # <<>> /\ q.used \in Used
      /\ q.shared \in BOOLEAN /\ q.rate \in Found
  BY <1>3 DEF Answered
<1>5. s \in Symbols /\ q.rate \in recent[s]
  BY <1>1, <1>2, <1>4, NextPosition DEF RatesRecent
<1>6. /\ valued \in Summary /\ valued.stage \notin {"asking", "answered"}
      /\ valued.stage \in WorkStages =>
             /\ valued.shared = q.shared
             /\ valued.used = [q.used EXCEPT ![s] = @ \cup {q.rate}]
  BY <1>4, ValuedShape
<1> HIDE DEF valued
<1>7. /\ summary' \in [Requests -> Summary] /\ summary'[r] = valued
      /\ \A x \in Requests \ {r} : summary'[x] = summary[x]
  BY <1>1, <1>2, <1>6 DEF Set, Types
<1>8. /\ rateCache' \in [Symbols -> KeptRates] /\ rateCache'[s] = {q.rate}
      /\ \A t \in Symbols \ {s} : rateCache'[t] = rateCache[t]
  BY <1>1, <1>2, <1>4, <1>5 DEF Types, KeptRates
<1>9. valued.stage \in WorkStages =>
          /\ valued.used[s] = q.used[s] \cup {q.rate}
          /\ \A t \in Symbols \ {s} : valued.used[t] = q.used[t]
  BY <1>4, <1>5, <1>6 DEF Used
<1>10. \A x \in AtWork, t \in Symbols :
           summary[x].used[t] \subseteq recent[t] /\ rateCache[t] \subseteq recent[t]
  BY <1>1 DEF RatesRecent
<1>11. \A t \in Symbols : rateCache'[t] \subseteq recent[t]
  BY <1>3, <1>5, <1>8, <1>10
<1>12. RecentBefore
  <2>1. ASSUME NEW x \in Requests, NEW t \in Symbols, summary'[x].stage \in WorkStages
        PROVE  summary'[x].used[t] \subseteq recent[t]
    <3>1. CASE x = r
      <4>1. valued.used[t] \subseteq q.used[t] \cup {q.rate}
            /\ (t # s => valued.used[t] = q.used[t])
        BY <1>7, <1>9, <2>1, <3>1
      <4>2. q.used[t] \subseteq recent[t]
        BY <1>3, <1>10
      <4>3. QED
        BY <1>5, <1>7, <3>1, <4>1, <4>2
    <3>2. CASE x # r
      BY <1>7, <1>10, <2>1, <3>2, AtWorkMeans
    <3>3. QED
      BY <3>1, <3>2
  <2>2. ASSUME NEW x \in Requests, summary'[x].stage = "answered"
        PROVE  summary'[x].rate \in recent[Head(summary'[x].todo)]
    <3>1. x # r /\ summary'[x] = summary[x]
      BY <1>6, <1>7, <2>2
    <3>2. QED
      BY <1>1, <2>2, <3>1 DEF RatesRecent
  <2>3. QED
    BY <1>11, <2>1, <2>2 DEF RecentBefore
<1>13. ASSUME NEW x \in AtWork', ~summary'[x].shared
       PROVE  Alone(x)'
  <2>1. x \in Requests /\ summary'[x].stage \in WorkStages
    BY <1>13 DEF AtWork, WorkStages
  <2>2. x \in AtWork /\ ~summary[x].shared
    BY <1>3, <1>6, <1>7, <1>13, <2>1, AtWorkMeans
  <2>3. Alone(x)
    BY <1>1, <2>2 DEF OneAlone
  <2>4. x = r
    BY <1>3, <2>3 DEF Alone
  <2>5. \A t \in Symbols : q.used[t] \subseteq rateCache[t]
    BY <2>3, <2>4 DEF Alone
  <2>6. rateCache[s] = {}
    BY <1>2, <2>3, <2>4 DEF Alone
  <2>7. \A t \in Symbols : summary'[r].used[t] \subseteq rateCache'[t]
    BY <1>7, <1>8, <1>9, <2>1, <2>4, <2>5, <2>6
  <2>8. AtWork' \subseteq AtWork
    BY <1>3, <1>7, AtWorkMeans DEF AtWork, WorkStages
  <2>9. summary'[r].stage \notin {"asking", "answered"}
    BY <1>6, <1>7
  <2>10. QED
    BY <2>3, <2>4, <2>7, <2>8, <2>9 DEF Alone
<1>14. QED
  BY <1>7, <1>8, <1>12, <1>13 DEF RequestsKept, OneAlone

-----------------------------------------------------------------------------
(* The invariant *)

LEMMA StepsKept ==
    ASSUME PortfolioInvariant, Steps
    PROVE  FeedTypes' /\ RequestsKept
<1>1. FeedTypes
  BY DEF PortfolioInvariant, Types
<1>2. CASE FeedNext /\ UNCHANGED <<rateCache, summary>>
  BY <1>1, <1>2, FeedKeepsTypes, UnchangedKept
<1>3. CASE RestartAll
  BY <1>1, <1>3, FeedKeepsTypes, IdleKept DEF RestartAll
<1>4. ASSUME NEW r \in Requests, Ask(r) \/ SummaryStep(r), UNCHANGED feedVars
      PROVE  FeedTypes' /\ RequestsKept
  <2>1. FeedTypes'
    BY <1>1, <1>4 DEF feedVars, FeedTypes
  <2>2. CASE Answer(r)
    BY <2>1, <2>2, EndKept DEF Answer
  <2>3. CASE Ask(r) \/ (\E positions \in Holdings : Begin(r, positions))
                    \/ LookUp(r) \/ ReadRate(r) \/ KeepRate(r)
    BY <2>1, <2>3, AskKept, BeginKept, LookUpKept, ReadRateKept, KeepRateKept
  <2>4. QED
    BY <1>4, <2>1, <2>2, <2>3 DEF SummaryStep
<1>5. ASSUME NEW r \in Requests, FailSummary(r)
      PROVE  FeedTypes' /\ RequestsKept
  <2>1. FeedTypes'
    BY <1>1, <1>5, FaultCounts DEF FailSummary, FeedTypes
  <2>2. QED
    BY <1>5, <2>1, EndKept DEF FailSummary
<1>6. QED
  BY <1>2, <1>3, <1>4, <1>5 DEF Steps

LEMMA PortfolioStep == PortfolioInvariant /\ [Next]_vars => PortfolioInvariant'
<1> SUFFICES ASSUME PortfolioInvariant, [Next]_vars
             PROVE  PortfolioInvariant'
  OBVIOUS
<1>1. Types /\ RatesRecent /\ OneAlone
  BY DEF PortfolioInvariant
<1>2. CASE Next
  <2>1. FeedTypes' /\ RequestsKept /\ Remember
    BY <1>2, StepsKept DEF Next
  <2>2. Types' /\ RatesRecent'
    BY <1>1, <2>1, Remembered DEF RequestsKept
  <2>3. QED
    BY <2>1, <2>2 DEF PortfolioInvariant, RequestsKept
<1>3. CASE UNCHANGED vars
  <2>1. UNCHANGED <<base, live, anchor, tick, faults, rateCache, summary, recent>>
    BY <1>3 DEF vars, feedVars
  <2>2. Types'
    BY <1>1, <2>1 DEF Types, FeedTypes
  <2>3. AtWork' = AtWork /\ \A s \in Symbols : RateOf(s)' = RateOf(s)
    BY <2>1 DEF AtWork, RateOf
  <2>4. RatesRecent'
    BY <1>1, <2>1, <2>3 DEF RatesRecent
  <2>5. OneAlone'
    BY <1>1, <2>1, <2>3 DEF OneAlone, Alone
  <2>6. QED
    BY <2>2, <2>4, <2>5 DEF PortfolioInvariant
<1>4. QED
  BY <1>2, <1>3

LEMMA PortfolioStart == Init => PortfolioInvariant
<1> SUFFICES ASSUME Init PROVE PortfolioInvariant
  OBVIOUS
<1>1. Missing \in Found /\ Idle \in Summary /\ {} \in KeptRates
  BY DEF Found, Summary, KeptRates
<1>2. FeedTypes
  <2>1. 0 \in 0..MaxFaults
    BY CurrencyFeedAssumption
  <2>2. QED
    BY <1>1, <2>1, StartShape DEF Init, FeedInit, FeedTypes
<1>3. Types
  BY <1>1, <1>2 DEF Init, Types, NoRates
<1>4. \A r \in Requests : summary[r].stage = "idle"
  BY DEF Init, Idle
<1>5. AtWork = {}
  BY <1>4 DEF AtWork
<1>6. \A s \in Symbols : RateOf(s) \in recent[s]
  BY DEF Init, FeedInit, RateOf
<1>7. RatesRecent
  BY <1>4, <1>5, <1>6 DEF RatesRecent
<1>8. OneAlone
  BY <1>5 DEF OneAlone
<1>9. QED
  BY <1>3, <1>7, <1>8 DEF PortfolioInvariant

LEMMA PortfolioInvariance == Spec => []PortfolioInvariant
  BY PortfolioStart, PortfolioStep, PTL DEF Spec

LEMMA AtMostOne ==
    ASSUME NEW set, set = {} \/ \E x : set = {x}
    PROVE  Cardinality(set) <= 1
<1>1. CASE set = {}
  <2>1. Cardinality(set) = 0
    BY <1>1, FS_EmptySet
  <2>2. QED
    BY <2>1
<1>2. ASSUME NEW x, set = {x}
      PROVE  Cardinality(set) <= 1
  <2>1. Cardinality(set) = 1
    BY <1>2, FS_Singleton
  <2>2. QED
    BY <2>1
<1>3. QED
  BY <1>1, <1>2

LEMMA TypesImplyTypeOK == Types => TypeOK
<1> SUFFICES ASSUME Types PROVE TypeOK
  OBVIOUS
<1>1. \A set \in Singles : Cardinality(set) <= 1
  BY AtMostOne DEF Singles
<1>2. anchor # Idle => /\ anchor.stage \in {"quote", "base", "check", "live"}
                       /\ anchor.todo \subseteq Symbols /\ Cardinality(anchor.current) <= 1
  BY <1>1 DEF Types, FeedTypes, Anchors
<1>3. tick # Idle => /\ tick.stage \in {"base", "live", "write"}
                     /\ tick.todo \subseteq Symbols /\ Cardinality(tick.current) <= 1
  BY <1>1 DEF Types, FeedTypes, Ticks
<1>4. FeedTypeOK
  BY <1>2, <1>3 DEF Types, FeedTypes, FeedTypeOK, Found
<1>5. \A r \in Requests :
          summary[r].stage \in {"idle", "loading", "valuing", "asking", "answered"}
  BY StageShapes DEF Types
<1>6. QED
  BY <1>4, <1>5 DEF Types, TypeOK, KeptRates

\* A summary never uses a rate older than the time since the service was last
\* without a request: clearing rateCache leaves a summary that is at work only
\* rates that were read since.
THEOREM PortfolioRatesOfThisTime == Spec => []RatesOfThisTime
<1>1. PortfolioInvariant => RatesOfThisTime
  BY TypesImplyTypeOK DEF PortfolioInvariant, RatesRecent, RatesOfThisTime
<1>2. QED
  BY <1>1, PortfolioInvariance, PTL

\* A summary with which no other one overlapped values all its positions of a
\* currency at one rate, although ticks and anchors change it meanwhile.
THEOREM PortfolioOneRate == Spec => []OneRatePerSummary
<1>1. ASSUME PortfolioInvariant, NEW r \in AtWork, NEW s \in Symbols, ~summary[r].shared
      PROVE  Cardinality(summary[r].used[s]) <= 1
  <2>1. summary[r].used[s] \subseteq rateCache[s] /\ rateCache[s] \in KeptRates
    BY <1>1 DEF PortfolioInvariant, Types, OneAlone, Alone
  <2>2. summary[r].used[s] = {} \/ \E rate : summary[r].used[s] = {rate}
    BY <2>1 DEF KeptRates
  <2>3. QED
    BY <2>2, AtMostOne
<1>2. PortfolioInvariant => OneRatePerSummary
  BY <1>1 DEF OneRatePerSummary
<1>3. QED
  BY <1>2, PortfolioInvariance, PTL
=============================================================================
