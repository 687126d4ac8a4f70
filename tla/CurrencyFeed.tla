---------------------------- MODULE CurrencyFeed ----------------------------
(***************************************************************************)
(* The rates of currencies as one process keeps them in the cache: under   *)
(* two keys per symbol, the base price, which stays, and the live price,   *)
(* which lapses after 60 seconds.  CurrencyAnchorService fetches base      *)
(* prices at start and on a schedule, and sets live prices that are        *)
(* missing; CurrencyTickService moves the live prices it finds.  Every     *)
(* access to the cache is awaited and may fail.                            *)
(*                                                                         *)
(* When a live price lapses is left open: it may at any moment.  Keys are   *)
(* in Redis and outlive the process.  The provider is ExchangeRate with    *)
(* its fallback, which has a schedule; the mock provider alone has none.   *)
(***************************************************************************)
EXTENDS Naturals, FiniteSets

CONSTANTS
    Symbols,      \* pairs of currencies the provider is configured for
    Rates,
    MaxFaults     \* bound: failed accesses and restarts of the process

ASSUME CurrencyFeedAssumption ==
    /\ 0 \notin Rates
    /\ MaxFaults \in Nat

VARIABLES
    base,      \* symbols whose key forex:s:base_price is set
    live,      \* live[s]: the key forex:s:live_price
    anchor,    \* fetchAndStoreAnchors in progress
    tick,      \* processTick in progress (isTicking)
    faults     \* failed accesses and restarts so far

feedVars == <<base, live, anchor, tick, faults>>

\* A key that is not set; the null of getRate.
Missing == 0

Idle == [stage |-> "idle"]

FeedTypeOK ==
    /\ base \subseteq Symbols
    /\ live \in [Symbols -> Rates \cup {Missing}]
    /\ anchor # Idle =>
         /\ anchor.stage \in {"quote", "base", "check", "live"}
         /\ anchor.todo \subseteq Symbols /\ Cardinality(anchor.current) <= 1
    /\ tick # Idle =>
         /\ tick.stage \in {"base", "live", "write"}
         /\ tick.todo \subseteq Symbols /\ Cardinality(tick.current) <= 1
    /\ faults \in 0..MaxFaults

\* onModuleInit fetches the anchors at once.
FetchAnchors == [stage |-> "quote", todo |-> Symbols, current |-> {}]

FeedInit ==
    /\ base = {}
    /\ live = [s \in Symbols |-> Missing]
    /\ anchor = FetchAnchors
    /\ tick = Idle
    /\ faults = 0

Fault == faults < MaxFaults /\ faults' = faults + 1

\* getRate: null if either key is missing.
RateOf(s) == IF s \in base THEN live[s] ELSE Missing

-----------------------------------------------------------------------------
(* CurrencyAnchorService *)

\* The schedule comes round; a fetch is over long before.
StartAnchors ==
    /\ anchor = Idle
    /\ anchor' = FetchAnchors
    /\ UNCHANGED <<base, live, tick, faults>>

\* The provider, or its fallback, answers for the next symbol: with any rate.
QuoteAnchor ==
    /\ anchor.stage = "quote"
    /\ \E s \in anchor.todo :
          anchor' = [stage |-> "base", todo |-> anchor.todo \ {s}, current |-> {s}]
    /\ UNCHANGED <<base, live, tick, faults>>

NextAnchor == [anchor EXCEPT !.stage = "quote", !.current = {}]

SetBase ==
    /\ anchor.stage = "base"
    /\ base' = base \cup anchor.current
    /\ anchor' = [anchor EXCEPT !.stage = "check"]
    /\ UNCHANGED <<live, tick, faults>>

\* Mutant: the live price is left to the ticks.
CheckNothing ==
    /\ anchor.stage = "check"
    /\ anchor' = NextAnchor
    /\ UNCHANGED <<base, live, tick, faults>>

CheckLive ==
    /\ anchor.stage = "check"
    /\ \E s \in anchor.current :
          anchor' = IF live[s] = Missing THEN [anchor EXCEPT !.stage = "live"]
                    ELSE NextAnchor
    /\ UNCHANGED <<base, live, tick, faults>>

SeedLive ==
    /\ anchor.stage = "live"
    /\ \E s \in anchor.current, rate \in Rates : live' = [live EXCEPT ![s] = rate]
    /\ anchor' = NextAnchor
    /\ UNCHANGED <<base, tick, faults>>

\* The error of one symbol does not keep the others from theirs.
FailAnchor ==
    /\ Fault
    /\ anchor.stage \in {"base", "check", "live"}
    /\ anchor' = NextAnchor
    /\ UNCHANGED <<base, live, tick>>

EndAnchors ==
    /\ anchor.stage = "quote"
    /\ anchor.todo = {}
    /\ anchor' = Idle
    /\ UNCHANGED <<base, live, tick, faults>>

AnchorStep == QuoteAnchor \/ SetBase \/ CheckLive \/ SeedLive \/ EndAnchors

-----------------------------------------------------------------------------
(* CurrencyTickService *)

\* The interval fires; a tick in progress makes it skip one.
StartTick ==
    /\ tick = Idle
    /\ tick' = [stage |-> "base", todo |-> Symbols, current |-> {}]
    /\ UNCHANGED <<base, live, anchor, faults>>

NextTick == [tick EXCEPT !.stage = "base", !.current = {}]

TickReadsBase ==
    /\ tick.stage = "base"
    /\ \E s \in tick.todo :
          tick' = [tick EXCEPT !.todo = @ \ {s},
                               !.stage = IF s \in base THEN "live" ELSE "base",
                               !.current = IF s \in base THEN {s} ELSE {}]
    /\ UNCHANGED <<base, live, anchor, faults>>

TickReadsLive ==
    /\ tick.stage = "live"
    /\ \E s \in tick.current :
          tick' = IF live[s] = Missing THEN NextTick ELSE [tick EXCEPT !.stage = "write"]
    /\ UNCHANGED <<base, live, anchor, faults>>

\* What the strategy makes of the live rate that was read is any rate.
TickWritesLive ==
    /\ tick.stage = "write"
    /\ \E s \in tick.current, rate \in Rates : live' = [live EXCEPT ![s] = rate]
    /\ tick' = NextTick
    /\ UNCHANGED <<base, anchor, faults>>

EndTick ==
    /\ tick.stage = "base"
    /\ tick.todo = {}
    /\ tick' = Idle
    /\ UNCHANGED <<base, live, anchor, faults>>

\* Mutant: isTicking is put down only when the tick succeeds.
FailTickStuck ==
    /\ Fault
    /\ tick # Idle
    /\ tick' = [tick EXCEPT !.stage = "failed"]
    /\ UNCHANGED <<base, live, anchor>>

\* The error of one symbol ends the tick for all.
FailTick ==
    /\ Fault
    /\ tick # Idle
    /\ tick' = Idle
    /\ UNCHANGED <<base, live, anchor>>

TickStep == TickReadsBase \/ TickReadsLive \/ TickWritesLive \/ EndTick

-----------------------------------------------------------------------------
Lapse(s) ==
    /\ live[s] # Missing
    /\ live' = [live EXCEPT ![s] = Missing]
    /\ UNCHANGED <<base, anchor, tick, faults>>

\* The process dies and starts again.
Restart ==
    /\ Fault
    /\ anchor' = FetchAnchors
    /\ tick' = Idle
    /\ UNCHANGED <<base, live>>

FeedNext ==
    \/ StartAnchors \/ AnchorStep \/ FailAnchor
    \/ StartTick \/ TickStep \/ FailTick
    \/ \E s \in Symbols : Lapse(s)
=============================================================================
