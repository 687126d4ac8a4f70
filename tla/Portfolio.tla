------------------------------ MODULE Portfolio ------------------------------
(***************************************************************************)
(* Summaries of portfolios at the rates of CurrencyFeed.  getSummary loads *)
(* its data, clears rateCache, a field that all requests of the process    *)
(* share, and values one position after the other, each at the rate found  *)
(* there, or else read from the cache and put there.                       *)
(***************************************************************************)
EXTENDS CurrencyFeed, Sequences

CONSTANTS
    Requests,   \* bound: summaries in progress at one time
    Holdings    \* the symbols of a user's positions that are not in CLP

ASSUME PortfolioAssumption == Holdings \subseteq Seq(Symbols)

VARIABLES
    rateCache,  \* rateCache[s]: the rates kept for s, one at most; it may be Missing
    summary,    \* summary[r]: the summary request r is at
    recent      \* recent[s]: what getRate would have said of s since no summary
                \* was in progress (history)

vars == <<feedVars, rateCache, summary, recent>>

Found == Rates \cup {Missing}

TypeOK ==
    /\ FeedTypeOK
    /\ rateCache \in [Symbols -> {{}} \cup {{rate} : rate \in Found}]
    /\ \A r \in Requests :
          summary[r].stage \in {"idle", "loading", "valuing", "asking", "answered"}
    /\ recent \in [Symbols -> SUBSET Found]

NoRates == [s \in Symbols |-> {}]

Init ==
    /\ FeedInit
    /\ rateCache = NoRates
    /\ summary = [r \in Requests |-> Idle]
    /\ recent = [s \in Symbols |-> {Missing}]

Set(r, q) == summary' = [summary EXCEPT ![r] = q]

-----------------------------------------------------------------------------
(* getSummary *)

\* The user and the positions are asked for, then the quotes.
Ask(r) ==
    /\ summary[r] = Idle
    /\ Set(r, [stage |-> "loading"])
    /\ UNCHANGED rateCache

AtWork == {r \in Requests : summary[r].stage \in {"valuing", "asking", "answered"}}

\* The quotes are there.  shared: another summary was at work meanwhile (history).
Loaded(positions) ==
    [stage |-> "valuing", todo |-> positions, used |-> NoRates, shared |-> AtWork # {}]

\* Mutant: the rates of earlier summaries are kept.
BeginWithRates(r, positions) ==
    /\ summary[r].stage = "loading"
    /\ Set(r, Loaded(positions))
    /\ UNCHANGED rateCache

Begin(r, positions) ==
    /\ summary[r].stage = "loading"
    /\ rateCache' = NoRates
    /\ summary' = [q \in Requests |->
                     CASE q = r -> Loaded(positions)
                       [] q \in AtWork -> [summary[q] EXCEPT !.shared = TRUE]
                       [] OTHER -> summary[q]]

\* A position is valued at this rate; without one the request is refused.
Valued(q, rate) ==
    IF rate = Missing THEN Idle
    ELSE [stage |-> "valuing", todo |-> Tail(q.todo), shared |-> q.shared,
          used |-> [q.used EXCEPT ![Head(q.todo)] = @ \cup {rate}]]

\* The rate of the next position is at hand, or it is asked for.
LookUp(r) ==
    LET q == summary[r]
        kept == rateCache[Head(q.todo)]
    IN  /\ q.stage = "valuing"
        /\ q.todo # <<>>
        /\ IF kept = {} THEN Set(r, [q EXCEPT !.stage = "asking"])
           ELSE \E rate \in kept : Set(r, Valued(q, rate))
        /\ UNCHANGED rateCache

\* Redis reads both keys ...
ReadRate(r) ==
    LET q == summary[r]
    IN  /\ q.stage = "asking"
        /\ Set(r, [stage |-> "answered", todo |-> q.todo, shared |-> q.shared,
                   used |-> q.used, rate |-> RateOf(Head(q.todo))])
        /\ UNCHANGED rateCache

\* Mutant: the rate is not kept.
UseRate(r) ==
    LET q == summary[r]
    IN  /\ q.stage = "answered"
        /\ Set(r, Valued(q, q.rate))
        /\ UNCHANGED rateCache

\* ... and the answer arrives.
KeepRate(r) ==
    LET q == summary[r]
    IN  /\ q.stage = "answered"
        /\ rateCache' = [rateCache EXCEPT ![Head(q.todo)] = {q.rate}]
        /\ Set(r, Valued(q, q.rate))

Answer(r) ==
    /\ summary[r].stage = "valuing"
    /\ summary[r].todo = <<>>
    /\ Set(r, Idle)
    /\ UNCHANGED rateCache

\* The database or the cache fails on the way.
FailSummary(r) ==
    /\ Fault
    /\ summary[r].stage \in {"loading", "asking"}
    /\ Set(r, Idle)
    /\ UNCHANGED <<rateCache, base, live, anchor, tick>>

SummaryStep(r) ==
    \/ \E positions \in Holdings : Begin(r, positions)
    \/ LookUp(r) \/ ReadRate(r) \/ KeepRate(r) \/ Answer(r)

-----------------------------------------------------------------------------
RestartAll ==
    /\ Restart
    /\ rateCache' = NoRates
    /\ summary' = [r \in Requests |-> Idle]

Remember ==
    recent' = [s \in Symbols |->
                 (IF summary' = [r \in Requests |-> Idle] THEN {} ELSE recent[s])
                    \cup {RateOf(s)'}]

Steps ==
    \/ FeedNext /\ UNCHANGED <<rateCache, summary>>
    \/ RestartAll
    \/ \E r \in Requests :
          \/ (Ask(r) \/ SummaryStep(r)) /\ UNCHANGED feedVars
          \/ FailSummary(r)

Next == Steps /\ Remember

\* The schedule comes round and promises settle.
Fairness ==
    /\ WF_vars(StartAnchors /\ UNCHANGED <<rateCache, summary>> /\ Remember)
    /\ WF_vars(AnchorStep /\ UNCHANGED <<rateCache, summary>> /\ Remember)
    /\ WF_vars(TickStep /\ UNCHANGED <<rateCache, summary>> /\ Remember)
    /\ \A r \in Requests : WF_vars(SummaryStep(r) /\ UNCHANGED feedVars /\ Remember)

Spec == Init /\ [][Next]_vars /\ Fairness

-----------------------------------------------------------------------------
(* Properties *)

\* No summary values a position at a rate from before it began, unless it took
\* it over from a summary in progress when it did: a rate used is one that was
\* valid since the service was last without a request.  What rates, summaries and
\* workers hold stays well-formed.
RatesOfThisTime ==
    /\ TypeOK
    /\ \A r \in AtWork, s \in Symbols : summary[r].used[s] \subseteq recent[s]

\* A summary values all positions of a currency at one rate, though the rate
\* moves while it is at work, unless another summary is at work too: that one may
\* clear rateCache or put another rate there, and the sum mixes two moments.
OneRatePerSummary ==
    \A r \in AtWork, s \in Symbols :
        ~summary[r].shared => Cardinality(summary[r].used[s]) <= 1

\* A live rate that lapsed, or was never set because an access to the cache
\* failed, comes back: no tick renews it, but the schedule of anchors does.
RatesReturn == \A s \in Symbols : []<>(RateOf(s) # Missing)

\* isTicking never stays up, whatever fails.
TicksEnd == tick # Idle ~> tick = Idle
=============================================================================
