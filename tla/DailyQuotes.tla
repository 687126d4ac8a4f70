----------------------------- MODULE DailyQuotes -----------------------------
(***************************************************************************)
(* The daily refresh with the EODHD provider, backed by the mock one.  A   *)
(* call of the API costs quota, so the latest snapshot of today in the     *)
(* price history serves as a quote if there is one, whoever recorded it:   *)
(* the provider itself, the refresh, or an administrator who set a price.  *)
(*                                                                         *)
(* A price is abstracted to the day it was made.  The cache keys are those *)
(* of PriceFeed.  All stocks are seeded by the provider.                   *)
(***************************************************************************)
EXTENDS Naturals

CONSTANTS
    Symbols,          \* EODHD_SYMBOLS
    FetchOnStartup,   \* MARKET_FETCH_ON_STARTUP
    Days,             \* bound: days that pass
    MaxFailures,      \* bound: calls that fail
    MaxCrashes        \* bound: restarts of the process

ASSUME DailyQuotesAssumption ==
    /\ FetchOnStartup \in BOOLEAN
    /\ \A n \in {Days, MaxFailures, MaxCrashes} : n \in Nat
    /\ Days >= 1

VARIABLES
    day,        \* the day in America/Santiago
    fired,      \* the cron job fired today
    phase,      \* "down", "starting" (onModuleInit) or "serving"
    history,    \* history[s]: the latest snapshot of s
    stock,      \* stock[s]: source and closing price of s
    refresh,    \* the refresh in progress (isRefreshing)
    edit,       \* an administrator's price that is saved and not yet recorded
    calls,      \* calls[s]: calls of the API for s answered today (history)
    refreshed,  \* stocks a refresh has saved today (history)
    late,       \* something was under way at midnight (history)
    failures, crashes

dailyVars == <<day, fired, phase, history, stock, refresh, edit, calls, refreshed, late,
               failures, crashes>>

Sources == {"eodhd", "mock", "admin"}
Quote == [source: Sources, made: 1..Days]
NoQuote == [source |-> "none"]

\* A quote and the day it was recorded, its createdAt.
Snapshot == [quote: Quote, created: 1..Days]
NoSnapshot == [created |-> 0]

Idle == [stage |-> "idle"]
NoEdit == [symbol |-> "none"]

DailyTypeOK ==
    /\ day \in 1..Days
    /\ fired \in BOOLEAN /\ late \in BOOLEAN
    /\ phase \in {"down", "starting", "serving"}
    /\ history \in [Symbols -> Snapshot \cup {NoSnapshot}]
    /\ stock \in [Symbols -> Quote \cup {[source |-> "eodhd", made |-> 0]}]
    /\ refresh # Idle =>
          /\ phase # "down"
          /\ refresh.stage \in {"next", "api", "snapshot", "history"}
          /\ refresh.quotes \in [Symbols -> Quote \cup {NoQuote}]
          /\ \A s \in refresh.todo : refresh.quotes[s] = NoQuote
    /\ edit # NoEdit => phase = "serving" /\ edit.symbol \in Symbols /\ edit.made \in 1..day
    /\ calls \in [Symbols -> 0..(1 + MaxFailures + MaxCrashes)]
    /\ refreshed \subseteq Symbols
    /\ failures \in 0..MaxFailures
    /\ crashes \in 0..MaxCrashes

\* The provider's stocks are seeded with no price yet.
DailyInit ==
    /\ day = 1
    /\ fired = FALSE
    /\ phase = "down"
    /\ history = [s \in Symbols |-> NoSnapshot]
    /\ stock = [s \in Symbols |-> [source |-> "eodhd", made |-> 0]]
    /\ refresh = Idle
    /\ edit = NoEdit
    /\ calls = [s \in Symbols |-> 0]
    /\ refreshed = {}
    /\ late = FALSE
    /\ failures = 0
    /\ crashes = 0

Fail == failures < MaxFailures /\ failures' = failures + 1

-----------------------------------------------------------------------------
(* refreshMarket starts: at startup and by the cron job *)

\* Nothing is left to refresh once every stock is an administrator's.
NewRefresh ==
    LET provided == {s \in Symbols : stock[s].source # "admin"}
    IN  IF provided = {} THEN Idle
        ELSE [stage |-> "next", todo |-> provided,
              quotes |-> [s \in Symbols |-> NoQuote]]

StartBackend ==
    /\ phase = "down"
    /\ phase' = "starting"
    /\ refresh' = IF FetchOnStartup THEN NewRefresh ELSE Idle
    /\ UNCHANGED <<day, fired, history, stock, edit, calls, refreshed, late, failures, crashes>>

StartServing ==
    /\ phase = "starting"
    /\ refresh = Idle
    /\ phase' = "serving"
    /\ UNCHANGED <<day, fired, history, stock, refresh, edit, calls, refreshed, late,
                   failures, crashes>>

\* A refresh still in progress makes the job skip.
FireCron ==
    /\ phase # "down"
    /\ ~fired
    /\ fired' = TRUE
    /\ refresh' = IF refresh = Idle THEN NewRefresh ELSE refresh
    /\ UNCHANGED <<day, phase, history, stock, edit, calls, refreshed, late, failures, crashes>>

-----------------------------------------------------------------------------
(* getQuote of the fallback provider, for one symbol after the other *)

\* Mutants: a snapshot of any day is as good; no snapshot is found.
AnyDaysSnapshot(s) == history[s] # NoSnapshot
NoDaysSnapshot(s) == FALSE

\* getTodaySnapshot finds one.
TodaySnapshot(s) == history[s].created = day

Mock == [source |-> "mock", made |-> day]

\* s has its quote and the next symbol is up.
Quoted(s, quote) ==
    refresh' = [stage |-> "next", todo |-> refresh.todo \ {s},
                quotes |-> [refresh.quotes EXCEPT ![s] = quote]]

Reuse(s) ==
    /\ refresh.stage = "next"
    /\ s \in refresh.todo
    /\ TodaySnapshot(s)
    /\ Quoted(s, history[s].quote)
    /\ UNCHANGED <<day, fired, phase, history, stock, edit, calls, refreshed, late,
                   failures, crashes>>

AskApi(s) ==
    /\ refresh.stage = "next"
    /\ s \in refresh.todo
    /\ ~TodaySnapshot(s)
    /\ refresh' = [stage |-> "api", symbol |-> s, todo |-> refresh.todo,
                   quotes |-> refresh.quotes]
    /\ UNCHANGED <<day, fired, phase, history, stock, edit, calls, refreshed, late,
                   failures, crashes>>

AnswerApi ==
    /\ refresh.stage = "api"
    /\ calls' = [calls EXCEPT ![refresh.symbol] = @ + 1]
    /\ refresh' = [stage |-> "snapshot", symbol |-> refresh.symbol, todo |-> refresh.todo,
                   quotes |-> refresh.quotes, quote |-> [source |-> "eodhd", made |-> day]]
    /\ UNCHANGED <<day, fired, phase, history, stock, edit, refreshed, late, failures, crashes>>

PersistSnapshot ==
    /\ refresh.stage = "snapshot"
    /\ history' = [history EXCEPT ![refresh.symbol] =
                      [quote |-> refresh.quote, created |-> day]]
    /\ Quoted(refresh.symbol, refresh.quote)
    /\ UNCHANGED <<day, fired, phase, stock, edit, calls, refreshed, late, failures, crashes>>

\* The lookup or the call fails, or the snapshot of its answer is not recorded:
\* the mock provider has a quote.
FallBack(s) ==
    /\ Fail
    /\ \/ refresh.stage = "next" /\ s \in refresh.todo
       \/ refresh.stage \in {"api", "snapshot"} /\ s = refresh.symbol
    /\ Quoted(s, Mock)
    /\ UNCHANGED <<day, fired, phase, history, stock, edit, calls, refreshed, late, crashes>>

-----------------------------------------------------------------------------
(* persist of the update writer *)

QuotedStocks == {s \in Symbols : refresh.quotes[s] # NoQuote}

SaveStocks ==
    /\ refresh.stage = "next"
    /\ refresh.todo = {}
    /\ stock' = [s \in Symbols |-> IF s \in QuotedStocks THEN refresh.quotes[s] ELSE stock[s]]
    /\ refreshed' = refreshed \cup QuotedStocks
    /\ refresh' = [refresh EXCEPT !.stage = "history"]
    /\ UNCHANGED <<day, fired, phase, history, edit, calls, late, failures, crashes>>

\* Reused quotes are recorded once more.
SaveHistory ==
    /\ refresh.stage = "history"
    /\ history' = [s \in Symbols |->
                     IF s \in QuotedStocks
                     THEN [quote |-> refresh.quotes[s], created |-> day]
                     ELSE history[s]]
    /\ refresh' = Idle
    /\ UNCHANGED <<day, fired, phase, stock, edit, calls, refreshed, late, failures, crashes>>

\* Either write fails.  At startup this ends the process.
FailRefresh ==
    /\ Fail
    /\ \/ refresh.stage = "next" /\ refresh.todo = {}
       \/ refresh.stage = "history"
    /\ refresh' = Idle
    /\ phase' = IF phase = "starting" THEN "down" ELSE phase
    /\ UNCHANGED <<day, fired, history, stock, edit, calls, refreshed, late, crashes>>

-----------------------------------------------------------------------------
(* updateStockPrice saves the document, then records the price *)

SetPrice(s) ==
    /\ phase = "serving"
    /\ edit = NoEdit
    /\ stock' = [stock EXCEPT ![s].made = day]
    /\ edit' = [symbol |-> s, made |-> day]
    /\ UNCHANGED <<day, fired, phase, history, refresh, calls, refreshed, late, failures, crashes>>

RecordPrice ==
    /\ edit # NoEdit
    /\ history' = [history EXCEPT ![edit.symbol] =
                      [quote |-> [source |-> "admin", made |-> edit.made], created |-> day]]
    /\ edit' = NoEdit
    /\ UNCHANGED <<day, fired, phase, stock, refresh, calls, refreshed, late, failures, crashes>>

FailRecord ==
    /\ Fail
    /\ edit # NoEdit
    /\ edit' = NoEdit
    /\ UNCHANGED <<day, fired, phase, history, stock, refresh, calls, refreshed, late, crashes>>

-----------------------------------------------------------------------------
(* Days and crashes *)

\* Mutant: the administrator's request outlives the process.
CrashAlone ==
    /\ phase # "down"
    /\ crashes < MaxCrashes
    /\ crashes' = crashes + 1
    /\ phase' = "down"
    /\ refresh' = Idle
    /\ UNCHANGED <<day, fired, history, stock, edit, calls, refreshed, late, failures>>

CrashBackend ==
    /\ phase # "down"
    /\ crashes < MaxCrashes
    /\ crashes' = crashes + 1
    /\ phase' = "down"
    /\ refresh' = Idle
    /\ edit' = NoEdit
    /\ UNCHANGED <<day, fired, history, stock, calls, refreshed, late, failures>>

Midnight ==
    /\ day < Days
    /\ day' = day + 1
    /\ fired' = FALSE
    /\ calls' = [s \in Symbols |-> 0]
    /\ refreshed' = {}
    /\ late' = (refresh # Idle \/ edit # NoEdit)
    /\ UNCHANGED <<phase, history, stock, refresh, edit, failures, crashes>>

-----------------------------------------------------------------------------
DailyNext ==
    \/ StartBackend \/ StartServing \/ FireCron \/ CrashBackend \/ Midnight
    \/ \E s \in Symbols : Reuse(s) \/ AskApi(s) \/ FallBack(s) \/ SetPrice(s)
    \/ AnswerApi \/ PersistSnapshot
    \/ SaveStocks \/ SaveHistory \/ FailRefresh
    \/ RecordPrice \/ FailRecord

DailySpec == DailyInit /\ [][DailyNext]_dailyVars

-----------------------------------------------------------------------------
(* Properties *)

\* The quota lasts: the API answers for a stock once a day, and once more only
\* for a failure or a crash that loses the snapshot of its answer.  What the
\* refreshes and edits in progress hold stays well-formed.
OneCallPerDay ==
    /\ DailyTypeOK
    /\ \A s \in Symbols : calls[s] <= 1 + failures + crashes

\* A stock refreshed today has a price made today, be it the API's, the mock
\* provider's or an administrator's, unless a refresh or a price change went
\* on past midnight: what these record after it passes for the new day's.
QuotesOfToday ==
    ~late => \A s \in refreshed : stock[s].made = day

\* What the documentation says of the administrator's price changes: a stock
\* managed by the provider stays managed by it, so the next refresh gives it
\* the provider's price again.
StaysWithProvider == \A s \in Symbols : stock[s].source # "admin"
=============================================================================
