--------------------------- MODULE RealtimeGateway ---------------------------
(***************************************************************************)
(* The events of PriceFeed as RealtimeGateway passes them on: a tick that  *)
(* ends, a refresh that ends and an administrator's request each emit the  *)
(* prices they made, and the gateway sends each to the room of its stock.  *)
(* Followed is one subscription of one socket, any one of them; sockets    *)
(* are external: one in the room is sent its messages in order, and is     *)
(* disconnected when the process dies.                                     *)
(***************************************************************************)
EXTENDS PriceFeed

VARIABLE told   \* the rooms the socket is in, one at most, and the last price it
                \* was sent; 0 if none yet

gatewayVars == <<vars, told>>

NoRoom == [rooms |-> {}, price |-> 0]

GatewayInit == Init /\ told = NoRoom

-----------------------------------------------------------------------------
(* handleSubscribe, handleUnsubscribe; a disconnected socket leaves its rooms *)

Subscribe(s) ==
    /\ phase = "running"
    /\ told = NoRoom
    /\ told' = [rooms |-> {s}, price |-> 0]
    /\ UNCHANGED vars

Unsubscribe ==
    /\ told # NoRoom
    /\ told' = NoRoom
    /\ UNCHANGED vars

-----------------------------------------------------------------------------
(* handlePriceUpdate *)

\* quotes[s] is the price the event has for s, or 0.
HandlePriceUpdate(quotes) ==
    IF \E s \in told.rooms : quotes[s] # 0
    THEN \E s \in told.rooms : told' = [told EXCEPT !.price = quotes[s]]
    ELSE UNCHANGED told

\* The listing is read again; a refresh emits all of it, a request its stock.
Closes(symbols) ==
    [s \in Symbols |-> IF s \in symbols /\ Listed(s) THEN listing[s].close ELSE 0]

EmitTick == EndTick /\ HandlePriceUpdate(tick.updates)
EmitRefresh == EndRefresh /\ HandlePriceUpdate(Closes(Symbols))
EmitAnswer(r) == Answer(r) /\ HandlePriceUpdate(Closes({request[r].symbol}))

GatewayNext ==
    \/ Silent /\ UNCHANGED told
    \/ Crash /\ told' = NoRoom
    \/ EmitTick \/ EmitRefresh
    \/ \E r \in Requests : EmitAnswer(r)
    \/ \E s \in Symbols : Subscribe(s)
    \/ Unsubscribe

\* As in PriceFeed.
GatewayFairness ==
    /\ WF_gatewayVars(Startup /\ UNCHANGED told)
    /\ WF_gatewayVars(FireTick /\ UNCHANGED told)
    /\ WF_gatewayVars((TickAccess /\ UNCHANGED told) \/ EmitTick)
    /\ WF_gatewayVars((RefreshAccess /\ UNCHANGED told) \/ EmitRefresh)
    /\ WF_gatewayVars((\E w \in writes : CacheQuote(w)) /\ UNCHANGED told)
    /\ WF_gatewayVars(PassTime /\ UNCHANGED told)

GatewaySpec == GatewayInit /\ [][GatewayNext]_gatewayVars /\ GatewayFairness

-----------------------------------------------------------------------------
(* Properties *)

\* A subscriber who stays is, time and again, up to date: the price he was last
\* sent derives from the one that orders execute at, though an event may come
\* after that of a later price (a tick emits its prices when it ends, beside the
\* administrators and the refresh), or not at all when a tick or a request fails
\* after its writes.  The next tick makes up for it, as long as the stock is
\* listed and its keys are set.
SubscribersCatchUp ==
    \A s \in Symbols :
        <>[](told.rooms = {s} /\ Listed(s) /\ Set(base[s]) /\ Set(live[s]))
            => []<>(Set(live[s]) /\ told.price = live[s].from)
=============================================================================
