-------------------------- MODULE OrderTransactions --------------------------
(***************************************************************************)
(* The same handlers as the code runs them: concurrently, each inside      *)
(* session.withTransaction on a private snapshot of MongoDB.  A            *)
(* transaction whose write set meets a document committed by another since *)
(* its snapshot fails with a write conflict and the driver runs the        *)
(* callback again on a fresh snapshot; a thrown error, a dropped           *)
(* connection or the death of the process aborts it.  Snapshot isolation   *)
(* does not protect what a transaction only READS: the handlers defend     *)
(* those documents by touching them ($currentDate), and this module shows  *)
(* that what they touch is enough for them to implement Ledger.            *)
(*                                                                         *)
(* Conflicts are detected here when the transaction commits; MongoDB       *)
(* detects them at the write, which aborts the same transactions earlier.  *)
(* createStock, a check and an insert under a unique index, is run by the  *)
(* same rules.                                                             *)
(***************************************************************************)
EXTENDS OrderRules

VARIABLES
    db,       \* the committed database
    phase,    \* phase[r]: "NEW", "OPEN" (in a transaction) or "DONE"
    request,  \* request[r]: what the open request asks for
    snapshot, \* snapshot[r]: the database as its transaction reads it
    missed    \* missed[r]: documents committed by others since that snapshot

vars == <<db, phase, request, snapshot, missed>>

\* One request per order id: the ObjectId of an order is drawn by the request
\* that creates it.
Requests == OrderIds

CreatingRequest == CreateBuyRequest \cup CreateSellRequest \cup MarketRequest

Request == CreatingRequest \cup CancelRequest \cup ExecuteRequest \cup StockRequest

NoRequest == [kind |-> "NONE"]

-----------------------------------------------------------------------------
(* Sets of documents, by collection *)

DocumentSet == [users: SUBSET Users, positions: SUBSET (Users \X Symbols),
                orders: SUBSET OrderIds, stocks: SUBSET Symbols]

NoDocuments == [users |-> {}, positions |-> {}, orders |-> {}, stocks |-> {}]

Both(v, w) == [users     |-> v.users \cup w.users,
               positions |-> v.positions \cup w.positions,
               orders    |-> v.orders \cup w.orders,
               stocks    |-> v.stocks \cup w.stocks]

Disjoint(v, w) == /\ v.users \cap w.users = {}
                  /\ v.positions \cap w.positions = {}
                  /\ v.orders \cap w.orders = {}
                  /\ v.stocks \cap w.stocks = {}

\* Mutant: orders do not touch the stock they refer to.
TouchedByAdminOnly(op) ==
    IF op.kind \in {"CREATE_STOCK", "DELETE_STOCK"} THEN {op.symbol} ELSE {}

\* The stock a request bumps with $currentDate, or inserts or deletes.
TouchedStocks(op) ==
    IF op.kind \in {"CREATE_BUY", "CREATE_SELL", "MARKET_BUY", "MARKET_SELL",
                    "CREATE_STOCK", "DELETE_STOCK"}
    THEN {op.symbol} ELSE {}

\* The order a request inserts, saves or (cancelOrder) bumps.
TouchedOrders(op) ==
    IF op.kind \in {"CREATE_STOCK", "DELETE_STOCK"} THEN {} ELSE {op.order}

-----------------------------------------------------------------------------
(* The callback of a request on the database d it reads *)

Allowed(d, op) ==
    CASE op.kind = "CREATE_BUY"   -> CanCreateBuy(d, op)
      [] op.kind = "CREATE_SELL"  -> CanCreateSell(d, op)
      [] op.kind = "CANCEL"       -> CanCancel(d, op)
      [] op.kind = "EXECUTE"      -> CanExecute(d, op)
      [] op.kind = "MARKET_BUY"   -> CanMarketBuy(d, op)
      [] op.kind = "MARKET_SELL"  -> CanMarketSell(d, op)
      [] op.kind = "CREATE_STOCK" -> CanCreateStock(d, op)
      [] op.kind = "DELETE_STOCK" -> CanDeleteStock(d, op)

After(d, op) ==
    CASE op.kind = "CREATE_BUY"   -> CreateBuy(d, op)
      [] op.kind = "CREATE_SELL"  -> CreateSell(d, op)
      [] op.kind = "CANCEL"       -> CancelOrder(d, op)
      [] op.kind = "EXECUTE"      -> ExecuteOrder(d, op)
      [] op.kind = "MARKET_BUY"   -> MarketBuy(d, op)
      [] op.kind = "MARKET_SELL"  -> MarketSell(d, op)
      [] op.kind = "CREATE_STOCK" -> CreateStock(d, op)
      [] op.kind = "DELETE_STOCK" -> DeleteStock(d, op)

\* Mongoose writes a saved document only if the handler changed it.
Writes(d, op) ==
    LET e == After(d, op)
    IN  [users     |-> {u \in Users : e.users[u] # d.users[u]},
         positions |-> {h \in Users \X Symbols : e.positions[h] # d.positions[h]},
         orders    |-> TouchedOrders(op),
         stocks    |-> TouchedStocks(op)]

\* base with the documents w of e; trades are only ever inserted.
Merged(base, d, e, w) ==
    [users     |-> [u \in Users |->
                      IF u \in w.users THEN e.users[u] ELSE base.users[u]],
     positions |-> [h \in Users \X Symbols |->
                      IF h \in w.positions THEN e.positions[h]
                                           ELSE base.positions[h]],
     orders    |-> [o \in OrderIds |->
                      IF o \in w.orders THEN e.orders[o] ELSE base.orders[o]],
     trades    |-> [o \in OrderIds |->
                      base.trades[o] \o SubSeq(e.trades[o], Len(d.trades[o]) + 1,
                                               Len(e.trades[o]))],
     stocks    |-> [s \in Symbols |->
                      IF s \in w.stocks THEN e.stocks[s] ELSE base.stocks[s]]]

-----------------------------------------------------------------------------
(* Actions *)

Init ==
    /\ db = InitialDatabase
    /\ phase = [r \in Requests |-> "NEW"]
    /\ request = [r \in Requests |-> NoRequest]
    /\ snapshot = [r \in Requests |-> InitialDatabase]
    /\ missed = [r \in Requests |-> NoDocuments]

\* A client or the execution cycle sends request r and its transaction reads
\* its snapshot.  Requests are numbered as they begin; only an order that
\* exists can be named.
Begin(r, op) ==
    /\ phase[r] = "NEW"
    /\ \A q \in Requests : q < r => phase[q] # "NEW"
    /\ op \in CreatingRequest => op.order = r
    /\ op \in CancelRequest \cup ExecuteRequest => db.orders[op.order] # NoOrder
    /\ phase' = [phase EXCEPT ![r] = "OPEN"]
    /\ request' = [request EXCEPT ![r] = op]
    /\ snapshot' = [snapshot EXCEPT ![r] = db]
    /\ UNCHANGED <<db, missed>>

Conflicts(r) == ~Disjoint(Writes(snapshot[r], request[r]), missed[r])

Close(r) ==
    /\ phase' = [phase EXCEPT ![r] = "DONE"]
    /\ request' = [request EXCEPT ![r] = NoRequest]
    /\ snapshot' = [snapshot EXCEPT ![r] = InitialDatabase]

Commit(r) ==
    LET d == snapshot[r]
        op == request[r]
        w == Writes(d, op)
    IN  /\ phase[r] = "OPEN"
        /\ Allowed(d, op)
        /\ ~Conflicts(r)
        /\ db' = Merged(db, d, After(d, op), w)
        /\ missed' = [q \in Requests |->
                        IF q = r \/ phase[q] # "OPEN" THEN NoDocuments
                                                      ELSE Both(missed[q], w)]
        /\ Close(r)

\* Mutant: the callback runs again on what it read the first time.
RetryStale(r) ==
    /\ phase[r] = "OPEN"
    /\ Allowed(snapshot[r], request[r])
    /\ Conflicts(r)
    /\ missed' = [missed EXCEPT ![r] = NoDocuments]
    /\ UNCHANGED <<db, phase, request, snapshot>>

\* createOrder and executeOrder read the FX rate and the commission inside the
\* callback, so a retry may see others; executeMarketOrder read them before.
Reread(op, fx, rate) ==
    IF op.kind \in {"CREATE_BUY", "EXECUTE"} THEN [op EXCEPT !.fx = fx, !.rate = rate]
                                             ELSE op

\* TransientTransactionError: the driver runs the callback again.
Retry(r) ==
    /\ phase[r] = "OPEN"
    /\ Allowed(snapshot[r], request[r])
    /\ Conflicts(r)
    /\ \E fx \in FxRates, rate \in CommissionRates :
           request' = [request EXCEPT ![r] = Reread(@, fx, rate)]
    /\ snapshot' = [snapshot EXCEPT ![r] = db]
    /\ missed' = [missed EXCEPT ![r] = NoDocuments]
    /\ UNCHANGED <<db, phase>>

\* The callback throws or returns early.
Reject(r) ==
    /\ phase[r] = "OPEN"
    /\ ~Allowed(snapshot[r], request[r])
    /\ missed' = [missed EXCEPT ![r] = NoDocuments]
    /\ Close(r)
    /\ UNCHANGED db

\* The process dies, the connection drops, or the driver's time to retry is up.
Fail(r) ==
    /\ phase[r] = "OPEN"
    /\ missed' = [missed EXCEPT ![r] = NoDocuments]
    /\ Close(r)
    /\ UNCHANGED db

Next ==
    \E r \in Requests :
        \/ \E op \in Request : Begin(r, op)
        \/ Commit(r)
        \/ Retry(r)
        \/ Reject(r)
        \/ Fail(r)

Spec == Init /\ [][Next]_vars

-----------------------------------------------------------------------------
(* Properties *)

TypeOK ==
    /\ db \in Database
    /\ phase \in [Requests -> {"NEW", "OPEN", "DONE"}]
    /\ request \in [Requests -> Request \cup {NoRequest}]
    /\ snapshot \in [Requests -> Database]
    /\ missed \in [Requests -> DocumentSet]

\* What an open transaction has not missed is still as its snapshot shows it,
\* trades included: they never change without their order.  The database and
\* all snapshots keep to the schemas.
SnapshotCurrent ==
    /\ TypeOK
    /\ \A r \in Requests : phase[r] = "OPEN" =>
        /\ \A u \in Users \ missed[r].users :
               snapshot[r].users[u] = db.users[u]
        /\ \A h \in (Users \X Symbols) \ missed[r].positions :
               snapshot[r].positions[h] = db.positions[h]
        /\ \A o \in OrderIds \ missed[r].orders :
               /\ snapshot[r].orders[o] = db.orders[o]
               /\ snapshot[r].trades[o] = db.trades[o]
        /\ \A s \in Symbols \ missed[r].stocks :
               snapshot[r].stocks[s] = db.stocks[s]

\* deleteStock only reads orders, positions and trades, so a reference made
\* since its snapshot is invisible to it; whoever makes one has touched the
\* stock, or had an order on it that the snapshot shows.
DeletionSeesReferences ==
    \A r \in Requests : \A s \in Symbols :
        /\ phase[r] = "OPEN"
        /\ s \notin missed[r].stocks
        /\ HasReferences(db, s)
        => HasReferences(snapshot[r], s)

\* The transactions implement the ledger: each commit is one of its actions.
L == INSTANCE Ledger
ImplementsLedger == L!Spec

\* A user's money is the history of his trades, whatever the transactions that
\* reserved, released and spent it lost and retried on the way.
CashConserved == L!CashConserved
=============================================================================
