------------------------- MODULE SimulatedExchange -------------------------
(***************************************************************************)
(* The virtual-time exchange the backtests and the application tests run    *)
(* against (backtesting/simulated_exchange.py): orders with acknowledgement,*)
(* visibility and fill delays, seeded rejections, partial fills, duplicate  *)
(* and reordered executions, one net short position, fees, funding, and the *)
(* event ledger from which the cash accounting is replayed.                 *)
(*                                                                          *)
(* The seeded draws are nondeterministic choices.  Prices, fees, funding    *)
(* and slippage are whole ticks; the average entry price is kept as the     *)
(* cost basis of the position in units of 1/Scale tick, which is exact for  *)
(* the bounded number of fills.                                             *)
(***************************************************************************)
EXTENDS Integers, Sequences, SequencesExt, FiniteSetsExt, Functions

CONSTANTS
    Levels,             \* hedge levels, the first part of a client order ID
    Lots,               \* quantity of an entry, in quantity steps
    InitialPrice,
    Prices,             \* market prices the path may visit, in ticks
    StopAt, TakeAt,     \* trigger of the stop and limit of the take-profit
    AmendedTo,          \* the limit a take-profit may be amended to
    AckDelay, VisibilityDelay, FillDelay,
    MakerFee, TakerFee, \* fee per lot and tick
    Spread, EntrySlip, StopSlip,
    FundingRate,
    MaxTime,            \* bound: virtual milliseconds
    MaxMoves,           \* bound: market moves
    MaxOrders,          \* bound: orders accepted
    MaxIncidents        \* bound: rejections, duplicates, fundings and disconnects together

\* The configuration rejects negative delays, rates and costs; a trigger is a price.
ASSUME SimConstants ==
    /\ Lots \in Nat \ {0} /\ InitialPrice \in Nat /\ Prices \subseteq Nat
    /\ StopAt \in Nat /\ TakeAt \in Nat /\ AmendedTo \in Nat
    /\ AckDelay \in Nat /\ VisibilityDelay \in Nat /\ FillDelay \in Nat
    /\ MakerFee \in Nat /\ TakerFee \in Nat
    /\ Spread \in Nat /\ EntrySlip \in Nat /\ StopSlip \in Nat
    /\ FundingRate \in Int

Scale == 12
Unset == -1

Roles == {"ENTRY", "TP", "STOP", "EC"}
LevelLinks == Levels \X Roles
Active == {"New", "Untriggered", "PartiallyFilled"}

VARIABLES
    now,                \* _now_ms
    market,             \* _market_price
    moves,              \* _market_sequence
    orders,             \* _orders, in insertion order
    execs,              \* _executions, which are also the EXECUTION events of the ledger
    queue,              \* _delivery_queue, indices of execs
    received,           \* history: executions some drain returned
    position,           \* _position_quantity
    basis,              \* Scale * _position_average_price * _position_quantity
    realized,           \* Scale * _realized_pnl
    fees,               \* _entry_fees, _exit_fees, _tp_fees, _stop_fees
    slippage,           \* _entry_slippage, _stop_slippage, _spread_cost
    fundings,           \* the FUNDING_APPLIED payments of the ledger
    funding,            \* _funding
    counts,             \* _rejection_count, _partial_fill_count, _duplicate_event_count
    privateUp,          \* _private_connected
    drops,              \* history: private disconnects
    unprotectedSince,   \* _unprotected_since_ms
    maxUnprotected      \* _maximum_unprotected_ms

exchangeVars == <<orders, execs, queue, position, basis, realized, fees, slippage,
                  counts, unprotectedSince, maxUnprotected>>
marketVars == <<now, market, moves>>
clientVars == <<received, privateUp, drops>>
simVars == <<exchangeVars, marketVars, clientVars, fundings, funding>>

---------------------------------------------------------------------------
\* Requests: what a client order ID's role fixes about its order.

\* The fixed fields of the requests the application places: a market entry that
\* sells, and reduce-only buys: a conditional market stop, a resting limit, a
\* market close.
PlaceOrderRequest(link, qty) ==
    [link    |-> link,
     qty     |-> qty,
     side    |-> IF link[2] = "ENTRY" THEN "Sell" ELSE "Buy",
     type    |-> IF link[2] = "TP" THEN "Limit" ELSE "Market",
     reduce  |-> link[2] # "ENTRY",
     ioc     |-> link[2] # "TP",
     trigger |-> IF link[2] = "STOP" THEN StopAt ELSE Unset,
     price   |-> IF link[2] = "TP" THEN TakeAt ELSE Unset]

HasOrder(link) == \E i \in DOMAIN orders : orders[i].req.link = link
OrderOf(link) == CHOOSE i \in DOMAIN orders : orders[i].req.link = link

Bid(price) == price - Spread
Ask(price) == price + Spread

---------------------------------------------------------------------------
\* The pass over the orders.  `x` is the part of the state the pass changes.

Exchange ==
    [orders |-> orders, execs |-> execs, queue |-> queue,
     account |-> [position |-> position, basis |-> basis, realized |-> realized, fees |-> fees],
     slippage |-> slippage, counts |-> counts,
     clock |-> [since |-> unprotectedSince, worst |-> maxUnprotected]]

\* _has_active_stop
HasActiveStop(book) ==
    \E i \in DOMAIN book : book[i].status \in Active /\ book[i].req.link[2] = "STOP"

\* _current_maximum_unprotected
CurrentMaximum(clock, time) ==
    IF clock.since = Unset THEN clock.worst ELSE Max({clock.worst, time - clock.since})

\* _update_protection_state: the clock, given the position and the orders.
UpdateProtectionState(clock, held, book, time) ==
    LET unprotected == held > 0 /\ ~HasActiveStop(book)
    IN CASE unprotected /\ clock.since = Unset -> [since |-> time, worst |-> clock.worst]
         [] ~unprotected /\ clock.since # Unset ->
              [since |-> Unset, worst |-> CurrentMaximum(clock, time)]
         [] OTHER -> clock

\* _eligible: the trigger is compared with the present price and is not latched.
Eligible(req, price) ==
    /\ req.trigger # Unset => price >= req.trigger
    /\ req.type = "Limit" => Ask(price) <= req.price

\* _execution_price: the first available price and the price of the fill.
FirstAvailable(req, price) == IF req.side = "Sell" THEN Bid(price) ELSE Ask(price)
FillPrice(req, price) ==
    CASE req.link[2] = "ENTRY" -> FirstAvailable(req, price) - EntrySlip
      [] req.link[2] = "STOP" -> FirstAvailable(req, price) + StopSlip
      [] OTHER -> FirstAvailable(req, price)

\* _apply_position: a sell extends the short position at its average price; a
\* buy realizes the difference on what it closes.
ApplyPosition(a, e) ==
    LET closed == Min({e.qty, a.position})
        cost   == IF closed = 0 THEN 0 ELSE (a.basis * closed) \div a.position
        role   == e.link[2]
    IN IF e.side = "Sell"
       THEN [position |-> a.position + e.qty,
             basis    |-> a.basis + Scale * (e.price * e.qty),
             realized |-> a.realized,
             fees     |-> [a.fees EXCEPT !.entry = @ + e.fee]]
       ELSE [position |-> a.position - closed,
             basis    |-> IF closed = a.position THEN 0 ELSE a.basis - cost,
             realized |-> a.realized + cost - Scale * (e.price * closed),
             fees     |-> [entry |-> a.fees.entry,
                           exit  |-> a.fees.exit + e.fee,
                           tp    |-> a.fees.tp + (IF role = "TP" THEN e.fee ELSE 0),
                           stop  |-> a.fees.stop + (IF role = "STOP" THEN e.fee ELSE 0)]]

\* _record_cost
RecordCost(cost, e, first) ==
    LET model == (IF e.price > first THEN e.price - first ELSE first - e.price) * e.qty
        role  == e.link[2]
    IN [spread |-> cost.spread + Spread * e.qty,
        entry  |-> cost.entry + (IF role = "ENTRY" THEN model ELSE 0),
        stop   |-> cost.stop + (IF role = "STOP" THEN model ELSE 0)]

\* fault: the reduce-only flag is ignored.
RemainingUnbounded(x, o) == o.req.qty - o.filled

\* The quantity a reduce-only order may still fill is bounded by the position.
Remaining(x, o) ==
    IF o.req.reduce THEN Min({o.req.qty - o.filled, x.account.position})
    ELSE o.req.qty - o.filled

\* The pass state with the order at index i cancelled.
WithCancelled(x, i) ==
    [x EXCEPT !.orders = [x.orders EXCEPT ![i] = [x.orders[i] EXCEPT !.status = "Cancelled"]]]

\* Whether a planned partial fill happens now, and the quantity of a fill.
FillsPartly(x, o) ==
    o.partial = "planned" /\ 0 < o.req.qty \div 2 /\ o.req.qty \div 2 < Remaining(x, o)
FillQuantity(x, o) == IF FillsPartly(x, o) THEN o.req.qty \div 2 ELSE Remaining(x, o)

\* The execution of a quantity of an order, and the order after it.
ExecutionUpdate(o, qty, price) ==
    LET at == FillPrice(o.req, price)
    IN [link |-> o.req.link, side |-> o.req.side, qty |-> qty, price |-> at,
        fee |-> at * qty * (IF o.req.type = "Limit" THEN MakerFee ELSE TakerFee)]
AfterFill(o, qty, partly) ==
    [req |-> o.req, created |-> o.created,
     filled  |-> o.filled + qty,
     partial |-> IF partly THEN "done" ELSE o.partial,
     status  |-> IF o.filled + qty = o.req.qty THEN "Filled" ELSE "PartiallyFilled"]

\* _fill_order of the order at index i; the execution is delivered twice when
\* the draw for its order says so.
FillOrder(x, i, price, time, twice) ==
    LET o       == x.orders[i]
        partly  == FillsPartly(x, o)
        e       == ExecutionUpdate(o, FillQuantity(x, o), price)
        n       == Len(x.execs) + 1
        book    == [x.orders EXCEPT ![i] = AfterFill(o, e.qty, partly)]
        account == ApplyPosition(x.account, e)
    IN IF Remaining(x, o) <= 0 THEN WithCancelled(x, i)
       ELSE [orders   |-> book,
             execs    |-> Append(x.execs, e),
             queue    |-> IF twice THEN x.queue \o <<n, n>> ELSE Append(x.queue, n),
             account  |-> account,
             slippage |-> RecordCost(x.slippage, e, FirstAvailable(o.req, price)),
             counts   |-> [rejected  |-> x.counts.rejected,
                           partial   |-> x.counts.partial + (IF partly THEN 1 ELSE 0),
                           duplicate |-> x.counts.duplicate + (IF twice THEN 1 ELSE 0)],
             clock    |-> UpdateProtectionState(x.clock, account.position, book, time)]

\* One order of _process_orders.
ProcessOrder(x, i, price, time, duplicated) ==
    LET o == x.orders[i]
    IN IF o.status \notin Active \/ time < o.created + FillDelay THEN x
       ELSE IF Eligible(o.req, price)
       THEN FillOrder(x, i, price, time, o.req.link \in duplicated)
       ELSE IF o.req.ioc /\ o.req.trigger = Unset THEN WithCancelled(x, i) ELSE x

\* _process_orders
ProcessOrders(x, price, time, duplicated) ==
    LET pass[i \in 0..Len(x.orders)] ==
          IF i = 0 THEN x ELSE ProcessOrder(pass[i - 1], i, price, time, duplicated)
    IN pass[Len(x.orders)]

Install(x) ==
    /\ orders' = x.orders /\ execs' = x.execs /\ queue' = x.queue
    /\ position' = x.account.position /\ basis' = x.account.basis
    /\ realized' = x.account.realized /\ fees' = x.account.fees
    /\ slippage' = x.slippage /\ counts' = x.counts
    /\ unprotectedSince' = x.clock.since /\ maxUnprotected' = x.clock.worst

\* The state with other orders, the protection clock updated.
WithOrders(book) ==
    [Exchange EXCEPT !.orders = book,
                     !.clock = UpdateProtectionState(Exchange.clock, position, book, now)]

\* advance_time from the state x: the clock, the running maximum, the pass.
AdvanceTime(x, elapsed, price, duplicated) ==
    LET time == now + elapsed
    IN /\ time <= MaxTime
       /\ now' = time
       /\ Install(ProcessOrders(
              [x EXCEPT !.clock = [since |-> x.clock.since, worst |-> CurrentMaximum(x.clock, time)]],
              price, time, duplicated))

---------------------------------------------------------------------------
SimInit ==
    /\ now = 0
    /\ market = InitialPrice
    /\ moves = 0
    /\ orders = <<>> /\ execs = <<>> /\ queue = <<>>
    /\ received = {}
    /\ position = 0 /\ basis = 0 /\ realized = 0
    /\ fees = [entry |-> 0, exit |-> 0, tp |-> 0, stop |-> 0]
    /\ slippage = [entry |-> 0, stop |-> 0, spread |-> 0]
    /\ fundings = <<>> /\ funding = 0
    /\ counts = [rejected |-> 0, partial |-> 0, duplicate |-> 0]
    /\ privateUp = TRUE /\ drops = 0
    /\ unprotectedSince = Unset /\ maxUnprotected = 0

Incidents == counts.rejected + counts.duplicate + Len(fundings) + drops

\* The quantity the application asks for: an entry sells its lots, an exit
\* covers what its entry filled, an emergency close covers the position.
RequestQuantity(link) ==
    LET entryLink == <<link[1], "ENTRY">>
    IN CASE link[2] = "ENTRY" -> Lots
         [] link[2] = "EC" -> position
         [] OTHER -> IF HasOrder(entryLink) THEN orders[OrderOf(entryLink)].filled ELSE 0

\* place_order rejected before an order exists.
PlaceOrderRejected(link) ==
    /\ ~HasOrder(link)
    /\ RequestQuantity(link) > 0
    /\ Incidents < MaxIncidents
    /\ counts' = [counts EXCEPT !.rejected = @ + 1]
    /\ UNCHANGED <<orders, execs, queue, position, basis, realized, fees, slippage,
                   unprotectedSince, maxUnprotected, marketVars, clientVars,
                   fundings, funding>>

\* place_order: the order is booked and the acknowledgement delay passes, and
\* with it a pass over the orders.  A used client order ID is refused; whether
\* the acknowledgement is lost does not change the exchange.  Half of one lot
\* rounds down to nothing, so a partial fill is planned for larger orders only.
PlaceOrder(link, planned, duplicated) ==
    LET order == [req |-> PlaceOrderRequest(link, RequestQuantity(link)),
                  status |-> IF link[2] = "STOP" THEN "Untriggered" ELSE "New",
                  filled |-> 0,
                  created |-> now,
                  partial |-> IF planned THEN "planned" ELSE "no"]
    IN /\ ~HasOrder(link) /\ Len(orders) < MaxOrders
       /\ RequestQuantity(link) > (IF planned THEN 1 ELSE 0)
       /\ AdvanceTime(WithOrders(Append(orders, order)), AckDelay, market, duplicated)
       /\ UNCHANGED <<market, moves, clientVars, fundings, funding>>

\* amend_order: the take-profit is moved to a marketable limit.
AmendOrder(level) ==
    LET i == OrderOf(<<level, "TP">>)
    IN /\ HasOrder(<<level, "TP">>)
       /\ orders[i].status \in Active
       /\ orders[i].req.price # AmendedTo
       /\ orders' = [orders EXCEPT ![i].req.price = AmendedTo]
       /\ UNCHANGED <<execs, queue, position, basis, realized, fees, slippage, counts,
                      unprotectedSince, maxUnprotected, marketVars, clientVars,
                      fundings, funding>>

CancelLinked(book, links) ==
    [i \in DOMAIN book |-> IF book[i].req.link \in links /\ book[i].status \in Active
                           THEN [book[i] EXCEPT !.status = "Cancelled"] ELSE book[i]]

\* get_open_orders: an order is listed once its visibility delay has passed.
OpenOrders ==
    {orders[i].req.link : i \in {j \in DOMAIN orders :
        now >= orders[j].created + VisibilityDelay /\ orders[j].status \in Active}}

\* cancel_order, asked for the exits that get_open_orders lists.
CancelOrder(link) ==
    /\ link[2] \in {"TP", "STOP"} /\ link \in OpenOrders
    /\ Install(WithOrders(CancelLinked(orders, {link})))
    /\ UNCHANGED <<marketVars, clientVars, fundings, funding>>

\* fault: the protection state is not updated after the cancels.
CancelAllSilently ==
    /\ orders # <<>>
    /\ Install([Exchange EXCEPT !.orders = CancelLinked(orders, LevelLinks)])
    /\ UNCHANGED <<marketVars, clientVars, fundings, funding>>

\* cancel_all
CancelAll ==
    /\ orders # <<>>
    /\ Install(WithOrders(CancelLinked(orders, LevelLinks)))
    /\ UNCHANGED <<marketVars, clientVars, fundings, funding>>

\* advance_time called by the simulation.
Wait(duplicated) ==
    /\ AdvanceTime(Exchange, 1, market, duplicated)
    /\ UNCHANGED <<market, moves, clientVars, fundings, funding>>

\* advance_market
AdvanceMarket(price, duplicated) ==
    /\ moves < MaxMoves
    /\ price # market
    /\ market' = price
    /\ moves' = moves + 1
    /\ AdvanceTime(Exchange, 1, price, duplicated)
    /\ UNCHANGED <<clientVars, fundings, funding>>

\* set_private_connected
SetPrivateConnected ==
    /\ privateUp' = ~privateUp
    /\ privateUp => Incidents < MaxIncidents
    /\ drops' = IF privateUp THEN drops + 1 ELSE drops
    /\ UNCHANGED <<exchangeVars, marketVars, received, fundings, funding>>

\* fault: the queue is cleared whether or not the stream is up.
DrainWhileDown ==
    /\ queue # <<>>
    /\ received' = IF privateUp THEN received \cup ToSet(queue) ELSE received
    /\ queue' = <<>>
    /\ UNCHANGED <<orders, execs, position, basis, realized, fees, slippage, counts,
                   unprotectedSince, maxUnprotected, marketVars, privateUp,
                   drops, fundings, funding>>

\* drain_execution_events: nothing while the private stream is down, otherwise
\* the whole queue (a seeded reversal changes the order within the batch only).
DrainExecutionEvents ==
    /\ privateUp /\ queue # <<>>
    /\ received' = received \cup ToSet(queue)
    /\ queue' = <<>>
    /\ UNCHANGED <<orders, execs, position, basis, realized, fees, slippage, counts,
                   unprotectedSince, maxUnprotected, marketVars, privateUp,
                   drops, fundings, funding>>

\* apply_funding on the present position.
ApplyFunding ==
    LET payment == position * market * FundingRate
    IN /\ Incidents < MaxIncidents
       /\ position > 0
       /\ fundings' = Append(fundings, payment)
       /\ funding' = funding + payment
       /\ UNCHANGED <<exchangeVars, marketVars, clientVars>>

\* The order whose fill of the coming pass is delivered twice, if any: one that
\* works, or the one just placed.
Working == {orders[i].req.link : i \in {j \in DOMAIN orders : orders[j].status \in Active}}
Draws(links) == {{}} \cup {{link} : link \in IF Incidents < MaxIncidents THEN links ELSE {}}

SimNext ==
    \/ \E link \in LevelLinks :
         \/ PlaceOrderRejected(link)
         \/ \E planned \in BOOLEAN, duplicated \in Draws(Working \cup {link}) :
              PlaceOrder(link, planned, duplicated)
         \/ CancelOrder(link)
    \/ \E level \in Levels : AmendOrder(level)
    \/ CancelAll
    \/ \E duplicated \in Draws(Working) :
         \/ Wait(duplicated)
         \/ \E price \in Prices : AdvanceMarket(price, duplicated)
    \/ SetPrivateConnected
    \/ DrainExecutionEvents
    \/ ApplyFunding

SimSpec == SimInit /\ [][SimNext]_simVars
---------------------------------------------------------------------------
\* Accounts.

\* metrics.net_hedge_pnl, scaled.
NetHedgePnl == realized + Scale * (funding - fees.entry - fees.exit)

\* get_wallet_state: equity above the initial balance, scaled.
WalletEquity == NetHedgePnl

\* replay_simulated_financials, one EXECUTION event.
ReplayEvent(r, e) ==
    LET closed == Min({e.qty, r.position})
        cost   == IF closed = 0 THEN 0 ELSE (r.basis * closed) \div r.position
        role   == e.link[2]
    IN IF e.side = "Sell"
       THEN [position |-> r.position + e.qty, basis |-> r.basis + Scale * (e.price * e.qty),
             gross |-> r.gross, entry |-> r.entry + e.fee, tp |-> r.tp, stop |-> r.stop]
       ELSE [position |-> r.position - closed,
             basis |-> IF closed = r.position THEN 0 ELSE r.basis - cost,
             gross |-> r.gross + cost - Scale * (e.price * closed),
             entry |-> r.entry,
             tp |-> r.tp + (IF role = "TP" THEN e.fee ELSE 0),
             stop |-> r.stop + (IF role = "STOP" THEN e.fee ELSE 0)]

\* replay_simulated_financials over the executions of the ledger.
Replayed(log) ==
    LET after[i \in 0..Len(log)] ==
          IF i = 0 THEN [position |-> 0, basis |-> 0, gross |-> 0, entry |-> 0, tp |-> 0, stop |-> 0]
          ELSE ReplayEvent(after[i - 1], log[i])
    IN after[Len(log)]
ReplayedFunding == SumFunction(fundings)

---------------------------------------------------------------------------
\* Properties.

\* What one execution adds to the position, and to the cash.
Bought(e) == e.side = "Buy"
PositionFlow(log) == [i \in DOMAIN log |-> IF Bought(log[i]) THEN -log[i].qty ELSE log[i].qty]
CashFlow(log) ==
    [i \in DOMAIN log |->
       (IF Bought(log[i]) THEN -(log[i].price * log[i].qty) ELSE log[i].price * log[i].qty)
         - log[i].fee]

\* The stop and the take-profit of a level, the exits of another level and an
\* emergency close may all be live at once; however they fill, in whatever
\* order of the pass, the position is exactly what was sold minus what was
\* bought, is never negative, and no order fills more than its quantity
\* (_fill_order's reduce-only bound against _apply_position's own).
PositionIsNet ==
    /\ position >= 0
    /\ position = SumFunction(PositionFlow(execs))
    /\ \A i \in DOMAIN orders :
         /\ orders[i].filled <= orders[i].req.qty
         /\ orders[i].status = "Filled" <=> orders[i].filled = orders[i].req.qty

\* The equity reported to the wallet is explained by cash: what the sells
\* brought in, less what the buys paid, less every fee, plus funding, less the
\* cost basis of what is still open.  The average-price accounting of
\* _apply_position never creates or loses money across partial closes and
\* entries at different prices.
EquityIsCash ==
    WalletEquity = Scale * (SumFunction(CashFlow(execs)) + funding) - basis

\* Every execution reaches the private stream's reader: it is queued or was
\* drained, through disconnects and duplicates, and what was drained never
\* comes back.
ExecutionsReachReader ==
    /\ received \cup ToSet(queue) = DOMAIN execs
    /\ received \cap ToSet(queue) = {}

\* The clock behind maximum_unprotected_ms, which the acceptance gate compares
\* with 1000 ms, runs exactly while a position is open with no active stop: no
\* fill, cancel, rejected or late stop leaves it stopped or running wrongly.
UnprotectedClockRuns ==
    unprotectedSince # Unset <=> position > 0 /\ ~HasActiveStop(orders)

\* What the replay does rebuild whatever closes the position: the gross result,
\* the entry, take-profit and stop fees, and the funding.
ReplayRebuildsGross ==
    LET r == Replayed(execs)
    IN /\ r.gross = realized /\ r.position = position
       /\ r.entry = fees.entry /\ r.tp = fees.tp /\ r.stop = fees.stop
       /\ ReplayedFunding = funding

\* The position, the wallet and the replay of the ledger tell the same story.
BooksBalance == PositionIsNet /\ EquityIsCash /\ ReplayRebuildsGross
============================================================================
