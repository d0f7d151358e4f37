---------------------------- MODULE OrderRules ----------------------------
(***************************************************************************)
(* The pure rules an entry goes through before it may be proposed:          *)
(* rounding to the instrument's steps and validation                        *)
(* (domain/instrument_rules.py) and the veto of the risk engine             *)
(* (domain/risk.py).  Prices and quantities are integers in a unit finer    *)
(* than a tick or a quantity step, so that rounding is visible; the         *)
(* contract multiplier of the linear instrument is one.                     *)
(***************************************************************************)
EXTENDS Integers

\* floor_to_step
FloorToStep(value, step) == (value \div step) * step

\* ceil_to_step
CeilToStep(value, step) == -((-value) \div step) * step

\* quantize_limit_price: a passive sell and an aggressive buy round up.
QuantizeLimitPrice(value, tick, side, policy) ==
    IF (side = "Sell") <=> (policy = "PASSIVE")
    THEN CeilToStep(value, tick) ELSE FloorToStep(value, tick)

\* normalize_and_validate_order for a priced order.
NormalizeAndValidate(instrument, side, quantity, price) ==
    LET qty == FloorToStep(quantity, instrument.qtyStep)
        at  == QuantizeLimitPrice(price, instrument.tick, side, "PASSIVE")
    IN [quantity |-> qty,
        price    |-> at,
        accepted |-> /\ instrument.status = "Trading"
                     /\ qty >= instrument.minQty
                     /\ qty <= instrument.maxQty
                     /\ at >= instrument.minPrice
                     /\ at <= instrument.maxPrice
                     /\ qty * at >= instrument.minNotional]

Positive(x) == IF x > 0 THEN x ELSE 0

\* recalculate_quantized_risk for a sell entry, whose exits are buys.
RecalculateQuantizedRisk(validation, instrument, tp, stop, debt, limits) ==
    LET entry     == validation.price
        tpAt      == QuantizeLimitPrice(tp, instrument.tick, "Buy", "PASSIVE")
        stopAt    == QuantizeLimitPrice(stop, instrument.tick, "Buy", "AGGRESSIVE")
        qty       == validation.quantity
        gain      == Positive(entry - tpAt)
        loss      == Positive(stopAt - entry) * qty
        recovery  == IF debt > 0 /\ gain > 0
                     THEN CeilToStep(CeilToStep(debt, gain) \div gain, instrument.qtyStep) ELSE 0
    IN [quantity         |-> qty,
        entry            |-> entry,
        takeProfit       |-> tpAt,
        stop             |-> stopAt,
        notional         |-> entry * qty,
        projectedLoss    |-> loss,
        recoveryQuantity |-> recovery,
        recoveryProfit   |-> recovery * gain,
        accepted         |-> /\ validation.accepted
                             /\ entry > tpAt
                             /\ stopAt > entry
                             /\ debt > 0 => gain > 0
                             /\ entry * qty <= limits.maxNotional
                             /\ loss <= limits.maxStopLoss]

\* RiskEngine.evaluate.  `state.veto` stands for the comparisons the proposal does
\* not enter: margin usage, liquidation distance, realized and daily loss, entries
\* of the level, reconciliation failures, freshness, reconciliation.
RiskApproves(proposal, state, limits) ==
    /\ state.quantity + proposal.quantity <= limits.maxQuantity
    /\ state.notional + proposal.notional <= limits.maxNotional
    /\ state.debt <= limits.maxDebt
    /\ proposal.projectedLoss <= limits.maxStopLoss
    /\ state.activeLevels < limits.maxActiveLevels
    /\ state.requests < limits.maxRequests
    /\ ~state.veto
===========================================================================
