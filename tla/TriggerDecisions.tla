-------------------------- MODULE TriggerDecisions --------------------------
(***************************************************************************)
(* From a trade on the public stream to a decision to enter: the router of  *)
(* trigger prices, the market-data health check, and the two consumers that *)
(* infer a downward crossing of a level from consecutive prices:            *)
(*   - ShadowModeService, which evaluates every level and records intents   *)
(*     (application/shadow_mode.py, driven by interfaces/shadow_runner.py);  *)
(*   - OneLevelCoordinator, which submits at most one entry                 *)
(*     (application/one_level_coordinator.py).                              *)
(* Both see the same events here; each keeps its own segment of prices.     *)
(***************************************************************************)
EXTENDS Integers, Sequences, FiniteSets, Functions, OrderRules

CONSTANTS
    LevelCount,         \* levels, highest entry first
    Entry, TakeProfit, StopLoss,   \* the prices of a level: TakeProfit < Entry < StopLoss
    Prices,             \* prices a trade may have
    Instrument, Limits, \* instrument filters and risk limits
    Desired,            \* quantity asked for, before rounding
    RiskStates,         \* risk states the provider may return
    MaxAge,             \* max_trigger_age_seconds
    MaxTradeGeneration, \* bound: connection generations
    MaxEvents           \* bound: observed trades

\* What the constructors reject: a tick, a step, a minimum quantity or a desired
\* quantity that is not positive, and a risk state or limit that is negative
\* (PriceFilter, LotSizeFilter, ShadowModeService, RiskState, RiskLimits).
ASSUME TriggerConstants ==
    /\ LevelCount \in Nat \ {0} /\ Prices \subseteq Nat
    /\ Entry \in [1..LevelCount -> Nat] /\ TakeProfit \in [1..LevelCount -> Nat]
    /\ StopLoss \in [1..LevelCount -> Nat]
    /\ Instrument.tick \in Nat \ {0} /\ Instrument.qtyStep \in Nat \ {0}
    /\ Instrument.minQty \in Nat \ {0} /\ Instrument.maxQty \in Nat
    /\ Instrument.minPrice \in Nat /\ Instrument.maxPrice \in Nat /\ Instrument.minNotional \in Nat
    /\ Limits \in [maxQuantity : Nat, maxNotional : Nat, maxDebt : Nat, maxStopLoss : Nat,
                   maxActiveLevels : Nat, maxRequests : Nat]
    /\ Desired \in Nat \ {0}
    /\ RiskStates \subseteq [quantity : Nat, notional : Nat, debt : Nat, activeLevels : Nat,
                             requests : Nat, veto : BOOLEAN]
    /\ RiskStates # {}

LevelIds == 1..LevelCount
None == 0

VARIABLES
    tradeGeneration,    \* generation of the public connection
    events,             \* observed trades, counted
    previous, segment,  \* _previous_price and _connection_generation of the shadow
    armed, decided,     \* _armed and _decided_levels
    intents,            \* history: the intents, in sequence
    batch,              \* the last on_trigger: the risk state it was given, its intents
    coordinator,        \* OneLevelCoordinator's own segment, armed and submitted flags
    requests,           \* history: entries the coordinator submitted
    gateOpen, spreadOpen, levelReady,   \* what the coordinator asks before it submits
    previousGeneration  \* history: the connection `previous` was observed on

shadowVars == <<previous, segment, armed, decided, intents, batch>>
coordinatorVars == <<coordinator, requests>>
askedVars == <<gateOpen, spreadOpen, levelReady>>
triggerVars == <<tradeGeneration, events, shadowVars, coordinatorVars, askedVars, previousGeneration>>

---------------------------------------------------------------------------
\* Health.

\* _is_fresh: an age that is negative (a clock behind the exchange) is not fresh.
IsFresh(age, maximum) == 0 <= age /\ age <= maximum

\* What the health provider samples for a trade.
GoodSnapshot == [triggerAge |-> 0, instrument |-> TRUE, connected |-> TRUE,
                 quoteAges |-> {0}, bookRequired |-> FALSE, bookSynchronized |-> FALSE,
                 bookAge |-> None, clock |-> TRUE]

\* Healthy snapshots (one limit stands for the three ages), and one for each reason evaluate_market_data_health gives.
Snapshots ==
    {GoodSnapshot, [GoodSnapshot EXCEPT !.triggerAge = MaxAge],
     [GoodSnapshot EXCEPT !.bookRequired = TRUE, !.bookSynchronized = TRUE]}
    \cup {[GoodSnapshot EXCEPT !.triggerAge = MaxAge + 1], [GoodSnapshot EXCEPT !.triggerAge = -1],
          [GoodSnapshot EXCEPT !.instrument = FALSE], [GoodSnapshot EXCEPT !.connected = FALSE],
          [GoodSnapshot EXCEPT !.quoteAges = {}], [GoodSnapshot EXCEPT !.quoteAges = {0, MaxAge + 1}],
          [GoodSnapshot EXCEPT !.bookRequired = TRUE],
          [GoodSnapshot EXCEPT !.bookRequired = TRUE, !.bookSynchronized = TRUE, !.bookAge = MaxAge + 1],
          [GoodSnapshot EXCEPT !.clock = FALSE]}

\* evaluate_market_data_health
TradingAllowed(s) ==
    /\ IsFresh(s.triggerAge, MaxAge)
    /\ s.instrument
    /\ s.connected
    /\ s.quoteAges # {} /\ \A age \in s.quoteAges : IsFresh(age, MaxAge)
    /\ s.bookRequired => s.bookSynchronized /\ IsFresh(s.bookAge, MaxAge)
    /\ s.clock

---------------------------------------------------------------------------
\* Evaluation of one crossed level.

\* The rounding and validation both consumers apply before they ask for risk.
Quantized(level, risk) ==
    RecalculateQuantizedRisk(
        NormalizeAndValidate(Instrument, "Sell", Desired, Entry[level]),
        Instrument, TakeProfit[level], StopLoss[level], risk.debt, Limits)

\* _evaluate: the intent for a level, under the risk state given.
Evaluate(level, risk, current, g) ==
    LET q == Quantized(level, risk)
    IN [level |-> level, quantity |-> q.quantity, entry |-> q.entry, stop |-> q.stop,
        notional |-> q.notional, loss |-> q.projectedLoss,
        approved |-> q.accepted /\ RiskApproves(q, risk, Limits),
        from |-> previous, to |-> current,
        fromGeneration |-> previousGeneration, generation |-> g]

\* fault: every level of a trade is evaluated under the state before the trade.
AfterApprovalForgotten(risk, intent) == risk

\* The risk state the next level of the same trade is evaluated under.
AfterApproval(risk, intent) ==
    [quantity |-> risk.quantity + intent.quantity,
     notional |-> risk.notional + intent.quantity * intent.entry,
     debt |-> risk.debt,
     activeLevels |-> risk.activeLevels + 1,
     requests |-> risk.requests + 1,
     veto |-> risk.veto]

\* One crossed level of on_trigger's loop.
DecideLevel(acc, level, current, g) ==
    LET intent == Evaluate(level, acc.risk, current, g)
    IN [intents |-> Append(acc.intents, intent),
        decided |-> IF intent.approved THEN acc.decided \cup {level} ELSE acc.decided,
        risk    |-> IF intent.approved THEN AfterApproval(acc.risk, intent) ELSE acc.risk]

\* _reset_segment
ResetSegment(price, g) ==
    /\ segment' = g
    /\ previous' = price
    /\ armed' = [l \in LevelIds |-> l \notin decided /\ price >= Entry[l]]
    /\ UNCHANGED <<decided, intents, batch>>

\* The levels armed once a price has been seen, and those it crosses.
ArmedBy(price) == [l \in LevelIds |-> armed[l] \/ (price >= Entry[l] /\ l \notin decided)]
Crossed(price) ==
    {l \in LevelIds : ArmedBy(price)[l] /\ previous > Entry[l] /\ price <= Entry[l]}

\* The loop of on_trigger over the levels crossed, highest entry first.
DecideLevels(price, g, risk) ==
    LET after[l \in 0..LevelCount] ==
          IF l = 0 THEN [intents |-> <<>>, decided |-> decided, risk |-> risk]
          ELSE IF l \in Crossed(price) THEN DecideLevel(after[l - 1], l, price, g)
          ELSE after[l - 1]
    IN after[LevelCount]

\* fault: a new connection generation does not start a new segment.
ShadowOnTriggerJoins(price, g, risk) ==
    IF segment = None THEN ResetSegment(price, g)
    ELSE IF g < segment THEN UNCHANGED shadowVars
    ELSE LET result == DecideLevels(price, g, risk)
         IN /\ armed' = [l \in LevelIds |-> ArmedBy(price)[l] /\ l \notin Crossed(price)]
            /\ previous' = price
            /\ decided' = result.decided
            /\ intents' = intents \o result.intents
            /\ batch' = [risk |-> risk, intents |-> result.intents]
            /\ segment' = g

\* ShadowModeService.on_trigger for a healthy LAST_TRADE event of its symbol.
ShadowOnTrigger(price, g, risk) ==
    IF segment = None \/ g > segment THEN ResetSegment(price, g)
    ELSE IF g < segment THEN UNCHANGED shadowVars
    ELSE LET result == DecideLevels(price, g, risk)
         IN /\ armed' = [l \in LevelIds |-> ArmedBy(price)[l] /\ l \notin Crossed(price)]
            /\ previous' = price
            /\ decided' = result.decided
            /\ intents' = intents \o result.intents
            /\ batch' = [risk |-> risk, intents |-> result.intents]
            /\ UNCHANGED segment

\* OneLevelCoordinator.on_trigger: the same segment logic for level 1, a gate, and
\* one submission for the life of the coordinator.
CoordinatorOnTrigger(price, g, risk) ==
    LET c       == coordinator
        arming  == c.armed \/ (price >= Entry[1] /\ ~c.submitted)
        crosses == arming /\ c.previous > Entry[1] /\ price <= Entry[1]
        q       == Quantized(1, risk)
        submits == /\ crosses /\ ~c.submitted
                   /\ gateOpen /\ levelReady /\ spreadOpen
                   /\ q.accepted /\ RiskApproves(q, risk, Limits)
    IN IF c.segment = None \/ g > c.segment
       THEN /\ coordinator' = [c EXCEPT !.segment = g, !.previous = price,
                                        !.armed = ~c.submitted /\ price >= Entry[1]]
            /\ UNCHANGED requests
       ELSE IF g < c.segment THEN UNCHANGED coordinatorVars
       ELSE /\ coordinator' = [c EXCEPT !.previous = price,
                                        !.armed = arming /\ ~crosses,
                                        !.submitted = c.submitted \/ submits]
            /\ requests' = IF submits THEN requests + 1 ELSE requests

---------------------------------------------------------------------------
TriggerInit ==
    /\ tradeGeneration = 1
    /\ events = 0
    /\ previous = None /\ segment = None
    /\ armed = [l \in LevelIds |-> FALSE]
    /\ decided = {} /\ intents = <<>>
    /\ batch = [risk |-> CHOOSE r \in RiskStates : TRUE, intents |-> <<>>]
    /\ coordinator = [segment |-> None, previous |-> None, armed |-> FALSE, submitted |-> FALSE]
    /\ requests = 0
    /\ gateOpen = TRUE /\ spreadOpen = TRUE /\ levelReady = TRUE
    /\ previousGeneration = None

\* A trade the runner observes: routed as a LAST_TRADE trigger of generation g,
\* with the health and the risk state sampled for it.
HealthyTrade(price, g, risk) ==
    /\ events < MaxEvents
    /\ events' = events + 1
    /\ g \in 1..tradeGeneration
    /\ ShadowOnTrigger(price, g, risk)
    /\ CoordinatorOnTrigger(price, g, risk)
    /\ previousGeneration' = IF g < segment THEN previousGeneration ELSE g
    /\ UNCHANGED <<tradeGeneration, askedVars>>

\* A trade with an unhealthy snapshot: both consumers return before they touch
\* their segment.
UnhealthyTrade ==
    /\ events < MaxEvents
    /\ events' = events + 1
    /\ UNCHANGED <<tradeGeneration, shadowVars, coordinatorVars, askedVars, previousGeneration>>

\* The runner's observation: the health of the snapshot decides.
Observe(snapshot) ==
    \/ /\ TradingAllowed(snapshot)
       /\ \E price \in Prices, g \in 1..MaxTradeGeneration, risk \in RiskStates :
            HealthyTrade(price, g, risk)
    \/ ~TradingAllowed(snapshot) /\ UnhealthyTrade

\* The public stream reconnects.
TradesReconnect ==
    /\ tradeGeneration < MaxTradeGeneration
    /\ tradeGeneration' = tradeGeneration + 1
    /\ UNCHANGED <<events, shadowVars, coordinatorVars, askedVars, previousGeneration>>

\* The kill switch, the option position and the level change under the coordinator.
KillSwitchMoves == gateOpen' = ~gateOpen /\ UNCHANGED <<spreadOpen, levelReady>>
SpreadCloses == spreadOpen /\ spreadOpen' = FALSE /\ UNCHANGED <<gateOpen, levelReady>>
LevelBusy == levelReady /\ levelReady' = FALSE /\ UNCHANGED <<gateOpen, spreadOpen>>
AskedChanges ==
    /\ KillSwitchMoves \/ SpreadCloses \/ LevelBusy
    /\ UNCHANGED <<tradeGeneration, events, shadowVars, coordinatorVars, previousGeneration>>

TriggerNext ==
    \/ \E snapshot \in Snapshots : Observe(snapshot)
    \/ TradesReconnect
    \/ AskedChanges

TriggerSpec == TriggerInit /\ [][TriggerNext]_triggerVars

---------------------------------------------------------------------------
\* Properties.

Approved == {i \in DOMAIN intents : intents[i].approved}

\* A level is decided once: however prices oscillate around it, across
\* reconnections that rebuild the armed flags, and after vetoed attempts, at most
\* one intent of a level is approved, and the coordinator submits at most one entry.
DecidedOnce ==
    /\ \A i, j \in Approved : intents[i].level = intents[j].level => i = j
    /\ requests <= 1

\* One trade may cross several levels.  Together with the state the risk provider
\* reported, all the approvals of that trade respect the limits on quantity,
\* notional, active levels and order requests.
BatchWithinLimits ==
    LET ok == {i \in DOMAIN batch.intents : batch.intents[i].approved}
        quantities == [i \in ok |-> batch.intents[i].quantity]
        notionals == [i \in ok |-> batch.intents[i].notional]
    IN ok # {} =>
       /\ batch.risk.quantity + SumFunction(quantities) <= Limits.maxQuantity
       /\ batch.risk.notional + SumFunction(notionals) <= Limits.maxNotional
       /\ batch.risk.activeLevels + Cardinality(ok) <= Limits.maxActiveLevels
       /\ batch.risk.requests + Cardinality(ok) <= Limits.maxRequests

\* Rounding never turns a proposal the limits forbid into one they allow: the
\* quantity is no more than what was asked, the level's own stop, before rounding,
\* loses no more than the limit, and the order is one the instrument accepts.
ApprovedIsSafe ==
    \A i \in Approved :
       LET n == intents[i]
       IN /\ 0 < n.quantity /\ n.quantity <= Desired /\ n.quantity % Instrument.qtyStep = 0
          /\ n.quantity * (StopLoss[n.level] - n.entry) <= Limits.maxStopLoss
          /\ n.stop >= StopLoss[n.level] /\ n.entry >= Entry[n.level]
          /\ n.quantity * n.entry >= Instrument.minNotional

\* A crossing is inferred only between two prices of one connection, and the
\* level lies between them: a price from before a reconnection is never joined
\* with one from after it.
SegmentsAreNotJoined ==
    \A i \in DOMAIN intents :
       LET n == intents[i]
       IN /\ n.from > Entry[n.level] /\ n.to <= Entry[n.level]
          /\ n.fromGeneration = n.generation

\* The quantity that recovers a debt covers it and is not a step larger than
\* needed, for every debt up to the limit and every level.
RecoveryCoversDebt ==
    \A i \in DOMAIN intents : \A debt \in 1..Limits.maxDebt :
       LET q == Quantized(intents[i].level, [batch.risk EXCEPT !.debt = debt])
           gain == q.entry - q.takeProfit
       IN gain > 0 => /\ q.recoveryProfit >= debt
                      /\ (q.recoveryQuantity - Instrument.qtyStep) * gain < debt

\* What a trade approves, one level or several, is within the limits after rounding.
OrdersAreWithinLimits == BatchWithinLimits /\ ApprovedIsSafe /\ RecoveryCoversDebt
============================================================================
