----------------------------- MODULE HedgeEngine -----------------------------
(***************************************************************************)
(* The deterministic strategy core: virtual hedge levels between the two   *)
(* strikes of a put credit spread, the ordered crossing engine that turns  *)
(* one price move into a sequence of trigger events, and the ledger.       *)
(*                                                                         *)
(* A tick opens a segment from the previous price to the current one; the  *)
(* loop of CrossingEngine.process_transition is the sequence of actions    *)
(* between Tick and FinishSegment, one action per executed crossing.       *)
(*                                                                         *)
(* Money is an integer number of the smallest unit.  A hedge of quantity q *)
(* is represented by its target q * tp_distance (what its take-profit      *)
(* earns), so that the quotient of _open appears only in the stop loss.    *)
(***************************************************************************)
EXTENDS Integers, FiniteSetsExt, Functions

CONSTANTS
  ShortStrike,      \* short_put_strike
  ZoneWidth,        \* (short strike - long strike) / level_count
  LevelCount,       \* level_count
  StopNum, StopDen, \* stop_rate = StopNum / StopDen
  OptionQty,        \* option_quantity
  PremiumCredit,    \* premium_credit, which is also the stop budget
  RecoveryMode,     \* "FULL_NEXT_TP" or "DISTRIBUTED"
  LockPolicy,       \* "UNHEDGED" or "BREAKEVEN_FLOOR"
  RecoveryTpCount,  \* recovery_tp_count
  Prices            \* the prices a tick may report

ASSUME ConstantsOK ==
  /\ ShortStrike \in Nat \ {0}
  /\ ZoneWidth \in Nat \ {0}
  /\ LevelCount \in Nat \ {0}
  /\ ZoneWidth * LevelCount < ShortStrike
  /\ StopNum \in Nat \ {0} /\ StopDen \in Nat \ {0}
  \* the price unit is fine enough for every stop distance to be positive
  /\ \A i \in 0 .. (LevelCount - 1) :
       ((ShortStrike - ZoneWidth * i) * StopNum) \div StopDen > 0
  /\ OptionQty \in Nat \ {0}
  /\ PremiumCredit \in 0 .. (OptionQty * ZoneWidth * LevelCount)
  /\ RecoveryMode \in {"FULL_NEXT_TP", "DISTRIBUTED"}
  /\ LockPolicy \in {"UNHEDGED", "BREAKEVEN_FLOOR"}
  /\ RecoveryTpCount \in Nat \ {0}
  /\ Prices \subseteq Nat \ {0}

NoPrice == 0   \* previous_price is None: prices are positive
NoSource == 0  \* an empty recovery allocation: level identifiers start at 1

-----------------------------------------------------------------------------
(* generate_virtual_levels: the levels and their trigger prices *)

Levels == 1 .. LevelCount
Boundary(i) == ShortStrike - ZoneWidth * i
Entry(l) == Boundary(l - 1)
TpPrice(l) == Boundary(l)
StopDistance(l) == (Entry(l) * StopNum) \div StopDen
StopPrice(l) == Entry(l) + StopDistance(l)
OptionBudget == OptionQty * ZoneWidth
LongStrike == Boundary(LevelCount)

\* quantity * stop_distance, for the quantity whose take-profit earns t.
StopLoss(l, t) == (t * StopDistance(l)) \div ZoneWidth

-----------------------------------------------------------------------------
VARIABLES
  state,       \* level.state
  armed,       \* level.entry_armed
  floor,       \* level.active_is_floor
  target,      \* level.active_quantity * level.tp_distance; 0 when flat
  allocSource, \* the key of active_recovery_allocations (at most one), NoSource
  allocAmount, \* its value
  debt,        \* level.recovery_debt
  tpsLeft,     \* level.recovery_tps_remaining
  grossStop,   \* ledger.gross_stop_losses
  grossTp,     \* ledger.gross_tp_profits
  prev,        \* engine.previous_price, the start of a segment while it runs
  cur,         \* current price of the running segment
  cursor,      \* cursor of process_transition
  processed,   \* processed of process_transition: <<event type, level>>
  running,     \* process_transition is in progress
  above        \* the first price was at or above the short strike (history)

levelVars == <<state, armed, floor, target, allocSource, allocAmount, debt, tpsLeft>>
ledgerVars == <<grossStop, grossTp>>
segmentVars == <<prev, cur, cursor, processed, running, above>>
vars == <<levelVars, ledgerVars, segmentVars>>

Init ==
  /\ state = [l \in Levels |-> "READY"]
  /\ armed = [l \in Levels |-> FALSE]
  /\ floor = [l \in Levels |-> FALSE]
  /\ target = [l \in Levels |-> 0]
  /\ allocSource = [l \in Levels |-> NoSource]
  /\ allocAmount = [l \in Levels |-> 0]
  /\ debt = [l \in Levels |-> 0]
  /\ tpsLeft = [l \in Levels |-> 0]
  /\ grossStop = 0 /\ grossTp = 0
  /\ prev = NoPrice /\ cur = NoPrice /\ cursor = NoPrice
  /\ processed = {} /\ running = FALSE
  /\ above = FALSE

-----------------------------------------------------------------------------
(* The crossing engine *)

Down == cur < prev

\* eligible_crossings: what level l may do in the running segment.
MayTakeProfit(l) == Down /\ state[l] = "ACTIVE" /\ prev > TpPrice(l) /\ cur <= TpPrice(l)
MayEnter(l) == Down /\ state[l] = "READY" /\ armed[l] /\ cur <= Entry(l)
MayBreakEven(l) == ~Down /\ state[l] = "ACTIVE" /\ floor[l] /\ prev <= Entry(l) /\ Entry(l) <= cur
MayStop(l) ==
  /\ ~Down /\ state[l] = "ACTIVE"
  /\ ~MayBreakEven(l)
  /\ prev < StopPrice(l) /\ cur >= StopPrice(l)

Event(type, l, price, priority) ==
  [type |-> type, level |-> l, price |-> price, priority |-> priority]

Eligible ==
  {Event("TP", l, TpPrice(l), 0) : l \in {k \in Levels : MayTakeProfit(k)}} \cup
  {Event("ENTRY", l, Entry(l), 1) : l \in {k \in Levels : MayEnter(k)}} \cup
  {Event("BREAKEVEN", l, Entry(l), 0) : l \in {k \in Levels : MayBreakEven(k)}} \cup
  {Event("STOP", l, StopPrice(l), 0) : l \in {k \in Levels : MayStop(k)}}

InsideOpenSegment(p) == \* fault: the price the tick ends at is left out
  IF Down THEN cur < p /\ p <= cursor ELSE cursor <= p /\ p < cur
InsideRemainingSegment(p) ==
  IF Down THEN cur <= p /\ p <= cursor ELSE cursor <= p /\ p <= cur

Candidates ==
  {e \in Eligible : InsideRemainingSegment(e.price) /\ <<e.type, e.level>> \notin processed}

\* The sort key of _nearest: price along the move, priority, level.
Before(e, f) ==
  \/ IF Down THEN e.price > f.price ELSE e.price < f.price
  \/ e.price = f.price /\ e.priority < f.priority
  \/ e.price = f.price /\ e.priority = f.priority /\ e.level < f.level

IsNearest(e) == e \in Candidates /\ \A f \in Candidates \ {e} : Before(e, f)

\* Event e leaves the loop body: recorded, and the cursor moves to its price.
Executed(e) ==
  /\ processed' = processed \cup {<<e.type, e.level>>}
  /\ cursor' = e.price
  /\ UNCHANGED <<prev, cur, running, above>>

Crossing(type, l, price, priority) ==
  /\ running
  /\ IsNearest(Event(type, l, price, priority))
  /\ Executed(Event(type, l, price, priority))

-----------------------------------------------------------------------------
(* Execution of one crossing *)

\* _recovery_allocations_for: the source level and the amount taken from it.
EligibleSources(l) ==
  IF RecoveryMode = "FULL_NEXT_TP"
  THEN {s \in {l} : debt[s] > 0}
  ELSE {s \in 1 .. l : debt[s] > 0 /\ tpsLeft[s] > 0}
RecoverySource(l) ==
  IF EligibleSources(l) = {} THEN NoSource
  ELSE CHOOSE s \in EligibleSources(l) : \A r \in EligibleSources(l) : s <= r
RecoveryAmount(l) ==
  IF RecoverySource(l) = NoSource THEN 0
  ELSE IF RecoveryMode = "FULL_NEXT_TP" THEN debt[RecoverySource(l)]
  ELSE debt[RecoverySource(l)] \div tpsLeft[RecoverySource(l)]

EntryTargetBaseline(l) == OptionBudget \* fault: recovery left out of the quantity
EntryTarget(l) == OptionBudget + RecoveryAmount(l)
AffordableAlone(l) == \* fault: losses already realized are forgotten
  StopLoss(l, EntryTarget(l)) <= PremiumCredit
Affordable(l) == grossStop + StopLoss(l, EntryTarget(l)) <= PremiumCredit

Activate(l, isFloor) ==
  /\ state' = [state EXCEPT ![l] = "ACTIVE"]
  /\ armed' = [armed EXCEPT ![l] = FALSE]
  /\ floor' = [floor EXCEPT ![l] = isFloor]
  /\ target' = [target EXCEPT ![l] = EntryTarget(l)]
  /\ allocSource' = [allocSource EXCEPT ![l] = RecoverySource(l)]
  /\ allocAmount' = [allocAmount EXCEPT ![l] = RecoveryAmount(l)]
  /\ UNCHANGED <<debt, tpsLeft, ledgerVars>>

\* _open, within the stop budget.
Open(l) ==
  /\ Crossing("ENTRY", l, Entry(l), 1)
  /\ Affordable(l)
  /\ Activate(l, FALSE)

\* _open_floor: the entry the budget cannot fund, under BREAKEVEN_FLOOR.
OpenFloor(l) ==
  /\ Crossing("ENTRY", l, Entry(l), 1)
  /\ ~Affordable(l) /\ LockPolicy = "BREAKEVEN_FLOOR"
  /\ Activate(l, TRUE)

\* The same entry under UNHEDGED: the level locks for good.
Lock(l) ==
  /\ Crossing("ENTRY", l, Entry(l), 1)
  /\ ~Affordable(l) /\ LockPolicy = "UNHEDGED"
  /\ state' = [state EXCEPT ![l] = "LOCKED"]
  /\ armed' = [armed EXCEPT ![l] = FALSE]
  /\ UNCHANGED <<floor, target, allocSource, allocAmount, debt, tpsLeft, ledgerVars>>

\* The hedge of level l is gone.
Flatten(l) ==
  /\ target' = [target EXCEPT ![l] = 0]
  /\ floor' = [floor EXCEPT ![l] = FALSE]
  /\ allocSource' = [allocSource EXCEPT ![l] = NoSource]
  /\ allocAmount' = [allocAmount EXCEPT ![l] = 0]

\* _take_profit: the allocation is repaid to its source level.
TakeProfit(l) ==
  LET s == allocSource[l]
      left == debt[s] - allocAmount[l]
  IN
  /\ Crossing("TP", l, TpPrice(l), 0)
  /\ state' = [state EXCEPT ![l] = "PAID"]
  /\ armed' = [armed EXCEPT ![l] = FALSE]
  /\ grossTp' = grossTp + target[l]
  /\ IF s = NoSource THEN UNCHANGED <<debt, tpsLeft>>
     ELSE /\ debt' = [debt EXCEPT ![s] = left]
          /\ tpsLeft' = IF RecoveryMode # "DISTRIBUTED" THEN tpsLeft
                        ELSE [tpsLeft EXCEPT ![s] = IF left = 0 THEN 0 ELSE @ - 1]
  /\ Flatten(l)
  /\ UNCHANGED grossStop

DebtAfterStopReplaced(l) == StopLoss(l, target[l]) \* fault: older debt is overwritten
DebtAfterStop(l) == debt[l] + StopLoss(l, target[l])
TpsAfterStopKept(l) == tpsLeft[l] \* fault: the claim is not renewed
TpsAfterStop(l) ==
  IF RecoveryMode = "DISTRIBUTED" /\ tpsLeft[l] = 0 THEN RecoveryTpCount ELSE tpsLeft[l]

\* _stop: the realized loss becomes debt of the level, which re-arms.
Stop(l) ==
  /\ Crossing("STOP", l, StopPrice(l), 0)
  /\ ~floor[l]
  /\ state' = [state EXCEPT ![l] = "READY"]
  /\ armed' = [armed EXCEPT ![l] = TRUE]
  /\ debt' = [debt EXCEPT ![l] = DebtAfterStop(l)]
  /\ tpsLeft' = [tpsLeft EXCEPT ![l] = TpsAfterStop(l)]
  /\ grossStop' = grossStop + StopLoss(l, target[l])
  /\ Flatten(l)
  /\ UNCHANGED grossTp

\* _breakeven: a floor hedge leaves at its entry price, without loss.
BreakEven(l) ==
  /\ Crossing("BREAKEVEN", l, Entry(l), 0)
  /\ state' = [state EXCEPT ![l] = "READY"]
  /\ armed' = [armed EXCEPT ![l] = TRUE]
  /\ Flatten(l)
  /\ UNCHANGED <<debt, tpsLeft, ledgerVars>>

-----------------------------------------------------------------------------
(* HedgeEngine.step *)

\* _arm_ready_levels
ArmAboveOnly(p) == \* fault: a price exactly at the entry does not arm
  armed' = [l \in Levels |-> armed[l] \/ (state[l] = "READY" /\ p > Entry(l))]
ArmReadyLevels(p) ==
  armed' = [l \in Levels |-> armed[l] \/ (state[l] = "READY" /\ p >= Entry(l))]

\* The first price, and a repeated price: no transition, only arming.
QuietTick(p) ==
  /\ ~running
  /\ prev \in {NoPrice, p}
  /\ prev' = p
  /\ above' = IF prev = NoPrice THEN p >= ShortStrike ELSE above
  /\ ArmReadyLevels(p)
  /\ UNCHANGED <<state, floor, target, allocSource, allocAmount, debt, tpsLeft,
                 ledgerVars, cur, cursor, processed, running>>

\* A new price: process_transition starts at the previous one.
BeginSegment(p) ==
  /\ ~running
  /\ prev \notin {NoPrice, p}
  /\ cur' = p
  /\ cursor' = prev
  /\ processed' = {}
  /\ running' = TRUE
  /\ UNCHANGED <<levelVars, ledgerVars, prev, above>>

\* No candidate is left: process_transition returns, step stores the price.
FinishSegment ==
  /\ running
  /\ Candidates = {}
  /\ prev' = cur
  /\ ArmReadyLevels(cur)
  /\ cur' = NoPrice /\ cursor' = NoPrice /\ processed' = {}
  /\ running' = FALSE
  /\ UNCHANGED <<state, floor, target, allocSource, allocAmount, debt, tpsLeft,
                 ledgerVars, above>>

Tick == \E p \in Prices : QuietTick(p) \/ BeginSegment(p)

ExecuteCrossing ==
  \E l \in Levels :
    Open(l) \/ OpenFloor(l) \/ Lock(l) \/ TakeProfit(l) \/ Stop(l) \/ BreakEven(l)

Next == Tick \/ ExecuteCrossing \/ FinishSegment

Spec == Init /\ [][Next]_vars

-----------------------------------------------------------------------------
(* Derived accounting *)

ActiveLevels == {l \in Levels : state[l] = "ACTIVE"}
PaidLevels == {l \in Levels : state[l] = "PAID"}
OutstandingDebt == SumFunctionOnSet(debt, Levels)

\* CreditSpread.expiry_pnl
ExpiryPnl(p) ==
  PremiumCredit - OptionQty * (Max({ShortStrike - p, 0}) - Max({LongStrike - p, 0}))

\* AccountingSnapshot.combined_terminal_value_pnl, multiplied by ZoneWidth so
\* that the open profit of a fractional quantity stays an integer.
ScaledCombinedPnl(p) ==
  ZoneWidth * (ExpiryPnl(p) + grossTp - grossStop)
  + SumFunctionOnSet([l \in Levels |-> target[l] * (Entry(l) - p)], ActiveLevels)

-----------------------------------------------------------------------------
(* Properties *)

\* The stop of every level lies at or below the entry of the level above it, so
\* that a hedge stops before a higher level can enter.
NarrowStops == \A l \in Levels \ {1} : StopPrice(l) <= Entry(l - 1)

\* Every variable has the type the engine gives it; in particular no debt is
\* ever negative, the assertion _take_profit raises on.
TypeOK ==
  /\ state \in [Levels -> {"READY", "ACTIVE", "PAID", "LOCKED"}]
  /\ armed \in [Levels -> BOOLEAN]
  /\ floor \in [Levels -> BOOLEAN]
  /\ target \in [Levels -> Nat]
  /\ allocSource \in [Levels -> Levels \cup {NoSource}]
  /\ allocAmount \in [Levels -> Nat]
  /\ debt \in [Levels -> Nat]
  /\ tpsLeft \in [Levels -> Nat]
  /\ grossStop \in Nat /\ grossTp \in Nat
  /\ prev \in Prices \cup {NoPrice}
  /\ cur \in Prices \cup {NoPrice}
  /\ cursor \in Nat
  /\ processed \subseteq {"ENTRY", "TP", "STOP", "BREAKEVEN"} \X Levels
  /\ running \in BOOLEAN
  /\ above \in BOOLEAN

\* No trigger is missed, however far a tick jumps: between ticks every open
\* hedge lies strictly inside its take-profit and stop (a floor hedge at or
\* below its entry), and no armed level has the price below its entry.
NoMissedTrigger ==
  ~running => \A l \in Levels :
    /\ state[l] = "ACTIVE" =>
         /\ TpPrice(l) < prev
         /\ IF floor[l] THEN prev <= Entry(l) ELSE prev < StopPrice(l)
    /\ state[l] = "READY" /\ armed[l] => Entry(l) <= prev

\* A take-profit is processed before the entry of the next level at the shared
\* boundary, and stops before the levels above re-enter: with narrow stops the
\* engine never holds two hedges.
OneHedgeAtATime == \A l, k \in ActiveLevels : l = k

\* The premium credit bounds the fixed-stop losses: neither those already
\* realized, nor those together with what an open fixed-stop hedge can still
\* lose, ever exceed it.
BudgetRespected ==
  /\ grossStop <= PremiumCredit
  /\ \A l \in ActiveLevels : ~floor[l] => grossStop + StopLoss(l, target[l]) <= PremiumCredit

\* No part of a level's debt is reserved by two open hedges: what the open
\* hedges will repay to a source never exceeds the debt it has, from the reservation
\* until the take-profit.
NoDoubleReservation ==
  \A s \in Levels :
    SumFunctionOnSet(allocAmount, {l \in ActiveLevels : allocSource[l] = s}) <= debt[s]

\* Exact accounting: the realized hedge result is the option budget of every
\* paid zone less the debt still outstanding, whatever the order of stops,
\* re-entries and (distributed) repayments.
RealizedPnlIdentity ==
  grossTp - grossStop = OptionBudget * Cardinality(PaidLevels) - OutstandingDebt

\* The debt of every level is money: the books add up to it exactly, and no two
\* open hedges count on the same part of it.
DebtAccounting == RealizedPnlIdentity /\ NoDoubleReservation

\* Outstanding debt never loses its claim: it belongs to a level that may enter
\* again or, when distributed, to one with repayments left (a locked level keeps
\* its debt).
NoStrandedDebt ==
  \A l \in Levels : debt[l] > 0 /\ state[l] # "LOCKED" =>
    IF RecoveryMode = "DISTRIBUTED" THEN tpsLeft[l] > 0 ELSE state[l] # "PAID"

\* While the price came from above the short strike and no level has locked,
\* option and hedges together never lose: the stop losses the budget admits
\* are covered by the premium and every zone passed is paid for.
FloorUntilLocked ==
  ~running /\ above /\ (\A l \in Levels : state[l] # "LOCKED")
    => ScaledCombinedPnl(prev) >= 0

\* Debt falls only in a take-profit that earns the repaid amount on top of the
\* option budget of its zone.
DebtFallsOnlyByRecovery ==
  [][\A l \in Levels : debt'[l] < debt[l] =>
       grossTp' - grossTp = OptionBudget + (debt[l] - debt'[l])]_vars
=============================================================================
