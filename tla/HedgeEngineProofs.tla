-------------------------- MODULE HedgeEngineProofs --------------------------
(***************************************************************************)
(* Machine-checked facts about HedgeEngine, for every spread, level count, *)
(* stop rate, premium, recovery mode, lock policy and set of tick prices.  *)
(*                                                                         *)
(* The argument has three layers.  RangeInv relates the price (or, while a *)
(* segment runs, the cursor) to the triggers of every level; it needs no   *)
(* hypothesis and gives NoMissedTrigger.  LedgerInv follows the money; it  *)
(* needs none either and gives RealizedPnlIdentity.  HedgeInv adds that at *)
(* most one hedge is open and what it reserves; it needs NarrowStops and   *)
(* gives the type invariant, the budget, the facts about recovery debt     *)
(* and, with the other two, the floor under the combined result.           *)
(***************************************************************************)
EXTENDS HedgeEngine, SumTheorems, WellFoundedInduction, TLAPS

-----------------------------------------------------------------------------
(* Geometry of the trigger prices *)

\* Take-profit, entry and stop of a level are natural numbers in this order.
LEMMA TriggerOrder ==
  ASSUME NEW l \in Levels
  PROVE  /\ TpPrice(l) \in Nat /\ Entry(l) \in Nat /\ StopPrice(l) \in Nat
         /\ StopDistance(l) \in Nat
         /\ 0 < TpPrice(l) /\ TpPrice(l) < Entry(l) /\ Entry(l) < StopPrice(l)
<1> DEFINE E == ShortStrike - ZoneWidth * (l - 1)
<1>1. /\ l \in Nat /\ l >= 1 /\ l <= LevelCount /\ l - 1 \in 0 .. (LevelCount - 1)
      /\ ZoneWidth \in Nat /\ ZoneWidth > 0 /\ ShortStrike \in Nat
      /\ StopNum \in Nat /\ StopDen \in Nat /\ StopDen > 0
  BY ConstantsOK DEF Levels
<1>2. ZoneWidth * l \in Nat /\ ZoneWidth * (l - 1) \in Nat
  BY <1>1
<1>3. ZoneWidth * l <= ZoneWidth * LevelCount
  BY <1>1, ConstantsOK
<1>4. ZoneWidth * (l - 1) = ZoneWidth * l - ZoneWidth
  BY <1>1
<1>5. /\ TpPrice(l) = ShortStrike - ZoneWidth * l
      /\ Entry(l) = E
  BY DEF TpPrice, Entry, Boundary
<1>6. 0 < TpPrice(l) /\ TpPrice(l) < Entry(l) /\ TpPrice(l) \in Nat /\ Entry(l) \in Nat
  BY <1>1, <1>2, <1>3, <1>4, <1>5, ConstantsOK
<1>7. (E * StopNum) \div StopDen > 0
  BY <1>1, ConstantsOK
<1>8. StopDistance(l) = (E * StopNum) \div StopDen
  BY <1>5 DEF StopDistance
<1>9. E * StopNum \in Nat
  BY <1>1, <1>5, <1>6
<1>10. (E * StopNum) \div StopDen \in Int
  <2> DEFINE n == E * StopNum
  <2> HIDE DEF n
  <2>1. n \div StopDen \in Int
    BY <1>1, <1>9 DEF n
  <2> QED BY <2>1 DEF n
<1>11. StopDistance(l) \in Nat /\ StopDistance(l) > 0
  BY <1>7, <1>8, <1>10
<1> QED BY <1>6, <1>11 DEF StopPrice

\* A deeper level enters at or below the take-profit of every shallower one.
LEMMA ZonesDescend ==
  ASSUME NEW l \in Levels, NEW k \in Levels, l < k
  PROVE  Entry(k) <= TpPrice(l) /\ Entry(k) < Entry(l)
<1>1. /\ l \in Nat /\ k \in Nat /\ l <= k - 1 /\ k - 1 \in Nat
      /\ ZoneWidth \in Nat /\ ShortStrike \in Nat
  BY ConstantsOK DEF Levels
<1>2. ZoneWidth * l <= ZoneWidth * (k - 1)
  BY <1>1
<1>3. ZoneWidth * l \in Nat /\ ZoneWidth * (k - 1) \in Nat
  BY <1>1
<1>4. Entry(k) <= TpPrice(l)
  BY <1>1, <1>2, <1>3 DEF Entry, TpPrice, Boundary
<1> QED BY <1>4, TriggerOrder

\* With narrow stops a level stops at or below the entry of every shallower one.
LEMMA StopsBelowEntries ==
  ASSUME NarrowStops, NEW l \in Levels, NEW k \in Levels, l < k
  PROVE  StopPrice(k) <= Entry(l)
<1>1. k \in Levels \ {1} /\ k - 1 \in Levels
  BY ConstantsOK DEF Levels
<1>2. StopPrice(k) <= Entry(k - 1)
  BY <1>1 DEF NarrowStops
<1>3. CASE l = k - 1
  BY <1>2, <1>3
<1>4. CASE l # k - 1
  <2>1. l < k - 1
    BY <1>4 DEF Levels
  <2>2. Entry(k - 1) < Entry(l)
    BY <1>1, <2>1, ZonesDescend
  <2> QED BY <1>1, <1>2, <2>2, TriggerOrder
<1> QED BY <1>3, <1>4

-----------------------------------------------------------------------------
(* What the nearest crossing tells about every other trigger *)

\* The crossing that is executed was eligible and lies ahead of the cursor.
LEMMA NearestIsEligible ==
  ASSUME NEW l \in Levels
  PROVE  /\ IsNearest(Event("TP", l, TpPrice(l), 0))
              => MayTakeProfit(l) /\ InsideRemainingSegment(TpPrice(l))
         /\ IsNearest(Event("ENTRY", l, Entry(l), 1))
              => MayEnter(l) /\ InsideRemainingSegment(Entry(l))
         /\ IsNearest(Event("BREAKEVEN", l, Entry(l), 0))
              => MayBreakEven(l) /\ InsideRemainingSegment(Entry(l))
         /\ IsNearest(Event("STOP", l, StopPrice(l), 0))
              => MayStop(l) /\ InsideRemainingSegment(StopPrice(l))
<1>1. ASSUME NEW e, IsNearest(e)
      PROVE  /\ e \in Eligible
             /\ InsideRemainingSegment(e.price)
  BY <1>1 DEF IsNearest, Candidates
<1>2. ASSUME NEW e, e \in Eligible
      PROVE  \/ \E k \in Levels : MayTakeProfit(k) /\ e = Event("TP", k, TpPrice(k), 0)
             \/ \E k \in Levels : MayEnter(k) /\ e = Event("ENTRY", k, Entry(k), 1)
             \/ \E k \in Levels : MayBreakEven(k) /\ e = Event("BREAKEVEN", k, Entry(k), 0)
             \/ \E k \in Levels : MayStop(k) /\ e = Event("STOP", k, StopPrice(k), 0)
  BY <1>2 DEF Eligible
<1>3. ASSUME NEW t, NEW p, NEW i, NEW u, NEW k, NEW q, NEW j,
             Event(t, l, p, i) = Event(u, k, q, j)
      PROVE  t = u /\ l = k
  BY <1>3 DEF Event
<1>4. ASSUME NEW t, NEW p, NEW i
      PROVE  Event(t, l, p, i).price = p
  BY DEF Event
<1>5. IsNearest(Event("TP", l, TpPrice(l), 0))
        => MayTakeProfit(l) /\ InsideRemainingSegment(TpPrice(l))
  BY <1>1, <1>2, <1>3, <1>4
<1>6. IsNearest(Event("ENTRY", l, Entry(l), 1))
        => MayEnter(l) /\ InsideRemainingSegment(Entry(l))
  BY <1>1, <1>2, <1>3, <1>4
<1>7. IsNearest(Event("BREAKEVEN", l, Entry(l), 0))
        => MayBreakEven(l) /\ InsideRemainingSegment(Entry(l))
  BY <1>1, <1>2, <1>3, <1>4
<1>8. IsNearest(Event("STOP", l, StopPrice(l), 0))
        => MayStop(l) /\ InsideRemainingSegment(StopPrice(l))
  BY <1>1, <1>2, <1>3, <1>4
<1> QED BY <1>5, <1>6, <1>7, <1>8

\* Every eligible, unprocessed crossing ahead of the cursor is a candidate.
LEMMA EligibleIsCandidate ==
  ASSUME NEW l \in Levels
  PROVE  /\ MayTakeProfit(l) /\ InsideRemainingSegment(TpPrice(l)) /\ <<"TP", l>> \notin processed
              => Event("TP", l, TpPrice(l), 0) \in Candidates
         /\ MayEnter(l) /\ InsideRemainingSegment(Entry(l)) /\ <<"ENTRY", l>> \notin processed
              => Event("ENTRY", l, Entry(l), 1) \in Candidates
         /\ MayBreakEven(l) /\ InsideRemainingSegment(Entry(l)) /\ <<"BREAKEVEN", l>> \notin processed
              => Event("BREAKEVEN", l, Entry(l), 0) \in Candidates
         /\ MayStop(l) /\ InsideRemainingSegment(StopPrice(l)) /\ <<"STOP", l>> \notin processed
              => Event("STOP", l, StopPrice(l), 0) \in Candidates
BY SMT DEF Candidates, Eligible, Event

\* No candidate is passed over: along the move all others lie at or behind the
\* nearest one, and at its own price none has a smaller priority.
LEMMA NothingPassedOver ==
  ASSUME NEW t, NEW l \in Levels, NEW p \in Nat, NEW i \in {0, 1},
         NEW u, NEW k \in Levels, NEW q \in Nat, NEW j \in {0, 1},
         IsNearest(Event(t, l, p, i)), Event(u, k, q, j) \in Candidates
  PROVE  /\ Down => q <= p
         /\ ~Down => p <= q
         /\ q = p => i <= j
<1>1. CASE Event(u, k, q, j) = Event(t, l, p, i)
  BY <1>1 DEF Event
<1>2. CASE Event(u, k, q, j) # Event(t, l, p, i)
  <2>1. Before(Event(t, l, p, i), Event(u, k, q, j))
    BY <1>2 DEF IsNearest
  <2> QED BY <2>1 DEF Before, Event
<1> QED BY <1>1, <1>2

-----------------------------------------------------------------------------
(* The price and the triggers: RangeInv *)

RangeTypes ==
  /\ state \in [Levels -> {"READY", "ACTIVE", "PAID", "LOCKED"}]
  /\ armed \in [Levels -> BOOLEAN]
  /\ floor \in [Levels -> BOOLEAN]
  /\ prev \in Nat /\ cur \in Nat /\ cursor \in Nat
  /\ running \in BOOLEAN

\* Between ticks: NoMissedTrigger, level by level.
IdleRange(l) ==
  /\ state[l] = "ACTIVE" =>
       /\ TpPrice(l) < prev
       /\ IF floor[l] THEN prev <= Entry(l) ELSE prev < StopPrice(l)
  /\ state[l] = "READY" /\ armed[l] => Entry(l) <= prev

\* In a falling segment the cursor has not passed a trigger that is still due.
DownRange(l) ==
  /\ state[l] = "ACTIVE" =>
       /\ TpPrice(l) <= cursor /\ TpPrice(l) < prev
       /\ IF floor[l] THEN cur <= Entry(l) ELSE cur < StopPrice(l)
       /\ prev < StopPrice(l) \/ cursor <= Entry(l)
  /\ state[l] = "READY" /\ armed[l] =>
       /\ Entry(l) <= cursor
       /\ <<"ENTRY", l>> \notin processed
  /\ <<"TP", l>> \in processed => state[l] = "PAID"

\* In a rising segment likewise.
UpRange(l) ==
  /\ state[l] = "ACTIVE" =>
       /\ TpPrice(l) < prev
       /\ IF floor[l]
          THEN prev <= Entry(l) /\ cursor <= Entry(l) /\ <<"BREAKEVEN", l>> \notin processed
          ELSE prev < StopPrice(l) /\ cursor <= StopPrice(l) /\ <<"STOP", l>> \notin processed
  /\ state[l] = "READY" /\ armed[l] => Entry(l) <= cur

RangeInv ==
  /\ RangeTypes
  /\ ~running => \A l \in Levels : IdleRange(l)
  /\ running /\ Down => cur <= cursor /\ cursor <= prev /\ \A l \in Levels : DownRange(l)
  /\ running /\ ~Down =>
       prev < cur /\ prev <= cursor /\ cursor <= cur /\ \A l \in Levels : UpRange(l)

LEMMA RangeInit == Init => RangeInv
<1> SUFFICES ASSUME Init PROVE RangeInv
  OBVIOUS
<1>1. RangeTypes
  BY DEF Init, RangeTypes, NoPrice
<1>2. ASSUME NEW l \in Levels PROVE IdleRange(l)
  BY DEF Init, IdleRange
<1>3. ~running
  BY DEF Init
<1> QED BY <1>1, <1>2, <1>3 DEF RangeInv

\* A tick that begins a segment puts the cursor at the previous price.
LEMMA RangeTick ==
  ASSUME RangeInv, NEW p \in Prices, QuietTick(p) \/ BeginSegment(p)
  PROVE  RangeInv'
<1>1. p \in Nat /\ p > 0
  BY ConstantsOK
<1> USE DEF RangeInv, RangeTypes
<1>2. CASE QuietTick(p)
  <2>1. /\ ~running /\ ~running' /\ prev' = p /\ prev \in {NoPrice, p}
        /\ state' = state /\ floor' = floor
        /\ armed' = [l \in Levels |-> armed[l] \/ (state[l] = "READY" /\ p >= Entry(l))]
        /\ UNCHANGED <<cur, cursor, running>>
    BY <1>2 DEF QuietTick, ArmReadyLevels
  <2>2. ASSUME NEW l \in Levels PROVE IdleRange(l)'
    <3>1. IdleRange(l)
      BY <2>1
    <3>2. armed'[l] = (armed[l] \/ (state[l] = "READY" /\ p >= Entry(l)))
      BY <2>1
    <3>3. CASE prev = NoPrice
      <4>1. state[l] # "ACTIVE" /\ ~(state[l] = "READY" /\ armed[l])
        BY <3>1, <3>3, TriggerOrder DEF IdleRange, NoPrice
      <4> QED BY <2>1, <3>2, <4>1, <1>1, TriggerOrder DEF IdleRange
    <3>4. CASE prev = p
      BY <2>1, <3>1, <3>2, <3>4, <1>1, TriggerOrder
         DEF IdleRange
    <3> QED BY <2>1, <3>3, <3>4
  <2>3. armed' \in [Levels -> BOOLEAN]
    BY <2>1
  <2> QED BY <2>1, <2>2, <2>3, <1>1
<1>3. CASE BeginSegment(p)
  <2>1. /\ ~running /\ running' /\ prev # p /\ prev' = prev /\ cur' = p /\ cursor' = prev
        /\ processed' = {}
        /\ state' = state /\ armed' = armed /\ floor' = floor
    BY <1>3 DEF BeginSegment, levelVars
  <2>2. \A l \in Levels : IdleRange(l)
    BY <2>1
  <2>3. ASSUME NEW l \in Levels, p < prev PROVE DownRange(l)'
    BY <2>1, <2>2, <2>3, <1>1, TriggerOrder
       DEF IdleRange, DownRange
  <2>4. ASSUME NEW l \in Levels, ~(p < prev) PROVE UpRange(l)'
    BY <2>1, <2>2, <2>4, <1>1, TriggerOrder
       DEF IdleRange, UpRange
  <2> QED BY <2>1, <2>3, <2>4, <1>1 DEF Down
<1> QED BY <1>2, <1>3

\* In a falling segment the nearest crossing is at or above every trigger that
\* is still due, and an entry is nearest only below every open take-profit.
LEMMA NearestFalling ==
  ASSUME RangeInv, running, Down,
         NEW t, NEW l \in Levels, NEW p \in Nat, NEW i \in {0, 1},
         IsNearest(Event(t, l, p, i)), InsideRemainingSegment(p)
  PROVE  /\ cur <= p /\ p <= cursor
         /\ \A k \in Levels : state[k] = "ACTIVE" =>
              TpPrice(k) <= p /\ (TpPrice(k) = p => i = 0)
         /\ \A k \in Levels : state[k] = "READY" /\ armed[k] => Entry(k) <= p
<1>1. cur <= p /\ p <= cursor
  BY DEF InsideRemainingSegment
<1>2. ASSUME NEW k \in Levels, state[k] = "ACTIVE"
      PROVE  TpPrice(k) <= p /\ (TpPrice(k) = p => i = 0)
  <2>1. DownRange(k)
    BY DEF RangeInv
  <2>2. CASE cur <= TpPrice(k)
    <3>1. MayTakeProfit(k) /\ InsideRemainingSegment(TpPrice(k)) /\ <<"TP", k>> \notin processed
      BY <1>2, <2>1, <2>2 DEF DownRange, MayTakeProfit, InsideRemainingSegment
    <3>2. Event("TP", k, TpPrice(k), 0) \in Candidates
      BY <3>1, EligibleIsCandidate
    <3>3. TpPrice(k) \in Nat
      BY TriggerOrder
    <3>4. TpPrice(k) <= p /\ (TpPrice(k) = p => i <= 0)
      BY <3>2, <3>3, NothingPassedOver
    <3> QED BY <3>4
  <2>3. CASE ~(cur <= TpPrice(k))
    BY <1>1, <2>3, TriggerOrder DEF RangeInv, RangeTypes
  <2> QED BY <2>2, <2>3
<1>3. ASSUME NEW k \in Levels, state[k] = "READY", armed[k]
      PROVE  Entry(k) <= p
  <2>1. DownRange(k)
    BY DEF RangeInv
  <2>2. CASE cur <= Entry(k)
    <3>1. MayEnter(k) /\ InsideRemainingSegment(Entry(k)) /\ <<"ENTRY", k>> \notin processed
      BY <1>3, <2>1, <2>2 DEF DownRange, MayEnter, InsideRemainingSegment
    <3>2. Event("ENTRY", k, Entry(k), 1) \in Candidates
      BY <3>1, EligibleIsCandidate
    <3>3. Entry(k) \in Nat
      BY TriggerOrder
    <3> QED BY <3>2, <3>3, NothingPassedOver
  <2>3. CASE ~(cur <= Entry(k))
    BY <1>1, <2>3, TriggerOrder DEF RangeInv, RangeTypes
  <2> QED BY <2>2, <2>3
<1> QED BY <1>1, <1>2, <1>3

\* In a rising segment the nearest crossing is at or below every exit still due.
LEMMA NearestRising ==
  ASSUME RangeInv, running, ~Down,
         NEW t, NEW l \in Levels, NEW p \in Nat, NEW i \in {0, 1},
         IsNearest(Event(t, l, p, i)), InsideRemainingSegment(p)
  PROVE  /\ cursor <= p /\ p <= cur
         /\ \A k \in Levels : state[k] = "ACTIVE" =>
              IF floor[k] THEN p <= Entry(k) ELSE p <= StopPrice(k)
<1>1. cursor <= p /\ p <= cur
  BY DEF InsideRemainingSegment
<1>2. ASSUME NEW k \in Levels, state[k] = "ACTIVE", floor[k]
      PROVE  p <= Entry(k)
  <2>1. UpRange(k)
    BY DEF RangeInv
  <2>2. CASE Entry(k) <= cur
    <3>1. MayBreakEven(k) /\ InsideRemainingSegment(Entry(k))
          /\ <<"BREAKEVEN", k>> \notin processed
      BY <1>2, <2>1, <2>2 DEF UpRange, MayBreakEven, InsideRemainingSegment
    <3>2. Event("BREAKEVEN", k, Entry(k), 0) \in Candidates
      BY <3>1, EligibleIsCandidate
    <3>3. Entry(k) \in Nat
      BY TriggerOrder
    <3> QED BY <3>2, <3>3, NothingPassedOver
  <2>3. CASE ~(Entry(k) <= cur)
    BY <1>1, <2>3, TriggerOrder DEF RangeInv, RangeTypes
  <2> QED BY <2>2, <2>3
<1>3. ASSUME NEW k \in Levels, state[k] = "ACTIVE", ~floor[k]
      PROVE  p <= StopPrice(k)
  <2>1. UpRange(k)
    BY DEF RangeInv
  <2>2. CASE StopPrice(k) <= cur
    <3>1. MayStop(k) /\ InsideRemainingSegment(StopPrice(k))
          /\ <<"STOP", k>> \notin processed
      BY <1>3, <2>1, <2>2, TriggerOrder
         DEF UpRange, MayStop, MayBreakEven, InsideRemainingSegment, RangeInv, RangeTypes
    <3>2. Event("STOP", k, StopPrice(k), 0) \in Candidates
      BY <3>1, EligibleIsCandidate
    <3>3. StopPrice(k) \in Nat
      BY TriggerOrder
    <3> QED BY <3>2, <3>3, NothingPassedOver
  <2>3. CASE ~(StopPrice(k) <= cur)
    BY <1>1, <2>3, TriggerOrder DEF RangeInv, RangeTypes
  <2> QED BY <2>2, <2>3
<1> QED BY <1>1, <1>2, <1>3

\* An entry crossing, whether it opens a hedge, a floor hedge or locks the level.
LEMMA RangeEntry ==
  ASSUME RangeInv, NEW l \in Levels, Open(l) \/ OpenFloor(l) \/ Lock(l)
  PROVE  RangeInv'
<1>1. /\ running /\ IsNearest(Event("ENTRY", l, Entry(l), 1))
      /\ Executed(Event("ENTRY", l, Entry(l), 1))
  BY DEF Open, OpenFloor, Lock, Crossing
<1>2. Down /\ InsideRemainingSegment(Entry(l))
  BY <1>1, NearestIsEligible DEF MayEnter
<1>3. /\ cursor' = Entry(l) /\ processed' = processed \cup {<<"ENTRY", l>>}
      /\ UNCHANGED <<prev, cur, running>>
  BY <1>1 DEF Executed, Event
<1>4. PICK s \in {"ACTIVE", "LOCKED"}, b \in BOOLEAN :
        /\ state' = [state EXCEPT ![l] = s]
        /\ armed' = [armed EXCEPT ![l] = FALSE]
        /\ floor' = [floor EXCEPT ![l] = b]
  <2>1. CASE Open(l)
    BY <2>1 DEF Open, Activate
  <2>2. CASE OpenFloor(l)
    BY <2>2 DEF OpenFloor, Activate
  <2>3. CASE Lock(l)
    <3>1. floor' = [floor EXCEPT ![l] = floor[l]] /\ floor[l] \in BOOLEAN
      BY <2>3 DEF Lock, RangeInv, RangeTypes
    <3> QED BY <2>3, <3>1 DEF Lock
  <2> QED BY <2>1, <2>2, <2>3
<1>5. Entry(l) \in Nat
  BY TriggerOrder
<1>6. /\ cur <= Entry(l) /\ Entry(l) <= cursor
      /\ \A k \in Levels : state[k] = "ACTIVE" => TpPrice(k) <= Entry(l)
      /\ \A k \in Levels : state[k] = "READY" /\ armed[k] => Entry(k) <= Entry(l)
  BY <1>1, <1>2, <1>5, NearestFalling
<1>7. RangeTypes'
  BY <1>3, <1>4, <1>5 DEF RangeInv, RangeTypes
<1>8. ASSUME NEW k \in Levels PROVE DownRange(k)'
  <2>1. DownRange(k) /\ cursor <= prev /\ cur < prev
    BY <1>1, <1>2 DEF RangeInv, Down
  <2>2. CASE k = l
    <3>1. MayEnter(l)
      BY <1>1, NearestIsEligible
    <3>2. <<"TP", l>> \notin processed'
      BY <1>3, <2>1, <2>2, <3>1 DEF MayEnter, DownRange
    <3> QED BY <1>3, <1>4, <1>5, <1>6, <2>1, <2>2, <3>2, TriggerOrder
            DEF DownRange, RangeInv, RangeTypes
  <2>3. CASE k # l
    BY <1>3, <1>4, <1>6, <2>1, <2>3, <1>5, TriggerOrder
       DEF DownRange, RangeInv, RangeTypes
  <2> QED BY <2>2, <2>3
<1> QED BY <1>1, <1>2, <1>3, <1>6, <1>7, <1>8 DEF RangeInv, RangeTypes, Down

LEMMA RangeTakeProfit ==
  ASSUME RangeInv, NEW l \in Levels, TakeProfit(l)
  PROVE  RangeInv'
<1>1. /\ running /\ IsNearest(Event("TP", l, TpPrice(l), 0))
      /\ Executed(Event("TP", l, TpPrice(l), 0))
  BY DEF TakeProfit, Crossing
<1>2. Down /\ InsideRemainingSegment(TpPrice(l)) /\ state[l] = "ACTIVE"
  BY <1>1, NearestIsEligible DEF MayTakeProfit
<1>3. /\ cursor' = TpPrice(l) /\ processed' = processed \cup {<<"TP", l>>}
      /\ UNCHANGED <<prev, cur, running>>
  BY <1>1 DEF Executed, Event
<1>4. /\ state' = [state EXCEPT ![l] = "PAID"]
      /\ armed' = [armed EXCEPT ![l] = FALSE]
      /\ floor' = [floor EXCEPT ![l] = FALSE]
  BY DEF TakeProfit, Flatten
<1>5. TpPrice(l) \in Nat
  BY TriggerOrder
<1>6. /\ cur <= TpPrice(l) /\ TpPrice(l) <= cursor
      /\ \A k \in Levels : state[k] = "ACTIVE" => TpPrice(k) <= TpPrice(l)
      /\ \A k \in Levels : state[k] = "READY" /\ armed[k] => Entry(k) <= TpPrice(l)
  BY <1>1, <1>2, <1>5, NearestFalling
<1>7. RangeTypes'
  BY <1>3, <1>4, <1>5 DEF RangeInv, RangeTypes
<1>8. ASSUME NEW k \in Levels PROVE DownRange(k)'
  <2>1. DownRange(k) /\ cursor <= prev /\ cur < prev
    BY <1>1, <1>2 DEF RangeInv, Down
  <2>2. CASE k = l
    BY <1>4, <2>2 DEF DownRange, RangeInv, RangeTypes
  <2>3. CASE k # l
    BY <1>3, <1>4, <1>6, <2>1, <2>3, <1>5, TriggerOrder
       DEF DownRange, RangeInv, RangeTypes
  <2> QED BY <2>2, <2>3
<1> QED BY <1>1, <1>2, <1>3, <1>6, <1>7, <1>8 DEF RangeInv, RangeTypes, Down

\* Both exits of a rising segment leave the level ready and armed.
LEMMA RangeRisingExit ==
  ASSUME RangeInv, NEW l \in Levels, Stop(l) \/ BreakEven(l)
  PROVE  RangeInv'
<1>1. PICK t \in {"STOP", "BREAKEVEN"}, p \in Nat :
        /\ running /\ IsNearest(Event(t, l, p, 0)) /\ Executed(Event(t, l, p, 0))
        /\ ~Down /\ InsideRemainingSegment(p) /\ Entry(l) <= p
  <2>1. CASE Stop(l)
    BY <2>1, NearestIsEligible, TriggerOrder DEF Stop, Crossing, MayStop
  <2>2. CASE BreakEven(l)
    BY <2>2, NearestIsEligible, TriggerOrder DEF BreakEven, Crossing, MayBreakEven
  <2> QED BY <2>1, <2>2
<1>2. /\ cursor' = p /\ processed' = processed \cup {<<t, l>>}
      /\ UNCHANGED <<prev, cur, running>>
  BY <1>1 DEF Executed, Event
<1>3. /\ state' = [state EXCEPT ![l] = "READY"]
      /\ armed' = [armed EXCEPT ![l] = TRUE]
      /\ floor' = [floor EXCEPT ![l] = FALSE]
  BY DEF Stop, BreakEven, Flatten
<1>4. /\ cursor <= p /\ p <= cur
      /\ \A k \in Levels : state[k] = "ACTIVE" =>
           IF floor[k] THEN p <= Entry(k) ELSE p <= StopPrice(k)
  BY <1>1, NearestRising
<1>5. RangeTypes'
  BY <1>2, <1>3 DEF RangeInv, RangeTypes
<1>6. ASSUME NEW k \in Levels PROVE UpRange(k)'
  <2>1. UpRange(k) /\ prev < cur /\ prev <= cursor
    BY <1>1 DEF RangeInv
  <2>2. CASE k = l
    BY <1>1, <1>2, <1>3, <1>4, <2>2, TriggerOrder DEF UpRange, RangeInv, RangeTypes
  <2>3. CASE k # l
    BY <1>2, <1>3, <1>4, <2>1, <2>3, TriggerOrder DEF UpRange, RangeInv, RangeTypes
  <2> QED BY <2>2, <2>3
<1> QED BY <1>1, <1>2, <1>4, <1>5, <1>6 DEF RangeInv, RangeTypes, Down

\* With no candidate left every trigger of the segment has been served.
LEMMA RangeFinish ==
  ASSUME RangeInv, FinishSegment
  PROVE  RangeInv'
<1>1. /\ running /\ running' = FALSE /\ Candidates = {} /\ prev' = cur /\ state' = state
      /\ floor' = floor /\ cur' = NoPrice /\ cursor' = NoPrice
      /\ armed' = [l \in Levels |-> armed[l] \/ (state[l] = "READY" /\ cur >= Entry(l))]
  BY DEF FinishSegment, ArmReadyLevels
<1>2. RangeTypes'
  BY <1>1 DEF RangeInv, RangeTypes, NoPrice
<1>3. ASSUME NEW l \in Levels PROVE IdleRange(l)'
  <2>1. armed'[l] = (armed[l] \/ (state[l] = "READY" /\ cur >= Entry(l)))
    BY <1>1
  <2>2. CASE Down
    <3>1. DownRange(l)
      BY <1>1, <2>2 DEF RangeInv
    <3>2. state[l] = "ACTIVE" => TpPrice(l) < cur
      <4>1. ~(MayTakeProfit(l) /\ InsideRemainingSegment(TpPrice(l)) /\ <<"TP", l>> \notin processed)
        BY <1>1, EligibleIsCandidate
      <4> QED BY <2>2, <3>1, <4>1, TriggerOrder
              DEF DownRange, MayTakeProfit, InsideRemainingSegment, RangeInv, RangeTypes
    <3>3. state[l] = "READY" /\ armed[l] => Entry(l) <= cur
      <4>1. ~(MayEnter(l) /\ InsideRemainingSegment(Entry(l)) /\ <<"ENTRY", l>> \notin processed)
        BY <1>1, EligibleIsCandidate
      <4> QED BY <2>2, <3>1, <4>1, TriggerOrder
              DEF DownRange, MayEnter, InsideRemainingSegment, RangeInv, RangeTypes
    <3> QED BY <1>1, <2>1, <3>1, <3>2, <3>3, TriggerOrder
            DEF IdleRange, DownRange, RangeInv, RangeTypes
  <2>3. CASE ~Down
    <3>1. UpRange(l) /\ prev < cur
      BY <1>1, <2>3 DEF RangeInv
    <3>2. state[l] = "ACTIVE" /\ floor[l] => cur <= Entry(l)
      <4>1. ~(MayBreakEven(l) /\ InsideRemainingSegment(Entry(l))
              /\ <<"BREAKEVEN", l>> \notin processed)
        BY <1>1, EligibleIsCandidate
      <4> QED BY <2>3, <3>1, <4>1, TriggerOrder
              DEF UpRange, MayBreakEven, InsideRemainingSegment, RangeInv, RangeTypes
    <3>3. state[l] = "ACTIVE" /\ ~floor[l] => cur < StopPrice(l)
      <4>1. ~(MayStop(l) /\ InsideRemainingSegment(StopPrice(l)) /\ <<"STOP", l>> \notin processed)
        BY <1>1, EligibleIsCandidate
      <4> QED BY <2>3, <3>1, <4>1, TriggerOrder
              DEF UpRange, MayStop, MayBreakEven, InsideRemainingSegment, RangeInv, RangeTypes
    <3> QED BY <1>1, <2>1, <3>1, <3>2, <3>3, TriggerOrder
            DEF IdleRange, UpRange, RangeInv, RangeTypes
  <2> QED BY <2>2, <2>3
<1> QED BY <1>1, <1>2, <1>3 DEF RangeInv

LEMMA RangeStep == RangeInv /\ [Next]_vars => RangeInv'
<1> SUFFICES ASSUME RangeInv, [Next]_vars PROVE RangeInv'
  OBVIOUS
<1>1. CASE Tick
  BY <1>1, RangeTick DEF Tick
<1>2. CASE ExecuteCrossing
  BY <1>2, RangeEntry, RangeTakeProfit, RangeRisingExit DEF ExecuteCrossing
<1>3. CASE FinishSegment
  BY <1>3, RangeFinish
<1>4. CASE UNCHANGED vars
  BY <1>4 DEF vars, levelVars, segmentVars, RangeInv, RangeTypes, IdleRange, DownRange,
              UpRange, Down
<1> QED BY <1>1, <1>2, <1>3, <1>4 DEF Next

LEMMA RangeAlways == Spec => []RangeInv
<1>1. Init => RangeInv
  BY RangeInit
<1>2. RangeInv /\ [Next]_vars => RangeInv'
  BY RangeStep
<1> QED BY <1>1, <1>2, PTL DEF Spec

\* For any spread, stop rate and tick sequence, process_transition serves every
\* trigger the move touches: no open hedge is left beyond its take-profit or
\* stop and no armed level is left below its entry when a tick has been handled.
THEOREM NoTriggerIsMissed == Spec => []NoMissedTrigger
<1>1. RangeInv => NoMissedTrigger
  BY DEF RangeInv, NoMissedTrigger, IdleRange
<1> QED BY <1>1, RangeAlways, PTL

-----------------------------------------------------------------------------
(* One hedge at a time, and what it may lose and repay: HedgeInv *)

\* What an open hedge has reserved of its source level's debt.
Reserved(l) ==
  /\ target[l] = OptionBudget + allocAmount[l]
  /\ allocSource[l] = NoSource => allocAmount[l] = 0
  /\ RecoveryMode = "FULL_NEXT_TP" =>
       allocSource[l] \in {l, NoSource} /\ allocAmount[l] = debt[l]
  /\ RecoveryMode = "DISTRIBUTED" /\ allocSource[l] # NoSource =>
       /\ allocAmount[l] <= debt[allocSource[l]]
       /\ tpsLeft[allocSource[l]] >= 1
       /\ tpsLeft[allocSource[l]] = 1 => allocAmount[l] = debt[allocSource[l]]

HedgeInv ==
  /\ TypeOK
  /\ OneHedgeAtATime
  /\ BudgetRespected
  /\ NoStrandedDebt
  /\ \A l \in ActiveLevels : Reserved(l)

\* A nonempty set of levels has a first one.
LEMMA FirstLevel ==
  ASSUME NEW S, S \subseteq Levels, S # {}
  PROVE  \E s \in S : \A r \in S : s <= r
<1>1. S \subseteq Nat
  BY ConstantsOK DEF Levels
<1>2. PICK s \in S : \A r \in S : ~(<<r, s>> \in OpToRel(<, Nat))
  BY <1>1, WFMin, NatLessThanWellFounded
<1>3. ASSUME NEW r \in S PROVE s <= r
  <2>1. r < s => <<r, s>> \in OpToRel(<, Nat)
    BY <1>1 DEF OpToRel
  <2>2. ~(r < s)
    BY <1>2, <2>1, Zenon
  <2> QED BY <1>1, <2>2
<1> QED BY <1>3

\* The two integer quotients of the model stay natural numbers.
LEMMA QuotientNat ==
  ASSUME NEW a \in Nat, NEW b \in Nat, b > 0
  PROVE  a \div b \in Nat /\ a \div b <= a /\ a \div 1 = a
OBVIOUS

LEMMA StopLossNat ==
  ASSUME NEW l \in Levels, NEW t \in Nat
  PROVE  StopLoss(l, t) \in Nat
<1>1. ZoneWidth \in Nat /\ ZoneWidth > 0 /\ StopDistance(l) \in Nat
  BY ConstantsOK, TriggerOrder
<1>2. t * StopDistance(l) \in Nat
  BY <1>1
<1> QED BY <1>1, <1>2, QuotientNat DEF StopLoss

\* _recovery_allocations_for takes no more than the source owes.
LEMMA RecoveryWithinDebt ==
  ASSUME TypeOK, NEW l \in Levels
  PROVE  LET s == RecoverySource(l)
             a == RecoveryAmount(l)
         IN  /\ s \in Levels \cup {NoSource} /\ a \in Nat /\ OptionBudget \in Nat
             /\ s = NoSource => a = 0
             /\ RecoveryMode = "FULL_NEXT_TP" => s \in {l, NoSource} /\ a = debt[l]
             /\ RecoveryMode = "DISTRIBUTED" /\ s # NoSource =>
                  a <= debt[s] /\ tpsLeft[s] >= 1 /\ (tpsLeft[s] = 1 => a = debt[s])
<1> DEFINE s == RecoverySource(l)
           a == RecoveryAmount(l)
<1>1. /\ debt \in [Levels -> Nat] /\ tpsLeft \in [Levels -> Nat]
      /\ RecoveryMode \in {"FULL_NEXT_TP", "DISTRIBUTED"}
      /\ \A k \in Levels : k # NoSource
  BY ConstantsOK DEF TypeOK, Levels, NoSource
<1>2. OptionBudget \in Nat
  BY ConstantsOK DEF OptionBudget
<1>3. CASE EligibleSources(l) = {}
  <2>1. s = NoSource /\ a = 0
    BY <1>3 DEF RecoverySource, RecoveryAmount
  <2>2. RecoveryMode = "FULL_NEXT_TP" => debt[l] = 0
    BY <1>1, <1>3 DEF EligibleSources
  <2> QED BY <1>2, <2>1, <2>2
<1>4. CASE EligibleSources(l) # {}
  <2>1. EligibleSources(l) \subseteq Levels
    BY <1>1, ConstantsOK DEF EligibleSources, Levels
  <2>2. s \in EligibleSources(l)
    BY <1>4, <2>1, FirstLevel DEF RecoverySource
  <2>3. s \in Levels /\ s # NoSource /\ debt[s] > 0
    BY <1>1, <2>1, <2>2 DEF EligibleSources
  <2>4. CASE RecoveryMode = "FULL_NEXT_TP"
    BY <1>1, <1>2, <2>2, <2>3, <2>4 DEF EligibleSources, RecoveryAmount
  <2>5. CASE RecoveryMode = "DISTRIBUTED"
    <3>1. tpsLeft[s] \in Nat /\ tpsLeft[s] > 0 /\ debt[s] \in Nat
      BY <1>1, <2>2, <2>3, <2>5 DEF EligibleSources
    <3>2. a = debt[s] \div tpsLeft[s]
      BY <2>3, <2>5 DEF RecoveryAmount
    <3>3. a \in Nat /\ a <= debt[s] /\ (tpsLeft[s] = 1 => a = debt[s])
      BY <3>1, <3>2, QuotientNat
    <3> QED BY <1>2, <2>3, <2>5, <3>1, <3>3
  <2> QED BY <1>1, <2>4, <2>5
<1> QED BY <1>3, <1>4

\* The heart of the argument: when a level enters, no other hedge is open.  A
\* shallower one takes its profit first, at the latest at the shared boundary;
\* a deeper one has been stopped on the way up, or is entered later.
LEMMA NoHedgeAtEntry ==
  ASSUME NarrowStops, RangeInv, NEW l \in Levels, Crossing("ENTRY", l, Entry(l), 1)
  PROVE  /\ \A k \in Levels : state[k] # "ACTIVE"
<1>1. running /\ IsNearest(Event("ENTRY", l, Entry(l), 1))
  BY DEF Crossing
<1>2. MayEnter(l) /\ InsideRemainingSegment(Entry(l)) /\ Down /\ Entry(l) \in Nat
  BY <1>1, NearestIsEligible, TriggerOrder DEF MayEnter
<1>3. /\ Entry(l) <= cursor
      /\ \A k \in Levels : state[k] = "ACTIVE" => TpPrice(k) <= Entry(l) /\ TpPrice(k) # Entry(l)
  BY <1>1, <1>2, NearestFalling
<1>4. SUFFICES ASSUME NEW k \in Levels, state[k] = "ACTIVE" PROVE FALSE
  OBVIOUS
<1>5. k # l
  BY <1>2, <1>4 DEF MayEnter
<1>6. CASE k < l
  BY <1>3, <1>4, <1>6, ZonesDescend, TriggerOrder
<1>7. CASE l < k
  <2>1. DownRange(k) /\ cursor <= prev
    BY <1>1, <1>2 DEF RangeInv
  <2>2. StopPrice(k) <= Entry(l) /\ Entry(k) < Entry(l)
    BY <1>7, StopsBelowEntries, ZonesDescend
  <2> QED BY <1>3, <1>4, <2>1, <2>2, TriggerOrder DEF DownRange, RangeInv, RangeTypes
<1> QED BY <1>5, <1>6, <1>7 DEF Levels

LEMMA HedgeInit == Init => HedgeInv
<1> SUFFICES ASSUME Init PROVE HedgeInv
  OBVIOUS
<1>1. TypeOK
  BY ConstantsOK DEF Init, TypeOK, NoPrice, NoSource, Levels
<1>2. \A l \in Levels : state[l] = "READY" /\ debt[l] = 0
  BY DEF Init
<1>3. ActiveLevels = {} /\ grossStop = 0
  BY <1>2 DEF Init, ActiveLevels
<1>4. NoStrandedDebt
  BY <1>2 DEF NoStrandedDebt
<1> QED BY <1>1, <1>3, <1>4, ConstantsOK DEF HedgeInv, OneHedgeAtATime, BudgetRespected

\* The facts about a crossing that the type invariant needs.
LEMMA CrossingTypes ==
  ASSUME TypeOK, NEW l \in Levels, NEW t \in {"ENTRY", "TP", "STOP", "BREAKEVEN"},
         NEW p \in Nat, NEW i, Crossing(t, l, p, i)
  PROVE  /\ processed' \subseteq {"ENTRY", "TP", "STOP", "BREAKEVEN"} \X Levels
         /\ cursor' \in Nat
         /\ UNCHANGED <<prev, cur, running, above>>
<1>1. processed' = processed \cup {<<t, l>>} /\ cursor' = p
      /\ UNCHANGED <<prev, cur, running, above>>
  BY DEF Crossing, Executed, Event
<1> QED BY <1>1 DEF TypeOK

LEMMA HedgeOpen ==
  ASSUME NarrowStops, RangeInv, HedgeInv, NEW l \in Levels, Open(l) \/ OpenFloor(l)
  PROVE  HedgeInv'
<1>1. Crossing("ENTRY", l, Entry(l), 1) /\ TypeOK /\ Entry(l) \in Nat
  BY TriggerOrder DEF Open, OpenFloor, HedgeInv
<1>2. \A k \in Levels : state[k] # "ACTIVE"
  BY <1>1, NoHedgeAtEntry
<1>3. PICK b \in BOOLEAN : Activate(l, b) /\ (~b => Affordable(l))
  BY DEF Open, OpenFloor
<1> DEFINE s == RecoverySource(l)
           a == RecoveryAmount(l)
<1>4. /\ s \in Levels \cup {NoSource} /\ a \in Nat /\ OptionBudget \in Nat
      /\ s = NoSource => a = 0
      /\ RecoveryMode = "FULL_NEXT_TP" => s \in {l, NoSource} /\ a = debt[l]
      /\ RecoveryMode = "DISTRIBUTED" /\ s # NoSource =>
           a <= debt[s] /\ tpsLeft[s] >= 1 /\ (tpsLeft[s] = 1 => a = debt[s])
  BY <1>1, RecoveryWithinDebt
<1> HIDE DEF s, a
<1>5. /\ state' = [state EXCEPT ![l] = "ACTIVE"]
      /\ armed' = [armed EXCEPT ![l] = FALSE]
      /\ floor' = [floor EXCEPT ![l] = b]
      /\ target' = [target EXCEPT ![l] = OptionBudget + a]
      /\ allocSource' = [allocSource EXCEPT ![l] = s]
      /\ allocAmount' = [allocAmount EXCEPT ![l] = a]
      /\ UNCHANGED <<debt, tpsLeft, grossStop, grossTp>>
  BY <1>3 DEF Activate, EntryTarget, ledgerVars, s, a
<1>6. TypeOK'
  <2>1. /\ processed' \subseteq {"ENTRY", "TP", "STOP", "BREAKEVEN"} \X Levels
        /\ cursor' \in Nat /\ UNCHANGED <<prev, cur, running, above>>
    BY <1>1, CrossingTypes
  <2> QED BY <1>1, <1>4, <1>5, <2>1 DEF TypeOK
<1>7. ActiveLevels' = {l}
  BY <1>1, <1>2, <1>5 DEF ActiveLevels, TypeOK
<1>8. target'[l] = OptionBudget + a /\ allocSource'[l] = s /\ allocAmount'[l] = a /\ floor'[l] = b
  BY <1>1, <1>5 DEF TypeOK
<1>9. BudgetRespected'
  <2>1. grossStop' <= PremiumCredit
    BY <1>5 DEF HedgeInv, BudgetRespected
  <2>2. ~b => grossStop + StopLoss(l, OptionBudget + a) <= PremiumCredit
    BY <1>3 DEF Affordable, EntryTarget, a
  <2> QED BY <1>5, <1>7, <1>8, <2>1, <2>2 DEF BudgetRespected
<1>10. NoStrandedDebt'
  <2>1. state[l] = "READY"
    BY <1>1, NearestIsEligible DEF Crossing, MayEnter
  <2> QED BY <1>1, <1>5, <2>1 DEF HedgeInv, NoStrandedDebt, TypeOK
<1>11. Reserved(l)'
  BY <1>4, <1>5, <1>8 DEF Reserved, OptionBudget
<1> QED BY <1>6, <1>7, <1>9, <1>10, <1>11 DEF HedgeInv, OneHedgeAtATime

LEMMA HedgeLock ==
  ASSUME NarrowStops, RangeInv, HedgeInv, NEW l \in Levels, Lock(l)
  PROVE  HedgeInv'
<1>1. Crossing("ENTRY", l, Entry(l), 1) /\ TypeOK /\ Entry(l) \in Nat
  BY TriggerOrder DEF Lock, HedgeInv
<1>2. \A k \in Levels : state[k] # "ACTIVE"
  BY <1>1, NoHedgeAtEntry
<1>3. /\ state' = [state EXCEPT ![l] = "LOCKED"]
      /\ armed' = [armed EXCEPT ![l] = FALSE]
      /\ UNCHANGED <<floor, target, allocSource, allocAmount, debt, tpsLeft, grossStop, grossTp>>
  BY DEF Lock, ledgerVars
<1>4. TypeOK'
  <2>1. /\ processed' \subseteq {"ENTRY", "TP", "STOP", "BREAKEVEN"} \X Levels
        /\ cursor' \in Nat /\ UNCHANGED <<prev, cur, running, above>>
    BY <1>1, CrossingTypes
  <2> QED BY <1>1, <1>3, <2>1 DEF TypeOK
<1>5. ActiveLevels' = {}
  BY <1>1, <1>2, <1>3 DEF ActiveLevels, TypeOK
<1>6. NoStrandedDebt'
  BY <1>1, <1>3 DEF HedgeInv, NoStrandedDebt, TypeOK
<1> QED BY <1>3, <1>4, <1>5, <1>6 DEF HedgeInv, OneHedgeAtATime, BudgetRespected

LEMMA HedgeTakeProfit ==
  ASSUME RangeInv, HedgeInv, NEW l \in Levels, TakeProfit(l)
  PROVE  HedgeInv'
<1> DEFINE s == allocSource[l]
           left == debt[s] - allocAmount[l]
<1>1. Crossing("TP", l, TpPrice(l), 0) /\ TypeOK /\ TpPrice(l) \in Nat
  BY TriggerOrder DEF TakeProfit, HedgeInv
<1>2. state[l] = "ACTIVE" /\ l \in ActiveLevels
  BY <1>1, NearestIsEligible DEF Crossing, MayTakeProfit, ActiveLevels
<1>3. Reserved(l) /\ \A k \in ActiveLevels : k = l
  BY <1>2 DEF HedgeInv, OneHedgeAtATime
<1>4. /\ state' = [state EXCEPT ![l] = "PAID"]
      /\ armed' = [armed EXCEPT ![l] = FALSE]
      /\ floor' = [floor EXCEPT ![l] = FALSE]
      /\ target' = [target EXCEPT ![l] = 0]
      /\ allocSource' = [allocSource EXCEPT ![l] = NoSource]
      /\ allocAmount' = [allocAmount EXCEPT ![l] = 0]
      /\ grossTp' = grossTp + target[l] /\ grossStop' = grossStop
  BY DEF TakeProfit, Flatten
<1>5. s = NoSource => UNCHANGED <<debt, tpsLeft>>
  BY DEF TakeProfit
<1>6. s # NoSource =>
        /\ debt' = [debt EXCEPT ![s] = left]
        /\ tpsLeft' = IF RecoveryMode # "DISTRIBUTED" THEN tpsLeft
                      ELSE [tpsLeft EXCEPT ![s] = IF left = 0 THEN 0 ELSE tpsLeft[s] - 1]
  BY DEF TakeProfit
<1>7. s # NoSource =>
        /\ s \in Levels /\ left \in Nat
        /\ RecoveryMode = "FULL_NEXT_TP" => s = l /\ left = 0
        /\ RecoveryMode = "DISTRIBUTED" /\ left # 0 => tpsLeft[s] - 1 \in Nat \ {0}
  BY <1>1, <1>3, ConstantsOK DEF Reserved, TypeOK
<1> HIDE DEF s, left
<1>8. TypeOK'
  <2>1. /\ processed' \subseteq {"ENTRY", "TP", "STOP", "BREAKEVEN"} \X Levels
        /\ cursor' \in Nat /\ UNCHANGED <<prev, cur, running, above>>
    BY <1>1, CrossingTypes
  <2>2. debt' \in [Levels -> Nat] /\ tpsLeft' \in [Levels -> Nat]
    BY <1>1, <1>5, <1>6, <1>7 DEF TypeOK
  <2>3. grossTp' \in Nat /\ grossStop' \in Nat
    BY <1>1, <1>4 DEF TypeOK
  <2>4. /\ state' \in [Levels -> {"READY", "ACTIVE", "PAID", "LOCKED"}]
        /\ armed' \in [Levels -> BOOLEAN] /\ floor' \in [Levels -> BOOLEAN]
        /\ target' \in [Levels -> Nat] /\ allocAmount' \in [Levels -> Nat]
        /\ allocSource' \in [Levels -> Levels \cup {NoSource}]
    BY <1>1, <1>4 DEF TypeOK
  <2> QED BY <1>1, <2>1, <2>2, <2>3, <2>4 DEF TypeOK
<1>9. ActiveLevels' = {}
  BY <1>1, <1>3, <1>4 DEF ActiveLevels, TypeOK
<1>10. NoStrandedDebt'
  <2> SUFFICES ASSUME NEW k \in Levels, debt'[k] > 0, state'[k] # "LOCKED"
               PROVE  IF RecoveryMode = "DISTRIBUTED" THEN tpsLeft'[k] > 0 ELSE state'[k] # "PAID"
    BY DEF NoStrandedDebt
  <2>1. state[k] # "LOCKED" /\ (k # l => state'[k] = state[k])
    BY <1>1, <1>2, <1>4 DEF TypeOK
  <2>2. debt[k] > 0 => IF RecoveryMode = "DISTRIBUTED" THEN tpsLeft[k] > 0 ELSE state[k] # "PAID"
    BY <2>1 DEF HedgeInv, NoStrandedDebt
  <2>3. CASE RecoveryMode = "DISTRIBUTED"
    BY <1>1, <1>5, <1>6, <1>7, <2>2, <2>3 DEF TypeOK
  <2>4. CASE RecoveryMode = "FULL_NEXT_TP"
    <3>1. debt'[l] = 0
      BY <1>1, <1>3, <1>5, <1>6, <1>7, <2>4 DEF TypeOK, Reserved, s
    <3> QED BY <1>1, <1>5, <1>6, <1>7, <2>1, <2>2, <2>4, <3>1 DEF TypeOK
  <2> QED BY <2>3, <2>4, ConstantsOK
<1> QED BY <1>4, <1>8, <1>9, <1>10 DEF HedgeInv, OneHedgeAtATime, BudgetRespected

LEMMA HedgeStop ==
  ASSUME RangeInv, HedgeInv, NEW l \in Levels, Stop(l)
  PROVE  HedgeInv'
<1> DEFINE loss == StopLoss(l, target[l])
<1>1. Crossing("STOP", l, StopPrice(l), 0) /\ TypeOK /\ StopPrice(l) \in Nat /\ ~floor[l]
  BY TriggerOrder DEF Stop, HedgeInv
<1>2. state[l] = "ACTIVE" /\ l \in ActiveLevels
  BY <1>1, NearestIsEligible DEF Crossing, MayStop, ActiveLevels
<1>3. \A k \in ActiveLevels : k = l
  BY <1>2 DEF HedgeInv, OneHedgeAtATime
<1>4. loss \in Nat
  BY <1>1, StopLossNat DEF TypeOK
<1>5. /\ state' = [state EXCEPT ![l] = "READY"]
      /\ armed' = [armed EXCEPT ![l] = TRUE]
      /\ floor' = [floor EXCEPT ![l] = FALSE]
      /\ target' = [target EXCEPT ![l] = 0]
      /\ allocSource' = [allocSource EXCEPT ![l] = NoSource]
      /\ allocAmount' = [allocAmount EXCEPT ![l] = 0]
      /\ debt' = [debt EXCEPT ![l] = debt[l] + loss]
      /\ tpsLeft' = [tpsLeft EXCEPT ![l] = TpsAfterStop(l)]
      /\ grossStop' = grossStop + loss /\ grossTp' = grossTp
  BY DEF Stop, Flatten, DebtAfterStop
<1>6. TpsAfterStop(l) \in Nat /\ (RecoveryMode = "DISTRIBUTED" => TpsAfterStop(l) > 0)
  BY <1>1, ConstantsOK DEF TpsAfterStop, TypeOK
<1>7. grossStop + loss <= PremiumCredit
  BY <1>1, <1>2 DEF HedgeInv, BudgetRespected
<1> HIDE DEF loss
<1>8. TypeOK'
  <2>1. /\ processed' \subseteq {"ENTRY", "TP", "STOP", "BREAKEVEN"} \X Levels
        /\ cursor' \in Nat /\ UNCHANGED <<prev, cur, running, above>>
    BY <1>1, CrossingTypes
  <2> QED BY <1>1, <1>4, <1>5, <1>6, <2>1 DEF TypeOK
<1>9. ActiveLevels' = {}
  BY <1>1, <1>3, <1>5 DEF ActiveLevels, TypeOK
<1>10. NoStrandedDebt'
  BY <1>1, <1>5, <1>6, ConstantsOK DEF HedgeInv, NoStrandedDebt, TypeOK
<1> QED BY <1>5, <1>7, <1>8, <1>9, <1>10 DEF HedgeInv, OneHedgeAtATime, BudgetRespected

LEMMA HedgeBreakEven ==
  ASSUME RangeInv, HedgeInv, NEW l \in Levels, BreakEven(l)
  PROVE  HedgeInv'
<1>1. Crossing("BREAKEVEN", l, Entry(l), 0) /\ TypeOK /\ Entry(l) \in Nat
  BY TriggerOrder DEF BreakEven, HedgeInv
<1>2. state[l] = "ACTIVE" /\ l \in ActiveLevels
  BY <1>1, NearestIsEligible DEF Crossing, MayBreakEven, ActiveLevels
<1>3. \A k \in ActiveLevels : k = l
  BY <1>2 DEF HedgeInv, OneHedgeAtATime
<1>4. /\ state' = [state EXCEPT ![l] = "READY"]
      /\ armed' = [armed EXCEPT ![l] = TRUE]
      /\ floor' = [floor EXCEPT ![l] = FALSE]
      /\ target' = [target EXCEPT ![l] = 0]
      /\ allocSource' = [allocSource EXCEPT ![l] = NoSource]
      /\ allocAmount' = [allocAmount EXCEPT ![l] = 0]
      /\ UNCHANGED <<debt, tpsLeft, grossStop, grossTp>>
  BY DEF BreakEven, Flatten, ledgerVars
<1>5. TypeOK'
  <2>1. /\ processed' \subseteq {"ENTRY", "TP", "STOP", "BREAKEVEN"} \X Levels
        /\ cursor' \in Nat /\ UNCHANGED <<prev, cur, running, above>>
    BY <1>1, CrossingTypes
  <2> QED BY <1>1, <1>4, <2>1 DEF TypeOK
<1>6. ActiveLevels' = {}
  BY <1>1, <1>3, <1>4 DEF ActiveLevels, TypeOK
<1>7. NoStrandedDebt'
  BY <1>1, <1>2, <1>4 DEF HedgeInv, NoStrandedDebt, TypeOK
<1> QED BY <1>4, <1>5, <1>6, <1>7 DEF HedgeInv, OneHedgeAtATime, BudgetRespected

\* Ticks and the end of a segment move the price and arm levels, nothing else.
LEMMA HedgeTickOrFinish ==
  ASSUME HedgeInv, Tick \/ FinishSegment
  PROVE  HedgeInv'
<1>1. TypeOK /\ \A p \in Prices : p \in Nat
  BY ConstantsOK DEF HedgeInv
<1>2. /\ UNCHANGED <<state, floor, target, allocSource, allocAmount, debt, tpsLeft,
                     grossStop, grossTp>>
      /\ armed' \in [Levels -> BOOLEAN]
      /\ prev' \in Prices \cup {NoPrice} /\ cur' \in Prices \cup {NoPrice} /\ cursor' \in Nat
      /\ processed' \subseteq {"ENTRY", "TP", "STOP", "BREAKEVEN"} \X Levels
      /\ running' \in BOOLEAN /\ above' \in BOOLEAN
  <2>1. CASE \E p \in Prices : QuietTick(p)
    <3>1. PICK p \in Prices : QuietTick(p)
      BY <2>1
    <3>2. above' \in BOOLEAN
      <4>1. above' = TRUE \/ above' = FALSE \/ above' = above
        BY <3>1 DEF QuietTick
      <4> QED BY <1>1, <4>1 DEF TypeOK
    <3> QED BY <1>1, <3>1, <3>2 DEF QuietTick, ArmReadyLevels, TypeOK, ledgerVars
  <2>2. CASE \E p \in Prices : BeginSegment(p)
    BY <1>1, <2>2, ConstantsOK DEF BeginSegment, TypeOK, ledgerVars, levelVars, NoPrice
  <2>3. CASE FinishSegment
    BY <1>1, <2>3 DEF FinishSegment, ArmReadyLevels, TypeOK, ledgerVars, NoPrice
  <2> QED BY <2>1, <2>2, <2>3 DEF Tick
<1>3. TypeOK'
  BY <1>1, <1>2 DEF TypeOK
<1> QED BY <1>2, <1>3 DEF HedgeInv, OneHedgeAtATime, BudgetRespected, NoStrandedDebt,
                          ActiveLevels, Reserved

LEMMA HedgeStep ==
  ASSUME NarrowStops
  PROVE  RangeInv /\ HedgeInv /\ [Next]_vars => HedgeInv'
<1> SUFFICES ASSUME RangeInv, HedgeInv, [Next]_vars PROVE HedgeInv'
  OBVIOUS
<1>1. CASE Tick \/ FinishSegment
  BY <1>1, HedgeTickOrFinish
<1>2. CASE ExecuteCrossing
  BY <1>2, HedgeOpen, HedgeLock, HedgeTakeProfit, HedgeStop, HedgeBreakEven DEF ExecuteCrossing
<1>3. CASE UNCHANGED vars
  BY <1>3 DEF vars, levelVars, ledgerVars, segmentVars, HedgeInv, TypeOK, OneHedgeAtATime,
              BudgetRespected, NoStrandedDebt, ActiveLevels, Reserved
<1> QED BY <1>1, <1>2, <1>3 DEF Next

LEMMA HedgeAlways ==
  ASSUME NarrowStops
  PROVE  Spec => []HedgeInv
<1>1. Init => HedgeInv
  BY HedgeInit
<1>2. RangeInv /\ HedgeInv /\ [Next]_vars => HedgeInv'
  BY HedgeStep
<1> QED BY <1>1, <1>2, RangeAlways, PTL DEF Spec

\* With narrow stops every variable keeps its type: no repayment makes a debt
\* negative (the AssertionError of _take_profit) and no repayment count wraps.
THEOREM TypesAreKept ==
  ASSUME NarrowStops
  PROVE  Spec => []TypeOK
<1>1. HedgeInv => TypeOK
  BY DEF HedgeInv
<1> QED BY <1>1, HedgeAlways, PTL

\* With narrow stops the engine holds at most one hedge, in every recovery mode
\* and lock policy and however far a tick jumps.
THEOREM AtMostOneHedge ==
  ASSUME NarrowStops
  PROVE  Spec => []OneHedgeAtATime
<1>1. HedgeInv => OneHedgeAtATime
  BY DEF HedgeInv
<1> QED BY <1>1, HedgeAlways, PTL

\* With narrow stops the check of _open, which looks only at realized losses,
\* is enough: fixed-stop losses never exceed the premium credit.
THEOREM PremiumBoundsStopLosses ==
  ASSUME NarrowStops
  PROVE  Spec => []BudgetRespected
<1>1. HedgeInv => BudgetRespected
  BY DEF HedgeInv
<1> QED BY <1>1, HedgeAlways, PTL

\* With narrow stops a level is never paid with full-recovery debt left, nor
\* left with distributed debt and no repayment to claim it.
THEOREM DebtKeepsItsClaim ==
  ASSUME NarrowStops
  PROVE  Spec => []NoStrandedDebt
<1>1. HedgeInv => NoStrandedDebt
  BY DEF HedgeInv
<1> QED BY <1>1, HedgeAlways, PTL

\* With narrow stops debt falls only in a take-profit that earns the repaid
\* amount on top of the option budget of its zone.
THEOREM DebtFallsWhenRecovered ==
  ASSUME NarrowStops
  PROVE  Spec => DebtFallsOnlyByRecovery
<1> DEFINE Falls == \A l \in Levels : debt'[l] < debt[l] =>
                      grossTp' - grossTp = OptionBudget + (debt[l] - debt'[l])
<1>1. ASSUME HedgeInv, [Next]_vars PROVE Falls \/ UNCHANGED vars
  <2>1. TypeOK
    BY <1>1 DEF HedgeInv
  <2>2. CASE \E l \in Levels : TakeProfit(l)
    <3>1. PICK l \in Levels : TakeProfit(l)
      BY <2>2
    <3>2. state[l] = "ACTIVE" /\ l \in ActiveLevels
      BY <3>1, NearestIsEligible DEF TakeProfit, Crossing, MayTakeProfit, ActiveLevels
    <3>3. target[l] = OptionBudget + allocAmount[l]
      BY <1>1, <3>2 DEF HedgeInv, Reserved
    <3>4. grossTp' = grossTp + target[l]
      BY <3>1 DEF TakeProfit
    <3>5. OptionBudget \in Nat
      BY ConstantsOK DEF OptionBudget
    <3>6. CASE allocSource[l] = NoSource
      <4>1. debt' = debt
        BY <3>1, <3>6 DEF TakeProfit
      <4> QED BY <2>1, <4>1 DEF TypeOK
    <3>7. CASE allocSource[l] # NoSource
      <4>1. debt' = [debt EXCEPT ![allocSource[l]] = debt[allocSource[l]] - allocAmount[l]]
        BY <3>1, <3>7 DEF TakeProfit
      <4>2. allocSource[l] \in Levels
        BY <2>1, <3>7 DEF TypeOK
      <4> QED BY <2>1, <3>3, <3>4, <3>5, <4>1, <4>2 DEF TypeOK
    <3> QED BY <3>6, <3>7
  <2>3. CASE \E l \in Levels : Stop(l)
    <3>1. PICK l \in Levels : Stop(l)
      BY <2>3
    <3>2. debt' = [debt EXCEPT ![l] = debt[l] + StopLoss(l, target[l])]
      BY <3>1 DEF Stop, DebtAfterStop
    <3>3. StopLoss(l, target[l]) \in Nat
      BY <2>1, StopLossNat DEF TypeOK
    <3> QED BY <2>1, <3>2, <3>3 DEF TypeOK
  <2>4. CASE \E l \in Levels : Open(l) \/ OpenFloor(l) \/ Lock(l) \/ BreakEven(l)
    <3>1. debt' = debt
      BY <2>4 DEF Open, OpenFloor, Lock, BreakEven, Activate
    <3> QED BY <2>1, <3>1 DEF TypeOK
  <2>5. CASE Tick \/ FinishSegment
    <3>1. debt' = debt
      BY <2>5 DEF Tick, QuietTick, BeginSegment, FinishSegment, levelVars
    <3> QED BY <2>1, <3>1 DEF TypeOK
  <2>6. CASE UNCHANGED vars
    BY <2>6
  <2> QED BY <1>1, <2>2, <2>3, <2>4, <2>5, <2>6 DEF Next, ExecuteCrossing
<1>2. HedgeInv /\ [Next]_vars => [Falls]_vars
  BY <1>1
<1> QED BY <1>2, HedgeAlways, PTL DEF Spec, DebtFallsOnlyByRecovery

-----------------------------------------------------------------------------
(* The books: LedgerInv, which needs no hypothesis on the stops *)

\* Without narrow stops a debt might be repaid twice, so it is only an integer
\* here.
LedgerTypes ==
  /\ target \in [Levels -> Nat] /\ allocAmount \in [Levels -> Nat]
  /\ allocSource \in [Levels -> Levels \cup {NoSource}]
  /\ debt \in [Levels -> Int] /\ tpsLeft \in [Levels -> Int]
  /\ grossStop \in Int /\ grossTp \in Int

TargetsAreFunded ==
  \A l \in ActiveLevels :
    /\ target[l] = OptionBudget + allocAmount[l]
    /\ (allocSource[l] = NoSource => allocAmount[l] = 0)

\* Every paid zone has earned at least its option budget.
ZonesArePaid == OptionBudget * Cardinality(PaidLevels) <= grossTp

\* Once the price has been above the short strike, a ready level is armed.
ReadyIsArmed == above => \A l \in Levels : state[l] = "READY" => armed[l]

LedgerInv ==
  /\ LedgerTypes
  /\ TargetsAreFunded
  /\ RealizedPnlIdentity
  /\ ZonesArePaid
  /\ ReadyIsArmed

LEMMA LevelsFinite ==
  /\ IsFiniteSet(Levels) /\ IsFiniteSet(PaidLevels) /\ IsFiniteSet(ActiveLevels)
  /\ Cardinality(PaidLevels) \in Nat
  /\ IsFiniteSet(PaidLevels') /\ Cardinality(PaidLevels') \in Nat
<1>1. IsFiniteSet(Levels)
  BY FS_Interval, ConstantsOK DEF Levels
<1>2. PaidLevels \in SUBSET Levels /\ ActiveLevels \in SUBSET Levels /\ PaidLevels' \in SUBSET Levels
  BY DEF PaidLevels, ActiveLevels
<1> QED BY <1>1, <1>2, FS_Subset, FS_CardinalityType

LEMMA BudgetNat == OptionBudget \in Nat /\ OptionBudget > 0
BY ConstantsOK DEF OptionBudget

LEMMA LedgerInit == Init => LedgerInv
<1> SUFFICES ASSUME Init PROVE LedgerInv
  OBVIOUS
<1>1. LedgerTypes
  BY DEF Init, LedgerTypes
<1>2. ActiveLevels = {} /\ PaidLevels = {}
  BY DEF Init, ActiveLevels, PaidLevels
<1>3. OutstandingDebt = 0
  <2>1. \A l \in Levels : debt[l] = 0
    BY DEF Init
  <2> DEFINE Bad == {t \in SUBSET Levels : Sum(debt, t) # 0}
  <2>2. Bad = {}
    <3> SUFFICES ASSUME Bad # {} PROVE FALSE
      OBVIOUS
    <3>1. Bad \in SUBSET (SUBSET Levels)
      OBVIOUS
    <3>2. PICK t \in Bad : \A u \in Bad : u \subseteq t => u = t
      <4> HIDE DEF Bad
      <4> QED BY <3>1, LevelsFinite, MinimalSubset
    <3>3. t # {}
      BY <3>2, SumEmpty
    <3>4. PICK x \in t : TRUE
      BY <3>3
    <3>5. Sum(debt, t \ {x}) = 0
      BY <3>2, <3>4
    <3>6. IsFiniteSet(t) /\ \A y \in t : debt[y] \in Int
      BY <2>1, <3>2, LevelsFinite, FS_Subset
    <3>7. Sum(debt, t) = debt[x] + Sum(debt, t \ {x})
      BY <3>4, <3>6, SumRemove
    <3> QED BY <2>1, <3>2, <3>4, <3>5, <3>7
  <2> QED BY <2>2 DEF OutstandingDebt, Sum
<1>4. grossStop = 0 /\ grossTp = 0 /\ ~above
  BY DEF Init
<1>5. Cardinality(PaidLevels) = 0
  BY <1>2, FS_EmptySet
<1> QED BY <1>1, <1>2, <1>3, <1>4, <1>5, BudgetNat
        DEF LedgerInv, TargetsAreFunded, RealizedPnlIdentity, ZonesArePaid, ReadyIsArmed

\* The debt of one level changes.
LEMMA DebtChanges ==
  ASSUME LedgerTypes, NEW s \in Levels, NEW v \in Int, debt' = [debt EXCEPT ![s] = v]
  PROVE  /\ OutstandingDebt \in Int
         /\ OutstandingDebt' = OutstandingDebt - debt[s] + v
<1>1. /\ \A y \in Levels : debt[y] \in Int /\ debt'[y] \in Int
      /\ \A y \in Levels \ {s} : debt'[y] = debt[y]
      /\ debt'[s] = v
  BY DEF LedgerTypes
<1>2. Sum(debt', Levels) = Sum(debt, Levels) - debt[s] + debt'[s]
  <2> DEFINE d == debt'
  <2>1. /\ \A y \in Levels : debt[y] \in Int /\ d[y] \in Int
        /\ \A y \in Levels \ {s} : d[y] = debt[y]
    BY <1>1
  <2> HIDE DEF d
  <2>2. Sum(d, Levels) = Sum(debt, Levels) - debt[s] + d[s]
    BY <2>1, LevelsFinite, SumUpdate
  <2> QED BY <2>2 DEF d
<1>3. Sum(debt, Levels) \in Int
  BY <1>1, LevelsFinite, SumType
<1> QED BY <1>1, <1>2, <1>3 DEF OutstandingDebt, Sum

\* A step that moves no money and no paid level leaves the books as they are.
LEMMA BooksUntouched ==
  ASSUME LedgerInv, UNCHANGED <<debt, grossStop, grossTp>>, PaidLevels' = PaidLevels
  PROVE  RealizedPnlIdentity' /\ ZonesArePaid'
BY DEF LedgerInv, RealizedPnlIdentity, ZonesArePaid, OutstandingDebt

LEMMA LedgerOpen ==
  ASSUME RangeInv, LedgerInv, NEW l \in Levels, Open(l) \/ OpenFloor(l)
  PROVE  LedgerInv'
<1>1. LedgerTypes /\ RangeTypes /\ TargetsAreFunded /\ ReadyIsArmed
  BY DEF LedgerInv, RangeInv
<1>2. state[l] = "READY" /\ above' = above
  BY NearestIsEligible DEF Open, OpenFloor, Crossing, MayEnter, Executed
<1>3. PICK b \in BOOLEAN : Activate(l, b)
  BY DEF Open, OpenFloor
<1> DEFINE s == RecoverySource(l)
           a == RecoveryAmount(l)
<1>4. /\ s \in Levels \cup {NoSource} /\ a \in Nat
      /\ (s = NoSource => a = 0)
  <2>1. CASE EligibleSources(l) = {}
    BY <2>1 DEF RecoverySource, RecoveryAmount
  <2>2. CASE EligibleSources(l) # {}
    <3>1. EligibleSources(l) \subseteq Levels
      BY ConstantsOK DEF EligibleSources, Levels
    <3>2. s \in EligibleSources(l) /\ s \in Levels
      BY <2>2, <3>1, FirstLevel DEF RecoverySource
    <3>3. s # NoSource /\ debt[s] \in Int /\ tpsLeft[s] \in Int /\ debt[s] > 0
      BY <1>1, <3>2 DEF Levels, NoSource, LedgerTypes, EligibleSources
    <3>4. CASE RecoveryMode = "FULL_NEXT_TP"
      BY <3>2, <3>3, <3>4 DEF RecoveryAmount
    <3>5. CASE RecoveryMode # "FULL_NEXT_TP"
      <4>1. tpsLeft[s] > 0 /\ a = debt[s] \div tpsLeft[s]
        BY <3>2, <3>3, <3>5 DEF EligibleSources, RecoveryAmount
      <4>2. tpsLeft[s] \in Nat /\ debt[s] \in Nat
        BY <3>3, <4>1
      <4>3. debt[s] \div tpsLeft[s] \in Nat
        BY <4>1, <4>2, QuotientNat
      <4> QED BY <3>2, <3>3, <4>1, <4>3
    <3> QED BY <3>4, <3>5
  <2> QED BY <2>1, <2>2
<1>5. /\ state' = [state EXCEPT ![l] = "ACTIVE"]
      /\ armed' = [armed EXCEPT ![l] = FALSE]
      /\ target' = [target EXCEPT ![l] = OptionBudget + a]
      /\ allocSource' = [allocSource EXCEPT ![l] = s]
      /\ allocAmount' = [allocAmount EXCEPT ![l] = a]
      /\ UNCHANGED <<debt, tpsLeft, grossStop, grossTp>>
  BY <1>3 DEF Activate, EntryTarget, ledgerVars
<1> HIDE DEF s, a
<1>6. LedgerTypes'
  BY <1>1, <1>4, <1>5, BudgetNat DEF LedgerTypes
<1>7. TargetsAreFunded'
  <2> SUFFICES ASSUME NEW k \in ActiveLevels'
               PROVE  /\ target'[k] = OptionBudget + allocAmount'[k]
                      /\ (allocSource'[k] = NoSource => allocAmount'[k] = 0)
    BY DEF TargetsAreFunded, OptionBudget
  <2>1. CASE k = l
    BY <1>1, <1>4, <1>5, <2>1 DEF LedgerTypes
  <2>2. CASE k # l
    BY <1>1, <1>5, <2>2 DEF LedgerTypes, RangeTypes, ActiveLevels, TargetsAreFunded
  <2> QED BY <2>1, <2>2
<1>8. PaidLevels' = PaidLevels
  BY <1>1, <1>2, <1>5 DEF PaidLevels, RangeTypes
<1>9. ReadyIsArmed'
  BY <1>1, <1>2, <1>5 DEF ReadyIsArmed, RangeTypes
<1> QED BY <1>5, <1>6, <1>7, <1>8, <1>9, BooksUntouched DEF LedgerInv

LEMMA LedgerLock ==
  ASSUME RangeInv, LedgerInv, NEW l \in Levels, Lock(l)
  PROVE  LedgerInv'
<1>1. LedgerTypes /\ RangeTypes /\ TargetsAreFunded /\ ReadyIsArmed
  BY DEF LedgerInv, RangeInv
<1>2. state[l] = "READY" /\ above' = above
  BY NearestIsEligible DEF Lock, Crossing, MayEnter, Executed
<1>3. /\ state' = [state EXCEPT ![l] = "LOCKED"]
      /\ armed' = [armed EXCEPT ![l] = FALSE]
      /\ UNCHANGED <<target, allocSource, allocAmount, debt, tpsLeft, grossStop, grossTp>>
  BY DEF Lock, ledgerVars
<1>4. PaidLevels' = PaidLevels /\ ActiveLevels' = ActiveLevels
  BY <1>1, <1>2, <1>3 DEF PaidLevels, ActiveLevels, RangeTypes
<1>5. ReadyIsArmed'
  BY <1>1, <1>2, <1>3 DEF ReadyIsArmed, RangeTypes
<1>6. LedgerTypes' /\ TargetsAreFunded'
  BY <1>1, <1>3, <1>4 DEF LedgerTypes, TargetsAreFunded, OptionBudget
<1> QED BY <1>3, <1>4, <1>5, <1>6, BooksUntouched DEF LedgerInv

\* What Flatten leaves of the types and of the targets of the other levels.
LEMMA FlattenLeaves ==
  ASSUME LedgerTypes, RangeTypes, TargetsAreFunded, NEW l \in Levels, Flatten(l),
         NEW v \in {"READY", "PAID"}, state' = [state EXCEPT ![l] = v]
  PROVE  /\ target' \in [Levels -> Nat] /\ allocAmount' \in [Levels -> Nat]
         /\ allocSource' \in [Levels -> Levels \cup {NoSource}]
         /\ TargetsAreFunded'
<1>1. /\ target' = [target EXCEPT ![l] = 0]
      /\ allocSource' = [allocSource EXCEPT ![l] = NoSource]
      /\ allocAmount' = [allocAmount EXCEPT ![l] = 0]
  BY DEF Flatten
<1>2. TargetsAreFunded'
  <2> SUFFICES ASSUME NEW k \in ActiveLevels'
               PROVE  /\ target'[k] = OptionBudget + allocAmount'[k]
                      /\ (allocSource'[k] = NoSource => allocAmount'[k] = 0)
    BY DEF TargetsAreFunded, OptionBudget
  <2>1. k # l /\ k \in ActiveLevels
    BY DEF ActiveLevels, RangeTypes
  <2> QED BY <1>1, <2>1 DEF LedgerTypes, TargetsAreFunded, ActiveLevels
<1> QED BY <1>1, <1>2 DEF LedgerTypes

LEMMA LedgerTakeProfit ==
  ASSUME RangeInv, LedgerInv, NEW l \in Levels, TakeProfit(l)
  PROVE  LedgerInv'
<1> DEFINE s == allocSource[l]
           n == Cardinality(PaidLevels)
           a == allocAmount[l]
<1>1. LedgerTypes /\ RangeTypes /\ TargetsAreFunded /\ ReadyIsArmed
  BY DEF LedgerInv, RangeInv
<1>2. state[l] = "ACTIVE" /\ l \in ActiveLevels /\ above' = above
  BY NearestIsEligible DEF TakeProfit, Crossing, MayTakeProfit, Executed, ActiveLevels
<1>3. /\ state' = [state EXCEPT ![l] = "PAID"]
      /\ armed' = [armed EXCEPT ![l] = FALSE]
      /\ grossTp' = grossTp + target[l] /\ grossStop' = grossStop
      /\ Flatten(l)
  BY DEF TakeProfit
<1>4. target[l] = OptionBudget + a /\ (s = NoSource => a = 0) /\ a \in Nat
  BY <1>1, <1>2 DEF TargetsAreFunded, LedgerTypes
<1>5. /\ OutstandingDebt \in Int /\ OutstandingDebt' = OutstandingDebt - a
      /\ debt' \in [Levels -> Int] /\ tpsLeft' \in [Levels -> Int]
  <2>1. CASE s = NoSource
    <3>1. UNCHANGED <<debt, tpsLeft>>
      BY <2>1 DEF TakeProfit
    <3>2. Sum(debt, Levels) \in Int
      BY <1>1, LevelsFinite, SumType DEF LedgerTypes
    <3> QED BY <1>1, <1>4, <2>1, <3>1, <3>2 DEF LedgerTypes, OutstandingDebt, Sum
  <2>2. CASE s # NoSource
    <3> DEFINE left == debt[s] - a
    <3>1. /\ debt' = [debt EXCEPT ![s] = left]
          /\ tpsLeft' = IF RecoveryMode # "DISTRIBUTED" THEN tpsLeft
                        ELSE [tpsLeft EXCEPT ![s] = IF left = 0 THEN 0 ELSE tpsLeft[s] - 1]
      BY <2>2 DEF TakeProfit
    <3>2. s \in Levels /\ debt[s] \in Int /\ left \in Int
      BY <1>1, <1>4, <2>2 DEF LedgerTypes
    <3>3. OutstandingDebt \in Int /\ OutstandingDebt' = OutstandingDebt - debt[s] + left
      BY <1>1, <3>1, <3>2, DebtChanges
    <3>4. OutstandingDebt' = OutstandingDebt - a
      BY <1>4, <3>2, <3>3
    <3>5. debt' \in [Levels -> Int] /\ tpsLeft' \in [Levels -> Int]
      <4> HIDE DEF left
      <4> QED BY <1>1, <3>1, <3>2 DEF LedgerTypes
    <3> QED BY <3>3, <3>4, <3>5
  <2> QED BY <2>1, <2>2
<1>6. n \in Nat /\ Cardinality(PaidLevels') = n + 1
  <2>1. PaidLevels' = PaidLevels \cup {l} /\ l \notin PaidLevels
    BY <1>1, <1>2, <1>3 DEF PaidLevels, RangeTypes
  <2> QED BY <2>1, LevelsFinite, FS_AddElement
<1>7. OptionBudget * (n + 1) = OptionBudget * n + OptionBudget /\ OptionBudget * n \in Nat
  BY <1>6, BudgetNat
<1>8. grossTp - grossStop = OptionBudget * n - OutstandingDebt /\ OptionBudget * n <= grossTp
  BY DEF LedgerInv, RealizedPnlIdentity, ZonesArePaid
<1>9. grossTp \in Int /\ grossStop \in Int
  BY <1>1 DEF LedgerTypes
<1> HIDE DEF n, a, s
<1>10. grossTp' = grossTp + (OptionBudget + a) /\ grossTp' \in Int
  BY <1>3, <1>4, <1>9, BudgetNat
<1>11. RealizedPnlIdentity'
  <2>1. grossTp' - grossStop' = OptionBudget * (n + 1) - OutstandingDebt'
    BY <1>3, <1>4, <1>5, <1>7, <1>8, <1>9, <1>10, BudgetNat
  <2> QED BY <1>6, <2>1 DEF RealizedPnlIdentity, OptionBudget
<1>12. ZonesArePaid'
  <2>1. OptionBudget * (n + 1) <= grossTp'
    BY <1>4, <1>7, <1>8, <1>9, <1>10, BudgetNat
  <2> QED BY <1>6, <2>1 DEF ZonesArePaid, OptionBudget
<1>13. ReadyIsArmed'
  BY <1>1, <1>2, <1>3 DEF ReadyIsArmed, RangeTypes
<1>14. LedgerTypes' /\ TargetsAreFunded'
  BY <1>1, <1>3, <1>5, <1>9, <1>10, FlattenLeaves DEF LedgerTypes
<1> QED BY <1>11, <1>12, <1>13, <1>14 DEF LedgerInv

LEMMA LedgerStop ==
  ASSUME RangeInv, LedgerInv, NEW l \in Levels, Stop(l)
  PROVE  LedgerInv'
<1> DEFINE loss == StopLoss(l, target[l])
           tps == TpsAfterStop(l)
<1>1. LedgerTypes /\ RangeTypes /\ TargetsAreFunded /\ ReadyIsArmed
  BY DEF LedgerInv, RangeInv
<1>2. state[l] = "ACTIVE" /\ above' = above
  BY NearestIsEligible DEF Stop, Crossing, MayStop, Executed
<1>3. /\ state' = [state EXCEPT ![l] = "READY"]
      /\ armed' = [armed EXCEPT ![l] = TRUE]
      /\ debt' = [debt EXCEPT ![l] = debt[l] + loss]
      /\ tpsLeft' = [tpsLeft EXCEPT ![l] = tps]
      /\ grossStop' = grossStop + loss /\ grossTp' = grossTp
      /\ Flatten(l)
  BY DEF Stop, DebtAfterStop
<1>4. loss \in Nat /\ tps \in Int /\ debt[l] \in Int /\ debt[l] + loss \in Int
  BY <1>1, StopLossNat, ConstantsOK DEF LedgerTypes, TpsAfterStop
<1> HIDE DEF loss, tps
<1>5. OutstandingDebt \in Int /\ OutstandingDebt' = OutstandingDebt - debt[l] + (debt[l] + loss)
  BY <1>1, <1>3, <1>4, DebtChanges
<1>6. PaidLevels' = PaidLevels
  BY <1>1, <1>2, <1>3 DEF PaidLevels, RangeTypes
<1>7. grossTp \in Int /\ grossStop \in Int /\ Cardinality(PaidLevels) \in Nat
  BY <1>1, LevelsFinite DEF LedgerTypes
<1>8. OptionBudget * Cardinality(PaidLevels) \in Int
  BY <1>7, BudgetNat
<1>9. RealizedPnlIdentity'
  <2>1. grossTp - grossStop = OptionBudget * Cardinality(PaidLevels) - OutstandingDebt
    BY DEF LedgerInv, RealizedPnlIdentity
  <2>2. grossTp' - grossStop' = OptionBudget * Cardinality(PaidLevels) - OutstandingDebt'
    BY <1>3, <1>4, <1>5, <1>7, <1>8, <2>1
  <2> QED BY <1>6, <2>2 DEF RealizedPnlIdentity, OptionBudget
<1>10. ZonesArePaid'
  BY <1>3, <1>6 DEF LedgerInv, ZonesArePaid, OptionBudget
<1>11. ReadyIsArmed'
  BY <1>1, <1>2, <1>3 DEF ReadyIsArmed, RangeTypes
<1>12. LedgerTypes' /\ TargetsAreFunded'
  <2>1. /\ debt' \in [Levels -> Int] /\ tpsLeft' \in [Levels -> Int]
        /\ grossStop' \in Int /\ grossTp' \in Int
    BY <1>1, <1>3, <1>4 DEF LedgerTypes
  <2> QED BY <1>1, <1>3, <2>1, FlattenLeaves DEF LedgerTypes
<1> QED BY <1>9, <1>10, <1>11, <1>12 DEF LedgerInv

LEMMA LedgerBreakEven ==
  ASSUME RangeInv, LedgerInv, NEW l \in Levels, BreakEven(l)
  PROVE  LedgerInv'
<1>1. LedgerTypes /\ RangeTypes /\ TargetsAreFunded /\ ReadyIsArmed
  BY DEF LedgerInv, RangeInv
<1>2. state[l] = "ACTIVE" /\ above' = above
  BY NearestIsEligible DEF BreakEven, Crossing, MayBreakEven, Executed
<1>3. /\ state' = [state EXCEPT ![l] = "READY"]
      /\ armed' = [armed EXCEPT ![l] = TRUE]
      /\ UNCHANGED <<debt, tpsLeft, grossStop, grossTp>>
      /\ Flatten(l)
  BY DEF BreakEven, ledgerVars
<1>4. PaidLevels' = PaidLevels
  BY <1>1, <1>2, <1>3 DEF PaidLevels, RangeTypes
<1>5. ReadyIsArmed'
  BY <1>1, <1>2, <1>3 DEF ReadyIsArmed, RangeTypes
<1>6. LedgerTypes' /\ TargetsAreFunded'
  BY <1>1, <1>3, FlattenLeaves DEF LedgerTypes
<1> QED BY <1>3, <1>4, <1>5, <1>6, BooksUntouched DEF LedgerInv

\* A first price at or above the short strike arms every level.
LEMMA LedgerTickOrFinish ==
  ASSUME RangeInv, LedgerInv, Tick \/ FinishSegment
  PROVE  LedgerInv'
<1>1. LedgerTypes /\ RangeTypes /\ TargetsAreFunded /\ ReadyIsArmed
  BY DEF LedgerInv, RangeInv
<1>2. UNCHANGED <<state, target, allocSource, allocAmount, debt, tpsLeft, grossStop, grossTp>>
  BY DEF Tick, QuietTick, BeginSegment, FinishSegment, levelVars, ledgerVars
<1>3. ReadyIsArmed'
  <2>1. CASE \E p \in Prices : QuietTick(p)
    <3>1. PICK p \in Prices : QuietTick(p)
      BY <2>1
    <3>2. ASSUME NEW l \in Levels, p >= ShortStrike PROVE p >= Entry(l)
      <4>1. /\ ZoneWidth * (l - 1) \in Nat /\ ShortStrike \in Nat /\ p \in Nat
            /\ Entry(l) = ShortStrike - ZoneWidth * (l - 1)
        BY ConstantsOK DEF Levels, Entry, Boundary
      <4> QED BY <3>2, <4>1
    <3>3. /\ armed' = [l \in Levels |-> armed[l] \/ (state[l] = "READY" /\ p >= Entry(l))]
          /\ (above' => above \/ p >= ShortStrike)
      BY <3>1 DEF QuietTick, ArmReadyLevels
    <3> QED BY <1>1, <1>2, <3>2, <3>3 DEF ReadyIsArmed
  <2>2. CASE \E p \in Prices : BeginSegment(p)
    BY <1>1, <2>2 DEF BeginSegment, levelVars, ReadyIsArmed
  <2>3. CASE FinishSegment
    BY <1>1, <2>3 DEF FinishSegment, ArmReadyLevels, ReadyIsArmed
  <2> QED BY <2>1, <2>2, <2>3 DEF Tick
<1>4. PaidLevels' = PaidLevels /\ ActiveLevels' = ActiveLevels
  BY <1>2 DEF PaidLevels, ActiveLevels
<1>5. LedgerTypes' /\ TargetsAreFunded'
  BY <1>1, <1>2, <1>4 DEF LedgerTypes, TargetsAreFunded, OptionBudget
<1> QED BY <1>2, <1>3, <1>4, <1>5, BooksUntouched DEF LedgerInv

LEMMA LedgerAlways == Spec => []LedgerInv
<1>1. RangeInv /\ LedgerInv /\ [Next]_vars => LedgerInv'
  <2> SUFFICES ASSUME RangeInv, LedgerInv, [Next]_vars PROVE LedgerInv'
    OBVIOUS
  <2>1. CASE Tick \/ FinishSegment
    BY <2>1, LedgerTickOrFinish
  <2>2. CASE ExecuteCrossing
    BY <2>2, LedgerOpen, LedgerLock, LedgerTakeProfit, LedgerStop, LedgerBreakEven
       DEF ExecuteCrossing
  <2>3. CASE UNCHANGED vars
    BY <2>3 DEF vars, levelVars, ledgerVars, segmentVars, LedgerInv, LedgerTypes,
                TargetsAreFunded, RealizedPnlIdentity, ZonesArePaid, ReadyIsArmed,
                ActiveLevels, PaidLevels, OutstandingDebt
  <2> QED BY <2>1, <2>2, <2>3 DEF Next
<1> QED BY <1>1, LedgerInit, RangeAlways, PTL DEF Spec

\* The books add up with any stops, even when several hedges are open: the
\* realized hedge result is the budget of the paid zones less the debt left.
THEOREM BooksAddUp == Spec => []RealizedPnlIdentity
<1>1. LedgerInv => RealizedPnlIdentity
  BY DEF LedgerInv
<1> QED BY <1>1, LedgerAlways, PTL

\* With narrow stops the books add up and no part of a debt is counted on by
\* two hedges: the open hedge will repay no more than its source owes.
THEOREM DebtIsMoney ==
  ASSUME NarrowStops
  PROVE  Spec => []DebtAccounting
<1>1. HedgeInv => NoDoubleReservation
  <2> SUFFICES ASSUME HedgeInv, NEW s \in Levels
               PROVE  Sum(allocAmount, {l \in ActiveLevels : allocSource[l] = s}) <= debt[s]
    BY DEF NoDoubleReservation, Sum
  <2> DEFINE S == {l \in ActiveLevels : allocSource[l] = s}
  <2>1. debt[s] \in Nat /\ TypeOK
    BY DEF HedgeInv, TypeOK
  <2>2. CASE S = {}
    BY <2>1, <2>2, SumEmpty
  <2>3. CASE S # {}
    <3>1. PICK l \in S : S = {l}
      BY <2>3 DEF HedgeInv, OneHedgeAtATime
    <3>2. Reserved(l) /\ allocSource[l] = s /\ s # NoSource /\ allocAmount[l] \in Nat
      BY <2>1 DEF HedgeInv, Levels, NoSource, TypeOK, ActiveLevels
    <3>3. allocAmount[l] <= debt[s]
      BY <2>1, <3>2, ConstantsOK DEF Reserved
    <3>4. Sum(allocAmount, {} \cup {l}) = allocAmount[l] + Sum(allocAmount, {})
      <4>1. l \notin {} /\ \A y \in {} \cup {l} : allocAmount[y] \in Int
        BY <3>2
      <4> QED BY <4>1, FS_EmptySet, SumAdd
    <3>5. {} \cup {l} = S /\ Sum(allocAmount, {}) = 0
      BY <3>1, SumEmpty
    <3> QED BY <3>2, <3>3, <3>4, <3>5
  <2> QED BY <2>2, <2>3
<1>2. DebtAccounting <=> RealizedPnlIdentity /\ NoDoubleReservation
  BY DEF DebtAccounting
<1> QED BY <1>1, <1>2, BooksAddUp, HedgeAlways, PTL

-----------------------------------------------------------------------------
(* Option and hedges together: FloorUntilLocked *)

LEMMA LargerOfTwo ==
  ASSUME NEW x \in Int
  PROVE  Max({x, 0}) = IF x >= 0 THEN x ELSE 0
<1>1. CASE x >= 0
  <2>1. \A m \in {x, 0} : (\A y \in {x, 0} : m >= y) <=> m = x
    BY <1>1
  <2> QED BY <1>1, <2>1 DEF Max
<1>2. CASE ~(x >= 0)
  <2>1. \A m \in {x, 0} : (\A y \in {x, 0} : m >= y) <=> m = 0
    BY <1>2
  <2> QED BY <1>2, <2>1 DEF Max
<1> QED BY <1>1, <1>2

\* What the option has lost at p: its quantity times how far p is into the
\* zones.
Depth(p) == IF p >= ShortStrike THEN 0
            ELSE IF p <= LongStrike THEN ZoneWidth * LevelCount
            ELSE ShortStrike - p

LEMMA ExpiryByDepth ==
  ASSUME NEW p \in Nat
  PROVE  /\ Depth(p) \in Nat
         /\ ExpiryPnl(p) = PremiumCredit - OptionQty * Depth(p)
<1>1. /\ ShortStrike \in Nat /\ ZoneWidth * LevelCount \in Nat
      /\ LongStrike = ShortStrike - ZoneWidth * LevelCount /\ LongStrike \in Int
  BY ConstantsOK DEF LongStrike, Boundary
<1> DEFINE w == ZoneWidth * LevelCount
<1> HIDE DEF w
<1>2. w \in Nat /\ LongStrike = ShortStrike - w
  BY <1>1 DEF w
<1>3. /\ Max({ShortStrike - p, 0}) = IF ShortStrike - p >= 0 THEN ShortStrike - p ELSE 0
      /\ Max({LongStrike - p, 0}) = IF LongStrike - p >= 0 THEN LongStrike - p ELSE 0
  BY <1>1, LargerOfTwo
<1>4. Depth(p) = IF p >= ShortStrike THEN 0
                 ELSE IF p <= LongStrike THEN w ELSE ShortStrike - p
  BY DEF Depth, w
<1>5. Depth(p) = Max({ShortStrike - p, 0}) - Max({LongStrike - p, 0}) /\ Depth(p) \in Nat
  BY <1>1, <1>2, <1>3, <1>4
<1> QED BY <1>5 DEF ExpiryPnl

\* The zone that p lies in, if p is between the strikes.
LEMMA ZoneOf ==
  ASSUME NEW p \in Nat, LongStrike < p, p < ShortStrike
  PROVE  \E j \in Levels : TpPrice(j) <= p /\ p < Entry(j)
<1> DEFINE S == {l \in Levels : TpPrice(l) <= p}
<1>1. LevelCount \in S
  BY ConstantsOK, TriggerOrder DEF Levels, TpPrice, LongStrike
<1>2. PICK j \in S : \A r \in S : j <= r
  BY <1>1, FirstLevel
<1>3. CASE j = 1
  BY <1>2, <1>3, ConstantsOK DEF Entry, Boundary
<1>4. CASE j # 1
  <2>1. j - 1 \in Levels /\ ~(j <= j - 1) /\ Entry(j) = TpPrice(j - 1)
    BY <1>2, <1>4, ConstantsOK DEF Levels, Entry, TpPrice
  <2>2. ~(TpPrice(j - 1) <= p) /\ TpPrice(j - 1) \in Nat
    BY <1>2, <2>1, TriggerOrder
  <2> QED BY <1>2, <2>1, <2>2
<1> QED BY <1>3, <1>4

\* When the first j levels are paid, at least j are.
LEMMA PaidUpTo ==
  ASSUME NEW j \in 0 .. LevelCount, \A l \in Levels : l <= j => state[l] = "PAID"
  PROVE  j <= Cardinality(PaidLevels)
<1>1. (1 .. j) \in SUBSET PaidLevels /\ j \in Nat
  BY ConstantsOK DEF PaidLevels, Levels
<1>2. Cardinality(1 .. j) = j
  BY <1>1, FS_Interval
<1> QED BY <1>1, <1>2, LevelsFinite, FS_Subset

\* The zones that p has passed are paid for, together with what an open hedge
\* above p has earned so far.
LEMMA PassedZonesArePaid ==
  ASSUME RangeInv, LedgerInv, OneHedgeAtATime, ~running, above,
         \A l \in Levels : state[l] # "LOCKED"
  PROVE  /\ Depth(prev) <= ZoneWidth * Cardinality(PaidLevels)
              \/ \E j \in ActiveLevels :
                   /\ prev <= Entry(j)
                   /\ Depth(prev) <= ZoneWidth * Cardinality(PaidLevels) + (Entry(j) - prev)
         /\ \A l \in ActiveLevels : Entry(l) < prev =>
              Depth(prev) <= ZoneWidth * Cardinality(PaidLevels)
<1> DEFINE n == Cardinality(PaidLevels)
<1>1. /\ prev \in Nat /\ n \in Nat /\ ZoneWidth \in Nat /\ ZoneWidth > 0
      /\ state \in [Levels -> {"READY", "ACTIVE", "PAID", "LOCKED"}]
      /\ ShortStrike \in Nat
  BY ConstantsOK, LevelsFinite DEF RangeInv, RangeTypes
<1>2. ASSUME NEW l \in Levels, prev < Entry(l) PROVE state[l] \in {"ACTIVE", "PAID"}
  BY <1>1, <1>2, TriggerOrder DEF RangeInv, IdleRange, LedgerInv, ReadyIsArmed
<1>3. ASSUME NEW l \in Levels, prev <= TpPrice(l) PROVE state[l] = "PAID"
  <2>1. prev < Entry(l) /\ ~(TpPrice(l) < prev)
    BY <1>1, <1>3, TriggerOrder
  <2> QED BY <1>2, <2>1 DEF RangeInv, IdleRange
<1>4. ASSUME NEW m \in 0 .. LevelCount, m <= n PROVE ZoneWidth * m <= ZoneWidth * n
  BY <1>1, <1>4
<1>5. ZoneWidth * n \in Nat
  BY <1>1
<1>6. CASE prev >= ShortStrike
  <2>1. Depth(prev) = 0
    BY <1>6 DEF Depth
  <2> QED BY <1>5, <2>1
<1>7. CASE prev < ShortStrike /\ prev <= LongStrike
  <2>1. Depth(prev) = ZoneWidth * LevelCount
    BY <1>1, <1>7 DEF Depth
  <2>2. ASSUME NEW l \in Levels PROVE state[l] = "PAID"
    <3>1. TpPrice(LevelCount) = LongStrike /\ LevelCount \in Levels
      BY ConstantsOK DEF TpPrice, LongStrike, Levels
    <3>2. LongStrike <= TpPrice(l) /\ LongStrike \in Nat /\ TpPrice(l) \in Nat
      <4>1. CASE l = LevelCount
        BY <3>1, <4>1, TriggerOrder
      <4>2. CASE l # LevelCount
        <5>1. l < LevelCount
          BY <4>2, ConstantsOK DEF Levels
        <5> QED BY <3>1, <5>1, TriggerOrder, ZonesDescend
      <4> QED BY <4>1, <4>2
    <3> QED BY <1>1, <1>3, <1>7, <3>2
  <2>3. LevelCount <= n /\ LevelCount \in 0 .. LevelCount
    BY <2>2, PaidUpTo, ConstantsOK
  <2>4. ZoneWidth * LevelCount <= ZoneWidth * n
    BY <1>4, <2>3
  <2> QED BY <2>1, <2>4
<1>8. CASE prev < ShortStrike /\ ~(prev <= LongStrike)
  <2>1. Depth(prev) = ShortStrike - prev
    BY <1>1, <1>8 DEF Depth
  <2>2. LongStrike \in Nat
    <3>1. ZoneWidth * LevelCount \in Nat /\ ZoneWidth * LevelCount < ShortStrike
      BY ConstantsOK
    <3> QED BY <1>1, <3>1 DEF LongStrike, Boundary
  <2>3. PICK j \in Levels : TpPrice(j) <= prev /\ prev < Entry(j)
    BY <1>1, <1>8, <2>2, ZoneOf
  <2>4. /\ j \in Nat /\ j >= 1 /\ j \in 0 .. LevelCount /\ j - 1 \in 0 .. LevelCount
        /\ ZoneWidth * j \in Nat /\ ZoneWidth * (j - 1) \in Nat
        /\ TpPrice(j) = ShortStrike - ZoneWidth * j
        /\ Entry(j) = ShortStrike - ZoneWidth * (j - 1)
    BY <1>1, ConstantsOK DEF Levels, TpPrice, Entry, Boundary
  <2>5. ASSUME NEW l \in Levels, l <= j - 1 PROVE state[l] = "PAID"
    <3>1. l < j
      BY <2>4, <2>5 DEF Levels
    <3>2. Entry(j) <= TpPrice(l) /\ Entry(j) \in Nat /\ TpPrice(l) \in Nat
      BY <3>1, ZonesDescend, TriggerOrder
    <3> QED BY <1>1, <1>3, <2>3, <3>2
  <2>6. j - 1 <= n
    BY <2>4, <2>5, PaidUpTo
  <2>7. ZoneWidth * (j - 1) <= ZoneWidth * n
    BY <1>4, <2>4, <2>6
  <2>8. ASSUME state[j] = "PAID" PROVE Depth(prev) <= ZoneWidth * n
    <3>1. ASSUME NEW l \in Levels, l <= j PROVE state[l] = "PAID"
      <4>1. l = j \/ l <= j - 1
        BY <2>4, <3>1 DEF Levels
      <4> QED BY <2>5, <2>8, <4>1
    <3>2. j <= n
      BY <2>4, <3>1, PaidUpTo
    <3>3. ZoneWidth * j <= ZoneWidth * n
      BY <1>4, <2>4, <3>2
    <3> HIDE DEF n
    <3> QED BY <1>1, <1>5, <2>1, <2>3, <2>4, <3>3
  <2>9. CASE state[j] = "PAID"
    BY <2>8, <2>9
  <2>10. CASE state[j] = "ACTIVE"
    <3>1. j \in ActiveLevels
      BY <2>10 DEF ActiveLevels
    <3>2. Depth(prev) <= ZoneWidth * n + (Entry(j) - prev)
      <4> HIDE DEF n
      <4> QED BY <1>1, <1>5, <2>1, <2>3, <2>4, <2>7
    <3>3. \A l \in ActiveLevels : ~(Entry(l) < prev)
      BY <1>1, <2>3, <3>1, TriggerOrder DEF OneHedgeAtATime
    <3>4. prev <= Entry(j)
      BY <1>1, <2>3, <2>4
    <3> QED BY <3>1, <3>2, <3>3, <3>4
  <2> QED BY <1>2, <2>3, <2>9, <2>10
<1> QED BY <1>1, <1>6, <1>7, <1>8

\* The arithmetic of the three cases below: w is the zone width, q the option
\* quantity, h the premium not yet lost, g the take-profits, d the depth and n
\* the number of paid zones.
LEMMA PaidForExactly ==
  ASSUME NEW w \in Nat, NEW q \in Nat, NEW h \in Nat, NEW g \in Int, NEW d \in Nat, NEW n \in Nat,
         NEW x \in Nat, (q * w) * n <= g, d <= w * n + x
  PROVE  w * (h + (g - q * d)) + (q * w) * x \in Nat
<1>1. w * n \in Nat /\ (q * w) * n = q * (w * n) /\ (q * w) * x = w * (q * x)
  OBVIOUS
<1>2. q * d <= q * (w * n + x)
  BY <1>1
<1>3. q * (w * n + x) = q * (w * n) + q * x
  BY <1>1
<1>4. q * d \in Nat /\ q * x \in Nat /\ q * (w * n) \in Nat
  BY <1>1
<1>5. q * d <= g + q * x
  BY <1>1, <1>2, <1>3, <1>4
<1> DEFINE r == h + (g - q * d) + q * x
<1>6. r \in Nat
  BY <1>4, <1>5
<1>7. w * (h + (g - q * d)) + w * (q * x) = w * r
  BY <1>4
<1>8. w * r \in Nat
  <2> HIDE DEF r
  <2> QED BY <1>6
<1> QED BY <1>1, <1>7, <1>8

\* An open hedge below its stop has lost less than the budget keeps for it,
\* even though the quotient of the stop loss is rounded down.
LEMMA OpenLossIsKept ==
  ASSUME NEW w \in Nat, w > 0, NEW t \in Nat, w <= t, NEW e \in Nat, NEW y \in Nat, y < e,
         NEW h \in Nat, (t * e) \div w <= h
  PROVE  t * y <= w * h
<1> DEFINE m == t * e
           k == m \div w
<1>1. m \in Nat
  OBVIOUS
<1>2. k \in Nat /\ m < w * k + w
  <2> HIDE DEF m
  <2> QED BY <1>1
<1>3. k <= h
  OBVIOUS
<1>4. w * k <= w * h
  <2> HIDE DEF k
  <2> QED BY <1>2, <1>3
<1>5. t * y <= t * (e - 1)
  OBVIOUS
<1>6. t * (e - 1) = m - t
  OBVIOUS
<1>7. w * k \in Nat /\ w * h \in Nat /\ t * y \in Nat
  <2> HIDE DEF k
  <2> QED BY <1>2
<1> HIDE DEF m, k
<1> QED BY <1>1, <1>2, <1>4, <1>5, <1>6, <1>7

\* With narrow stops and a price that came from above the short strike, option
\* and hedges together never lose, until a level has been locked.
THEOREM FloorHolds ==
  ASSUME NarrowStops
  PROVE  Spec => []FloorUntilLocked
<1>1. ASSUME RangeInv, HedgeInv, LedgerInv PROVE FloorUntilLocked
  <2> SUFFICES ASSUME ~running, above, \A l \in Levels : state[l] # "LOCKED"
               PROVE  ScaledCombinedPnl(prev) >= 0
    BY DEF FloorUntilLocked
  <2> DEFINE n == Cardinality(PaidLevels)
             d == Depth(prev)
             h == PremiumCredit - grossStop
             f == [l \in Levels |-> target[l] * (Entry(l) - prev)]
             open == SumFunctionOnSet(f, ActiveLevels)
  <2>1. /\ prev \in Nat /\ n \in Nat /\ d \in Nat
        /\ ZoneWidth \in Nat /\ ZoneWidth > 0 /\ OptionQty \in Nat /\ OptionQty > 0
        /\ PremiumCredit \in Nat /\ grossStop \in Nat /\ grossTp \in Nat /\ h \in Nat
        /\ target \in [Levels -> Nat]
    BY <1>1, ConstantsOK, LevelsFinite, ExpiryByDepth
       DEF RangeInv, RangeTypes, HedgeInv, TypeOK, BudgetRespected
  <2>2. (OptionQty * ZoneWidth) * n <= grossTp
    BY <1>1 DEF LedgerInv, ZonesArePaid, OptionBudget
  <2>3. ScaledCombinedPnl(prev) = ZoneWidth * (h + (grossTp - OptionQty * d)) + open
    <3>1. ExpiryPnl(prev) = PremiumCredit - OptionQty * d
      BY <2>1, ExpiryByDepth
    <3>2. OptionQty * d \in Nat
      BY <2>1
    <3>3. ExpiryPnl(prev) + grossTp - grossStop = h + (grossTp - OptionQty * d)
      BY <2>1, <3>1, <3>2
    <3> QED BY <3>3 DEF ScaledCombinedPnl
  <2>4. /\ \/ d <= ZoneWidth * n
           \/ \E j \in ActiveLevels :
                /\ prev <= Entry(j)
                /\ d <= ZoneWidth * n + (Entry(j) - prev)
        /\ \A l \in ActiveLevels : Entry(l) < prev => d <= ZoneWidth * n
    BY <1>1, PassedZonesArePaid DEF HedgeInv
  <2>5. ASSUME NEW l \in ActiveLevels
        PROVE  /\ l \in Levels /\ Entry(l) \in Nat /\ target[l] \in Nat
               /\ open = target[l] * (Entry(l) - prev)
               /\ target[l] >= OptionQty * ZoneWidth
               /\ \A j \in ActiveLevels : j = l
    <3>1. l \in Levels /\ Entry(l) \in Nat /\ target[l] \in Nat /\ f[l] = target[l] * (Entry(l) - prev)
      BY <2>1, TriggerOrder DEF ActiveLevels
    <3>2. f[l] \in Int
      BY <2>1, <3>1
    <3>3. ActiveLevels = {} \cup {l} /\ \A j \in ActiveLevels : j = l
      BY <1>1 DEF HedgeInv, OneHedgeAtATime
    <3>4. Sum(f, {} \cup {l}) = f[l] + Sum(f, {})
      <4>1. l \notin {} /\ \A y \in {} \cup {l} : f[y] \in Int
        BY <3>2
      <4> HIDE DEF f
      <4> QED BY <4>1, FS_EmptySet, SumAdd
    <3>5. open = f[l]
      <4>1. Sum(f, {}) = 0
        BY SumEmpty
      <4>2. open = Sum(f, {} \cup {l})
        BY <3>3 DEF Sum
      <4> HIDE DEF f, open
      <4> QED BY <3>2, <3>4, <4>1, <4>2
    <3>6. target[l] >= OptionQty * ZoneWidth
      <4>1. target[l] = OptionBudget + allocAmount[l] /\ allocAmount[l] \in Nat
        BY <1>1, <3>1 DEF LedgerInv, LedgerTypes, TargetsAreFunded
      <4> QED BY <4>1, BudgetNat DEF OptionBudget
    <3> QED BY <3>1, <3>3, <3>5, <3>6
  <2> HIDE DEF n, d, h, f, open
  <2>6. CASE ActiveLevels = {}
    <3>1. open = 0
      BY <2>6, SumEmpty DEF open, Sum
    <3>2. d <= ZoneWidth * n + 0
      BY <2>1, <2>4, <2>6
    <3>3. ZoneWidth * (h + (grossTp - OptionQty * d)) + (OptionQty * ZoneWidth) * 0 \in Nat
      BY <2>1, <2>2, <3>2, PaidForExactly
    <3> QED BY <2>1, <2>3, <3>1, <3>3
  <2>7. CASE \E l \in ActiveLevels : prev <= Entry(l)
    <3>1. PICK l \in ActiveLevels : prev <= Entry(l)
      BY <2>7
    <3> DEFINE x == Entry(l) - prev
               b == OptionQty * ZoneWidth
    <3>2. x \in Nat /\ open = target[l] * x /\ b \in Nat /\ target[l] \in Nat /\ b <= target[l]
      BY <2>1, <2>5, <3>1
    <3>3. d <= ZoneWidth * n + x
      <4>1. ZoneWidth * n \in Nat
        BY <2>1
      <4>2. CASE d <= ZoneWidth * n
        BY <2>1, <3>2, <4>1, <4>2
      <4>3. CASE \E j \in ActiveLevels :
                   /\ prev <= Entry(j)
                   /\ d <= ZoneWidth * n + (Entry(j) - prev)
        BY <2>5, <4>3
      <4> QED BY <2>4, <4>2, <4>3
    <3> HIDE DEF x
    <3>4. ZoneWidth * (h + (grossTp - OptionQty * d)) + (OptionQty * ZoneWidth) * x \in Nat
      BY <2>1, <2>2, <3>2, <3>3, PaidForExactly
    <3> HIDE DEF b
    <3>5. b * x <= target[l] * x /\ b * x \in Nat /\ target[l] * x \in Nat
      BY <3>2
    <3>6. ZoneWidth * (h + (grossTp - OptionQty * d)) \in Int
      BY <2>1
    <3> QED BY <2>3, <3>2, <3>4, <3>5, <3>6 DEF b
  <2>8. CASE \E l \in ActiveLevels : ~(prev <= Entry(l))
    <3>1. PICK l \in ActiveLevels : ~(prev <= Entry(l))
      BY <2>8
    <3> DEFINE y == prev - Entry(l)
               e == StopDistance(l)
               t == target[l]
    <3>2. /\ l \in Levels /\ Entry(l) \in Nat /\ t \in Nat /\ t >= OptionQty * ZoneWidth
          /\ open = t * (Entry(l) - prev)
      BY <2>5
    <3>3. ~floor[l] /\ prev < StopPrice(l)
      BY <1>1, <3>1, <3>2 DEF RangeInv, IdleRange, ActiveLevels
    <3>4. e \in Nat /\ y \in Nat /\ y < e
      BY <2>1, <3>1, <3>2, <3>3, TriggerOrder DEF StopPrice
    <3>5. (t * e) \div ZoneWidth <= h
      <4>1. grossStop + StopLoss(l, t) <= PremiumCredit
        BY <1>1, <3>3 DEF HedgeInv, BudgetRespected
      <4>2. StopLoss(l, t) \in Nat
        BY <3>2, StopLossNat
      <4>3. StopLoss(l, t) <= h
        BY <2>1, <4>1, <4>2 DEF h
      <4> QED BY <4>3 DEF StopLoss
    <3>6. ZoneWidth <= t
      <4>1. ZoneWidth <= OptionQty * ZoneWidth /\ OptionQty * ZoneWidth \in Nat
        BY <2>1
      <4> QED BY <2>1, <3>2, <4>1
    <3>7. open = -(t * y) /\ t * y \in Nat
      BY <2>1, <3>2, <3>4
    <3> HIDE DEF y, e, t
    <3>8. t * y <= ZoneWidth * h
      BY <2>1, <3>2, <3>4, <3>5, <3>6, OpenLossIsKept
    <3>9. d <= ZoneWidth * n + 0
      BY <2>1, <2>4, <3>1, <3>2
    <3>10. ZoneWidth * (0 + (grossTp - OptionQty * d)) + (OptionQty * ZoneWidth) * 0 \in Nat
      BY <2>1, <2>2, <3>9, PaidForExactly
    <3>11. /\ (OptionQty * ZoneWidth) * 0 = 0 /\ OptionQty * d \in Nat
           /\ 0 + (grossTp - OptionQty * d) = grossTp - OptionQty * d
      BY <2>1
    <3>12. ZoneWidth * (grossTp - OptionQty * d) \in Nat
      BY <2>1, <3>10, <3>11
    <3>13. ZoneWidth * (h + (grossTp - OptionQty * d))
             = ZoneWidth * h + ZoneWidth * (grossTp - OptionQty * d)
      BY <2>1, <3>11
    <3>14. ZoneWidth * h \in Nat
      BY <2>1
    <3> QED BY <2>3, <3>7, <3>8, <3>12, <3>13, <3>14
  <2> QED BY <2>6, <2>7, <2>8
<1>2. RangeInv /\ HedgeInv /\ LedgerInv => FloorUntilLocked
  BY <1>1
<1> QED BY <1>2, RangeAlways, HedgeAlways, LedgerAlways, PTL
=============================================================================
