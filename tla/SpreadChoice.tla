----------------------------- MODULE SpreadChoice -----------------------------
(***************************************************************************)
(* The money side of the option entry: which pair of puts is chosen from   *)
(* the option chain (select_demo_option_pair), at which limits it is       *)
(* ordered, when its fills make an OPEN spread, and what that spread is    *)
(* worth at expiry (PutCreditSpreadPosition).  OptionSpread has the orders *)
(* and their failures, and leaves the prices open.                         *)
(*                                                                         *)
(* Amounts are integers in a unit finer than a tick, quantities are lots,  *)
(* deltas are in hundredths.  The contract multiplier of the ETH options   *)
(* is one.  A missing bid or ask is 0: the code refuses both alike.        *)
(***************************************************************************)
EXTENDS Integers, FiniteSets

CONSTANTS
  OptionChains,    \* the option chains a start can meet: strike -> quote
  MaximumLoss,     \* risk_limits.maximum_realized_cycle_loss
  OneDollar,       \* 1 USDT in price units
  Improvement,     \* bound: how much better than its limit a leg may fill
  MaxFee           \* bound: fee of a fill

ASSUME ChoiceConstants ==
  /\ MaximumLoss \in Int /\ OneDollar \in Nat \ {0} /\ Improvement \in Nat /\ MaxFee \in Nat
  /\ \A c \in OptionChains :
       /\ IsFiniteSet(DOMAIN c) /\ DOMAIN c \subseteq Nat
       /\ \A k \in DOMAIN c :
            /\ c[k].bid \in Nat /\ c[k].ask \in Nat /\ c[k].delta \in Int /\ c[k].expiry \in Int
            /\ c[k].minQty \in Nat \ {0} /\ c[k].tick \in Nat \ {0}

VARIABLES
  chain,
  stage,           \* "choose", "long", "short", or how the entry ended
  plan,            \* OptionSpreadEntryPlan
  legs             \* leg -> its filled quantity, notional and fees

choiceVars == <<chain, stage, plan, legs>>

Rules == INSTANCE OrderRules

NoPlan == [quantity |-> 0]
Unfilled == [quantity |-> 0, notional |-> 0, fees |-> 0]

ChoiceInit ==
  /\ chain \in OptionChains
  /\ stage = "choose" /\ plan = NoPlan
  /\ legs = [leg \in {"long", "short"} |-> Unfilled]

-----------------------------------------------------------------------------
(* select_demo_option_pair *)

EligibleQuote(q) ==
  /\ q.status = "Trading"
  /\ q.bid > 0 /\ q.ask > 0
  /\ q.expiry \in 14 .. 90
  /\ q.age \in 0 .. 10

EligibleShort(q) ==
  /\ EligibleQuote(q)
  /\ q.delta \in -45 .. -15
  /\ q.bidSize >= q.minQty

EligibleLong(q, short) ==
  /\ EligibleQuote(q)
  /\ q.expiry = short.expiry
  /\ q.askSize >= q.minQty

Larger(m, n) == IF m > n THEN m ELSE n
Distance(m, n) == IF m > n THEN m - n ELSE n - m

PairQuantity(s, l) == Larger(chain[s].minQty, chain[l].minQty)
PairWidth(s, l) == (s - l) * OneDollar
PairCredit(s, l) == (chain[s].bid - chain[l].ask) * PairQuantity(s, l)

WithinLossPerLot(s, l) == \* fault: the width is not multiplied by the quantity
  PairWidth(s, l) - PairCredit(s, l) <= MaximumLoss
WithinLoss(s, l) ==
  PairWidth(s, l) * PairQuantity(s, l) - PairCredit(s, l) <= MaximumLoss

\* Pairs of strikes, the short one first.
Candidates ==
  {p \in (DOMAIN chain) \X (DOMAIN chain) :
     /\ EligibleShort(chain[p[1]])
     /\ EligibleLong(chain[p[2]], chain[p[1]])
     /\ p[1] - p[2] \in 1 .. 200
     /\ PairCredit(p[1], p[2]) > 0
     /\ WithinLoss(p[1], p[2])}

Rank(p) ==
  <<chain[p[1]].expiry, Distance(chain[p[1]].delta, -30), Distance(p[1] - p[2], 50),
    -PairCredit(p[1], p[2]), p[1], p[2]>>

Precedes(r, s) ==
  \E i \in DOMAIN r : r[i] < s[i] /\ \A j \in 1 .. i - 1 : r[j] = s[j]

Best == CHOOSE p \in Candidates : \A q \in Candidates \ {p} : Precedes(Rank(p), Rank(q))

-----------------------------------------------------------------------------
(* _open_or_load_option_spread from the selection to the plan *)

PlanFor(s, l) ==
  LET quantity == PairQuantity(s, l)
      long == Rules!QuantizeLimitPrice(chain[l].ask, chain[l].tick, "Buy", "AGGRESSIVE")
      short == Rules!QuantizeLimitPrice(chain[s].bid, chain[s].tick, "Sell", "AGGRESSIVE")
  IN  [quantity |-> quantity, shortStrike |-> s, longStrike |-> l,
       longLimit |-> long, shortLimit |-> short,
       expectedCredit |-> (short - long) * quantity]

\* The steps of both legs divide the quantity, and the plan accepts only positive amounts.
Acceptable(p) ==
  /\ p.quantity % chain[p.longStrike].qtyStep = 0
  /\ p.quantity % chain[p.shortStrike].qtyStep = 0
  /\ p.longLimit > 0 /\ p.shortLimit > 0 /\ p.expectedCredit > 0

SelectPair ==
  /\ stage = "choose"
  /\ IF Candidates # {} /\ Acceptable(PlanFor(Best[1], Best[2]))
     THEN plan' = PlanFor(Best[1], Best[2]) /\ stage' = "long"
     ELSE stage' = "refused" /\ UNCHANGED plan
  /\ UNCHANGED <<chain, legs>>

-----------------------------------------------------------------------------
(* Fills, and the two finalizations *)

\* A limit order fills at its limit or better (external), one lot at a time;
\* apply_option_execution adds it up.
FillPrices(leg) ==
  IF leg = "long" THEN Larger(1, plan.longLimit - Improvement) .. plan.longLimit
  ELSE plan.shortLimit .. plan.shortLimit + Improvement

FillLeg(leg) ==
  /\ stage = leg
  /\ legs[leg].quantity < plan.quantity
  /\ \E price \in FillPrices(leg), fee \in 0 .. MaxFee :
       legs' = [legs EXCEPT ![leg] =
         [quantity |-> @.quantity + 1, notional |-> @.notional + price, fees |-> @.fees + fee]]
  /\ UNCHANGED <<chain, stage, plan>>

\* finalize_protective_long under _option_entry_policy: no partial spreads.
FinalizeLong ==
  /\ stage = "long"
  /\ stage' = IF legs["long"].quantity = plan.quantity THEN "short" ELSE "ERROR"
  /\ UNCHANGED <<chain, plan, legs>>

ActualNetCredit ==
  legs["short"].notional - legs["long"].notional - legs["short"].fees - legs["long"].fees

\* maximum_credit_deviation is the larger of one dollar and half the expected credit.
CreditAccepted ==
  /\ ActualNetCredit > 0
  /\ 2 * Distance(ActualNetCredit, plan.expectedCredit)
       <= Larger(2 * OneDollar, plan.expectedCredit)

FinalizeShort ==
  /\ stage = "short"
  /\ stage' = IF legs["short"].quantity = plan.quantity /\ CreditAccepted
              THEN "OPEN" ELSE "ERROR"
  /\ UNCHANGED <<chain, plan, legs>>

ChoiceNext ==
  \/ SelectPair
  \/ \E leg \in {"long", "short"} : FillLeg(leg)
  \/ FinalizeLong \/ FinalizeShort

ChoiceSpec == ChoiceInit /\ [][ChoiceNext]_choiceVars

-----------------------------------------------------------------------------
(* PutCreditSpreadPosition.expiration_pnl *)

Intrinsic(strike, price) == Larger(strike - price, 0) * OneDollar
ExpirationPnl(price) ==
  ActualNetCredit
    - Intrinsic(plan.shortStrike, price) * legs["short"].quantity
    + Intrinsic(plan.longStrike, price) * legs["long"].quantity

-----------------------------------------------------------------------------
(* Property *)

\* Prices at and next to every strike, and what the rounding of the two limits gave away.
SettlementPrices == {0} \cup UNION {{k, k + 1} : k \in DOMAIN chain}
RoundingGivenAway ==
  (chain[plan.shortStrike].bid - plan.shortLimit
     + plan.longLimit - chain[plan.longStrike].ask) * plan.quantity

\* The loss limit the pair was chosen under still holds for the spread that was filled.
\* Whatever the quotes, partial fills, price improvements and fees were, an OPEN spread
\* loses at no settlement price more than that limit, the fees paid and what the rounding
\* of the two limits to their ticks gave away; and above its short strike it keeps a credit.
LossIsBounded ==
  stage = "OPEN" =>
    \A price \in SettlementPrices :
      /\ ExpirationPnl(price) >=
           -(MaximumLoss + RoundingGivenAway + legs["short"].fees + legs["long"].fees)
      /\ price >= plan.shortStrike => ExpirationPnl(price) > 0
=============================================================================
