---------------------------- MODULE MCOptionSpread ----------------------------
(***************************************************************************)
(* The option entry for TLC, in one run.  "orders": OptionSpread, where    *)
(* two lots can be filled in parts and the second cycle is the one that is *)
(* started while the first may be unsettled.  "prices": SpreadChoice, over *)
(* chains of three strikes.                                                *)
(***************************************************************************)
EXTENDS OptionSpread, SpreadChoice

VARIABLE instance

\* A liquid quote, and what can be different about it.
BaseQuote == [status |-> "Trading", bid |-> 4, ask |-> 4, bidSize |-> 2, askSize |-> 2,
              delta |-> -30, expiry |-> 30, age |-> 1, minQty |-> 1, qtyStep |-> 1, tick |-> 2]
Variants(bid) ==
  LET base == [BaseQuote EXCEPT !.bid = bid, !.ask = bid + 2]
  IN  {base,
       [base EXCEPT !.minQty = 2], [base EXCEPT !.qtyStep = 2],
       [base EXCEPT !.bid = bid + 1, !.ask = bid + 1],
       [base EXCEPT !.delta = -50], [base EXCEPT !.delta = -20],
       [base EXCEPT !.expiry = 60], [base EXCEPT !.expiry = 7], [base EXCEPT !.age = 11],
       [base EXCEPT !.askSize = 0], [base EXCEPT !.bid = 0], [base EXCEPT !.status = "Closed"]}
MCOptionChains ==
  {[k \in {50, 52, 55} |-> IF k = 50 THEN a ELSE IF k = 52 THEN b ELSE c] :
     a \in Variants(2), b \in Variants(6), c \in Variants(10)}

MCInit ==
  \/ /\ instance = "orders" /\ Init
     /\ chain = {} /\ stage = "none" /\ plan = NoPlan /\ legs = {}
  \/ instance = "prices" /\ Init /\ ChoiceInit

MCNext ==
  \/ instance = "orders" /\ Next /\ UNCHANGED <<choiceVars, instance>>
  \/ instance = "prices" /\ ChoiceNext /\ UNCHANGED <<vars, instance>>

MCSpec ==
  /\ MCInit /\ [][MCNext]_<<vars, choiceVars, instance>>
  /\ WF_vars(instance = "orders" /\ RunnerStep)
=============================================================================
