------------------------------ MODULE MCInputs ------------------------------
(***************************************************************************)
(* Everything the runner learns from outside, for TLC, in one run: the     *)
(* private stream, the server clock, the public order book, the trades     *)
(* that trigger decisions, the loops that wait for a crossing, and the     *)
(* answers of the REST client about an order and about a list.  They share *)
(* nothing but the gates that read them, so each is explored by itself:    *)
(* instance names the one that moves.                                      *)
(***************************************************************************)
EXTENDS PrivateStream, ServerClock, MarketFeed, RestClient, CrossingWatch

VARIABLE instance

MCSkews == {-2, 0, 1}

\* Two levels, one of them off the tick grid, a quantity that is not a multiple of
\* the step, and limits that one approval of a trade fills.
MCInstrument == [status |-> "Trading", tick |-> 2, qtyStep |-> 2, minQty |-> 2, maxQty |-> 8,
                 minPrice |-> 2, maxPrice |-> 40, minNotional |-> 30]
MCLimits == [maxQuantity |-> 6, maxNotional |-> 150, maxDebt |-> 5, maxStopLoss |-> 10,
             maxActiveLevels |-> 2, maxRequests |-> 3]
NoRisk == [quantity |-> 0, notional |-> 0, debt |-> 0, activeLevels |-> 0, requests |-> 0,
           veto |-> FALSE]
MCRiskStates == {NoRisk, [NoRisk EXCEPT !.veto = TRUE],
                 [NoRisk EXCEPT !.quantity = 4, !.notional = 72, !.activeLevels = 1, !.requests = 2]}

MCEntry == <<20, 17>>
MCTakeProfit == <<15, 12>>
MCStopLoss == <<23, 19>>

orderState == <<request, reply, live, inRealtime, inHistory, mutation, lookup, listedSince>>
listState == <<items, read, stayed>>

MCInit ==
  /\ Init /\ ClockInit /\ FeedInit /\ TriggerInit /\ RestInit
  /\ instance \in {"private", "clock", "public", "trades", "order", "list", "watch"}
  /\ instance # "list" => items = {}
  /\ WatchInit /\ (instance # "watch" => stage = "D4")

MCNext ==
  /\ UNCHANGED instance
  /\ \/ instance = "private" /\ Next
        /\ UNCHANGED <<clockVars, feedVars, triggerVars, orderState, listState, watchVars>>
     \/ instance = "clock" /\ ClockNext
        /\ UNCHANGED <<vars, feedVars, triggerVars, orderState, listState, watchVars>>
     \/ instance = "public" /\ FeedNext
        /\ UNCHANGED <<vars, clockVars, triggerVars, orderState, listState, watchVars>>
     \/ instance = "trades" /\ TriggerNext
        /\ UNCHANGED <<vars, clockVars, feedVars, orderState, listState, watchVars>>
     \/ instance = "order" /\ OrderNext
        /\ UNCHANGED <<vars, clockVars, feedVars, triggerVars, listState, watchVars>>
     \/ instance = "list" /\ ListNext
        /\ UNCHANGED <<vars, clockVars, feedVars, triggerVars, orderState, watchVars>>
     \/ instance = "watch" /\ WatchNext
        /\ UNCHANGED <<vars, clockVars, feedVars, triggerVars, orderState, listState>>

Private(A) == instance = "private" /\ A
Public(A) == instance = "public" /\ A

\* asyncio runs both readers and their timers; the exchange accepts a connection
\* and serves the subscription it accepted.
MCFairness ==
  /\ WF_vars(Private(Receive)) /\ WF_vars(Private(HeartbeatDue))
  /\ WF_vars(Private(PongTimeout))
  /\ WF_feedVars(Public(ReceiveMessage)) /\ WF_feedVars(Public(SendPing))
  /\ WF_feedVars(Public(PongMissing)) /\ WF_feedVars(Public(OpenConnection))
  /\ WF_feedVars(Public(ServeTopic)) /\ WF_feedVars(Public(ServeBook))

MCSpec ==
  /\ MCInit
  /\ [][MCNext]_<<vars, clockVars, feedVars, triggerVars, orderState, listState, watchVars, instance>>
  /\ MCFairness

\* A dead link is replaced, in the instance in which the feed runs: see MarketFeed.
FeedResumes == instance = "public" => StreamResumes
=============================================================================
