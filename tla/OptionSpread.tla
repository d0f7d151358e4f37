----------------------------- MODULE OptionSpread -----------------------------
(***************************************************************************)
(* The put credit spread the hedges protect: the long leg is bought first, *)
(* the short leg is sold for exactly the quantity the long has confirmed,  *)
(* and a start after a crash or a timeout looks for a late long fill,      *)
(* compares the account with the books and decides whether to load the     *)
(* spread, to complete it, to open a new one or to refuse.                 *)
(*                                                                         *)
(* Every exchange call and every store transaction is one step of the      *)
(* runner.  Executions of an order are one lot each and are numbered in    *)
(* the order they happen; all cycles trade the same two symbols.           *)
(***************************************************************************)
EXTENDS Integers, FiniteSetsExt

CONSTANTS
  Qty,           \* requested_quantity, in lots
  MinMatched,    \* policy.minimum_matched_quantity (the runner's is Qty)
  AllowPartial,  \* policy.allow_partial_spread (the runner's is FALSE)
  Attempts,      \* fill_attempts
  MaxCycles,     \* bound on the spreads that are started
  BootAfter      \* what a restart waits for: nothing or settlement

ASSUME SpreadConstants ==
  /\ Qty \in Nat \ {0} /\ MinMatched \in 1 .. Qty /\ AllowPartial \in BOOLEAN
  /\ Attempts \in Nat \ {0} /\ MaxCycles \in Nat \ {0}
  /\ BootAfter \in {"nothing", "settlement"}

Cycles == 1 .. MaxCycles
Legs == {"LONG", "SHORT"}
Orders == Cycles \X Legs
Long(c) == <<c, "LONG">>
Short(c) == <<c, "SHORT">>

VARIABLES
  \* the exchange
  order,      \* order -> "NONE", "INFLIGHT" (sent, not arrived), "OPEN", "DONE"
  size,       \* order -> ordered quantity
  filled,     \* order -> executed lots
  published,  \* order -> executions that get_execution_history returns
  \* the store
  intents,    \* table order_intents
  recorded,   \* table executions: order -> how many of its executions it holds
  spread,     \* table option_spread_snapshots: cycle -> state
  booked,     \* its long_filled_quantity and short_filled_quantity, per order
  acked,      \* the orders whose exchange order ID it holds
  \* the runner
  pc, tries,
  cycle, leg, \* the leg being submitted or awaited
  late,       \* the leg is awaited by _reconcile_late_option_longs
  todo,       \* cycles that function has still to look at
  next, seen, \* the execution to apply next, and the last one fetched
  capture     \* what the reconciliation has read: a function on surfaces

exchangeVars == <<order, size, filled, published>>
storeVars == <<intents, recorded, spread, booked, acked>>
runnerVars == <<pc, tries, cycle, leg, late, todo, next, seen, capture>>
vars == <<exchangeVars, storeVars, runnerVars>>

Surfaces == {"open", "executions", "position"}
NothingRead == [s \in {} |-> 0]

Init ==
  /\ order = [o \in Orders |-> "NONE"] /\ size = [o \in Orders |-> 0]
  /\ filled = [o \in Orders |-> 0] /\ published = [o \in Orders |-> 0]
  /\ intents = {} /\ recorded = [o \in Orders |-> 0]
  /\ spread = [c \in Cycles |-> "NONE"] /\ booked = [o \in Orders |-> 0] /\ acked = {}
  /\ pc = "down" /\ tries = 0 /\ cycle = 1 /\ leg = "LONG" /\ late = FALSE
  /\ todo = {} /\ next = 1 /\ seen = 0 /\ capture = NothingRead

-----------------------------------------------------------------------------
(* The exchange (external): orders are immediate-or-cancel *)

Arrive(o) ==
  /\ order[o] = "INFLIGHT"
  /\ order' = [order EXCEPT ![o] = "OPEN"]
  /\ UNCHANGED <<size, filled, published, storeVars, runnerVars>>

Vanish(o) ==
  /\ order[o] = "INFLIGHT"
  /\ order' = [order EXCEPT ![o] = "NONE"]
  /\ UNCHANGED <<size, filled, published, storeVars, runnerVars>>

Fill(o) ==
  /\ order[o] = "OPEN"
  /\ filled[o] < size[o]
  /\ filled' = [filled EXCEPT ![o] = @ + 1]
  /\ order' = [order EXCEPT ![o] = IF filled[o] + 1 = size[o] THEN "DONE" ELSE @]
  /\ UNCHANGED <<size, published, storeVars, runnerVars>>

Expire(o) ==
  /\ order[o] = "OPEN"
  /\ order' = [order EXCEPT ![o] = "DONE"]
  /\ UNCHANGED <<size, filled, published, storeVars, runnerVars>>

Publish(o) ==
  /\ published[o] < filled[o]
  /\ published' = [published EXCEPT ![o] = filled[o]]
  /\ UNCHANGED <<order, size, filled, storeVars, runnerVars>>

Exchange == \E o \in Orders : Arrive(o) \/ Vanish(o) \/ Fill(o) \/ Expire(o) \/ Publish(o)

\* An order that has arrived may not be visible yet.
Visible(o, found) == found => order[o] \in {"OPEN", "DONE"}

-----------------------------------------------------------------------------
(* Control of the runner *)

Goto(label) ==
  pc' = label /\ UNCHANGED <<tries, cycle, leg, late, todo, next, seen, capture>>
This == <<cycle, leg>>
AgainForever(label, otherwise) == Goto(label) \* fault: attempts are not counted
Again(label, otherwise) ==
  /\ pc' = IF tries + 1 < Attempts THEN label ELSE otherwise
  /\ tries' = tries + 1
  /\ UNCHANGED <<cycle, leg, late, todo, next, seen, capture>>

\* An exception that leaves the entry service: run_d3_manual makes the
\* perpetual account safe, which touches no option, and ends.  During the start
\* it is ignored for a long that has no fill, and ends the start otherwise.
NotOpened ==
  IF ~late THEN "halted" ELSE IF booked[This] > 0 THEN "refused" ELSE "late"

-----------------------------------------------------------------------------
(* OptionSpreadEntryService *)

\* open_spread: the intent and the snapshot in one transaction.
PersistLong ==
  /\ pc = "persist_long"
  /\ intents' = intents \cup {Long(cycle)}
  /\ spread' = [spread EXCEPT ![cycle] = "LONG_PROTECTION_PENDING"]
  /\ Goto("place")
  /\ UNCHANGED <<exchangeVars, recorded, booked, acked>>

\* complete_from_protective_long
PersistShort ==
  /\ pc = "persist_short"
  /\ intents' = intents \cup {Short(cycle)}
  /\ spread' = [spread EXCEPT ![cycle] = "SHORT_PREMIUM_PENDING"]
  /\ pc' = "place" /\ leg' = "SHORT"
  /\ UNCHANGED <<exchangeVars, recorded, booked, acked, tries, cycle, late, todo, next, seen,
                 capture>>

ShortQuantityRequested == Qty \* fault: the requested quantity, not the confirmed one
ShortQuantity == booked[Long(cycle)]

\* _submit: place_order is acknowledged, lost with an uncertain outcome, or refused.
PlaceLeg ==
  /\ pc = "place"
  /\ size' = [size EXCEPT ![This] = IF leg = "LONG" THEN Qty ELSE ShortQuantity]
  /\ \/ order' = [order EXCEPT ![This] = "OPEN"] /\ Goto("ack")
     \/ order' = [order EXCEPT ![This] = "INFLIGHT"] /\ Goto("lookup")
     \/ UNCHANGED order /\ Goto("mark_error")
  /\ UNCHANGED <<filled, published, storeVars>>

LookupLeg ==
  /\ pc = "lookup"
  /\ \E found \in BOOLEAN :
       Visible(This, found) /\ Goto(IF found THEN "ack" ELSE "mark_error")
  /\ UNCHANGED <<exchangeVars, storeVars>>

AckLeg ==
  /\ pc = "ack"
  /\ acked' = acked \cup {This}
  /\ pc' = "fetch" /\ tries' = 0
  /\ UNCHANGED <<exchangeVars, intents, recorded, spread, booked, cycle, leg, late, todo, next,
                 seen, capture>>

\* _await_leg: one poll is the executions, then the order.
FetchExecutions ==
  /\ pc = "fetch"
  /\ next' = 1 /\ seen' = published[This]
  /\ pc' = "apply"
  /\ UNCHANGED <<exchangeVars, storeVars, tries, cycle, leg, late, todo, capture>>

IsNewForgotten(n) == TRUE \* fault: has_execution is not consulted
IsNew(n) == n > recorded[This]

\* The limits the snapshot's __post_init__ puts on a leg.
Limit == IF leg = "LONG" THEN Qty ELSE booked[Long(cycle)]

ApplyExecution ==
  /\ pc = "apply" /\ next <= seen
  /\ next' = next + 1
  /\ IF ~IsNew(next)
     THEN UNCHANGED <<recorded, booked, acked, pc>>
     ELSE IF booked[This] + 1 > Limit
          THEN pc' = "mark_error" /\ UNCHANGED <<recorded, booked, acked>>
          ELSE /\ recorded' = [recorded EXCEPT ![This] = next]
               /\ booked' = [booked EXCEPT ![This] = @ + 1]
               /\ acked' = acked \cup {This}
               /\ UNCHANGED pc
  /\ UNCHANGED <<exchangeVars, intents, spread, tries, cycle, leg, late, todo, seen, capture>>

ExecutionsApplied ==
  /\ pc = "apply" /\ next > seen
  /\ Goto("order")
  /\ UNCHANGED <<exchangeVars, storeVars>>

\* finalize_protective_long
LongAcceptable == booked[This] >= MinMatched /\ (AllowPartial \/ booked[This] = Qty)
\* finalize_short_premium; the actual credit depends on the prices of the fills.
ShortAcceptable(creditOk) ==
  creditOk /\ booked[This] >= MinMatched /\ (AllowPartial \/ booked[This] = Qty)

Finalized(creditOk) ==
  IF leg = "LONG"
  THEN IF LongAcceptable THEN "LONG_PROTECTION_FILLED" ELSE "ERROR"
  ELSE IF ~ShortAcceptable(creditOk) THEN "ERROR"
       ELSE IF booked[This] = Qty THEN "OPEN" ELSE "PARTIALLY_OPEN"

AfterLeg(state) ==
  CASE state = "OPEN" -> "option_capture"
    [] state = "LONG_PROTECTION_FILLED" -> IF late THEN "late" ELSE "persist_short"
    [] OTHER -> NotOpened

Settled(found) == found /\ order[This] = "DONE" /\ filled[This] = booked[This]

CheckOrder ==
  /\ pc = "order"
  /\ \E found \in BOOLEAN, creditOk \in BOOLEAN :
       /\ Visible(This, found)
       /\ IF Settled(found)
          THEN /\ spread' = [spread EXCEPT ![cycle] = Finalized(creditOk)]
               /\ Goto(AfterLeg(Finalized(creditOk)))
          ELSE /\ UNCHANGED spread
               /\ IF found /\ order[This] = "DONE" /\ filled[This] < booked[This]
                  THEN Goto("mark_error") ELSE Again("fetch", "mark_error")
  /\ UNCHANGED <<exchangeVars, intents, recorded, booked, acked>>

MarkError ==
  /\ pc = "mark_error"
  /\ spread' = [spread EXCEPT ![cycle] = "ERROR"]
  /\ Goto(NotOpened)
  /\ UNCHANGED <<exchangeVars, intents, recorded, booked, acked>>

-----------------------------------------------------------------------------
(* The start of the runner *)

\* _reconcile_late_option_longs
IsLateLong(c) == spread[c] = "ERROR" /\ Long(c) \in acked /\ Short(c) \notin intents

NextLate ==
  /\ pc = "late"
  /\ \E c \in todo :
       /\ \A d \in todo : c <= d
       /\ todo' = todo \ {c}
       /\ cycle' = c /\ leg' = "LONG" /\ late' = TRUE
  /\ tries' = 0 /\ pc' = "fetch"
  /\ UNCHANGED <<exchangeVars, storeVars, next, seen, capture>>

LateDone ==
  /\ pc = "late" /\ todo = {}
  /\ pc' = "boot_capture" /\ late' = FALSE
  /\ UNCHANGED <<exchangeVars, storeVars, tries, cycle, leg, todo, next, seen, capture>>

\* The position of a leg's symbol, over all cycles.
PositionOf(quantity) ==
  [l \in Legs |-> MapThenSumSet(LAMBDA c : quantity[<<c, l>>], Cycles)]

\* The account is read by concurrent calls, each at an instant of its own.
Capturing == {"boot_capture", "option_capture"}
SurfaceValue(s) ==
  CASE s = "open" -> {o \in Orders : order[o] = "OPEN"}
    [] s = "executions" -> published
    [] s = "position" -> PositionOf(filled)

ReadSurface(s) ==
  /\ pc \in Capturing
  /\ s \notin DOMAIN capture
  /\ capture' = [t \in DOMAIN capture \cup {s} |-> IF t = s THEN SurfaceValue(s) ELSE capture[t]]
  /\ UNCHANGED <<exchangeVars, storeVars, pc, tries, cycle, leg, late, todo, next, seen>>

\* evaluate_startup_reconciliation, for the options: every open order has an
\* intent, every execution is recorded, and the positions are the booked legs.
Matched ==
  /\ capture["open"] \subseteq intents
  /\ \A o \in Orders : capture["executions"][o] <= recorded[o]
  /\ capture["position"] = PositionOf(booked)

Reconcile ==
  /\ pc \in Capturing
  /\ DOMAIN capture = Surfaces
  /\ pc' = IF pc = "option_capture" THEN IF Matched THEN "hedge" ELSE "halted"
           ELSE IF Matched /\ capture["open"] = {} THEN "choose" ELSE "refused"
  /\ capture' = NothingRead
  /\ UNCHANGED <<exchangeVars, storeVars, tries, cycle, leg, late, todo, next, seen>>

\* _open_or_load_option_spread
Started == {c \in Cycles : spread[c] # "NONE"}
InState(state) == {c \in Cycles : spread[c] = state}
SafelyRejectedError == \A c \in Started : spread[c] = "ERROR" \* fault: fills are not looked at
SafelyRejected ==
  \A c \in Started : /\ spread[c] = "ERROR"
                     /\ Long(c) \notin acked /\ Short(c) \notin acked
                     /\ booked[Long(c)] = 0 /\ booked[Short(c)] = 0
NextCycle == Cardinality(Started) + 1

LoadOpen ==
  /\ pc = "choose"
  /\ Cardinality(InState("OPEN")) = 1
  /\ Goto("option_capture")
  /\ UNCHANGED <<exchangeVars, storeVars>>

CompleteLong ==
  /\ pc = "choose"
  /\ Cardinality(InState("OPEN")) # 1
  /\ \E c \in InState("LONG_PROTECTION_FILLED") :
       /\ InState("LONG_PROTECTION_FILLED") = {c}
       /\ cycle' = c
  /\ pc' = "persist_short"
  /\ UNCHANGED <<exchangeVars, storeVars, tries, leg, late, todo, next, seen, capture>>

OpenNew ==
  /\ pc = "choose"
  /\ InState("OPEN") = {} /\ InState("LONG_PROTECTION_FILLED") = {}
  /\ SafelyRejected
  /\ NextCycle \in Cycles
  /\ cycle' = NextCycle /\ leg' = "LONG"
  /\ pc' = "persist_long"
  /\ UNCHANGED <<exchangeVars, storeVars, tries, late, todo, next, seen, capture>>

\* No executable quote, or a durable state that is none of the above.
RefuseOptions ==
  /\ pc = "choose"
  /\ Cardinality(InState("OPEN")) # 1
  /\ Goto("halted")
  /\ UNCHANGED <<exchangeVars, storeVars>>

-----------------------------------------------------------------------------
(* Exceptions, crashes, restarts *)

InTry == {"place", "lookup", "ack", "fetch", "apply", "order"}
InStart == {"late", "boot_capture"}
Outside == {"persist_long", "persist_short", "choose", "option_capture", "mark_error"}
Ended == {"down", "halted", "refused", "hedge"}

Fresh(label) ==
  /\ pc' = label /\ tries' = 0 /\ cycle' = 1 /\ leg' = "LONG" /\ late' = FALSE
  /\ next' = 1 /\ seen' = 0 /\ capture' = NothingRead

\* A failed call inside the try blocks of the service marks the spread; any
\* other exception, and one raised by the marking itself, ends the run.
Raise ==
  \/ pc \in InTry /\ Goto("mark_error") /\ UNCHANGED <<exchangeVars, storeVars>>
  \/ /\ pc \in InStart \cup Outside
     /\ Fresh(IF pc \in InStart \/ late THEN "refused" ELSE "halted")
     /\ todo' = {} /\ UNCHANGED <<exchangeVars, storeVars>>

Crash ==
  /\ pc \in InTry \cup InStart \cup Outside
  /\ Fresh("down") /\ todo' = {} /\ UNCHANGED <<exchangeVars, storeVars>>

Quiet == \A o \in Orders : order[o] \notin {"INFLIGHT", "OPEN"} /\ published[o] = filled[o]

\* run_d3_manual from its beginning: the process starts with nothing but the store.
Boot ==
  /\ pc \in Ended
  /\ BootAfter = "settlement" => Quiet
  /\ Fresh("late")
  /\ todo' = {c \in Cycles : IsLateLong(c)}
  /\ UNCHANGED <<exchangeVars, storeVars>>

RunnerStep ==
  \/ PersistLong \/ PersistShort \/ PlaceLeg \/ LookupLeg \/ AckLeg
  \/ FetchExecutions \/ ApplyExecution \/ ExecutionsApplied \/ CheckOrder \/ MarkError
  \/ NextLate \/ LateDone \/ (\E s \in Surfaces : ReadSurface(s)) \/ Reconcile
  \/ LoadOpen \/ CompleteLong \/ OpenNew \/ RefuseOptions

Next == Exchange \/ RunnerStep \/ Raise \/ Crash \/ Boot

Spec == Init /\ [][Next]_vars

\* The event loop keeps running the coroutine; nothing is assumed of the
\* exchange, of failures or of restarts.
FairSpec == Spec /\ WF_vars(RunnerStep)

-----------------------------------------------------------------------------
(* Properties *)

SpreadStates ==
  {"NONE", "LONG_PROTECTION_PENDING", "LONG_PROTECTION_FILLED", "SHORT_PREMIUM_PENDING",
   "OPEN", "PARTIALLY_OPEN", "ERROR"}

\* The types of the variables.
TypeOK ==
  /\ order \in [Orders -> {"NONE", "INFLIGHT", "OPEN", "DONE"}]
  /\ size \in [Orders -> 0 .. Qty] /\ filled \in [Orders -> 0 .. Qty]
  /\ published \in [Orders -> 0 .. Qty]
  /\ intents \subseteq Orders /\ acked \subseteq Orders
  /\ recorded \in [Orders -> 0 .. Qty] /\ booked \in [Orders -> 0 .. Qty]
  /\ spread \in [Cycles -> SpreadStates]
  /\ pc \in InTry \cup InStart \cup Outside \cup Ended
  /\ tries \in 0 .. Attempts /\ cycle \in Cycles /\ leg \in Legs /\ late \in BOOLEAN
  /\ todo \subseteq Cycles /\ next \in 1 .. Qty + 1 /\ seen \in 0 .. Qty
  /\ DOMAIN capture \subseteq Surfaces

\* Never a naked short: whatever is lost, late, retried or restarted, the
\* exchange holds at most as many short puts of a spread as long ones.
NoNakedShort == \A c \in Cycles : filled[Short(c)] <= filled[Long(c)]

\* The snapshot counts every recorded execution once, across polls and restarts,
\* and records nothing that did not happen.
FillsAreBooked ==
  \A o \in Orders : booked[o] = recorded[o] /\ recorded[o] <= filled[o]

\* A spread is OPEN only on proof: both legs filled in full on the exchange and
\* nothing of them still working or on its way.
OpenIsMatched ==
  \A c \in InState("OPEN"), l \in Legs :
    filled[<<c, l>>] = Qty /\ order[<<c, l>>] = "DONE"

\* Hedging starts on exactly one spread: no other spread has a fill, or an order
\* that can still bring one.
OneSpread ==
  pc = "hedge" =>
    /\ Cardinality(InState("OPEN")) = 1
    /\ \A c \in Cycles \ InState("OPEN"), l \in Legs :
         filled[<<c, l>>] = 0 /\ order[<<c, l>>] \notin {"INFLIGHT", "OPEN"}

\* Every start ends: hedging, halted, refused or crashed.
RunnerComesToRest == []<>(pc \in Ended)
=============================================================================
