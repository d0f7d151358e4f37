---------------------------- MODULE LevelExecution ----------------------------
(***************************************************************************)
(* One protected hedge cycle against the exchange, as the demo runner      *)
(* drives it: a short entry, its exchange-hosted stop and take-profit, the *)
(* exit and its reconciliation, the emergency path taken on any exception, *)
(* and the startup gate after a crash.                                     *)
(*                                                                         *)
(* Every exchange call and every store transaction is one step of the      *)
(* runner; the exchange moves between any two of them.  An order is named  *)
(* by its role, because a cycle submits each role at most once.  The store *)
(* is durable and changes only in whole transactions, so a crash loses the *)
(* runner's own variables and nothing else.                                *)
(***************************************************************************)
EXTENDS Integers, FiniteSetsExt, Functions

CONSTANTS
  Qty,           \* the entry quantity, in lots
  Attempts       \* bound of every polling loop (80, 8 and 20 in the code)

ASSUME ExecutionConstants == Qty \in Nat \ {0} /\ Attempts \in Nat \ {0}

Exits == {"STOP", "TP"}
Roles == {"ENTRY", "CLOSE"} \cup Exits
NoProtection == [state |-> "NONE"]
Surfaces == {"open", "recent", "executions", "position"}

VARIABLES
  \* the exchange
  order,     \* role -> "NONE", "INFLIGHT" (sent, not arrived), "OPEN", "DONE"
  size,      \* role -> ordered quantity
  fills,     \* executions that happened: [role, n, qty]
  history,   \* those get_execution_history already returns
  amended,   \* the take-profit price was amended
  missed,    \* the stop was triggered and has left part of the position open
  \* the store
  intents,   \* table order_intents
  recorded,  \* table executions
  entry,     \* table entry_snapshots: [state, filled]
  prot,      \* table protection_snapshots, or NoProtection
  \* the runner
  pc, tries,
  leg,       \* the protective order being installed
  batch,     \* fetched executions still to be applied
  current,   \* the emergency execution recorded and not yet applied
  targets,   \* exit orders still to be cancelled
  gotFill,   \* recorded_fill of _make_perp_safe
  capture    \* what the reconciliation has read: a function on surfaces

exchangeVars == <<order, size, fills, history, amended, missed>>
storeVars == <<intents, recorded, entry, prot>>
runnerVars == <<pc, tries, leg, batch, current, targets, gotFill, capture>>
vars == <<exchangeVars, storeVars, runnerVars>>

NothingRead == [s \in {} |-> {}]
NoExecution == [role |-> "NONE"]

Init ==
  /\ order = [r \in Roles |-> "NONE"] /\ size = [r \in Roles |-> 0]
  /\ fills = {} /\ history = {} /\ amended = FALSE /\ missed = FALSE
  /\ intents = {} /\ recorded = {}
  /\ entry = [state |-> "NONE", filled |-> 0]
  /\ prot = NoProtection
  /\ pc = "persist_entry" /\ tries = 0 /\ leg = "STOP"
  /\ batch = {} /\ current = NoExecution /\ targets = {} /\ gotFill = FALSE
  /\ capture = NothingRead

Total(E) == SumFunctionOnSet([e \in E |-> e.qty], E)
OfRole(E, R) == {e \in E : e.role \in R}
Filled(r) == Total(OfRole(fills, {r}))
Position == Filled("ENTRY") - Total(OfRole(fills, Roles \ {"ENTRY"}))

-----------------------------------------------------------------------------
(* The exchange (external): it answers late, fills in parts and publishes    *)
(* executions later than it makes them                                       *)

Arrive(r) ==
  /\ order[r] = "INFLIGHT"
  /\ order' = [order EXCEPT ![r] = "OPEN"]
  /\ UNCHANGED <<size, fills, history, amended, missed, storeVars, runnerVars>>

Vanish(r) ==
  /\ order[r] = "INFLIGHT"
  /\ order' = [order EXCEPT ![r] = "NONE"]
  /\ UNCHANGED <<size, fills, history, amended, missed, storeVars, runnerVars>>

\* A fill; the three buy orders are reduce-only.
Fill(r, q) ==
  /\ order[r] = "OPEN"
  /\ q <= size[r] - Filled(r)
  /\ r # "ENTRY" => q <= Position
  /\ fills' = fills \cup
       {[role |-> r, n |-> Cardinality(fills) + 1, qty |-> q]}
  /\ order' = [order EXCEPT ![r] = IF q = size[r] - Filled(r) THEN "DONE" ELSE @]
  /\ UNCHANGED <<size, history, amended, missed, storeVars, runnerVars>>

\* A market order, the triggered stop among them, drops what it cannot fill; a
\* reduce-only order with nothing left to reduce is removed.
Expire(r) ==
  /\ order[r] = "OPEN"
  /\ r # "TP" \/ Position = 0
  /\ order' = [order EXCEPT ![r] = "DONE"]
  /\ missed' = (missed \/ (r = "STOP" /\ Position > 0))
  /\ UNCHANGED <<size, fills, history, amended, storeVars, runnerVars>>

Publish ==
  /\ history # fills
  /\ history' = fills
  /\ UNCHANGED <<order, size, fills, amended, missed, storeVars, runnerVars>>

Exchange ==
  \/ \E r \in Roles : Arrive(r) \/ Vanish(r) \/ Expire(r) \/ \E q \in 1 .. Qty : Fill(r, q)
  \/ Publish

\* place_order, as the caller sees it: acknowledged, lost in transit with an
\* uncertain outcome, or refused.
Place(r, q, outcome) ==
  /\ order' = [order EXCEPT ![r] = IF outcome = "ack" THEN "OPEN"
                                   ELSE IF outcome = "uncertain" THEN "INFLIGHT" ELSE @]
  /\ size' = [size EXCEPT ![r] = q]
  /\ UNCHANGED <<fills, history, amended, missed>>

\* get_order_by_link_id: an order that has arrived may not be visible yet.
Known(r) == order[r] \in {"OPEN", "DONE"}
Lookups(r) == {FALSE} \cup (IF Known(r) THEN {TRUE} ELSE {})

-----------------------------------------------------------------------------
(* Control of the runner *)

Goto(label) == pc' = label /\ UNCHANGED <<tries, leg, batch, targets, current, gotFill, capture>>
GotoLoop(label) == pc' = label /\ tries' = 0 /\ UNCHANGED <<leg, batch, targets, current, gotFill, capture>>
AgainForever(label, otherwise) == Goto(label) \* fault: attempts are not counted
Again(label, otherwise) ==
  /\ pc' = IF tries + 1 < Attempts THEN label ELSE otherwise
  /\ tries' = tries + 1
  /\ UNCHANGED <<leg, batch, targets, current, gotFill, capture>>

EntryTo(state) == entry' = [entry EXCEPT !.state = state]
ProtTo(state) == prot' = [prot EXCEPT !.state = state]

\* The exception leaves the cycle: run_d3_manual calls _make_perp_safe.
Failed == "safe_cancel"

-----------------------------------------------------------------------------
(* OneLevelEntryService *)

PersistEntry ==
  /\ pc = "persist_entry"
  /\ intents' = intents \cup {"ENTRY"}
  /\ EntryTo("ENTRY_REQUEST_PERSISTED")
  /\ Goto("submit_entry")
  /\ UNCHANGED <<exchangeVars, recorded, prot>>

SubmitEntry ==
  /\ pc = "submit_entry"
  /\ EntryTo("ENTRY_SUBMITTED")
  /\ Goto("place_entry")
  /\ UNCHANGED <<exchangeVars, intents, recorded, prot>>

PlaceEntry ==
  /\ pc = "place_entry"
  /\ \E outcome \in {"ack", "uncertain", "refused"} :
       /\ Place("ENTRY", Qty, outcome)
       /\ Goto(CASE outcome = "ack" -> "ack_entry"
                 [] outcome = "uncertain" -> "lookup_entry"
                 [] outcome = "refused" -> "fail_entry")
  /\ UNCHANGED storeVars

LookupEntry ==
  /\ pc = "lookup_entry"
  /\ \E found \in Lookups("ENTRY") : Goto(IF found THEN "ack_entry" ELSE "lose_entry")
  /\ UNCHANGED <<exchangeVars, storeVars>>

AckEntry ==
  /\ pc = "ack_entry"
  /\ EntryTo("ENTRY_ACKNOWLEDGED")
  /\ GotoLoop("entry_fills")
  /\ UNCHANGED <<exchangeVars, intents, recorded, prot>>

\* The two error transitions of submit_persisted_entry.
EntryNotPlaced ==
  /\ pc \in {"fail_entry", "lose_entry"}
  /\ EntryTo(IF pc = "fail_entry" THEN "ERROR" ELSE "RECONCILING")
  /\ Goto(Failed)
  /\ UNCHANGED <<exchangeVars, intents, recorded, prot>>

-----------------------------------------------------------------------------
(* OneLevelLifecycleService: the entry fill *)

\* The execution to apply next: sorted by time.
First(E) == CHOOSE e \in E : \A f \in E : e.n <= f.n

FetchFills(label, R, next) ==
  /\ pc = label
  /\ batch' = OfRole(history, R)
  /\ pc' = next
  /\ UNCHANGED <<exchangeVars, storeVars, tries, leg, targets, current, gotFill, capture>>

FetchEntryFills == FetchFills("entry_fills", {"ENTRY"}, "apply_entry")

IsNewForgotten(e) == TRUE \* fault: has_execution is not consulted
IsNew(e) == e \notin recorded

\* apply_execution of the entry service.
ApplyEntryFill ==
  /\ pc = "apply_entry" /\ batch # {}
  /\ LET e == First(batch)
         filled == entry.filled + e.qty
     IN  IF ~IsNew(e)
         THEN UNCHANGED <<recorded, entry, pc>>
         ELSE IF filled > Qty
              THEN pc' = Failed /\ UNCHANGED <<recorded, entry>>
              ELSE /\ recorded' = recorded \cup {e}
                   /\ entry' = [state |-> IF filled = Qty THEN "ACTIVE_UNPROTECTED"
                                          ELSE "ENTRY_PARTIALLY_FILLED",
                                filled |-> filled]
                   /\ UNCHANGED pc
  /\ batch' = batch \ {First(batch)}
  /\ UNCHANGED <<exchangeVars, intents, prot, tries, leg, targets, current, gotFill, capture>>

EntryFillsApplied ==
  /\ pc = "apply_entry" /\ batch = {}
  /\ Goto(IF entry.state = "ACTIVE_UNPROTECTED" THEN "entry_position" ELSE "entry_order")
  /\ UNCHANGED <<exchangeVars, storeVars>>

\* The terminal order decides a partial fill, once every execution is booked.
Finalizable(found) == found /\ order["ENTRY"] = "DONE" /\ Filled("ENTRY") = entry.filled

CheckEntryOrder ==
  /\ pc = "entry_order"
  /\ \E found \in Lookups("ENTRY") :
       IF Finalizable(found) /\ entry.state = "ENTRY_PARTIALLY_FILLED"
       THEN EntryTo("ACTIVE_UNPROTECTED") /\ Goto("entry_position")
       ELSE /\ UNCHANGED entry
            /\ IF Finalizable(found) THEN Goto(Failed) ELSE Again("entry_fills", Failed)
  /\ UNCHANGED <<exchangeVars, intents, recorded, prot>>

\* reconcile_position
CheckEntryPosition ==
  /\ pc = "entry_position"
  /\ IF Position = entry.filled
     THEN UNCHANGED entry /\ Goto("persist_exit")
     ELSE EntryTo("RECONCILING") /\ Goto(Failed)
  /\ UNCHANGED <<exchangeVars, intents, recorded, prot>>

-----------------------------------------------------------------------------
(* ProtectiveExitService: the stop, then the take-profit *)

NewProtection ==
  [state |-> "ACTIVE_UNPROTECTED", qty |-> entry.filled, open |-> entry.filled,
   tp |-> 0, stop |-> 0, hasTp |-> FALSE, pending |-> "NONE"]

PersistExit ==
  /\ pc = "persist_exit"
  /\ intents' = intents \cup {leg}
  /\ prot' = IF leg = "STOP" THEN NewProtection ELSE [prot EXCEPT !.hasTp = TRUE]
  /\ Goto("place_exit")
  /\ UNCHANGED <<exchangeVars, recorded, entry>>

PlaceExitTrusting == \* fault: an uncertain outcome is taken for a confirmed order
  /\ pc = "place_exit"
  /\ \E outcome \in {"ack", "uncertain"} :
       /\ Place(leg, prot.open, outcome)
       /\ GotoLoop(IF outcome = "ack" THEN "see_exit" ELSE "confirm_exit")
  /\ UNCHANGED storeVars

PlaceExit ==
  /\ pc = "place_exit"
  /\ \E outcome \in {"ack", "uncertain", "refused"} :
       /\ Place(leg, prot.open, outcome)
       /\ GotoLoop(CASE outcome = "ack" -> "see_exit"
                     [] outcome = "uncertain" -> "lookup_exit"
                     [] outcome = "refused" -> "doubt_exit")
  /\ UNCHANGED storeVars

\* Only an order that is visible and still working confirms the leg.
Working(r) == order[r] = "OPEN"
SeeExit ==
  /\ pc \in {"lookup_exit", "see_exit"}
  /\ \E found \in Lookups(leg) :
       IF found
       THEN Goto(IF Working(leg) THEN "confirm_exit" ELSE "doubt_exit")
       ELSE IF pc = "lookup_exit" THEN Goto("doubt_exit")
            ELSE Again("see_exit", "doubt_exit")
  /\ UNCHANGED <<exchangeVars, storeVars>>

ConfirmExit ==
  /\ pc = "confirm_exit"
  /\ IF leg = "STOP"
     THEN ProtTo("ACTIVE_PROTECTED") /\ leg' = "TP" /\ pc' = "persist_exit"
     ELSE UNCHANGED <<prot, leg>> /\ pc' = "protected_position"
  /\ UNCHANGED <<exchangeVars, intents, recorded, entry, tries, batch, targets, current, gotFill, capture>>

DoubtExit ==
  /\ pc = "doubt_exit"
  /\ ProtTo("RECONCILING")
  /\ Goto(Failed)
  /\ UNCHANGED <<exchangeVars, intents, recorded, entry>>

\* protect_submitted_entry, then _verify_liquidation_distance
CheckProtectedPosition ==
  /\ pc \in {"protected_position", "liquidation"}
  /\ Goto(IF pc = "liquidation"
          THEN IF Position > 0 THEN "restart_capture" ELSE Failed
          ELSE IF Position = prot.open THEN "liquidation" ELSE Failed)
  /\ UNCHANGED <<exchangeVars, storeVars>>

-----------------------------------------------------------------------------
(* Reconciliation: nine concurrent reads, then evaluate_startup_reconciliation *)

Capturing == {"restart_capture", "final_capture", "boot_capture"}

\* What a read returns, as far as it is compared later.  The store does not change
\* while the reads are under way, so the executions listed are compared with it at once.
SurfaceValue(s) ==
  CASE s = "open" -> {r \in Roles : order[r] = "OPEN"}
    [] s = "recent" -> {r \in {"ENTRY"} : Known(r)}
    [] s = "executions" -> history \subseteq recorded
    [] s = "position" -> Position

ReadSurface(s) ==
  /\ pc \in Capturing
  /\ s \notin DOMAIN capture
  /\ capture' = [t \in DOMAIN capture \cup {s} |-> IF t = s THEN SurfaceValue(s) ELSE capture[t]]
  /\ UNCHANGED <<exchangeVars, storeVars, pc, tries, leg, batch, targets, current, gotFill>>

Protected == prot # NoProtection
ExpectedPerpQuantity ==
  IF Protected THEN prot.open ELSE IF entry.state = "ERROR" THEN 0 ELSE entry.filled

ExecutionsKnownUnchecked == TRUE \* fault: executions are not compared
ExecutionsKnown == capture["executions"]

\* report.trading_allowed: no difference of any kind.
Matched ==
  /\ capture["open"] \subseteq intents
  /\ ExecutionsKnown
  /\ entry.state \in {"ENTRY_SUBMITTED", "ENTRY_ACKNOWLEDGED", "ENTRY_PARTIALLY_FILLED"}
       => "ENTRY" \in capture["open"] \cup capture["recent"]
  /\ Protected => (prot.open > 0 =>
       /\ "STOP" \in capture["open"]
       /\ prot.hasTp => "TP" \in capture["open"] /\ ~amended)
  /\ entry.filled > 0 /\ ~Protected => entry.state \in {"RECONCILING", "ERROR"}
  /\ ExpectedPerpQuantity = capture["position"]

\* What each reconciliation admits to.
Verdict ==
  CASE pc = "restart_capture" -> IF Matched THEN "amend" ELSE Failed
    [] pc = "final_capture" -> IF Matched /\ capture["position"] = 0 THEN "done" ELSE Failed
    [] pc = "boot_capture" ->
         IF Matched /\ capture["open"] = {} /\ capture["position"] = 0 THEN "admitted" ELSE "refused"

Reconcile ==
  /\ pc \in Capturing
  /\ DOMAIN capture = Surfaces
  /\ pc' = Verdict
  /\ capture' = NothingRead
  /\ UNCHANGED <<exchangeVars, storeVars, tries, leg, batch, targets, current, gotFill>>

-----------------------------------------------------------------------------
(* _finish_protected_cycle: amend, await_exit, reconcile_after_exit *)

\* An amendment of an order that is gone, or lost in transit, is ignored.
Amend ==
  /\ pc = "amend"
  /\ amended' \in IF Working("TP") THEN BOOLEAN ELSE {amended}
  /\ GotoLoop("exit_fills")
  /\ UNCHANGED <<order, size, fills, history, missed, storeVars>>

FetchExitFills == FetchFills("exit_fills", Exits, "apply_exit")

\* apply_exit_execution
StopFilled(e) == prot.stop + IF e.role = "STOP" THEN e.qty ELSE 0
TpFilled(e) == prot.tp + IF e.role = "TP" THEN e.qty ELSE 0
Reduced(e) ==
  LET open == prot.open - e.qty
      stop == StopFilled(e)
  IN  [prot EXCEPT
        !.open = open,
        !.stop = stop,
        !.tp = TpFilled(e),
        !.state = IF open = 0 THEN "CANCEL_PENDING" ELSE "EXIT_PARTIALLY_FILLED",
        !.pending = IF open > 0 THEN "NONE"
                    ELSE IF stop > 0 THEN "CLOSED_STOP" ELSE "CLOSED_TP"]

ApplyExitFill ==
  /\ pc = "apply_exit" /\ batch # {}
  /\ LET e == First(batch)
     IN  IF ~IsNew(e)
         THEN UNCHANGED <<recorded, prot, pc>>
         ELSE IF e.qty > prot.open
              THEN pc' = Failed /\ UNCHANGED <<recorded, prot>>
              ELSE /\ recorded' = recorded \cup {e}
                   /\ prot' = Reduced(e)
                   /\ UNCHANGED pc
  /\ batch' = batch \ {First(batch)}
  /\ UNCHANGED <<exchangeVars, intents, entry, tries, leg, targets, current, gotFill, capture>>

ExitFillsApplied ==
  /\ pc = "apply_exit" /\ batch = {}
  /\ IF prot.state = "CANCEL_PENDING" THEN Goto("exit_orders") ELSE Again("exit_fills", Failed)
  /\ UNCHANGED <<exchangeVars, storeVars>>

\* get_open_orders, before and after the sibling is cancelled.
ListExitOrders ==
  /\ pc \in {"exit_orders", "exit_recheck"}
  /\ targets' = {r \in Exits : Working(r)}
  /\ pc' = IF pc = "exit_orders" THEN "exit_cancel" ELSE "exit_position"
  /\ UNCHANGED <<exchangeVars, storeVars, tries, leg, batch, current, gotFill, capture>>

\* A cancel acknowledgement does not mean cancelled; an order already gone is
\* an unknown-order error, which reconcile_after_exit does not catch.
CancelExit ==
  /\ pc = "exit_cancel"
  /\ \E r \in targets :
       /\ targets' = targets \ {r}
       /\ IF Working(r)
          THEN order' \in {order, [order EXCEPT ![r] = "DONE"]} /\ UNCHANGED pc
          ELSE pc' = Failed /\ UNCHANGED order
  /\ UNCHANGED <<size, fills, history, amended, missed, storeVars, tries, leg, batch, current, gotFill, capture>>

ExitsCancelled ==
  /\ pc = "exit_cancel" /\ targets = {}
  /\ Goto("exit_recheck")
  /\ UNCHANGED <<exchangeVars, storeVars>>

ExitExplainedNow == TRUE \* fault: remaining orders and the position are not looked at
ExitExplained == targets = {} /\ Position = prot.open
CloseExit ==
  /\ pc = "exit_position"
  /\ IF ExitExplained
     THEN /\ prot' = [prot EXCEPT !.state = prot.pending, !.pending = "NONE"]
          /\ Goto("final_capture")
     ELSE ProtTo("RECONCILING") /\ Again("exit_fills", Failed)
  /\ UNCHANGED <<exchangeVars, intents, recorded, entry>>

-----------------------------------------------------------------------------
(* _make_perp_safe and EmergencyFlattenService *)

\* cancel_all, before the close and in the finally clause; a failure is swallowed.
CancelAll ==
  /\ pc \in {"safe_cancel", "safe_final"}
  /\ order' \in {order, [r \in Roles |-> IF Working(r) THEN "DONE" ELSE order[r]]}
  /\ Goto(IF pc = "safe_cancel" THEN "safe_position" ELSE "halted")
  /\ UNCHANGED <<size, fills, history, amended, missed, storeVars>>

\* _make_perp_safe and then flatten_short read the position; the second reading
\* is the quantity of the close.
SeePosition ==
  /\ pc \in {"safe_position", "flat_position"}
  /\ IF Position = 0 THEN Goto("safe_final") /\ UNCHANGED size
     ELSE IF pc = "safe_position" THEN Goto("flat_position") /\ UNCHANGED size
          ELSE Goto("flat_persist") /\ size' = [size EXCEPT !["CLOSE"] = Position]
  /\ UNCHANGED <<order, fills, history, amended, missed, storeVars>>

PersistClose ==
  /\ pc = "flat_persist"
  /\ intents' = intents \cup {"CLOSE"}
  /\ Goto("flat_place")
  /\ UNCHANGED <<exchangeVars, recorded, entry, prot>>

PlaceClose ==
  /\ pc = "flat_place"
  /\ \E outcome \in {"ack", "uncertain", "refused"} :
       /\ Place("CLOSE", size["CLOSE"], outcome)
       /\ GotoLoop(CASE outcome = "ack" -> "flat_fills"
                     [] outcome = "uncertain" -> "flat_lookup"
                     [] outcome = "refused" -> "safe_final")
  /\ UNCHANGED storeVars

LookupClose ==
  /\ pc = "flat_lookup"
  /\ \E found \in Lookups("CLOSE") : Goto(IF found THEN "flat_fills" ELSE "safe_final")
  /\ UNCHANGED <<exchangeVars, storeVars>>

FetchCloseFills == FetchFills("flat_fills", {"CLOSE"}, "flat_record")

\* record_fill, one execution at a time in the order the exchange lists them.
RecordCloseFill ==
  /\ pc = "flat_record"
  /\ \E e \in batch :
       /\ recorded' = recorded \cup {e}
       /\ current' = e
  /\ gotFill' = TRUE
  /\ pc' = "flat_apply"
  /\ UNCHANGED <<exchangeVars, intents, entry, prot, tries, leg, batch, targets, capture>>

\* _apply_emergency_exit: the execution reduces what is still booked as open,
\* whether or not it was applied before.  An unprotected entry is closed as a
\* whole or not at all.
ActiveExposure ==
  IF Protected THEN prot.open ELSE IF entry.state = "ERROR" THEN 0 ELSE entry.filled
Unallocated(e) == ~Protected /\ ActiveExposure > e.qty
EmergencyExit(e) ==
  LET remaining == Min({e.qty, ActiveExposure})
      applies == remaining > 0 /\ ~Unallocated(e)
  IN  /\ prot' = IF applies /\ Protected
                 THEN [prot EXCEPT !.state = "ERROR", !.open = @ - remaining,
                                   !.stop = @ + remaining, !.pending = "NONE"]
                 ELSE prot
      /\ entry' = IF applies /\ ~Protected THEN [entry EXCEPT !.state = "ERROR"] ELSE entry

ApplyCloseFill ==
  /\ pc = "flat_apply"
  /\ EmergencyExit(current)
  /\ batch' = batch \ {current}
  /\ current' = NoExecution
  /\ pc' = IF Unallocated(current) THEN "safe_final" ELSE "flat_record"
  /\ UNCHANGED <<exchangeVars, intents, recorded, tries, leg, targets, gotFill, capture>>

\* The loop ends flat or exhausted; either way the finally clause follows and
\* the first exception is raised again.
CloseFillsApplied ==
  /\ pc = "flat_record" /\ batch = {}
  /\ IF gotFill /\ Position = 0 THEN Goto("safe_final") ELSE Again("flat_fills", "safe_final")
  /\ UNCHANGED <<exchangeVars, storeVars>>

-----------------------------------------------------------------------------
(* Exceptions, crashes and the next start of the runner *)

InCycle ==
  {"persist_entry", "submit_entry", "place_entry", "lookup_entry", "ack_entry", "fail_entry",
   "lose_entry", "entry_fills", "apply_entry", "entry_order", "entry_position",
   "persist_exit", "place_exit", "lookup_exit", "see_exit", "confirm_exit", "doubt_exit",
   "protected_position", "liquidation", "restart_capture", "amend", "exit_fills",
   "apply_exit", "exit_orders", "exit_cancel", "exit_recheck", "exit_position",
   "final_capture"}
InSafe ==
  {"safe_position", "flat_position", "flat_persist", "flat_place",
   "flat_lookup", "flat_fills", "flat_record", "flat_apply"}
AboutToEnd == {"safe_cancel", "safe_final"}
InBoot == {"boot_apply", "boot_capture"}
Ended == {"down", "halted", "done", "refused"}

\* Memory is lost with the process.
Fresh(label) ==
  /\ pc' = label /\ tries' = 0 /\ leg' = "STOP"
  /\ current' = NoExecution /\ targets' = {} /\ gotFill' = FALSE /\ capture' = NothingRead
Leave(label) == Fresh(label) /\ batch' = {} /\ UNCHANGED <<exchangeVars, storeVars>>

\* Any awaited call may raise (a failed request, an interrupt): run_d3_manual
\* makes the account safe; _make_perp_safe has a finally clause, which does not
\* cover its first cancel_all; the start of the runner has no handler.
Raise ==
  \/ pc \in InCycle /\ Leave(Failed)
  \/ pc \in InSafe /\ Leave("safe_final")
  \/ pc = "safe_cancel" /\ Leave("halted")
  \/ pc \in InBoot /\ Leave("refused")

Crash == pc \in InCycle \cup InSafe \cup InBoot \cup AboutToEnd /\ Leave("down")

\* run_d3_manual up to its first reconciliation.
RecordedCloses == OfRole(recorded, {"CLOSE"})
Boot ==
  /\ pc \in Ended
  /\ Fresh("boot_apply")
  /\ batch' = RecordedCloses
  /\ UNCHANGED <<exchangeVars, storeVars>>

\* _apply_recorded_emergency_exits
ApplyRecordedClose ==
  /\ pc = "boot_apply" /\ batch # {}
  /\ LET e == First(batch)
     IN  /\ EmergencyExit(e)
         /\ pc' = IF Unallocated(e) THEN "refused" ELSE "boot_apply"
         /\ batch' = IF Unallocated(e) THEN {} ELSE batch \ {e}
  /\ UNCHANGED <<exchangeVars, intents, recorded, tries, leg, targets, current, gotFill, capture>>

RecordedClosesApplied ==
  /\ pc = "boot_apply" /\ batch = {}
  /\ Goto("boot_capture")
  /\ UNCHANGED <<exchangeVars, storeVars>>

RunnerStep ==
  \/ PersistEntry \/ SubmitEntry \/ PlaceEntry \/ LookupEntry \/ AckEntry \/ EntryNotPlaced
  \/ FetchEntryFills \/ ApplyEntryFill \/ EntryFillsApplied \/ CheckEntryOrder
  \/ CheckEntryPosition
  \/ PersistExit \/ PlaceExit \/ SeeExit \/ ConfirmExit \/ DoubtExit \/ CheckProtectedPosition
  \/ (\E s \in Surfaces : ReadSurface(s)) \/ Reconcile
  \/ Amend \/ FetchExitFills \/ ApplyExitFill \/ ExitFillsApplied
  \/ ListExitOrders \/ CancelExit \/ ExitsCancelled \/ CloseExit
  \/ CancelAll \/ SeePosition \/ PersistClose \/ PlaceClose \/ LookupClose
  \/ FetchCloseFills \/ RecordCloseFill \/ ApplyCloseFill \/ CloseFillsApplied
  \/ ApplyRecordedClose \/ RecordedClosesApplied

Next == Exchange \/ RunnerStep \/ Raise \/ Crash \/ Boot

Spec == Init /\ [][Next]_vars

-----------------------------------------------------------------------------
(* Properties *)

Executions == [role : Roles, n : 1 .. 2 * Qty, qty : 1 .. Qty]
EntryStates ==
  {"NONE", "ENTRY_REQUEST_PERSISTED", "ENTRY_SUBMITTED", "ENTRY_ACKNOWLEDGED",
   "ENTRY_PARTIALLY_FILLED", "ACTIVE_UNPROTECTED", "RECONCILING", "ERROR"}
ProtectionStates ==
  {"ACTIVE_UNPROTECTED", "ACTIVE_PROTECTED", "EXIT_PARTIALLY_FILLED", "CANCEL_PENDING",
   "CLOSED_TP", "CLOSED_STOP", "RECONCILING", "ERROR"}
Protections ==
  [state : ProtectionStates, qty : 1 .. Qty, open : 0 .. Qty, tp : 0 .. Qty, stop : 0 .. Qty,
   hasTp : BOOLEAN, pending : {"NONE", "CLOSED_TP", "CLOSED_STOP"}]

\* The types of the variables, with the checks of the snapshots' __post_init__.
TypeOK ==
  /\ order \in [Roles -> {"NONE", "INFLIGHT", "OPEN", "DONE"}] /\ size \in [Roles -> 0 .. Qty]
  /\ fills \subseteq Executions /\ history \subseteq fills /\ recorded \subseteq history
  /\ amended \in BOOLEAN /\ missed \in BOOLEAN /\ intents \subseteq Roles
  /\ entry \in [state : EntryStates, filled : 0 .. Qty]
  /\ entry.state = "ENTRY_PARTIALLY_FILLED" => 0 < entry.filled /\ entry.filled < Qty
  /\ Protected =>
       /\ prot \in Protections
       /\ prot.tp + prot.stop + prot.open = prot.qty
       /\ prot.state \in {"CANCEL_PENDING", "CLOSED_TP", "CLOSED_STOP"} => prot.open = 0
       /\ prot.state = "CANCEL_PENDING" => prot.pending # "NONE"
  /\ pc \in InCycle \cup InSafe \cup InBoot \cup AboutToEnd \cup Ended \cup {"admitted"}
  /\ tries \in 0 .. Attempts /\ leg \in Exits /\ batch \subseteq history
  /\ current \in history \cup {NoExecution} /\ targets \subseteq Exits
  /\ gotFill \in BOOLEAN /\ DOMAIN capture \subseteq Surfaces

\* Write-ahead: whatever the crash point, an order that has reached the exchange,
\* or may still reach it, is in order_intents (persist_*_intent commits before
\* place_order in all three services).
IntentBeforeOrder == \A r \in Roles : order[r] # "NONE" => r \in intents

\* The durable snapshots agree with the durable executions after every
\* transaction and so at every crash point, until an emergency close is booked:
\* filled is the sum of the recorded entry executions and what has left open is
\* the sum of the recorded exits, each counted once however often it is polled.
FillsAreBooked ==
  /\ entry.filled = Total(OfRole(recorded, {"ENTRY"}))
  /\ Protected /\ OfRole(recorded, {"CLOSE"}) = {} =>
       prot.qty - prot.open = Total(OfRole(recorded, Exits))

\* The store is a valid account of the past at every crash point: every snapshot
\* passes its own checks, every order on the exchange has its intent on record,
\* and the snapshots add up to the recorded executions.
StoreIsAhead == TypeOK /\ IntentBeforeOrder /\ FillsAreBooked

\* While the cycle trusts its protection (ACTIVE_PROTECTED, no exception), the
\* stop works on the exchange for at least the whole short position.  Only the
\* stop itself may have ended it: triggered, it is a market order that drops what
\* it cannot fill.  Lost and late answers, fills of the take-profit in between and
\* the runner's own calls never leave a trusted position without its stop.
StopCoversPosition ==
  Working("STOP") /\ Position <= size["STOP"] - Filled("STOP")
ProtectedMeansStop ==
  pc \in InCycle /\ Protected =>
    (prot.state = "ACTIVE_PROTECTED" /\ Position > 0 => StopCoversPosition \/ missed)

\* A cycle that reports success has left nothing behind: no position, no order
\* working or on its way, and every execution booked under a closed level.
DoneMeansFlat ==
  pc = "done" =>
    /\ Position = 0
    /\ \A r \in Roles : order[r] \in {"NONE", "DONE"}
    /\ fills = recorded
    /\ prot.state \in {"CLOSED_TP", "CLOSED_STOP"}

\* Startup after a crash between record_fill and _apply_emergency_exit: when the
\* first reconciliation starts, every recorded execution has left the books.
RecordedClosesAreBooked ==
  pc \in {"boot_capture", "admitted"} /\ Protected =>
    prot.qty - prot.open >= Total(OfRole(recorded, Roles \ {"ENTRY"}))

\* No execution is counted twice: the booked closings never exceed the distinct
\* recorded ones.  (_make_perp_safe applies an execution again on every poll.)
NoExecutionCountedTwice ==
  Protected => prot.qty - prot.open <= Total(OfRole(recorded, Roles \ {"ENTRY"}))

\* No unknown state permits new orders: a start is not admitted while an order
\* of the last cycle may still reach the exchange.
UnknownStateBlocksTrading == pc = "admitted" => \A r \in Roles : order[r] # "INFLIGHT"
=============================================================================
