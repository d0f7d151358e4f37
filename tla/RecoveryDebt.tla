----------------------------- MODULE RecoveryDebt -----------------------------
(***************************************************************************)
(* The loss of a stop as durable debt: confirmed from the books of a       *)
(* hedge, allocated to one recovery hedge of the same level, then paid by  *)
(* its take-profit, rolled back with a new loss by its stop, or released.  *)
(*                                                                         *)
(* One behaviour is a series of run_d6_recovery processes over one store.  *)
(* Every run works on a level of its own (level_id = cycle_number) with    *)
(* two hedges: attempt 1 is the baseline, attempt 2 the recovery.  What    *)
(* LevelExecution says about orders and fills is reduced here to the       *)
(* protection snapshot: open or not, its terminal state and its loss.      *)
(***************************************************************************)
EXTENDS Integers

CONSTANTS
  MaxLevels,   \* bound on the cycles, hence on the levels
  Losses,      \* net loss of one exit execution, never negative
  MaxLoss,     \* bound on the loss of one hedge
  Profits,     \* realized_pnl of a hedge that took profit
  ZoneBudget   \* net_zone_budget

ASSUME DebtConstants ==
  /\ MaxLevels \in Nat \ {0} /\ Losses \subseteq Nat /\ MaxLoss \in Nat
  /\ Profits \subseteq Int /\ ZoneBudget \in Nat

Levels == 1 .. MaxLevels
Baseline(l) == <<l, 1>>
Recovery(l) == <<l, 2>>
Hedges == Levels \X {1, 2}

VARIABLES
  \* the store
  intents,   \* hedges whose entry intent is persisted
  prot,      \* protection_snapshots
  closes,    \* levels with a recorded emergency execution
  debt,      \* recovery_debts
  \* the runner
  pc, level,
  todo,      \* what a loop of the start has still to visit
  \* history
  paid       \* per level, what take-profits have paid

storeVars == <<intents, prot, closes, debt>>
runnerVars == <<pc, level, todo>>
vars == <<storeVars, runnerVars, paid>>

\* "ACTIVE" stands for every state before the terminal ones, CANCEL_PENDING and
\* RECONCILING included; stopped is stop_filled_quantity > 0.
NoHedge == [state |-> "NONE", open |-> FALSE, stopped |-> FALSE, loss |-> 0]
NoDebt == [row |-> FALSE, confirmed |-> 0, allocated |-> 0, remaining |-> 0]

Init ==
  /\ intents = {} /\ prot = [h \in Hedges |-> NoHedge] /\ closes = {}
  /\ debt = [l \in Levels |-> NoDebt]
  /\ pc = "down" /\ level = 1 /\ todo = {}
  /\ paid = [l \in Levels |-> 0]

Goto(label) == pc' = label /\ UNCHANGED <<level, todo>>

-----------------------------------------------------------------------------
(* domain/live_recovery *)

AddConfirmedStopDebt(d, loss) ==
  [d EXCEPT !.row = TRUE, !.confirmed = @ + loss, !.remaining = @ + loss]

AllocateConfirmedDebt(d) == [d EXCEPT !.allocated = d.remaining, !.remaining = 0]

ReleaseAllocatedDebtLost(d) == \* fault: released debt is forgotten
  [d EXCEPT !.allocated = 0, !.confirmed = d.remaining]
ReleaseAllocatedDebt(d) ==
  [d EXCEPT !.allocated = 0, !.remaining = @ + d.allocated]

PaidBy(d, realized) ==
  IF realized <= ZoneBudget THEN 0
  ELSE IF realized - ZoneBudget < d.allocated THEN realized - ZoneBudget ELSE d.allocated

SettleRecoveryTakeProfit(d, realized) ==
  [d EXCEPT !.confirmed = @ - PaidBy(d, realized), !.allocated = 0,
            !.remaining = @ + (d.allocated - PaidBy(d, realized))]

-----------------------------------------------------------------------------
(* _run_recovery_perp_cycle *)

PersistBaseline ==
  /\ pc = "baseline"
  /\ intents' = intents \cup {Baseline(level)}
  /\ Goto("protect_baseline")
  /\ UNCHANGED <<prot, closes, debt, paid>>

ProtectHedge(label, h, next) ==
  /\ pc = label
  /\ prot' = [prot EXCEPT ![h] = [NoHedge EXCEPT !.state = "ACTIVE", !.open = TRUE]]
  /\ Goto(next)
  /\ UNCHANGED <<intents, closes, debt, paid>>

ProtectBaseline == ProtectHedge("protect_baseline", Baseline(level), "baseline_exit")
ProtectRecovery == ProtectHedge("protect_recovery", Recovery(level), "recovery_exit")

Awaited ==
  CASE pc = "baseline_exit" -> {Baseline(level)}
    [] pc = "recovery_exit" -> {Recovery(level)}
    [] OTHER -> {}

\* An execution of the stop or of the take-profit, booked by await_exit.
ExitFill ==
  \E h \in Awaited, stop \in BOOLEAN, stillOpen \in BOOLEAN, loss \in Losses :
    /\ prot[h].open
    /\ loss > 0 => stop /\ prot[h].loss + loss <= MaxLoss
    /\ prot' = [prot EXCEPT ![h] = [prot[h] EXCEPT !.open = stillOpen,
                                                   !.stopped = prot[h].stopped \/ stop,
                                                   !.loss = prot[h].loss + loss]]
    /\ UNCHANGED <<intents, closes, debt, runnerVars, paid>>

\* reconcile_after_exit, and what the runner makes of the terminal state.
Terminal(p) == IF p.stopped THEN "CLOSED_STOP" ELSE "CLOSED_TP"
AfterExit(h) ==
  IF h = Recovery(level) THEN IF prot[h].stopped THEN "stop_debt" ELSE "settle"
  ELSE IF prot[h].stopped /\ prot[h].loss > 0 THEN "record" ELSE "safe"

CloseExit ==
  \E h \in Awaited :
    /\ ~prot[h].open
    /\ prot' = [prot EXCEPT ![h] = [prot[h] EXCEPT !.state = Terminal(prot[h])]]
    /\ Goto(AfterExit(h))
    /\ UNCHANGED <<intents, closes, debt, paid>>

RecordConfirmedStopDebt ==
  /\ pc = "record"
  /\ debt' = [debt EXCEPT ![level] = AddConfirmedStopDebt(@, prot[Baseline(level)].loss)]
  /\ Goto("plan")
  /\ UNCHANGED <<intents, prot, closes, paid>>

\* submit_recovery.  The first call, with a limit of one step, is rejected
\* whatever the debt is and changes nothing; the second is approved or not.
PlanRecovery ==
  /\ pc = "plan"
  /\ \E approved \in BOOLEAN :
       Goto(IF approved /\ debt[level].allocated = 0 THEN "persist" ELSE "safe")
  /\ UNCHANGED <<storeVars, paid>>

PersistRecovery ==
  /\ pc = "persist"
  /\ intents' = intents \cup {Recovery(level)}
  /\ Goto("allocate")
  /\ UNCHANGED <<prot, closes, debt, paid>>

AllocateDebt ==
  /\ pc = "allocate"
  /\ debt' = [debt EXCEPT ![level] = AllocateConfirmedDebt(@)]
  /\ Goto("submit")
  /\ UNCHANGED <<intents, prot, closes, paid>>

\* submit_persisted_entry is acknowledged, uncertain, or fails in any other way.
SubmitRecovery ==
  /\ pc = "submit"
  /\ Goto("protect_recovery") \/ Goto("safe") \/ Goto("release")
  /\ UNCHANGED <<storeVars, paid>>

ReleaseDebt ==
  /\ pc = "release"
  /\ debt' = [debt EXCEPT ![level] = ReleaseAllocatedDebt(@)]
  /\ Goto("safe")
  /\ UNCHANGED <<intents, prot, closes, paid>>

StoppedDebt(h) ==
  AddConfirmedStopDebt(ReleaseAllocatedDebt(debt[h[1]]), prot[h].loss)

RecordRecoveryStopDebt ==
  /\ pc = "stop_debt"
  /\ debt' = IF debt[level].allocated = 0 THEN debt
             ELSE [debt EXCEPT ![level] = StoppedDebt(Recovery(level))]
  /\ Goto("safe")
  /\ UNCHANGED <<intents, prot, closes, paid>>

SettleTakeProfit ==
  /\ pc = "settle"
  /\ IF debt[level].allocated = 0 THEN UNCHANGED <<debt, paid>> /\ Goto("safe")
     ELSE \E realized \in Profits :
            /\ debt' = [debt EXCEPT ![level] = SettleRecoveryTakeProfit(@, realized)]
            /\ paid' = [paid EXCEPT ![level] = @ + PaidBy(debt[level], realized)]
            /\ Goto(IF debt'[level].remaining = 0 THEN "down" ELSE "safe")
  /\ UNCHANGED <<intents, prot, closes>>

-----------------------------------------------------------------------------
(* _make_perp_safe and the start *)

\* _apply_emergency_exit to the open hedge of a level; without one it changes nothing.
ApplyClose(l) ==
  \/ \E a \in {1, 2}, stillOpen \in BOOLEAN, loss \in Losses :
       LET h == <<l, a>> IN
       /\ prot[h].open
       /\ prot[h].loss + loss <= MaxLoss
       /\ prot' = [prot EXCEPT ![h] = [state |-> "ERROR", open |-> stillOpen,
                                       stopped |-> TRUE, loss |-> prot[h].loss + loss]]
  \/ (\A a \in {1, 2} : ~prot[<<l, a>>].open) /\ UNCHANGED prot

MakeSafe ==
  /\ pc = "safe"
  /\ \/ Goto("down") /\ UNCHANGED closes  \* flat, or the attempts have run out
     \/ Goto("safe_apply") /\ closes' = closes \cup {level}
  /\ UNCHANGED <<intents, prot, debt, paid>>

ApplyEmergencyExit ==
  /\ pc = "safe_apply"
  /\ ApplyClose(level)
  /\ Goto("safe")
  /\ UNCHANGED <<intents, closes, debt, paid>>

Boot ==
  /\ pc = "down"
  /\ pc' = "replay" /\ todo' = {<<l, 0>> : l \in closes} /\ level' = 1
  /\ UNCHANGED <<storeVars, paid>>

\* _apply_recorded_emergency_exits
ReplayClose ==
  /\ pc = "replay"
  /\ \E t \in todo : ApplyClose(t[1]) /\ todo' = todo \ {t}
  /\ UNCHANGED <<intents, closes, debt, pc, level, paid>>

ClosesReplayed ==
  /\ pc = "replay" /\ todo = {}
  /\ pc' = "repair"
  /\ todo' = {h \in Hedges : prot[h].state # "NONE"}
  /\ UNCHANGED <<storeVars, level, paid>>

\* _repair_recorded_d6_recovery_debts
NeedsRepairStopped(h) == \* fault: a hedge closed by the emergency path is not looked at
  /\ h[2] = 2 /\ prot[h].state = "CLOSED_STOP" /\ prot[h].loss > 0
  /\ debt[h[1]].row /\ debt[h[1]].allocated > 0
NeedsRepairAlways(h) == \* fault: not limited to debt that is still allocated
  h[2] = 2 /\ prot[h].state \in {"CLOSED_STOP", "ERROR"} /\ prot[h].loss > 0 /\ debt[h[1]].row
NeedsRepair(h) ==
  /\ h[2] = 2 /\ prot[h].state \in {"CLOSED_STOP", "ERROR"} /\ prot[h].loss > 0
  /\ debt[h[1]].row /\ debt[h[1]].allocated > 0

RepairDebt ==
  /\ pc = "repair"
  /\ \E h \in todo :
       /\ todo' = todo \ {h}
       /\ debt' = IF NeedsRepair(h) THEN [debt EXCEPT ![h[1]] = StoppedDebt(h)] ELSE debt
  /\ UNCHANGED <<intents, prot, closes, pc, level, paid>>

DebtsRepaired ==
  /\ pc = "repair" /\ todo = {}
  /\ Goto("admit")
  /\ UNCHANGED <<storeVars, paid>>

\* The start is admitted only when books and account agree that nothing is open.
IsNextLevel(l) ==
  /\ \A h \in intents : h[1] < l
  /\ l = 1 \/ \E h \in intents : h[1] = l - 1
BooksFlat == \A h \in Hedges : ~prot[h].open

Admit ==
  /\ pc = "admit"
  /\ BooksFlat
  /\ \E l \in Levels : IsNextLevel(l) /\ level' = l
  /\ pc' = "baseline"
  /\ UNCHANGED <<storeVars, todo, paid>>

-----------------------------------------------------------------------------

InCycle == {"baseline", "protect_baseline", "baseline_exit", "record", "plan", "persist",
            "allocate", "submit", "protect_recovery", "recovery_exit", "stop_debt", "settle",
            "release"}
InStart == {"replay", "repair", "admit"}
InSafe == {"safe", "safe_apply"}

\* An exception in the cycle runs _make_perp_safe.  submit_recovery releases the
\* allocation only for an exception of the submission, which SubmitRecovery takes.
Raise == pc \in InCycle /\ Goto("safe") /\ UNCHANGED <<storeVars, paid>>

\* A crash, or an exception where nothing catches it.
Crash ==
  /\ pc \in InCycle \cup InStart \cup InSafe
  /\ pc' = "down" /\ level' = 1 /\ todo' = {}
  /\ UNCHANGED <<storeVars, paid>>

Cycle ==
  \/ PersistBaseline \/ ProtectBaseline \/ ExitFill \/ CloseExit \/ RecordConfirmedStopDebt
  \/ PlanRecovery \/ PersistRecovery \/ AllocateDebt \/ SubmitRecovery \/ ProtectRecovery
  \/ ReleaseDebt \/ RecordRecoveryStopDebt \/ SettleTakeProfit

Start == Boot \/ ReplayClose \/ ClosesReplayed \/ RepairDebt \/ DebtsRepaired \/ Admit

Next == Cycle \/ Start \/ MakeSafe \/ ApplyEmergencyExit \/ Raise \/ Crash

Spec == Init /\ [][Next]_vars

-----------------------------------------------------------------------------
(* Properties *)

HedgeStates == {"NONE", "ACTIVE", "CLOSED_STOP", "CLOSED_TP", "ERROR"}

\* The types of the variables; no amount is ever negative.
TypeOK ==
  /\ intents \subseteq Hedges /\ closes \subseteq Levels
  /\ prot \in [Hedges -> [state : HedgeStates, open : BOOLEAN, stopped : BOOLEAN,
                          loss : 0 .. MaxLoss]]
  /\ debt \in [Levels -> [row : BOOLEAN, confirmed : Nat, allocated : Nat, remaining : Nat]]
  /\ pc \in InCycle \cup InStart \cup InSafe \cup {"down"}
  /\ level \in Levels /\ todo \subseteq Levels \X {0, 1, 2}
  /\ paid \in [Levels -> Nat]

\* __post_init__ of RecoveryDebtState never raises: through every allocation,
\* settlement, roll-back and repair, confirmed is allocated plus remaining.
DebtIsBalanced ==
  \A l \in Levels : debt[l].confirmed = debt[l].allocated + debt[l].remaining

\* A loss enters the debt at most once: over crashes, repairs and restarts, what
\* is confirmed and what was paid never exceed the losses of the two hedges.
LossCountsOnce ==
  \A l \in Levels :
    debt[l].confirmed + paid[l] <= prot[Baseline(l)].loss + prot[Recovery(l)].loss

\* Persistence first: debt is allocated only to a recovery whose entry intent is stored.
AllocationHasIntent ==
  \A l \in Levels : debt[l].allocated > 0 => Recovery(l) \in intents

\* When a start is admitted, the free debt of a level whose recovery is CLOSED_STOP with a
\* loss is the loss of its baseline and that loss, whichever of the cycle and the repair
\* rolled it; after an emergency close it is more than the loss of the baseline.  Nothing
\* is said of a recovery whose stop is booked and not closed: see StopLossBecomesDebt.
LossesAreRolled ==
  pc = "baseline" =>
    \A l \in Levels : prot[Recovery(l)].loss > 0 =>
      /\ prot[Recovery(l)].state = "CLOSED_STOP" =>
           debt[l].remaining = prot[Baseline(l)].loss + prot[Recovery(l)].loss
      /\ prot[Recovery(l)].state = "ERROR" => debt[l].remaining > prot[Baseline(l)].loss

\* Confirmed debt of a level falls only by what the take-profit of its recovery pays.
DebtFallsOnlyByTakeProfit ==
  [][\A l \in Levels : debt'[l].confirmed < debt[l].confirmed =>
       /\ prot[Recovery(l)].state = "CLOSED_TP"
       /\ debt[l].confirmed - debt'[l].confirmed <= debt[l].allocated
       /\ paid'[l] - paid[l] = debt[l].confirmed - debt'[l].confirmed]_vars

\* Plan 04, step 9: a stop execution creates confirmed recovery debt, here at the
\* latest when the next start is admitted.
StopLossBecomesDebt ==
  pc = "baseline" =>
    \A l \in Levels :
      debt[l].confirmed + paid[l] = prot[Baseline(l)].loss + prot[Recovery(l)].loss
=============================================================================
