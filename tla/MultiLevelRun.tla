---------------------------- MODULE MultiLevelRun ----------------------------
(***************************************************************************)
(* The D5 cycle: several levels short on one net position.  Each level has *)
(* an entry, a stop and a take-profit of its own on the exchange, but the  *)
(* exchange keeps one position for all of them, so the exit of one level   *)
(* can reduce what another level holds, and every check of a level against *)
(* the exchange is a check of the sum.                                     *)
(*                                                                         *)
(* A step is one awaited exchange call together with the store             *)
(* transactions that follow it; only the runner writes the store.  What    *)
(* happens after an exception is the emergency path of LevelExecution.     *)
(***************************************************************************)
EXTENDS Integers, FiniteSetsExt, Functions

CONSTANTS
  RunLevels,   \* number of levels, 1 the highest entry price (2 in the code)
  LevelLots,   \* lots ordered per level
  FillAttempts \* fill_attempts of the lifecycle service

ASSUME RunConstants ==
  /\ RunLevels \in Nat \ {0} /\ LevelLots \in Nat \ {0} /\ FillAttempts \in Nat \ {0}

LevelIds == 1 .. RunLevels
ExitRoles == {"STOP", "TP"}
LevelRoles == {"ENTRY"} \cup ExitRoles

VARIABLES
  \* the exchange
  orders,      \* level -> role -> "NONE", "OPEN" or "DONE"
  done,        \* level -> role -> lots executed
  published,   \* level -> role -> lots get_execution_history returns
  missed,      \* levels whose triggered stop has left part of the position open
  \* the store
  booked,      \* level -> role -> lots recorded
  entries,     \* level -> state of its entry snapshot
  protections, \* level -> state of its protection snapshot
  \* the runner
  step, polls,
  batch,       \* levels crossed by the present trade and not yet protected
  closing,     \* the level whose exit is awaited
  targets      \* its exit orders seen working

exchangeSide == <<orders, done, published, missed>>
storeSide == <<booked, entries, protections>>
runnerSide == <<step, polls, batch, closing, targets>>
runVars == <<exchangeSide, storeSide, runnerSide>>

PerRole(v) == [l \in LevelIds |-> [r \in LevelRoles |-> v]]

RunInit ==
  /\ orders = PerRole("NONE") /\ done = PerRole(0) /\ published = PerRole(0) /\ missed = {}
  /\ booked = PerRole(0)
  /\ entries = [l \in LevelIds |-> "NONE"] /\ protections = [l \in LevelIds |-> "NONE"]
  /\ step = "trade" /\ polls = 0 /\ batch = {} /\ closing = 1 /\ targets = {}

-----------------------------------------------------------------------------
(* The exchange (external) *)

Exited(d, l) == d[l]["STOP"] + d[l]["TP"]
NetPosition ==
  SumFunctionOnSet([l \in LevelIds |-> done[l]["ENTRY"] - Exited(done, l)], LevelIds)

\* A stop or a take-profit is placed for what its level has booked.
Ordered(l, r) == IF r = "ENTRY" THEN LevelLots ELSE booked[l]["ENTRY"]

\* Exits are reduce-only: they execute against whatever is left of the position.
Execute(l, r) ==
  /\ orders[l][r] = "OPEN"
  /\ r \in ExitRoles => NetPosition > 0
  /\ done' = [done EXCEPT ![l][r] = @ + 1]
  /\ orders' = [orders EXCEPT ![l][r] = IF done'[l][r] = Ordered(l, r) THEN "DONE" ELSE @]
  /\ UNCHANGED <<published, missed, storeSide, runnerSide>>

\* A market order, an entry or a triggered stop, drops what it cannot fill; with nothing
\* to reduce an exit is removed.
Remove(l, r) ==
  /\ orders[l][r] = "OPEN"
  /\ r # "TP" \/ NetPosition = 0
  /\ orders' = [orders EXCEPT ![l][r] = "DONE"]
  /\ missed' = missed \cup (IF r = "STOP" /\ NetPosition # 0 THEN {l} ELSE {})
  /\ UNCHANGED <<done, published, storeSide, runnerSide>>

PublishExecutions ==
  /\ published # done
  /\ published' = done
  /\ UNCHANGED <<orders, done, missed, storeSide, runnerSide>>

ExchangeMoves ==
  \/ \E l \in LevelIds, r \in LevelRoles : Execute(l, r) \/ Remove(l, r)
  \/ PublishExecutions

-----------------------------------------------------------------------------
(* Entries *)

GoTo(label) == step' = label /\ polls' = 0 /\ UNCHANGED <<batch, closing, targets>>
PollForever(label) == GoTo(label) \* fault: the attempts are not counted
PollAgain(label) ==
  /\ step' = IF polls + 1 < FillAttempts THEN label ELSE "raised"
  /\ polls' = polls + 1
  /\ UNCHANGED <<batch, closing, targets>>

Submitted == {l \in LevelIds : entries[l] # "NONE"}
Unsubmitted == LevelIds \ Submitted

\* A trade at or below the entry prices of the next levels crosses all of them.
CrossLevels(k) ==
  /\ step = "trade" /\ k \in Unsubmitted
  /\ batch' = {l \in Unsubmitted : l <= k}
  /\ step' = "submit"
  /\ UNCHANGED <<exchangeSide, storeSide, polls, closing, targets>>

\* _run_multiple_perp_cycle waits 90 seconds for the crossings.
WaitForCrossingEnds == step = "trade" /\ GoTo("raised") /\ UNCHANGED <<exchangeSide, storeSide>>

\* on_trigger submits the crossed levels one by one before it returns.
SubmitEntry ==
  /\ step = "submit"
  /\ LET l == Min(batch \cap Unsubmitted)
     IN  /\ orders' = [orders EXCEPT ![l]["ENTRY"] = "OPEN"]
         /\ entries' = [entries EXCEPT ![l] = "ENTRY_ACKNOWLEDGED"]
         /\ GoTo(IF l = Max(batch) THEN "fill" ELSE "submit")
  /\ UNCHANGED <<done, published, missed, booked, protections>>

\* One poll of await_entry_fill: book the executions, then look at the order.  A
\* fill between the two reads makes them differ, like one not yet published.
AwaitEntryFill ==
  /\ step = "fill"
  /\ LET l == Min({m \in batch : entries[m] = "ENTRY_ACKNOWLEDGED"})
         lots == published[l]["ENTRY"]
         ended == orders[l]["ENTRY"] = "DONE" /\ done[l]["ENTRY"] = lots
     IN  /\ booked' = [booked EXCEPT ![l]["ENTRY"] = lots]
         /\ \/ /\ lots = LevelLots \/ (ended /\ lots > 0)
               /\ entries' = [entries EXCEPT ![l] = "ACTIVE_UNPROTECTED"]
               /\ GoTo(IF l = Max(batch) THEN "aggregate" ELSE "fill")
            \/ /\ ended /\ lots = 0
               /\ GoTo("raised") /\ UNCHANGED entries
            \/ /\ lots < LevelLots /\ ~ended
               /\ PollAgain("fill") /\ UNCHANGED entries
  /\ UNCHANGED <<exchangeSide, protections>>

\* reconcile_aggregate_position compares the position with everything entered, so
\* an earlier level that has already left the market fails it.
EnteredLots == SumFunctionOnSet([l \in LevelIds |-> booked[l]["ENTRY"]], Submitted)
ReconcileAggregate ==
  /\ step = "aggregate"
  /\ IF NetPosition = EnteredLots
     THEN GoTo("install") /\ UNCHANGED entries
     ELSE /\ entries' = [l \in LevelIds |-> IF l \in Submitted THEN "RECONCILING" ELSE entries[l]]
          /\ GoTo("raised")
  /\ UNCHANGED <<exchangeSide, booked, protections>>

\* install_stop and install_take_profit of the batch's next level: the order is
\* confirmed working, or the snapshot is left in doubt and the call raises.
NextExit(l) == IF protections[l] = "NONE" THEN "STOP" ELSE "TP"
InstallExit ==
  /\ step = "install"
  /\ LET l == Min(batch)
         r == NextExit(l)
         rest == IF r = "TP" THEN batch \ {l} ELSE batch
     IN  \/ /\ orders' = [orders EXCEPT ![l][r] = "OPEN"]
            /\ protections' = [protections EXCEPT ![l] = "ACTIVE_PROTECTED"]
            /\ batch' = rest
            /\ step' = IF rest # {} THEN "install"
                       ELSE IF Unsubmitted # {} THEN "trade" ELSE "verify"
         \/ /\ orders' \in {orders, [orders EXCEPT ![l][r] = "OPEN"]}
            /\ protections' = [protections EXCEPT ![l] = "RECONCILING"]
            /\ step' = "raised" /\ UNCHANGED batch
  /\ UNCHANGED <<done, published, missed, booked, entries, polls, closing, targets>>

-----------------------------------------------------------------------------
(* Exits *)

OpenQuantity(l) == booked[l]["ENTRY"] - Exited(booked, l)

\* aggregate_protection_position_matches
AggregateMatches ==
  NetPosition = SumFunctionOnSet([l \in LevelIds |-> OpenQuantity(l)],
                                 {l \in LevelIds : protections[l] # "NONE"})

\* The protected position, the restart and the end are checked; a reconciliation
\* that finds another difference raises (RunRaises).
CheckAggregate(label, next) ==
  /\ step = label
  /\ GoTo(IF AggregateMatches /\ (label = "final" => NetPosition = 0) THEN next ELSE "raised")
  /\ UNCHANGED <<exchangeSide, storeSide>>

VerifyProtected == CheckAggregate("verify", "restart")
ReconcileRestart == CheckAggregate("restart", "amend")
ReconcileFinal == CheckAggregate("final", "done")

\* The take-profit is made marketable; an unknown or uncertain outcome is ignored.
AmendTakeProfit ==
  /\ step = "amend"
  /\ GoTo("poll")
  /\ UNCHANGED <<exchangeSide, storeSide>>

\* One poll of await_exit.  Executions beyond what the level holds raise after
\* those before them have been booked.
Bookings(l) ==
  {b \in [ExitRoles -> 0 .. LevelLots] :
     /\ \A r \in ExitRoles : b[r] \in booked[l][r] .. published[l][r]
     /\ b["STOP"] + b["TP"] = Min({booked[l]["ENTRY"], Exited(published, l)})}

AwaitExit ==
  /\ step = "poll"
  /\ \E b \in Bookings(closing) :
       LET l == closing
           open == booked[l]["ENTRY"] - b["STOP"] - b["TP"]
           fresh == \E r \in ExitRoles : b[r] # booked[l][r]
           state == IF ~fresh THEN protections[l]
                    ELSE IF open = 0 THEN "CANCEL_PENDING" ELSE "EXIT_PARTIALLY_FILLED"
       IN  /\ booked' = [booked EXCEPT ![l]["STOP"] = b["STOP"], ![l]["TP"] = b["TP"]]
           /\ protections' = [protections EXCEPT ![l] = state]
           /\ \/ Exited(published, l) > booked[l]["ENTRY"] /\ GoTo("raised")
              \/ /\ Exited(published, l) <= booked[l]["ENTRY"]
                 /\ IF state = "CANCEL_PENDING"
                    THEN step' = "list" /\ UNCHANGED <<polls, batch, closing, targets>>
                    ELSE PollAgain("poll")
  /\ UNCHANGED <<exchangeSide, entries>>

\* reconcile_after_exit: list, cancel, list again, read the position.
OwnWorking(l) == {<<l, r>> : r \in {s \in ExitRoles : orders[l][s] = "OPEN"}}
AllWorking(l) == \* fault: the listed orders are not filtered by the level's own IDs
  UNION {{<<m, r>> : r \in {s \in ExitRoles : orders[m][s] = "OPEN"}} : m \in LevelIds}
ExitsToCancel(l) == OwnWorking(l)

ListExits ==
  /\ step \in {"list", "relist"}
  /\ targets' = IF step = "list" THEN ExitsToCancel(closing) ELSE OwnWorking(closing)
  /\ step' = IF step = "list" THEN "cancel" ELSE "settle"
  /\ UNCHANGED <<exchangeSide, storeSide, polls, batch, closing>>

\* An acknowledged or uncertain cancel may leave the order working; an order that is
\* gone is an error nobody catches here.
CancelListed ==
  /\ step = "cancel"
  /\ \/ /\ targets = {}
        /\ step' = "relist" /\ UNCHANGED <<orders, targets>>
     \/ \E t \in targets :
          /\ targets' = targets \ {t}
          /\ IF orders[t[1]][t[2]] = "OPEN"
             THEN /\ orders' \in {orders, [orders EXCEPT ![t[1]][t[2]] = "DONE"]}
                  /\ UNCHANGED step
             ELSE step' = "raised" /\ UNCHANGED orders
  /\ UNCHANGED <<done, published, missed, storeSide, polls, batch, closing>>

OwnOrdersGone(l) == targets = {} \* fault: only the open orders are looked at
Explained(l) == targets = {} /\ AggregateMatches
Terminal(l) == IF booked[l]["STOP"] > 0 THEN "CLOSED_STOP" ELSE "CLOSED_TP"

SettleExit ==
  /\ step = "settle"
  /\ IF Explained(closing)
     THEN /\ protections' = [protections EXCEPT ![closing] = Terminal(closing)]
          /\ closing' = Min({closing + 1, RunLevels})
          /\ step' = IF closing = RunLevels THEN "final" ELSE "amend"
          /\ polls' = 0 /\ targets' = {} /\ UNCHANGED batch
     ELSE /\ protections' = [protections EXCEPT ![closing] = "RECONCILING"]
          /\ PollAgain("poll")
  /\ UNCHANGED <<exchangeSide, booked, entries>>

-----------------------------------------------------------------------------
\* Any awaited call can raise, and a level can be blocked; _make_perp_safe takes over.
RunRaises ==
  /\ step \notin {"done", "raised"}
  /\ GoTo("raised")
  /\ UNCHANGED <<exchangeSide, storeSide>>

RunnerMoves ==
  \/ \E k \in LevelIds : CrossLevels(k)
  \/ WaitForCrossingEnds
  \/ SubmitEntry \/ AwaitEntryFill \/ ReconcileAggregate \/ InstallExit
  \/ VerifyProtected \/ ReconcileRestart \/ AmendTakeProfit \/ AwaitExit
  \/ ListExits \/ CancelListed \/ SettleExit \/ ReconcileFinal

RunNext == ExchangeMoves \/ RunnerMoves \/ RunRaises
\* asyncio resumes the runner after every call, every call returns or raises, and the
\* wait for a crossing is bounded.
RunFairness == WF_runVars(RunnerMoves)
RunSpec == RunInit /\ [][RunNext]_runVars /\ RunFairness

-----------------------------------------------------------------------------
(* Properties *)

\* A level that is recorded as closed has left the exchange exactly once: the exits that
\* executed for it add up to its entry and are all booked, the recorded exit is the one
\* that happened, and none of its orders can execute any more.  The exits of the other
\* levels, which move the same net position, never hide or stand in for its own.
ClosedLevelIsExplained ==
  \A l \in LevelIds : protections[l] \in {"CLOSED_TP", "CLOSED_STOP"} =>
    /\ Exited(done, l) = done[l]["ENTRY"]
    /\ booked[l] = done[l]
    /\ protections[l] = "CLOSED_TP" => done[l]["STOP"] = 0
    /\ \A r \in LevelRoles : orders[l][r] # "OPEN"

\* What the working stops would buy back.
StoppedLots ==
  SumFunctionOnSet([l \in LevelIds |-> Ordered(l, "STOP") - done[l]["STOP"]],
                   {l \in LevelIds : orders[l]["STOP"] = "OPEN"})

\* What the levels hold whose own stop left part of the position.
MissedLots == SumFunctionOnSet([l \in LevelIds |-> done[l]["ENTRY"] - Exited(done, l)], missed)

\* Between the entries of one trade and those of the next, and while the exits are
\* awaited, no more is held than the working stops would buy back, but for what a triggered
\* stop, a market order, itself left of its level: closing one level never takes away the
\* protection of another, and a crossing of two levels protects both.
EveryLotHasItsStop ==
  step \notin {"submit", "fill", "aggregate", "install", "raised"} /\ NetPosition > 0
    => NetPosition <= StoppedLots + MissedLots

\* A level that holds lots without a working stop does not stay so: it gets its stop, its
\* lots are bought back, or the cycle is handed to the emergency path.  Neither waiting
\* for the fills of the other levels of its batch, an execution history that lags or an
\* entry that stays partly filled, nor what its own triggered stop has left, to which the
\* runner answers with no other stop, keeps it bare for ever.
Bare(l) == done[l]["ENTRY"] > Exited(done, l) /\ orders[l]["STOP"] # "OPEN"
FilledLevelIsAnswered ==
  \A l \in LevelIds : Bare(l) ~> (~Bare(l) \/ NetPosition = 0 \/ step = "raised")
=============================================================================
