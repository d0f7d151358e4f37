---------------------------- MODULE TradingControl ----------------------------
(***************************************************************************)
(* Who may open hedges: the multi-level coordinator that turns price       *)
(* crossings into entries, the durable kill switch it consults, and the    *)
(* operator commands that move the switch, close the strategy or flatten   *)
(* it.  All are tasks of one event loop; a task gives way at every awaited *)
(* port call, so each such call is one step.                               *)
(***************************************************************************)
EXTENDS Integers

CONSTANTS
  NumLevels,       \* number of levels; their IDs are contiguous from 1
  EntryPrice,      \* level -> entry_price, highest first
  Prices,          \* prices a trade event can show
  MaxGeneration,   \* bound: connection generations
  Commands,        \* operator command IDs
  HandlerOf,       \* command -> what its registered handler does
  Calls,           \* OperatorCommandService.execute calls in progress at once
  MaximumAttempts, \* maximum_attempts of the emergency executor
  MaxEnds          \* bound: crashes and runs ended by an exception

Levels == 1 .. NumLevels
Modes == {"RUNNING", "SOFT_PAUSE", "STRATEGY_CLOSE", "EMERGENCY_FLATTEN"}
Handlers == {"PAUSE", "RESUME", "CLOSE", "FLATTEN"}

ASSUME ControlConstants ==
  /\ NumLevels \in Nat \ {0}
  /\ Prices \subseteq Nat /\ EntryPrice \in [Levels -> Nat]
  /\ \A k, l \in Levels : k < l => EntryPrice[k] >= EntryPrice[l]
  /\ MaxGeneration \in Nat \ {0} /\ MaxEnds \in Nat
  /\ HandlerOf \in [Commands -> Handlers]
  /\ MaximumAttempts \in Nat \ {0}

Escalation ==
  [RUNNING |-> 0, SOFT_PAUSE |-> 1, STRATEGY_CLOSE |-> 2, EMERGENCY_FLATTEN |-> 3]

VARIABLES
  \* files
  switch,      \* the kill-switch file; version 0 before it exists
  records,     \* command -> "NONE", "INTENT" or "RESULT"
  \* the exchange
  airborne,    \* entry orders sent and not yet executed
  short,       \* the hedge position, in entries
  \* the process
  up, ends,
  generation, previous, armed, submitted, \* fields of MultiLevelCoordinator
  crossed,     \* crossed levels the loop of on_trigger has not reached
  cur,         \* the level whose submit_entry has not placed its order, or 0
  call,        \* the execute calls
  \* history
  seen,        \* the last price of this segment
  sent,        \* level -> orders this process placed for it
  since,       \* orders placed since the switch left RUNNING
  escaped,     \* entries past the gate when the switch left RUNNING
  handled,     \* command -> times its handler was invoked
  proved       \* the strategy was verified flat under the present activation

files == <<switch, records>>
exchange == <<airborne, short>>
coordinator == <<generation, previous, armed, submitted, crossed, cur>>
history == <<seen, sent, since, escaped, handled, proved>>
vars == <<files, exchange, up, ends, coordinator, call, history>>

NoPrice == -1
Idle == [pc |-> "idle", cmd |-> "none", version |-> 0, attempt |-> 1, flat |-> FALSE]
NoSwitch == [mode |-> "RUNNING", version |-> 0]

Init ==
  /\ switch = NoSwitch /\ records = [m \in Commands |-> "NONE"]
  /\ airborne = 0 /\ short = 0
  /\ up = FALSE /\ ends = 0
  /\ generation = 0 /\ previous = NoPrice /\ armed = {} /\ submitted = {}
  /\ crossed = {} /\ cur = 0
  /\ call = [c \in Calls |-> Idle]
  /\ seen = NoPrice /\ sent = [l \in Levels |-> 0] /\ since = 0 /\ escaped = 0
  /\ handled = [m \in Commands |-> 0] /\ proved = FALSE

-----------------------------------------------------------------------------
(* The process                                                               *)

\* KillSwitchController.initialize; one controller, so that its _state and the
\* file agree between two saves.
Initialized ==
  IF switch.version = 0 THEN [mode |-> "RUNNING", version |-> 1] ELSE switch

Start ==
  /\ ~up /\ up' = TRUE
  /\ switch' = Initialized
  /\ sent' = [l \in Levels |-> 0] /\ seen' = NoPrice
  /\ UNCHANGED <<records, exchange, ends, coordinator, call, since, escaped,
                 handled, proved>>

\* A crash, or an exception out of on_trigger, which ends the run: every task is
\* lost, files and orders remain.
End ==
  /\ up /\ ends < MaxEnds
  /\ up' = FALSE /\ ends' = ends + 1
  /\ generation' = 0 /\ previous' = NoPrice /\ armed' = {} /\ submitted' = {}
  /\ crossed' = {} /\ cur' = 0
  /\ call' = [c \in Calls |-> Idle]
  /\ UNCHANGED <<files, exchange, history>>

-----------------------------------------------------------------------------
(* MultiLevelCoordinator.on_trigger.  An event of another symbol or source,  *)
(* with unhealthy market data or of an older generation changes nothing.     *)

Waiting == up /\ cur = 0 /\ crossed = {}

\* _reset_segment: the first event, or the first of a later connection.
ResetSegment(p, g) ==
  /\ Waiting /\ g > generation
  /\ generation' = g /\ previous' = p
  /\ armed' = {l \in Levels \ submitted : p >= EntryPrice[l]}
  /\ seen' = p
  /\ UNCHANGED <<files, exchange, up, ends, submitted, crossed, cur, call,
                 sent, since, escaped, handled, proved>>

Rearmed(p) == armed \cup {l \in Levels \ submitted : p >= EntryPrice[l]}
Crossed(p) == {l \in Rearmed(p) : previous > EntryPrice[l] /\ p <= EntryPrice[l]}
PreviousHeld(p) == \* fault: a paused coordinator returns before it takes the price
  IF switch.mode = "RUNNING" THEN p ELSE previous
NextPrevious(p) == p

Trigger(p) ==
  /\ Waiting /\ generation > 0
  /\ armed' = Rearmed(p) /\ crossed' = Crossed(p) /\ previous' = NextPrevious(p)
  /\ seen' = p
  /\ UNCHANGED <<files, exchange, up, ends, generation, submitted, cur, call,
                 sent, since, escaped, handled, proved>>

\* One iteration of the loop over crossed levels, up to the await of
\* submit_entry.  The level is disarmed whatever comes of it.
GateForgotten == TRUE \* fault: the entry gate is not consulted
GateOpen == switch.mode = "RUNNING"

Reach(l) ==
  /\ up /\ cur = 0
  /\ l \in crossed /\ \A k \in crossed : l <= k
  /\ armed' = armed \ {l} /\ crossed' = crossed \ {l}

\* Blocked by the gate, by the preflight, by quantization or by the risk engine,
\* whose verdict is a free choice.
Block(l) ==
  /\ Reach(l)
  /\ UNCHANGED <<files, exchange, up, ends, generation, previous, submitted,
                 cur, call, history>>

WithSubmitted(l) == submitted \cup {l}

Admit(l) ==
  /\ Reach(l)
  /\ GateOpen /\ l \notin submitted
  /\ submitted' = WithSubmitted(l)
  /\ cur' = l
  /\ UNCHANGED <<files, exchange, up, ends, generation, previous, call, history>>

\* OneLevelEntryService.submit_entry places the order two transactions after the
\* gate was read; the loop goes on when it is acknowledged.
PlaceEntry ==
  /\ up /\ cur # 0 /\ cur' = 0
  /\ airborne' = airborne + 1
  /\ sent' = [sent EXCEPT ![cur] = @ + 1]
  /\ since' = IF switch.mode = "RUNNING" THEN since ELSE since + 1
  /\ UNCHANGED <<files, short, up, ends, generation, previous, armed, submitted,
                 crossed, call, seen, escaped, handled, proved>>

-----------------------------------------------------------------------------
(* The exchange (external)                                                   *)

Land ==
  /\ airborne > 0 /\ airborne' = airborne - 1 /\ short' = short + 1
  /\ UNCHANGED <<files, up, ends, coordinator, call, history>>

Vanish ==
  /\ airborne > 0 /\ airborne' = airborne - 1
  /\ UNCHANGED <<files, short, up, ends, coordinator, call, history>>

-----------------------------------------------------------------------------
(* OperatorCommandService.execute                                            *)

At(c, label) == up /\ call[c].pc = label
Goto(c, label) == call' = [call EXCEPT ![c].pc = label]
Return(c) == call' = [call EXCEPT ![c] = Idle]
Command(c) == call[c].cmd
Outside == <<exchange, up, ends, coordinator, seen, sent>>

\* The call of an authenticated operator; a denied one changes nothing.
Begin(c, m) ==
  /\ At(c, "idle")
  /\ call' = [call EXCEPT ![c] = [Idle EXCEPT !.pc = "load", !.cmd = m]]
  /\ UNCHANGED <<files, Outside, since, escaped, handled, proved>>

\* load_command and load_result: a known command is answered with its result
\* or refused because its outcome is unknown.
Startable(c) == records[Command(c)] = "NONE"
Load(c) ==
  /\ At(c, "load")
  /\ IF Startable(c) THEN Goto(c, "persist") ELSE Return(c)
  /\ UNCHANGED <<files, Outside, since, escaped, handled, proved>>

InsertedAnyway(c) == TRUE \* fault: persist_intent overwrites
Inserted(c) == records[Command(c)] = "NONE"
PersistIntent(c) ==
  /\ At(c, "persist")
  /\ IF Inserted(c)
     THEN records' = [records EXCEPT ![Command(c)] = "INTENT"] /\ Goto(c, "handler")
     ELSE Return(c) /\ UNCHANGED records
  /\ UNCHANGED <<switch, Outside, since, escaped, handled, proved>>

\* The result is stored, then the audit record; both are behind the handler.
Complete(c) ==
  /\ At(c, "complete")
  /\ records' = [records EXCEPT ![Command(c)] = "RESULT"] /\ Return(c)
  /\ UNCHANGED <<switch, Outside, since, escaped, handled, proved>>

-----------------------------------------------------------------------------
(* The handlers (their registration is external): SOFT_PAUSE activates,      *)
(* RESUME_AFTER_RECONCILIATION resets or, not reconciled, raises; a close    *)
(* runs StrategyCloseService.close and a flatten                             *)
(* EmergencyKillSwitchExecutor.execute                                       *)

Activates == [PAUSE |-> "SOFT_PAUSE", RESUME |-> "RUNNING", CLOSE |-> "STRATEGY_CLOSE",
              FLATTEN |-> "EMERGENCY_FLATTEN"]
Target(c) == Activates[HandlerOf[Command(c)]]

InHandler == {"save", "close", "verify", "confirm", "flatten", "confirm_again",
              "reconcile"}

\* Any awaited call of a handler may raise, and so may storing the result: the
\* command keeps its intent without a result.
Raise(c) ==
  /\ \E label \in InHandler \cup {"complete"} : At(c, label)
  /\ Return(c)
  /\ UNCHANGED <<files, Outside, since, escaped, handled, proved>>

\* activate and reset up to the save: an activation may not de-escalate.
MayMove(c) == Target(c) = "RUNNING" \/ Escalation[Target(c)] >= Escalation[switch.mode]
Handle(c) ==
  /\ At(c, "handler")
  /\ IF MayMove(c)
     THEN call' = [call EXCEPT ![c].pc = "save", ![c].version = switch.version]
     ELSE Return(c)
  /\ handled' = [handled EXCEPT ![Command(c)] = @ + 1]
  /\ UNCHANGED <<files, Outside, since, escaped, proved>>

\* FileKillSwitchStore.save, and the assignment of _state behind it.
UnchangedAssumed(c) == TRUE \* fault: the expected version is not compared
Unchanged(c) == switch.version = call[c].version

PastGate == IF cur # 0 THEN 1 ELSE 0
Leaving(c) == switch.mode = "RUNNING" /\ Target(c) # "RUNNING"

Save(c) ==
  /\ At(c, "save") /\ Unchanged(c)
  /\ switch' = [mode |-> Target(c), version |-> switch.version + 1]
  /\ Goto(c, IF Target(c) \in {"RUNNING", "SOFT_PAUSE"} THEN "complete"
             ELSE IF Target(c) = "STRATEGY_CLOSE" THEN "close" ELSE "confirm")
  /\ since' = IF Leaving(c) THEN 0 ELSE since
  /\ escaped' = IF Leaving(c) THEN airborne + PastGate ELSE escaped
  /\ proved' = (proved /\ switch.mode # "RUNNING" /\ Target(c) # "RUNNING")
  /\ UNCHANGED <<records, Outside, handled>>

\* A reduce-only market close executes in whole, in part or not at all.
SendClose ==
  /\ short' \in 0 .. short
  /\ UNCHANGED <<files, airborne, up, ends, coordinator, history>>

\* cancel_all twice, close_hedges and close_option_spread.  The cancellations
\* find no entry, because a market order never rests.
CloseStrategy(c) == At(c, "close") /\ SendClose /\ Goto(c, "verify")

\* A proof of flatness counts while the switch is as this call left it.
Prove(c, flat) ==
  proved' = (proved \/ (flat /\ switch.version = call[c].version + 1))

VerifyStrategyClosed(c) ==
  /\ At(c, "verify") /\ Goto(c, "complete")
  /\ Prove(c, short = 0)
  /\ UNCHANGED <<files, Outside, since, escaped, handled>>

\* One attempt of the emergency executor: confirm, else flatten and confirm
\* again, then reconcile.
FlatAfterClose(c) == call[c].pc = "confirm_again" \/ short = 0 \* fault: the close is taken for proof
FlatNow(c) == short = 0
ConfirmFlattened(c) ==
  /\ At(c, "confirm") \/ At(c, "confirm_again")
  /\ call' = [call EXCEPT ![c].flat = FlatNow(c),
              ![c].pc = IF FlatNow(c) \/ @ = "confirm_again" THEN "reconcile"
                        ELSE "flatten"]
  /\ UNCHANGED <<files, Outside, since, escaped, handled, proved>>

\* flatten_short; with no position it raises (Raise).
FlattenShort(c) ==
  At(c, "flatten") /\ short > 0 /\ SendClose /\ Goto(c, "confirm_again")

NextAttemptUncounted(c) == call[c].attempt \* fault: attempts are not counted
NextAttempt(c) == call[c].attempt + 1
Exhausted(c) == NextAttempt(c) > MaximumAttempts
ReconcileFlat(c) ==
  /\ At(c, "reconcile")
  /\ \E reconciled \in BOOLEAN :
       IF call[c].flat /\ reconciled
       THEN Goto(c, "complete") /\ Prove(c, TRUE)
       ELSE /\ IF Exhausted(c) THEN Return(c)
               ELSE call' = [call EXCEPT ![c].attempt = NextAttempt(c),
                                         ![c].pc = "confirm"]
            /\ UNCHANGED proved
  /\ UNCHANGED <<files, Outside, since, escaped, handled>>

-----------------------------------------------------------------------------
Coordinate ==
  \/ \E p \in Prices, g \in 1 .. MaxGeneration : ResetSegment(p, g)
  \/ \E p \in Prices : Trigger(p)
  \/ \E l \in Levels : Block(l) \/ Admit(l)
  \/ PlaceEntry

Exchange == Land \/ Vanish

\* What one execute call does once it has begun.
CallStep(c) ==
  \/ Load(c) \/ PersistIntent(c) \/ Handle(c) \/ Save(c)
  \/ CloseStrategy(c) \/ VerifyStrategyClosed(c) \/ ConfirmFlattened(c) \/ FlattenShort(c)
  \/ ReconcileFlat(c) \/ Complete(c) \/ Raise(c)

Next ==
  \/ Start \/ End \/ Coordinate \/ Exchange
  \/ \E c \in Calls : CallStep(c) \/ \E m \in Commands : Begin(c, m)

Spec == Init /\ [][Next]_vars

\* Every awaited call of a command returns or raises (REST calls have a
\* deadline, files and the store are local), and the event loop resumes it.
FairSpec == Spec /\ \A c \in Calls : WF_vars(CallStep(c))

-----------------------------------------------------------------------------
(* Properties                                                                *)

Labels == {"idle", "load", "persist", "handler", "complete"} \cup InHandler
CallStates == [pc : Labels, cmd : Commands \cup {"none"}, version : Nat,
               attempt : 1 .. MaximumAttempts, flat : BOOLEAN]

\* Every variable has its type, and a process that is down has no task.
TypeOK ==
  /\ switch \in [mode : Modes, version : Nat]
  /\ records \in [Commands -> {"NONE", "INTENT", "RESULT"}]
  /\ airborne \in Nat /\ short \in Nat
  /\ up \in BOOLEAN /\ ends \in 0 .. MaxEnds
  /\ generation \in 0 .. MaxGeneration /\ previous \in Prices \cup {NoPrice}
  /\ armed \subseteq Levels /\ submitted \subseteq Levels /\ crossed \subseteq Levels
  /\ cur \in Levels \cup {0}
  /\ call \in [Calls -> CallStates]
  /\ seen \in Prices \cup {NoPrice}
  /\ sent \in [Levels -> Nat] /\ since \in Nat /\ escaped \in Nat
  /\ handled \in [Commands -> Nat] /\ proved \in BOOLEAN
  /\ ~up => cur = 0 /\ crossed = {} /\ \A c \in Calls : call[c] = Idle

\* MultiLevelCoordinator places at most one entry order per level, over every
\* reconnection, re-arming, pause and resumption of its life.
OneEntryPerLevel == \A l \in Levels : sent[l] <= 1

\* An entry answers the crossing between the last two prices of one segment:
\* a crossing consumed under a pause is never made up for, and none is inferred
\* across a reconnection (multi_level_execution.py, on_trigger).
EntryAnswersItsCrossing ==
  [][\A l \in crossed' \ crossed : seen > EntryPrice[l] /\ seen' <= EntryPrice[l]]_vars

\* Once the kill switch has left RUNNING, at most the one entry that had already
\* passed the gate still goes out, however many levels the tick crossed.
PauseStopsEntries == switch.mode # "RUNNING" => since <= 1

\* The durable mode falls only by a reset saved over the very state it read: not
\* by a late activation, a concurrent command or a restart (kill_switch.py).
SwitchOnlyEscalates ==
  [][Escalation[switch'.mode] < Escalation[switch.mode] =>
       \E c \in Calls : /\ At(c, "save") /\ call'[c] # call[c]
                        /\ Target(c) = "RUNNING"
                        /\ call[c].version = switch.version]_vars

\* A handler is invoked at most once for a command ID, over duplicates,
\* concurrent calls, retries and crashes (operator_commands.py, execute).
CommandRunsOnce == \A m \in Commands : handled[m] <= 1

\* After a verified close or flatten, and until the switch is reset, the only
\* exposure that can come back is of entries past the gate at the activation.
ProvedFlatStaysFlat ==
  proved /\ switch.mode # "RUNNING"
    => short + airborne + PastGate <= escaped

\* Every command call ends: the emergency executor's loop is bounded, and no
\* call waits for another.
CallsEnd == \A c \in Calls : call[c].pc # "idle" ~> call[c].pc = "idle"
=============================================================================
