------------------------- MODULE TradingControlProofs -------------------------
(***************************************************************************)
(* For any number of levels, operators and commands, and any handlers: a   *)
(* level is entered once and answers a crossing it saw, a command is       *)
(* handled once, the kill switch falls only by a reset of the state that   *)
(* the reset read, a pause lets one entry at most go out, and what was     *)
(* verified flat stays flat but for the entries past the gate.  For any    *)
(* number of entered levels and any lots: a closed level has left exactly  *)
(* once, and closing one takes no protection from another.                 *)
(***************************************************************************)
EXTENDS TradingControl, MultiLevelRun, SumTheorems, TLAPS

\* The coordinator's memory covers what it has placed or is about to place.
EntryInv ==
  /\ OneEntryPerLevel
  /\ up => \A l \in Levels : sent[l] > 0 => l \in submitted
  /\ cur # 0 => cur \in submitted /\ sent[cur] = 0

\* Whoever is at a handler owns the command's intent, alone, and the handler has
\* not been invoked.
CommandInv ==
  /\ CommandRunsOnce
  /\ \A m \in Commands : records[m] = "NONE" => handled[m] = 0
  /\ \A c \in Calls : call[c].pc # "idle" => call[c].cmd \in Commands
  /\ \A c \in Calls : call[c].pc = "handler" =>
       records[call[c].cmd] # "NONE" /\ handled[call[c].cmd] = 0
  /\ \A c, d \in Calls :
       call[c].pc = "handler" /\ call[d].pc = "handler" /\ call[c].cmd = call[d].cmd
         => c = d

\* A save whose expected version is still the file's has passed the escalation
\* check against the file's mode.
SwitchInv ==
  /\ switch.version = 0 => switch.mode = "RUNNING"
  /\ \A c \in Calls : call[c].pc = "save" =>
       /\ call[c].version <= switch.version
       /\ call[c].version = switch.version => MayMove(c)

\* The coordinator's previous price is the last one of its segment.
SegmentInv ==
  /\ up => previous = seen
  /\ ~up => previous = NoPrice

\* Out of RUNNING, an entry behind the gate is the one that may still go out.
PauseInv == switch.mode # "RUNNING" => since + PastGate <= 1

\* What can still become a position, and the position itself.
Exposure == short + airborne + PastGate

\* The labels of the emergency executor's attempt, all behind its save.
Attempting == {"confirm", "flatten", "confirm_again", "reconcile"}

\* Out of RUNNING no entry is added to those that escaped.  So a proof of flatness
\* bounds the exposure by them, and so does a confirmation that waits to be
\* reconciled, as long as no other command has moved the switch.
FlatInv ==
  /\ switch.mode # "RUNNING" => airborne + PastGate <= escaped
  /\ ProvedFlatStaysFlat
  /\ \A c \in Calls : call[c].pc \in Attempting => call[c].version < switch.version
  /\ \A c \in Calls :
       /\ call[c].pc = "reconcile" /\ call[c].flat
       /\ switch.version = call[c].version + 1 /\ switch.mode # "RUNNING"
       => Exposure <= escaped

-----------------------------------------------------------------------------
(* What a step does to the execute calls                                     *)

\* Only call c changes.
Only(c) ==
  call' \in [Calls -> CallStates] /\ \A d \in Calls \ {c} : call'[d] = call[d]

LEMMA IdleIsState == Idle \in CallStates /\ Idle.pc = "idle"
BY ControlConstants DEF Idle, CallStates, Labels

LEMMA GotoFacts ==
  ASSUME call \in [Calls -> CallStates], NEW c \in Calls, NEW label \in Labels,
         Goto(c, label)
  PROVE  /\ Only(c) /\ call'[c].pc = label
         /\ call'[c].cmd = call[c].cmd /\ call'[c].version = call[c].version
<1>1. call' = [call EXCEPT ![c] = [call[c] EXCEPT !.pc = label]]
  BY DEF Goto
<1>2. call[c] \in CallStates
  OBVIOUS
<1>3. [call[c] EXCEPT !.pc = label] \in CallStates
  BY <1>2 DEF CallStates
<1> QED BY <1>1, <1>2, <1>3 DEF Only, CallStates

LEMMA ReturnFacts ==
  ASSUME call \in [Calls -> CallStates], NEW c \in Calls, Return(c)
  PROVE  Only(c) /\ call'[c].pc = "idle"
BY IdleIsState DEF Return, Only

\* A step of c that neither enters a handler nor reads the switch, and leaves the
\* records, the switch and the count of invocations alone.
Quiet(c) ==
  /\ Only(c)
  /\ call'[c].pc \notin {"handler", "save"}
  /\ call'[c].pc # "idle" => call'[c].cmd \in Commands
  /\ UNCHANGED <<records, switch, handled>>

LEMMA QuietSteps ==
  ASSUME call \in [Calls -> CallStates], CommandInv, NEW c \in Calls,
         \/ Load(c) \/ CloseStrategy(c) \/ VerifyStrategyClosed(c)
         \/ ConfirmFlattened(c) \/ FlattenShort(c) \/ ReconcileFlat(c) \/ Raise(c)
         \/ \E m \in Commands : Begin(c, m)
  PROVE  Quiet(c)
<1>0. call[c] \in CallStates /\ (call[c].pc # "idle" => call[c].cmd \in Commands)
  BY DEF CommandInv
<1>1. CASE \E m \in Commands : Begin(c, m)
  <2>1. PICK m \in Commands : Begin(c, m)
    BY <1>1
  <2>2. [Idle EXCEPT !.pc = "load", !.cmd = m] \in CallStates
    BY IdleIsState DEF CallStates, Labels
  <2>3. /\ call' = [call EXCEPT ![c] = [Idle EXCEPT !.pc = "load", !.cmd = m]]
        /\ UNCHANGED <<records, switch, handled>>
    BY <2>1 DEF Begin, files
  <2> QED BY <2>2, <2>3 DEF Quiet, Only, Idle
<1>2. CASE Load(c)
  <2>1. UNCHANGED <<records, switch, handled>> /\ call[c].pc = "load"
    BY <1>2 DEF Load, files, At
  <2>2. CASE Goto(c, "persist")
    BY <1>0, <2>1, <2>2, GotoFacts DEF Quiet, Labels
  <2>3. CASE Return(c)
    BY <2>1, <2>3, ReturnFacts DEF Quiet
  <2> QED BY <1>2, <2>2, <2>3 DEF Load
<1>3. CASE CloseStrategy(c)
  <2>1. /\ UNCHANGED <<records, switch, handled>> /\ call[c].pc = "close"
        /\ Goto(c, "verify")
    BY <1>3 DEF CloseStrategy, SendClose, files, history, At
  <2> QED BY <1>0, <2>1, GotoFacts DEF Quiet, Labels, InHandler
<1>4. CASE VerifyStrategyClosed(c)
  <2>1. /\ UNCHANGED <<records, switch, handled>> /\ call[c].pc = "verify"
        /\ Goto(c, "complete")
    BY <1>4 DEF VerifyStrategyClosed, files, At
  <2> QED BY <1>0, <2>1, GotoFacts DEF Quiet, Labels
<1>5. CASE FlattenShort(c)
  <2>1. /\ UNCHANGED <<records, switch, handled>> /\ call[c].pc = "flatten"
        /\ Goto(c, "confirm_again")
    BY <1>5 DEF FlattenShort, SendClose, files, history, At
  <2> QED BY <1>0, <2>1, GotoFacts DEF Quiet, Labels, InHandler
<1>6. CASE Raise(c)
  <2>1. UNCHANGED <<records, switch, handled>> /\ Return(c)
    BY <1>6 DEF Raise, files
  <2> QED BY <2>1, ReturnFacts DEF Quiet
<1>7. CASE ConfirmFlattened(c)
  <2> DEFINE next == IF FlatNow(c) \/ call[c].pc = "confirm_again" THEN "reconcile"
                     ELSE "flatten"
             state == [call[c] EXCEPT !.flat = FlatNow(c), !.pc = next]
  <2>1. /\ UNCHANGED <<records, switch, handled>>
        /\ call[c].pc \in {"confirm", "confirm_again"}
        /\ call' = [call EXCEPT ![c] = state]
    BY <1>7 DEF ConfirmFlattened, files, At
  <2>2. FlatNow(c) \in BOOLEAN
    BY DEF FlatNow
  <2>3. next \in {"reconcile", "flatten"}
    OBVIOUS
  <2>4. state \in CallStates /\ state.pc = next /\ state.cmd = call[c].cmd
    <3> HIDE DEF next
    <3> QED BY <1>0, <2>2, <2>3 DEF CallStates, Labels, InHandler
  <2> HIDE DEF state, next
  <2> QED BY <1>0, <2>1, <2>3, <2>4 DEF Quiet, Only
<1>8. CASE ReconcileFlat(c)
  <2>1. UNCHANGED <<records, switch, handled>> /\ call[c].pc = "reconcile"
    BY <1>8 DEF ReconcileFlat, files, At
  <2>2. CASE Goto(c, "complete")
    BY <1>0, <2>1, <2>2, GotoFacts DEF Quiet, Labels
  <2>3. CASE Return(c)
    BY <2>1, <2>3, ReturnFacts DEF Quiet
  <2>4. CASE ~Exhausted(c) /\ call' = [call EXCEPT ![c].attempt = NextAttempt(c),
                                                   ![c].pc = "confirm"]
    <3> DEFINE state == [call[c] EXCEPT !.attempt = NextAttempt(c), !.pc = "confirm"]
    <3>1. call' = [call EXCEPT ![c] = state]
      BY <2>4
    <3>2. NextAttempt(c) \in 1 .. MaximumAttempts
      BY <1>0, <2>4, ControlConstants DEF Exhausted, NextAttempt, CallStates
    <3>3. state \in CallStates /\ state.pc = "confirm" /\ state.cmd = call[c].cmd
      BY <1>0, <3>2 DEF CallStates, Labels, InHandler
    <3> HIDE DEF state
    <3> QED BY <1>0, <2>1, <3>1, <3>3 DEF Quiet, Only
  <2> QED BY <1>8, <2>2, <2>3, <2>4 DEF ReconcileFlat
<1> QED BY <1>1, <1>2, <1>3, <1>4, <1>5, <1>6, <1>7, <1>8

\* What the steps outside the execute calls leave alone.
LEMMA OtherSteps ==
  ASSUME Coordinate \/ Exchange
  PROVE  UNCHANGED <<files, ends, up, call, escaped, handled, proved>>
BY DEF Coordinate, Exchange, ResetSegment, Trigger, Block, Admit, Reach, PlaceEntry,
       Land, Vanish, history

-----------------------------------------------------------------------------
(* The steps of a call that do more                                          *)

Inv == TypeOK /\ EntryInv /\ CommandInv /\ SwitchInv

LEMMA TargetIsMode ==
  ASSUME NEW c \in Calls, call[c].cmd \in Commands
  PROVE  Target(c) \in Modes
<1>1. HandlerOf[call[c].cmd] \in Handlers
  BY ControlConstants
<1> QED BY <1>1 DEF Target, Command, Activates, Handlers, Modes

LEMMA EscalationIsNat == \A mode \in Modes : Escalation[mode] \in Nat
BY DEF Escalation, Modes

\* Of the execute calls, only Save moves the switch, only PersistIntent enters a
\* handler, and only Handle reads the switch.
LEMMA PersistFacts ==
  ASSUME Inv, NEW c \in Calls, PersistIntent(c)
  PROVE  /\ Only(c) /\ UNCHANGED <<switch, handled>>
         /\ \/ call'[c].pc = "idle" /\ UNCHANGED records
            \/ /\ call[c].pc = "persist" /\ call'[c].pc = "handler"
               /\ call'[c].cmd = call[c].cmd
               /\ records[call[c].cmd] = "NONE"
               /\ records' = [records EXCEPT ![call[c].cmd] = "INTENT"]
<1>1. /\ call[c].pc = "persist" /\ UNCHANGED <<switch, handled>>
      /\ call \in [Calls -> CallStates]
  BY DEF PersistIntent, At, Inv, TypeOK
<1>2. CASE Inserted(c)
  <2>1. Goto(c, "handler") /\ records' = [records EXCEPT ![call[c].cmd] = "INTENT"]
    BY <1>2 DEF PersistIntent, Command
  <2>2. records[call[c].cmd] = "NONE"
    BY <1>2 DEF Inserted, Command
  <2> QED BY <1>1, <2>1, <2>2, GotoFacts DEF Labels
<1>3. CASE ~Inserted(c)
  <2>1. Return(c) /\ UNCHANGED records
    BY <1>3 DEF PersistIntent
  <2> QED BY <1>1, <2>1, ReturnFacts
<1> QED BY <1>2, <1>3

LEMMA CompleteFacts ==
  ASSUME Inv, NEW c \in Calls, Complete(c)
  PROVE  /\ Only(c) /\ call'[c].pc = "idle" /\ UNCHANGED <<switch, handled>>
         /\ records' = [records EXCEPT ![call[c].cmd] = "RESULT"]
<1>1. /\ Return(c) /\ UNCHANGED <<switch, handled>>
      /\ call \in [Calls -> CallStates]
      /\ records' = [records EXCEPT ![call[c].cmd] = "RESULT"]
  BY DEF Complete, Inv, TypeOK, Command
<1> QED BY <1>1, ReturnFacts

LEMMA HandleFacts ==
  ASSUME Inv, NEW c \in Calls, Handle(c)
  PROVE  /\ Only(c) /\ UNCHANGED <<switch, records>> /\ call[c].pc = "handler"
         /\ handled' = [handled EXCEPT ![call[c].cmd] = @ + 1]
         /\ \/ call'[c].pc = "idle"
            \/ /\ call'[c].pc = "save" /\ call'[c].cmd = call[c].cmd
               /\ call'[c].version = switch.version /\ MayMove(c)
<1>1. /\ call[c].pc = "handler" /\ UNCHANGED <<switch, records>>
      /\ call \in [Calls -> CallStates] /\ switch.version \in Nat
      /\ handled' = [handled EXCEPT ![call[c].cmd] = @ + 1]
  BY DEF Handle, At, Inv, TypeOK, files, Command
<1>2. CASE MayMove(c)
  <2> DEFINE state == [call[c] EXCEPT !.pc = "save", !.version = switch.version]
  <2>1. call' = [call EXCEPT ![c] = state]
    BY <1>2 DEF Handle
  <2>2. call[c] \in CallStates
    BY <1>1
  <2>3. /\ state \in CallStates /\ state.pc = "save" /\ state.cmd = call[c].cmd
        /\ state.version = switch.version
    BY <1>1, <2>2 DEF CallStates, Labels, InHandler
  <2> HIDE DEF state
  <2> QED BY <1>1, <1>2, <2>1, <2>3 DEF Only
<1>3. CASE ~MayMove(c)
  <2>1. Return(c)
    BY <1>3 DEF Handle
  <2> QED BY <1>1, <2>1, ReturnFacts
<1> QED BY <1>2, <1>3

LEMMA SaveFacts ==
  ASSUME Inv, NEW c \in Calls, Save(c)
  PROVE  /\ Only(c) /\ UNCHANGED <<records, handled>>
         /\ call[c].pc = "save" /\ call[c].version = switch.version
         /\ call'[c].pc \notin {"handler", "save", "idle"}
         /\ call'[c].cmd = call[c].cmd
         /\ switch' = [mode |-> Target(c), version |-> switch.version + 1]
<1> DEFINE next == IF Target(c) \in {"RUNNING", "SOFT_PAUSE"} THEN "complete"
                   ELSE IF Target(c) = "STRATEGY_CLOSE" THEN "close" ELSE "confirm"
<1>1. /\ call[c].pc = "save" /\ UNCHANGED <<records, handled>>
      /\ call[c].version = switch.version
      /\ call \in [Calls -> CallStates] /\ Goto(c, next)
      /\ switch' = [mode |-> Target(c), version |-> switch.version + 1]
  BY DEF Save, At, Unchanged, Inv, TypeOK
<1>2. next \in {"complete", "close", "confirm"}
  OBVIOUS
<1> HIDE DEF next
<1> QED BY <1>1, <1>2, GotoFacts DEF Labels, InHandler

-----------------------------------------------------------------------------
(* Preservation, one lemma per part of Inv                                   *)

LEMMA Initially == ASSUME Init PROVE Inv
<1>1. TypeOK
  <2>1. call \in [Calls -> CallStates] /\ \A c \in Calls : call[c] = Idle
    BY IdleIsState DEF Init
  <2>2. switch \in [mode : Modes, version : Nat]
    BY DEF Init, NoSwitch, Modes
  <2>3. ends \in 0 .. MaxEnds /\ generation \in 0 .. MaxGeneration
    BY ControlConstants DEF Init
  <2> QED BY <2>1, <2>2, <2>3 DEF Init, TypeOK
<1>2. EntryInv
  BY DEF Init, EntryInv, OneEntryPerLevel, Levels
<1>3. CommandInv
  BY IdleIsState DEF Init, CommandInv, CommandRunsOnce
<1>4. SwitchInv
  BY IdleIsState DEF Init, SwitchInv, NoSwitch
<1> QED BY <1>1, <1>2, <1>3, <1>4 DEF Inv

\* The calls of a step of c.
LEMMA CallTypes ==
  ASSUME Inv, NEW c \in Calls, CallStep(c) \/ \E m \in Commands : Begin(c, m)
  PROVE  Only(c)
BY QuietSteps, PersistFacts, CompleteFacts, HandleFacts, SaveFacts
DEF CallStep, Quiet, Inv, TypeOK

LEMMA EntryStep ==
  ASSUME Inv, [Next]_vars
  PROVE  EntryInv'
<1> USE DEF Inv, TypeOK
<1>1. CASE UNCHANGED vars
  BY <1>1 DEF vars, EntryInv, OneEntryPerLevel, coordinator, history
<1>2. CASE Start
  BY <1>2 DEF Start, EntryInv, OneEntryPerLevel, coordinator, Levels
<1>3. CASE End
  BY <1>3 DEF End, EntryInv, OneEntryPerLevel, history
<1>4. CASE \E l \in Levels : Admit(l)
  <2>1. PICK l \in Levels : Admit(l)
    BY <1>4
  <2>2. /\ up /\ up' = up /\ sent' = sent /\ l \notin submitted
        /\ submitted' = submitted \cup {l} /\ cur' = l
    BY <2>1 DEF Admit, Reach, WithSubmitted, history
  <2>3. sent[l] = 0
    BY <2>2 DEF EntryInv, Levels
  <2> QED BY <2>2, <2>3 DEF EntryInv, OneEntryPerLevel
<1>5. CASE PlaceEntry
  <2>1. /\ up /\ up' = up /\ cur # 0 /\ cur' = 0 /\ submitted' = submitted
        /\ sent' = [sent EXCEPT ![cur] = @ + 1]
    BY <1>5 DEF PlaceEntry
  <2>2. cur \in Levels /\ cur \in submitted /\ sent[cur] = 0
    BY <2>1 DEF EntryInv
  <2>3. sent'[cur] = 1 /\ \A l \in Levels \ {cur} : sent'[l] = sent[l]
    BY <2>1, <2>2
  <2> QED BY <2>1, <2>2, <2>3 DEF EntryInv, OneEntryPerLevel
<1>6. CASE (\E p \in Prices, g \in 1 .. MaxGeneration : ResetSegment(p, g))
           \/ (\E p \in Prices : Trigger(p)) \/ (\E l \in Levels : Block(l))
           \/ Exchange
  <2>1. UNCHANGED <<up, submitted, cur, sent>>
    BY <1>6 DEF ResetSegment, Trigger, Block, Exchange, Land, Vanish, coordinator,
                history
  <2> QED BY <2>1 DEF EntryInv, OneEntryPerLevel
<1>7. CASE \E c \in Calls : CallStep(c) \/ \E m \in Commands : Begin(c, m)
  <2>1. UNCHANGED <<up, submitted, cur, sent>>
    BY <1>7 DEF CallStep, Begin, Load, PersistIntent, Handle, Save, CloseStrategy,
                VerifyStrategyClosed, ConfirmFlattened, FlattenShort, SendClose,
                ReconcileFlat, Complete, Raise, Outside, coordinator, history
  <2> QED BY <2>1 DEF EntryInv, OneEntryPerLevel
<1> QED BY <1>1, <1>2, <1>3, <1>4, <1>5, <1>6, <1>7 DEF Next, Coordinate

LEMMA CommandStep ==
  ASSUME Inv, [Next]_vars
  PROVE  CommandInv'
<1> USE DEF Inv, TypeOK
<1>1. CASE UNCHANGED <<call, records, handled>>
  BY <1>1 DEF CommandInv, CommandRunsOnce
<1>2. CASE UNCHANGED <<records, handled>> /\ call' = [c \in Calls |-> Idle]
  BY <1>2, IdleIsState DEF CommandInv, CommandRunsOnce
<1>3. CASE \E c \in Calls : Quiet(c)
  <2>1. PICK c \in Calls : Quiet(c)
    BY <1>3
  <2> QED BY <2>1 DEF CommandInv, CommandRunsOnce, Quiet, Only
<1>4. CASE \E c \in Calls : PersistIntent(c)
  <2>1. PICK c \in Calls : PersistIntent(c)
    BY <1>4
  <2>2. CASE call'[c].pc = "idle" /\ UNCHANGED records
    BY <2>1, <2>2, PersistFacts DEF CommandInv, CommandRunsOnce, Only
  <2>3. CASE call'[c].pc # "idle"
    <3> DEFINE m == call[c].cmd
    <3>1. /\ m \in Commands /\ call'[c].cmd = m /\ records[m] = "NONE"
          /\ records' = [records EXCEPT ![m] = "INTENT"] /\ handled' = handled
          /\ Only(c)
      BY <2>1, <2>3, PersistFacts DEF CommandInv
    <3>2. handled[m] = 0 /\ \A d \in Calls : call[d].pc = "handler" => call[d].cmd # m
      BY <3>1 DEF CommandInv
    <3> HIDE DEF m
    <3> QED BY <3>1, <3>2 DEF CommandInv, CommandRunsOnce, Only
  <2> QED BY <2>1, <2>2, <2>3, PersistFacts
<1>5. CASE \E c \in Calls : Complete(c)
  <2>1. PICK c \in Calls : Complete(c)
    BY <1>5
  <2> QED BY <2>1, CompleteFacts DEF CommandInv, CommandRunsOnce, Only
<1>6. CASE \E c \in Calls : Handle(c)
  <2>1. PICK c \in Calls : Handle(c)
    BY <1>6
  <2> DEFINE m == call[c].cmd
  <2>2. /\ m \in Commands /\ handled[m] = 0 /\ records[m] # "NONE"
        /\ \A d \in Calls \ {c} : call[d].pc = "handler" => call[d].cmd # m
    BY <2>1, HandleFacts DEF CommandInv
  <2>3. /\ handled' = [handled EXCEPT ![m] = @ + 1] /\ records' = records /\ Only(c)
        /\ call'[c].pc # "handler"
        /\ call'[c].pc # "idle" => call'[c].cmd = m
    BY <2>1, HandleFacts
  <2>4. handled'[m] = 1 /\ \A n \in Commands \ {m} : handled'[n] = handled[n]
    BY <2>2, <2>3
  <2> HIDE DEF m
  <2> QED BY <2>2, <2>3, <2>4 DEF CommandInv, CommandRunsOnce, Only
<1>7. CASE \E c \in Calls : Save(c)
  <2>1. PICK c \in Calls : Save(c)
    BY <1>7
  <2> QED BY <2>1, SaveFacts DEF CommandInv, CommandRunsOnce, Only
<1>8. CASE Coordinate \/ Exchange
  BY <1>1, <1>8, OtherSteps DEF files
<1>9. CASE \E c \in Calls : CallStep(c) \/ \E m \in Commands : Begin(c, m)
  BY <1>3, <1>4, <1>5, <1>6, <1>7, <1>9, QuietSteps DEF CallStep
<1> QED BY <1>1, <1>2, <1>8, <1>9 DEF Next, Start, End, vars, files, history

LEMMA SwitchStep ==
  ASSUME Inv, [Next]_vars
  PROVE  SwitchInv'
<1> USE DEF Inv, TypeOK
<1>1. CASE UNCHANGED <<call, switch>>
  BY <1>1 DEF SwitchInv, MayMove, Target, Command
<1>2. CASE Start
  <2>1. \A c \in Calls : call'[c].pc = "idle"
    BY <1>2, IdleIsState DEF Start
  <2>2. switch'.version # 0
    BY <1>2 DEF Start, Initialized
  <2> QED BY <2>1, <2>2 DEF SwitchInv
<1>3. CASE End
  BY <1>3, IdleIsState DEF End, SwitchInv, files
<1>4. CASE \E c \in Calls : /\ Only(c) /\ call'[c].pc # "save" /\ switch' = switch
  <2>1. PICK c \in Calls : Only(c) /\ call'[c].pc # "save" /\ switch' = switch
    BY <1>4
  <2>2. \A d \in Calls : call'[d].pc = "save" => d # c /\ call'[d] = call[d]
    BY <2>1 DEF Only
  <2> QED BY <2>1, <2>2 DEF SwitchInv, MayMove, Target, Command
<1>5. CASE \E c \in Calls : Handle(c)
  <2>1. PICK c \in Calls : Handle(c)
    BY <1>5
  <2>2. CASE call'[c].pc # "save"
    BY <1>4, <2>1, <2>2, HandleFacts
  <2>3. CASE call'[c].pc = "save"
    <3>1. /\ Only(c) /\ switch' = switch /\ call'[c].cmd = call[c].cmd
          /\ call'[c].version = switch.version /\ MayMove(c)
      BY <2>1, <2>3, HandleFacts
    <3>2. MayMove(c)'
      BY <3>1 DEF MayMove, Target, Command
    <3>3. \A d \in Calls \ {c} : call'[d] = call[d] /\ (MayMove(d) => MayMove(d)')
      BY <3>1 DEF Only, MayMove, Target, Command
    <3> HIDE DEF Inv
    <3>4. switch.version \in Nat
      BY DEF Inv
    <3> QED BY <3>1, <3>2, <3>3, <3>4 DEF SwitchInv, Inv
  <2> QED BY <2>2, <2>3
<1>6. CASE \E c \in Calls : Save(c)
  <2>1. PICK c \in Calls : Save(c)
    BY <1>6
  <2>2. /\ Only(c) /\ call'[c].pc # "save" /\ switch.version \in Nat
        /\ switch'.version = switch.version + 1
    BY <2>1, SaveFacts
  <2>3. \A d \in Calls : call'[d].pc = "save" =>
          /\ call'[d].version \in Nat /\ call'[d].version <= switch.version
    BY <2>2 DEF Only, SwitchInv, CallStates
  <2> QED BY <2>2, <2>3 DEF SwitchInv
<1>7. CASE Coordinate \/ Exchange
  BY <1>1, <1>7, OtherSteps DEF files
<1>8. CASE \E c \in Calls : PersistIntent(c) \/ Complete(c)
  BY <1>4, <1>8, PersistFacts, CompleteFacts
<1>9. CASE \E c \in Calls : Quiet(c)
  BY <1>4, <1>9 DEF Quiet
<1>10. CASE \E c \in Calls : CallStep(c) \/ \E m \in Commands : Begin(c, m)
  BY <1>5, <1>6, <1>8, <1>9, <1>10, QuietSteps DEF CallStep
<1> QED BY <1>1, <1>2, <1>3, <1>7, <1>10 DEF Next, vars, files

\* The types of what only the calls and the exchange move, and of the rest.
LEMMA TypeStep ==
  ASSUME Inv, [Next]_vars
  PROVE  TypeOK'
<1> USE DEF Inv
<1>1. CASE UNCHANGED vars
  BY <1>1 DEF TypeOK, vars, files, exchange, coordinator, history
<1>2. CASE Start
  <2>1. switch' \in [mode : Modes, version : Nat]
    BY <1>2 DEF Start, Initialized, TypeOK, Modes
  <2> QED BY <1>2, <2>1 DEF TypeOK, Start, exchange, coordinator
<1>3. CASE End
  <2>1. call' \in [Calls -> CallStates] /\ \A c \in Calls : call'[c] = Idle
    BY <1>3, IdleIsState DEF End
  <2>2. ends' \in 0 .. MaxEnds /\ 0 \in 0 .. MaxGeneration
    BY <1>3, ControlConstants DEF End, TypeOK
  <2> QED BY <1>3, <2>1, <2>2 DEF TypeOK, End, files, exchange, history
<1>4. CASE Coordinate
  <2>1. CASE \E p \in Prices, g \in 1 .. MaxGeneration : ResetSegment(p, g)
    <3>1. PICK p \in Prices, g \in 1 .. MaxGeneration : ResetSegment(p, g)
      BY <2>1
    <3> QED BY <3>1, ControlConstants DEF TypeOK, ResetSegment, Waiting, files, exchange
  <2>2. CASE \E p \in Prices : Trigger(p)
    <3>1. PICK p \in Prices : Trigger(p)
      BY <2>2
    <3> QED BY <3>1 DEF TypeOK, Trigger, Waiting, Rearmed, Crossed, NextPrevious, files,
                        exchange
  <2>3. CASE \E l \in Levels : Block(l) \/ Admit(l)
    <3>1. PICK l \in Levels : Block(l) \/ Admit(l)
      BY <2>3
    <3> QED BY <3>1 DEF TypeOK, Block, Admit, Reach, WithSubmitted, files, exchange, history
  <2>4. CASE PlaceEntry
    <3>1. cur \in Levels /\ sent' \in [Levels -> Nat]
      BY <2>4 DEF PlaceEntry, TypeOK
    <3> QED BY <2>4, <3>1 DEF TypeOK, PlaceEntry, files
  <2> QED BY <1>4, <2>1, <2>2, <2>3, <2>4 DEF Coordinate
<1>5. CASE Exchange
  BY <1>5 DEF TypeOK, Exchange, Land, Vanish, files, coordinator, history
<1>6. CASE \E c \in Calls : CallStep(c) \/ \E m \in Commands : Begin(c, m)
  <2>1. PICK c \in Calls : CallStep(c) \/ \E m \in Commands : Begin(c, m)
    BY <1>6
  <2>2. call' \in [Calls -> CallStates]
    BY <2>1, CallTypes DEF Only
  <2>3. up /\ up' = up
    BY <2>1 DEF CallStep, Begin, Load, PersistIntent, Handle, Save, CloseStrategy,
                VerifyStrategyClosed, ConfirmFlattened, FlattenShort, SendClose,
                ReconcileFlat, Complete, Raise, Outside, At
  <2>4. UNCHANGED <<airborne, ends, coordinator, seen, sent>>
    BY <2>1 DEF CallStep, Begin, Load, PersistIntent, Handle, Save, CloseStrategy,
                VerifyStrategyClosed, ConfirmFlattened, FlattenShort, SendClose,
                ReconcileFlat, Complete, Raise, Outside, exchange, history
  <2>5. short' \in Nat
    <3>1. CASE SendClose
      <4>1. short \in Nat /\ short' \in 0 .. short
        BY <3>1 DEF SendClose, TypeOK
      <4> QED BY <4>1
    <3>2. CASE UNCHANGED short
      BY <3>2 DEF TypeOK
    <3> QED BY <2>1, <3>1, <3>2
        DEF CallStep, Begin, Load, PersistIntent, Handle, Save, CloseStrategy,
            VerifyStrategyClosed, ConfirmFlattened, FlattenShort, ReconcileFlat,
            Complete, Raise, Outside, exchange
  <2>6. since' \in Nat /\ escaped' \in Nat /\ proved' \in BOOLEAN
    <3>1. CASE Save(c)
      <4>1. /\ since' \in {0, since} /\ escaped' \in {airborne + PastGate, escaped}
            /\ proved' = (proved /\ switch.mode # "RUNNING" /\ Target(c) # "RUNNING")
        BY <3>1 DEF Save
      <4>2. since \in Nat /\ escaped \in Nat /\ airborne + PastGate \in Nat
        BY DEF TypeOK, PastGate
      <4>3. proved' \in BOOLEAN
        BY <4>1
      <4> QED BY <4>1, <4>2, <4>3
    <3>2. CASE UNCHANGED <<since, escaped>> /\ \E flat \in BOOLEAN : Prove(c, flat)
      <4>1. proved' \in BOOLEAN
        BY <3>2 DEF Prove
      <4> QED BY <3>2, <4>1 DEF TypeOK
    <3>3. CASE UNCHANGED <<since, escaped, proved>>
      BY <3>3 DEF TypeOK
    <3>4. VerifyStrategyClosed(c) => UNCHANGED <<since, escaped>> /\ Prove(c, short = 0)
      BY DEF VerifyStrategyClosed
    <3>5. ReconcileFlat(c) => /\ UNCHANGED <<since, escaped>>
                              /\ UNCHANGED proved \/ Prove(c, TRUE)
      BY DEF ReconcileFlat
    <3> QED BY <2>1, <3>1, <3>2, <3>3, <3>4, <3>5
        DEF CallStep, Begin, Load, PersistIntent, Handle, CloseStrategy,
            ConfirmFlattened, FlattenShort, SendClose, Complete, Raise, history
  <2>7. /\ switch' \in [mode : Modes, version : Nat]
        /\ records' \in [Commands -> {"NONE", "INTENT", "RESULT"}]
        /\ handled' \in [Commands -> Nat]
    <3>1. CASE Quiet(c)
      BY <3>1 DEF Quiet, TypeOK
    <3>2. CASE PersistIntent(c)
      BY <3>2, PersistFacts DEF TypeOK, CommandInv
    <3>3. CASE Complete(c)
      BY <3>3, CompleteFacts DEF TypeOK
    <3>4. CASE Handle(c)
      BY <3>4, HandleFacts DEF TypeOK
    <3>5. CASE Save(c)
      <4>1. Target(c) \in Modes
        BY <3>5, SaveFacts, TargetIsMode DEF CommandInv
      <4> QED BY <3>5, <4>1, SaveFacts DEF TypeOK
    <3> QED BY <2>1, <3>1, <3>2, <3>3, <3>4, <3>5, QuietSteps DEF CallStep, TypeOK
  <2> QED BY <2>2, <2>3, <2>4, <2>5, <2>6, <2>7 DEF TypeOK, coordinator
<1> QED BY <1>1, <1>2, <1>3, <1>4, <1>5, <1>6 DEF Next

-----------------------------------------------------------------------------
(* The gate: what a pause and a proof of flatness stop                       *)

\* A step of an execute call leaves the coordinator and the orders in flight
\* alone, closes at most what is open, and moves the switch only by Save.
LEMMA CallLeaves ==
  ASSUME Inv, NEW c \in Calls, CallStep(c) \/ \E m \in Commands : Begin(c, m)
  PROVE  /\ UNCHANGED <<up, airborne, coordinator, seen>>
         /\ short \in Nat /\ short' \in Nat /\ short' <= short
         /\ Save(c) \/ UNCHANGED <<switch, since, escaped>>
<1>1. UNCHANGED <<up, airborne, coordinator, seen>>
  BY DEF CallStep, Begin, Load, PersistIntent, Handle, Save, CloseStrategy,
         VerifyStrategyClosed, ConfirmFlattened, FlattenShort, SendClose,
         ReconcileFlat, Complete, Raise, Outside, exchange, history
<1>2. SendClose \/ UNCHANGED short
  BY DEF CallStep, Begin, Load, PersistIntent, Handle, Save, CloseStrategy,
         VerifyStrategyClosed, ConfirmFlattened, FlattenShort, ReconcileFlat,
         Complete, Raise, Outside, exchange
<1>3. short \in Nat /\ short' \in Nat /\ short' <= short
  BY <1>2 DEF SendClose, Inv, TypeOK
<1>4. Save(c) \/ UNCHANGED <<switch, since, escaped>>
  BY DEF CallStep, Begin, Load, PersistIntent, Handle, CloseStrategy,
         VerifyStrategyClosed, ConfirmFlattened, FlattenShort, SendClose,
         ReconcileFlat, Complete, Raise, files, history
<1> QED BY <1>1, <1>3, <1>4

\* A start does not move the mode.
LEMMA StartKeepsMode ==
  ASSUME Inv, Start
  PROVE  switch'.mode = switch.mode
BY DEF Inv, SwitchInv, Start, Initialized

LEMMA ThreeTerms ==
  \A a, b, c \in Nat : /\ a + b + c \in Nat
                       /\ \A d \in Nat : d <= a => d + b + c <= a + b + c
OBVIOUS

LEMMA SegmentStep ==
  ASSUME Inv, SegmentInv, [Next]_vars
  PROVE  SegmentInv'
<1> USE DEF SegmentInv
<1>1. CASE UNCHANGED <<up, previous, seen>>
  BY <1>1
<1>2. CASE Start
  BY <1>2 DEF Start, coordinator
<1>3. CASE End
  BY <1>3 DEF End
<1>4. CASE Coordinate
  BY <1>4 DEF Coordinate, ResetSegment, Trigger, Waiting, NextPrevious, Block, Admit,
              Reach, PlaceEntry, history
<1>5. CASE Exchange
  BY <1>1, <1>5 DEF Exchange, Land, Vanish, coordinator, history
<1>6. CASE \E c \in Calls : CallStep(c) \/ \E m \in Commands : Begin(c, m)
  BY <1>1, <1>6, CallLeaves DEF coordinator
<1> QED BY <1>1, <1>2, <1>3, <1>4, <1>5, <1>6 DEF Next, vars, coordinator, history

LEMMA PauseStep ==
  ASSUME Inv, PauseInv, [Next]_vars
  PROVE  PauseInv'
<1>0. since \in Nat /\ PastGate \in {0, 1} /\ PastGate' \in {0, 1}
  BY DEF Inv, TypeOK, PastGate
<1>1. CASE switch'.mode = switch.mode /\ UNCHANGED <<since, cur>>
  BY <1>1 DEF PauseInv, PastGate
<1>2. CASE Start
  BY <1>1, <1>2, StartKeepsMode DEF Start, coordinator
<1>3. CASE End
  <2>1. PastGate' = 0 /\ UNCHANGED <<switch, since>>
    BY <1>3 DEF End, PastGate, files, history
  <2> QED BY <1>0, <2>1 DEF PauseInv
<1>4. CASE \E l \in Levels : Admit(l)
  BY <1>4 DEF Admit, GateOpen, PauseInv, files
<1>5. CASE PlaceEntry
  <2>1. /\ PastGate = 1 /\ PastGate' = 0 /\ switch' = switch
        /\ switch.mode # "RUNNING" => since' = since + 1
    BY <1>5 DEF PlaceEntry, PastGate, files
  <2> QED BY <1>0, <2>1 DEF PauseInv
<1>6. CASE Exchange
  BY <1>1, <1>6 DEF Exchange, Land, Vanish, coordinator, history, files
<1>7. CASE (\E p \in Prices, g \in 1 .. MaxGeneration : ResetSegment(p, g))
           \/ (\E p \in Prices : Trigger(p)) \/ (\E l \in Levels : Block(l))
  BY <1>1, <1>7 DEF ResetSegment, Trigger, Block, files, history
<1>8. CASE \E c \in Calls : Save(c)
  <2>1. PICK c \in Calls : Save(c)
    BY <1>8
  <2>2. /\ switch'.mode = Target(c) /\ UNCHANGED cur
        /\ since' = IF Leaving(c) THEN 0 ELSE since
    BY <2>1 DEF Save, Outside, coordinator
  <2>3. PastGate' = PastGate
    BY <2>2 DEF PastGate
  <2> QED BY <1>0, <2>2, <2>3 DEF PauseInv, Leaving
<1>9. CASE \E c \in Calls : CallStep(c) \/ \E m \in Commands : Begin(c, m)
  BY <1>1, <1>8, <1>9, CallLeaves DEF coordinator
<1> QED BY <1>1, <1>2, <1>3, <1>4, <1>5, <1>6, <1>7, <1>9
        DEF Next, Coordinate, vars, coordinator, history, files

\* Entries in flight or past the gate: no step out of RUNNING adds to them, and
\* none that keeps the switch out of RUNNING adds to the exposure.
LEMMA ExposureStep ==
  ASSUME Inv, FlatInv, [Next]_vars, switch'.mode # "RUNNING"
  PROVE  /\ airborne' + PastGate' <= escaped'
         /\ switch.mode # "RUNNING" => Exposure' <= Exposure /\ escaped' = escaped
<1>0. /\ airborne \in Nat /\ short \in Nat /\ escaped \in Nat
      /\ PastGate \in Nat /\ PastGate' \in Nat
  BY DEF Inv, TypeOK, PastGate
<1>f. switch.mode # "RUNNING" => airborne + PastGate <= escaped
  BY DEF FlatInv
<1>e. /\ Exposure = short + airborne + PastGate
      /\ Exposure' = short' + airborne' + PastGate'
  BY DEF Exposure
<1>1. CASE /\ switch'.mode = switch.mode
           /\ UNCHANGED <<airborne, short, cur, escaped>>
  BY <1>0, <1>e, <1>f, <1>1 DEF PastGate
<1>2. CASE Start
  BY <1>1, <1>2, StartKeepsMode DEF Start, exchange, coordinator
<1>3. CASE End
  <2>1. PastGate' = 0 /\ UNCHANGED <<switch, airborne, short, escaped>>
    BY <1>3 DEF End, PastGate, files, exchange, history
  <2> QED BY <1>0, <1>e, <1>f, <2>1
<1>4. CASE \E l \in Levels : Admit(l)
  BY <1>4 DEF Admit, GateOpen, files
<1>5. CASE PlaceEntry
  <2>1. /\ PastGate = 1 /\ PastGate' = 0 /\ airborne' = airborne + 1
        /\ UNCHANGED <<switch, short, escaped>>
    BY <1>5 DEF PlaceEntry, PastGate, files
  <2> QED BY <1>0, <1>e, <1>f, <2>1
<1>6. CASE Exchange
  <2>1. /\ airborne > 0 /\ airborne' = airborne - 1 /\ short' \in {short, short + 1}
        /\ UNCHANGED <<switch, cur, escaped>>
    BY <1>6 DEF Exchange, Land, Vanish, coordinator, history, files
  <2>2. PastGate' = PastGate
    BY <2>1 DEF PastGate
  <2>3. CASE short' = short
    BY <1>0, <1>e, <1>f, <2>1, <2>2, <2>3
  <2>4. CASE short' = short + 1
    BY <1>0, <1>e, <1>f, <2>1, <2>2, <2>4
  <2> QED BY <2>1, <2>3, <2>4
<1>7. CASE (\E p \in Prices, g \in 1 .. MaxGeneration : ResetSegment(p, g))
           \/ (\E p \in Prices : Trigger(p)) \/ (\E l \in Levels : Block(l))
  BY <1>1, <1>7 DEF ResetSegment, Trigger, Block, files, exchange, history
<1>8. CASE \E c \in Calls : CallStep(c) \/ \E m \in Commands : Begin(c, m)
  <2>1. PICK c \in Calls : CallStep(c) \/ \E m \in Commands : Begin(c, m)
    BY <1>8
  <2>2. /\ airborne' = airborne /\ PastGate' = PastGate
        /\ short' \in Nat /\ short' <= short
    BY <2>1, CallLeaves DEF coordinator, PastGate
  <2>e. Exposure' <= Exposure
    BY <1>0, <1>e, <2>2, ThreeTerms
  <2>3. CASE Save(c)
    <3>1. /\ switch'.mode = Target(c)
          /\ escaped' = IF Leaving(c) THEN airborne + PastGate ELSE escaped
      BY <2>3 DEF Save
    <3> QED BY <1>0, <1>f, <2>2, <2>e, <3>1 DEF Leaving
  <2>4. CASE UNCHANGED <<switch, escaped>>
    BY <1>0, <1>f, <2>2, <2>e, <2>4
  <2> QED BY <2>1, <2>3, <2>4, CallLeaves
<1> QED BY <1>1, <1>2, <1>3, <1>4, <1>5, <1>6, <1>7, <1>8
        DEF Next, Coordinate, vars, exchange, coordinator, history, files

\* Within an execute call, an attempt is entered by Save alone, and a verdict of
\* flatness is given by ConfirmFlattened alone.
LEMMA AttemptSteps ==
  ASSUME call \in [Calls -> CallStates], NEW c \in Calls, ~Save(c),
         CallStep(c) \/ \E m \in Commands : Begin(c, m),
         call'[c].pc \in Attempting
  PROVE  /\ call[c].pc \in Attempting /\ call'[c].version = call[c].version
         /\ call'[c].pc = "reconcile" => ConfirmFlattened(c)
<1>0. call[c] \in CallStates
  OBVIOUS
<1> USE DEF Attempting
<1>1. ~Return(c)
  BY ReturnFacts
<1>2. ASSUME NEW label \in {"persist", "handler", "verify", "complete"} PROVE ~Goto(c, label)
  BY <1>2, GotoFacts DEF Labels, InHandler
<1>3. ~\E m \in Commands : Begin(c, m)
  BY <1>0 DEF Begin, Idle
<1>4. ~Load(c) /\ ~PersistIntent(c) /\ ~Raise(c) /\ ~Complete(c)
  BY <1>1, <1>2 DEF Load, PersistIntent, Raise, Complete
<1>5. ~CloseStrategy(c) /\ ~VerifyStrategyClosed(c)
  BY <1>2 DEF CloseStrategy, VerifyStrategyClosed
<1>6. ~Handle(c)
  BY <1>0, <1>1 DEF Handle, CallStates
<1>7. CASE ConfirmFlattened(c)
  <2>1. /\ call[c].pc \in {"confirm", "confirm_again"}
        /\ call' = [call EXCEPT ![c].flat = FlatNow(c),
                    ![c].pc = IF FlatNow(c) \/ @ = "confirm_again" THEN "reconcile"
                              ELSE "flatten"]
    BY <1>7 DEF ConfirmFlattened, At
  <2> QED BY <1>0, <1>7, <2>1 DEF CallStates
<1>8. CASE FlattenShort(c)
  <2>1. call[c].pc = "flatten" /\ Goto(c, "confirm_again")
    BY <1>8 DEF FlattenShort, At
  <2> QED BY <2>1, GotoFacts DEF Labels, InHandler
<1>9. CASE ReconcileFlat(c)
  <2>1. /\ call[c].pc = "reconcile"
        /\ call' = [call EXCEPT ![c].attempt = NextAttempt(c), ![c].pc = "confirm"]
    BY <1>1, <1>2, <1>9 DEF ReconcileFlat, At
  <2> QED BY <1>0, <2>1 DEF CallStates
<1> QED BY <1>3, <1>4, <1>5, <1>6, <1>7, <1>8, <1>9 DEF CallStep

\* Outside a confirmation, a call that waits to be reconciled waited before.
LEMMA FlatStep ==
  ASSUME Inv, FlatInv, Inv', [Next]_vars
  PROVE  FlatInv'
<1>0. /\ Exposure \in Nat /\ Exposure' \in Nat /\ escaped \in Nat /\ escaped' \in Nat
      /\ switch.version \in Nat /\ call \in [Calls -> CallStates]
      /\ \A c \in Calls : call[c].version \in Nat
  <2>1. PastGate \in Nat /\ PastGate' \in Nat
    BY DEF PastGate
  <2>2. /\ short \in Nat /\ short' \in Nat /\ airborne \in Nat /\ airborne' \in Nat
        /\ escaped \in Nat /\ escaped' \in Nat
        /\ switch.version \in Nat /\ call \in [Calls -> CallStates]
    BY DEF Inv, TypeOK
  <2>3. \A c \in Calls : call[c].version \in Nat
    BY <2>2 DEF CallStates
  <2>4. short + airborne + PastGate \in Nat /\ short' + airborne' + PastGate' \in Nat
    BY <2>1, <2>2, ThreeTerms
  <2> QED BY <2>2, <2>3, <2>4 DEF Exposure
<1>1. switch'.mode # "RUNNING" => airborne' + PastGate' <= escaped'
  BY ExposureStep
<1>2. ASSUME switch'.mode # "RUNNING", switch.mode # "RUNNING", Exposure <= escaped
      PROVE  Exposure' <= escaped'
  BY <1>0, <1>2, ExposureStep
<1>s. ASSUME NEW c \in Calls, Save(c)
      PROVE  /\ Only(c) /\ switch'.version = switch.version + 1
             /\ call'[c].version = switch.version
             /\ call'[c].pc \in {"complete", "close", "confirm"}
  <2> DEFINE next == IF Target(c) \in {"RUNNING", "SOFT_PAUSE"} THEN "complete"
                     ELSE IF Target(c) = "STRATEGY_CLOSE" THEN "close" ELSE "confirm"
  <2>1. Goto(c, next) /\ call[c].version = switch.version
        /\ switch'.version = switch.version + 1
    BY <1>s DEF Save, Unchanged
  <2>2. next \in {"complete", "close", "confirm"}
    OBVIOUS
  <2> HIDE DEF next
  <2> QED BY <1>0, <2>1, <2>2, GotoFacts DEF Labels, InHandler
\* Who is in an attempt was in one, or has just saved.
<1>3. \A c \in Calls : call'[c].pc \in Attempting => call'[c].version < switch'.version
  <2>1. CASE UNCHANGED <<call, switch>>
    BY <2>1 DEF FlatInv
  <2>2. CASE \A c \in Calls : call'[c] = Idle
    BY <2>2 DEF Idle, Attempting
  <2>3. CASE \E c \in Calls : Save(c)
    <3>1. PICK c \in Calls : Save(c)
      BY <2>3
    <3> QED BY <1>0, <1>s, <3>1 DEF FlatInv, Only
  <2>4. CASE \E c \in Calls : /\ Only(c) /\ switch' = switch
                              /\ call'[c].pc \in Attempting =>
                                   /\ call[c].pc \in Attempting
                                   /\ call'[c].version = call[c].version
    BY <2>4 DEF FlatInv, Only
  <2>5. CASE \E c \in Calls : CallStep(c) \/ \E m \in Commands : Begin(c, m)
    <3>1. PICK c \in Calls : CallStep(c) \/ \E m \in Commands : Begin(c, m)
      BY <2>5
    <3>2. Only(c) /\ (Save(c) \/ switch' = switch)
      BY <3>1, CallTypes, CallLeaves
    <3>3. ~Save(c) /\ call'[c].pc \in Attempting =>
            call[c].pc \in Attempting /\ call'[c].version = call[c].version
      BY <1>0, <3>1, AttemptSteps
    <3> QED BY <2>3, <2>4, <3>2, <3>3
  <2> QED BY <2>1, <2>2, <2>5, OtherSteps
          DEF Next, Start, End, vars, files, Inv, TypeOK
<1>4. \A c \in Calls :
        /\ call'[c].pc = "reconcile" /\ call'[c].flat
        /\ switch'.version = call'[c].version + 1 /\ switch'.mode # "RUNNING"
        => Exposure' <= escaped'
  <2> SUFFICES ASSUME NEW c \in Calls, call'[c].pc = "reconcile", call'[c].flat,
                      switch'.version = call'[c].version + 1, switch'.mode # "RUNNING"
               PROVE  Exposure' <= escaped'
    OBVIOUS
  <2>1. CASE call'[c] = call[c] /\ switch' = switch
    BY <1>2, <2>1 DEF FlatInv
  <2>2. CASE \E d \in Calls : Save(d)
    <3>1. PICK d \in Calls : Save(d)
      BY <2>2
    <3>2. c # d /\ call'[c] = call[c] /\ call[c].version < switch.version
      BY <1>s, <3>1 DEF Only, FlatInv, Attempting
    <3> QED BY <1>0, <1>s, <3>1, <3>2
  <2>3. CASE ConfirmFlattened(c)
    <3>1. /\ call' = [call EXCEPT ![c].flat = FlatNow(c),
                      ![c].pc = IF FlatNow(c) \/ @ = "confirm_again" THEN "reconcile"
                                ELSE "flatten"]
          /\ short' = short
      BY <2>3 DEF ConfirmFlattened, Outside, exchange
    <3> DEFINE next == IF FlatNow(c) \/ call[c].pc = "confirm_again" THEN "reconcile"
                       ELSE "flatten"
               state == [call[c] EXCEPT !.flat = FlatNow(c), !.pc = next]
    <3>2. call' = [call EXCEPT ![c] = state] /\ call[c] \in CallStates
      BY <1>0, <3>1
    <3>3. call'[c].flat = FlatNow(c)
      <4>1. state.flat = FlatNow(c)
        <5> HIDE DEF next
        <5> QED BY <3>2 DEF CallStates
      <4> HIDE DEF state
      <4> QED BY <1>0, <3>2, <4>1
    <3>4. short' = 0
      BY <3>1, <3>3 DEF FlatNow
    <3>5. airborne' \in Nat /\ PastGate' \in Nat
      BY DEF Inv, TypeOK, PastGate
    <3> QED BY <1>1, <3>4, <3>5 DEF Exposure
  <2>4. CASE \E d \in Calls : CallStep(d) \/ \E m \in Commands : Begin(d, m)
    <3>1. PICK d \in Calls : CallStep(d) \/ \E m \in Commands : Begin(d, m)
      BY <2>4
    <3>2. Only(d) /\ (Save(d) \/ switch' = switch)
      BY <3>1, CallTypes, CallLeaves
    <3>3. d = c => Save(c) \/ ConfirmFlattened(c)
      BY <1>0, <3>1, AttemptSteps DEF Attempting
    <3> QED BY <2>1, <2>2, <2>3, <3>2, <3>3 DEF Only
  <2>5. CASE Start \/ End
    BY <2>5, IdleIsState DEF Start, End, Inv, TypeOK
  <2> QED BY <2>1, <2>4, <2>5, OtherSteps DEF Next, vars, files
<1>5. ProvedFlatStaysFlat'
  <2> SUFFICES ASSUME proved', switch'.mode # "RUNNING"
               PROVE  Exposure' <= escaped'
    BY DEF ProvedFlatStaysFlat, Exposure
  <2>1. CASE proved /\ switch.mode # "RUNNING"
    BY <1>2, <2>1 DEF FlatInv, ProvedFlatStaysFlat, Exposure
  <2>2. CASE proved' = proved /\ switch'.mode = switch.mode
    BY <2>1, <2>2
  <2>3. CASE \E c \in Calls : Save(c)
    BY <2>1, <2>3 DEF Save
  <2>4. CASE \E c \in Calls : VerifyStrategyClosed(c)
    <3>1. PICK c \in Calls : VerifyStrategyClosed(c)
      BY <2>4
    <3>2. /\ switch' = switch /\ UNCHANGED <<short, airborne, cur, escaped>>
          /\ proved \/ short = 0
      BY <3>1 DEF VerifyStrategyClosed, Prove, files, Outside, exchange, coordinator
    <3>3. airborne' \in Nat /\ PastGate' \in Nat
      BY DEF Inv, TypeOK, PastGate
    <3>4. CASE short = 0
      BY <1>1, <3>2, <3>3, <3>4 DEF Exposure
    <3> QED BY <2>1, <3>2, <3>4
  <2>5. CASE \E c \in Calls : ReconcileFlat(c)
    <3>1. PICK c \in Calls : ReconcileFlat(c)
      BY <2>5
    <3>2. /\ switch' = switch
          /\ \/ proved
             \/ /\ call[c].pc = "reconcile" /\ call[c].flat
                /\ switch.version = call[c].version + 1
      BY <3>1 DEF ReconcileFlat, Prove, At, files
    <3>3. CASE ~proved
      BY <1>2, <3>2, <3>3 DEF FlatInv
    <3> QED BY <2>1, <3>2, <3>3
  <2>6. CASE \E c \in Calls : CallStep(c) \/ \E m \in Commands : Begin(c, m)
    BY <2>2, <2>3, <2>4, <2>5, <2>6
    DEF CallStep, Begin, Load, PersistIntent, Handle, CloseStrategy, ConfirmFlattened,
        FlattenShort, SendClose, Complete, Raise, files, history
  <2>7. CASE Start
    BY <2>2, <2>7, StartKeepsMode DEF Start
  <2> QED BY <2>2, <2>6, <2>7, OtherSteps DEF Next, End, vars, files, history
<1> QED BY <1>1, <1>3, <1>4, <1>5 DEF FlatInv

-----------------------------------------------------------------------------
(* Theorems                                                                  *)

\* The three invariants and the types are inductive together.
THEOREM ControlInvariant == Spec => []Inv
<1>1. Init => Inv
  BY Initially
<1>2. Inv /\ [Next]_vars => Inv'
  BY TypeStep, EntryStep, CommandStep, SwitchStep DEF Inv
<1> QED BY <1>1, <1>2, PTL DEF Spec

\* Every variable keeps its type (TypeOK), whatever the bounds.
THEOREM TypeCorrect == Spec => []TypeOK
<1>1. Inv => TypeOK
  BY DEF Inv
<1> QED BY <1>1, ControlInvariant, PTL

\* MultiLevelCoordinator places at most one order per level, for any number of
\* levels and prices, through reconnections, pauses and restarts.
THEOREM LevelEnteredOnce == Spec => []OneEntryPerLevel
<1>1. Inv => OneEntryPerLevel
  BY DEF Inv, EntryInv
<1> QED BY <1>1, ControlInvariant, PTL

\* OperatorCommandService invokes a handler at most once per command ID, for any
\* number of concurrent calls, retries and crashes.
THEOREM CommandHandledOnce == Spec => []CommandRunsOnce
<1>1. Inv => CommandRunsOnce
  BY DEF Inv, CommandInv
<1> QED BY <1>1, ControlInvariant, PTL

\* The persisted mode falls only by a reset of the state that the reset read,
\* for any number of concurrent activations and resets.
THEOREM SwitchEscalates == Spec => SwitchOnlyEscalates
<1> DEFINE Falls == Escalation[switch'.mode] < Escalation[switch.mode]
           ByReset == \E c \in Calls : /\ At(c, "save") /\ call'[c] # call[c]
                                       /\ Target(c) = "RUNNING"
                                       /\ call[c].version = switch.version
<1>1. ASSUME Inv, [Next]_vars PROVE [Falls => ByReset]_vars
  <2> SUFFICES ASSUME Next, Falls PROVE ByReset
    BY <1>1
  <2>1. switch.mode \in Modes /\ Escalation[switch.mode] \in Nat
    BY <1>1, EscalationIsNat DEF Inv, TypeOK
  <2>2. CASE switch'.mode = switch.mode
    BY <2>1, <2>2
  <2>3. CASE \E c \in Calls : Save(c)
    <3>1. PICK c \in Calls : Save(c)
      BY <2>3
    <3>2. /\ At(c, "save") /\ call[c].version = switch.version
          /\ call[c].pc = "save" /\ call'[c].pc # "save"
          /\ switch'.mode = Target(c)
      BY <1>1, <3>1, SaveFacts DEF Save
    <3>3. MayMove(c) /\ Target(c) \in Modes
      BY <1>1, <3>2, TargetIsMode DEF Inv, SwitchInv, CommandInv
    <3>4. Escalation[Target(c)] \in Nat
      BY <3>3, EscalationIsNat
    <3>5. Target(c) = "RUNNING"
      BY <2>1, <3>2, <3>3, <3>4 DEF MayMove
    <3> QED BY <3>2, <3>5
  <2>4. CASE Start
    BY <1>1, <2>2, <2>4 DEF Start, Initialized, Inv, SwitchInv
  <2>5. CASE End \/ Coordinate \/ Exchange
    BY <2>2, <2>5, OtherSteps DEF End, files
  <2>6. CASE \E c \in Calls : CallStep(c) \/ \E m \in Commands : Begin(c, m)
    BY <1>1, <2>2, <2>3, <2>6, QuietSteps, PersistFacts, CompleteFacts, HandleFacts
    DEF CallStep, Quiet, Inv, TypeOK
  <2> QED BY <2>4, <2>5, <2>6 DEF Next
<1>2. Inv /\ [Next]_vars => [Falls => ByReset]_vars
  BY <1>1
<1> QED BY <1>2, ControlInvariant, PTL DEF Spec, SwitchOnlyEscalates

\* The coordinator's segment, the gate and the proofs of flatness.
GateInv == SegmentInv /\ PauseInv /\ FlatInv

\* The gate's invariant is inductive over the one above.
THEOREM GateInvariant == Spec => []GateInv
<1>1. Init => GateInv
  BY IdleIsState DEF Init, GateInv, SegmentInv, PauseInv, FlatInv, ProvedFlatStaysFlat,
                     NoSwitch, Attempting
<1>2. Inv /\ Inv' /\ GateInv /\ [Next]_vars => GateInv'
  BY SegmentStep, PauseStep, FlatStep DEF GateInv
<1> QED BY <1>1, <1>2, ControlInvariant, PTL DEF Spec

\* After the kill switch has left RUNNING at most one more entry is placed, for
\* any number of levels that one tick crosses and any interleaving of commands.
THEOREM PauseHolds == Spec => []PauseStopsEntries
<1>1. Inv /\ GateInv => PauseStopsEntries
  BY DEF Inv, TypeOK, GateInv, PauseInv, PauseStopsEntries, PastGate
<1> QED BY <1>1, ControlInvariant, GateInvariant, PTL

\* A verified close or flatten holds until the switch is reset, whatever other
\* commands run beside it: only entries past the gate can add to the position.
THEOREM FlatHolds == Spec => []ProvedFlatStaysFlat
<1>1. GateInv => ProvedFlatStaysFlat
  BY DEF GateInv, FlatInv
<1> QED BY <1>1, GateInvariant, PTL

\* A level is due only for a crossing between the last two prices of a segment,
\* for any prices, levels and sequence of reconnections and pauses.
THEOREM EntriesAnswerCrossings == Spec => EntryAnswersItsCrossing
<1> DEFINE Answers ==
      \A l \in crossed' \ crossed : seen > EntryPrice[l] /\ seen' <= EntryPrice[l]
<1>1. ASSUME Inv, GateInv, [Next]_vars PROVE [Answers]_vars
  <2>1. CASE crossed' \subseteq crossed
    BY <2>1
  <2>2. CASE \E p \in Prices : Trigger(p)
    <3>1. PICK p \in Prices : Trigger(p)
      BY <2>2
    <3>2. crossed' = Crossed(p) /\ seen' = p /\ seen = previous
      BY <1>1, <3>1 DEF Trigger, Waiting, GateInv, SegmentInv
    <3> QED BY <3>2 DEF Crossed
  <2>3. CASE Coordinate
    BY <2>1, <2>2, <2>3 DEF Coordinate, ResetSegment, Block, Admit, Reach, PlaceEntry
  <2>4. CASE \E c \in Calls : CallStep(c) \/ \E m \in Commands : Begin(c, m)
    BY <1>1, <2>1, <2>4, CallLeaves DEF coordinator
  <2>5. CASE Start \/ End \/ Exchange \/ UNCHANGED vars
    BY <2>1, <2>5 DEF Start, End, Exchange, Land, Vanish, vars, coordinator
  <2> QED BY <1>1, <2>3, <2>4, <2>5 DEF Next
<1>2. Inv /\ GateInv /\ [Next]_vars => [Answers]_vars
  BY <1>1
<1> QED BY <1>2, ControlInvariant, GateInvariant, PTL DEF Spec, EntryAnswersItsCrossing

-----------------------------------------------------------------------------
(* The cycle of several levels *)

EntrySteps == {"submit", "fill", "aggregate"}
ClosingSteps == {"list", "cancel", "relist", "settle"}
ExitSteps == {"verify", "restart", "amend", "poll", "final", "done"} \cup ClosingSteps
RunSteps == {"trade", "install", "raised"} \cup EntrySteps \cup ExitSteps
Protected == {"ACTIVE_PROTECTED", "RECONCILING", "EXIT_PARTIALLY_FILLED", "CANCEL_PENDING",
              "CLOSED_TP", "CLOSED_STOP"}

RunTypes ==
  /\ orders \in [LevelIds -> [LevelRoles -> {"NONE", "OPEN", "DONE"}]]
  /\ done \in [LevelIds -> [LevelRoles -> Nat]]
  /\ published \in [LevelIds -> [LevelRoles -> Nat]]
  /\ booked \in [LevelIds -> [LevelRoles -> Nat]]
  /\ entries \in [LevelIds -> {"NONE", "ENTRY_ACKNOWLEDGED", "ACTIVE_UNPROTECTED", "RECONCILING"}]
  /\ protections \in [LevelIds -> {"NONE"} \cup Protected]
  /\ step \in RunSteps /\ polls \in Nat
  /\ batch \in SUBSET LevelIds /\ closing \in LevelIds
  /\ targets \in SUBSET (LevelIds \X ExitRoles) /\ missed \in SUBSET LevelIds

\* The books lag behind the exchange, and an order that works has something left.
BooksLag ==
  \A l \in LevelIds, r \in LevelRoles :
    booked[l][r] <= published[l][r] /\ published[l][r] <= done[l][r]
OrdersHaveRoom ==
  \A l \in LevelIds :
    /\ done[l]["ENTRY"] <= LevelLots
    /\ \A r \in LevelRoles : orders[l][r] = "NONE" => done[l][r] = 0
    /\ orders[l]["ENTRY"] = "OPEN" =>
         done[l]["ENTRY"] < LevelLots /\ entries[l] # "ACTIVE_UNPROTECTED"
    /\ \A r \in ExitRoles : orders[l][r] = "OPEN" => done[l][r] < booked[l]["ENTRY"]

\* What the snapshots of a level promise: an entry that was accepted as filled is over
\* and booked in full, and exits are placed only after that.
Filled(l) ==
  /\ orders[l]["ENTRY"] = "DONE"
  /\ booked[l]["ENTRY"] = done[l]["ENTRY"] /\ done[l]["ENTRY"] > 0
SnapshotsAreTrue ==
  \A l \in LevelIds :
    /\ entries[l] = "NONE" => orders[l]["ENTRY"] = "NONE"
    /\ entries[l] = "ACTIVE_UNPROTECTED" \/ protections[l] # "NONE" => Filled(l)
    /\ protections[l] # "NONE" => entries[l] \in {"ACTIVE_UNPROTECTED", "RECONCILING"}
    /\ protections[l] = "NONE" => \A r \in ExitRoles : orders[l][r] = "NONE"

\* What the runner may rely on at each step.
RunPath ==
  step # "raised" =>
    /\ step \in EntrySteps \cup {"install"} <=> batch # {}
    /\ step \in EntrySteps => \A l \in batch : protections[l] = "NONE"
    /\ step = "submit" =>
         /\ \A l \in batch : entries[l] \in {"NONE", "ENTRY_ACKNOWLEDGED"}
         /\ entries[Max(batch)] = "NONE"
    /\ step = "fill" =>
         /\ \A l \in batch : entries[l] \in {"ENTRY_ACKNOWLEDGED", "ACTIVE_UNPROTECTED"}
         /\ entries[Max(batch)] = "ENTRY_ACKNOWLEDGED"
    /\ step \in {"aggregate", "install"} => \A l \in batch : entries[l] = "ACTIVE_UNPROTECTED"
    /\ step = "install" => \A l \in batch : orders[l]["TP"] = "NONE"
    /\ \A l \in LevelIds \ batch :
         \/ entries[l] = "NONE" /\ protections[l] = "NONE"
         \/ entries[l] = "ACTIVE_UNPROTECTED" /\ protections[l] # "NONE"
ExitPath ==
  step # "raised" =>
    /\ step \notin ExitSteps =>
         \A l \in LevelIds : protections[l] \in {"NONE", "ACTIVE_PROTECTED"}
    /\ step \in ExitSteps =>
         /\ \A l \in LevelIds : protections[l] # "NONE"
         /\ \A l \in LevelIds : l > closing => protections[l] = "ACTIVE_PROTECTED"
    /\ step \in {"verify", "restart", "amend", "poll"} =>
         protections[closing] \notin {"CANCEL_PENDING", "CLOSED_TP", "CLOSED_STOP"}
    /\ step \in ClosingSteps =>
         /\ protections[closing] = "CANCEL_PENDING"
         /\ Exited(booked, closing) = booked[closing]["ENTRY"]
    /\ step \in {"cancel", "settle"} => targets \subseteq {closing} \X ExitRoles
    /\ step = "settle" /\ targets = {} => \A r \in ExitRoles : orders[closing][r] # "OPEN"

\* A level's stop works, or its exits have covered its entry, or its stop was triggered
\* and left the rest.  Otherwise the position was emptied by the exits of the others: it
\* stays so, or the reconciliation of the entries that follow sees that something has left.
Covered(l) ==
  orders[l]["STOP"] = "OPEN" \/ done[l]["ENTRY"] <= Exited(done, l) \/ l \in missed
SomeExit == \E l \in LevelIds, r \in ExitRoles : done[l][r] > 0
StopInv ==
  step # "raised" =>
    \/ \A l \in LevelIds : protections[l] # "NONE" => Covered(l)
    \/ step \in EntrySteps /\ SomeExit
    \/ step \notin EntrySteps /\ NetPosition = 0

RunBooks == BooksLag /\ OrdersHaveRoom /\ SnapshotsAreTrue
RunInv == RunTypes /\ RunBooks /\ RunPath /\ ExitPath /\ StopInv /\ ClosedLevelIsExplained

-----------------------------------------------------------------------------
(* Sums *)

LEMMA LevelsAreFinite == IsFiniteSet(LevelIds) /\ LevelIds \subseteq Nat /\ 1 \in LevelIds
BY FS_Interval, RunConstants DEF LevelIds

LEMMA LeastLevel ==
  ASSUME NEW S \in SUBSET LevelIds, S # {}
  PROVE  Min(S) \in S /\ \A y \in S : Min(S) <= y
BY LevelsAreFinite, LeastElement

LEMMA LastLevel ==
  ASSUME NEW S \in SUBSET LevelIds, S # {}
  PROVE  Max(S) \in S /\ \A y \in S : Max(S) >= y
BY RunConstants, GreatestElement DEF LevelIds

LEMMA MinOfTwo ==
  ASSUME NEW m \in Nat, NEW n \in Nat
  PROVE  Min({m, n}) = IF m <= n THEN m ELSE n
<1>1. Min({m, n}) \in {m, n} /\ \A y \in {m, n} : Min({m, n}) <= y
  BY LeastElement
<1> QED BY <1>1

\* Lots of a level that the exchange holds, and that its entry sold.
HeldLots == [l \in LevelIds |-> done[l]["ENTRY"] - Exited(done, l)]
SoldLots == [l \in LevelIds |-> done[l]["ENTRY"]]

LEMMA RoleTypes ==
  ASSUME RunTypes, NEW l \in LevelIds
  PROVE  /\ \A r \in LevelRoles : done[l][r] \in Nat /\ published[l][r] \in Nat /\ booked[l][r] \in Nat
         /\ \A r \in LevelRoles : orders[l][r] \in {"NONE", "OPEN", "DONE"}
         /\ {"ENTRY", "STOP", "TP"} = LevelRoles /\ ExitRoles \subseteq LevelRoles
         /\ Exited(done, l) \in Nat /\ Exited(booked, l) \in Nat /\ Exited(published, l) \in Nat
<1>1. {"ENTRY", "STOP", "TP"} = LevelRoles
  BY DEF LevelRoles, ExitRoles
<1> QED BY <1>1 DEF RunTypes, Exited, ExitRoles

LEMMA HeldTypes ==
  ASSUME RunTypes
  PROVE  /\ NetPosition = Sum(HeldLots, LevelIds) /\ NetPosition \in Int
         /\ \A l \in LevelIds : /\ HeldLots[l] = done[l]["ENTRY"] - Exited(done, l)
                                /\ SoldLots[l] = done[l]["ENTRY"]
                                /\ HeldLots[l] \in Int /\ SoldLots[l] \in Nat
                                /\ HeldLots[l] <= SoldLots[l]
<1>1. NetPosition = Sum(HeldLots, LevelIds)
  BY DEF NetPosition, HeldLots, Sum
<1>2. \A l \in LevelIds : /\ HeldLots[l] = done[l]["ENTRY"] - Exited(done, l)
                          /\ SoldLots[l] = done[l]["ENTRY"]
                          /\ HeldLots[l] \in Int /\ SoldLots[l] \in Nat
                          /\ HeldLots[l] <= SoldLots[l]
  BY RoleTypes DEF HeldLots, SoldLots
<1>3. Sum(HeldLots, LevelIds) \in Int
  BY <1>2, LevelsAreFinite, SumType
<1> QED BY <1>1, <1>2, <1>3

\* A position that is empty although something was sold has been reduced.
LEMMA EmptiedByExits ==
  ASSUME RunTypes, NEW l \in LevelIds, done[l]["ENTRY"] > 0, NetPosition = 0
  PROVE  SomeExit
<1> SUFFICES ASSUME ~SomeExit PROVE FALSE
  OBVIOUS
<1>1. \A k \in LevelIds : HeldLots[k] = SoldLots[k] /\ HeldLots[k] \in Nat /\ HeldLots[k] \in Int
  <2> SUFFICES ASSUME NEW k \in LevelIds
               PROVE HeldLots[k] = SoldLots[k] /\ HeldLots[k] \in Nat /\ HeldLots[k] \in Int
    OBVIOUS
  <2>1. done[k]["STOP"] = 0 /\ done[k]["TP"] = 0
    BY RoleTypes DEF SomeExit, ExitRoles
  <2> QED BY <2>1, RoleTypes, HeldTypes DEF Exited
<1>2. Sum(HeldLots, LevelIds) = HeldLots[l] + Sum(HeldLots, LevelIds \ {l})
  <2>1. IsFiniteSet(LevelIds) /\ \A y \in LevelIds : HeldLots[y] \in Int
    BY <1>1, LevelsAreFinite
  <2> QED BY <2>1, SumRemove
<1>3. Sum(HeldLots, LevelIds \ {l}) \in Nat
  <2> DEFINE S == LevelIds \ {l}
  <2>1. IsFiniteSet(S) /\ \A k \in S : HeldLots[k] \in Nat
    BY <1>1, LevelsAreFinite, FS_Subset
  <2> HIDE DEF S
  <2>2. Sum(HeldLots, S) \in Nat
    BY <2>1, SumType
  <2> QED BY <2>2 DEF S
<1> QED BY <1>1, <1>2, <1>3, HeldTypes, RoleTypes

\* If all that was sold is booked, the reconciliation of the entries passes only if
\* nothing has left.
LEMMA AggregateSeesExits ==
  ASSUME RunTypes, NetPosition = EnteredLots,
         \A l \in LevelIds : IF entries[l] = "NONE" THEN done[l]["ENTRY"] = 0
                             ELSE booked[l]["ENTRY"] = done[l]["ENTRY"]
  PROVE  ~SomeExit
<1> DEFINE b == [l \in LevelIds |-> booked[l]["ENTRY"]]
<1>1. Submitted \in SUBSET LevelIds /\ IsFiniteSet(Submitted)
  BY LevelsAreFinite, FS_Subset DEF Submitted
<1>2. \A l \in Submitted : b[l] \in Int /\ b[l] = SoldLots[l]
  BY HeldTypes, RoleTypes DEF Submitted
<1>3. EnteredLots = Sum(b, Submitted)
  BY DEF EnteredLots, Sum
<1> HIDE DEF b
<1>4. Sum(b, Submitted) = Sum(SoldLots, Submitted)
  BY <1>1, <1>2, SumSame
<1>5. Sum(SoldLots, Submitted) = Sum(SoldLots, LevelIds)
  <2>1. \A l \in LevelIds : SoldLots[l] \in Int
    BY HeldTypes
  <2>2. \A l \in LevelIds \ Submitted : SoldLots[l] = 0
    BY HeldTypes DEF Submitted
  <2> QED BY <1>1, <2>1, <2>2, LevelsAreFinite, SumSupport
<1>6. Sum(SoldLots, LevelIds) = Sum(HeldLots, LevelIds) /\ Sum(HeldLots, LevelIds) \in Int
  BY <1>3, <1>4, <1>5, HeldTypes
<1>7. \A l \in LevelIds : HeldLots[l] = SoldLots[l]
  <2>1. \A l \in LevelIds : HeldLots[l] \in Int /\ SoldLots[l] \in Int /\ HeldLots[l] <= SoldLots[l]
    BY HeldTypes
  <2>2. Sum(SoldLots, LevelIds) <= Sum(HeldLots, LevelIds)
    BY <1>6
  <2>3. IsFiniteSet(LevelIds)
    BY LevelsAreFinite
  <2> QED BY <2>1, <2>2, <2>3, SumTight
<1>8. ASSUME NEW l \in LevelIds, NEW r \in ExitRoles PROVE ~(done[l][r] > 0)
  <2>1. done[l]["STOP"] + done[l]["TP"] = 0
    BY <1>7, HeldTypes, RoleTypes DEF Exited
  <2> QED BY <2>1, RoleTypes DEF ExitRoles
<1> QED BY <1>8 DEF SomeExit

\* If every level is booked up to its entry and the books never lead, a position that
\* the open quantities explain means that the books of every exit are complete.
LEMMA MatchingBooksAreComplete ==
  ASSUME RunTypes, BooksLag, AggregateMatches,
         \A l \in LevelIds : protections[l] # "NONE" /\ booked[l]["ENTRY"] = done[l]["ENTRY"],
         NEW l \in LevelIds
  PROVE  booked[l] = done[l]
<1> DEFINE q == [k \in LevelIds |-> OpenQuantity(k)]
<1>1. NetPosition = Sum(q, LevelIds)
  <2>1. {k \in LevelIds : protections[k] # "NONE"} = LevelIds
    OBVIOUS
  <2> QED BY <2>1 DEF AggregateMatches, Sum
<1>2. \A k \in LevelIds : HeldLots[k] \in Int /\ q[k] \in Int /\ HeldLots[k] <= q[k]
  <2> SUFFICES ASSUME NEW k \in LevelIds
               PROVE HeldLots[k] \in Int /\ q[k] \in Int /\ HeldLots[k] <= q[k]
    OBVIOUS
  <2>1. booked[k]["STOP"] <= done[k]["STOP"] /\ booked[k]["TP"] <= done[k]["TP"]
    BY RoleTypes DEF BooksLag
  <2> QED BY <2>1, RoleTypes, HeldTypes DEF OpenQuantity, Exited
<1>3. Sum(q, LevelIds) <= Sum(HeldLots, LevelIds)
  BY <1>1, HeldTypes
<1>4. HeldLots[l] = q[l]
  <2> HIDE DEF q
  <2>1. IsFiniteSet(LevelIds)
    BY LevelsAreFinite
  <2> QED BY <1>2, <1>3, <2>1, SumTight
<1>5. \A r \in LevelRoles : booked[l][r] = done[l][r]
  <2>1. booked[l]["STOP"] <= done[l]["STOP"] /\ booked[l]["TP"] <= done[l]["TP"]
    BY RoleTypes DEF BooksLag
  <2>2. done[l]["STOP"] + done[l]["TP"] = booked[l]["STOP"] + booked[l]["TP"]
    BY <1>4, RoleTypes, HeldTypes DEF OpenQuantity, Exited
  <2>3. booked[l]["STOP"] = done[l]["STOP"] /\ booked[l]["TP"] = done[l]["TP"]
    BY <2>1, <2>2, RoleTypes
  <2> QED BY <2>3 DEF LevelRoles, ExitRoles
<1> QED BY <1>5 DEF RunTypes

\* Covered levels, working stops and what the triggered ones left.
LEMMA StopsCover ==
  ASSUME RunTypes, RunBooks,
         \A l \in LevelIds : IF protections[l] = "NONE" THEN done[l]["ENTRY"] = 0 ELSE Covered(l)
  PROVE  NetPosition <= StoppedLots + MissedLots
<1> DEFINE Working == {l \in LevelIds : orders[l]["STOP"] = "OPEN"}
           left == [l \in LevelIds |-> Ordered(l, "STOP") - done[l]["STOP"]]
           g == [l \in LevelIds |-> IF l \in Working THEN left[l] ELSE 0]
           h == [l \in LevelIds |-> IF l \in missed THEN HeldLots[l] ELSE 0]
           d == [l \in LevelIds |-> HeldLots[l] - h[l]]
<1>1. /\ StoppedLots = Sum(left, Working) /\ Working \in SUBSET LevelIds
      /\ MissedLots = Sum(HeldLots, missed) /\ missed \in SUBSET LevelIds
      /\ IsFiniteSet(Working) /\ IsFiniteSet(missed)
  BY LevelsAreFinite, FS_Subset DEF StoppedLots, MissedLots, HeldLots, Sum, RunTypes
<1>2. \A l \in LevelIds : g[l] \in Int /\ d[l] \in Int /\ d[l] <= g[l]
  <2> SUFFICES ASSUME NEW l \in LevelIds
               PROVE g[l] \in Int /\ d[l] \in Int /\ d[l] <= g[l]
    OBVIOUS
  <2>1. CASE l \in Working
    <3>1. protections[l] # "NONE" /\ booked[l]["ENTRY"] = done[l]["ENTRY"]
      BY <2>1 DEF RunBooks, SnapshotsAreTrue, Filled, ExitRoles
    <3>2. done[l]["STOP"] < booked[l]["ENTRY"]
      BY <2>1 DEF RunBooks, OrdersHaveRoom, ExitRoles
    <3> QED BY <2>1, <3>1, <3>2, RoleTypes, HeldTypes DEF Ordered, Exited
  <2>2. CASE l \notin Working
    BY <2>2, RoleTypes, HeldTypes DEF Covered
  <2> QED BY <2>1, <2>2
<1>3. \A l \in Working : g[l] \in Int /\ g[l] = left[l]
  BY <1>2
<1>4. \A l \in LevelIds \ Working : g[l] = 0
  OBVIOUS
<1>5. /\ \A l \in LevelIds : h[l] \in Int /\ HeldLots[l] \in Int /\ HeldLots[l] = d[l] + h[l]
      /\ \A l \in missed : h[l] = HeldLots[l]
      /\ \A l \in LevelIds \ missed : h[l] = 0
  BY HeldTypes, <1>1
<1> HIDE DEF g, left, Working, h, d
<1>6. Sum(g, LevelIds) = Sum(g, Working)
  BY <1>1, <1>2, <1>4, LevelsAreFinite, SumSupport
<1>7. Sum(g, Working) = Sum(left, Working)
  BY <1>1, <1>3, SumSame
<1>8. Sum(h, LevelIds) = Sum(h, missed) /\ Sum(h, missed) = Sum(HeldLots, missed)
  <2>1. Sum(h, LevelIds) = Sum(h, missed)
    BY <1>1, <1>5, LevelsAreFinite, SumSupport
  <2>2. \A l \in missed : h[l] \in Int /\ h[l] = HeldLots[l]
    BY <1>1, <1>5
  <2> QED BY <1>1, <2>1, <2>2, SumSame
<1>9. Sum(HeldLots, LevelIds) = Sum(d, LevelIds) + Sum(h, LevelIds)
  BY <1>2, <1>5, LevelsAreFinite, SumOfTwo
<1>10. Sum(d, LevelIds) <= Sum(g, LevelIds)
  BY <1>2, LevelsAreFinite, SumMonotone
<1>11. Sum(d, LevelIds) \in Int /\ Sum(g, LevelIds) \in Int /\ Sum(h, LevelIds) \in Int
  BY <1>2, <1>5, LevelsAreFinite, SumType
<1> QED BY <1>1, <1>6, <1>7, <1>8, <1>9, <1>10, <1>11, HeldTypes

-----------------------------------------------------------------------------
(* Steps of the cycle *)

LEMMA RunInitially == RunInit => RunInv
<1> SUFFICES ASSUME RunInit PROVE RunInv
  OBVIOUS
<1> USE DEF RunInit, PerRole
<1>1. RunTypes
  BY LevelsAreFinite DEF RunTypes, RunSteps, LevelRoles, ExitRoles
<1>2. RunBooks
  BY RunConstants DEF RunBooks, BooksLag, OrdersHaveRoom, SnapshotsAreTrue, LevelRoles, ExitRoles
<1>3. RunPath /\ ExitPath /\ StopInv /\ ClosedLevelIsExplained
  BY DEF RunPath, ExitPath, StopInv, ClosedLevelIsExplained, EntrySteps, ExitSteps, ClosingSteps
<1> QED BY <1>1, <1>2, <1>3 DEF RunInv

\* The position depends on what was executed only.
LEMMA SamePosition == ASSUME UNCHANGED done PROVE NetPosition' = NetPosition
BY DEF NetPosition, Exited

\* Nothing is relied on after an exception.
LEMMA AfterException == ASSUME step' = "raised" PROVE RunPath' /\ ExitPath' /\ StopInv'
BY DEF RunPath, ExitPath, StopInv

\* A step of the runner that leaves exchange and store alone.
LEMMA BooksStay ==
  ASSUME RunInv, UNCHANGED <<exchangeSide, storeSide>>
  PROVE  RunBooks' /\ ClosedLevelIsExplained'
BY DEF RunInv, exchangeSide, storeSide, RunBooks, BooksLag, OrdersHaveRoom, SnapshotsAreTrue,
       Filled, ClosedLevelIsExplained, Exited

\* A step of the exchange places no order and disturbs no path.
LEMMA ExchangeKeepsPaths ==
  ASSUME RunInv, UNCHANGED <<storeSide, runnerSide>>,
         \A l \in LevelIds, r \in LevelRoles :
           /\ orders[l][r] = "NONE" => orders'[l][r] = "NONE"
           /\ orders'[l][r] = "OPEN" => orders[l][r] = "OPEN"
  PROVE  RunPath' /\ ExitPath'
<1> USE DEF RunInv, storeSide, runnerSide
<1>1. RunPath'
  BY DEF RunPath, RunTypes, LevelRoles, ExitRoles
<1>2. ExitPath'
  BY DEF ExitPath, RunTypes, LevelRoles, ExitRoles, Exited
<1> QED BY <1>1, <1>2

\* Only an entry that is awaited works.
LEMMA WorkingEntry ==
  ASSUME RunInv, step # "raised", NEW l \in LevelIds, orders[l]["ENTRY"] = "OPEN"
  PROVE  entries[l] = "ENTRY_ACKNOWLEDGED" /\ protections[l] = "NONE" /\ step \in {"submit", "fill"}
<1>1. protections[l] = "NONE" /\ entries[l] \notin {"NONE", "ACTIVE_UNPROTECTED"}
  BY DEF RunInv, RunBooks, SnapshotsAreTrue, Filled
<1>2. l \in batch
  BY <1>1 DEF RunInv, RunPath
<1> QED BY <1>1, <1>2 DEF RunInv, RunPath, EntrySteps

LEMMA ExecuteKeeps ==
  ASSUME RunInv, NEW l \in LevelIds, NEW r \in LevelRoles, Execute(l, r)
  PROVE  RunInv'
<1> DEFINE more(k, t) == IF k = l /\ t = r THEN 1 ELSE 0
<1>1. /\ orders[l][r] = "OPEN" /\ (r \in ExitRoles => NetPosition > 0)
      /\ done' = [done EXCEPT ![l][r] = @ + 1]
      /\ orders' = [orders EXCEPT ![l][r] = IF done'[l][r] = Ordered(l, r) THEN "DONE" ELSE @]
      /\ UNCHANGED <<published, missed, storeSide, runnerSide>>
  BY DEF Execute
<1>2. \A k \in LevelIds, t \in LevelRoles : done'[k][t] = done[k][t] + more(k, t)
  BY <1>1, RoleTypes DEF RunInv, RunTypes
<1>3. \A k \in LevelIds, t \in LevelRoles :
        orders'[k][t] = IF k = l /\ t = r
                        THEN (IF done[l][r] + 1 = Ordered(l, r) THEN "DONE" ELSE "OPEN")
                        ELSE orders[k][t]
  BY <1>1, <1>2 DEF RunInv, RunTypes
<1>4. RunTypes'
  BY <1>1, <1>2, <1>3 DEF RunInv, RunTypes, storeSide, runnerSide
<1>5. booked' = booked /\ entries' = entries /\ protections' = protections /\ published' = published
  BY <1>1 DEF storeSide
<1> HIDE DEF more
<1>6. \A k \in LevelIds, t \in LevelRoles :
        /\ done[k][t] <= done'[k][t] /\ done'[k][t] \in Nat /\ done[k][t] \in Nat
        /\ k # l \/ t # r => done'[k][t] = done[k][t]
  BY <1>2, RoleTypes DEF more, RunInv
<1>7. done'[l][r] = done[l][r] + 1
  BY <1>2 DEF more
<1>8. RunBooks'
  <2>1. BooksLag'
    BY <1>5, <1>6, RoleTypes DEF RunInv, RunBooks, BooksLag
  <2>2. OrdersHaveRoom'
    <3> SUFFICES ASSUME NEW k \in LevelIds
                 PROVE  /\ done'[k]["ENTRY"] <= LevelLots
                        /\ \A t \in LevelRoles : orders'[k][t] = "NONE" => done'[k][t] = 0
                        /\ orders'[k]["ENTRY"] = "OPEN" =>
                             done'[k]["ENTRY"] < LevelLots /\ entries'[k] # "ACTIVE_UNPROTECTED"
                        /\ \A t \in ExitRoles :
                             orders'[k][t] = "OPEN" => done'[k][t] < booked'[k]["ENTRY"]
      BY DEF OrdersHaveRoom
    <3>1. /\ done[k]["ENTRY"] <= LevelLots
          /\ \A t \in LevelRoles : orders[k][t] = "NONE" => done[k][t] = 0
          /\ orders[k]["ENTRY"] = "OPEN" =>
               done[k]["ENTRY"] < LevelLots /\ entries[k] # "ACTIVE_UNPROTECTED"
          /\ \A t \in ExitRoles : orders[k][t] = "OPEN" => done[k][t] < booked[k]["ENTRY"]
      BY DEF RunInv, RunBooks, OrdersHaveRoom
    <3>2. "ENTRY" \in LevelRoles /\ ExitRoles \subseteq LevelRoles /\ "ENTRY" \notin ExitRoles
      BY DEF LevelRoles, ExitRoles
    <3>3. booked[k]["ENTRY"] \in Nat /\ LevelLots \in Nat
      BY RoleTypes, RunConstants DEF RunInv
    <3> QED BY <1>1, <1>3, <1>5, <1>6, <1>7, <3>1, <3>2, <3>3 DEF Ordered, LevelRoles
  <2>3. SnapshotsAreTrue'
    BY <1>1, <1>3, <1>5, <1>6 DEF RunInv, RunBooks, SnapshotsAreTrue, Filled, LevelRoles, ExitRoles
  <2> QED BY <2>1, <2>2, <2>3 DEF RunBooks
<1>9. RunPath' /\ ExitPath'
  BY <1>1, <1>3, ExchangeKeepsPaths
<1>10. ClosedLevelIsExplained'
  BY <1>1, <1>3, <1>5, <1>6 DEF RunInv, ClosedLevelIsExplained, Exited, LevelRoles, ExitRoles
<1>11. StopInv'
  <2> SUFFICES ASSUME step' # "raised"
               PROVE  \/ \A k \in LevelIds : protections'[k] # "NONE" => Covered(k)'
                      \/ step' \in EntrySteps /\ SomeExit'
                      \/ step' \notin EntrySteps /\ NetPosition' = 0
    BY DEF StopInv
  <2>1. step' = step /\ ExitRoles \subseteq LevelRoles
    BY <1>1 DEF runnerSide, LevelRoles
  <2>2. CASE \A k \in LevelIds : protections[k] # "NONE" => Covered(k)
    <3> SUFFICES ASSUME NEW k \in LevelIds, protections[k] # "NONE" PROVE Covered(k)'
      BY <1>5
    <3>1. /\ \A t \in LevelRoles : done'[k][t] \in Nat /\ done[k][t] \in Nat /\ done[k][t] <= done'[k][t]
          /\ "ENTRY" \in LevelRoles /\ "STOP" \in LevelRoles /\ "TP" \in LevelRoles
      BY <1>6 DEF LevelRoles, ExitRoles
    <3>2. Filled(k)
      BY DEF RunInv, RunBooks, SnapshotsAreTrue
    <3>3. done'[k]["ENTRY"] = done[k]["ENTRY"]
      BY <1>1, <1>6, <3>1, <3>2 DEF Filled
    <3>4. CASE orders[k]["STOP"] = "OPEN"
      <4>1. CASE orders'[k]["STOP"] = "OPEN"
        BY <4>1 DEF Covered
      <4>2. CASE orders'[k]["STOP"] # "OPEN"
        <5>1. k = l /\ r = "STOP" /\ done[l]["STOP"] + 1 = booked[k]["ENTRY"]
          BY <1>3, <3>1, <3>4, <4>2 DEF Ordered
        <5>2. done'[k]["STOP"] = done[k]["ENTRY"]
          BY <1>7, <3>2, <5>1 DEF Filled
        <5> QED BY <3>1, <3>3, <5>2 DEF Covered, Exited
      <4> QED BY <4>1, <4>2
    <3>5. CASE orders[k]["STOP"] # "OPEN"
      BY <1>1, <2>2, <3>1, <3>3, <3>5 DEF Covered, Exited
    <3> QED BY <3>4, <3>5
  <2>3. CASE step \in EntrySteps /\ SomeExit
    <3>1. SomeExit'
      BY <1>6, <2>1, <2>3 DEF SomeExit
    <3> QED BY <2>1, <2>3, <3>1
  <2>4. CASE step \notin EntrySteps /\ NetPosition = 0
    <3>1. r = "ENTRY"
      BY <1>1, <2>4 DEF LevelRoles
    <3> QED BY <1>1, <2>1, <2>4, <3>1, WorkingEntry DEF EntrySteps
  <2> QED BY <2>1, <2>2, <2>3, <2>4 DEF RunInv, StopInv
<1> QED BY <1>4, <1>8, <1>9, <1>10, <1>11 DEF RunInv

LEMMA RemoveKeeps ==
  ASSUME RunInv, NEW l \in LevelIds, NEW r \in LevelRoles, Remove(l, r)
  PROVE  RunInv'
<1>1. /\ orders[l][r] = "OPEN"
      /\ orders' = [orders EXCEPT ![l][r] = "DONE"]
      /\ missed' = missed \cup (IF r = "STOP" /\ NetPosition # 0 THEN {l} ELSE {})
      /\ UNCHANGED <<done, published, storeSide, runnerSide>>
  BY DEF Remove
<1>2. \A k \in LevelIds, t \in LevelRoles :
        orders'[k][t] = IF k = l /\ t = r THEN "DONE" ELSE orders[k][t]
  BY <1>1 DEF RunInv, RunTypes
<1>3. RunTypes'
  BY <1>1, <1>2 DEF RunInv, RunTypes, storeSide, runnerSide
<1>4. booked' = booked /\ entries' = entries /\ protections' = protections
      /\ published' = published /\ done' = done /\ step' = step
  BY <1>1 DEF storeSide, runnerSide
<1>5. RunBooks'
  BY <1>1, <1>2, <1>4 DEF RunInv, RunBooks, BooksLag, OrdersHaveRoom, SnapshotsAreTrue, Filled,
     LevelRoles, ExitRoles
<1>6. RunPath' /\ ExitPath'
  BY <1>1, <1>2, ExchangeKeepsPaths
<1>7. ClosedLevelIsExplained'
  BY <1>1, <1>2, <1>4 DEF RunInv, ClosedLevelIsExplained, Exited, LevelRoles, ExitRoles
<1>8. StopInv'
  <2> SUFFICES ASSUME step' # "raised"
               PROVE  \/ \A k \in LevelIds : protections'[k] # "NONE" => Covered(k)'
                      \/ step' \in EntrySteps /\ SomeExit'
                      \/ step' \notin EntrySteps /\ NetPosition' = 0
    BY DEF StopInv
  <2>1. NetPosition' = NetPosition /\ SomeExit' = SomeExit
    BY <1>4, SamePosition DEF SomeExit
  <2>2. CASE r # "STOP"
    <3>1. \A k \in LevelIds : Covered(k)' = Covered(k)
      BY <1>1, <1>2, <1>4, <2>2 DEF Covered, Exited, LevelRoles, ExitRoles
    <3> QED BY <1>4, <2>1, <3>1 DEF RunInv, StopInv
  <2>3. CASE r = "STOP" /\ NetPosition # 0
    <3>1. \A k \in LevelIds : Covered(k) => Covered(k)'
      BY <1>1, <1>2, <1>4, <2>3 DEF Covered, Exited, LevelRoles, ExitRoles
    <3> QED BY <1>4, <2>1, <2>3, <3>1 DEF RunInv, StopInv
  <2>4. CASE r = "STOP" /\ NetPosition = 0
    <3>1. NetPosition = 0 /\ protections[l] # "NONE"
      BY <1>1, <2>4 DEF RunInv, RunBooks, SnapshotsAreTrue, ExitRoles
    <3>2. SomeExit
      BY <3>1, EmptiedByExits DEF RunInv, RunBooks, SnapshotsAreTrue, Filled
    <3> QED BY <1>4, <2>1, <3>1, <3>2
  <2> QED BY <2>2, <2>3, <2>4
<1> QED BY <1>3, <1>5, <1>6, <1>7, <1>8 DEF RunInv

\* The step changes neither what is covered nor what was executed, and stays on its side
\* of the entries.
LEMMA StopsStay ==
  ASSUME RunInv, UNCHANGED <<orders, done, missed, protections>>, step # "raised",
         step' \in EntrySteps <=> step \in EntrySteps
  PROVE  StopInv'
<1>1. NetPosition' = NetPosition /\ SomeExit' = SomeExit
  BY SamePosition DEF SomeExit
<1>2. \A l \in LevelIds : Covered(l)' = Covered(l)
  BY DEF Covered, Exited
<1> QED BY <1>1, <1>2 DEF RunInv, StopInv

LEMMA PublishKeeps == ASSUME RunInv, PublishExecutions PROVE RunInv'
<1>1. published' = done /\ UNCHANGED <<orders, done, missed, storeSide, runnerSide>>
  BY DEF PublishExecutions
<1>2. RunTypes' /\ StopInv'
  <2>1. RunTypes'
    BY <1>1 DEF RunInv, RunTypes, storeSide, runnerSide
  <2>2. CASE step # "raised"
    BY <1>1, <2>1, <2>2, StopsStay DEF storeSide, runnerSide
  <2>3. CASE step = "raised"
    BY <1>1, <2>1, <2>3, AfterException DEF runnerSide
  <2> QED BY <2>1, <2>2, <2>3
<1>3. RunPath' /\ ExitPath'
  BY <1>1, ExchangeKeepsPaths
<1>4. BooksLag'
  <2> SUFFICES ASSUME NEW l \in LevelIds, NEW r \in LevelRoles
               PROVE booked'[l][r] <= published'[l][r] /\ published'[l][r] <= done'[l][r]
    BY DEF BooksLag
  <2> QED BY <1>1, RoleTypes DEF RunInv, RunBooks, BooksLag, storeSide
<1>5. OrdersHaveRoom' /\ SnapshotsAreTrue' /\ ClosedLevelIsExplained'
  BY <1>1 DEF RunInv, RunBooks, OrdersHaveRoom, SnapshotsAreTrue, Filled, ClosedLevelIsExplained,
     Exited, storeSide
<1> QED BY <1>2, <1>3, <1>4, <1>5 DEF RunInv, RunBooks

LEMMA CrossKeeps ==
  ASSUME RunInv, NEW k \in LevelIds, CrossLevels(k)
  PROVE  RunInv'
<1>1. /\ step = "trade" /\ k \in Unsubmitted /\ batch' = {l \in Unsubmitted : l <= k}
      /\ step' = "submit" /\ UNCHANGED <<exchangeSide, storeSide, polls, closing, targets>>
  BY DEF CrossLevels
<1>2. Unsubmitted = {l \in LevelIds : entries[l] = "NONE"}
  BY DEF Unsubmitted, Submitted
<1>3. RunTypes'
  BY <1>1, <1>2 DEF RunInv, RunTypes, RunSteps, EntrySteps, exchangeSide, storeSide
<1>4. RunBooks' /\ ClosedLevelIsExplained'
  BY <1>1, BooksStay
<1>5. batch' \in SUBSET LevelIds /\ batch' # {} /\ \A l \in batch' : entries[l] = "NONE"
  BY <1>1, <1>2, LevelsAreFinite
<1>6. RunPath'
  <2>1. Max(batch') \in batch'
    BY <1>5, LastLevel
  <2>2. \A l \in LevelIds : \/ entries[l] = "NONE" /\ protections[l] = "NONE"
                            \/ entries[l] = "ACTIVE_UNPROTECTED" /\ protections[l] # "NONE"
    BY <1>1 DEF RunInv, RunPath, EntrySteps
  <2> QED BY <1>1, <1>5, <2>1, <2>2 DEF RunPath, EntrySteps, storeSide
<1>7. ExitPath'
  BY <1>1 DEF RunInv, ExitPath, ExitSteps, ClosingSteps, exchangeSide, storeSide
<1>8. StopInv'
  <2>1. NetPosition' = NetPosition /\ SomeExit' = SomeExit
    BY <1>1, SamePosition DEF SomeExit, exchangeSide
  <2>2. \A l \in LevelIds : Covered(l)' = Covered(l) /\ protections'[l] = protections[l]
    BY <1>1 DEF Covered, Exited, exchangeSide, storeSide
  <2>3. CASE \A l \in LevelIds : protections[l] # "NONE" => Covered(l)
    BY <2>2, <2>3 DEF StopInv
  <2>4. CASE ~\A l \in LevelIds : protections[l] # "NONE" => Covered(l)
    <3>1. NetPosition = 0
      BY <1>1, <2>4 DEF RunInv, StopInv, EntrySteps
    <3>2. PICK l \in LevelIds : protections[l] # "NONE"
      BY <2>4
    <3>3. SomeExit
      BY <3>1, <3>2, EmptiedByExits DEF RunInv, RunBooks, SnapshotsAreTrue, Filled
    <3> QED BY <1>1, <2>1, <3>3 DEF StopInv, EntrySteps
  <2> QED BY <2>3, <2>4
<1> QED BY <1>3, <1>4, <1>6, <1>7, <1>8 DEF RunInv

\* Within the entries only working stops and executions matter.
LEMMA EntriesKeepStops ==
  ASSUME RunInv, step \in EntrySteps, step' \in EntrySteps, UNCHANGED <<done, missed, protections>>,
         \A l \in LevelIds : orders'[l]["STOP"] = orders[l]["STOP"]
  PROVE  StopInv'
<1>1. SomeExit' = SomeExit
  BY DEF SomeExit
<1>2. \A l \in LevelIds : Covered(l)' = Covered(l)
  BY DEF Covered, Exited
<1> QED BY <1>1, <1>2 DEF RunInv, StopInv, EntrySteps

LEMMA SubmitKeeps == ASSUME RunInv, SubmitEntry PROVE RunInv'
<1> DEFINE l == Min(batch \cap Unsubmitted)
<1>1. /\ step = "submit"
      /\ orders' = [orders EXCEPT ![l]["ENTRY"] = "OPEN"]
      /\ entries' = [entries EXCEPT ![l] = "ENTRY_ACKNOWLEDGED"]
      /\ GoTo(IF l = Max(batch) THEN "fill" ELSE "submit")
      /\ UNCHANGED <<done, published, missed, booked, protections>>
  BY DEF SubmitEntry
<1>2. /\ batch \in SUBSET LevelIds /\ batch # {}
      /\ \A k \in batch : /\ entries[k] \in {"NONE", "ENTRY_ACKNOWLEDGED"}
                          /\ protections[k] = "NONE"
      /\ entries[Max(batch)] = "NONE"
  BY <1>1 DEF RunInv, RunTypes, RunPath, EntrySteps
<1>3. Max(batch) \in batch /\ \A k \in batch : Max(batch) >= k
  BY <1>2, LastLevel
<1>4. l \in batch /\ entries[l] = "NONE" /\ \A k \in batch : entries[k] = "NONE" => l <= k
  <2> DEFINE S == batch \cap Unsubmitted
  <2>1. S \in SUBSET LevelIds /\ S # {} /\ S = {k \in batch : entries[k] = "NONE"}
    BY <1>2, <1>3 DEF Unsubmitted, Submitted
  <2>2. Min(S) \in S /\ \A y \in S : Min(S) <= y
    <3> HIDE DEF S
    <3> QED BY <2>1, LeastLevel
  <2> QED BY <2>1, <2>2
<1> HIDE DEF l
<1>5. \A k \in LevelIds, t \in LevelRoles :
        orders'[k][t] = IF k = l /\ t = "ENTRY" THEN "OPEN" ELSE orders[k][t]
  BY <1>1 DEF RunInv, RunTypes
<1>6. \A k \in LevelIds : entries'[k] = IF k = l THEN "ENTRY_ACKNOWLEDGED" ELSE entries[k]
  BY <1>1 DEF RunInv, RunTypes
<1>7. l \in LevelIds /\ orders[l]["ENTRY"] = "NONE" /\ done[l]["ENTRY"] = 0 /\ protections[l] = "NONE"
  BY <1>2, <1>4 DEF RunInv, RunBooks, SnapshotsAreTrue, OrdersHaveRoom, LevelRoles
<1>8. RunTypes'
  BY <1>1, <1>5, <1>6, <1>7 DEF RunInv, RunTypes, GoTo, RunSteps, EntrySteps
<1>9. RunBooks'
  BY <1>1, <1>5, <1>6, <1>7, RunConstants
     DEF RunInv, RunBooks, BooksLag, OrdersHaveRoom, SnapshotsAreTrue, Filled, LevelRoles, ExitRoles
<1>10. RunPath'
  <2>1. \A k \in LevelIds \ batch : \/ entries[k] = "NONE" /\ protections[k] = "NONE"
                                    \/ entries[k] = "ACTIVE_UNPROTECTED" /\ protections[k] # "NONE"
    BY <1>1 DEF RunInv, RunPath
  <2>2. CASE l = Max(batch)
    <3>1. \A k \in batch : entries'[k] = "ENTRY_ACKNOWLEDGED"
      <4> SUFFICES ASSUME NEW k \in batch, entries[k] = "NONE" PROVE k = l
        BY <1>2, <1>6
      <4>1. l <= k /\ l >= k /\ k \in Nat /\ l \in Nat
        BY <1>2, <1>3, <1>4, <1>7, <2>2, LevelsAreFinite
      <4> QED BY <4>1
    <3> QED BY <1>1, <1>2, <1>3, <1>4, <1>6, <2>1, <2>2, <3>1 DEF RunPath, EntrySteps, GoTo
  <2>3. CASE l # Max(batch)
    BY <1>1, <1>2, <1>3, <1>4, <1>6, <2>1, <2>3 DEF RunPath, EntrySteps, GoTo
  <2> QED BY <2>2, <2>3
<1>11. ExitPath'
  BY <1>1 DEF RunInv, ExitPath, ExitSteps, ClosingSteps, GoTo
<1>12. StopInv'
  BY <1>1, <1>5, EntriesKeepStops DEF GoTo, EntrySteps, LevelRoles, ExitRoles
<1>13. ClosedLevelIsExplained'
  BY <1>1, <1>5, <1>7 DEF RunInv, ClosedLevelIsExplained, Exited
<1> QED BY <1>8, <1>9, <1>10, <1>11, <1>12, <1>13 DEF RunInv

LEMMA FillKeeps == ASSUME RunInv, AwaitEntryFill PROVE RunInv'
<1> DEFINE l == Min({m \in batch : entries[m] = "ENTRY_ACKNOWLEDGED"})
           lots == published[l]["ENTRY"]
           ended == orders[l]["ENTRY"] = "DONE" /\ done[l]["ENTRY"] = lots
           accepted == lots = LevelLots \/ (ended /\ lots > 0)
<1>1. /\ step = "fill" /\ booked' = [booked EXCEPT ![l]["ENTRY"] = lots]
      /\ UNCHANGED <<exchangeSide, protections>>
      /\ \/ /\ accepted
            /\ entries' = [entries EXCEPT ![l] = "ACTIVE_UNPROTECTED"]
            /\ GoTo(IF l = Max(batch) THEN "aggregate" ELSE "fill")
         \/ GoTo("raised") /\ UNCHANGED entries
         \/ PollAgain("fill") /\ UNCHANGED entries
  BY DEF AwaitEntryFill
<1>2. /\ batch \in SUBSET LevelIds /\ batch # {}
      /\ \A k \in batch : /\ entries[k] \in {"ENTRY_ACKNOWLEDGED", "ACTIVE_UNPROTECTED"}
                          /\ protections[k] = "NONE"
      /\ entries[Max(batch)] = "ENTRY_ACKNOWLEDGED"
  BY <1>1 DEF RunInv, RunTypes, RunPath, EntrySteps
<1>3. Max(batch) \in batch /\ \A k \in batch : Max(batch) >= k
  BY <1>2, LastLevel
<1>4. /\ l \in batch /\ entries[l] = "ENTRY_ACKNOWLEDGED"
      /\ \A k \in batch : entries[k] = "ENTRY_ACKNOWLEDGED" => l <= k
  <2> DEFINE S == {m \in batch : entries[m] = "ENTRY_ACKNOWLEDGED"}
  <2>1. S \in SUBSET LevelIds /\ S # {}
    BY <1>2, <1>3
  <2>2. Min(S) \in S /\ \A y \in S : Min(S) <= y
    <3> HIDE DEF S
    <3> QED BY <2>1, LeastLevel
  <2> QED BY <2>1, <2>2
<1> HIDE DEF l
<1>5. l \in LevelIds /\ protections[l] = "NONE" /\ \A r \in ExitRoles : orders[l][r] = "NONE"
  BY <1>2, <1>4 DEF RunInv, RunBooks, SnapshotsAreTrue
<1>6. \A k \in LevelIds, t \in LevelRoles :
        booked'[k][t] = IF k = l /\ t = "ENTRY" THEN lots ELSE booked[k][t]
  BY <1>1 DEF RunInv, RunTypes
<1>7. /\ orders' = orders /\ done' = done /\ published' = published /\ missed' = missed
      /\ protections' = protections /\ lots \in Nat /\ lots <= done[l]["ENTRY"]
      /\ batch' = batch /\ closing' = closing /\ targets' = targets
      /\ entries' = entries \/ entries' = [entries EXCEPT ![l] = "ACTIVE_UNPROTECTED"]
      /\ step' \in {"aggregate", "fill", "raised"} /\ polls' \in Nat
  BY <1>1, <1>5 DEF exchangeSide, GoTo, PollAgain, RunInv, RunTypes, RunBooks, BooksLag, LevelRoles
<1>8. RunTypes'
  BY <1>5, <1>6, <1>7, <1>1 DEF RunInv, RunTypes, RunSteps, EntrySteps
<1>9. accepted => /\ orders'[l]["ENTRY"] = "DONE"
                  /\ booked'[l]["ENTRY"] = done'[l]["ENTRY"] /\ done'[l]["ENTRY"] > 0
  <2>1. booked'[l]["ENTRY"] = lots
    BY <1>5, <1>6 DEF LevelRoles
  <2>2. /\ done[l]["ENTRY"] \in Nat /\ done[l]["ENTRY"] <= LevelLots /\ LevelLots \in Nat /\ LevelLots > 0
        /\ orders[l]["ENTRY"] = "OPEN" => done[l]["ENTRY"] < LevelLots
        /\ orders[l]["ENTRY"] = "NONE" => done[l]["ENTRY"] = 0
        /\ orders[l]["ENTRY"] \in {"NONE", "OPEN", "DONE"}
    BY <1>5, RunConstants DEF RunInv, RunTypes, RunBooks, OrdersHaveRoom, LevelRoles
  <2> QED BY <1>7, <2>1, <2>2
<1>10. RunBooks'
  <2>1. BooksLag'
    BY <1>6, <1>7 DEF RunInv, RunBooks, BooksLag
  <2>2. SnapshotsAreTrue'
    <3>1. \A k \in LevelIds : k # l => /\ entries'[k] = entries[k]
                                       /\ booked'[k]["ENTRY"] = booked[k]["ENTRY"]
      BY <1>6, <1>7 DEF RunInv, RunTypes, LevelRoles
    <3>2. entries'[l] # "NONE" /\ (entries'[l] = "ACTIVE_UNPROTECTED" => accepted)
      BY <1>1, <1>4, <1>5 DEF RunInv, RunTypes
    <3> QED BY <1>5, <1>7, <1>9, <3>1, <3>2 DEF RunInv, RunBooks, SnapshotsAreTrue, Filled
  <2>3. OrdersHaveRoom'
    <3> SUFFICES ASSUME NEW k \in LevelIds
                 PROVE  /\ orders[k]["ENTRY"] = "OPEN" => entries'[k] # "ACTIVE_UNPROTECTED"
                        /\ \A t \in ExitRoles : orders[k][t] = "OPEN" => done[k][t] < booked'[k]["ENTRY"]
      BY <1>7 DEF RunInv, RunBooks, OrdersHaveRoom
    <3>1. orders[k]["ENTRY"] = "OPEN" => entries'[k] # "ACTIVE_UNPROTECTED"
      BY <2>2, <1>7 DEF SnapshotsAreTrue, Filled
    <3>2. CASE k = l
      BY <1>5, <3>1, <3>2
    <3>3. CASE k # l
      BY <1>6, <3>1, <3>3 DEF RunInv, RunBooks, OrdersHaveRoom, LevelRoles
    <3> QED BY <3>2, <3>3
  <2> QED BY <2>1, <2>2, <2>3 DEF RunBooks
<1>11. RunPath'
  <2> SUFFICES ASSUME step' # "raised" PROVE RunPath'
    BY AfterException
  <2>1. \A k \in LevelIds \ batch : \/ entries[k] = "NONE" /\ protections[k] = "NONE"
                                    \/ entries[k] = "ACTIVE_UNPROTECTED" /\ protections[k] # "NONE"
    BY <1>1 DEF RunInv, RunPath
  <2>2. CASE entries' = entries /\ step' = "fill"
    BY <1>2, <1>7, <2>1, <2>2 DEF RunPath, EntrySteps
  <2>3. CASE /\ entries' = [entries EXCEPT ![l] = "ACTIVE_UNPROTECTED"]
             /\ step' = IF l = Max(batch) THEN "aggregate" ELSE "fill"
    <3>1. \A k \in LevelIds : entries'[k] = IF k = l THEN "ACTIVE_UNPROTECTED" ELSE entries[k]
      BY <2>3 DEF RunInv, RunTypes
    <3>2. CASE l = Max(batch)
      <4>1. \A k \in batch : entries'[k] = "ACTIVE_UNPROTECTED"
        <5> SUFFICES ASSUME NEW k \in batch, entries[k] = "ENTRY_ACKNOWLEDGED" PROVE k = l
          BY <1>2, <3>1
        <5>1. l <= k /\ l >= k /\ k \in Nat /\ l \in Nat
          BY <1>2, <1>3, <1>4, <1>5, <3>2, LevelsAreFinite
        <5> QED BY <5>1
      <4> QED BY <1>2, <1>4, <1>7, <2>1, <2>3, <3>1, <3>2, <4>1 DEF RunPath, EntrySteps
    <3>3. CASE l # Max(batch)
      BY <1>2, <1>3, <1>4, <1>7, <2>1, <2>3, <3>1, <3>3 DEF RunPath, EntrySteps
    <3> QED BY <3>2, <3>3
  <2> QED BY <1>1, <2>2, <2>3 DEF GoTo, PollAgain
<1>12. ExitPath'
  BY <1>1, <1>7 DEF RunInv, ExitPath, ExitSteps, ClosingSteps
<1>13. StopInv'
  <2>1. CASE step' = "raised"
    BY <2>1, AfterException
  <2>2. CASE step' # "raised"
    BY <1>1, <1>7, <2>2, EntriesKeepStops DEF EntrySteps
  <2> QED BY <2>1, <2>2
<1>14. ClosedLevelIsExplained'
  <2>1. \A k \in LevelIds : k # l => booked'[k] = booked[k]
    BY <1>1, <1>5 DEF RunInv, RunTypes
  <2> QED BY <1>5, <1>7, <2>1 DEF RunInv, ClosedLevelIsExplained, Exited
<1> QED BY <1>8, <1>10, <1>11, <1>12, <1>13, <1>14 DEF RunInv

LEMMA AggregateKeeps == ASSUME RunInv, ReconcileAggregate PROVE RunInv'
<1>1. /\ step = "aggregate" /\ UNCHANGED <<exchangeSide, booked, protections>>
      /\ \/ NetPosition = EnteredLots /\ GoTo("install") /\ UNCHANGED entries
         \/ /\ entries' = [l \in LevelIds |-> IF l \in Submitted THEN "RECONCILING" ELSE entries[l]]
            /\ GoTo("raised")
  BY DEF ReconcileAggregate
<1>2. orders' = orders /\ done' = done /\ published' = published /\ booked' = booked
      /\ protections' = protections /\ missed' = missed
  BY <1>1 DEF exchangeSide
<1>3. ClosedLevelIsExplained'
  BY <1>2 DEF RunInv, ClosedLevelIsExplained, Exited
<1>4. CASE NetPosition = EnteredLots /\ GoTo("install") /\ UNCHANGED entries
  <2>1. RunTypes'
    BY <1>2, <1>4 DEF RunInv, RunTypes, GoTo, RunSteps
  <2>2. RunBooks'
    BY <1>1, <1>4, BooksStay DEF storeSide
  <2>3. RunPath'
    <3>1. \A l \in batch : orders[l]["TP"] = "NONE"
      BY <1>1 DEF RunInv, RunTypes, RunPath, RunBooks, SnapshotsAreTrue, EntrySteps, ExitRoles
    <3> QED BY <1>1, <1>2, <1>4, <3>1 DEF RunInv, RunPath, GoTo, EntrySteps
  <2>4. ExitPath'
    BY <1>1, <1>2, <1>4 DEF RunInv, ExitPath, GoTo, ExitSteps, ClosingSteps
  <2>5. StopInv'
    <3>1. \A l \in LevelIds : IF entries[l] = "NONE" THEN done[l]["ENTRY"] = 0
                              ELSE booked[l]["ENTRY"] = done[l]["ENTRY"]
      <4> SUFFICES ASSUME NEW l \in LevelIds
                   PROVE  IF entries[l] = "NONE" THEN done[l]["ENTRY"] = 0
                          ELSE booked[l]["ENTRY"] = done[l]["ENTRY"]
        OBVIOUS
      <4>1. entries[l] \in {"NONE", "ACTIVE_UNPROTECTED"}
        BY <1>1 DEF RunInv, RunPath
      <4> QED BY <4>1 DEF RunInv, RunBooks, SnapshotsAreTrue, Filled, OrdersHaveRoom, LevelRoles
    <3>2. ~SomeExit
      BY <1>4, <3>1, AggregateSeesExits DEF RunInv
    <3>3. \A l \in LevelIds : protections[l] # "NONE" => Covered(l)
      BY <1>1, <3>2 DEF RunInv, StopInv, EntrySteps
    <3> QED BY <1>2, <3>3 DEF StopInv, Covered, Exited
  <2> QED BY <1>3, <2>1, <2>2, <2>3, <2>4, <2>5 DEF RunInv
<1>5. CASE /\ entries' = [l \in LevelIds |-> IF l \in Submitted THEN "RECONCILING" ELSE entries[l]]
           /\ GoTo("raised")
  <2>1. \A l \in LevelIds : entries'[l] = IF entries[l] = "NONE" THEN "NONE" ELSE "RECONCILING"
    BY <1>5 DEF Submitted
  <2>2. RunTypes'
    BY <1>2, <1>5, <2>1 DEF RunInv, RunTypes, GoTo, RunSteps
  <2>3. RunBooks'
    BY <1>2, <2>1 DEF RunInv, RunBooks, BooksLag, OrdersHaveRoom, SnapshotsAreTrue, Filled
  <2> QED BY <1>3, <1>5, <2>2, <2>3, AfterException DEF RunInv, GoTo
<1> QED BY <1>1, <1>4, <1>5

LEMMA InstallKeeps == ASSUME RunInv, InstallExit PROVE RunInv'
<1> DEFINE l == Min(batch)
           r == NextExit(l)
           rest == IF r = "TP" THEN batch \ {l} ELSE batch
           Placed == orders' = [orders EXCEPT ![l][r] = "OPEN"]
           Confirmed ==
             /\ Placed /\ protections' = [protections EXCEPT ![l] = "ACTIVE_PROTECTED"]
             /\ batch' = rest
             /\ step' = IF rest # {} THEN "install"
                        ELSE IF Unsubmitted # {} THEN "trade" ELSE "verify"
           InDoubt ==
             /\ orders' = orders \/ Placed
             /\ protections' = [protections EXCEPT ![l] = "RECONCILING"]
             /\ step' = "raised" /\ UNCHANGED batch
<1>1. /\ step = "install" /\ (Confirmed \/ InDoubt)
      /\ UNCHANGED <<done, published, missed, booked, entries, polls, closing, targets>>
  BY DEF InstallExit
<1>2. /\ batch \in SUBSET LevelIds /\ batch # {}
      /\ \A k \in batch : entries[k] = "ACTIVE_UNPROTECTED" /\ orders[k]["TP"] = "NONE"
      /\ \A k \in LevelIds : protections[k] \in {"NONE", "ACTIVE_PROTECTED"}
      /\ \A k \in LevelIds \ batch :
           \/ entries[k] = "NONE" /\ protections[k] = "NONE"
           \/ entries[k] = "ACTIVE_UNPROTECTED" /\ protections[k] # "NONE"
  BY <1>1 DEF RunInv, RunTypes, RunPath, ExitPath, EntrySteps, ExitSteps, ClosingSteps
<1>3. l \in batch /\ l \in LevelIds
  BY <1>2, LeastLevel
<1> HIDE DEF l
<1>4. r \in ExitRoles /\ r \in LevelRoles /\ orders[l][r] = "NONE" /\ done[l][r] = 0
      /\ (r = "TP" <=> protections[l] # "NONE")
  <2>1. orders[l][r] = "NONE" /\ r \in ExitRoles /\ r \in LevelRoles
    BY <1>2, <1>3 DEF NextExit, RunInv, RunBooks, SnapshotsAreTrue, ExitRoles, LevelRoles
  <2>2. r = "TP" <=> protections[l] # "NONE"
    BY DEF NextExit
  <2> QED BY <1>3, <2>1, <2>2 DEF RunInv, RunBooks, OrdersHaveRoom
<1> HIDE DEF r
<1>5. Filled(l) /\ entries[l] = "ACTIVE_UNPROTECTED"
  BY <1>2, <1>3 DEF RunInv, RunBooks, SnapshotsAreTrue
<1>6. Placed => \A k \in LevelIds, t \in LevelRoles :
                  orders'[k][t] = IF k = l /\ t = r THEN "OPEN" ELSE orders[k][t]
  BY DEF RunInv, RunTypes
<1>7. /\ protections' \in [LevelIds -> {"NONE"} \cup Protected]
      /\ protections'[l] \in {"ACTIVE_PROTECTED", "RECONCILING"}
      /\ \A k \in LevelIds : k # l => protections'[k] = protections[k]
  BY <1>1, <1>3 DEF RunInv, RunTypes, Protected
<1>8. RunTypes'
  <2>1. orders' \in [LevelIds -> [LevelRoles -> {"NONE", "OPEN", "DONE"}]]
    <3>1. CASE orders' = orders
      BY <3>1 DEF RunInv, RunTypes
    <3>2. CASE Placed
      BY <3>2, <1>3, <1>4 DEF RunInv, RunTypes
    <3> QED BY <1>1, <3>1, <3>2
  <2>2. batch' \in SUBSET LevelIds /\ step' \in RunSteps
    BY <1>1, <1>2 DEF RunSteps, ExitSteps
  <2> QED BY <1>1, <1>7, <2>1, <2>2 DEF RunInv, RunTypes
<1>9. RunBooks'
  <2>1. BooksLag'
    BY <1>1 DEF RunInv, RunBooks, BooksLag
  <2>2. OrdersHaveRoom'
    <3>1. booked[l]["ENTRY"] > 0
      BY <1>5 DEF Filled
    <3>2. "ENTRY" \notin ExitRoles /\ "ENTRY" \in LevelRoles /\ ExitRoles \subseteq LevelRoles
      BY DEF ExitRoles, LevelRoles
    <3> QED BY <1>1, <1>3, <1>4, <1>6, <3>1, <3>2 DEF RunInv, RunBooks, OrdersHaveRoom
  <2>3. SnapshotsAreTrue'
    <3>1. \A k \in LevelIds : orders'[k]["ENTRY"] = orders[k]["ENTRY"]
      BY <1>1, <1>4, <1>6 DEF ExitRoles, LevelRoles
    <3>2. \A k \in LevelIds, t \in ExitRoles : k # l => orders'[k][t] = orders[k][t]
      BY <1>1, <1>6 DEF LevelRoles
    <3> QED BY <1>1, <1>3, <1>5, <1>7, <3>1, <3>2 DEF RunInv, RunBooks, SnapshotsAreTrue, Filled
  <2> QED BY <2>1, <2>2, <2>3 DEF RunBooks
<1>10. ClosedLevelIsExplained'
  <2>1. \A k \in LevelIds : protections'[k] \notin {"CLOSED_TP", "CLOSED_STOP"}
    BY <1>2, <1>7
  <2> QED BY <2>1 DEF ClosedLevelIsExplained
<1>11. CASE InDoubt
  BY <1>8, <1>9, <1>10, <1>11, AfterException DEF RunInv
<1>12. CASE Confirmed
  <2>1. protections'[l] = "ACTIVE_PROTECTED" /\ \A k \in LevelIds : protections'[k] \in {"NONE", "ACTIVE_PROTECTED"}
    BY <1>2, <1>3, <1>7, <1>12 DEF RunInv, RunTypes
  <2>2. batch' \in SUBSET batch /\ (r = "TP" => l \notin batch')
        /\ (r # "TP" => batch' = batch) /\ \A k \in batch : k # l => k \in batch'
    BY <1>12
  <2>3. RunPath'
    <3>1. \A k \in batch' : orders'[k]["TP"] = "NONE"
      BY <1>2, <1>6, <1>12, <2>2 DEF ExitRoles, LevelRoles
    <3>2. \A k \in LevelIds \ batch' :
           \/ entries'[k] = "NONE" /\ protections'[k] = "NONE"
           \/ entries'[k] = "ACTIVE_UNPROTECTED" /\ protections'[k] # "NONE"
      BY <1>1, <1>2, <1>5, <1>7, <2>1, <2>2
    <3>3. step' \in {"install", "trade", "verify"} /\ (step' = "install" <=> batch' # {})
      BY <1>12
    <3>4. \A k \in batch' : entries'[k] = "ACTIVE_UNPROTECTED"
      BY <1>1, <1>2, <2>2
    <3> QED BY <3>1, <3>2, <3>3, <3>4 DEF RunPath, EntrySteps
  <2>4. ExitPath'
    <3>1. ASSUME step' = "verify" PROVE \A k \in LevelIds : protections'[k] = "ACTIVE_PROTECTED"
      <4>1. batch' = {} /\ \A k \in LevelIds : entries[k] # "NONE"
        BY <1>12, <3>1 DEF Unsubmitted, Submitted
      <4>2. \A k \in LevelIds : k # l => protections[k] # "NONE"
        BY <1>2, <2>2, <4>1
      <4> QED BY <1>7, <2>1, <4>2
    <3>2. step' \in {"install", "trade", "verify"} /\ closing' \in LevelIds
      BY <1>8, <1>12 DEF RunTypes
    <3> QED BY <2>1, <3>1, <3>2 DEF ExitPath, ExitSteps, ClosingSteps
  <2>5. StopInv'
    <3>1. NetPosition' = NetPosition
      BY <1>1, SamePosition
    <3>2. step \notin EntrySteps /\ step' \notin EntrySteps
      BY <1>1, <1>12 DEF EntrySteps
    <3>3. CASE NetPosition = 0
      BY <3>1, <3>2, <3>3 DEF StopInv
    <3>4. CASE NetPosition # 0
      <4>1. \A k \in LevelIds : protections[k] # "NONE" => Covered(k)
        BY <1>1, <3>2, <3>4 DEF RunInv, StopInv
      <4> SUFFICES ASSUME NEW k \in LevelIds, protections'[k] # "NONE" PROVE Covered(k)'
        BY DEF StopInv
      <4>2. CASE k = l /\ r = "STOP"
        BY <1>6, <1>4, <1>12, <4>2 DEF Covered
      <4>3. CASE ~(k = l /\ r = "STOP")
        <5>1. orders'[k]["STOP"] = orders[k]["STOP"]
          BY <1>6, <1>12, <4>3 DEF LevelRoles, ExitRoles
        <5>2. protections[k] # "NONE"
          BY <1>4, <1>7, <4>3 DEF ExitRoles
        <5> QED BY <1>1, <4>1, <5>1, <5>2 DEF Covered, Exited
      <4> QED BY <4>2, <4>3
    <3> QED BY <3>3, <3>4
  <2> QED BY <1>8, <1>9, <1>10, <2>3, <2>4, <2>5 DEF RunInv
<1> QED BY <1>1, <1>11, <1>12

\* The checks of the whole position, and the amendment of the take-profit.
LEMMA ExitStepsKeep ==
  ASSUME RunInv, UNCHANGED <<exchangeSide, storeSide>>, GoTo(step'),
         \/ step = "verify" /\ step' = "restart"
         \/ step = "restart" /\ step' = "amend"
         \/ step = "amend" /\ step' = "poll"
         \/ step = "final" /\ step' = "done"
  PROVE  RunInv'
<1>1. UNCHANGED <<orders, done, published, missed, booked, entries, protections, batch, closing, targets>>
      /\ polls' \in Nat
  BY DEF exchangeSide, storeSide, GoTo
<1>2. RunTypes'
  BY <1>1 DEF RunInv, RunTypes, RunSteps, ExitSteps
<1>3. RunPath'
  BY <1>1 DEF RunInv, RunPath, EntrySteps
<1>4. ExitPath'
  BY <1>1 DEF RunInv, ExitPath, ExitSteps, ClosingSteps
<1>5. StopInv'
  BY <1>1, StopsStay DEF EntrySteps
<1> QED BY <1>2, <1>3, <1>4, <1>5, BooksStay DEF RunInv

LEMMA RaiseKeeps ==
  ASSUME RunInv, UNCHANGED <<exchangeSide, storeSide>>, GoTo("raised")
  PROVE  RunInv'
<1>1. RunTypes'
  BY DEF RunInv, RunTypes, RunSteps, exchangeSide, storeSide, GoTo
<1> QED BY <1>1, AfterException, BooksStay DEF RunInv, GoTo

\* The exit that is awaited: nobody but the runner touches its snapshot.
LEMMA AwaitExitKeeps == ASSUME RunInv, AwaitExit PROVE RunInv'
<1> DEFINE l == closing
<1>1. PICK b \in Bookings(l) :
        LET open == booked[l]["ENTRY"] - b["STOP"] - b["TP"]
            fresh == \E r \in ExitRoles : b[r] # booked[l][r]
            state == IF ~fresh THEN protections[l]
                     ELSE IF open = 0 THEN "CANCEL_PENDING" ELSE "EXIT_PARTIALLY_FILLED"
        IN  /\ booked' = [booked EXCEPT ![l]["STOP"] = b["STOP"], ![l]["TP"] = b["TP"]]
            /\ protections' = [protections EXCEPT ![l] = state]
            /\ \/ GoTo("raised")
               \/ IF state = "CANCEL_PENDING"
                  THEN step' = "list" /\ UNCHANGED <<polls, batch, closing, targets>>
                  ELSE PollAgain("poll")
  BY DEF AwaitExit
<1> DEFINE open == booked[l]["ENTRY"] - b["STOP"] - b["TP"]
           fresh == \E r \in ExitRoles : b[r] # booked[l][r]
           state == IF ~fresh THEN protections[l]
                    ELSE IF open = 0 THEN "CANCEL_PENDING" ELSE "EXIT_PARTIALLY_FILLED"
<1>2. /\ step = "poll" /\ UNCHANGED <<orders, done, published, missed, entries>>
      /\ booked' = [booked EXCEPT ![l]["STOP"] = b["STOP"], ![l]["TP"] = b["TP"]]
      /\ protections' = [protections EXCEPT ![l] = state]
      /\ \/ GoTo("raised")
         \/ IF state = "CANCEL_PENDING"
            THEN step' = "list" /\ UNCHANGED <<polls, batch, closing, targets>>
            ELSE PollAgain("poll")
  BY <1>1 DEF AwaitExit, exchangeSide
<1>3. /\ l \in LevelIds /\ b \in [ExitRoles -> Nat]
      /\ b["STOP"] <= published[l]["STOP"] /\ b["TP"] <= published[l]["TP"]
  <2>1. /\ b \in [ExitRoles -> 0 .. LevelLots]
        /\ \A r \in ExitRoles : b[r] \in booked[l][r] .. published[l][r]
    BY DEF Bookings
  <2>2. l \in LevelIds
    BY DEF RunInv, RunTypes
  <2>3. \A r \in ExitRoles : booked[l][r] \in Nat /\ published[l][r] \in Nat
    BY <2>2, RoleTypes DEF RunInv
  <2>4. 0 .. LevelLots \subseteq Nat
    BY RunConstants
  <2> QED BY <2>1, <2>2, <2>3, <2>4 DEF ExitRoles
<1>4. /\ \A k \in LevelIds : protections[k] # "NONE"
      /\ \A k \in LevelIds : k > l => protections[k] = "ACTIVE_PROTECTED"
      /\ protections[l] \notin {"CANCEL_PENDING", "CLOSED_TP", "CLOSED_STOP"}
  BY <1>2 DEF RunInv, ExitPath, ExitSteps
<1>5. /\ state \in Protected /\ state \notin {"CLOSED_TP", "CLOSED_STOP"}
      /\ state = "CANCEL_PENDING" => b["STOP"] + b["TP"] = booked[l]["ENTRY"]
  <2>1. booked[l]["ENTRY"] \in Nat /\ b["STOP"] \in Nat /\ b["TP"] \in Nat
    BY <1>3, RoleTypes DEF RunInv, LevelRoles, ExitRoles
  <2>2. protections[l] \in {"NONE"} \cup Protected
    BY <1>3 DEF RunInv, RunTypes
  <2> QED BY <1>3, <1>4, <2>1, <2>2 DEF Protected
<1>6. /\ \A k \in LevelIds : k # l => protections'[k] = protections[k] /\ booked'[k] = booked[k]
      /\ protections'[l] = state
      /\ booked'[l]["ENTRY"] = booked[l]["ENTRY"]
      /\ booked'[l]["STOP"] = b["STOP"] /\ booked'[l]["TP"] = b["TP"]
      /\ protections' \in [LevelIds -> {"NONE"} \cup Protected]
      /\ booked' \in [LevelIds -> [LevelRoles -> Nat]]
  <2>1. booked \in [LevelIds -> [LevelRoles -> Nat]] /\ protections \in [LevelIds -> {"NONE"} \cup Protected]
    BY DEF RunInv, RunTypes
  <2>2. "STOP" \in LevelRoles /\ "TP" \in LevelRoles /\ "ENTRY" \in LevelRoles
        /\ b["STOP"] \in Nat /\ b["TP"] \in Nat
    BY <1>3 DEF LevelRoles, ExitRoles
  <2> HIDE DEF l, state
  <2> QED BY <1>2, <1>3, <1>5, <2>1, <2>2
<1> HIDE DEF state, fresh, open
<1>7. step' \in {"raised", "list", "poll"} /\ polls' \in Nat
      /\ UNCHANGED <<batch, closing, targets>>
      /\ (step' = "list" => state = "CANCEL_PENDING") /\ (step' = "poll" => state # "CANCEL_PENDING")
  BY <1>2 DEF GoTo, PollAgain, RunInv, RunTypes
<1>8. RunTypes'
  BY <1>2, <1>6, <1>7 DEF RunInv, RunTypes, RunSteps, ExitSteps, ClosingSteps
<1>9. RunBooks'
  <2>1. BooksLag'
    BY <1>2, <1>3, <1>6 DEF RunInv, RunBooks, BooksLag, LevelRoles, ExitRoles
  <2>2. \A k \in LevelIds : booked'[k]["ENTRY"] = booked[k]["ENTRY"]
    BY <1>6
  <2>3. OrdersHaveRoom'
    BY <1>2, <2>2 DEF RunInv, RunBooks, OrdersHaveRoom
  <2>4. \A k \in LevelIds : protections'[k] # "NONE"
    BY <1>4, <1>5, <1>6 DEF Protected
  <2>5. SnapshotsAreTrue'
    BY <1>2, <1>4, <2>2, <2>4 DEF RunInv, RunBooks, SnapshotsAreTrue, Filled
  <2> QED BY <2>1, <2>3, <2>5 DEF RunBooks
<1>10. RunPath'
  <2>1. \A k \in LevelIds : protections'[k] # "NONE"
    BY <1>4, <1>5, <1>6 DEF Protected
  <2> QED BY <1>2, <1>4, <1>7, <2>1 DEF RunInv, RunPath, EntrySteps
<1>11. ExitPath'
  <2>1. \A k \in LevelIds : protections'[k] # "NONE"
    BY <1>4, <1>5, <1>6 DEF Protected
  <2>2. \A k \in LevelIds : k > closing => protections'[k] = "ACTIVE_PROTECTED"
    BY <1>4, <1>6, <1>3, LevelsAreFinite
  <2>3. step' = "list" => Exited(booked', closing) = booked'[closing]["ENTRY"]
    BY <1>5, <1>6, <1>7 DEF Exited
  <2> QED BY <1>5, <1>6, <1>7, <2>1, <2>2, <2>3 DEF ExitPath, ExitSteps, ClosingSteps, Exited
<1>12. StopInv'
  <2>1. \A k \in LevelIds : protections'[k] # "NONE"
    BY <1>4, <1>5, <1>6 DEF Protected
  <2>2. NetPosition' = NetPosition
    BY <1>2, SamePosition
  <2>3. \A k \in LevelIds : Covered(k)' = Covered(k)
    BY <1>2 DEF Covered, Exited
  <2> QED BY <1>2, <1>4, <1>7, <2>1, <2>2, <2>3 DEF RunInv, StopInv, EntrySteps
<1>13. ClosedLevelIsExplained'
  BY <1>2, <1>5, <1>6 DEF RunInv, ClosedLevelIsExplained, Exited
<1> QED BY <1>8, <1>9, <1>10, <1>11, <1>12, <1>13 DEF RunInv

LEMMA ListKeeps == ASSUME RunInv, ListExits PROVE RunInv'
<1>1. /\ step \in {"list", "relist"} /\ targets' = OwnWorking(closing)
      /\ step' = IF step = "list" THEN "cancel" ELSE "settle"
      /\ UNCHANGED <<exchangeSide, storeSide, polls, batch, closing>>
  BY DEF ListExits, ExitsToCancel
<1>2. UNCHANGED <<orders, done, published, missed, booked, entries, protections, batch, closing>>
  BY <1>1 DEF exchangeSide, storeSide
<1>3. targets' \subseteq {closing} \X ExitRoles /\ closing \in LevelIds
      /\ (targets' = {} => \A r \in ExitRoles : orders[closing][r] # "OPEN")
  <2>1. closing \in LevelIds
    BY DEF RunInv, RunTypes
  <2>2. \A t \in targets' : t \in {closing} \X ExitRoles
    BY <1>1 DEF OwnWorking
  <2>3. \A r \in ExitRoles : orders[closing][r] = "OPEN" => <<closing, r>> \in targets'
    BY <1>1 DEF OwnWorking
  <2> QED BY <2>1, <2>2, <2>3
<1>4. RunTypes'
  BY <1>1, <1>2, <1>3 DEF RunInv, RunTypes, RunSteps, ExitSteps, ClosingSteps
<1>5. RunPath'
  BY <1>1, <1>2 DEF RunInv, RunPath, EntrySteps
<1>6. ExitPath'
  BY <1>1, <1>2, <1>3 DEF RunInv, ExitPath, ExitSteps, ClosingSteps
<1>7. StopInv'
  BY <1>1, <1>2, StopsStay DEF EntrySteps
<1> QED BY <1>1, <1>4, <1>5, <1>6, <1>7, BooksStay DEF RunInv

\* Cancels reach only orders of a level whose exits are booked in full.
LEMMA CancelKeeps == ASSUME RunInv, CancelListed PROVE RunInv'
<1>1. /\ step = "cancel" /\ UNCHANGED <<done, published, missed, storeSide, polls, batch, closing>>
      /\ \/ targets = {} /\ step' = "relist" /\ UNCHANGED <<orders, targets>>
         \/ \E t \in targets :
              /\ targets' = targets \ {t}
              /\ \/ /\ orders[t[1]][t[2]] = "OPEN" /\ step' = step
                    /\ orders' = orders \/ orders' = [orders EXCEPT ![t[1]][t[2]] = "DONE"]
                 \/ step' = "raised" /\ orders' = orders
  BY DEF CancelListed
<1>2. UNCHANGED <<done, published, missed, booked, entries, protections, polls, batch, closing>>
  BY <1>1 DEF storeSide
<1>3. /\ closing \in LevelIds /\ targets \subseteq {closing} \X ExitRoles
      /\ Exited(booked, closing) = booked[closing]["ENTRY"] /\ protections[closing] = "CANCEL_PENDING"
      /\ \A k \in LevelIds : protections[k] # "NONE"
  BY <1>1 DEF RunInv, RunTypes, ExitPath, ExitSteps, ClosingSteps
<1>4. targets' \subseteq targets /\ step' \in {"relist", "cancel", "raised"}
  BY <1>1
<1>5. orders' = orders \/ \E r \in ExitRoles : /\ orders[closing][r] = "OPEN"
                                               /\ orders' = [orders EXCEPT ![closing][r] = "DONE"]
  <2>1. CASE orders' = orders
    BY <2>1
  <2>2. CASE orders' # orders
    <3>1. PICK t \in targets : /\ orders[t[1]][t[2]] = "OPEN"
                               /\ orders' = [orders EXCEPT ![t[1]][t[2]] = "DONE"]
      BY <1>1, <2>2
    <3>2. t[1] = closing /\ t[2] \in ExitRoles
      BY <1>3
    <3> QED BY <3>1, <3>2
  <2> QED BY <2>1, <2>2
<1>6. /\ \A k \in LevelIds, r \in LevelRoles : k # closing \/ r = "ENTRY" => orders'[k][r] = orders[k][r]
      /\ \A k \in LevelIds, r \in LevelRoles :
           orders'[k][r] = orders[k][r] \/ (orders[k][r] = "OPEN" /\ orders'[k][r] = "DONE")
      /\ orders' \in [LevelIds -> [LevelRoles -> {"NONE", "OPEN", "DONE"}]]
  <2>1. orders \in [LevelIds -> [LevelRoles -> {"NONE", "OPEN", "DONE"}]]
    BY DEF RunInv, RunTypes
  <2>2. CASE orders' = orders
    BY <2>1, <2>2
  <2>3. ASSUME NEW r \in ExitRoles, orders[closing][r] = "OPEN",
               orders' = [orders EXCEPT ![closing][r] = "DONE"]
        PROVE  <1>6!1 /\ <1>6!2 /\ <1>6!3
    <3>1. r \in LevelRoles /\ r # "ENTRY"
      BY DEF LevelRoles, ExitRoles
    <3> QED BY <1>3, <2>1, <2>3, <3>1
  <2> QED BY <1>5, <2>2, <2>3
<1>7. RunTypes'
  BY <1>2, <1>4, <1>6 DEF RunInv, RunTypes, RunSteps, ExitSteps, ClosingSteps
<1>8. RunBooks'
  BY <1>2, <1>3, <1>6 DEF RunInv, RunBooks, BooksLag, OrdersHaveRoom, SnapshotsAreTrue, Filled,
     LevelRoles, ExitRoles
<1>9. RunPath'
  BY <1>1, <1>2, <1>4 DEF RunInv, RunPath, EntrySteps
<1>10. ExitPath'
  <2>1. targets' \subseteq {closing} \X ExitRoles
    BY <1>3, <1>4
  <2> QED BY <1>1, <1>2, <1>3, <1>4, <2>1 DEF RunInv, ExitPath, ExitSteps, ClosingSteps, Exited
<1>11. StopInv'
  <2>1. NetPosition' = NetPosition
    BY <1>2, SamePosition
  <2>2. \A k \in LevelIds : Covered(k) => Covered(k)'
    <3> SUFFICES ASSUME NEW k \in LevelIds, Covered(k) PROVE Covered(k)'
      OBVIOUS
    <3>1. CASE k # closing
      BY <1>2, <1>6, <3>1 DEF Covered, Exited, LevelRoles, ExitRoles
    <3>2. CASE k = closing
      <4>1. booked[k]["ENTRY"] = done[k]["ENTRY"]
        BY <1>3, <3>2 DEF RunInv, RunBooks, SnapshotsAreTrue, Filled
      <4>2. \A r \in LevelRoles : booked[k][r] <= done[k][r]
        BY RoleTypes DEF RunInv, RunBooks, BooksLag
      <4>3. done[k]["ENTRY"] <= Exited(done, k)
        BY <1>3, <3>2, <4>1, <4>2, RoleTypes DEF Exited, RunInv
      <4> QED BY <1>2, <4>3 DEF Covered, Exited
    <3> QED BY <3>1, <3>2
  <2> QED BY <1>1, <1>2, <1>4, <2>1, <2>2 DEF RunInv, StopInv, EntrySteps
<1>12. ClosedLevelIsExplained'
  BY <1>2, <1>6 DEF RunInv, ClosedLevelIsExplained, Exited
<1> QED BY <1>7, <1>8, <1>9, <1>10, <1>11, <1>12 DEF RunInv

LEMMA SettleKeeps == ASSUME RunInv, SettleExit PROVE RunInv'
<1> DEFINE l == closing
<1>1. /\ step = "settle" /\ UNCHANGED <<orders, done, published, missed, booked, entries>>
      /\ \/ /\ Explained(l) /\ protections' = [protections EXCEPT ![l] = Terminal(l)]
            /\ closing' = Min({l + 1, RunLevels}) /\ polls' = 0 /\ targets' = {} /\ UNCHANGED batch
            /\ step' = IF l = RunLevels THEN "final" ELSE "amend"
         \/ protections' = [protections EXCEPT ![l] = "RECONCILING"] /\ PollAgain("poll")
  BY DEF SettleExit, exchangeSide
<1>2. /\ l \in LevelIds /\ protections[l] = "CANCEL_PENDING"
      /\ Exited(booked, l) = booked[l]["ENTRY"]
      /\ \A k \in LevelIds : protections[k] # "NONE" /\ (k > l => protections[k] = "ACTIVE_PROTECTED")
      /\ targets = {} => \A r \in ExitRoles : orders[l][r] # "OPEN"
  BY <1>1 DEF RunInv, RunTypes, ExitPath, ExitSteps, ClosingSteps
<1>3. /\ protections'[l] \in {"RECONCILING", "CLOSED_TP", "CLOSED_STOP"}
      /\ \A k \in LevelIds : k # l => protections'[k] = protections[k]
      /\ protections' \in [LevelIds -> {"NONE"} \cup Protected]
      /\ \A k \in LevelIds : protections'[k] # "NONE"
  <2>1. protections \in [LevelIds -> {"NONE"} \cup Protected]
    BY DEF RunInv, RunTypes
  <2>2. Terminal(l) \in {"CLOSED_TP", "CLOSED_STOP"}
    BY DEF Terminal
  <2> QED BY <1>1, <1>2, <2>1, <2>2 DEF Protected
<1>4. /\ closing' \in LevelIds /\ polls' \in Nat /\ batch' = batch
      /\ targets' \in SUBSET (LevelIds \X ExitRoles)
      /\ step' \in {"final", "amend", "poll", "raised"}
      /\ \/ step' \in {"poll", "raised"} /\ closing' = l /\ protections'[l] = "RECONCILING"
         \/ step' = "final" /\ closing' = RunLevels
         \/ step' = "amend" /\ closing' = l + 1
  <2>1. l \in Nat /\ 1 <= l /\ l <= RunLevels /\ RunLevels \in Nat
    BY <1>2, RunConstants DEF LevelIds
  <2>2. Min({l + 1, RunLevels}) = IF l + 1 <= RunLevels THEN l + 1 ELSE RunLevels
    BY <2>1, MinOfTwo
  <2>3. polls \in Nat /\ targets \in SUBSET (LevelIds \X ExitRoles)
        /\ protections \in [LevelIds -> {"NONE"} \cup Protected]
    BY DEF RunInv, RunTypes
  <2> QED BY <1>1, <1>2, <2>1, <2>2, <2>3 DEF PollAgain, LevelIds
<1>5. RunTypes'
  BY <1>1, <1>3, <1>4 DEF RunInv, RunTypes, RunSteps, ExitSteps
<1>6. RunBooks'
  BY <1>1, <1>2, <1>3 DEF RunInv, RunBooks, BooksLag, OrdersHaveRoom, SnapshotsAreTrue, Filled
<1>7. RunPath'
  BY <1>1, <1>2, <1>3, <1>4 DEF RunInv, RunPath, EntrySteps
<1>8. ExitPath'
  <2>1. l \in Nat /\ RunLevels \in Nat /\ \A k \in LevelIds : k \in Nat /\ k <= RunLevels
    BY <1>2, RunConstants DEF LevelIds
  <2>2. \A k \in LevelIds : k > closing' => protections'[k] = "ACTIVE_PROTECTED"
    BY <1>2, <1>3, <1>4, <2>1
  <2>3. step' = "amend" => protections'[closing'] = "ACTIVE_PROTECTED"
    BY <1>2, <1>3, <1>4, <2>1
  <2> QED BY <1>3, <1>4, <2>2, <2>3 DEF ExitPath, ExitSteps, ClosingSteps
<1>9. StopInv'
  <2>1. NetPosition' = NetPosition
    BY <1>1, SamePosition
  <2>2. \A k \in LevelIds : Covered(k)' = Covered(k)
    BY <1>1 DEF Covered, Exited
  <2> QED BY <1>1, <1>2, <1>4, <2>1, <2>2 DEF RunInv, StopInv, EntrySteps
<1>10. ClosedLevelIsExplained'
  <2>1. \A k \in LevelIds : k # l =>
          (protections'[k] \in {"CLOSED_TP", "CLOSED_STOP"} =>
            /\ Exited(done, k)' = done'[k]["ENTRY"] /\ booked'[k] = done'[k]
            /\ protections'[k] = "CLOSED_TP" => done'[k]["STOP"] = 0
            /\ \A r \in LevelRoles : orders'[k][r] # "OPEN")
    BY <1>1, <1>3 DEF RunInv, ClosedLevelIsExplained, Exited
  <2>2. ASSUME protections'[l] # "RECONCILING"
        PROVE  /\ Exited(done, l) = done[l]["ENTRY"] /\ booked[l] = done[l]
               /\ protections'[l] = "CLOSED_TP" => done[l]["STOP"] = 0
               /\ \A r \in LevelRoles : orders[l][r] # "OPEN"
    <3>1. Explained(l) /\ protections'[l] = Terminal(l)
      BY <1>1, <1>2, <2>2 DEF RunInv, RunTypes
    <3>2. \A k \in LevelIds : protections[k] # "NONE" /\ booked[k]["ENTRY"] = done[k]["ENTRY"]
      BY <1>2 DEF RunInv, RunBooks, SnapshotsAreTrue, Filled
    <3>3. booked[l] = done[l]
      BY <1>2, <3>1, <3>2, MatchingBooksAreComplete DEF RunInv, RunBooks, Explained
    <3>4. booked[l]["STOP"] \in Nat
      BY <1>2, RoleTypes DEF RunInv, LevelRoles, ExitRoles
    <3>5. protections'[l] = "CLOSED_TP" => done[l]["STOP"] = 0
      BY <3>1, <3>3, <3>4 DEF Terminal
    <3>6. orders[l]["ENTRY"] = "DONE"
      BY <1>2 DEF RunInv, RunBooks, SnapshotsAreTrue, Filled
    <3> QED BY <1>2, <3>1, <3>3, <3>5, <3>6 DEF Explained, Exited, LevelRoles
  <2> QED BY <1>1, <2>1, <2>2 DEF ClosedLevelIsExplained, Exited
<1> QED BY <1>5, <1>6, <1>7, <1>8, <1>9, <1>10 DEF RunInv

LEMMA RunStep == RunInv /\ [RunNext]_runVars => RunInv'
<1> SUFFICES ASSUME RunInv, [RunNext]_runVars PROVE RunInv'
  OBVIOUS
<1>1. CASE ExchangeMoves
  BY <1>1, ExecuteKeeps, RemoveKeeps, PublishKeeps DEF ExchangeMoves
<1>2. CASE (\E k \in LevelIds : CrossLevels(k)) \/ WaitForCrossingEnds
  BY <1>2, CrossKeeps, RaiseKeeps DEF WaitForCrossingEnds
<1>3. CASE SubmitEntry \/ AwaitEntryFill \/ ReconcileAggregate \/ InstallExit
  BY <1>3, SubmitKeeps, FillKeeps, AggregateKeeps, InstallKeeps
<1>4. CASE VerifyProtected \/ ReconcileRestart \/ ReconcileFinal
  <2>1. /\ UNCHANGED <<exchangeSide, storeSide>>
        /\ \/ GoTo("raised")
           \/ step = "verify" /\ GoTo("restart")
           \/ step = "restart" /\ GoTo("amend")
           \/ step = "final" /\ GoTo("done")
    BY <1>4 DEF VerifyProtected, ReconcileRestart, ReconcileFinal, CheckAggregate
  <2>2. CASE GoTo("raised")
    BY <2>1, <2>2, RaiseKeeps
  <2>3. CASE ~GoTo("raised")
    <3>1. /\ GoTo(step')
          /\ \/ step = "verify" /\ step' = "restart"
             \/ step = "restart" /\ step' = "amend"
             \/ step = "final" /\ step' = "done"
      BY <2>1, <2>3 DEF GoTo
    <3> QED BY <2>1, <3>1, ExitStepsKeep
  <2> QED BY <2>2, <2>3
<1>5. CASE AmendTakeProfit
  <2>1. UNCHANGED <<exchangeSide, storeSide>> /\ GoTo(step') /\ step = "amend" /\ step' = "poll"
    BY <1>5 DEF AmendTakeProfit, GoTo
  <2> QED BY <2>1, ExitStepsKeep
<1>6. CASE AwaitExit \/ ListExits \/ CancelListed \/ SettleExit
  BY <1>6, AwaitExitKeeps, ListKeeps, CancelKeeps, SettleKeeps
<1>7. CASE RunRaises
  BY <1>7, RaiseKeeps DEF RunRaises
<1>8. CASE UNCHANGED runVars
  <2>1. UNCHANGED <<exchangeSide, storeSide, runnerSide>>
    BY <1>8 DEF runVars
  <2>2. RunTypes' /\ RunPath' /\ ExitPath'
    BY <2>1 DEF RunInv, RunTypes, RunPath, ExitPath, Exited, exchangeSide, storeSide, runnerSide
  <2>3. StopInv'
    <3>1. CASE step = "raised"
      BY <2>1, <3>1, AfterException DEF runnerSide
    <3>2. CASE step # "raised"
      BY <2>1, <3>2, StopsStay DEF exchangeSide, storeSide, runnerSide
    <3> QED BY <3>1, <3>2
  <2> QED BY <2>1, <2>2, <2>3, BooksStay DEF RunInv
<1> QED BY <1>1, <1>2, <1>3, <1>4, <1>5, <1>6, <1>7, <1>8 DEF RunNext, RunnerMoves

\* The invariant of the cycle of several levels, for any number of them.
THEOREM RunInvariant == RunSpec => []RunInv
<1>1. RunInit => RunInv
  BY RunInitially
<1>2. RunInv /\ [RunNext]_runVars => RunInv'
  BY RunStep
<1> QED BY <1>1, <1>2, PTL DEF RunSpec

\* A level recorded as closed has left the exchange exactly once: its exits add up to its
\* entry and are booked, and none of its orders works.
THEOREM ClosedLevelsAreExplained == RunSpec => []ClosedLevelIsExplained
<1>1. RunInv => ClosedLevelIsExplained
  BY DEF RunInv
<1> QED BY <1>1, RunInvariant, PTL

\* Outside of the entries and of the emergency path, no more is held than the working
\* stops would buy back and the triggered ones have left of their own levels, whatever
\* the exits of the levels did to the common position.
THEOREM StopsCoverThePosition == RunSpec => []EveryLotHasItsStop
<1>1. RunInv => EveryLotHasItsStop
  <2> SUFFICES ASSUME RunInv, step \notin {"submit", "fill", "aggregate", "install", "raised"},
                      NetPosition > 0
               PROVE  NetPosition <= StoppedLots + MissedLots
    BY DEF EveryLotHasItsStop
  <2>1. NetPosition # 0
    BY HeldTypes DEF RunInv
  <2>2. \A l \in LevelIds : protections[l] # "NONE" => Covered(l)
    BY <2>1 DEF RunInv, StopInv, EntrySteps
  <2>3. \A l \in LevelIds : protections[l] = "NONE" => entries[l] = "NONE"
    BY DEF RunInv, RunPath, EntrySteps
  <2>4. \A l \in LevelIds : protections[l] = "NONE" => done[l]["ENTRY"] = 0
    BY <2>3 DEF RunInv, RunBooks, SnapshotsAreTrue, OrdersHaveRoom, LevelRoles
  <2> QED BY <2>2, <2>4, StopsCover DEF RunInv
<1> QED BY <1>1, RunInvariant, PTL
=============================================================================
