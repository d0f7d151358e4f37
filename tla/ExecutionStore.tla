--------------------------- MODULE ExecutionStore ---------------------------
(***************************************************************************)
(* SqliteExecutionStore (infrastructure/persistence/sqlite_execution_store) *)
(* under several writers: the tasks of one runner, and a second runner on   *)
(* the same database.  A caller loads a snapshot, computes its successor,   *)
(* and hands it back with the version it loaded; the store runs one         *)
(* transaction of at most two statements, the second one guarded by that    *)
(* version.                                                                 *)
(*                                                                          *)
(* SQLite is external: one writer at a time, readers see what is committed, *)
(* a transaction that raises or whose process dies leaves nothing.  A row   *)
(* keeps its version and the one number that its executions (entry, exit    *)
(* and option snapshots) or its postings (recovery debts) add up to.        *)
(***************************************************************************)
EXTENDS Integers

CONSTANTS
  Writers,
  Entries, Protections, Options, Debts, \* the keys of the four snapshot tables
  Links,        \* order link IDs
  Executions,   \* execution IDs
  Postings,     \* changes of a recovery debt, each made by one call
  KeyOf,        \* the snapshot an execution or a posting belongs to, or None
  Quantity,     \* what it adds
  Parent,       \* the order a snapshot references, or None
  None,
  MaxVersion    \* bound: versions of a row

Keys == Entries \cup Protections \cup Options \cup Debts

ASSUME StoreConstants ==
  /\ MaxVersion \in Nat
  /\ None \notin Keys /\ None \notin Links \cup Executions \cup Postings \cup Writers
  /\ Links \cap Executions = {} /\ Links \cap Postings = {} /\ Executions \cap Postings = {}
  /\ KeyOf \in [Executions \cup Postings -> Keys \cup {None}]
  /\ \A p \in Postings : KeyOf[p] \in Debts
  /\ Quantity \in [Executions \cup Postings -> Int]
  /\ Parent \in [Keys -> Links \cup {None}]

VARIABLES
  db,       \* the committed tables
  draft,    \* the tables as the open transaction sees them
  owner,    \* the writer whose transaction is open, or None
  call,     \* writer -> its call under way
  posted    \* history: the debt changes committed so far

storeVars == <<db, draft, owner, call, posted>>

Items == Links \cup Executions \cup Postings
Row == [version : Nat, total : Int]
NoRow == [version |-> 0, total |-> 0]
Tables == [intents : SUBSET Links, acknowledged : SUBSET Links,
           executions : SUBSET Executions, rows : [Keys -> Row]]
Idle == [stage |-> "idle", first |-> "nothing", second |-> "nothing", key |-> None,
         item |-> None, previous |-> 0, total |-> 0]
Calls == [stage : {"idle", "loaded", "ready", "begun", "written"},
          first : {"intent", "acknowledge", "execution", "nothing"},
          second : {"insert", "update", "nothing"},
          key : Keys \cup {None}, item : Items \cup {None},
          previous : Nat, total : Int]

StoreTypeOK ==
  /\ db \in Tables /\ draft \in Tables
  /\ owner \in Writers \cup {None}
  /\ call \in [Writers -> Calls]
  /\ posted \in SUBSET Postings

StoreInit ==
  /\ db = [intents |-> {}, acknowledged |-> {}, executions |-> {},
           rows |-> [k \in Keys |-> NoRow]]
  /\ draft = db
  /\ owner = None
  /\ call = [w \in Writers |-> Idle]
  /\ posted = {}

---------------------------------------------------------------------------
\* The callers.

Amount(i) == IF i \in Executions \cup Postings THEN Quantity[i] ELSE 0

\* A writer enters the store with what it loaded.
Enter(w, stage, first, second, k, i) ==
  /\ call[w] = Idle
  /\ LET row == IF k = None THEN NoRow ELSE db.rows[k]
     IN  /\ second = "update" => row.version > 0 /\ row.version < MaxVersion
         /\ call' = [call EXCEPT ![w] =
              [stage |-> stage, first |-> first, second |-> second, key |-> k, item |-> i,
               previous |-> IF second = "update" THEN row.version ELSE 0,
               total |-> (IF second = "update" THEN row.total ELSE 0) + Amount(i)]]
  /\ UNCHANGED <<db, draft, owner, posted>>

\* persist_entry_intent
PersistEntryIntent(w) ==
  \E k \in Entries : Parent[k] # None /\ Enter(w, "ready", "intent", "insert", k, Parent[k])
\* persist_protection_intent: the stop's intent and the snapshot of its entry
PersistProtectionIntent(w) ==
  \E k \in Protections, l \in Links : Enter(w, "ready", "intent", "insert", k, l)
\* persist_option_long_intent
PersistOptionLongIntent(w) ==
  \E k \in Options, l \in Links : Enter(w, "ready", "intent", "insert", k, l)
\* persist_take_profit_intent
PersistTakeProfitIntent(w) ==
  \E k \in Protections, l \in Links : Enter(w, "ready", "intent", "update", k, l)
\* persist_replacement_stop_intent
PersistReplacementStopIntent(w) == PersistTakeProfitIntent(w)
\* persist_option_short_intent
PersistOptionShortIntent(w) ==
  \E k \in Options, l \in Links : Enter(w, "ready", "intent", "update", k, l)
\* persist_order_intent: an order with no snapshot
PersistOrderIntent(w) ==
  \E l \in Links : Enter(w, "ready", "intent", "nothing", None, l)

\* record_acknowledgement
RecordAcknowledgement(w) ==
  \E l \in Links : Enter(w, "ready", "acknowledge", "nothing", None, l)
\* record_acknowledgement_and_snapshot
RecordAcknowledgementAndSnapshot(w) ==
  \E k \in Entries : Parent[k] # None /\ Enter(w, "ready", "acknowledge", "update", k, Parent[k])
\* record_option_acknowledgement_and_snapshot
RecordOptionAcknowledgement(w) ==
  \E k \in Options, l \in Links : Enter(w, "ready", "acknowledge", "update", k, l)

\* An execution is looked up after its snapshot was loaded.
EnterExecution(w, keys) ==
  \E x \in Executions :
    KeyOf[x] \in keys /\ Enter(w, "loaded", "execution", "update", KeyOf[x], x)
\* record_execution_and_snapshot
RecordExecutionAndSnapshot(w) == EnterExecution(w, Entries)
\* record_exit_execution_and_snapshot
RecordExitExecution(w) == EnterExecution(w, Protections)
\* record_option_execution_and_snapshot
RecordOptionExecution(w) == EnterExecution(w, Options)
\* record_execution: an order with no snapshot
RecordExecution(w) ==
  \E x \in Executions : KeyOf[x] = None /\ Enter(w, "ready", "execution", "nothing", None, x)

\* transition_entry_snapshot, transition_protection_snapshot, transition_option_spread_snapshot
TransitionSnapshot(w) ==
  \E k \in Entries \cup Protections \cup Options : Enter(w, "ready", "nothing", "update", k, None)

\* One caller makes a given debt change, and makes it once.
Unposted(p) == p \notin posted /\ \A v \in Writers : call[v].item # p
\* persist_recovery_debt_snapshot: no debt was loaded
PersistRecoveryDebt(w) ==
  \E p \in Postings :
    /\ Unposted(p) /\ db.rows[KeyOf[p]].version = 0
    /\ Enter(w, "ready", "nothing", "insert", KeyOf[p], p)
\* transition_recovery_debt_snapshot
TransitionRecoveryDebt(w) ==
  \E p \in Postings : Unposted(p) /\ Enter(w, "ready", "nothing", "update", KeyOf[p], p)

---------------------------------------------------------------------------
\* One transaction.

Return(w) == call' = [call EXCEPT ![w] = Idle]

\* has_execution, asked by the caller between the load and the transaction
HasExecution(w) ==
  /\ call[w].stage = "loaded"
  /\ IF call[w].item \in db.executions THEN Return(w)
     ELSE call' = [call EXCEPT ![w].stage = "ready"]
  /\ UNCHANGED <<db, draft, owner, posted>>

\* The first statement and its outcome: a taken link ID raises, an acknowledgement
\* of nothing raises, an execution that is there is ignored.
FirstFails(c) ==
  \/ c.first = "intent" /\ c.item \in db.intents
  \/ c.first = "acknowledge" /\ c.item \notin db.intents
  \/ c.first = "execution" /\ c.item \in db.executions

\* _insert_order_intent, UPDATE order_intents, _insert_execution_if_new
FirstStatement(c) ==
  [db EXCEPT !.intents = IF c.first = "intent" THEN @ \cup {c.item} ELSE @,
             !.acknowledged = IF c.first = "acknowledge" THEN @ \cup {c.item} ELSE @,
             !.executions = IF c.first = "execution" THEN @ \cup {c.item} ELSE @]

\* The transaction begins with its first statement, which takes the write lock.
Begin(w) ==
  /\ call[w].stage = "ready" /\ owner = None
  /\ \/ /\ FirstFails(call[w])
        /\ Return(w)
        /\ UNCHANGED <<draft, owner>>
     \/ /\ ~FirstFails(call[w])
        /\ call' = [call EXCEPT ![w].stage = "begun"]
        /\ owner' = w
        /\ draft' = FirstStatement(call[w])
  /\ UNCHANGED <<db, posted>>

\* The lock is not free within the connection's timeout.
Busy(w) ==
  /\ call[w].stage = "ready" /\ owner \notin {None, w}
  /\ Return(w)
  /\ UNCHANGED <<db, draft, owner, posted>>

AnyVersion(c) == draft.rows[c.key].version > 0
\* WHERE ... AND version = ?
VersionMatches(c) == draft.rows[c.key].version = c.previous

\* INSERT of a snapshot: the key is new and the order it references is there.
InsertMatches(c) ==
  /\ draft.rows[c.key].version = 0
  /\ Parent[c.key] = None \/ Parent[c.key] \in draft.intents

SecondSucceeds(c) ==
  /\ c.second = "update" => VersionMatches(c)
  /\ c.second = "insert" => InsertMatches(c)

\* _update_snapshot and its three siblings, and the INSERTs of snapshots
SecondStatement(c) ==
  IF c.second = "nothing" THEN draft
  ELSE [draft EXCEPT !.rows[c.key] = [version |-> c.previous + 1, total |-> c.total]]

RollBack(w) ==
  /\ draft' = db /\ owner' = None
  /\ Return(w)
  /\ UNCHANGED <<db, posted>>

\* ConcurrentSnapshotUpdateError or IntegrityError leaves the with block: all is undone.
Raise(w) == RollBack(w)

Second(w) ==
  /\ call[w].stage = "begun"
  /\ \/ /\ SecondSucceeds(call[w])
        /\ draft' = SecondStatement(call[w])
        /\ call' = [call EXCEPT ![w].stage = "written"]
        /\ UNCHANGED <<db, owner, posted>>
     \/ ~SecondSucceeds(call[w]) /\ Raise(w)

\* The with block ends: the transaction is committed.
Commit(w) ==
  /\ call[w].stage = "written"
  /\ db' = draft
  /\ posted' = posted \cup ({call[w].item} \cap Postings)
  /\ owner' = None
  /\ Return(w)
  /\ UNCHANGED draft

\* The process dies, or the call is cancelled, at any point.
Crash(w) ==
  /\ call[w] # Idle
  /\ IF owner = w THEN RollBack(w)
     ELSE Return(w) /\ UNCHANGED <<db, draft, owner, posted>>

CallStore(w) ==
  \/ PersistEntryIntent(w) \/ PersistProtectionIntent(w) \/ PersistOptionLongIntent(w)
  \/ PersistTakeProfitIntent(w) \/ PersistReplacementStopIntent(w)
  \/ PersistOptionShortIntent(w) \/ PersistOrderIntent(w)
  \/ RecordAcknowledgement(w) \/ RecordAcknowledgementAndSnapshot(w)
  \/ RecordOptionAcknowledgement(w)
  \/ RecordExecutionAndSnapshot(w) \/ RecordExitExecution(w) \/ RecordOptionExecution(w)
  \/ RecordExecution(w) \/ TransitionSnapshot(w)
  \/ PersistRecoveryDebt(w) \/ TransitionRecoveryDebt(w)

StoreNext ==
  \E w \in Writers :
    \/ CallStore(w) \/ HasExecution(w) \/ Begin(w) \/ Busy(w) \/ Second(w)
    \/ Commit(w) \/ Crash(w)

StoreSpec == StoreInit /\ [][StoreNext]_storeVars

---------------------------------------------------------------------------
\* The promise.

Opened == {k \in Keys : db.rows[k].version > 0}
Ledger == INSTANCE ExecutionLedger WITH
  intents <- db.intents, acknowledged <- db.acknowledged, booked <- db.executions,
  opened <- Opened, total <- [k \in Keys |-> db.rows[k].total]

\* Whatever the writers interleave, repeat, lose or abandon, what is committed changes
\* only as ExecutionLedger says: each intent once and with its snapshot, each execution
\* once and in one instant with the quantity computed from it, no change lost to a
\* writer that had loaded an older snapshot (the transactions and version guards of
\* sqlite_execution_store.py).
KeepsLedger == Ledger!LedgerSpec
============================================================================
