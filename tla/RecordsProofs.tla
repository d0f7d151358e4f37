---------------------------- MODULE RecordsProofs ----------------------------
(***************************************************************************)
(* What the program writes down.  The execution store implements the        *)
(* abstract ledger, for any sets of writers, keys, orders, executions and   *)
(* debt changes; a start rebuilds the right state from the event journal;   *)
(* and the books of the simulated exchange balance, for any prices, delays, *)
(* fees and quantities.                                                     *)
(*                                                                          *)
(* The store.  The committed tables change only in Commit, so the           *)
(* refinement is one step: what Commit writes must be one of the ledger's   *)
(* steps.  That needs an invariant about calls still under way:             *)
(*   ShapeOf        which first and second statements go together;          *)
(*   Loaded         a call that updates a row carries a version the row has *)
(*                  had, and if the row still has it, the total it will     *)
(*                  write is the committed one plus its own amount;         *)
(*   Transaction    an open transaction is its owner's statements applied   *)
(*                  to what is committed, and nobody else has one.          *)
(* Loaded is where the version guard earns its keep: it survives the        *)
(* commits of other writers because each of them raises the version.        *)
(*                                                                          *)
(* The journal.  A snapshot, and a rebuild at either of its stages, is      *)
(* exact: its state is what the cycle's events up to its number lead to.    *)
(* Two facts about the loop of the rebuild carry the proof: it may be split *)
(* at any number, and an event appended to the log is applied last.  The    *)
(* snapshot the runner commits counts the event committed with it because   *)
(* nobody else appends while the runner rebuilds.                           *)
(*                                                                          *)
(* The exchange.  One pass over the orders keeps four things together:      *)
(*   Balanced       position, cash and replay follow from the executions;   *)
(*   Delivered      every execution is queued or was drained;               *)
(*   Runs           the exposure clock runs when it should;                 *)
(*   SimOrders      a working order is not yet filled, an exit reduces only *)
(*                  and a stop has a trigger.                               *)
(* The last is why a pass may cancel without touching the clock: what it    *)
(* cancels is no stop, or nothing is held.                                  *)
(***************************************************************************)
EXTENDS ExecutionStore, Journal, SimulatedExchange, SumTheorems, SequenceTheorems, TLAPS

-----------------------------------------------------------------------------
(* The execution store *)


Shape(first, second, k, i) ==
  /\ first \in {"intent", "acknowledge", "execution", "nothing"}
  /\ second \in {"insert", "update", "nothing"}
  /\ k \in Keys \cup {None} /\ i \in Items \cup {None}
  /\ second # "nothing" => k \in Keys
  /\ first \in {"intent", "acknowledge"} => i \in Links
  /\ first = "acknowledge" => second # "insert"
  /\ first = "execution" => /\ i \in Executions /\ second # "insert"
                            /\ second = "update" => k = KeyOf[i]
                            /\ second = "nothing" => KeyOf[i] = None
  /\ first = "nothing" => \/ i = None /\ second = "update"
                          \/ i \in Postings /\ k = KeyOf[i] /\ second # "nothing"

ShapeOf(c) == Shape(c.first, c.second, c.key, c.item)

Loaded(c) ==
  /\ c.second = "insert" => c.previous = 0 /\ c.total = Amount(c.item)
  /\ c.second = "update" =>
       /\ 0 < c.previous /\ c.previous <= db.rows[c.key].version
       /\ c.previous = db.rows[c.key].version => c.total = db.rows[c.key].total + Amount(c.item)

CallsOK == \A w \in Writers : call[w] # Idle => ShapeOf(call[w]) /\ Loaded(call[w])

PostedOnce ==
  \A w \in Writers : call[w].item \in Postings =>
    /\ call[w].item \notin posted
    /\ \A v \in Writers : call[v].item = call[w].item => v = w

RowsOK == \A k \in Keys : db.rows[k].version = 0 => db.rows[k].total = 0

\* What the second statement found, and what it leaves, in terms of what is committed.
Found(c) ==
  /\ c.second = "update" => db.rows[c.key].version = c.previous
  /\ c.second = "insert" => /\ db.rows[c.key].version = 0
                            /\ Parent[c.key] = None \/ Parent[c.key] \in FirstStatement(c).intents
Written(c) ==
  IF c.second = "nothing" THEN FirstStatement(c)
  ELSE [FirstStatement(c) EXCEPT !.rows[c.key] = [version |-> c.previous + 1, total |-> c.total]]

Transaction ==
  /\ \A w \in Writers : call[w].stage \in {"begun", "written"} <=> owner = w
  /\ \A w \in Writers : call[w].stage = "begun" =>
       ~FirstFails(call[w]) /\ draft = FirstStatement(call[w])
  /\ \A w \in Writers : call[w].stage = "written" =>
       ~FirstFails(call[w]) /\ Found(call[w]) /\ draft = Written(call[w])

StoreInv ==
  StoreTypeOK /\ CallsOK /\ PostedOnce /\ RowsOK /\ Transaction

---------------------------------------------------------------------------
\* Facts about the records.

LEMMA IdleType == Idle \in Calls
  BY StoreConstants DEF Idle, Calls

LEMMA AmountType == \A i \in Items \cup {None} : Amount(i) \in Int
  BY StoreConstants DEF Amount, Items

LEMMA LinkAmount == \A i \in Links \cup {None} : Amount(i) = 0
  BY StoreConstants DEF Amount

LEMMA FirstType ==
  ASSUME db \in Tables, NEW c, ShapeOf(c)
  PROVE  FirstStatement(c) \in Tables
  BY DEF FirstStatement, Tables, ShapeOf, Shape

LEMMA FirstFields ==
  ASSUME db \in Tables, NEW c
  PROVE  /\ FirstStatement(c).rows = db.rows
         /\ FirstStatement(c).intents = IF c.first = "intent" THEN db.intents \cup {c.item} ELSE db.intents
         /\ FirstStatement(c).acknowledged =
              IF c.first = "acknowledge" THEN db.acknowledged \cup {c.item} ELSE db.acknowledged
         /\ FirstStatement(c).executions =
              IF c.first = "execution" THEN db.executions \cup {c.item} ELSE db.executions
  BY DEF FirstStatement, Tables

LEMMA WrittenFields ==
  ASSUME db \in Tables, NEW c, ShapeOf(c), c.previous \in Nat, c.total \in Int
  PROVE  /\ Written(c) \in Tables
         /\ Written(c).intents = FirstStatement(c).intents
         /\ Written(c).acknowledged = FirstStatement(c).acknowledged
         /\ Written(c).executions = FirstStatement(c).executions
         /\ Written(c).rows = IF c.second = "nothing" THEN db.rows
              ELSE [db.rows EXCEPT ![c.key] = [version |-> c.previous + 1, total |-> c.total]]
<1>1. FirstStatement(c) \in Tables
  BY FirstType
<1>2. FirstStatement(c).rows = db.rows
  BY FirstFields
<1>3. CASE c.second = "nothing"
  BY <1>1, <1>2, <1>3 DEF Written
<1>4. CASE c.second # "nothing"
  <2>1. c.key \in Keys
    BY <1>4 DEF ShapeOf, Shape
  <2>2. [version |-> c.previous + 1, total |-> c.total] \in Row
    BY DEF Row
  <2>3. Written(c) = [FirstStatement(c) EXCEPT !.rows =
          [db.rows EXCEPT ![c.key] = [version |-> c.previous + 1, total |-> c.total]]]
    BY <1>1, <1>2, <1>4 DEF Written, Tables
  <2>4. [db.rows EXCEPT ![c.key] = [version |-> c.previous + 1, total |-> c.total]] \in [Keys -> Row]
    BY <2>1, <2>2 DEF Tables
  <2> QED
    BY <1>1, <1>4, <2>3, <2>4 DEF Tables
<1> QED
  BY <1>3, <1>4

---------------------------------------------------------------------------
LEMMA InitStore == StoreInit => StoreInv
<1> SUFFICES ASSUME StoreInit PROVE StoreInv
  OBVIOUS
<1>1. NoRow \in Row
  BY DEF NoRow, Row
<1>2. db \in Tables /\ draft \in Tables
  BY <1>1 DEF StoreInit, Tables
<1>3. call \in [Writers -> Calls]
  BY IdleType DEF StoreInit
<1>4. \A w \in Writers : call[w] = Idle
  BY DEF StoreInit
<1>5. StoreTypeOK
  BY <1>2, <1>3 DEF StoreInit, StoreTypeOK
<1>6. CallsOK
  BY <1>4 DEF CallsOK
<1>7. PostedOnce
  BY <1>4, StoreConstants DEF PostedOnce, Idle
<1>8. RowsOK
  BY DEF StoreInit, RowsOK, NoRow
<1>9. Transaction
  BY <1>4, StoreConstants DEF Transaction, Idle, StoreInit
<1> QED
  BY <1>5, <1>6, <1>7, <1>8, <1>9 DEF StoreInv

---------------------------------------------------------------------------
\* Steps that commit nothing.

\* A call returns: its writer had no transaction, or it is undone.
LEMMA ReturnKeeps ==
  ASSUME StoreInv, NEW w \in Writers, Return(w), UNCHANGED <<db, posted>>,
         \/ owner # w /\ UNCHANGED <<draft, owner>>
         \/ owner = w /\ owner' = None /\ draft' = db
  PROVE  StoreInv'
<1> USE DEF StoreInv
<1>1. \A v \in Writers : call'[v] = IF v = w THEN Idle ELSE call[v]
  BY DEF Return, StoreTypeOK
<1>2. StoreTypeOK'
  <2>1. call' \in [Writers -> Calls]
    BY IdleType DEF Return, StoreTypeOK
  <2> QED
    BY <2>1 DEF StoreTypeOK
<1>3. CallsOK'
  BY <1>1 DEF CallsOK, Loaded, ShapeOf
<1>4. PostedOnce'
  BY <1>1, StoreConstants DEF PostedOnce, Idle
<1>5. RowsOK'
  BY DEF RowsOK
<1>6. Transaction'
  <2>1. \A v \in Writers : call'[v].stage \in {"begun", "written"} <=> owner' = v
    BY <1>1, StoreConstants DEF Transaction, Idle
  <2>2. \A v \in Writers : call'[v].stage \in {"begun", "written"} => v # w /\ draft' = draft
    BY <1>1, <2>1, StoreConstants DEF Transaction, Idle
  <2>3. ASSUME NEW v \in Writers, call'[v].stage = "begun"
        PROVE  (~FirstFails(call[v]) /\ draft = FirstStatement(call[v]))'
    <3>1. call'[v] = call[v] /\ draft' = draft /\ db' = db
      BY <1>1, <2>2, <2>3
    <3>2. ~FirstFails(call[v]) /\ draft = FirstStatement(call[v])
      BY <2>3, <3>1 DEF Transaction
    <3> QED
      BY <3>1, <3>2 DEF FirstFails, FirstStatement
  <2>4. ASSUME NEW v \in Writers, call'[v].stage = "written"
        PROVE  (~FirstFails(call[v]) /\ Found(call[v]) /\ draft = Written(call[v]))'
    <3>1. call'[v] = call[v] /\ draft' = draft /\ db' = db
      BY <1>1, <2>2, <2>4
    <3>2. ~FirstFails(call[v]) /\ Found(call[v]) /\ draft = Written(call[v])
      BY <2>4, <3>1 DEF Transaction
    <3> QED
      BY <3>1, <3>2 DEF FirstFails, FirstStatement, Found, Written
  <2> QED
    BY <2>1, <2>3, <2>4 DEF Transaction
<1> QED
  BY <1>2, <1>3, <1>4, <1>5, <1>6

\* A writer enters the store.
LEMMA EnterKeeps ==
  ASSUME StoreInv, NEW w \in Writers, NEW stage \in {"loaded", "ready"}, NEW first, NEW second,
         NEW k, NEW i, Shape(first, second, k, i), i \in Postings => Unposted(i),
         Enter(w, stage, first, second, k, i)
  PROVE  StoreInv'
<1> USE DEF StoreInv
<1> DEFINE row == IF k = None THEN NoRow ELSE db.rows[k]
           new == [stage |-> stage, first |-> first, second |-> second, key |-> k, item |-> i,
                   previous |-> IF second = "update" THEN row.version ELSE 0,
                   total |-> (IF second = "update" THEN row.total ELSE 0) + Amount(i)]
<1>1. call' = [call EXCEPT ![w] = new] /\ UNCHANGED <<db, draft, owner, posted>>
  BY DEF Enter
<1>2. row \in Row
  BY DEF Shape, StoreTypeOK, Tables, Row, NoRow
<1>3. new \in Calls
  <2>1. Amount(i) \in Int
    BY AmountType DEF Shape
  <2>2. row.version \in Nat /\ row.total \in Int
    BY <1>2 DEF Row
  <2> HIDE DEF row
  <2> QED
    BY <2>1, <2>2 DEF Calls, Shape
<1>4. second = "update" => k \in Keys /\ row = db.rows[k] /\ row.version > 0
  BY StoreConstants DEF Enter, Shape
<1>5. Loaded(new)
  <2>1. CASE second = "insert"
    BY <2>1, AmountType DEF Loaded, Shape
  <2>2. CASE second = "update"
    BY <2>2, <1>4, <1>2 DEF Loaded, Row
  <2>3. CASE second = "nothing"
    BY <2>3 DEF Loaded
  <2> QED
    BY <2>1, <2>2, <2>3 DEF Shape
<1>6. ShapeOf(new)
  BY DEF ShapeOf
<1>7. new.item = i /\ new.stage \in {"loaded", "ready"}
  OBVIOUS
<1>8. call[w] = Idle
  BY DEF Enter
<1> HIDE DEF new, row
<1>9. \A v \in Writers : call'[v] = IF v = w THEN new ELSE call[v]
  BY <1>1 DEF StoreTypeOK
<1>10. StoreTypeOK'
  BY <1>1, <1>3 DEF StoreTypeOK
<1>11. CallsOK'
  BY <1>1, <1>5, <1>6, <1>9 DEF CallsOK, Loaded, ShapeOf
<1>12. PostedOnce'
  BY <1>1, <1>7, <1>9 DEF PostedOnce, Unposted
<1>13. RowsOK'
  BY <1>1 DEF RowsOK
<1>14. Transaction'
  <2>1. owner # w
    BY <1>8 DEF Transaction, Idle
  <2>2. \A v \in Writers : call'[v].stage \in {"begun", "written"} <=> owner' = v
    BY <1>1, <1>7, <1>9, <2>1 DEF Transaction
  <2>3. ASSUME NEW v \in Writers, call'[v].stage = "begun"
        PROVE  (~FirstFails(call[v]) /\ draft = FirstStatement(call[v]))'
    <3>1. call'[v] = call[v] /\ draft' = draft /\ db' = db
      BY <1>1, <1>7, <1>9, <2>3
    <3>2. ~FirstFails(call[v]) /\ draft = FirstStatement(call[v])
      BY <2>3, <3>1 DEF Transaction
    <3> QED
      BY <3>1, <3>2 DEF FirstFails, FirstStatement
  <2>4. ASSUME NEW v \in Writers, call'[v].stage = "written"
        PROVE  (~FirstFails(call[v]) /\ Found(call[v]) /\ draft = Written(call[v]))'
    <3>1. call'[v] = call[v] /\ draft' = draft /\ db' = db
      BY <1>1, <1>7, <1>9, <2>4
    <3>2. ~FirstFails(call[v]) /\ Found(call[v]) /\ draft = Written(call[v])
      BY <2>4, <3>1 DEF Transaction
    <3> QED
      BY <3>1, <3>2 DEF FirstFails, FirstStatement, Found, Written
  <2> QED
    BY <2>2, <2>3, <2>4 DEF Transaction
<1> QED
  BY <1>10, <1>11, <1>12, <1>13, <1>14

LEMMA CallKeeps ==
  ASSUME StoreInv, NEW w \in Writers, CallStore(w) PROVE StoreInv'
<1>1. ASSUME NEW K, K \subseteq Keys, NEW second \in {"insert", "update"}, NEW first \in {"intent", "acknowledge"},
             first = "acknowledge" => second = "update",
             NEW k \in K, NEW l \in Links, Enter(w, "ready", first, second, k, l)
      PROVE StoreInv'
  <2>1. Shape(first, second, k, l)
    BY <1>1 DEF Shape, Items
  <2>2. l \notin Postings
    BY StoreConstants
  <2> QED
    BY <1>1, <2>1, <2>2, EnterKeeps
<1>2. ASSUME NEW l \in Links, NEW first \in {"intent", "acknowledge"}, Enter(w, "ready", first, "nothing", None, l)
      PROVE StoreInv'
  <2>1. Shape(first, "nothing", None, l)
    BY DEF Shape, Items
  <2>2. l \notin Postings
    BY StoreConstants
  <2> QED
    BY <1>2, <2>1, <2>2, EnterKeeps
<1>3. ASSUME NEW K, K \subseteq Keys, EnterExecution(w, K) PROVE StoreInv'
  <2>1. PICK x \in Executions : KeyOf[x] \in K /\ Enter(w, "loaded", "execution", "update", KeyOf[x], x)
    BY <1>3 DEF EnterExecution
  <2>2. Shape("execution", "update", KeyOf[x], x)
    BY <1>3, <2>1 DEF Shape, Items
  <2>3. x \notin Postings
    BY StoreConstants
  <2> QED
    BY <2>1, <2>2, <2>3, EnterKeeps
<1>4. ASSUME RecordExecution(w) PROVE StoreInv'
  <2>1. PICK x \in Executions : KeyOf[x] = None /\ Enter(w, "ready", "execution", "nothing", None, x)
    BY <1>4 DEF RecordExecution
  <2>2. Shape("execution", "nothing", None, x)
    BY <2>1 DEF Shape, Items
  <2>3. x \notin Postings
    BY StoreConstants
  <2> QED
    BY <2>1, <2>2, <2>3, EnterKeeps
<1>5. ASSUME TransitionSnapshot(w) PROVE StoreInv'
  <2>1. PICK k \in Keys : Enter(w, "ready", "nothing", "update", k, None)
    BY <1>5 DEF TransitionSnapshot, Keys
  <2>2. Shape("nothing", "update", k, None)
    BY <2>1 DEF Shape
  <2>3. None \notin Postings
    BY StoreConstants
  <2> QED
    BY <2>1, <2>2, <2>3, EnterKeeps
<1>6. ASSUME NEW second \in {"insert", "update"}, NEW p \in Postings, Unposted(p),
             Enter(w, "ready", "nothing", second, KeyOf[p], p)
      PROVE StoreInv'
  <2>1. KeyOf[p] \in Keys
    BY StoreConstants DEF Keys
  <2>2. Shape("nothing", second, KeyOf[p], p)
    BY <2>1 DEF Shape, Items
  <2> QED
    BY <1>6, <2>2, EnterKeeps
<1> USE DEF Keys
<1>7. CASE PersistEntryIntent(w)
  BY <1>1, <1>7, StoreConstants DEF PersistEntryIntent
<1>8. CASE PersistProtectionIntent(w) \/ PersistTakeProfitIntent(w) \/ PersistReplacementStopIntent(w)
  BY <1>1, <1>8 DEF PersistProtectionIntent, PersistTakeProfitIntent, PersistReplacementStopIntent
<1>9. CASE PersistOptionLongIntent(w) \/ PersistOptionShortIntent(w) \/ RecordOptionAcknowledgement(w)
  BY <1>1, <1>9 DEF PersistOptionLongIntent, PersistOptionShortIntent, RecordOptionAcknowledgement
<1>10. CASE PersistOrderIntent(w) \/ RecordAcknowledgement(w)
  BY <1>2, <1>10 DEF PersistOrderIntent, RecordAcknowledgement
<1>11. CASE RecordAcknowledgementAndSnapshot(w)
  BY <1>1, <1>11, StoreConstants DEF RecordAcknowledgementAndSnapshot
<1>12. CASE RecordExecutionAndSnapshot(w) \/ RecordExitExecution(w) \/ RecordOptionExecution(w)
  BY <1>3, <1>12 DEF RecordExecutionAndSnapshot, RecordExitExecution, RecordOptionExecution
<1>13. CASE PersistRecoveryDebt(w) \/ TransitionRecoveryDebt(w)
  BY <1>6, <1>13 DEF PersistRecoveryDebt, TransitionRecoveryDebt
<1> QED
  BY <1>4, <1>5, <1>7, <1>8, <1>9, <1>10, <1>11, <1>12, <1>13 DEF CallStore

---------------------------------------------------------------------------
\* The steps of a transaction.

SameButStage(c, d) ==
  /\ c.first = d.first /\ c.second = d.second /\ c.key = d.key /\ c.item = d.item
  /\ c.previous = d.previous /\ c.total = d.total

\* A call moves to its next stage: all that does not depend on the stage is kept.
LEMMA StageKeeps ==
  ASSUME StoreInv, NEW w \in Writers, call[w] # Idle,
         NEW s \in {"ready", "begun", "written"}, call' = [call EXCEPT ![w].stage = s],
         UNCHANGED <<db, posted>>, draft' \in Tables, owner' \in Writers \cup {None}
  PROVE  /\ StoreTypeOK' /\ CallsOK' /\ PostedOnce' /\ RowsOK'
         /\ call'[w].stage = s
         /\ SameButStage(call'[w], call[w])
         /\ \A v \in Writers : v # w => call'[v] = call[v]
<1> USE DEF StoreInv
<1>0. call[w] \in Calls
  BY DEF StoreTypeOK
<1>1. call'[w] = [call[w] EXCEPT !.stage = s]
  BY DEF StoreTypeOK
<1>2. call'[w].stage = s /\ SameButStage(call'[w], call[w]) /\ call'[w] \in Calls
  BY <1>0, <1>1 DEF Calls, SameButStage
<1>3. \A v \in Writers : v # w => call'[v] = call[v]
  BY DEF StoreTypeOK
<1>4. StoreTypeOK'
  <2>1. call' \in [Writers -> Calls]
    BY <1>2, <1>3 DEF StoreTypeOK
  <2> QED
    BY <2>1 DEF StoreTypeOK
<1>5. CallsOK'
  <2>1. ShapeOf(call[w])' /\ Loaded(call[w])'
    BY <1>2 DEF CallsOK, SameButStage, ShapeOf, Loaded
  <2>2. ASSUME NEW v \in Writers, v # w, call'[v] # Idle PROVE ShapeOf(call[v])' /\ Loaded(call[v])'
    BY <1>3, <2>2 DEF CallsOK, ShapeOf, Loaded
  <2> QED
    BY <2>1, <2>2 DEF CallsOK
<1>6. PostedOnce'
  <2>1. \A v \in Writers : call'[v].item = call[v].item
    BY <1>2, <1>3 DEF SameButStage
  <2> QED
    BY <2>1 DEF PostedOnce
<1>7. RowsOK'
  BY DEF RowsOK
<1> QED
  BY <1>2, <1>3, <1>4, <1>5, <1>6, <1>7

LEMMA HasExecutionKeeps ==
  ASSUME StoreInv, NEW w \in Writers, HasExecution(w) PROVE StoreInv'
<1> USE DEF StoreInv
<1>1. call[w].stage = "loaded" /\ call[w] # Idle /\ owner # w
  BY DEF HasExecution, Idle, Transaction
<1>2. CASE Return(w)
  BY <1>1, <1>2, ReturnKeeps DEF HasExecution
<1>3. CASE call' = [call EXCEPT ![w].stage = "ready"]
  <2>1. /\ (StoreTypeOK /\ CallsOK /\ PostedOnce /\ RowsOK)'
        /\ call'[w].stage = "ready"
        /\ \A v \in Writers : v # w => call'[v] = call[v]
    BY <1>1, <1>3, StageKeeps DEF HasExecution, StoreTypeOK
  <2>2. \A v \in Writers : call'[v].stage \in {"begun", "written"} <=> owner' = v
    BY <1>1, <2>1 DEF Transaction, HasExecution
  <2>3. ASSUME NEW v \in Writers, call'[v].stage = "begun"
        PROVE  (~FirstFails(call[v]) /\ draft = FirstStatement(call[v]))'
    <3>1. call'[v] = call[v] /\ draft' = draft /\ db' = db
      BY <2>1, <2>3 DEF HasExecution
    <3>2. ~FirstFails(call[v]) /\ draft = FirstStatement(call[v])
      BY <2>3, <3>1 DEF Transaction
    <3> QED
      BY <3>1, <3>2 DEF FirstFails, FirstStatement
  <2>4. ASSUME NEW v \in Writers, call'[v].stage = "written"
        PROVE  (~FirstFails(call[v]) /\ Found(call[v]) /\ draft = Written(call[v]))'
    <3>1. call'[v] = call[v] /\ draft' = draft /\ db' = db
      BY <2>1, <2>4 DEF HasExecution
    <3>2. ~FirstFails(call[v]) /\ Found(call[v]) /\ draft = Written(call[v])
      BY <2>4, <3>1 DEF Transaction
    <3> QED
      BY <3>1, <3>2 DEF FirstFails, FirstStatement, Found, Written
  <2>5. Transaction'
    BY <2>2, <2>3, <2>4 DEF Transaction
  <2> QED
    BY <2>1, <2>5
<1> QED
  BY <1>2, <1>3 DEF HasExecution

LEMMA BeginKeeps ==
  ASSUME StoreInv, NEW w \in Writers, Begin(w) PROVE StoreInv'
<1> USE DEF StoreInv
<1>1. call[w].stage = "ready" /\ call[w] # Idle /\ owner = None /\ owner # w
  BY StoreConstants DEF Begin, Idle
<1>2. CASE Return(w) /\ UNCHANGED <<draft, owner>>
  BY <1>1, <1>2, ReturnKeeps DEF Begin
<1>3. CASE ~FirstFails(call[w]) /\ call' = [call EXCEPT ![w].stage = "begun"]
           /\ owner' = w /\ draft' = FirstStatement(call[w])
  <2>1. draft' \in Tables
    BY <1>1, <1>3, FirstType DEF CallsOK, StoreTypeOK
  <2>2. /\ (StoreTypeOK /\ CallsOK /\ PostedOnce /\ RowsOK)'
        /\ call'[w].stage = "begun" /\ SameButStage(call'[w], call[w])
        /\ \A v \in Writers : v # w => call'[v] = call[v]
    BY <1>1, <1>3, <2>1, StageKeeps DEF Begin
  <2>3. \A v \in Writers : call'[v].stage \in {"begun", "written"} <=> owner' = v
    BY <1>1, <1>3, <2>2, StoreConstants DEF Transaction
  <2>4. (~FirstFails(call[w]) /\ draft = FirstStatement(call[w]))'
    BY <1>3, <2>2 DEF Begin, SameButStage, FirstFails, FirstStatement
  <2>5. Transaction'
    BY <1>3, <2>2, <2>3, <2>4 DEF Transaction
  <2> QED
    BY <2>2, <2>5
<1> QED
  BY <1>2, <1>3 DEF Begin

LEMMA SecondKeeps ==
  ASSUME StoreInv, NEW w \in Writers, Second(w) PROVE StoreInv'
<1> USE DEF StoreInv
<1>1. /\ call[w].stage = "begun" /\ call[w] # Idle /\ owner = w
      /\ ~FirstFails(call[w]) /\ draft = FirstStatement(call[w]) /\ ShapeOf(call[w])
  BY DEF Second, Idle, Transaction, CallsOK
<1>2. CASE Raise(w)
  BY <1>1, <1>2, ReturnKeeps DEF Raise, RollBack
<1>3. CASE SecondSucceeds(call[w]) /\ draft' = SecondStatement(call[w])
           /\ call' = [call EXCEPT ![w].stage = "written"] /\ UNCHANGED <<db, owner, posted>>
  <2>1. Found(call[w])
    BY <1>1, <1>3, FirstFields DEF SecondSucceeds, VersionMatches, InsertMatches, Found, StoreTypeOK
  <2>2. draft' = Written(call[w])
    BY <1>1, <1>3 DEF SecondStatement, Written
  <2>3. draft' \in Tables
    BY <1>1, <2>2, WrittenFields DEF StoreTypeOK, Calls
  <2>4. /\ (StoreTypeOK /\ CallsOK /\ PostedOnce /\ RowsOK)'
        /\ call'[w].stage = "written" /\ SameButStage(call'[w], call[w])
        /\ \A v \in Writers : v # w => call'[v] = call[v]
    BY <1>1, <1>3, <2>3, StageKeeps DEF StoreTypeOK
  <2>5. \A v \in Writers : call'[v].stage \in {"begun", "written"} <=> owner' = v
    BY <1>1, <1>3, <2>4 DEF Transaction
  <2>6. (~FirstFails(call[w]) /\ Found(call[w]) /\ draft = Written(call[w]))'
    <3>1. ~FirstFails(call[w])'
      BY <1>1, <1>3, <2>4 DEF SameButStage, FirstFails
    <3>2. FirstStatement(call[w])' = FirstStatement(call[w])
      BY <1>3, <2>4 DEF SameButStage, FirstStatement
    <3>3. Found(call[w])'
      BY <1>3, <2>1, <2>4, <3>2 DEF SameButStage, Found
    <3>4. Written(call[w])' = Written(call[w])
      BY <2>4, <3>2 DEF SameButStage, Written
    <3> QED
      BY <2>2, <3>1, <3>3, <3>4
  <2>7. Transaction'
    BY <1>1, <1>3, <2>4, <2>5, <2>6 DEF Transaction
  <2> QED
    BY <2>4, <2>7
<1> QED
  BY <1>2, <1>3 DEF Second

\* What a commit makes of the tables, field by field.
Committed(c) ==
  /\ db'.intents = IF c.first = "intent" THEN db.intents \cup {c.item} ELSE db.intents
  /\ db'.acknowledged = IF c.first = "acknowledge" THEN db.acknowledged \cup {c.item} ELSE db.acknowledged
  /\ db'.executions = IF c.first = "execution" THEN db.executions \cup {c.item} ELSE db.executions
  /\ db'.rows = IF c.second = "nothing" THEN db.rows
                ELSE [db.rows EXCEPT ![c.key] = [version |-> c.previous + 1, total |-> c.total]]

LEMMA CommitFacts ==
  ASSUME StoreInv, NEW w \in Writers, Commit(w)
  PROVE  /\ owner = w /\ call[w] # Idle /\ call[w] \in Calls
         /\ ShapeOf(call[w]) /\ Loaded(call[w]) /\ ~FirstFails(call[w]) /\ Found(call[w])
         /\ db' \in Tables /\ Committed(call[w])
<1> USE DEF StoreInv
<1>1. call[w].stage = "written" /\ db' = draft
  BY DEF Commit
<1>2. call[w] # Idle /\ call[w] \in Calls
  BY <1>1 DEF Idle, StoreTypeOK
<1>3. owner = w /\ ~FirstFails(call[w]) /\ Found(call[w]) /\ db' = Written(call[w])
  BY <1>1 DEF Transaction
<1>4. ShapeOf(call[w]) /\ Loaded(call[w])
  BY <1>2 DEF CallsOK
<1>5. call[w].previous \in Nat /\ call[w].total \in Int /\ db \in Tables
  BY <1>2 DEF Calls, StoreTypeOK
<1>6. db' \in Tables
  BY <1>3, <1>4, <1>5, WrittenFields
<1>7. Committed(call[w])
  <2> DEFINE c == call[w]
  <2>1. /\ Written(c).intents = FirstStatement(c).intents
        /\ Written(c).acknowledged = FirstStatement(c).acknowledged
        /\ Written(c).executions = FirstStatement(c).executions
        /\ Written(c).rows = IF c.second = "nothing" THEN db.rows
             ELSE [db.rows EXCEPT ![c.key] = [version |-> c.previous + 1, total |-> c.total]]
    BY <1>4, <1>5, WrittenFields
  <2>2. /\ FirstStatement(c).intents = IF c.first = "intent" THEN db.intents \cup {c.item} ELSE db.intents
        /\ FirstStatement(c).acknowledged =
             IF c.first = "acknowledge" THEN db.acknowledged \cup {c.item} ELSE db.acknowledged
        /\ FirstStatement(c).executions =
             IF c.first = "execution" THEN db.executions \cup {c.item} ELSE db.executions
    BY <1>5, FirstFields
  <2> HIDE DEF c
  <2>3. db' = Written(c)
    BY <1>3 DEF c
  <2>4. Committed(c)
    BY <2>1, <2>2, <2>3 DEF Committed
  <2> QED
    BY <2>4 DEF c
<1> QED
  BY <1>2, <1>3, <1>4, <1>6, <1>7

\* A row that is written gets a version above the one it had; the others stay.
LEMMA CommitRows ==
  ASSUME StoreInv, NEW w \in Writers, Commit(w), NEW k \in Keys
  PROVE  \/ db'.rows[k] = db.rows[k]
         \/ /\ k = call[w].key /\ call[w].second # "nothing"
            /\ db'.rows[k].version = db.rows[k].version + 1
            /\ db'.rows[k].total = db.rows[k].total + Amount(call[w].item)
<1> USE DEF StoreInv
<1> DEFINE c == call[w]
<1>1. /\ ShapeOf(c) /\ Loaded(c) /\ Found(c) /\ Committed(c) /\ c \in Calls
      /\ db.rows \in [Keys -> Row]
  BY CommitFacts DEF StoreTypeOK, Tables
<1>2. CASE c.second = "nothing" \/ k # c.key
  BY <1>1, <1>2 DEF Committed, ShapeOf, Shape
<1>3. CASE c.second # "nothing" /\ k = c.key
  <2>1. db'.rows[k] = [version |-> c.previous + 1, total |-> c.total]
    BY <1>1, <1>3 DEF Committed
  <2>2. CASE c.second = "update"
    BY <1>1, <1>3, <2>1, <2>2 DEF Found, Loaded
  <2>3. CASE c.second = "insert"
    <3>1. db.rows[k].version = 0 /\ c.previous = 0 /\ c.total = Amount(c.item)
      BY <1>1, <1>3, <2>3 DEF Found, Loaded
    <3>2. db.rows[k].total = 0
      BY <3>1 DEF RowsOK
    <3>3. Amount(c.item) \in Int
      BY <1>1, AmountType DEF ShapeOf, Shape
    <3> QED
      BY <1>3, <2>1, <3>1, <3>2, <3>3
  <2> QED
    BY <1>1, <1>3, <2>2, <2>3 DEF ShapeOf, Shape
<1> QED
  BY <1>2, <1>3

LEMMA CommitKeeps ==
  ASSUME StoreInv, NEW w \in Writers, Commit(w) PROVE StoreInv'
<1> USE DEF StoreInv
<1>1. \A v \in Writers : call'[v] = IF v = w THEN Idle ELSE call[v]
  BY DEF Commit, Return, StoreTypeOK
<1>2. StoreTypeOK'
  <2>1. call' \in [Writers -> Calls]
    BY IdleType DEF Commit, Return, StoreTypeOK
  <2>2. db' \in Tables
    BY CommitFacts
  <2> QED
    BY <2>1, <2>2 DEF Commit, StoreTypeOK
<1>3. \A k \in Keys : db.rows[k] \in Row /\ db'.rows[k] \in Row
  BY <1>2 DEF StoreTypeOK, Tables
<1>4. CallsOK'
  <2> SUFFICES ASSUME NEW v \in Writers, call'[v] # Idle PROVE ShapeOf(call[v])' /\ Loaded(call[v])'
    BY DEF CallsOK
  <2>1. call'[v] = call[v] /\ call[v] # Idle
    BY <1>1
  <2>2. ShapeOf(call[v]) /\ Loaded(call[v]) /\ call[v].previous \in Nat
    BY <2>1 DEF CallsOK, StoreTypeOK, Calls
  <2>3. ShapeOf(call[v])'
    BY <2>1, <2>2 DEF ShapeOf
  <2>4. CASE call[v].second = "update"
    <3>1. call[v].key \in Keys
      BY <2>2, <2>4 DEF ShapeOf, Shape
    <3>2. \/ db'.rows[call[v].key] = db.rows[call[v].key]
          \/ db'.rows[call[v].key].version = db.rows[call[v].key].version + 1
      BY <3>1, CommitRows
    <3>3. db.rows[call[v].key].version \in Nat
      BY <1>3, <3>1 DEF Row
    <3> QED
      BY <2>1, <2>2, <2>3, <2>4, <3>2, <3>3 DEF Loaded
  <2>5. CASE call[v].second # "update"
    BY <2>1, <2>2, <2>3, <2>5 DEF Loaded
  <2> QED
    BY <2>4, <2>5
<1>5. PostedOnce'
  <2>1. posted' = posted \cup ({call[w].item} \cap Postings)
    BY DEF Commit
  <2>2. Idle.item \notin Postings
    BY StoreConstants DEF Idle
  <2> QED
    BY <1>1, <2>1, <2>2 DEF PostedOnce
<1>6. RowsOK'
  <2> SUFFICES ASSUME NEW k \in Keys, db'.rows[k].version = 0 PROVE db'.rows[k].total = 0
    BY DEF RowsOK
  <2>1. db.rows[k].version \in Nat
    BY <1>3 DEF Row
  <2>2. db'.rows[k] = db.rows[k]
    BY <2>1, CommitRows
  <2> QED
    BY <2>2 DEF RowsOK
<1>7. Transaction'
  <2>1. \A v \in Writers : call'[v].stage \notin {"begun", "written"}
    BY <1>1, CommitFacts DEF Transaction, Idle
  <2>2. owner' = None
    BY DEF Commit
  <2> QED
    BY <2>1, <2>2, StoreConstants DEF Transaction
<1> QED
  BY <1>2, <1>4, <1>5, <1>6, <1>7

LEMMA StoreInduction == StoreInv /\ [StoreNext]_storeVars => StoreInv'
<1> SUFFICES ASSUME StoreInv, [StoreNext]_storeVars PROVE StoreInv'
  OBVIOUS
<1>1. CASE UNCHANGED storeVars
  <2> USE <1>1 DEF StoreInv, storeVars
  <2>1. StoreTypeOK' /\ CallsOK' /\ PostedOnce' /\ RowsOK'
    BY DEF StoreTypeOK, CallsOK, ShapeOf, Loaded, PostedOnce, RowsOK
  <2>2. Transaction'
    <3>1. \A w \in Writers : call'[w].stage \in {"begun", "written"} <=> owner' = w
      BY DEF Transaction
    <3>2. ASSUME NEW w \in Writers, call'[w].stage = "begun"
          PROVE  (~FirstFails(call[w]) /\ draft = FirstStatement(call[w]))'
      <4>1. ~FirstFails(call[w]) /\ draft = FirstStatement(call[w])
        BY <3>2 DEF Transaction
      <4> QED
        BY <4>1 DEF FirstFails, FirstStatement
    <3>3. ASSUME NEW w \in Writers, call'[w].stage = "written"
          PROVE  (~FirstFails(call[w]) /\ Found(call[w]) /\ draft = Written(call[w]))'
      <4>1. ~FirstFails(call[w]) /\ Found(call[w]) /\ draft = Written(call[w])
        BY <3>3 DEF Transaction
      <4> QED
        BY <4>1 DEF FirstFails, FirstStatement, Found, Written
    <3> QED
      BY <3>1, <3>2, <3>3 DEF Transaction
  <2> QED
    BY <2>1, <2>2
<1>2. ASSUME NEW w \in Writers, Busy(w) PROVE StoreInv'
  BY <1>2, ReturnKeeps DEF Busy
<1>3. ASSUME NEW w \in Writers, Crash(w) PROVE StoreInv'
  BY <1>3, ReturnKeeps DEF Crash, RollBack
<1> QED
  BY <1>1, <1>2, <1>3, CallKeeps, HasExecutionKeeps, BeginKeeps, SecondKeeps, CommitKeeps DEF StoreNext

---------------------------------------------------------------------------
\* The refinement.

Totals == [k \in Keys |-> db.rows[k].total]

LEMMA LedgerStart == StoreInit => Ledger!LedgerInit
<1> SUFFICES ASSUME StoreInit PROVE Ledger!LedgerInit
  OBVIOUS
<1>1. \A k \in Keys : db.rows[k] = NoRow
  BY DEF StoreInit
<1>2. Opened = {}
  BY <1>1 DEF Opened, NoRow
<1>3. [k \in Keys |-> db.rows[k].total] = [k \in Keys |-> 0]
  BY <1>1 DEF NoRow
<1> QED
  BY <1>2, <1>3 DEF StoreInit, Ledger!LedgerInit

\* Opened rows stay open, a written row becomes open, and only its total moves.
LEMMA CommitOpens ==
  ASSUME StoreInv, NEW w \in Writers, Commit(w)
  PROVE  /\ call[w].second = "nothing" => Opened' = Opened /\ Totals' = Totals
         /\ call[w].second # "nothing" =>
              /\ call[w].key \in Keys
              /\ Opened' = Opened \cup {call[w].key}
              /\ Totals' = [Totals EXCEPT ![call[w].key] = @ + Amount(call[w].item)]
         /\ call[w].second = "update" => call[w].key \in Opened
         /\ call[w].second = "insert" => call[w].key \notin Opened
<1> DEFINE c == call[w]
<1>1. /\ ShapeOf(c) /\ Loaded(c) /\ Found(c) /\ Committed(c) /\ c \in Calls
      /\ db.rows \in [Keys -> Row] /\ db'.rows \in [Keys -> Row]
  BY CommitFacts DEF StoreInv, StoreTypeOK, Tables
<1>2. CASE c.second = "nothing"
  BY <1>1, <1>2 DEF Committed, Opened, Totals
<1>3. CASE c.second # "nothing"
  <2>1. c.key \in Keys
    BY <1>1, <1>3 DEF ShapeOf, Shape
  <2>2. \A k \in Keys : k # c.key => db'.rows[k] = db.rows[k]
    BY CommitRows
  <2>3. db'.rows[c.key] = [version |-> c.previous + 1, total |-> c.total]
    BY <1>1, <1>3, <2>1 DEF Committed
  <2>4. db'.rows[c.key].version > 0
    BY <1>1, <2>3 DEF Calls
  <2>5. Opened' = Opened \cup {c.key}
    BY <2>1, <2>2, <2>4 DEF Opened
  <2>6. c.total = db.rows[c.key].total + Amount(c.item)
    <3>1. CASE c.second = "update"
      BY <1>1, <3>1 DEF Found, Loaded
    <3>2. CASE c.second = "insert"
      <4>1. db.rows[c.key].total = 0 /\ c.total = Amount(c.item)
        BY <1>1, <2>1, <3>2 DEF Found, Loaded, StoreInv, RowsOK
      <4>2. Amount(c.item) \in Int
        BY <1>1, AmountType DEF ShapeOf, Shape
      <4> QED
        BY <4>1, <4>2
    <3> QED
      BY <1>1, <1>3, <3>1, <3>2 DEF ShapeOf, Shape
  <2>7. Totals' = [Totals EXCEPT ![c.key] = @ + Amount(c.item)]
    BY <2>1, <2>2, <2>3, <2>6 DEF Totals
  <2>8. c.second = "update" => c.key \in Opened
    BY <1>1, <2>1 DEF Found, Loaded, Opened
  <2>9. c.second = "insert" => c.key \notin Opened
    BY <1>1 DEF Found, Opened
  <2> QED
    BY <1>3, <2>1, <2>5, <2>7, <2>8, <2>9
<1> QED
  BY <1>2, <1>3

\* Adding nothing to a total leaves all of them.
LEMMA AddNothing ==
  ASSUME StoreInv, NEW k \in Keys
  PROVE  [Totals EXCEPT ![k] = @ + 0] = Totals
<1>1. Totals[k] \in Int
  BY DEF StoreInv, StoreTypeOK, Tables, Row, Totals
<1> QED
  BY <1>1 DEF Totals

LEMMA CommitIsLedgerStep ==
  ASSUME StoreInv, NEW w \in Writers, Commit(w)
  PROVE  Ledger!LedgerNext \/ UNCHANGED Ledger!ledgerVars
<1> DEFINE c == call[w]
<1>1. /\ ShapeOf(c) /\ ~FirstFails(c) /\ Found(c) /\ Committed(c)
      /\ posted' = posted \cup ({c.item} \cap Postings)
  BY CommitFacts DEF Commit
<1>2. /\ c.second = "nothing" => Opened' = Opened /\ Totals' = Totals
      /\ c.second # "nothing" =>
           /\ c.key \in Keys
           /\ Opened' = Opened \cup {c.key}
           /\ Totals' = [Totals EXCEPT ![c.key] = @ + Amount(c.item)]
      /\ c.second = "update" => c.key \in Opened
      /\ c.second = "insert" => c.key \notin Opened
  BY CommitOpens
<1>3. c.item \in Links \cup {None} => posted' = posted
  BY <1>1, StoreConstants
<1>4. c.item \in Links \cup {None} => Totals' = Totals
  BY <1>2, LinkAmount, AddNothing
<1>5. CASE c.first = "intent"
  <2>1. c.item \in Links /\ c.item \notin db.intents
    BY <1>1, <1>5 DEF ShapeOf, Shape, FirstFails
  <2>2. /\ db'.intents = db.intents \cup {c.item} /\ db'.acknowledged = db.acknowledged
        /\ db'.executions = db.executions
    BY <1>1, <1>5 DEF Committed
  <2>3. CASE c.second = "insert"
    <3>1. Parent[c.key] = None \/ Parent[c.key] \in db'.intents
      BY <1>1, <2>2, <2>3, <1>5, FirstFields DEF Found, StoreInv, StoreTypeOK
    <3>2. Ledger!Open(c.key, c.item)
      BY <1>2, <1>3, <1>4, <2>1, <2>2, <2>3, <3>1 DEF Ledger!Open, Totals
    <3> QED
      BY <1>2, <2>1, <2>3, <3>2 DEF Ledger!LedgerNext
  <2>4. CASE c.second # "insert"
    <3>1. Opened' = Opened
      BY <1>1, <1>2, <2>4 DEF ShapeOf, Shape
    <3>2. Ledger!Intend(c.item)
      BY <1>3, <1>4, <2>1, <2>2, <3>1 DEF Ledger!Intend, Totals
    <3> QED
      BY <2>1, <3>2 DEF Ledger!LedgerNext
  <2> QED
    BY <2>3, <2>4
<1>6. CASE c.first = "acknowledge"
  <2>1. c.item \in Links /\ c.item \in db.intents
    BY <1>1, <1>6 DEF ShapeOf, Shape, FirstFails
  <2>2. /\ db'.intents = db.intents /\ db'.acknowledged = db.acknowledged \cup {c.item}
        /\ db'.executions = db.executions
    BY <1>1, <1>6 DEF Committed
  <2>3. Opened' = Opened
    BY <1>1, <1>2, <1>6 DEF ShapeOf, Shape
  <2>4. Ledger!Acknowledge(c.item)
    BY <1>3, <1>4, <2>1, <2>2, <2>3 DEF Ledger!Acknowledge, Totals
  <2> QED
    BY <2>1, <2>4 DEF Ledger!LedgerNext
<1>7. CASE c.first = "execution"
  <2>1. c.item \in Executions /\ c.item \notin db.executions /\ c.item \notin Postings
    BY <1>1, <1>7, StoreConstants DEF ShapeOf, Shape, FirstFails
  <2>2. /\ db'.intents = db.intents /\ db'.acknowledged = db.acknowledged
        /\ db'.executions = db.executions \cup {c.item} /\ posted' = posted
    BY <1>1, <1>7, <2>1 DEF Committed
  <2>3. CASE c.second = "update"
    <3>1. c.key = KeyOf[c.item] /\ c.key \in Opened /\ Opened' = Opened
      BY <1>1, <1>2, <1>7, <2>3 DEF ShapeOf, Shape
    <3>2. Totals' = [Totals EXCEPT ![KeyOf[c.item]] = @ + Quantity[c.item]]
      BY <1>2, <2>1, <2>3, <3>1 DEF Amount
    <3>3. PICK x \in Executions : x = c.item
      BY <2>1
    <3>4. Ledger!Book(x)
      BY <2>1, <2>2, <3>1, <3>2, <3>3 DEF Ledger!Book, Totals
    <3> QED
      BY <3>4 DEF Ledger!LedgerNext
  <2>4. CASE c.second = "nothing"
    <3>1. KeyOf[c.item] = None
      BY <1>1, <1>7, <2>4 DEF ShapeOf, Shape
    <3>2. Ledger!BookOnly(c.item)
      BY <1>2, <2>1, <2>2, <2>4, <3>1 DEF Ledger!BookOnly, Totals
    <3> QED
      BY <2>1, <3>2 DEF Ledger!LedgerNext
  <2> QED
    BY <1>1, <1>7, <2>3, <2>4 DEF ShapeOf, Shape
<1>8. CASE c.first = "nothing"
  <2>1. /\ db'.intents = db.intents /\ db'.acknowledged = db.acknowledged
        /\ db'.executions = db.executions
    BY <1>1, <1>8 DEF Committed
  <2>2. CASE c.item = None /\ c.second = "update"
    <3>1. Opened' = Opened
      BY <1>2, <2>2
    <3> QED
      BY <1>3, <1>4, <2>1, <2>2, <3>1 DEF Ledger!ledgerVars, Totals
  <2>3. CASE c.item \in Postings /\ c.key = KeyOf[c.item] /\ c.second # "nothing"
    <3>1. c.item \notin posted /\ posted' = posted \cup {c.item}
      BY <1>1, <2>3 DEF StoreInv, PostedOnce
    <3>2. Totals' = [Totals EXCEPT ![KeyOf[c.item]] = @ + Quantity[c.item]]
      BY <1>2, <2>3 DEF Amount
    <3>3. PICK p \in Postings : p = c.item
      BY <2>3
    <3>4. Ledger!Post(p)
      BY <1>2, <2>1, <2>3, <3>1, <3>2, <3>3 DEF Ledger!Post, Totals
    <3> QED
      BY <3>4 DEF Ledger!LedgerNext
  <2> QED
    BY <1>1, <1>8, <2>2, <2>3 DEF ShapeOf, Shape
<1> QED
  BY <1>1, <1>5, <1>6, <1>7, <1>8 DEF ShapeOf, Shape

\* Every other step leaves what is committed alone.
LEMMA OthersStutter ==
  ASSUME NEW w \in Writers,
         CallStore(w) \/ HasExecution(w) \/ Begin(w) \/ Busy(w) \/ Second(w) \/ Crash(w)
  PROVE  UNCHANGED <<db, posted>>
<1>1. CASE CallStore(w)
  BY <1>1 DEF CallStore, PersistEntryIntent, PersistProtectionIntent, PersistOptionLongIntent,
     PersistTakeProfitIntent, PersistReplacementStopIntent, PersistOptionShortIntent, PersistOrderIntent,
     RecordAcknowledgement, RecordAcknowledgementAndSnapshot, RecordOptionAcknowledgement, EnterExecution,
     RecordExecutionAndSnapshot, RecordExitExecution, RecordOptionExecution, RecordExecution,
     TransitionSnapshot, PersistRecoveryDebt, TransitionRecoveryDebt, Enter
<1> QED
  BY <1>1 DEF HasExecution, Begin, Busy, Second, Crash, Raise, RollBack

LEMMA LedgerStep ==
  StoreInv /\ [StoreNext]_storeVars => [Ledger!LedgerNext]_(Ledger!ledgerVars)
<1> SUFFICES ASSUME StoreInv, [StoreNext]_storeVars
             PROVE  Ledger!LedgerNext \/ UNCHANGED Ledger!ledgerVars
  OBVIOUS
<1>1. CASE UNCHANGED <<db, posted>>
  BY <1>1 DEF Ledger!ledgerVars, Opened
<1> QED
  BY <1>1, OthersStutter, CommitIsLedgerStep DEF StoreNext, storeVars

\* The committed tables, the open transaction and the calls keep their types.
THEOREM StoreTypes == StoreSpec => []StoreTypeOK
<1>1. StoreInv => StoreTypeOK
  BY DEF StoreInv
<1> QED
  BY InitStore, StoreInduction, <1>1, PTL DEF StoreSpec

\* SqliteExecutionStore implements the abstract ledger: each intent and each execution
\* once, each total changed in the same instant as what changes it, no update lost.
THEOREM StoreImplementsLedger == StoreSpec => KeepsLedger
  BY InitStore, StoreInduction, LedgerStart, LedgerStep, PTL DEF StoreSpec, KeepsLedger, Ledger!LedgerSpec

-----------------------------------------------------------------------------
(* The loop of the rebuild *)

Events == [id : EventIds, ours : BOOLEAN]

\* What the loop of the rebuild computes, after each number.
IsRun(g, log, n, state, numbers) ==
  g = [i \in 0..n |-> IF i = 0 THEN state
                      ELSE IF i \in numbers THEN Append(g[i - 1], log[i].id) ELSE g[i - 1]]

LEMMA RunExists ==
  ASSUME NEW log, NEW n \in Nat, NEW state, NEW numbers
  PROVE  \E g : IsRun(g, log, n, state, numbers)
<1> DEFINE Step(s, i) == IF i \in numbers THEN Append(s, log[i].id) ELSE s
           Is(g, k) == g = [i \in 0..k |-> IF i = 0 THEN state ELSE Step(g[i - 1], i)]
           Bad == {k \in Nat : ~\E g : Is(g, k)}
<1>0. \A g : Is(g, n) <=> IsRun(g, log, n, state, numbers)
  BY DEF IsRun
<1> HIDE DEF Step
<1> SUFFICES ASSUME Bad # {} PROVE FALSE
  BY <1>0
<1>1. Min(Bad) \in Bad /\ \A k \in Bad : Min(Bad) <= k
  <2>1. Bad \in SUBSET Nat
    OBVIOUS
  <2> HIDE DEF Bad
  <2> QED BY <2>1, LeastElement
<1> DEFINE m == Min(Bad)
<1> HIDE DEF Bad, m
<1>2. m \in Bad /\ \A k \in Bad : m <= k
  BY <1>1 DEF m
<1>3. m \in Nat /\ ~\E g : Is(g, m)
  BY <1>2 DEF Bad
<1>4. CASE m = 0
  <2> DEFINE g == [i \in 0..0 |-> state]
  <2>1. Is(g, 0)
    OBVIOUS
  <2> QED BY <1>3, <1>4, <2>1
<1>5. CASE m # 0
  <2>1. m - 1 \in Nat /\ m - 1 \notin Bad
    BY <1>2, <1>3, <1>5
  <2>2. PICK h : Is(h, m - 1)
    BY <2>1 DEF Bad
  <2> DEFINE g == [i \in 0..m |-> IF i = m THEN Step(h[m - 1], m) ELSE h[i]]
  <2>3. ASSUME NEW i \in 0..m PROVE g[i] = IF i = 0 THEN state ELSE Step(g[i - 1], i)
    <3>1. CASE i = m
      <4>1. g[i] = Step(h[m - 1], m) /\ g[i - 1] = h[i - 1] /\ i # 0
        BY <1>3, <1>5, <3>1
      <4> QED BY <3>1, <4>1
    <3>2. CASE i # m
      <4>1. i \in 0..m - 1 /\ g[i] = h[i] /\ (i # 0 => g[i - 1] = h[i - 1])
        BY <1>3, <3>2
      <4>2. h[i] = IF i = 0 THEN state ELSE Step(h[i - 1], i)
        BY <2>2, <4>1
      <4> QED BY <4>1, <4>2
    <3> QED BY <3>1, <3>2
  <2>4. Is(g, m)
    <3>1. g = [i \in 0..m |-> g[i]]
      OBVIOUS
    <3> HIDE DEF g
    <3> QED BY <2>3, <3>1
  <2> QED BY <1>3, <2>4
<1> QED BY <1>4, <1>5

LEMMA ApplyEventsIs ==
  ASSUME NEW log, Len(log) \in Nat, NEW state, NEW numbers
  PROVE  \E g : IsRun(g, log, Len(log), state, numbers) /\ ApplyEvents(log, state, numbers) = g[Len(log)]
<1> DEFINE g == CHOOSE g : IsRun(g, log, Len(log), state, numbers)
<1>1. IsRun(g, log, Len(log), state, numbers)
  BY RunExists
<1>2. ApplyEvents(log, state, numbers) = g[Len(log)]
  BY DEF ApplyEvents, IsRun
<1> QED BY <1>1, <1>2

LEMMA RunSteps ==
  ASSUME NEW g, NEW log, NEW n \in Nat, NEW state, NEW numbers, IsRun(g, log, n, state, numbers)
  PROVE  /\ g[0] = state
         /\ \A i \in 1..n : g[i] = IF i \in numbers THEN Append(g[i - 1], log[i].id) ELSE g[i - 1]
<1>1. ASSUME NEW i \in 0..n
      PROVE  g[i] = IF i = 0 THEN state
                    ELSE IF i \in numbers THEN Append(g[i - 1], log[i].id) ELSE g[i - 1]
  BY Zenon DEF IsRun
<1>2. 0 \in 0..n /\ \A i \in 1..n : i \in 0..n /\ i # 0
  OBVIOUS
<1> QED BY <1>1, <1>2

\* A rebuild in two parts, the later numbers on top of the earlier ones, is one rebuild.
LEMMA RebuildSplits ==
  ASSUME NEW log, Len(log) \in Nat, NEW state, NEW k \in 0..Len(log),
         NEW early \in SUBSET (1..k), NEW late \in SUBSET ((k + 1)..Len(log))
  PROVE  ApplyEvents(log, ApplyEvents(log, state, early), late) = ApplyEvents(log, state, early \cup late)
<1> DEFINE n == Len(log)
           mid == ApplyEvents(log, state, early)
<1>1. PICK f : IsRun(f, log, n, state, early) /\ mid = f[n]
  BY ApplyEventsIs
<1>2. PICK h : IsRun(h, log, n, mid, late) /\ ApplyEvents(log, mid, late) = h[n]
  BY ApplyEventsIs
<1>3. PICK g : IsRun(g, log, n, state, early \cup late) /\ ApplyEvents(log, state, early \cup late) = g[n]
  BY ApplyEventsIs
<1> HIDE DEF mid
<1>4. /\ f[0] = state
      /\ \A i \in 1..n : f[i] = IF i \in early THEN Append(f[i - 1], log[i].id) ELSE f[i - 1]
  BY <1>1, RunSteps
<1>5. /\ h[0] = mid
      /\ \A i \in 1..n : h[i] = IF i \in late THEN Append(h[i - 1], log[i].id) ELSE h[i - 1]
  BY <1>2, RunSteps
<1>6. /\ g[0] = state
      /\ \A i \in 1..n : g[i] = IF i \in early \cup late THEN Append(g[i - 1], log[i].id) ELSE g[i - 1]
  BY <1>3, RunSteps
<1> DEFINE Good == {i \in 0..n : (i <= k => g[i] = f[i]) /\ (i >= k => f[i] = f[k])}
           Fine == {i \in 0..n : (i <= k => h[i] = mid) /\ (i >= k => g[i] = h[i])}
<1>7. \A i \in 0..n : i \in Good
  <2>1. 0 \in Good
    BY <1>4, <1>6
  <2>2. ASSUME NEW i \in 1..n, i - 1 \in Good PROVE i \in Good
    <3>1. i - 1 \in 0..n /\ (i <= k => g[i - 1] = f[i - 1]) /\ (i > k => f[i - 1] = f[k])
      BY <2>2
    <3>2. i <= k => i \notin late
      OBVIOUS
    <3>3. i > k => i \notin early
      OBVIOUS
    <3>4. i <= k => g[i] = f[i]
      BY <1>4, <1>6, <3>1, <3>2
    <3>5. i >= k => f[i] = f[k]
      <4>1. i > k => f[i] = f[k]
        BY <1>4, <3>1, <3>3
      <4> QED BY <4>1
    <3> QED BY <3>4, <3>5
  <2> HIDE DEF Good
  <2> QED BY <2>1, <2>2, CountingUp
<1>8. g[k] = f[k] /\ f[n] = f[k]
  BY <1>7
<1>9. \A i \in 0..n : i \in Fine
  <2>1. 0 \in Fine
    BY <1>1, <1>5, <1>8
  <2>2. ASSUME NEW i \in 1..n, i - 1 \in Fine PROVE i \in Fine
    <3>1. (i <= k => h[i - 1] = mid) /\ (i > k => g[i - 1] = h[i - 1])
      BY <2>2
    <3>2. i <= k => i \notin late
      OBVIOUS
    <3>3. i > k => i \notin early
      OBVIOUS
    <3>4. i <= k => h[i] = mid
      BY <1>5, <3>1, <3>2
    <3>5. i >= k => g[i] = h[i]
      <4>1. CASE i = k
        BY <1>1, <1>8, <3>4, <4>1
      <4>2. CASE i > k
        BY <1>5, <1>6, <3>1, <3>3, <4>2
      <4> QED BY <4>1, <4>2
    <3> QED BY <3>4, <3>5
  <2> HIDE DEF Fine
  <2> QED BY <2>1, <2>2, CountingUp
<1>10. g[n] = h[n]
  BY <1>9
<1> QED BY <1>2, <1>3, <1>10 DEF mid

\* An event appended to the log is applied last, if it is to be applied at all.
LEMMA RebuildGrows ==
  ASSUME NEW log \in Seq(Events), NEW e \in Events, NEW state, NEW numbers \in SUBSET (1..Len(log))
  PROVE  /\ ApplyEvents(Append(log, e), state, numbers) = ApplyEvents(log, state, numbers)
         /\ ApplyEvents(Append(log, e), state, numbers \cup {Len(log) + 1})
              = Append(ApplyEvents(log, state, numbers), e.id)
<1> DEFINE n == Len(log)
           longer == Append(log, e)
<1>1. n \in Nat /\ Len(longer) = n + 1 /\ (\A i \in 1..n : longer[i] = log[i]) /\ longer[n + 1] = e
  OBVIOUS
<1> HIDE DEF longer, n
<1>2. PICK f : IsRun(f, log, n, state, numbers) /\ ApplyEvents(log, state, numbers) = f[n]
  BY <1>1, ApplyEventsIs DEF n
<1>3. numbers \in SUBSET (1..n)
  BY DEF n
<1>4. /\ f[0] = state
      /\ \A i \in 1..n : f[i] = IF i \in numbers THEN Append(f[i - 1], log[i].id) ELSE f[i - 1]
  BY <1>1, <1>2, RunSteps
<1>5. ASSUME NEW some, some = numbers \/ some = numbers \cup {n + 1}
      PROVE  ApplyEvents(longer, state, some) =
               IF n + 1 \in some THEN Append(f[n], e.id) ELSE f[n]
  <2>1. PICK g : IsRun(g, longer, n + 1, state, some) /\ ApplyEvents(longer, state, some) = g[n + 1]
    BY <1>1, ApplyEventsIs
  <2>2. /\ g[0] = state
        /\ \A i \in 1..(n + 1) : g[i] = IF i \in some THEN Append(g[i - 1], longer[i].id) ELSE g[i - 1]
    BY <1>1, <2>1, RunSteps
  <2> DEFINE Good == {i \in 0..n : g[i] = f[i]}
  <2>3. 0 \in Good
    BY <1>1, <1>4, <2>2
  <2>4. ASSUME NEW i \in 1..n, i - 1 \in Good PROVE i \in Good
    <3>1. i \in some <=> i \in numbers
      BY <1>1, <1>5
    <3> QED BY <1>1, <1>4, <2>2, <2>4, <3>1
  <2>5. \A i \in 0..n : i \in Good
    <3> HIDE DEF Good
    <3> QED BY <1>1, <2>3, <2>4, CountingUp
  <2>6. g[n] = f[n]
    BY <1>1, <2>5
  <2>7. g[n + 1] = IF n + 1 \in some THEN Append(g[n], longer[n + 1].id) ELSE g[n]
    BY <1>1, <2>2
  <2> QED BY <1>1, <2>1, <2>6, <2>7
<1>6. n + 1 \notin numbers
  BY <1>1, <1>3
<1>7. ApplyEvents(longer, state, numbers) = f[n]
  BY <1>5, <1>6
<1>8. ApplyEvents(longer, state, numbers \cup {n + 1}) = Append(f[n], e.id)
  BY <1>5
<1> QED BY <1>2, <1>7, <1>8 DEF longer, n

\* The two parts of it.
LEMMA RebuildSame ==
  ASSUME NEW log \in Seq(Events), NEW e \in Events, NEW state, NEW numbers \in SUBSET (1..Len(log))
  PROVE  ApplyEvents(Append(log, e), state, numbers) = ApplyEvents(log, state, numbers)
<1>1. /\ ApplyEvents(Append(log, e), state, numbers) = ApplyEvents(log, state, numbers)
      /\ ApplyEvents(Append(log, e), state, numbers \cup {Len(log) + 1})
              = Append(ApplyEvents(log, state, numbers), e.id)
  BY RebuildGrows
<1> QED BY <1>1

LEMMA RebuildOneMore ==
  ASSUME NEW log \in Seq(Events), NEW e \in Events, NEW state, NEW numbers \in SUBSET (1..Len(log))
  PROVE  ApplyEvents(Append(log, e), state, numbers \cup {Len(log) + 1})
           = Append(ApplyEvents(log, state, numbers), e.id)
<1>1. /\ ApplyEvents(Append(log, e), state, numbers) = ApplyEvents(log, state, numbers)
      /\ ApplyEvents(Append(log, e), state, numbers \cup {Len(log) + 1})
              = Append(ApplyEvents(log, state, numbers), e.id)
  BY RebuildGrows
<1> QED BY <1>1

-----------------------------------------------------------------------------
(* The invariant *)

\* The numbers of the cycle's events in a log, up to one of them.
OursUpTo(log, n) == {i \in 1..Len(log) : log[i].ours /\ i <= n}

\* A state is that after the events up to number n.
Exact(log, n, state) == n \in 0..Len(log) /\ state = ApplyEvents(log, <<>>, OursUpTo(log, n))

RebuildOK(log, r) ==
  /\ r.stage \in {"idle", "loaded", "rebuilt"}
  /\ r.stage = "idle" => r = NoReplay
  /\ r.stage # "idle" => Exact(log, r.last, r.state) /\ r.from \in 0..Len(log)
  /\ r.stage = "rebuilt" => \A i \in 1..r.from : log[i].ours => i <= r.last

JournalInv ==
  /\ journal \in Seq(Events)
  /\ \A s \in snapshots : s.last > 0 /\ Exact(journal, s.last, s.state)
  /\ replay = [p \in Processes |-> replay[p]]
  /\ \A p \in Processes : RebuildOK(journal, replay[p])
  /\ replay["runner"].stage # "idle" => replay["runner"].from = Len(journal)

LEMMA ExactStays ==
  ASSUME NEW log \in Seq(Events), NEW e \in Events, NEW n, NEW state, Exact(log, n, state)
  PROVE  Exact(Append(log, e), n, state)
<1> DEFINE m == Len(log)
           longer == Append(log, e)
<1>1. m \in Nat /\ Len(longer) = m + 1 /\ \A i \in 1..m : longer[i] = log[i]
  OBVIOUS
<1>2. n \in 0..m /\ state = ApplyEvents(log, <<>>, OursUpTo(log, n))
  BY DEF Exact
<1>3. OursUpTo(log, n) \in SUBSET (1..Len(log))
  BY DEF OursUpTo
<1>4. ApplyEvents(longer, <<>>, OursUpTo(log, n)) = ApplyEvents(log, <<>>, OursUpTo(log, n))
  <2> DEFINE N == OursUpTo(log, n)
             empty == <<>>
  <2>1. N \in SUBSET (1..Len(log))
    BY <1>3
  <2> HIDE DEF N, empty
  <2>2. ApplyEvents(Append(log, e), empty, N) = ApplyEvents(log, empty, N)
    BY <2>1, RebuildSame
  <2> QED BY <2>2 DEF N, empty
<1> HIDE DEF longer, m
<1>5. OursUpTo(longer, n) = OursUpTo(log, n)
  <2>1. \A i \in 1..(m + 1) : i <= n => i \in 1..m
    BY <1>1, <1>2
  <2>2. \A i \in 1..m : i \in 1..(m + 1)
    BY <1>1
  <2> QED BY <1>1, <2>1, <2>2 DEF OursUpTo, m
<1>6. n \in 0..Len(longer)
  BY <1>1, <1>2
<1> QED BY <1>2, <1>4, <1>5, <1>6 DEF Exact, longer

\* A rebuild that is right stays right when an event is appended.
LEMMA RebuildStays ==
  ASSUME NEW log \in Seq(Events), NEW e \in Events, NEW r, RebuildOK(log, r)
  PROVE  RebuildOK(Append(log, e), r)
<1>1. Len(Append(log, e)) = Len(log) + 1 /\ Len(log) \in Nat
      /\ \A i \in 1..Len(log) : Append(log, e)[i] = log[i]
  OBVIOUS
<1>2. r.stage # "idle" => Exact(Append(log, e), r.last, r.state)
  BY ExactStays DEF RebuildOK
<1>3. r.stage # "idle" => r.from \in 0..Len(Append(log, e)) /\ r.from \in 0..Len(log)
  BY <1>1 DEF RebuildOK
<1>4. r.stage = "rebuilt" => \A i \in 1..r.from : Append(log, e)[i].ours => i <= r.last
  <2> SUFFICES ASSUME r.stage = "rebuilt", NEW i \in 1..r.from, Append(log, e)[i].ours PROVE i <= r.last
    OBVIOUS
  <2>1. i \in 1..Len(log)
    BY <1>1, <1>3
  <2> QED BY <1>1, <2>1 DEF RebuildOK
<1> QED BY <1>2, <1>3, <1>4 DEF RebuildOK

LEMMA NoReplayOK == ASSUME NEW log PROVE RebuildOK(log, NoReplay)
BY DEF RebuildOK, NoReplay

LEMMA JournalInitInv == JournalInit => JournalInv
<1> SUFFICES ASSUME JournalInit PROVE JournalInv
  OBVIOUS
<1>1. journal = <<>> /\ snapshots = {} /\ replay = [p \in Processes |-> NoReplay]
  BY DEF JournalInit
<1>2. \A p \in Processes : replay[p] = NoReplay
  BY <1>1
<1>3. replay["runner"].stage = "idle"
  BY <1>2 DEF Processes, NoReplay
<1> QED BY <1>1, <1>2, <1>3, NoReplayOK DEF JournalInv

LEMMA AppendEventInv == ASSUME JournalInv, AppendEvent PROVE JournalInv'
<1>1. PICK id \in EventIds, ours \in BOOLEAN : journal' = Append(journal, [id |-> id, ours |-> ours])
  BY DEF AppendEvent
<1> DEFINE e == [id |-> id, ours |-> ours]
<1>2. e \in Events /\ journal \in Seq(Events) /\ journal' = Append(journal, e) /\ journal' \in Seq(Events)
  BY <1>1 DEF Events, JournalInv
<1>3. UNCHANGED <<snapshots, replay>> /\ replay["runner"].stage = "idle"
  BY DEF AppendEvent, NoReplay
<1> HIDE DEF e
<1>4. \A s \in snapshots : s.last > 0 /\ Exact(journal', s.last, s.state)
  BY <1>2, ExactStays DEF JournalInv
<1>5. \A p \in Processes : RebuildOK(journal', replay[p])
  BY <1>2, RebuildStays DEF JournalInv
<1> QED BY <1>2, <1>3, <1>4, <1>5 DEF JournalInv

\* The other processes' rebuilds, and the runner's limits, after a step that sets one.
LEMMA OneRebuildInv ==
  ASSUME JournalInv, NEW p \in Processes, NEW r, replay' = [replay EXCEPT ![p] = r],
         UNCHANGED <<journal, snapshots>>, RebuildOK(journal, r),
         r.stage # "idle" /\ p = "runner" => r.from = Len(journal)
  PROVE  JournalInv'
<1>1. /\ replay'[p] = r /\ \A q \in Processes : q # p => replay'[q] = replay[q]
      /\ replay' = [q \in Processes |-> replay'[q]]
  BY DEF JournalInv
<1>2. \A q \in Processes : RebuildOK(journal, replay'[q])
  BY <1>1 DEF JournalInv
<1>3. replay'["runner"].stage # "idle" => replay'["runner"].from = Len(journal)
  BY <1>1 DEF JournalInv, Processes
<1> QED BY <1>1, <1>2, <1>3 DEF JournalInv

LEMMA LoadInv == ASSUME JournalInv, NEW p \in Processes, LoadLatestSnapshot(p) PROVE JournalInv'
<1> DEFINE start == IF snapshots = {} THEN [last |-> 0, state |-> <<>>]
                    ELSE CHOOSE s \in snapshots : \A t \in snapshots : t.last <= s.last
           r == [stage |-> "loaded", last |-> start.last, state |-> start.state, from |-> Len(journal)]
<1>1. replay' = [replay EXCEPT ![p] = r] /\ UNCHANGED <<journal, snapshots>>
  BY DEF LoadLatestSnapshot
<1>2. journal \in Seq(Events) /\ Len(journal) \in Nat
  BY DEF JournalInv
<1>3. Exact(journal, start.last, start.state)
  <2>1. CASE snapshots = {}
    <3>1. OursUpTo(journal, 0) = {}
      BY <1>2 DEF OursUpTo
    <3>2. PICK g : IsRun(g, journal, Len(journal), <<>>, {}) /\ ApplyEvents(journal, <<>>, {}) = g[Len(journal)]
      BY <1>2, ApplyEventsIs
    <3>3. g[0] = <<>> /\ \A i \in 1..Len(journal) : g[i] = g[i - 1]
      BY <1>2, <3>2, RunSteps
    <3> DEFINE Good == {i \in 0..Len(journal) : g[i] = <<>>}
    <3>4. 0 \in Good /\ \A i \in 1..Len(journal) : i - 1 \in Good => i \in Good
      BY <1>2, <3>3
    <3>5. \A i \in 0..Len(journal) : i \in Good
      <4> HIDE DEF Good
      <4> QED BY <1>2, <3>4, CountingUp
    <3>6. ApplyEvents(journal, <<>>, OursUpTo(journal, 0)) = <<>>
      BY <1>2, <3>1, <3>2, <3>5
    <3>7. start.last = 0 /\ start.state = <<>>
      BY <2>1
    <3> QED BY <1>2, <3>6, <3>7 DEF Exact
  <2>2. CASE snapshots # {}
    <3> DEFINE numbers == {s.last : s \in snapshots}
    <3>1. numbers \in SUBSET (1..Len(journal)) /\ numbers # {}
      BY <1>2, <2>2 DEF JournalInv, Exact
    <3>2. Max(numbers) \in numbers /\ \A y \in numbers : Max(numbers) >= y
      <4> HIDE DEF numbers
      <4> QED BY <1>2, <3>1, GreatestElement
    <3>3. PICK s \in snapshots : s.last = Max(numbers)
      BY <3>2
    <3>4. \A t \in snapshots : t.last <= s.last
      <4>1. \A t \in snapshots : t.last \in numbers /\ t.last \in Int
        BY <1>2 DEF JournalInv, Exact
      <4> HIDE DEF numbers
      <4> QED BY <3>2, <3>3, <4>1
    <3>5. start \in snapshots
      BY <2>2, <3>4
    <3> QED BY <3>5 DEF JournalInv
  <2> QED BY <2>1, <2>2
<1> HIDE DEF start
<1>4. RebuildOK(journal, r)
  BY <1>2, <1>3 DEF RebuildOK
<1>5. r.from = Len(journal)
  OBVIOUS
<1> HIDE DEF r
<1> QED BY <1>1, <1>4, <1>5, OneRebuildInv

LEMMA ApplyInv == ASSUME JournalInv, NEW p \in Processes, ApplyLaterEvents(p) PROVE JournalInv'
<1> DEFINE r == replay[p]
           n == Len(journal)
           later == EventsAfter(r.last)
           top == Max(later \cup {r.last})
           done == [stage |-> "rebuilt", last |-> top, state |-> ApplyEvents(journal, r.state, later),
                    from |-> r.from]
<1>1. replay' = [replay EXCEPT ![p] = done] /\ UNCHANGED <<journal, snapshots>> /\ r.stage = "loaded"
  BY DEF ApplyLaterEvents
<1>2. n \in Nat
  BY DEF JournalInv
<1>3. Exact(journal, r.last, r.state) /\ r.from \in 0..n
  BY <1>1 DEF JournalInv, RebuildOK
<1>4. r.last \in 0..n /\ r.state = ApplyEvents(journal, <<>>, OursUpTo(journal, r.last))
  BY <1>3 DEF Exact
<1>5. later \in SUBSET ((r.last + 1)..n)
  BY DEF EventsAfter
<1>6. top \in later \cup {r.last} /\ \A y \in later \cup {r.last} : top >= y
  <2>1. later \cup {r.last} \in SUBSET (0..n)
    BY <1>2, <1>4, <1>5
  <2> HIDE DEF later
  <2> QED BY <1>2, <2>1, GreatestUpTo
<1>7. top \in 0..n /\ top >= r.last
  <2> HIDE DEF top, later, r, n
  <2> QED BY <1>2, <1>4, <1>5, <1>6
<1>8. OursUpTo(journal, r.last) \cup later = OursUpTo(journal, top)
  <2> HIDE DEF top
  <2>1. \A i \in 1..n : i \in OursUpTo(journal, r.last) <=> journal[i].ours /\ i <= r.last
    BY DEF OursUpTo
  <2>2. \A i \in 1..n : i \in later <=> journal[i].ours /\ i > r.last
    BY <1>2, <1>4 DEF EventsAfter
  <2>3. \A i \in 1..n : i \in OursUpTo(journal, top) <=> journal[i].ours /\ i <= top
    BY DEF OursUpTo
  <2>4. OursUpTo(journal, r.last) \subseteq 1..n /\ OursUpTo(journal, top) \subseteq 1..n
    BY DEF OursUpTo
  <2>5. later \subseteq 1..n
    BY <1>2, <1>4, <1>5
  <2> HIDE DEF later, n, r
  <2>6. ASSUME NEW i \in 1..n
        PROVE  i \in OursUpTo(journal, r.last) \/ i \in later <=> i \in OursUpTo(journal, top)
    <3>1. i \in later => i <= top
      BY <1>2, <1>4, <1>6, <1>7
    <3>2. i <= r.last \/ i > r.last
      BY <1>2, <1>4
    <3>3. i <= r.last => i <= top
      BY <1>2, <1>4, <1>7
    <3> QED BY <2>1, <2>2, <2>3, <3>1, <3>2, <3>3
  <2> QED BY <2>4, <2>5, <2>6
<1>9. Exact(journal, top, ApplyEvents(journal, r.state, later))
  <2>1. OursUpTo(journal, r.last) \in SUBSET (1..r.last)
    BY <1>2, <1>4 DEF OursUpTo
  <2> HIDE DEF top, later
  <2>2. ApplyEvents(journal, ApplyEvents(journal, <<>>, OursUpTo(journal, r.last)), later)
          = ApplyEvents(journal, <<>>, OursUpTo(journal, r.last) \cup later)
    BY <1>2, <1>4, <1>5, <2>1, RebuildSplits
  <2> QED BY <1>4, <1>7, <1>8, <2>2 DEF Exact
<1>10. \A i \in 1..r.from : journal[i].ours => i <= top
  <2> SUFFICES ASSUME NEW i \in 1..r.from, journal[i].ours PROVE i <= top
    OBVIOUS
  <2>1. i \in 1..n
    BY <1>2, <1>3
  <2>2. i > r.last => i \in later
    BY <1>2, <1>4, <2>1 DEF EventsAfter
  <2> HIDE DEF later, top, n
  <2> QED BY <1>2, <1>4, <1>6, <1>7, <2>1, <2>2
<1>11. /\ done.stage = "rebuilt" /\ done.last = top /\ done.from = r.from
       /\ done.state = ApplyEvents(journal, r.state, later)
  OBVIOUS
<1> HIDE DEF done, top, later
<1>12. RebuildOK(journal, done)
  BY <1>3, <1>9, <1>10, <1>11 DEF RebuildOK
<1>13. p = "runner" => done.from = n
  BY <1>1, <1>11 DEF JournalInv
<1> QED BY <1>1, <1>12, <1>13, OneRebuildInv

LEMMA LeaveInv == ASSUME JournalInv, NEW p \in Processes, Leave(p) PROVE JournalInv'
<1>1. NoReplay.stage = "idle" /\ replay' = [replay EXCEPT ![p] = NoReplay] /\ UNCHANGED <<journal, snapshots>>
  BY DEF Leave, NoReplay
<1>2. RebuildOK(journal, NoReplay)
  BY NoReplayOK
<1> QED BY <1>1, <1>2, OneRebuildInv

LEMMA SnapshotInv == ASSUME JournalInv, AppendEventAndSnapshot PROVE JournalInv'
<1> DEFINE r == replay["runner"]
           n == Len(journal)
<1>1. "runner" \in Processes /\ n \in Nat /\ journal \in Seq(Events)
  BY DEF Processes, JournalInv
<1>2. r.stage = "rebuilt" /\ r.from = n /\ RebuildOK(journal, r)
  BY <1>1 DEF AppendEventAndSnapshot, JournalInv
<1>3. replay' = [replay EXCEPT !["runner"] = NoReplay]
  BY DEF AppendEventAndSnapshot
<1>4. PICK id \in EventIds :
        IF Used(id) THEN UNCHANGED <<journal, snapshots>>
        ELSE /\ journal' = Append(journal, [id |-> id, ours |-> TRUE])
             /\ snapshots' = snapshots \cup {[last |-> n + 1, state |-> Append(r.state, id)]}
  BY DEF AppendEventAndSnapshot, StoredSequence
<1>5. CASE Used(id)
  <2>1. NoReplay.stage = "idle" /\ RebuildOK(journal, NoReplay)
    BY NoReplayOK DEF NoReplay
  <2> QED BY <1>1, <1>3, <1>4, <1>5, <2>1, OneRebuildInv
<1>6. CASE ~Used(id)
  <2> DEFINE e == [id |-> id, ours |-> TRUE]
             new == [last |-> n + 1, state |-> Append(r.state, id)]
  <2>1. /\ e \in Events /\ journal' = Append(journal, e) /\ journal' \in Seq(Events) /\ e.ours /\ e.id = id
        /\ snapshots' = snapshots \cup {new} /\ new.last = n + 1 /\ new.state = Append(r.state, id)
    <3>1. e \in Events /\ e.ours /\ e.id = id
      BY DEF Events
    <3>2. journal' = Append(journal, e) /\ snapshots' = snapshots \cup {new}
      BY <1>4, <1>6
    <3>3. new.last = n + 1 /\ new.state = Append(r.state, id)
      OBVIOUS
    <3> HIDE DEF e, new
    <3>4. journal' \in Seq(Events)
      BY <1>1, <3>1, <3>2
    <3> QED BY <3>1, <3>2, <3>3, <3>4
  <2> HIDE DEF e, new
  <2>2. /\ Len(journal') = n + 1 /\ (\A i \in 1..n : journal'[i] = journal[i]) /\ journal'[n + 1] = e
    BY <1>1, <2>1
  <2>3. r.last \in 0..n /\ r.state = ApplyEvents(journal, <<>>, OursUpTo(journal, r.last))
        /\ \A i \in 1..n : journal[i].ours => i <= r.last
    BY <1>2 DEF RebuildOK, Exact
  <2>4. OursUpTo(journal', n + 1) = OursUpTo(journal, r.last) \cup {n + 1}
    <3>1. \A i \in 1..(n + 1) : i \in 1..n \/ i = n + 1
      BY <1>1
    <3>2. \A i \in 1..n : i \in OursUpTo(journal, r.last) <=> journal[i].ours
      BY <2>3 DEF OursUpTo
    <3>3. OursUpTo(journal, r.last) \subseteq 1..n
      BY DEF OursUpTo
    <3>4. \A i \in 1..n : i \in OursUpTo(journal', n + 1) <=> journal[i].ours
      BY <1>1, <2>2 DEF OursUpTo
    <3>5. n + 1 \in OursUpTo(journal', n + 1) /\ OursUpTo(journal', n + 1) \subseteq 1..(n + 1)
      BY <1>1, <2>1, <2>2 DEF OursUpTo
    <3> HIDE DEF n, r
    <3> QED BY <3>1, <3>2, <3>3, <3>4, <3>5
  <2>5. Exact(journal', new.last, new.state)
    <3>1. OursUpTo(journal, r.last) \in SUBSET (1..Len(journal))
      BY DEF OursUpTo
    <3>2. ApplyEvents(Append(journal, e), <<>>, OursUpTo(journal, r.last) \cup {Len(journal) + 1})
            = Append(ApplyEvents(journal, <<>>, OursUpTo(journal, r.last)), e.id)
      <4> DEFINE N == OursUpTo(journal, r.last)
                 empty == <<>>
      <4>1. N \in SUBSET (1..Len(journal))
        BY <3>1
      <4> HIDE DEF N, empty
      <4>2. ApplyEvents(Append(journal, e), empty, N \cup {Len(journal) + 1})
              = Append(ApplyEvents(journal, empty, N), e.id)
        BY <1>1, <2>1, <4>1, RebuildOneMore
      <4> QED BY <4>2 DEF N, empty
    <3>3. n + 1 \in 0..Len(journal')
      BY <1>1, <2>2
    <3> QED BY <2>1, <2>3, <2>4, <3>2, <3>3 DEF Exact
  <2>6. \A s \in snapshots' : s.last > 0 /\ Exact(journal', s.last, s.state)
    <3>1. \A s \in snapshots : s.last > 0 /\ Exact(journal', s.last, s.state)
      BY <1>1, <2>1, ExactStays DEF JournalInv
    <3>2. new.last > 0
      BY <1>1, <2>1
    <3> QED BY <2>1, <2>5, <3>1, <3>2
  <2>7. /\ replay'["runner"] = NoReplay /\ \A q \in Processes : q # "runner" => replay'[q] = replay[q]
        /\ replay' = [q \in Processes |-> replay'[q]]
    BY <1>1, <1>3 DEF JournalInv
  <2>8. \A q \in Processes : RebuildOK(journal', replay'[q])
    <3>1. \A q \in Processes : RebuildOK(journal', replay[q])
      BY <1>1, <2>1, RebuildStays DEF JournalInv
    <3> QED BY <2>7, <3>1, NoReplayOK
  <2> QED BY <2>1, <2>6, <2>7, <2>8 DEF JournalInv, NoReplay
<1> QED BY <1>5, <1>6

LEMMA JournalStepInv == JournalInv /\ [JournalNext]_journalVars => JournalInv'
<1> SUFFICES ASSUME JournalInv, [JournalNext]_journalVars PROVE JournalInv'
  OBVIOUS
<1>1. ASSUME UNCHANGED journalVars PROVE JournalInv'
  BY <1>1 DEF journalVars, JournalInv
<1> QED BY <1>1, AppendEventInv, SnapshotInv, LoadInv, ApplyInv, LeaveInv DEF JournalNext

\* What a start rebuilds from a snapshot and the events after it is the state after
\* every event up to the number it reports.
THEOREM RebuildIsExact == JournalSpec => []ReplayIsExact
<1>1. JournalInv => ReplayIsExact
  <2> SUFFICES ASSUME JournalInv, NEW p \in Processes, replay[p].stage = "rebuilt"
               PROVE  /\ replay[p].state = ApplyEvents(journal, <<>>, {i \in EventsAfter(0) : i <= replay[p].last})
                      /\ \A i \in 1..replay[p].from : journal[i].ours => i <= replay[p].last
    BY DEF ReplayIsExact
  <2>1. RebuildOK(journal, replay[p])
    BY DEF JournalInv
  <2>2. {i \in EventsAfter(0) : i <= replay[p].last} = OursUpTo(journal, replay[p].last)
    BY DEF EventsAfter, OursUpTo
  <2> QED BY <2>1, <2>2 DEF RebuildOK, Exact
<1> QED BY <1>1, JournalInitInv, JournalStepInv, PTL DEF JournalSpec

-----------------------------------------------------------------------------
(* The books of the simulated exchange *)

Requests ==
  [link : LevelLinks, qty : Nat \ {0}, side : {"Sell", "Buy"}, type : {"Limit", "Market"},
   reduce : BOOLEAN, ioc : BOOLEAN, trigger : Int, price : Int]

\* A request as the application builds it, possibly amended.
WellMade(r) ==
  /\ r.side = "Sell" <=> r.link[2] = "ENTRY"
  /\ r.reduce <=> r.link[2] # "ENTRY"
  /\ r.link[2] = "STOP" => r.trigger # Unset

SimOrders ==
  {o \in [req : Requests, status : Active \cup {"Filled", "Cancelled"}, filled : Nat,
          created : Nat, partial : {"no", "planned", "done"}] :
     /\ WellMade(o.req)
     /\ o.filled <= o.req.qty
     /\ o.status = "Filled" <=> o.filled = o.req.qty}

Executed == [link : LevelLinks, side : {"Sell", "Buy"}, qty : Nat, price : Int, fee : Int]

Fees == [entry : Int, exit : Int, tp : Int, stop : Int]

\* The account as the replay of the ledger sees it.
Image(a) == [position |-> a.position, basis |-> a.basis, gross |-> a.realized,
             entry |-> a.fees.entry, tp |-> a.fees.tp, stop |-> a.fees.stop]

\* The account is what the executions say.
Balanced(a, log) ==
  /\ a.position \in Nat /\ a.basis \in Int /\ a.realized \in Int /\ a.fees \in Fees
  /\ a.position = SumFunction(PositionFlow(log))
  /\ a.realized - Scale * (a.fees.entry + a.fees.exit) = Scale * SumFunction(CashFlow(log)) - a.basis
  /\ Replayed(log) = Image(a)

\* Every execution is queued or was seen, and none is both.
Delivered(q, log, seen) ==
  /\ q \in Seq(Nat)
  /\ seen \cup ToSet(q) = DOMAIN log
  /\ seen \cap ToSet(q) = {}

\* The clock runs exactly while the position is open without a stop.
Runs(clock, held, book) == clock.since # Unset <=> held > 0 /\ ~HasActiveStop(book)

\* x has the fields of a pass state.
IsExchange(x) ==
  x = [orders |-> x.orders, execs |-> x.execs, queue |-> x.queue, account |-> x.account,
       slippage |-> x.slippage, counts |-> x.counts, clock |-> x.clock]

Sound(x, seen) ==
  /\ IsExchange(x)
  /\ x.orders \in Seq(SimOrders)
  /\ x.execs \in Seq(Executed)
  /\ Balanced(x.account, x.execs)
  /\ Delivered(x.queue, x.execs, seen)
  /\ Runs(x.clock, x.account.position, x.orders)

LEMMA OrderTypes ==
  ASSUME NEW o \in SimOrders
  PROVE  /\ o.req \in Requests /\ o.req.link \in LevelLinks /\ o.req.qty \in Nat /\ o.req.qty > 0
         /\ o.req.side \in {"Sell", "Buy"} /\ o.req.reduce \in BOOLEAN
         /\ o.status \in Active \cup {"Filled", "Cancelled"} /\ o.filled \in Nat /\ o.created \in Nat
         /\ o.partial \in {"no", "planned", "done"} /\ WellMade(o.req) /\ o.filled <= o.req.qty
         /\ (o.status = "Filled" <=> o.filled = o.req.qty)
         /\ (o.status \in Active => o.filled < o.req.qty)
BY DEF SimOrders, Requests, Active

\* A two-element minimum.
LEMMA MinOfTwo ==
  ASSUME NEW a \in Int, NEW b \in Int
  PROVE  Min({a, b}) = IF a <= b THEN a ELSE b
<1> DEFINE m == IF a <= b THEN a ELSE b
<1>1. m \in {a, b} /\ \A y \in {a, b} : m <= y
  OBVIOUS
<1>2. \A z \in {a, b} : (\A y \in {a, b} : z <= y) => z = m
  OBVIOUS
<1> QED BY <1>1, <1>2 DEF Min

\* What is left to fill of a working order, and how much of it a fill takes.
LEMMA FillBounds ==
  ASSUME NEW x, NEW o \in SimOrders, o.status \in Active, x.account.position \in Nat
  PROVE  /\ Remaining(x, o) \in Int /\ Remaining(x, o) <= o.req.qty - o.filled
         /\ (o.req.reduce => Remaining(x, o) <= x.account.position)
         /\ (Remaining(x, o) <= 0 => x.account.position = 0)
         /\ (Remaining(x, o) > 0 => /\ FillQuantity(x, o) \in Nat /\ FillQuantity(x, o) > 0
                                    /\ FillQuantity(x, o) <= Remaining(x, o))
<1>1. o.req.qty \in Nat /\ o.filled \in Nat /\ o.filled < o.req.qty /\ o.req.reduce \in BOOLEAN
  BY OrderTypes
<1>2. Min({o.req.qty - o.filled, x.account.position}) =
        IF o.req.qty - o.filled <= x.account.position THEN o.req.qty - o.filled ELSE x.account.position
  BY <1>1, MinOfTwo
<1>3. /\ Remaining(x, o) \in Int /\ Remaining(x, o) <= o.req.qty - o.filled
      /\ (o.req.reduce => Remaining(x, o) <= x.account.position)
      /\ (Remaining(x, o) <= 0 => x.account.position = 0)
  BY <1>1, <1>2 DEF Remaining
<1>4. o.req.qty \div 2 \in Int
  BY <1>1
<1>5. Remaining(x, o) > 0 => /\ FillQuantity(x, o) \in Nat /\ FillQuantity(x, o) > 0
                             /\ FillQuantity(x, o) <= Remaining(x, o)
  BY <1>3, <1>4 DEF FillQuantity, FillsPartly
<1> QED BY <1>3, <1>5

LEMMA ExecutionTypes ==
  ASSUME NEW o \in SimOrders, NEW qty \in Nat, NEW price \in Int
  PROVE  /\ ExecutionUpdate(o, qty, price) \in Executed
         /\ ExecutionUpdate(o, qty, price).qty = qty
         /\ ExecutionUpdate(o, qty, price).side = o.req.side
<1> DEFINE at == FillPrice(o.req, price)
           rate == IF o.req.type = "Limit" THEN MakerFee ELSE TakerFee
<1>1. at \in Int /\ rate \in Int
  BY SimConstants DEF FillPrice, FirstAvailable, Bid, Ask
<1>2. at * qty * rate \in Int
  <2> HIDE DEF at, rate
  <2> QED BY <1>1
<1>3. o.req.link \in LevelLinks /\ o.req.side \in {"Sell", "Buy"}
  BY OrderTypes
<1>4. ExecutionUpdate(o, qty, price) =
        [link |-> o.req.link, side |-> o.req.side, qty |-> qty, price |-> at, fee |-> at * qty * rate]
  BY DEF ExecutionUpdate
<1> HIDE DEF at, rate
<1> QED BY <1>1, <1>2, <1>3, <1>4 DEF Executed

LEMMA FilledOrder ==
  ASSUME NEW o \in SimOrders, o.status \in Active, NEW qty \in Nat, qty > 0, qty <= o.req.qty - o.filled,
         NEW partly \in BOOLEAN
  PROVE  /\ AfterFill(o, qty, partly) \in SimOrders
         /\ AfterFill(o, qty, partly).req = o.req
<1>1. /\ o.req \in Requests /\ o.req.qty \in Nat /\ o.filled \in Nat /\ o.created \in Nat
      /\ o.partial \in {"no", "planned", "done"} /\ WellMade(o.req)
  BY OrderTypes
<1> QED BY <1>1 DEF AfterFill, SimOrders, Active

LEMMA CancelledOrder ==
  ASSUME NEW o \in SimOrders, o.status \in Active
  PROVE  [o EXCEPT !.status = "Cancelled"] \in SimOrders
BY DEF SimOrders, Active

-----------------------------------------------------------------------------
(* The account and the replay *)

\* What the replay computes step by step.
NothingReplayed == [position |-> 0, basis |-> 0, gross |-> 0, entry |-> 0, tp |-> 0, stop |-> 0]
Replays(g, log, n) ==
  g = [i \in 0..n |-> IF i = 0 THEN NothingReplayed ELSE ReplayEvent(g[i - 1], log[i])]

LEMMA ReplayExists ==
  ASSUME NEW log, NEW n \in Nat
  PROVE  \E g : Replays(g, log, n)
<1> DEFINE Bad == {k \in Nat : ~\E g : Replays(g, log, k)}
<1> SUFFICES ASSUME Bad # {} PROVE FALSE
  OBVIOUS
<1>1. Min(Bad) \in Bad /\ \A k \in Bad : Min(Bad) <= k
  <2>1. Bad \in SUBSET Nat
    OBVIOUS
  <2> HIDE DEF Bad
  <2> QED BY <2>1, LeastElement
<1> DEFINE m == Min(Bad)
<1> HIDE DEF Bad, m
<1>2. m \in Bad /\ \A k \in Bad : m <= k
  BY <1>1 DEF m
<1>3. m \in Nat /\ ~\E g : Replays(g, log, m)
  BY <1>2 DEF Bad
<1>4. CASE m = 0
  <2> DEFINE g == [i \in 0..0 |-> NothingReplayed]
  <2>1. g = [i \in 0..0 |-> IF i = 0 THEN NothingReplayed ELSE ReplayEvent(g[i - 1], log[i])]
    OBVIOUS
  <2>2. Replays(g, log, 0)
    BY <2>1 DEF Replays
  <2> QED BY <1>3, <1>4, <2>2
<1>5. CASE m # 0
  <2>1. m - 1 \in Nat /\ m - 1 \notin Bad
    BY <1>2, <1>3, <1>5
  <2>2. PICK h : Replays(h, log, m - 1)
    BY <2>1 DEF Bad
  <2> DEFINE g == [i \in 0..m |-> IF i = m THEN ReplayEvent(h[m - 1], log[m]) ELSE h[i]]
  <2>3. ASSUME NEW i \in 0..m PROVE g[i] = IF i = 0 THEN NothingReplayed ELSE ReplayEvent(g[i - 1], log[i])
    <3>1. CASE i = m
      <4>1. g[i] = ReplayEvent(h[m - 1], log[m]) /\ g[i - 1] = h[i - 1] /\ i # 0
        BY <1>3, <1>5, <3>1
      <4> QED BY <3>1, <4>1
    <3>2. CASE i # m
      <4>1. i \in 0..m - 1 /\ g[i] = h[i] /\ (i # 0 => g[i - 1] = h[i - 1])
        BY <1>3, <3>2
      <4>2. h[i] = IF i = 0 THEN NothingReplayed ELSE ReplayEvent(h[i - 1], log[i])
        BY <2>2, <4>1 DEF Replays
      <4> QED BY <4>1, <4>2
    <3> QED BY <3>1, <3>2
  <2>4. Replays(g, log, m)
    <3>1. g = [i \in 0..m |-> g[i]]
      OBVIOUS
    <3> HIDE DEF g
    <3> QED BY <2>3, <3>1 DEF Replays
  <2> QED BY <1>3, <2>4
<1> QED BY <1>4, <1>5

LEMMA ReplayedIs ==
  ASSUME NEW log, Len(log) \in Nat
  PROVE  \E g : Replays(g, log, Len(log)) /\ Replayed(log) = g[Len(log)]
<1> DEFINE g == CHOOSE g : Replays(g, log, Len(log))
<1>1. Replays(g, log, Len(log))
  BY ReplayExists
<1>2. Replayed(log) = g[Len(log)]
  BY DEF Replayed, Replays, NothingReplayed
<1> QED BY <1>1, <1>2

\* One more event is one more step of the replay.
LEMMA ReplayedAppend ==
  ASSUME NEW log \in Seq(Executed), NEW e \in Executed
  PROVE  Replayed(Append(log, e)) = ReplayEvent(Replayed(log), e)
<1> DEFINE n == Len(log)
           longer == Append(log, e)
<1>1. n \in Nat /\ Len(longer) = n + 1 /\ (\A i \in 1..n : longer[i] = log[i]) /\ longer[n + 1] = e
  OBVIOUS
<1> HIDE DEF n, longer
<1>2. PICK g : Replays(g, log, n) /\ Replayed(log) = g[n]
  BY <1>1, ReplayedIs DEF n
<1>3. PICK h : Replays(h, longer, n + 1) /\ Replayed(longer) = h[n + 1]
  BY <1>1, ReplayedIs
<1> DEFINE Good == {i \in 0..n : g[i] = h[i]}
<1>4. 0 \in Good
  BY <1>1, <1>2, <1>3 DEF Replays
<1>5. ASSUME NEW i \in 1..n, i - 1 \in Good PROVE i \in Good
  <2>1. g[i] = ReplayEvent(g[i - 1], log[i]) /\ h[i] = ReplayEvent(h[i - 1], longer[i])
    BY <1>1, <1>2, <1>3 DEF Replays
  <2> QED BY <1>1, <1>5, <2>1
<1>6. \A i \in 0..n : i \in Good
  <2> HIDE DEF Good
  <2> QED BY <1>1, <1>4, <1>5, CountingUp
<1>7. h[n + 1] = ReplayEvent(h[n], longer[n + 1])
  BY <1>1, <1>3 DEF Replays
<1>8. g[n] = h[n]
  BY <1>1, <1>6
<1> QED BY <1>1, <1>2, <1>3, <1>7, <1>8 DEF longer

\* The replay treats an execution as the account does.
LEMMA ReplayFollows ==
  ASSUME NEW a, a.fees \in Fees, NEW e
  PROVE  ReplayEvent(Image(a), e) = Image(ApplyPosition(a, e))
<1>1. CASE e.side = "Sell"
  BY <1>1 DEF ReplayEvent, Image, ApplyPosition, Fees
<1>2. CASE e.side # "Sell"
  BY <1>2 DEF ReplayEvent, Image, ApplyPosition
<1> QED BY <1>1, <1>2

\* What an execution adds to a sum over the ledger.
LEMMA FlowsGrow ==
  ASSUME NEW log \in Seq(Executed), NEW e \in Executed
  PROVE  LET signed == IF Bought(e) THEN -(e.price * e.qty) ELSE e.price * e.qty
         IN  /\ SumFunction(PositionFlow(Append(log, e))) =
                  SumFunction(PositionFlow(log)) + (IF Bought(e) THEN -e.qty ELSE e.qty)
             /\ SumFunction(CashFlow(Append(log, e))) = SumFunction(CashFlow(log)) + (signed - e.fee)
             /\ SumFunction(PositionFlow(log)) \in Int /\ SumFunction(CashFlow(log)) \in Int
<1> DEFINE n == Len(log)
           longer == Append(log, e)
           P(l) == PositionFlow(l)
           C(l) == CashFlow(l)
<1>1. /\ n \in Nat /\ DOMAIN log = 1..n /\ DOMAIN longer = 1..(n + 1)
      /\ (\A i \in 1..n : longer[i] = log[i] /\ log[i] \in Executed) /\ longer[n + 1] = e
  OBVIOUS
<1> HIDE DEF n, longer
<1>2. \A u \in Executed : u.qty \in Int /\ u.price * u.qty \in Int /\ u.fee \in Int
  BY DEF Executed
<1>3. /\ \A i \in 1..n : P(log)[i] \in Int /\ P(longer)[i] = P(log)[i]
      /\ P(longer)[n + 1] = (IF Bought(e) THEN -e.qty ELSE e.qty) /\ P(longer)[n + 1] \in Int
      /\ DOMAIN P(log) = 1..n /\ DOMAIN P(longer) = 1..(n + 1)
  BY <1>1, <1>2 DEF PositionFlow
<1>4. /\ \A i \in 1..n : C(log)[i] \in Int /\ C(longer)[i] = C(log)[i]
      /\ C(longer)[n + 1] = (IF Bought(e) THEN -(e.price * e.qty) ELSE e.price * e.qty) - e.fee
      /\ C(longer)[n + 1] \in Int
      /\ DOMAIN C(log) = 1..n /\ DOMAIN C(longer) = 1..(n + 1)
  <2> DEFINE flow(u) == (IF Bought(u) THEN -(u.price * u.qty) ELSE u.price * u.qty) - u.fee
  <2>1. \A u \in Executed : flow(u) \in Int
    BY <1>2
  <2>2. C(log) = [i \in 1..n |-> flow(log[i])] /\ C(longer) = [i \in 1..(n + 1) |-> flow(longer[i])]
    BY <1>1 DEF CashFlow
  <2>3. C(longer)[n + 1] = flow(e)
    <3> HIDE DEF flow, C
    <3> QED BY <1>1, <2>2
  <2>4. \A i \in 1..n : C(log)[i] = flow(log[i]) /\ C(longer)[i] = flow(log[i])
    <3> HIDE DEF flow, C
    <3> QED BY <1>1, <2>2
  <2>5. DOMAIN C(log) = 1..n /\ DOMAIN C(longer) = 1..(n + 1)
    <3> HIDE DEF flow, C
    <3> QED BY <2>2
  <2> HIDE DEF C
  <2>6. \A i \in 1..n : C(log)[i] \in Int /\ C(longer)[i] = C(log)[i]
    <3> HIDE DEF flow
    <3> QED BY <1>1, <2>1, <2>4
  <2> QED BY <2>1, <2>3, <2>5, <2>6
<1> HIDE DEF P, C
<1>5. Sum(P(longer), 1..(n + 1)) = Sum(P(log), 1..n) + P(longer)[n + 1]
  BY <1>1, <1>3, SumAppend
<1>6. Sum(C(longer), 1..(n + 1)) = Sum(C(log), 1..n) + C(longer)[n + 1]
  BY <1>1, <1>4, SumAppend
<1>7. IsFiniteSet(1..n)
  <2>1. \A k \in Nat : IsFiniteSet(1..k)
    BY FS_Interval
  <2> QED BY <1>1, <2>1
<1>8. Sum(P(log), 1..n) \in Int /\ Sum(C(log), 1..n) \in Int
  BY <1>3, <1>4, <1>7, SumType
<1> QED BY <1>3, <1>4, <1>5, <1>6, <1>8 DEF SumFunction, Sum, P, C, longer

LEMMA CashIsWhole == ASSUME NEW log \in Seq(Executed) PROVE SumFunction(CashFlow(log)) \in Int
<1> DEFINE n == Len(log)
           flow(u) == (IF Bought(u) THEN -(u.price * u.qty) ELSE u.price * u.qty) - u.fee
           f == CashFlow(log)
<1>1. n \in Nat /\ DOMAIN log = 1..n /\ \A i \in 1..n : log[i] \in Executed
  OBVIOUS
<1>2. \A u \in Executed : flow(u) \in Int
  BY DEF Executed
<1>3. f = [i \in 1..n |-> flow(log[i])]
  BY <1>1 DEF CashFlow
<1> HIDE DEF flow, n, f
<1>4. DOMAIN f = 1..n /\ \A i \in 1..n : f[i] \in Int
  BY <1>1, <1>2, <1>3
<1>5. IsFiniteSet(1..n)
  <2>1. \A k \in Nat : IsFiniteSet(1..k)
    BY FS_Interval
  <2> QED BY <1>1, <2>1
<1>6. Sum(f, 1..n) \in Int
  BY <1>4, <1>5, SumType
<1> QED BY <1>4, <1>6 DEF SumFunction, Sum, f

LEMMA FundingIsWhole == ASSUME NEW log \in Seq(Int) PROVE SumFunction(log) \in Int
<1> DEFINE n == Len(log)
<1>1. n \in Nat /\ DOMAIN log = 1..n /\ \A i \in 1..n : log[i] \in Int
  OBVIOUS
<1> HIDE DEF n
<1>2. IsFiniteSet(1..n)
  <2>1. \A k \in Nat : IsFiniteSet(1..k)
    BY FS_Interval
  <2> QED BY <1>1, <2>1
<1>3. Sum(log, 1..n) \in Int
  BY <1>1, <1>2, SumType
<1> QED BY <1>1, <1>3 DEF SumFunction, Sum

\* An execution keeps the account in step with the ledger.
LEMMA BalanceKept ==
  ASSUME NEW a, NEW log \in Seq(Executed), NEW e \in Executed, Balanced(a, log),
         e.qty > 0, e.side = "Buy" => e.qty <= a.position
  PROVE  Balanced(ApplyPosition(a, e), Append(log, e))
<1> DEFINE b == ApplyPosition(a, e)
           pq == e.price * e.qty
           C == SumFunction(CashFlow(log))
           P == SumFunction(PositionFlow(log))
<1>1. a.position \in Nat /\ a.basis \in Int /\ a.realized \in Int /\ a.fees \in Fees
  BY DEF Balanced
<1>2. /\ e.qty \in Nat /\ e.fee \in Int /\ pq \in Int /\ e.side \in {"Sell", "Buy"}
      /\ a.fees.entry \in Int /\ a.fees.exit \in Int /\ a.fees.tp \in Int /\ a.fees.stop \in Int
  BY <1>1 DEF Executed, Fees
<1>3. Replayed(Append(log, e)) = Image(b)
  BY <1>1, ReplayedAppend, ReplayFollows DEF Balanced
<1>4. /\ SumFunction(PositionFlow(Append(log, e))) = P + (IF Bought(e) THEN -e.qty ELSE e.qty)
      /\ SumFunction(CashFlow(Append(log, e))) = C + ((IF Bought(e) THEN -pq ELSE pq) - e.fee)
  BY FlowsGrow
<1>5. C \in Int /\ P \in Int
  BY FlowsGrow
<1>6. a.position = P /\ a.realized - Scale * (a.fees.entry + a.fees.exit) = Scale * C - a.basis
  BY DEF Balanced
<1>7. CASE e.side = "Sell"
  <2>1. b = [position |-> a.position + e.qty, basis |-> a.basis + Scale * pq, realized |-> a.realized,
             fees |-> [entry |-> a.fees.entry + e.fee, exit |-> a.fees.exit,
                       tp |-> a.fees.tp, stop |-> a.fees.stop]]
    BY <1>1, <1>7 DEF ApplyPosition, Fees
  <2>2. ~Bought(e)
    BY <1>7 DEF Bought
  <2> HIDE DEF b, pq, C, P
  <2>3. /\ b.position = a.position + e.qty /\ b.basis = a.basis + Scale * pq /\ b.realized = a.realized
        /\ b.fees.entry = a.fees.entry + e.fee /\ b.fees.exit = a.fees.exit
    BY <2>1
  <2>4. b.fees \in Fees
    BY <1>2, <2>1 DEF Fees
  <2>5. /\ b.realized - Scale * (b.fees.entry + b.fees.exit) = Scale * (C + (pq - e.fee)) - b.basis
        /\ b.basis \in Int
    <3>1. /\ a.realized - Scale * ((a.fees.entry + e.fee) + a.fees.exit)
               = Scale * (C + (pq - e.fee)) - (a.basis + Scale * pq)
          /\ a.basis + Scale * pq \in Int
      <4> DEFINE r == a.realized
                 f == a.fees.entry
                 g == a.fees.exit
                 k == a.basis
                 fee == e.fee
      <4>1. /\ r \in Int /\ f \in Int /\ g \in Int /\ k \in Int /\ C \in Int /\ pq \in Int /\ fee \in Int
            /\ r - Scale * (f + g) = Scale * C - k
        BY <1>1, <1>2, <1>5, <1>6
      <4>2. /\ r - Scale * ((f + fee) + g) = Scale * (C + (pq - fee)) - (k + Scale * pq)
            /\ k + Scale * pq \in Int
        <5> HIDE DEF r, f, g, k, fee
        <5> QED BY <4>1 DEF Scale
      <4> QED BY <4>2
    <3> QED BY <2>3, <3>1
  <2>6. b.position \in Nat /\ b.realized \in Int /\ b.position = P + e.qty
    <3>1. a.position + e.qty \in Nat
      BY <1>1, <1>2
    <3> QED BY <1>1, <1>6, <2>3, <3>1
  <2>7. Balanced(b, Append(log, e))
    BY <1>3, <1>4, <2>2, <2>4, <2>5, <2>6 DEF Balanced
  <2> QED BY <2>7 DEF b
<1>8. CASE e.side = "Buy"
  <2> DEFINE cost == (a.basis * e.qty) \div a.position
  <2>1. Min({e.qty, a.position}) = e.qty /\ a.position > 0
    <3>1. e.qty <= a.position /\ e.qty \in Int /\ a.position \in Int
      BY <1>1, <1>2, <1>8
    <3>2. Min({e.qty, a.position}) = IF e.qty <= a.position THEN e.qty ELSE a.position
      BY <3>1, MinOfTwo
    <3> QED BY <1>2, <3>1, <3>2
  <2>2. cost \in Int /\ (e.qty = a.position => cost = a.basis)
    <3> DEFINE p == a.position
               k == a.basis
    <3>1. p \in Nat /\ p > 0 /\ k \in Int /\ e.qty \in Nat
      BY <1>1, <1>2, <2>1
    <3> HIDE DEF p, k
    <3>2. (k * p) \div p = k
      BY <3>1
    <3>3. (k * e.qty) \div p \in Int
      BY <3>1
    <3> QED BY <3>2, <3>3 DEF p, k
  <2>3. b = [position |-> a.position - e.qty,
             basis    |-> IF e.qty = a.position THEN 0 ELSE a.basis - cost,
             realized |-> a.realized + cost - Scale * pq,
             fees     |-> [entry |-> a.fees.entry, exit |-> a.fees.exit + e.fee,
                           tp    |-> a.fees.tp + (IF e.link[2] = "TP" THEN e.fee ELSE 0),
                           stop  |-> a.fees.stop + (IF e.link[2] = "STOP" THEN e.fee ELSE 0)]]
    <3>1. e.side # "Sell" /\ e.qty # 0
      BY <1>8, <1>2
    <3> QED BY <2>1, <3>1 DEF ApplyPosition
  <2>4. Bought(e)
    BY <1>8 DEF Bought
  <2> HIDE DEF b, pq, C, P, cost
  <2>5. /\ b.position = a.position - e.qty /\ b.realized = a.realized + cost - Scale * pq
        /\ b.basis = (IF e.qty = a.position THEN 0 ELSE a.basis - cost)
        /\ b.fees.entry = a.fees.entry /\ b.fees.exit = a.fees.exit + e.fee
    BY <2>3
  <2>6. b.fees \in Fees
    BY <1>2, <2>3 DEF Fees
  <2>7. b.basis = a.basis - cost
    BY <1>1, <2>2, <2>5
  <2>8. /\ b.realized - Scale * (b.fees.entry + b.fees.exit) = Scale * (C + ((-pq) - e.fee)) - b.basis
        /\ b.realized \in Int /\ b.basis \in Int
    <3>1. /\ (a.realized + cost - Scale * pq) - Scale * (a.fees.entry + (a.fees.exit + e.fee))
               = Scale * (C + ((-pq) - e.fee)) - (a.basis - cost)
          /\ a.realized + cost - Scale * pq \in Int /\ a.basis - cost \in Int
      <4> DEFINE r == a.realized
                 f == a.fees.entry
                 g == a.fees.exit
                 k == a.basis
                 fee == e.fee
      <4>1. /\ r \in Int /\ f \in Int /\ g \in Int /\ k \in Int /\ C \in Int /\ pq \in Int /\ fee \in Int
            /\ cost \in Int /\ r - Scale * (f + g) = Scale * C - k
        BY <1>1, <1>2, <1>5, <1>6, <2>2
      <4>2. /\ (r + cost - Scale * pq) - Scale * (f + (g + fee)) = Scale * (C + ((-pq) - fee)) - (k - cost)
            /\ r + cost - Scale * pq \in Int /\ k - cost \in Int
        <5> HIDE DEF r, f, g, k, fee
        <5> QED BY <4>1 DEF Scale
      <4> QED BY <4>2
    <3> QED BY <2>5, <2>7, <3>1
  <2>9. b.position \in Nat /\ b.position = P + (-e.qty)
    <3>1. a.position - e.qty \in Nat /\ a.position - e.qty = a.position + (-e.qty)
      BY <1>1, <1>2, <1>8
    <3> QED BY <1>6, <2>5, <3>1
  <2>10. Balanced(b, Append(log, e))
    BY <1>3, <1>4, <2>4, <2>6, <2>8, <2>9 DEF Balanced
  <2> QED BY <2>10 DEF b
<1> QED BY <1>2, <1>7, <1>8

-----------------------------------------------------------------------------
(* The pass over the orders *)

LEMMA ClockFollows ==
  ASSUME NEW clock, NEW held \in Nat, NEW book, NEW time \in Nat
  PROVE  Runs(UpdateProtectionState(clock, held, book, time), held, book)
<1> DEFINE unprotected == held > 0 /\ ~HasActiveStop(book)
<1>1. CASE unprotected /\ clock.since = Unset
  <2>1. UpdateProtectionState(clock, held, book, time) = [since |-> time, worst |-> clock.worst]
    BY <1>1 DEF UpdateProtectionState
  <2> QED BY <1>1, <2>1 DEF Runs, Unset
<1>2. CASE ~unprotected /\ clock.since # Unset
  <2>1. UpdateProtectionState(clock, held, book, time) =
          [since |-> Unset, worst |-> CurrentMaximum(clock, time)]
    BY <1>2 DEF UpdateProtectionState
  <2> QED BY <1>2, <2>1 DEF Runs
<1>3. CASE ~(unprotected /\ clock.since = Unset) /\ ~(~unprotected /\ clock.since # Unset)
  <2>1. UpdateProtectionState(clock, held, book, time) = clock
    BY <1>3 DEF UpdateProtectionState
  <2> QED BY <1>3, <2>1 DEF Runs
<1> QED BY <1>1, <1>2, <1>3

\* Cancelling a working order leaves the clock right if the order is no stop, or
\* if nothing is held.
LEMMA CancelSound ==
  ASSUME NEW x, NEW seen, Sound(x, seen), NEW i \in DOMAIN x.orders, x.orders[i].status \in Active,
         x.account.position = 0 \/ x.orders[i].req.link[2] # "STOP"
  PROVE  /\ Sound(WithCancelled(x, i), seen)
         /\ Len(WithCancelled(x, i).orders) = Len(x.orders)
<1> DEFINE o == x.orders[i]
           gone == [o EXCEPT !.status = "Cancelled"]
           book == [x.orders EXCEPT ![i] = gone]
           y == WithCancelled(x, i)
<1>1. x.orders \in Seq(SimOrders) /\ o \in SimOrders
  BY DEF Sound
<1>2. gone \in SimOrders /\ gone.req = o.req /\ gone.status = "Cancelled"
  <2>1. gone \in SimOrders
    BY <1>1, CancelledOrder
  <2> QED BY <1>1, <2>1 DEF SimOrders
<1> HIDE DEF gone
<1>3. /\ book \in Seq(SimOrders) /\ Len(book) = Len(x.orders) /\ DOMAIN book = DOMAIN x.orders
      /\ book[i] = gone /\ \A j \in DOMAIN x.orders : j # i => book[j] = x.orders[j]
  BY <1>1, <1>2
<1>4. /\ y.orders = book /\ y.execs = x.execs /\ y.queue = x.queue /\ y.account = x.account
      /\ y.slippage = x.slippage /\ y.counts = x.counts /\ y.clock = x.clock /\ IsExchange(y)
  <2>1. IsExchange(x)
    BY DEF Sound
  <2>2. y = [x EXCEPT !.orders = book]
    BY DEF WithCancelled, gone
  <2> HIDE DEF y, book
  <2> QED BY <2>1, <2>2 DEF IsExchange
<1> HIDE DEF y, book
<1>5. Runs(x.clock, x.account.position, book)
  <2>1. x.account.position = 0 \/ (HasActiveStop(book) <=> HasActiveStop(x.orders))
    BY <1>2, <1>3 DEF HasActiveStop, Active
  <2> QED BY <2>1 DEF Sound, Runs
<1> QED BY <1>3, <1>4, <1>5 DEF Sound, y

LEMMA QueueGrows ==
  ASSUME NEW q \in Seq(Nat), NEW n \in Nat
  PROVE  /\ Append(q, n) \in Seq(Nat) /\ ToSet(Append(q, n)) = ToSet(q) \cup {n}
         /\ q \o <<n, n>> \in Seq(Nat) /\ ToSet(q \o <<n, n>>) = ToSet(q) \cup {n}
<1> DEFINE m == Len(q)
           a == Append(q, n)
           c == q \o <<n, n>>
<1>1. m \in Nat /\ DOMAIN q = 1..m
  OBVIOUS
<1>2. a \in Seq(Nat) /\ DOMAIN a = 1..(m + 1) /\ a[m + 1] = n /\ \A i \in 1..m : a[i] = q[i]
  OBVIOUS
<1>3. /\ c \in Seq(Nat) /\ DOMAIN c = 1..(m + 2) /\ c[m + 1] = n /\ c[m + 2] = n
      /\ \A i \in 1..m : c[i] = q[i]
  <2>1. <<n, n>> \in Seq(Nat) /\ Len(<<n, n>>) = 2
    OBVIOUS
  <2>2. c \in Seq(Nat) /\ Len(c) = m + 2
    BY <2>1
  <2>3. c[m + 1] = n /\ c[m + 2] = n /\ \A i \in 1..m : c[i] = q[i]
    BY <1>1, <2>1
  <2> QED BY <2>2, <2>3
<1> HIDE DEF m, a, c
<1>4. ToSet(a) = ToSet(q) \cup {n}
  <2>1. 1..(m + 1) = (1..m) \cup {m + 1}
    BY <1>1
  <2> QED BY <1>1, <1>2, <2>1 DEF ToSet
<1>5. ToSet(c) = ToSet(q) \cup {n}
  <2>1. 1..(m + 2) = (1..m) \cup {m + 1, m + 2}
    BY <1>1
  <2> QED BY <1>1, <1>3, <2>1 DEF ToSet
<1> QED BY <1>2, <1>3, <1>4, <1>5 DEF a, c

LEMMA FillSound ==
  ASSUME NEW x, NEW seen, Sound(x, seen), NEW i \in DOMAIN x.orders, x.orders[i].status \in Active,
         NEW price \in Int, NEW time \in Nat, NEW twice \in BOOLEAN
  PROVE  /\ Sound(FillOrder(x, i, price, time, twice), seen)
         /\ Len(FillOrder(x, i, price, time, twice).orders) = Len(x.orders)
<1> DEFINE o == x.orders[i]
           qty == FillQuantity(x, o)
           partly == FillsPartly(x, o)
           e == ExecutionUpdate(o, qty, price)
           n == Len(x.execs) + 1
           after == AfterFill(o, qty, partly)
           book == [x.orders EXCEPT ![i] = after]
           account == ApplyPosition(x.account, e)
           y == FillOrder(x, i, price, time, twice)
           q == IF twice THEN x.queue \o <<n, n>> ELSE Append(x.queue, n)
<1>1. x.orders \in Seq(SimOrders) /\ o \in SimOrders /\ x.execs \in Seq(Executed) /\ x.queue \in Seq(Nat)
  BY DEF Sound, Delivered
<1>2. x.account.position \in Nat
  BY DEF Sound, Balanced
<1>3. CASE Remaining(x, o) <= 0
  <2>1. y = WithCancelled(x, i)
    BY <1>3 DEF FillOrder
  <2>2. x.account.position = 0
    BY <1>1, <1>2, <1>3, FillBounds
  <2> QED BY <2>1, <2>2, CancelSound
<1>4. CASE ~(Remaining(x, o) <= 0)
  <2>1. /\ qty \in Nat /\ qty > 0 /\ qty <= o.req.qty - o.filled
        /\ (o.req.reduce => qty <= x.account.position)
    <3> HIDE DEF o, qty
    <3>1. o \in SimOrders /\ o.status \in Active
      BY <1>1 DEF o
    <3>2. /\ Remaining(x, o) \in Int /\ Remaining(x, o) <= o.req.qty - o.filled
          /\ (o.req.reduce => Remaining(x, o) <= x.account.position)
          /\ (Remaining(x, o) > 0 => qty \in Nat /\ qty > 0 /\ qty <= Remaining(x, o))
      BY <1>2, <3>1, FillBounds DEF qty
    <3>3. o.req.qty \in Int /\ o.filled \in Int
      BY <3>1, OrderTypes
    <3> QED BY <1>2, <1>4, <3>2, <3>3
  <2>2. partly \in BOOLEAN
    BY DEF FillsPartly
  <2>3. after \in SimOrders /\ after.req = o.req
    <3> HIDE DEF o, qty, partly
    <3>1. o \in SimOrders /\ o.status \in Active
      BY <1>1 DEF o
    <3> QED BY <2>1, <2>2, <3>1, FilledOrder
  <2>4. e \in Executed /\ e.qty = qty /\ e.side = o.req.side
    <3> HIDE DEF o, qty
    <3> QED BY <1>1, <2>1, ExecutionTypes
  <2>5. /\ y.orders = book /\ y.execs = Append(x.execs, e) /\ y.queue = q /\ y.account = account
        /\ y.clock = UpdateProtectionState(x.clock, account.position, book, time) /\ IsExchange(y)
    <3>1. e.qty = qty
      BY <2>4
    <3>2. y = [orders   |-> book,
             execs    |-> Append(x.execs, e),
             queue    |-> q,
             account  |-> account,
             slippage |-> RecordCost(x.slippage, e, FirstAvailable(o.req, price)),
             counts   |-> [rejected  |-> x.counts.rejected,
                           partial   |-> x.counts.partial + (IF partly THEN 1 ELSE 0),
                           duplicate |-> x.counts.duplicate + (IF twice THEN 1 ELSE 0)],
             clock    |-> UpdateProtectionState(x.clock, account.position, book, time)]
      BY <1>4, <3>1 DEF FillOrder
    <3> HIDE DEF y, book, e, q, account, partly, o
    <3> QED BY <3>2 DEF IsExchange
  <2>6. book \in Seq(SimOrders) /\ Len(book) = Len(x.orders)
    <3> HIDE DEF after
    <3> QED BY <1>1, <2>3
  <2>7. Append(x.execs, e) \in Seq(Executed)
    <3> HIDE DEF e
    <3> QED BY <1>1, <2>4
  <2>8. Balanced(account, Append(x.execs, e))
    <3>1. o.req.side = "Buy" => o.req.reduce
      BY <1>1, OrderTypes DEF WellMade
    <3>2. e.qty > 0 /\ (e.side = "Buy" => e.qty <= x.account.position)
      <4> HIDE DEF e, o, qty
      <4> QED BY <2>1, <2>4, <3>1
    <3>3. Balanced(x.account, x.execs)
      BY DEF Sound
    <3> HIDE DEF e
    <3> QED BY <1>1, <2>4, <3>2, <3>3, BalanceKept
  <2>9. Delivered(q, Append(x.execs, e), seen)
    <3> DEFINE longer == Append(x.execs, e)
    <3>1. n \in Nat /\ DOMAIN x.execs = 1..(n - 1) /\ DOMAIN longer = 1..n
      <4> HIDE DEF e
      <4> QED BY <1>1, <2>4
    <3>2. q \in Seq(Nat) /\ ToSet(q) = ToSet(x.queue) \cup {n}
      <4> HIDE DEF n
      <4> QED BY <1>1, <3>1, QueueGrows
    <3> HIDE DEF longer, q, n, e
    <3>3. seen \cup ToSet(x.queue) = 1..(n - 1) /\ seen \cap ToSet(x.queue) = {}
      BY <3>1 DEF Sound, Delivered
    <3>4. n \notin 1..(n - 1) /\ 1..n = (1..(n - 1)) \cup {n}
      <4>1. 1 <= n
        BY <1>1 DEF n
      <4> QED BY <3>1, <4>1
    <3>5. seen \cup ToSet(q) = 1..n /\ seen \cap ToSet(q) = {}
      BY <3>2, <3>3, <3>4
    <3>6. Delivered(q, longer, seen)
      BY <3>1, <3>2, <3>5 DEF Delivered
    <3> QED BY <3>6 DEF longer
  <2>10. Runs(y.clock, account.position, book)
    <3> HIDE DEF account, book, y
    <3>1. account.position \in Nat
      BY <2>8 DEF Balanced
    <3> QED BY <2>5, <3>1, ClockFollows
  <2> HIDE DEF y, book, account, q, e
  <2>11. Sound(y, seen) /\ Len(y.orders) = Len(x.orders)
    BY <2>5, <2>6, <2>7, <2>8, <2>9, <2>10 DEF Sound
  <2> QED BY <2>11 DEF y
<1> QED BY <1>3, <1>4

\* One order of the pass.  What the pass cancels without touching the clock is an
\* order without trigger, which no stop is, or one that finds nothing to reduce.
LEMMA OrderSound ==
  ASSUME NEW x, NEW seen, Sound(x, seen), NEW i \in DOMAIN x.orders,
         NEW price \in Int, NEW time \in Nat, NEW duplicated
  PROVE  /\ Sound(ProcessOrder(x, i, price, time, duplicated), seen)
         /\ Len(ProcessOrder(x, i, price, time, duplicated).orders) = Len(x.orders)
<1> DEFINE o == x.orders[i]
           y == ProcessOrder(x, i, price, time, duplicated)
<1>1. o \in SimOrders
  BY DEF Sound
<1>2. CASE o.status \notin Active \/ time < o.created + FillDelay
  BY <1>2 DEF ProcessOrder
<1>3. CASE ~(o.status \notin Active \/ time < o.created + FillDelay) /\ Eligible(o.req, price)
  <2> DEFINE twice == o.req.link \in duplicated
  <2>1. y = FillOrder(x, i, price, time, twice)
    BY <1>3 DEF ProcessOrder
  <2>2. twice \in BOOLEAN /\ x.orders[i].status \in Active
    BY <1>3
  <2> HIDE DEF twice, y
  <2>3. /\ Sound(FillOrder(x, i, price, time, twice), seen)
        /\ Len(FillOrder(x, i, price, time, twice).orders) = Len(x.orders)
    BY <2>2, FillSound
  <2> QED BY <2>1, <2>3 DEF y
<1>4. CASE ~(o.status \notin Active \/ time < o.created + FillDelay) /\ ~Eligible(o.req, price)
  <2>1. y = IF o.req.ioc /\ o.req.trigger = Unset THEN WithCancelled(x, i) ELSE x
    BY <1>4 DEF ProcessOrder
  <2>2. o.req.trigger = Unset => o.req.link[2] # "STOP"
    BY <1>1, OrderTypes DEF WellMade
  <2> QED BY <1>4, <2>1, <2>2, CancelSound
<1> QED BY <1>2, <1>3, <1>4

IsPass(g, x, n, price, time, duplicated) ==
  g = [i \in 0..n |-> IF i = 0 THEN x ELSE ProcessOrder(g[i - 1], i, price, time, duplicated)]

LEMMA PassExists ==
  ASSUME NEW x, NEW n \in Nat, NEW price, NEW time, NEW dup
  PROVE  \E g : IsPass(g, x, n, price, time, dup)
<1> DEFINE Is(g, k) == IsPass(g, x, k, price, time, dup)
           Bad == {k \in Nat : ~\E g : Is(g, k)}
<1> SUFFICES ASSUME Bad # {} PROVE FALSE
  OBVIOUS
<1>1. Min(Bad) \in Bad /\ \A k \in Bad : Min(Bad) <= k
  <2>1. Bad \in SUBSET Nat
    OBVIOUS
  <2> HIDE DEF Bad
  <2> QED BY <2>1, LeastElement
<1> DEFINE m == Min(Bad)
<1> HIDE DEF Bad, m
<1>2. m \in Bad /\ \A k \in Bad : m <= k
  BY <1>1 DEF m
<1>3. m \in Nat /\ ~\E g : Is(g, m)
  BY <1>2 DEF Bad
<1>4. CASE m = 0
  <2> DEFINE g == [i \in 0..0 |-> x]
  <2>1. g = [i \in 0..0 |-> IF i = 0 THEN x ELSE ProcessOrder(g[i - 1], i, price, time, dup)]
    OBVIOUS
  <2>2. Is(g, 0)
    BY <2>1 DEF IsPass
  <2> QED BY <1>3, <1>4, <2>2
<1>5. CASE m # 0
  <2>1. m - 1 \in Nat /\ m - 1 \notin Bad
    BY <1>2, <1>3, <1>5
  <2>2. PICK h : Is(h, m - 1)
    BY <2>1 DEF Bad
  <2> DEFINE g == [i \in 0..m |-> IF i = m THEN ProcessOrder(h[m - 1], m, price, time, dup) ELSE h[i]]
  <2>3. ASSUME NEW i \in 0..m
        PROVE  g[i] = IF i = 0 THEN x ELSE ProcessOrder(g[i - 1], i, price, time, dup)
    <3>1. CASE i = m
      <4>1. g[i] = ProcessOrder(h[m - 1], m, price, time, dup) /\ g[i - 1] = h[i - 1] /\ i # 0
        BY <1>3, <1>5, <3>1
      <4> QED BY <3>1, <4>1
    <3>2. CASE i # m
      <4>1. i \in 0..m - 1 /\ g[i] = h[i] /\ (i # 0 => g[i - 1] = h[i - 1])
        BY <1>3, <3>2
      <4>2. h[i] = IF i = 0 THEN x ELSE ProcessOrder(h[i - 1], i, price, time, dup)
        BY <2>2, <4>1 DEF IsPass
      <4> QED BY <4>1, <4>2
    <3> QED BY <3>1, <3>2
  <2>4. Is(g, m)
    <3>1. g = [i \in 0..m |-> g[i]]
      OBVIOUS
    <3> HIDE DEF g
    <3> QED BY <2>3, <3>1 DEF IsPass
  <2> QED BY <1>3, <2>4
<1> QED BY <1>4, <1>5

LEMMA PassSound ==
  ASSUME NEW x, NEW seen, Sound(x, seen), NEW price \in Int, NEW time \in Nat, NEW dup
  PROVE  Sound(ProcessOrders(x, price, time, dup), seen)
<1> DEFINE n == Len(x.orders)
           g == CHOOSE g : IsPass(g, x, n, price, time, dup)
           Good == {i \in 0..n : Sound(g[i], seen) /\ Len(g[i].orders) = n}
<1>1. n \in Nat
  BY DEF Sound
<1>2. IsPass(g, x, n, price, time, dup)
  <2> HIDE DEF n
  <2> QED BY <1>1, PassExists
<1>3. ProcessOrders(x, price, time, dup) = g[n]
  BY DEF ProcessOrders, IsPass
<1> HIDE DEF g
<1>4. 0 \in Good
  BY <1>1, <1>2 DEF IsPass
<1>5. ASSUME NEW i \in 1..n, i - 1 \in Good PROVE i \in Good
  <2> DEFINE z == g[i - 1]
  <2>1. Sound(z, seen) /\ Len(z.orders) = n
    BY <1>5
  <2>2. i \in DOMAIN z.orders
    BY <1>1, <2>1 DEF Sound
  <2>3. g[i] = ProcessOrder(z, i, price, time, dup)
    BY <1>1, <1>2 DEF IsPass
  <2> HIDE DEF z, n
  <2>4. Sound(g[i], seen) /\ Len(g[i].orders) = n
    BY <2>1, <2>2, <2>3, OrderSound
  <2> QED BY <1>1, <2>4
<1>6. \A i \in 0..n : i \in Good
  <2> HIDE DEF Good, n
  <2> QED BY <1>1, <1>4, <1>5, CountingUp
<1>7. n \in 0..n
  BY <1>1
<1> QED BY <1>3, <1>6, <1>7

-----------------------------------------------------------------------------
(* The actions *)

SimInv ==
  /\ now \in Nat /\ market \in Nat
  /\ fundings \in Seq(Int) /\ funding = SumFunction(fundings)
  /\ Sound(Exchange, received)

\* What a step leaves in the place of the exchange's state.
LEMMA InstallSound ==
  ASSUME NEW x, NEW seen, Sound(x, seen), Install(x), received' = seen
  PROVE  Sound(Exchange, received)'
<1>1. /\ Exchange'.orders = x.orders /\ Exchange'.execs = x.execs /\ Exchange'.queue = x.queue
      /\ Exchange'.clock.since = x.clock.since /\ IsExchange(Exchange')
      /\ Exchange'.account.position = x.account.position /\ Exchange'.account.basis = x.account.basis
      /\ Exchange'.account.realized = x.account.realized /\ Exchange'.account.fees = x.account.fees
  BY DEF Install, Exchange, IsExchange
<1>2. Image(Exchange'.account) = Image(x.account)
  BY <1>1 DEF Image
<1>3. Balanced(Exchange'.account, x.execs)
  BY <1>1, <1>2 DEF Balanced, Sound
<1>4. Runs(Exchange'.clock, x.account.position, x.orders)
  BY <1>1 DEF Sound, Runs
<1>5. Sound(Exchange', seen)
  <2> HIDE DEF Exchange
  <2> QED BY <1>1, <1>3, <1>4 DEF Sound
<1> QED BY <1>5

\* The passage of time, from a sound state.
LEMMA AdvanceSound ==
  ASSUME NEW x, Sound(x, received), NEW elapsed \in Nat, NEW price \in Nat, NEW dup, now \in Nat,
         AdvanceTime(x, elapsed, price, dup), UNCHANGED received
  PROVE  Sound(Exchange, received)' /\ now' \in Nat
<1> DEFINE time == now + elapsed
           y == [x EXCEPT !.clock = [since |-> x.clock.since, worst |-> CurrentMaximum(x.clock, time)]]
           z == ProcessOrders(y, price, time, dup)
<1>1. now' = time /\ time \in Nat /\ Install(z)
  BY DEF AdvanceTime
<1>2. Sound(y, received)
  <2>1. IsExchange(x)
    BY DEF Sound
  <2>2. /\ IsExchange(y) /\ y.orders = x.orders /\ y.execs = x.execs /\ y.queue = x.queue
        /\ y.account = x.account /\ y.clock.since = x.clock.since
    BY <2>1 DEF IsExchange
  <2> HIDE DEF y
  <2> QED BY <2>2 DEF Sound, Runs
<1>3. Sound(z, received)
  <2> HIDE DEF y, time
  <2> QED BY <1>1, <1>2, PassSound
<1> HIDE DEF z, time
<1>4. Sound(Exchange, received)'
  BY <1>1, <1>3, InstallSound
<1> QED BY <1>1, <1>4

\* Other orders, with the clock updated: the rest of the state is as it was.
LEMMA OrdersSound ==
  ASSUME SimInv, NEW book \in Seq(SimOrders)
  PROVE  Sound(WithOrders(book), received)
<1> DEFINE x == WithOrders(book)
           clock == UpdateProtectionState(Exchange.clock, position, book, now)
<1>1. Sound(Exchange, received) /\ now \in Nat
  BY DEF SimInv
<1>2. /\ IsExchange(x) /\ x.orders = book /\ x.execs = Exchange.execs /\ x.queue = Exchange.queue
      /\ x.account = Exchange.account /\ x.clock = clock
  <2>1. x = [Exchange EXCEPT !.orders = book, !.clock = clock]
    BY DEF WithOrders
  <2>2. IsExchange(Exchange)
    BY <1>1 DEF Sound
  <2> HIDE DEF x, clock, Exchange
  <2>3. /\ x.orders = book /\ x.execs = Exchange.execs /\ x.queue = Exchange.queue
        /\ x.account = Exchange.account /\ x.clock = clock /\ x.slippage = Exchange.slippage
        /\ x.counts = Exchange.counts
    BY <2>1, <2>2 DEF IsExchange
  <2>4. x = [orders |-> book, execs |-> Exchange.execs, queue |-> Exchange.queue,
             account |-> Exchange.account, slippage |-> Exchange.slippage,
             counts |-> Exchange.counts, clock |-> clock]
    BY <2>1, <2>2 DEF IsExchange
  <2> QED BY <2>3, <2>4 DEF IsExchange
<1>3. x.account.position = position /\ position \in Nat
  BY <1>1, <1>2 DEF Sound, Balanced, Exchange
<1>4. Runs(clock, position, book)
  BY <1>1, <1>3, ClockFollows
<1> HIDE DEF x, clock
<1>5. Sound(x, received)
  <2> HIDE DEF Exchange
  <2> QED BY <1>1, <1>2, <1>3, <1>4 DEF Sound
<1> QED BY <1>5 DEF x

\* The orders of a book, those of some links cancelled.
LEMMA CancelledBook ==
  ASSUME NEW book \in Seq(SimOrders), NEW links
  PROVE  CancelLinked(book, links) \in Seq(SimOrders)
<1> DEFINE n == Len(book)
           after(o) == IF o.req.link \in links /\ o.status \in Active
                       THEN [o EXCEPT !.status = "Cancelled"] ELSE o
<1>1. n \in Nat /\ DOMAIN book = 1..n /\ \A i \in 1..n : book[i] \in SimOrders
  OBVIOUS
<1>2. \A o \in SimOrders : after(o) \in SimOrders
  BY CancelledOrder
<1>3. CancelLinked(book, links) = [i \in 1..n |-> after(book[i])]
  BY <1>1 DEF CancelLinked
<1> HIDE DEF after, n
<1>4. [i \in 1..n |-> after(book[i])] \in [1..n -> SimOrders]
  BY <1>1, <1>2
<1>5. \A f \in [1..n -> SimOrders] : f \in Seq(SimOrders)
  BY <1>1, SeqDef
<1> QED BY <1>3, <1>4, <1>5

\* A state whose exchange part did not change, but for its counters.
LEMMA StaysSound ==
  ASSUME SimInv,
         UNCHANGED <<orders, execs, queue, position, basis, realized, fees,
                     unprotectedSince, received>>
  PROVE  Sound(Exchange, received)'
<1>1. Sound(Exchange, received)
  BY DEF SimInv
<1>2. /\ Exchange'.orders = Exchange.orders /\ Exchange'.execs = Exchange.execs
      /\ Exchange'.queue = Exchange.queue /\ Exchange'.account = Exchange.account
      /\ Exchange'.clock.since = Exchange.clock.since /\ IsExchange(Exchange')
  BY DEF Exchange, IsExchange
<1>3. Sound(Exchange', received)
  <2> HIDE DEF Exchange
  <2> QED BY <1>1, <1>2 DEF Sound, Runs
<1> QED BY <1>3

LEMMA PlaceRejectedInv == ASSUME SimInv, NEW link \in LevelLinks, PlaceOrderRejected(link) PROVE SimInv'
<1>1. UNCHANGED <<orders, execs, queue, position, basis, realized, fees, unprotectedSince, received,
                  now, market, fundings, funding>>
  BY DEF PlaceOrderRejected, marketVars, clientVars
<1>2. Sound(Exchange, received)'
  BY <1>1, StaysSound
<1> QED BY <1>1, <1>2 DEF SimInv

LEMMA PlaceInv ==
  ASSUME SimInv, NEW link \in LevelLinks, NEW planned \in BOOLEAN, NEW dup, PlaceOrder(link, planned, dup)
  PROVE  SimInv'
<1> DEFINE qty == RequestQuantity(link)
           order == [req |-> PlaceOrderRequest(link, qty),
                  status |-> IF link[2] = "STOP" THEN "Untriggered" ELSE "New",
                  filled |-> 0,
                  created |-> now,
                  partial |-> IF planned THEN "planned" ELSE "no"]
           x == WithOrders(Append(orders, order))
<1>1. orders \in Seq(SimOrders) /\ now \in Nat /\ position \in Nat /\ market \in Nat
  BY DEF SimInv, Sound, Balanced, Exchange
<1>2. qty \in Nat /\ qty > 0
  <2>1. \A l : HasOrder(l) => OrderOf(l) \in DOMAIN orders
    BY DEF HasOrder, OrderOf
  <2>2. \A i \in DOMAIN orders : orders[i].filled \in Nat
    BY <1>1, OrderTypes
  <2>3. qty \in Nat
    BY <1>1, <2>1, <2>2, SimConstants DEF RequestQuantity
  <2>4. qty > (IF planned THEN 1 ELSE 0)
    BY DEF PlaceOrder
  <2> QED BY <2>3, <2>4
<1>3. order \in SimOrders
  <2> DEFINE req == PlaceOrderRequest(link, qty)
  <2> HIDE DEF qty
  <2>1. req \in Requests /\ WellMade(req) /\ req.qty = qty
    <3>1. req = [link |-> link, qty |-> qty, side |-> IF link[2] = "ENTRY" THEN "Sell" ELSE "Buy",
                 type |-> IF link[2] = "TP" THEN "Limit" ELSE "Market", reduce |-> link[2] # "ENTRY",
                 ioc |-> link[2] # "TP", trigger |-> IF link[2] = "STOP" THEN StopAt ELSE Unset,
                 price |-> IF link[2] = "TP" THEN TakeAt ELSE Unset]
      BY DEF PlaceOrderRequest
    <3> HIDE DEF req
    <3>2. /\ req.link = link /\ req.qty = qty /\ req.side = (IF link[2] = "ENTRY" THEN "Sell" ELSE "Buy")
          /\ (req.reduce <=> link[2] # "ENTRY") /\ (link[2] = "STOP" => req.trigger = StopAt)
      BY <3>1
    <3>3. WellMade(req)
      BY <3>2, SimConstants DEF WellMade, Unset
    <3>4. req \in Requests
      <4>1. StopAt \in Int /\ TakeAt \in Int /\ Unset \in Int
        BY SimConstants DEF Unset
      <4>2. qty \in Nat \ {0}
        BY <1>2
      <4> QED BY <3>1, <4>1, <4>2 DEF Requests
    <3> QED BY <3>2, <3>3, <3>4
  <2> HIDE DEF req
  <2>2. order = [req |-> req, status |-> IF link[2] = "STOP" THEN "Untriggered" ELSE "New",
                  filled |-> 0, created |-> now, partial |-> IF planned THEN "planned" ELSE "no"]
    BY DEF req
  <2> QED BY <1>1, <1>2, <2>1, <2>2 DEF SimOrders, Active
<1>4. AdvanceTime(x, AckDelay, market, dup) /\ UNCHANGED <<market, received, fundings, funding>>
  BY DEF PlaceOrder, clientVars
<1>5. Sound(x, received)
  <2> HIDE DEF order
  <2>1. Append(orders, order) \in Seq(SimOrders)
    BY <1>1, <1>3
  <2> QED BY <2>1, OrdersSound
<1> HIDE DEF x
<1>6. Sound(Exchange, received)' /\ now' \in Nat
  BY <1>1, <1>4, <1>5, SimConstants, AdvanceSound
<1> QED BY <1>4, <1>6 DEF SimInv

LEMMA CancelOrdersInv ==
  ASSUME SimInv, NEW links, Install(WithOrders(CancelLinked(orders, links))),
         UNCHANGED <<marketVars, clientVars, fundings, funding>>
  PROVE  SimInv'
<1>1. orders \in Seq(SimOrders)
  BY DEF SimInv, Sound, Exchange
<1>2. Sound(WithOrders(CancelLinked(orders, links)), received)
  BY <1>1, CancelledBook, OrdersSound
<1>3. Sound(Exchange, received)'
  BY <1>2, InstallSound DEF clientVars
<1> QED BY <1>3 DEF SimInv, marketVars, clientVars

LEMMA AmendInv == ASSUME SimInv, NEW level \in Levels, AmendOrder(level) PROVE SimInv'
<1> DEFINE i == OrderOf(<<level, "TP">>)
           o == orders[i]
           req == [o.req EXCEPT !.price = AmendedTo]
           amended == [o EXCEPT !.req = req]
<1>1. orders \in Seq(SimOrders) /\ Sound(Exchange, received)
  BY DEF SimInv, Sound, Exchange
<1>2. i \in DOMAIN orders
  BY DEF AmendOrder, HasOrder, OrderOf
<1>3. o \in SimOrders
  BY <1>1, <1>2
<1>4. amended \in SimOrders /\ amended.status = o.status /\ amended.req.link = o.req.link
  <2> HIDE DEF o
  <2>1. o.req \in Requests /\ WellMade(o.req)
    BY <1>3, OrderTypes
  <2>2. req \in Requests /\ WellMade(req) /\ req.qty = o.req.qty /\ req.link = o.req.link
    BY <2>1, SimConstants DEF Requests, WellMade
  <2> HIDE DEF req
  <2> QED BY <1>3, <2>2 DEF SimOrders
<1>5. /\ orders' = [orders EXCEPT ![i] = amended]
      /\ UNCHANGED <<execs, queue, position, basis, realized, fees, unprotectedSince, received,
                     now, market, fundings, funding>>
  BY <1>1, <1>2, <1>3 DEF AmendOrder, marketVars, clientVars, SimOrders, Requests
<1> HIDE DEF amended, o, i
<1>6. orders' \in Seq(SimOrders) /\ DOMAIN orders' = DOMAIN orders
  BY <1>1, <1>2, <1>4, <1>5
<1>7. \A j \in DOMAIN orders : orders'[j].status = orders[j].status /\ orders'[j].req.link = orders[j].req.link
  BY <1>1, <1>2, <1>4, <1>5 DEF o
<1>8. HasActiveStop(orders') <=> HasActiveStop(orders)
  BY <1>6, <1>7 DEF HasActiveStop
<1>9. /\ Exchange'.orders = orders' /\ Exchange'.execs = Exchange.execs
      /\ Exchange'.queue = Exchange.queue /\ Exchange'.account = Exchange.account
      /\ Exchange'.clock.since = Exchange.clock.since /\ IsExchange(Exchange')
      /\ Exchange.orders = orders
  BY <1>5 DEF Exchange, IsExchange
<1>10. Sound(Exchange', received)
  <2> HIDE DEF Exchange
  <2> QED BY <1>1, <1>6, <1>8, <1>9 DEF Sound, Runs
<1> QED BY <1>5, <1>10 DEF SimInv

LEMMA TimeInv ==
  ASSUME SimInv, NEW price \in Nat, NEW dup, AdvanceTime(Exchange, 1, price, dup), market' \in Nat,
         UNCHANGED <<clientVars, fundings, funding>>
  PROVE  SimInv'
<1>1. Sound(Exchange, received)' /\ now' \in Nat
  BY AdvanceSound DEF SimInv, clientVars
<1> QED BY <1>1 DEF SimInv, clientVars

LEMMA ConnectionInv == ASSUME SimInv, SetPrivateConnected PROVE SimInv'
<1>1. UNCHANGED <<orders, execs, queue, position, basis, realized, fees, unprotectedSince, received,
                  now, market, fundings, funding>>
  BY DEF SetPrivateConnected, marketVars, exchangeVars
<1>2. Sound(Exchange, received)'
  BY <1>1, StaysSound
<1> QED BY <1>1, <1>2 DEF SimInv

LEMMA DrainInv == ASSUME SimInv, DrainExecutionEvents PROVE SimInv'
<1>1. Sound(Exchange, received)
  BY DEF SimInv
<1>2. /\ received' = received \cup ToSet(queue) /\ queue' = <<>>
      /\ UNCHANGED <<orders, execs, position, basis, realized, fees, unprotectedSince,
                     now, market, fundings, funding>>
  BY DEF DrainExecutionEvents, marketVars
<1>3. Delivered(queue', execs, received')
  <2>1. ToSet(<<>>) = {} /\ <<>> \in Seq(Nat)
    BY DEF ToSet
  <2>2. Delivered(queue, execs, received)
    BY <1>1 DEF Sound, Exchange
  <2> QED BY <1>2, <2>1, <2>2 DEF Delivered
<1>4. /\ Exchange'.orders = Exchange.orders /\ Exchange'.execs = execs /\ Exchange.execs = execs
      /\ Exchange'.queue = queue' /\ Exchange'.account = Exchange.account
      /\ Exchange'.clock.since = Exchange.clock.since /\ IsExchange(Exchange')
  BY <1>2 DEF Exchange, IsExchange
<1>5. Sound(Exchange', received')
  <2> HIDE DEF Exchange
  <2> QED BY <1>1, <1>3, <1>4 DEF Sound, Runs
<1> QED BY <1>2, <1>5 DEF SimInv

LEMMA FundingInv == ASSUME SimInv, ApplyFunding PROVE SimInv'
<1> DEFINE payment == position * market * FundingRate
           n == Len(fundings)
<1>1. UNCHANGED <<orders, execs, queue, position, basis, realized, fees, unprotectedSince, received,
                  now, market>>
  BY DEF ApplyFunding, marketVars, exchangeVars, clientVars
<1>2. position \in Nat /\ market \in Nat /\ fundings \in Seq(Int) /\ funding = SumFunction(fundings)
  BY DEF SimInv, Sound, Balanced, Exchange
<1>3. payment \in Int
  BY <1>2, SimConstants
<1>4. fundings' = Append(fundings, payment) /\ funding' = funding + payment
  BY DEF ApplyFunding
<1> HIDE DEF payment
<1>5. /\ n \in Nat /\ DOMAIN fundings = 1..n /\ DOMAIN fundings' = 1..(n + 1) /\ fundings' \in Seq(Int)
      /\ (\A i \in 1..n : fundings[i] \in Int /\ fundings'[i] = fundings[i]) /\ fundings'[n + 1] = payment
  BY <1>2, <1>3, <1>4
<1> HIDE DEF n
<1>6. Sum(fundings', 1..(n + 1)) = Sum(fundings, 1..n) + payment
  BY <1>3, <1>5, SumAppend
<1>7. SumFunction(fundings') = SumFunction(fundings) + payment
  BY <1>5, <1>6 DEF SumFunction, Sum
<1>8. Sound(Exchange, received)'
  BY <1>1, StaysSound
<1> QED BY <1>1, <1>2, <1>4, <1>5, <1>7, <1>8 DEF SimInv

LEMMA SimInitInv == SimInit => SimInv
<1> SUFFICES ASSUME SimInit PROVE SimInv
  OBVIOUS
<1>1. /\ orders = <<>> /\ execs = <<>> /\ queue = <<>> /\ received = {} /\ fundings = <<>> /\ funding = 0
      /\ position = 0 /\ basis = 0 /\ realized = 0 /\ unprotectedSince = Unset
      /\ fees = [entry |-> 0, exit |-> 0, tp |-> 0, stop |-> 0] /\ now \in Nat /\ market \in Nat
  BY SimConstants DEF SimInit
<1>2. /\ <<>> \in Seq(SimOrders) /\ <<>> \in Seq(Executed) /\ <<>> \in Seq(Nat) /\ <<>> \in Seq(Int)
      /\ Len(<<>>) = 0 /\ DOMAIN <<>> = {}
  OBVIOUS
<1>3. ToSet(<<>>) = {}
  BY DEF ToSet
<1>4. SumFunction(<<>>) = 0 /\ SumFunction(PositionFlow(<<>>)) = 0 /\ SumFunction(CashFlow(<<>>)) = 0
  <2>1. DOMAIN PositionFlow(<<>>) = {} /\ DOMAIN CashFlow(<<>>) = {}
    BY <1>2 DEF PositionFlow, CashFlow
  <2> QED BY <1>2, <2>1, SumEmpty DEF SumFunction, Sum
<1>5. Replayed(<<>>) = NothingReplayed
  <2>1. PICK g : Replays(g, <<>>, Len(<<>>)) /\ Replayed(<<>>) = g[Len(<<>>)]
    BY <1>2, ReplayedIs
  <2> QED BY <1>2, <2>1 DEF Replays
<1> DEFINE a == Exchange.account
<1>6. /\ IsExchange(Exchange) /\ Exchange.orders = <<>> /\ Exchange.execs = <<>> /\ Exchange.queue = <<>>
      /\ Exchange.clock.since = Unset /\ a.position = 0 /\ a.basis = 0 /\ a.realized = 0
      /\ a.fees = [entry |-> 0, exit |-> 0, tp |-> 0, stop |-> 0]
  BY <1>1 DEF Exchange, IsExchange
<1> HIDE DEF a
<1>7. Balanced(a, <<>>)
  <2>1. a.fees \in Fees /\ a.fees.entry = 0 /\ a.fees.exit = 0
    BY <1>6 DEF Fees
  <2>2. Image(a) = NothingReplayed
    BY <1>6 DEF Image, NothingReplayed
  <2> QED BY <1>4, <1>5, <1>6, <2>1, <2>2 DEF Balanced, Scale
<1>8. Delivered(<<>>, <<>>, {}) /\ Runs(Exchange.clock, a.position, <<>>)
  BY <1>2, <1>3, <1>6 DEF Delivered, Runs
<1>9. Sound(Exchange, received)
  <2> HIDE DEF Exchange
  <2> QED BY <1>1, <1>2, <1>6, <1>7, <1>8 DEF Sound, a
<1> QED BY <1>1, <1>2, <1>4, <1>9 DEF SimInv

LEMMA SimStepInv == SimInv /\ [SimNext]_simVars => SimInv'
<1> SUFFICES ASSUME SimInv, [SimNext]_simVars PROVE SimInv'
  OBVIOUS
<1>1. ASSUME NEW link \in LevelLinks, PlaceOrderRejected(link) PROVE SimInv'
  BY <1>1, PlaceRejectedInv
<1>2. ASSUME NEW link \in LevelLinks, NEW planned \in BOOLEAN, NEW dup, PlaceOrder(link, planned, dup)
      PROVE  SimInv'
  BY <1>2, PlaceInv
<1>3. ASSUME NEW link \in LevelLinks, CancelOrder(link) PROVE SimInv'
  BY <1>3, CancelOrdersInv DEF CancelOrder
<1>4. ASSUME NEW level \in Levels, AmendOrder(level) PROVE SimInv'
  BY <1>4, AmendInv
<1>5. ASSUME CancelAll PROVE SimInv'
  BY <1>5, CancelOrdersInv DEF CancelAll
<1>6. ASSUME NEW dup, Wait(dup) PROVE SimInv'
  BY <1>6, TimeInv DEF Wait, SimInv
<1>7. ASSUME NEW dup, NEW price \in Prices, AdvanceMarket(price, dup) PROVE SimInv'
  BY <1>7, TimeInv, SimConstants DEF AdvanceMarket
<1>8. ASSUME SetPrivateConnected PROVE SimInv'
  BY <1>8, ConnectionInv
<1>9. ASSUME DrainExecutionEvents PROVE SimInv'
  BY <1>9, DrainInv
<1>10. ASSUME ApplyFunding PROVE SimInv'
  BY <1>10, FundingInv
<1>11. ASSUME UNCHANGED simVars PROVE SimInv'
  <2>1. UNCHANGED <<orders, execs, queue, position, basis, realized, fees, unprotectedSince, received,
                    now, market, fundings, funding>>
    BY <1>11 DEF simVars, exchangeVars, marketVars, clientVars
  <2>2. Sound(Exchange, received)'
    BY <2>1, StaysSound
  <2> QED BY <2>1, <2>2 DEF SimInv
<1> QED BY <1>1, <1>2, <1>3, <1>4, <1>5, <1>6, <1>7, <1>8, <1>9, <1>10, <1>11 DEF SimNext

LEMMA SimInvHolds == SimSpec => []SimInv
BY SimInitInv, SimStepInv, PTL DEF SimSpec

\* Every execution is in the queue of the private stream or was drained by its
\* reader, and none is both, through disconnects, duplicates and drains.
THEOREM EveryExecutionReachesReader == SimSpec => []ExecutionsReachReader
<1>1. SimInv => ExecutionsReachReader
  BY DEF SimInv, Sound, Delivered, Exchange, ExecutionsReachReader
<1> QED BY <1>1, SimInvHolds, PTL

\* The clock behind maximum_unprotected_ms runs exactly while a position is open
\* without an active stop.
THEOREM ClockMeasuresExposure == SimSpec => []UnprotectedClockRuns
<1>1. SimInv => UnprotectedClockRuns
  BY DEF SimInv, Sound, Runs, Exchange, UnprotectedClockRuns
<1> QED BY <1>1, SimInvHolds, PTL

\* The position, the wallet and the replay of the ledger agree.
THEOREM BooksAlwaysBalance == SimSpec => []BooksBalance
<1>1. ASSUME SimInv PROVE BooksBalance
  <2>1. /\ orders \in Seq(SimOrders) /\ execs \in Seq(Executed) /\ funding = SumFunction(fundings)
        /\ fundings \in Seq(Int)
    BY <1>1 DEF SimInv, Sound, Exchange
  <2>2. /\ position \in Nat /\ basis \in Int /\ realized \in Int /\ fees \in Fees
        /\ position = SumFunction(PositionFlow(execs))
        /\ realized - Scale * (fees.entry + fees.exit) = Scale * SumFunction(CashFlow(execs)) - basis
        /\ Replayed(execs) = Image(Exchange.account)
    BY <1>1 DEF SimInv, Sound, Balanced, Exchange
  <2>3. PositionIsNet
    <3>1. \A i \in DOMAIN orders : orders[i] \in SimOrders
      BY <2>1
    <3> QED BY <2>2, <3>1, OrderTypes DEF PositionIsNet
  <2>4. EquityIsCash
    <3> DEFINE c == SumFunction(CashFlow(execs))
    <3>1. c \in Int
      BY <2>1, CashIsWhole
    <3>2. funding \in Int
      BY <2>1, FundingIsWhole
    <3>3. fees.entry \in Int /\ fees.exit \in Int
      BY <2>2 DEF Fees
    <3> HIDE DEF c
    <3>4. realized - Scale * (fees.entry + fees.exit) = Scale * c - basis
      BY <2>2 DEF c
    <3>5. realized + Scale * (funding - fees.entry - fees.exit) = Scale * (c + funding) - basis
      <4> DEFINE f == fees.entry
                 g == fees.exit
      <4>1. f \in Int /\ g \in Int /\ realized - Scale * (f + g) = Scale * c - basis
        BY <3>3, <3>4
      <4>2. realized + Scale * (funding - f - g) = Scale * (c + funding) - basis
        <5> HIDE DEF f, g
        <5> QED BY <2>2, <3>1, <3>2, <4>1 DEF Scale
      <4> QED BY <4>2
    <3> QED BY <3>5 DEF c, EquityIsCash, WalletEquity, NetHedgePnl
  <2>5. ReplayRebuildsGross
    <3>1. Image(Exchange.account) = [position |-> position, basis |-> basis, gross |-> realized,
                                     entry |-> fees.entry, tp |-> fees.tp, stop |-> fees.stop]
      BY DEF Image, Exchange
    <3> QED BY <2>1, <2>2, <3>1 DEF ReplayRebuildsGross, ReplayedFunding
  <2> QED BY <2>3, <2>4, <2>5 DEF BooksBalance
<1> QED BY <1>1, SimInvHolds, PTL
=============================================================================
