-------------------------- MODULE RecoveryDebtProofs --------------------------
(***************************************************************************)
(* Recovery debt stays balanced and counts every loss once, for any number *)
(* of levels, any losses and profits, and crashes between any two steps.   *)
(*                                                                         *)
(* LossCountsOnce is not inductive: whether the loss of a recovery is      *)
(* already in the debt is not stored anywhere.  The invariant recovers it  *)
(* from the allocation: while debt is allocated, only the baseline's loss  *)
(* is in it, and a level allocates once in its life, before its recovery   *)
(* has a snapshot.  RollInv, on top of it, follows the debt to the amount: *)
(* the loss of the baseline while it is allocated, both losses once the    *)
(* stop of the recovery is rolled.                                         *)
(***************************************************************************)
EXTENDS RecoveryDebt, TLAPS

DebtRecords == [row : BOOLEAN, confirmed : Nat, allocated : Nat, remaining : Nat]
HedgeRecords == [state : HedgeStates, open : BOOLEAN, stopped : BOOLEAN, loss : 0 .. MaxLoss]

\* Only the baseline's loss is in the debt.
BaselineOnly(l) == debt[l].confirmed + paid[l] <= prot[Baseline(l)].loss

Allocations ==
  \A l \in Levels : debt[l].allocated > 0 => BaselineOnly(l) /\ Recovery(l) \in intents

\* Nothing exists of a hedge without an intent, or of a level without a baseline.
Untouched ==
  /\ \A h \in Hedges : h \notin intents => prot[h] = NoHedge
  /\ \A l \in Levels : Baseline(l) \notin intents =>
       debt[l] = NoDebt /\ paid[l] = 0 /\ Recovery(l) \notin intents
  /\ \A l \in Levels : ~debt[l].row => debt[l] = NoDebt /\ paid[l] = 0

BeforeDebt == {"baseline", "protect_baseline", "baseline_exit", "record"}
BeforeAllocation == {"plan", "persist", "allocate"}
BeforeRecovery == {"submit", "protect_recovery", "release"}
DuringRecovery == {"recovery_exit", "stop_debt", "settle"}

\* How far the level of the running cycle has come.
Progress ==
  /\ pc \in BeforeDebt => debt[level] = NoDebt /\ paid[level] = 0
  /\ pc \in {"baseline", "protect_baseline"} => prot[Baseline(level)] = NoHedge
  /\ pc = "baseline" => Baseline(level) \notin intents
  /\ pc \in InCycle \ {"baseline"} => Baseline(level) \in intents
  /\ pc \in BeforeDebt \cup BeforeAllocation \cup BeforeRecovery =>
       prot[Recovery(level)] = NoHedge
  /\ pc \in BeforeAllocation => debt[level].allocated = 0
  /\ pc \in {"allocate"} \cup BeforeRecovery \cup DuringRecovery => Recovery(level) \in intents
  /\ pc \in BeforeAllocation \cup BeforeRecovery \cup DuringRecovery =>
       BaselineOnly(level) /\ debt[level].row
  /\ pc = "settle" => prot[Recovery(level)].state = "CLOSED_TP"

\* How far the repair has come.
Repaired ==
  /\ pc = "repair" => \A h \in Hedges : NeedsRepair(h) => h \in todo
  /\ pc \in {"admit", "baseline"} => \A h \in Hedges : ~NeedsRepair(h)

Books == DebtIsBalanced /\ LossCountsOnce /\ Allocations /\ Untouched
DebtInv == TypeOK /\ Books /\ Progress /\ Repaired

-----------------------------------------------------------------------------
(* The operators of live_recovery *)

\* Every operator keeps the record well formed and balanced; the amounts after it.
LEMMA AddFacts ==
  ASSUME NEW d \in DebtRecords, NEW x \in Nat, d.confirmed = d.allocated + d.remaining,
         NEW e, e = AddConfirmedStopDebt(d, x)
  PROVE  /\ e \in DebtRecords /\ e.row /\ e.confirmed = d.confirmed + x
         /\ e.allocated = d.allocated /\ e.confirmed = e.allocated + e.remaining
<1>1. e = [row |-> TRUE, confirmed |-> d.confirmed + x,
           allocated |-> d.allocated, remaining |-> d.remaining + x]
  BY DEF AddConfirmedStopDebt, DebtRecords
<1>2. d.confirmed \in Nat /\ d.allocated \in Nat /\ d.remaining \in Nat /\ d.row \in BOOLEAN
  BY DEF DebtRecords
<1> QED BY <1>1, <1>2 DEF DebtRecords

\* Allocation moves what remains and keeps the total.
LEMMA AllocateFacts ==
  ASSUME NEW d \in DebtRecords, d.confirmed = d.allocated + d.remaining, d.allocated = 0,
         NEW e, e = AllocateConfirmedDebt(d)
  PROVE  /\ e \in DebtRecords /\ e.row = d.row /\ e.confirmed = d.confirmed
         /\ e.confirmed = e.allocated + e.remaining
<1>1. e = [row |-> d.row, confirmed |-> d.confirmed,
           allocated |-> d.remaining, remaining |-> 0]
  BY DEF AllocateConfirmedDebt, DebtRecords
<1>2. d.confirmed \in Nat /\ d.allocated \in Nat /\ d.remaining \in Nat /\ d.row \in BOOLEAN
  BY DEF DebtRecords
<1> QED BY <1>1, <1>2 DEF DebtRecords

\* Release moves the allocation back and keeps the total.
LEMMA ReleaseFacts ==
  ASSUME NEW d \in DebtRecords, d.confirmed = d.allocated + d.remaining,
         NEW e, e = ReleaseAllocatedDebt(d)
  PROVE  /\ e \in DebtRecords /\ e.row = d.row /\ e.confirmed = d.confirmed
         /\ e.allocated = 0 /\ e.confirmed = e.allocated + e.remaining
<1>1. e = [row |-> d.row, confirmed |-> d.confirmed,
           allocated |-> 0, remaining |-> d.remaining + d.allocated]
  BY DEF ReleaseAllocatedDebt, DebtRecords
<1>2. d.confirmed \in Nat /\ d.allocated \in Nat /\ d.remaining \in Nat /\ d.row \in BOOLEAN
  BY DEF DebtRecords
<1> QED BY <1>1, <1>2 DEF DebtRecords

\* A take-profit pays at most what is allocated.
LEMMA PaidFacts ==
  ASSUME NEW d \in DebtRecords, NEW x \in Int
  PROVE  PaidBy(d, x) \in 0 .. d.allocated
  BY DebtConstants DEF PaidBy, DebtRecords

\* Settlement takes the payment out of the total and leaves nothing allocated.
LEMMA SettleFacts ==
  ASSUME NEW d \in DebtRecords, NEW x \in Int, d.confirmed = d.allocated + d.remaining,
         NEW e, e = SettleRecoveryTakeProfit(d, x)
  PROVE  /\ e \in DebtRecords /\ e.row = d.row /\ e.confirmed = d.confirmed - PaidBy(d, x)
         /\ e.allocated = 0 /\ e.confirmed = e.allocated + e.remaining
<1>1. e = [row |-> d.row, confirmed |-> d.confirmed - PaidBy(d, x), allocated |-> 0,
           remaining |-> d.remaining + (d.allocated - PaidBy(d, x))]
  BY DEF SettleRecoveryTakeProfit, DebtRecords
<1>2. d.confirmed \in Nat /\ d.allocated \in Nat /\ d.remaining \in Nat /\ d.row \in BOOLEAN
  BY DEF DebtRecords
<1>3. PaidBy(d, x) \in 0 .. d.allocated
  BY PaidFacts
<1> QED BY <1>1, <1>2, <1>3 DEF DebtRecords

-----------------------------------------------------------------------------
(* Frames: what a step that writes one table has to show *)

\* A step that writes the debt of one level.
LEMMA DebtStep ==
  ASSUME TypeOK, Books,
         NEW k \in Levels, NEW e \in DebtRecords, NEW p \in Nat,
         debt' = [debt EXCEPT ![k] = e], paid' = [paid EXCEPT ![k] = p],
         UNCHANGED <<intents, prot, closes>>,
         e.confirmed = e.allocated + e.remaining, e.row, Baseline(k) \in intents,
         e.confirmed + p <= prot[Baseline(k)].loss + prot[Recovery(k)].loss,
         e.allocated > 0 => /\ e.confirmed + p <= prot[Baseline(k)].loss
                            /\ Recovery(k) \in intents
  PROVE  Books' /\ debt' \in [Levels -> DebtRecords] /\ paid' \in [Levels -> Nat]
<1> USE DEF TypeOK, DebtRecords
<1>1. debt' \in [Levels -> DebtRecords] /\ paid' \in [Levels -> Nat]
  OBVIOUS
<1>2. \A l \in Levels : l # k => debt'[l] = debt[l] /\ paid'[l] = paid[l]
  OBVIOUS
<1>3. debt'[k] = e /\ paid'[k] = p
  OBVIOUS
<1>4. DebtIsBalanced'
  BY <1>2, <1>3 DEF Books, DebtIsBalanced
<1>5. LossCountsOnce'
  BY <1>2, <1>3 DEF Books, LossCountsOnce, Baseline, Recovery
<1>6. Allocations'
  BY <1>2, <1>3 DEF Books, Allocations, BaselineOnly, Baseline, Recovery
<1>7. Untouched'
  BY <1>2, <1>3 DEF Books, Untouched, Baseline, Recovery
<1> QED BY <1>1, <1>4, <1>5, <1>6, <1>7 DEF Books

\* A step that writes the snapshot of one hedge with an intent, its loss not falling.
LEMMA HedgeStep ==
  ASSUME TypeOK, Books,
         NEW h \in Hedges, NEW q \in HedgeRecords, h \in intents,
         prot' = [prot EXCEPT ![h] = q], prot[h].loss <= q.loss,
         UNCHANGED <<intents, closes, debt, paid>>
  PROVE  Books' /\ prot' \in [Hedges -> HedgeRecords]
<1> USE DEF TypeOK, HedgeRecords
<1>1. prot' \in [Hedges -> HedgeRecords]
  OBVIOUS
<1>2. \A g \in Hedges : prot[g].loss <= prot'[g].loss /\ prot'[g].loss \in Nat
  BY DebtConstants
<1>3. \A l \in Levels : Baseline(l) \in Hedges /\ Recovery(l) \in Hedges
  BY DEF Baseline, Recovery, Hedges
<1>4. DebtIsBalanced'
  BY DEF Books, DebtIsBalanced
<1>5. LossCountsOnce'
  <2> SUFFICES ASSUME NEW l \in Levels
               PROVE  debt[l].confirmed + paid[l]
                        <= prot'[Baseline(l)].loss + prot'[Recovery(l)].loss
    BY DEF LossCountsOnce, Baseline, Recovery
  <2>1. debt[l].confirmed + paid[l] <= prot[Baseline(l)].loss + prot[Recovery(l)].loss
    BY DEF Books, LossCountsOnce
  <2>2. prot[Baseline(l)].loss \in Nat /\ prot[Recovery(l)].loss \in Nat
    BY <1>3, DebtConstants
  <2>3. debt[l].confirmed \in Nat /\ paid[l] \in Nat
    OBVIOUS
  <2> HIDE DEF TypeOK, HedgeRecords
  <2> QED BY <1>2, <1>3, <2>1, <2>2, <2>3
<1>6. Allocations'
  <2> SUFFICES ASSUME NEW l \in Levels, debt[l].allocated > 0
               PROVE  debt[l].confirmed + paid[l] <= prot'[Baseline(l)].loss
                      /\ Recovery(l) \in intents
    BY DEF Allocations, BaselineOnly, Baseline, Recovery
  <2>1. debt[l].confirmed + paid[l] <= prot[Baseline(l)].loss /\ Recovery(l) \in intents
    BY DEF Books, Allocations, BaselineOnly
  <2>2. prot[Baseline(l)].loss \in Nat
    BY <1>3, DebtConstants
  <2>3. debt[l].confirmed \in Nat /\ paid[l] \in Nat
    OBVIOUS
  <2> HIDE DEF TypeOK, HedgeRecords
  <2> QED BY <1>2, <1>3, <2>1, <2>2, <2>3
<1>7. Untouched'
  BY DEF Books, Untouched, Baseline, Recovery
<1> QED BY <1>1, <1>4, <1>5, <1>6, <1>7 DEF Books

-----------------------------------------------------------------------------
(* Facts the steps share *)

\* The two hedges of a level are hedges, and no other level has them.
LEMMA HedgeNames ==
  /\ \A l \in Levels : /\ Baseline(l) \in Hedges /\ Recovery(l) \in Hedges
                       /\ Baseline(l)[1] = l /\ Recovery(l)[1] = l
                       /\ Baseline(l)[2] = 1 /\ Recovery(l)[2] = 2
  /\ \A k, l \in Levels : Baseline(k) # Recovery(l)
  /\ \A h \in Hedges : h[1] \in Levels /\ (h = Baseline(h[1]) \/ h = Recovery(h[1]))
  /\ \A h \in Hedges : h[2] = 2 => h = Recovery(h[1])
  BY DEF Baseline, Recovery, Hedges

\* There is a first level.
LEMMA FirstLevel == 1 \in Levels
  BY DebtConstants DEF Levels

\* A hedge that is not NoHedge has its intent, a debt that is not NoDebt its baseline.
LEMMA HaveIntent ==
  ASSUME TypeOK, Books
  PROVE  /\ \A h \in Hedges : prot[h].open => h \in intents
         /\ \A l \in Levels : debt[l].row => Baseline(l) \in intents
  BY DEF Books, Untouched, NoHedge, NoDebt

\* The amounts of a level are numbers.
LEMMA Amounts ==
  ASSUME TypeOK
  PROVE  /\ \A h \in Hedges : prot[h].loss \in Nat
         /\ \A l \in Levels : /\ debt[l] \in DebtRecords /\ paid[l] \in Nat
                              /\ debt[l].confirmed \in Nat /\ debt[l].allocated \in Nat
                              /\ debt[l].remaining \in Nat
  BY DebtConstants DEF TypeOK, DebtRecords

\* A fresh snapshot is well formed.
LEMMA OpenedRecord ==
  LET q == [NoHedge EXCEPT !.state = "ACTIVE", !.open = TRUE] IN
  q \in HedgeRecords /\ q.loss = 0
<1>1. NoHedge \in HedgeRecords /\ NoHedge.loss = 0
  BY DebtConstants DEF NoHedge, HedgeRecords, HedgeStates
<1> QED BY <1>1 DEF HedgeRecords, HedgeStates

\* A step that writes neither the books nor the debt.
LEMMA QuietStep ==
  ASSUME Books, UNCHANGED <<intents, prot, debt, paid>>
  PROVE  Books'
  BY DEF Books, DebtIsBalanced, LossCountsOnce, Allocations, BaselineOnly, Untouched

\* A step that stores one more intent: of a new hedge of a level with a baseline,
\* or of a new baseline.
LEMMA IntentStep ==
  ASSUME TypeOK, Books, NEW h \in Hedges, intents' = intents \cup {h},
         h[2] = 2 => Baseline(h[1]) \in intents,
         UNCHANGED <<prot, debt, paid>>
  PROVE  Books'
<1>1. DebtIsBalanced' /\ LossCountsOnce'
  BY DEF Books, DebtIsBalanced, LossCountsOnce
<1>2. Allocations'
  BY DEF Books, Allocations, BaselineOnly
<1>3. Untouched'
  <2>1. \A g \in Hedges : g \notin intents' => prot'[g] = NoHedge
    BY DEF Books, Untouched
  <2>2. \A l \in Levels : Baseline(l) \notin intents' =>
          debt'[l] = NoDebt /\ paid'[l] = 0 /\ Recovery(l) \notin intents'
    BY HedgeNames DEF Books, Untouched
  <2>3. \A l \in Levels : ~debt'[l].row => debt'[l] = NoDebt /\ paid'[l] = 0
    BY DEF Books, Untouched
  <2> QED BY <2>1, <2>2, <2>3 DEF Untouched
<1> QED BY <1>1, <1>2, <1>3 DEF Books

\* An emergency exit books a loss into a hedge that is open.
LEMMA ApplyCloseStep ==
  ASSUME TypeOK, Books, NEW l \in Levels, ApplyClose(l),
         UNCHANGED <<intents, closes, debt, paid>>
  PROVE  Books' /\ prot' \in [Hedges -> HedgeRecords]
<1>1. CASE UNCHANGED prot
  BY <1>1, QuietStep DEF TypeOK, HedgeRecords
<1>2. CASE \E a \in {1, 2}, stillOpen \in BOOLEAN, loss \in Losses :
             /\ prot[<<l, a>>].open
             /\ prot[<<l, a>>].loss + loss <= MaxLoss
             /\ prot' = [prot EXCEPT ![<<l, a>>] =
                           [state |-> "ERROR", open |-> stillOpen, stopped |-> TRUE,
                            loss |-> prot[<<l, a>>].loss + loss]]
  <2> PICK a \in {1, 2}, stillOpen \in BOOLEAN, loss \in Losses :
             /\ prot[<<l, a>>].open
             /\ prot[<<l, a>>].loss + loss <= MaxLoss
             /\ prot' = [prot EXCEPT ![<<l, a>>] =
                           [state |-> "ERROR", open |-> stillOpen, stopped |-> TRUE,
                            loss |-> prot[<<l, a>>].loss + loss]]
    BY <1>2
  <2> DEFINE h == <<l, a>>
             q == [state |-> "ERROR", open |-> stillOpen, stopped |-> TRUE,
                   loss |-> prot[h].loss + loss]
  <2>1. h \in Hedges
    BY DEF Hedges
  <2>2. h \in intents
    BY <2>1, HaveIntent
  <2>3. loss \in Nat /\ prot[h].loss \in Nat
    BY <2>1, Amounts, DebtConstants
  <2>4. q \in HedgeRecords
    BY <2>3, DebtConstants DEF HedgeRecords, HedgeStates
  <2>5. prot[h].loss <= q.loss /\ prot' = [prot EXCEPT ![h] = q]
    BY <2>3
  <2> HIDE DEF h, q
  <2> QED BY <2>1, <2>2, <2>4, <2>5, HedgeStep
<1> QED BY <1>1, <1>2 DEF ApplyClose

-----------------------------------------------------------------------------
(* The steps of a cycle *)

\* The cycle persists the intent of its baseline.
LEMMA PersistBaselineStep == DebtInv /\ PersistBaseline => DebtInv'
<1> SUFFICES ASSUME DebtInv, PersistBaseline
             PROVE  DebtInv'
  OBVIOUS
<1>1. TypeOK'
  BY HedgeNames DEF DebtInv, TypeOK, PersistBaseline, Goto, InCycle
<1>2. Books'
  BY HedgeNames, IntentStep DEF DebtInv, PersistBaseline, TypeOK
<1>3. Progress'
  BY HedgeNames DEF DebtInv, TypeOK, PersistBaseline, Goto, Progress, BaselineOnly,
                    InCycle, BeforeDebt, BeforeAllocation, BeforeRecovery, DuringRecovery
<1>4. Repaired'
  BY DEF PersistBaseline, Goto, Repaired
<1> QED BY <1>1, <1>2, <1>3, <1>4 DEF DebtInv

\* Protection of the baseline opens its snapshot.
LEMMA ProtectBaselineStep == DebtInv /\ ProtectBaseline => DebtInv'
<1> SUFFICES ASSUME DebtInv, ProtectBaseline
             PROVE  DebtInv'
  OBVIOUS
<1> DEFINE h == Baseline(level)
           q == [NoHedge EXCEPT !.state = "ACTIVE", !.open = TRUE]
<1>0. q \in HedgeRecords /\ q.loss = 0
  BY OpenedRecord
<1>1. prot' = [prot EXCEPT ![h] = q] /\ q \in HedgeRecords
  BY <1>0 DEF ProtectBaseline, ProtectHedge
<1>2. h \in Hedges /\ h \in intents /\ prot[h].loss <= q.loss
  BY <1>0, HedgeNames DEF DebtInv, TypeOK, Progress, ProtectBaseline, ProtectHedge, NoHedge, InCycle
<1>3. UNCHANGED <<intents, closes, debt, paid, level, todo>> /\ pc = "protect_baseline"
      /\ pc' = "baseline_exit"
  BY DEF ProtectBaseline, ProtectHedge, Goto
<1>4. Books' /\ prot' \in [Hedges -> HedgeRecords]
  <2> HIDE DEF h, q
  <2> QED BY <1>1, <1>2, <1>3, HedgeStep DEF DebtInv
<1>5. TypeOK'
  BY <1>3, <1>4 DEF DebtInv, TypeOK, HedgeRecords, InCycle
<1>6. Progress'
  BY <1>1, <1>3, HedgeNames DEF DebtInv, TypeOK, Progress, BaselineOnly,
                    InCycle, BeforeDebt, BeforeAllocation, BeforeRecovery, DuringRecovery
<1>7. Repaired'
  BY <1>3 DEF Repaired
<1> QED BY <1>4, <1>5, <1>6, <1>7 DEF DebtInv

\* Protection of the recovery opens its snapshot.
LEMMA ProtectRecoveryStep == DebtInv /\ ProtectRecovery => DebtInv'
<1> SUFFICES ASSUME DebtInv, ProtectRecovery
             PROVE  DebtInv'
  OBVIOUS
<1> DEFINE h == Recovery(level)
           q == [NoHedge EXCEPT !.state = "ACTIVE", !.open = TRUE]
<1>0. q \in HedgeRecords /\ q.loss = 0
  BY OpenedRecord
<1>1. prot' = [prot EXCEPT ![h] = q] /\ q \in HedgeRecords
  BY <1>0 DEF ProtectRecovery, ProtectHedge
<1>2. h \in Hedges /\ h \in intents /\ prot[h].loss <= q.loss
  BY <1>0, HedgeNames DEF DebtInv, TypeOK, Progress, ProtectRecovery, ProtectHedge, NoHedge,
                    BeforeRecovery
<1>3. UNCHANGED <<intents, closes, debt, paid, level, todo>> /\ pc = "protect_recovery"
      /\ pc' = "recovery_exit"
  BY DEF ProtectRecovery, ProtectHedge, Goto
<1>4. Books' /\ prot' \in [Hedges -> HedgeRecords]
  <2> HIDE DEF h, q
  <2> QED BY <1>1, <1>2, <1>3, HedgeStep DEF DebtInv
<1>5. TypeOK'
  BY <1>3, <1>4 DEF DebtInv, TypeOK, HedgeRecords, InCycle
<1>6. prot'[Baseline(level)] = prot[Baseline(level)]
  BY <1>1, HedgeNames DEF DebtInv, TypeOK
<1>7. Progress'
  BY <1>3, <1>6 DEF DebtInv, Progress, BaselineOnly,
                    InCycle, BeforeDebt, BeforeAllocation, BeforeRecovery, DuringRecovery
<1>8. Repaired'
  BY <1>3 DEF Repaired
<1> QED BY <1>4, <1>5, <1>7, <1>8 DEF DebtInv

\* An execution of an exit books a loss into the awaited hedge.
LEMMA ExitFillStep == DebtInv /\ ExitFill => DebtInv'
<1> SUFFICES ASSUME DebtInv, ExitFill
             PROVE  DebtInv'
  OBVIOUS
<1> PICK h \in Awaited, stop \in BOOLEAN, stillOpen \in BOOLEAN, loss \in Losses :
      /\ prot[h].open
      /\ loss > 0 => stop /\ prot[h].loss + loss <= MaxLoss
      /\ prot' = [prot EXCEPT ![h] = [prot[h] EXCEPT !.open = stillOpen,
                                                     !.stopped = prot[h].stopped \/ stop,
                                                     !.loss = prot[h].loss + loss]]
      /\ UNCHANGED <<intents, closes, debt, runnerVars, paid>>
  BY DEF ExitFill
<1> DEFINE b == prot[h].stopped \/ stop
           n == prot[h].loss + loss
           q == [prot[h] EXCEPT !.open = stillOpen, !.stopped = b, !.loss = n]
<1>1. /\ h \in Hedges
      /\ \/ pc = "baseline_exit" /\ h = Baseline(level)
         \/ pc = "recovery_exit" /\ h = Recovery(level)
  BY HedgeNames DEF Awaited, DebtInv, TypeOK
<1>2. prot[h] \in HedgeRecords /\ loss \in Nat
  BY <1>1, DebtConstants DEF DebtInv, TypeOK, HedgeRecords
<1>3. prot' = [prot EXCEPT ![h] = q]
  OBVIOUS
<1>4. q \in HedgeRecords /\ prot[h].loss <= q.loss
  <2>1. b \in BOOLEAN
    OBVIOUS
  <2>2. n \in 0 .. MaxLoss /\ prot[h].loss <= n
    BY <1>2, DebtConstants DEF HedgeRecords
  <2> HIDE DEF b, n
  <2>0. q = [prot[h] EXCEPT !.open = stillOpen, !.stopped = b, !.loss = n]
    OBVIOUS
  <2> HIDE DEF q
  <2>3. q \in HedgeRecords /\ q.loss = n
    <3>1. prot[h] \in HedgeRecords
      BY <1>2
    <3>2. n \in 0 .. MaxLoss
      BY <2>2
    <3>3. q \in HedgeRecords
      BY <2>0, <2>1, <3>1, <3>2 DEF HedgeRecords
    <3>4. q.loss = n
      BY <2>0, <2>1, <3>1, <3>2 DEF HedgeRecords
    <3> QED BY <3>3, <3>4
  <2> QED BY <2>2, <2>3
<1>5. h \in intents
  BY <1>1, HaveIntent DEF DebtInv
<1>6. Books' /\ prot' \in [Hedges -> HedgeRecords]
  <2> HIDE DEF q
  <2> QED BY <1>1, <1>3, <1>4, <1>5, HedgeStep DEF DebtInv
<1>7. TypeOK'
  BY <1>6 DEF DebtInv, TypeOK, HedgeRecords, runnerVars
<1>8. \A g \in Hedges : g # h => prot'[g] = prot[g]
  BY <1>1, <1>3 DEF DebtInv, TypeOK
<1>9. Progress'
  BY <1>1, <1>8, HedgeNames DEF DebtInv, TypeOK, runnerVars, Progress, BaselineOnly,
                    InCycle, BeforeDebt, BeforeAllocation, BeforeRecovery, DuringRecovery
<1>10. Repaired'
  BY <1>1 DEF Repaired, runnerVars
<1> QED BY <1>6, <1>7, <1>9, <1>10 DEF DebtInv

\* The terminal state of the awaited hedge decides where the cycle goes on.
LEMMA CloseExitStep == DebtInv /\ CloseExit => DebtInv'
<1> SUFFICES ASSUME DebtInv, CloseExit
             PROVE  DebtInv'
  OBVIOUS
<1> PICK h \in Awaited :
      /\ ~prot[h].open
      /\ prot' = [prot EXCEPT ![h] = [prot[h] EXCEPT !.state = Terminal(prot[h])]]
      /\ Goto(AfterExit(h))
      /\ UNCHANGED <<intents, closes, debt, paid>>
  BY DEF CloseExit
<1> DEFINE q == [state |-> Terminal(prot[h]), open |-> prot[h].open,
                 stopped |-> prot[h].stopped, loss |-> prot[h].loss]
<1>0. level \in Levels
  BY DEF DebtInv, TypeOK
<1>1. /\ h \in Hedges /\ h \in intents
      /\ \/ pc = "baseline_exit" /\ h = Baseline(level) /\ pc' \in {"record", "safe"}
         \/ /\ pc = "recovery_exit" /\ h = Recovery(level)
            /\ pc' = IF prot[h].stopped THEN "stop_debt" ELSE "settle"
  <2>1. CASE pc = "baseline_exit"
    <3>1. h = Baseline(level) /\ h # Recovery(level)
      BY <1>0, <2>1, HedgeNames DEF Awaited
    <3>2. pc' \in {"record", "safe"}
      BY <3>1 DEF AfterExit, Goto
    <3>3. h \in Hedges /\ h \in intents
      BY <1>0, <2>1, <3>1, HedgeNames DEF DebtInv, Progress, InCycle
    <3> QED BY <2>1, <3>1, <3>2, <3>3
  <2>2. CASE pc = "recovery_exit"
    <3>1. h = Recovery(level)
      BY <2>2 DEF Awaited
    <3>2. pc' = IF prot[h].stopped THEN "stop_debt" ELSE "settle"
      BY <3>1 DEF AfterExit, Goto
    <3>3. h \in Hedges /\ h \in intents
      BY <1>0, <2>2, <3>1, HedgeNames DEF DebtInv, Progress, DuringRecovery
    <3> QED BY <2>2, <3>1, <3>2, <3>3
  <2> QED BY <2>1, <2>2 DEF Awaited
<1>2. prot[h] \in HedgeRecords
  BY <1>1 DEF DebtInv, TypeOK, HedgeRecords
<1>3. prot' = [prot EXCEPT ![h] = q]
  <2>1. [prot[h] EXCEPT !.state = Terminal(prot[h])] = q
    BY <1>2 DEF HedgeRecords
  <2> QED BY <1>1, <2>1 DEF DebtInv, TypeOK
<1>4. q \in HedgeRecords /\ prot[h].loss <= q.loss
  BY <1>2, DebtConstants DEF HedgeRecords, HedgeStates, Terminal
<1>5. Books' /\ prot' \in [Hedges -> HedgeRecords]
  <2> HIDE DEF q
  <2> QED BY <1>1, <1>3, <1>4, HedgeStep DEF DebtInv
<1>6. TypeOK'
  BY <1>1, <1>5 DEF DebtInv, TypeOK, HedgeRecords, Goto, InCycle, InSafe
<1>7. \A g \in Hedges : g # h => prot'[g] = prot[g]
  BY <1>1, <1>3 DEF DebtInv, TypeOK
<1>8. pc' = "settle" => prot'[Recovery(level)].state = "CLOSED_TP"
  BY <1>1, <1>2, <1>3 DEF DebtInv, TypeOK, HedgeRecords, Terminal
<1>9. Progress'
  BY <1>1, <1>7, <1>8, HedgeNames DEF DebtInv, TypeOK, Goto, Progress, BaselineOnly,
                    InCycle, BeforeDebt, BeforeAllocation, BeforeRecovery, DuringRecovery
<1>10. Repaired'
  BY <1>1 DEF Repaired
<1> QED BY <1>5, <1>6, <1>9, <1>10 DEF DebtInv

\* The loss of the baseline becomes the first debt of its level.
LEMMA RecordStep == DebtInv /\ RecordConfirmedStopDebt => DebtInv'
<1> SUFFICES ASSUME DebtInv, RecordConfirmedStopDebt
             PROVE  DebtInv'
  OBVIOUS
<1> DEFINE d == debt[level]
           x == prot[Baseline(level)].loss
           e == AddConfirmedStopDebt(d, x)
<1>1. /\ pc = "record" /\ pc' = "plan" /\ UNCHANGED <<intents, prot, closes, paid, level, todo>>
      /\ debt' = [debt EXCEPT ![level] = e]
  BY DEF RecordConfirmedStopDebt, Goto
<1>2. level \in Levels /\ d \in DebtRecords /\ x \in Nat
  BY HedgeNames, Amounts DEF DebtInv, TypeOK
<1>3. d = NoDebt /\ paid[level] = 0 /\ Baseline(level) \in intents
      /\ prot[Recovery(level)] = NoHedge
  BY <1>1 DEF DebtInv, Progress, BeforeDebt, InCycle
<1>4. d.confirmed = 0 /\ d.allocated = 0 /\ d.remaining = 0
  BY <1>3 DEF NoDebt
<1>5. /\ e \in DebtRecords /\ e.row /\ e.confirmed = x
      /\ e.allocated = 0 /\ e.confirmed = e.allocated + e.remaining
  <2>1. e = AddConfirmedStopDebt(d, x) /\ d.confirmed = d.allocated + d.remaining
    BY <1>4
  <2> HIDE DEF d, x, e
  <2>2. /\ e \in DebtRecords /\ e.row /\ e.confirmed = d.confirmed + x
        /\ e.allocated = d.allocated /\ e.confirmed = e.allocated + e.remaining
    BY <1>2, <2>1, AddFacts
  <2> QED BY <1>2, <1>4, <2>2
<1>6. paid' = [paid EXCEPT ![level] = 0]
  BY <1>1, <1>2, <1>3 DEF DebtInv, TypeOK
<1>7. prot[Recovery(level)].loss = 0
  BY <1>3 DEF NoHedge
<1>8. Books' /\ debt' \in [Levels -> DebtRecords] /\ paid' \in [Levels -> Nat]
  <2>1. e.confirmed + 0 <= prot[Baseline(level)].loss + prot[Recovery(level)].loss
    BY <1>2, <1>5, <1>7
  <2>2. ~(e.allocated > 0)
    BY <1>5
  <2> HIDE DEF e
  <2> QED BY <1>1, <1>2, <1>3, <1>5, <1>6, <2>1, <2>2, DebtStep DEF DebtInv
<1>9. TypeOK'
  BY <1>1, <1>8 DEF DebtInv, TypeOK, DebtRecords, InCycle
<1>10. debt'[level] = e
  BY <1>1, <1>2 DEF DebtInv, TypeOK
<1>11. Progress'
  <2>1. BaselineOnly(level)'
    BY <1>1, <1>2, <1>3, <1>5, <1>10 DEF BaselineOnly
  <2> HIDE DEF e
  <2> QED BY <1>1, <1>3, <1>5, <1>10, <2>1
          DEF Progress, BaselineOnly, InCycle, BeforeDebt, BeforeAllocation,
                    BeforeRecovery, DuringRecovery
<1>12. Repaired'
  BY <1>1 DEF Repaired
<1> QED BY <1>8, <1>9, <1>11, <1>12 DEF DebtInv

\* All that remains of the debt goes to the recovery.
LEMMA AllocateStep == DebtInv /\ AllocateDebt => DebtInv'
<1> SUFFICES ASSUME DebtInv, AllocateDebt
             PROVE  DebtInv'
  OBVIOUS
<1> DEFINE d == debt[level]
           e == AllocateConfirmedDebt(d)
<1>1. /\ pc = "allocate" /\ pc' = "submit"
      /\ UNCHANGED <<intents, prot, closes, paid, level, todo>>
      /\ debt' = [debt EXCEPT ![level] = e]
  BY DEF AllocateDebt, Goto
<1>2. level \in Levels /\ d \in DebtRecords /\ paid[level] \in Nat
  BY Amounts DEF DebtInv, TypeOK
<1>3. /\ Baseline(level) \in intents /\ Recovery(level) \in intents
      /\ prot[Recovery(level)] = NoHedge /\ BaselineOnly(level) /\ d.row /\ d.allocated = 0
  BY <1>1 DEF DebtInv, Progress, InCycle, BeforeAllocation
<1>4. /\ e \in DebtRecords /\ e.row = d.row /\ e.confirmed = d.confirmed
      /\ e.confirmed = e.allocated + e.remaining
  <2>1. e = AllocateConfirmedDebt(d) /\ d.confirmed = d.allocated + d.remaining
    BY <1>2 DEF DebtInv, Books, DebtIsBalanced
  <2> HIDE DEF d, e
  <2> QED BY <1>2, <1>3, <2>1, AllocateFacts
<1>5. /\ e.confirmed + paid[level] <= prot[Baseline(level)].loss
      /\ e.confirmed + paid[level] <= prot[Baseline(level)].loss + prot[Recovery(level)].loss
  <2>1. prot[Baseline(level)].loss \in Nat /\ prot[Recovery(level)].loss = 0
    BY <1>2, <1>3, HedgeNames, Amounts DEF DebtInv, NoHedge
  <2> HIDE DEF e
  <2> QED BY <1>2, <1>3, <1>4, <2>1 DEF BaselineOnly, DebtRecords
<1>6. paid' = [paid EXCEPT ![level] = paid[level]]
  BY <1>1 DEF DebtInv, TypeOK
<1>7. Books' /\ debt' \in [Levels -> DebtRecords] /\ paid' \in [Levels -> Nat]
  <2> HIDE DEF e
  <2> QED BY <1>1, <1>2, <1>3, <1>4, <1>5, <1>6, DebtStep DEF DebtInv
<1>8. TypeOK'
  BY <1>1, <1>7 DEF DebtInv, TypeOK, DebtRecords, InCycle
<1>9. debt'[level] = e
  BY <1>1, <1>2 DEF DebtInv, TypeOK
<1>10. Progress'
  <2>1. BaselineOnly(level)'
    BY <1>1, <1>5, <1>9 DEF BaselineOnly
  <2> HIDE DEF e
  <2> QED BY <1>1, <1>3, <1>4, <1>9, <2>1
          DEF Progress, InCycle, BeforeDebt, BeforeAllocation,
                    BeforeRecovery, DuringRecovery
<1>11. Repaired'
  BY <1>1 DEF Repaired
<1> QED BY <1>7, <1>8, <1>10, <1>11 DEF DebtInv

\* A failed submission gives the allocation back.
LEMMA ReleaseStep == DebtInv /\ ReleaseDebt => DebtInv'
<1> SUFFICES ASSUME DebtInv, ReleaseDebt
             PROVE  DebtInv'
  OBVIOUS
<1> DEFINE d == debt[level]
           e == ReleaseAllocatedDebt(d)
<1>1. /\ pc = "release" /\ pc' = "safe"
      /\ UNCHANGED <<intents, prot, closes, paid, level, todo>>
      /\ debt' = [debt EXCEPT ![level] = e]
  BY DEF ReleaseDebt, Goto
<1>2. level \in Levels /\ d \in DebtRecords /\ paid[level] \in Nat
  BY Amounts DEF DebtInv, TypeOK
<1>3. Baseline(level) \in intents /\ d.row
  BY <1>1 DEF DebtInv, Progress, InCycle, BeforeRecovery
<1>4. /\ e \in DebtRecords /\ e.row = d.row /\ e.confirmed = d.confirmed
      /\ e.allocated = 0 /\ e.confirmed = e.allocated + e.remaining
  <2>1. e = ReleaseAllocatedDebt(d) /\ d.confirmed = d.allocated + d.remaining
    BY <1>2 DEF DebtInv, Books, DebtIsBalanced
  <2> HIDE DEF d, e
  <2> QED BY <1>2, <2>1, ReleaseFacts
<1>5. e.confirmed + paid[level] <= prot[Baseline(level)].loss + prot[Recovery(level)].loss
  <2> HIDE DEF e
  <2> QED BY <1>2, <1>4 DEF DebtInv, Books, LossCountsOnce
<1>6. paid' = [paid EXCEPT ![level] = paid[level]]
  BY <1>1 DEF DebtInv, TypeOK
<1>7. Books' /\ debt' \in [Levels -> DebtRecords] /\ paid' \in [Levels -> Nat]
  <2>1. ~(e.allocated > 0)
    BY <1>4
  <2> HIDE DEF e
  <2> QED BY <1>1, <1>2, <1>3, <1>4, <1>5, <1>6, <2>1, DebtStep DEF DebtInv
<1>8. TypeOK'
  BY <1>1, <1>7 DEF DebtInv, TypeOK, DebtRecords, InSafe
<1>9. Progress' /\ Repaired'
  BY <1>1 DEF Progress, Repaired, InCycle, BeforeDebt, BeforeAllocation,
                    BeforeRecovery, DuringRecovery
<1> QED BY <1>7, <1>8, <1>9 DEF DebtInv

\* Debt that is allocated, released and increased by the loss of a stopped recovery:
\* what the cycle and the repair of a start both write.
LEMMA StoppedDebtStep ==
  ASSUME DebtInv, NEW l \in Levels, debt[l].allocated > 0,
         debt' = [debt EXCEPT ![l] = StoppedDebt(Recovery(l))],
         UNCHANGED <<intents, prot, closes, paid>>
  PROVE  /\ Books' /\ debt' \in [Levels -> DebtRecords] /\ paid' \in [Levels -> Nat]
         /\ debt'[l].allocated = 0 /\ debt'[l].confirmed >= debt[l].confirmed
<1> DEFINE d == debt[l]
           x == prot[Recovery(l)].loss
           r == ReleaseAllocatedDebt(d)
           e == AddConfirmedStopDebt(r, x)
<1>1. debt' = [debt EXCEPT ![l] = e]
  BY HedgeNames DEF StoppedDebt
<1>2. d \in DebtRecords /\ x \in Nat /\ paid[l] \in Nat
  BY HedgeNames, Amounts DEF DebtInv
<1>3. d.row /\ Baseline(l) \in intents
  <2>1. d.row
    BY DEF DebtInv, Books, Untouched, NoDebt
  <2> QED BY <2>1, HaveIntent DEF DebtInv
<1>4. /\ r \in DebtRecords /\ r.confirmed = d.confirmed
      /\ r.allocated = 0 /\ r.confirmed = r.allocated + r.remaining
  <2>1. r = ReleaseAllocatedDebt(d) /\ d.confirmed = d.allocated + d.remaining
    BY <1>2 DEF DebtInv, Books, DebtIsBalanced
  <2> HIDE DEF d, r
  <2> QED BY <1>2, <2>1, ReleaseFacts
<1>5. /\ e \in DebtRecords /\ e.row /\ e.confirmed = d.confirmed + x
      /\ e.allocated = 0 /\ e.confirmed = e.allocated + e.remaining
  <2>1. e = AddConfirmedStopDebt(r, x)
    OBVIOUS
  <2> HIDE DEF d, x, r, e
  <2>2. /\ e \in DebtRecords /\ e.row /\ e.confirmed = r.confirmed + x
        /\ e.allocated = r.allocated /\ e.confirmed = e.allocated + e.remaining
    BY <1>2, <1>4, <2>1, AddFacts
  <2> QED BY <1>4, <2>2
<1>6. e.confirmed + paid[l] <= prot[Baseline(l)].loss + prot[Recovery(l)].loss
  <2>1. d.confirmed + paid[l] <= prot[Baseline(l)].loss
    BY DEF DebtInv, Books, Allocations, BaselineOnly
  <2>2. prot[Baseline(l)].loss \in Nat /\ d.confirmed \in Nat
    BY HedgeNames, Amounts DEF DebtInv
  <2> HIDE DEF d, e
  <2> QED BY <1>2, <1>5, <2>1, <2>2
<1>7. paid' = [paid EXCEPT ![l] = paid[l]]
  BY DEF DebtInv, TypeOK
<1>8. Books' /\ debt' \in [Levels -> DebtRecords] /\ paid' \in [Levels -> Nat]
  <2>1. ~(e.allocated > 0)
    BY <1>5
  <2> HIDE DEF e
  <2> QED BY <1>1, <1>2, <1>3, <1>5, <1>6, <1>7, <2>1, DebtStep DEF DebtInv
<1>9. debt'[l] = e
  BY <1>1 DEF DebtInv, TypeOK
<1>10. d.confirmed \in Nat
  BY Amounts DEF DebtInv
<1>11. debt'[l].allocated = 0 /\ debt'[l].confirmed >= debt[l].confirmed
  <2> HIDE DEF e, x
  <2> QED BY <1>2, <1>5, <1>9, <1>10
<1> QED BY <1>8, <1>11

\* A stopped recovery rolls its allocation and its loss into free debt.
LEMMA RecoveryStopStep == DebtInv /\ RecordRecoveryStopDebt => DebtInv'
<1> SUFFICES ASSUME DebtInv, RecordRecoveryStopDebt
             PROVE  DebtInv'
  OBVIOUS
<1>1. pc = "stop_debt" /\ pc' = "safe" /\ UNCHANGED <<intents, prot, closes, paid, level, todo>>
  BY DEF RecordRecoveryStopDebt, Goto
<1>2. level \in Levels /\ debt[level].allocated \in Nat
  BY Amounts DEF DebtInv, TypeOK
<1>3. Books' /\ debt' \in [Levels -> DebtRecords] /\ paid' \in [Levels -> Nat]
  <2>1. CASE debt[level].allocated = 0
    <3>1. debt' = debt
      BY <2>1 DEF RecordRecoveryStopDebt
    <3>2. Books'
      BY <1>1, <3>1, QuietStep DEF DebtInv
    <3> QED BY <1>1, <3>1, <3>2 DEF DebtInv, TypeOK, DebtRecords
  <2>2. CASE debt[level].allocated # 0
    <3>1. debt' = [debt EXCEPT ![level] = StoppedDebt(Recovery(level))]
      BY <2>2 DEF RecordRecoveryStopDebt
    <3>2. debt[level].allocated > 0
      BY <1>2, <2>2
    <3> QED BY <1>1, <1>2, <3>1, <3>2, StoppedDebtStep
  <2> QED BY <2>1, <2>2
<1>4. TypeOK'
  BY <1>1, <1>3 DEF DebtInv, TypeOK, DebtRecords, InSafe
<1>5. Progress' /\ Repaired'
  BY <1>1 DEF Progress, Repaired, InCycle, BeforeDebt, BeforeAllocation,
                    BeforeRecovery, DuringRecovery
<1> QED BY <1>3, <1>4, <1>5 DEF DebtInv

\* What the settlement of a take-profit writes, and that it takes out of the debt
\* exactly what the history records as paid.
LEMMA SettledDebt ==
  ASSUME DebtInv, SettleTakeProfit
  PROVE  /\ Books' /\ debt' \in [Levels -> DebtRecords] /\ paid' \in [Levels -> Nat]
         /\ \A l \in Levels : l # level => debt'[l] = debt[l]
         /\ debt[level].confirmed - debt'[level].confirmed \in 0 .. debt[level].allocated
         /\ paid'[level] - paid[level] = debt[level].confirmed - debt'[level].confirmed
<1>1. pc = "settle" /\ UNCHANGED <<intents, prot, closes>>
  BY DEF SettleTakeProfit
<1>2. /\ level \in Levels /\ debt[level] \in DebtRecords /\ paid[level] \in Nat
      /\ debt[level].confirmed \in Nat /\ debt[level].allocated \in Nat
  BY Amounts DEF DebtInv, TypeOK
<1>3. CASE debt[level].allocated = 0
  <2>1. UNCHANGED <<debt, paid>>
    BY <1>3 DEF SettleTakeProfit
  <2>2. Books'
    BY <1>1, <2>1, QuietStep DEF DebtInv
  <2>3. debt' \in [Levels -> DebtRecords] /\ paid' \in [Levels -> Nat]
    BY <2>1 DEF DebtInv, TypeOK, DebtRecords
  <2> QED BY <1>2, <2>1, <2>2, <2>3
<1>4. CASE debt[level].allocated # 0
  <2> PICK realized \in Profits :
        /\ debt' = [debt EXCEPT ![level] = SettleRecoveryTakeProfit(debt[level], realized)]
        /\ paid' = [paid EXCEPT ![level] = paid[level] + PaidBy(debt[level], realized)]
    BY <1>4 DEF SettleTakeProfit
  <2> DEFINE d == debt[level]
             x == PaidBy(d, realized)
             e == SettleRecoveryTakeProfit(d, realized)
  <2>1. realized \in Int
    BY DebtConstants
  <2>2. x \in 0 .. d.allocated /\ x \in Nat
    <3>1. x \in 0 .. d.allocated
      BY <1>2, <2>1, PaidFacts
    <3> HIDE DEF x
    <3> QED BY <1>2, <3>1
  <2>3. /\ e \in DebtRecords /\ e.row = d.row /\ e.confirmed = d.confirmed - x
        /\ e.allocated = 0 /\ e.confirmed = e.allocated + e.remaining
    <3>1. e = SettleRecoveryTakeProfit(d, realized) /\ d.confirmed = d.allocated + d.remaining
      BY <1>2 DEF DebtInv, Books, DebtIsBalanced
    <3>2. d \in DebtRecords /\ x = PaidBy(d, realized)
      BY <1>2
    <3> HIDE DEF d, e, x
    <3>3. /\ e \in DebtRecords /\ e.row = d.row /\ e.confirmed = d.confirmed - PaidBy(d, realized)
          /\ e.allocated = 0 /\ e.confirmed = e.allocated + e.remaining
      BY <2>1, <3>1, <3>2, SettleFacts
    <3> QED BY <3>2, <3>3
  <2>4. Baseline(level) \in intents /\ d.row
    BY <1>1 DEF DebtInv, Progress, InCycle, DuringRecovery
  <2>5. /\ paid[level] + x \in Nat
        /\ e.confirmed + (paid[level] + x) <= prot[Baseline(level)].loss + prot[Recovery(level)].loss
    <3>1. d.confirmed + paid[level] <= prot[Baseline(level)].loss + prot[Recovery(level)].loss
      BY <1>2 DEF DebtInv, Books, LossCountsOnce
    <3> HIDE DEF e, x
    <3> QED BY <1>2, <2>2, <2>3, <3>1
  <2>6. ~(e.allocated > 0)
    <3> HIDE DEF e
    <3> QED BY <2>3
  <2>7. Books' /\ debt' \in [Levels -> DebtRecords] /\ paid' \in [Levels -> Nat]
    <3>1. debt' = [debt EXCEPT ![level] = e] /\ paid' = [paid EXCEPT ![level] = paid[level] + x]
      OBVIOUS
    <3> HIDE DEF e, x
    <3> QED BY <1>1, <1>2, <2>3, <2>4, <2>5, <2>6, <3>1, DebtStep DEF DebtInv
  <2>8. debt'[level] = e /\ paid'[level] = paid[level] + x
    BY <1>2 DEF DebtInv, TypeOK
  <2>9. \A l \in Levels : l # level => debt'[l] = debt[l]
    BY <1>2 DEF DebtInv, TypeOK
  <2>10. /\ debt[level].confirmed - debt'[level].confirmed = x
         /\ paid'[level] - paid[level] = x
    <3> HIDE DEF e, x
    <3> QED BY <1>2, <2>2, <2>3, <2>8
  <2> HIDE DEF x
  <2> QED BY <2>2, <2>7, <2>9, <2>10
<1> QED BY <1>3, <1>4

\* The take-profit of a recovery pays debt and frees the rest.
LEMMA SettleStep == DebtInv /\ SettleTakeProfit => DebtInv'
<1> SUFFICES ASSUME DebtInv, SettleTakeProfit
             PROVE  DebtInv'
  OBVIOUS
<1>1. Books' /\ debt' \in [Levels -> DebtRecords] /\ paid' \in [Levels -> Nat]
  BY SettledDebt
<1>2. pc' \in {"down", "safe"} /\ UNCHANGED <<intents, prot, closes, level, todo>>
  BY DEF SettleTakeProfit, Goto
<1>3. TypeOK'
  BY <1>1, <1>2 DEF DebtInv, TypeOK, DebtRecords, InSafe
<1>4. Progress' /\ Repaired'
  BY <1>2 DEF Progress, Repaired, InCycle, BeforeDebt, BeforeAllocation,
                    BeforeRecovery, DuringRecovery
<1> QED BY <1>1, <1>3, <1>4 DEF DebtInv

\* The intent of the recovery is stored before its debt is allocated.
LEMMA PersistRecoveryStep == DebtInv /\ PersistRecovery => DebtInv'
<1> SUFFICES ASSUME DebtInv, PersistRecovery
             PROVE  DebtInv'
  OBVIOUS
<1>1. /\ pc = "persist" /\ pc' = "allocate" /\ intents' = intents \cup {Recovery(level)}
      /\ UNCHANGED <<prot, closes, debt, paid, level, todo>>
  BY DEF PersistRecovery, Goto
<1>2. level \in Levels /\ Recovery(level) \in Hedges /\ Recovery(level)[1] = level
      /\ Baseline(level) \in intents
  BY <1>1, HedgeNames DEF DebtInv, TypeOK, Progress, InCycle
<1>3. TypeOK'
  BY <1>1, <1>2 DEF DebtInv, TypeOK, InCycle
<1>4. Books'
  BY <1>1, <1>2, IntentStep DEF DebtInv
<1>5. Progress'
  BY <1>1, <1>2 DEF DebtInv, Progress, BaselineOnly, InCycle, BeforeDebt, BeforeAllocation,
                    BeforeRecovery, DuringRecovery
<1>6. Repaired'
  BY <1>1 DEF Repaired
<1> QED BY <1>3, <1>4, <1>5, <1>6 DEF DebtInv

\* The plan and the submission decide where the cycle goes on and write nothing.
LEMMA PlanStep == DebtInv /\ (PlanRecovery \/ SubmitRecovery) => DebtInv'
<1> SUFFICES ASSUME DebtInv, PlanRecovery \/ SubmitRecovery
             PROVE  DebtInv'
  OBVIOUS
<1>1. /\ UNCHANGED <<intents, prot, closes, debt, paid, level, todo>>
      /\ \/ pc = "plan" /\ pc' \in {"persist", "safe"}
         \/ pc = "submit" /\ pc' \in {"protect_recovery", "safe", "release"}
  BY DEF PlanRecovery, SubmitRecovery, Goto, storeVars
<1>2. Books'
  BY <1>1, QuietStep DEF DebtInv
<1>3. TypeOK'
  BY <1>1 DEF DebtInv, TypeOK, InCycle, InSafe
<1>4. Progress'
  BY <1>1 DEF DebtInv, Progress, BaselineOnly, InCycle, BeforeDebt, BeforeAllocation,
                    BeforeRecovery, DuringRecovery
<1>5. Repaired'
  BY <1>1 DEF Repaired
<1> QED BY <1>2, <1>3, <1>4, <1>5 DEF DebtInv

-----------------------------------------------------------------------------
(* The steps of a start and of the safe state *)

\* Closing the account records executions and applies them to the open hedge.
LEMMA SafeStep == DebtInv /\ (MakeSafe \/ ApplyEmergencyExit) => DebtInv'
<1> SUFFICES ASSUME DebtInv, MakeSafe \/ ApplyEmergencyExit
             PROVE  DebtInv'
  OBVIOUS
<1>1. /\ UNCHANGED <<intents, debt, paid, level, todo>> /\ closes' \subseteq Levels
      /\ pc' \in {"down", "safe", "safe_apply"}
  BY DEF MakeSafe, ApplyEmergencyExit, Goto, DebtInv, TypeOK
<1>2. Books' /\ prot' \in [Hedges -> HedgeRecords]
  <2>1. CASE MakeSafe
    <3>1. Books'
      BY <1>1, <2>1, QuietStep DEF DebtInv, MakeSafe
    <3> QED BY <2>1, <3>1 DEF DebtInv, TypeOK, HedgeRecords, MakeSafe
  <2>2. CASE ApplyEmergencyExit
    BY <2>2, ApplyCloseStep DEF DebtInv, TypeOK, ApplyEmergencyExit
  <2> QED BY <2>1, <2>2
<1>3. TypeOK'
  BY <1>1, <1>2 DEF DebtInv, TypeOK, HedgeRecords, InSafe
<1>4. Progress' /\ Repaired'
  BY <1>1 DEF Progress, Repaired, InCycle, BeforeDebt, BeforeAllocation,
                    BeforeRecovery, DuringRecovery
<1> QED BY <1>2, <1>3, <1>4 DEF DebtInv

\* A start replays every recorded emergency execution.
LEMMA ReplayStep == DebtInv /\ (Boot \/ ReplayClose) => DebtInv'
<1> SUFFICES ASSUME DebtInv, Boot \/ ReplayClose
             PROVE  DebtInv'
  OBVIOUS
<1>1. UNCHANGED <<intents, closes, debt, paid>> /\ pc' = "replay" /\ level' \in Levels
  BY FirstLevel DEF Boot, ReplayClose, storeVars, DebtInv, TypeOK
<1>2. todo' \subseteq Levels \X {0, 1, 2}
  <2>1. CASE Boot
    BY <2>1 DEF Boot, DebtInv, TypeOK
  <2>2. CASE ReplayClose
    BY <2>2 DEF ReplayClose, DebtInv, TypeOK
  <2> QED BY <2>1, <2>2
<1>3. Books' /\ prot' \in [Hedges -> HedgeRecords]
  <2>1. CASE Boot
    <3>1. UNCHANGED prot
      BY <2>1 DEF Boot, storeVars
    <3>2. Books'
      BY <1>1, <3>1, QuietStep DEF DebtInv
    <3> QED BY <3>1, <3>2 DEF DebtInv, TypeOK, HedgeRecords
  <2>2. CASE ReplayClose
    <3> PICK t \in todo : ApplyClose(t[1])
      BY <2>2 DEF ReplayClose
    <3>1. t[1] \in Levels
      BY DEF DebtInv, TypeOK
    <3> QED BY <1>1, <3>1, ApplyCloseStep DEF DebtInv
  <2> QED BY <2>1, <2>2
<1>4. TypeOK'
  BY <1>1, <1>2, <1>3 DEF DebtInv, TypeOK, HedgeRecords, InStart
<1>5. Progress' /\ Repaired'
  BY <1>1 DEF Progress, Repaired, InCycle, BeforeDebt, BeforeAllocation,
                    BeforeRecovery, DuringRecovery
<1> QED BY <1>3, <1>4, <1>5 DEF DebtInv

\* The repair starts with every hedge that has a snapshot, hence with all it must visit.
LEMMA ClosesReplayedStep == DebtInv /\ ClosesReplayed => DebtInv'
<1> SUFFICES ASSUME DebtInv, ClosesReplayed
             PROVE  DebtInv'
  OBVIOUS
<1>1. /\ UNCHANGED <<intents, prot, closes, debt, paid, level>> /\ pc' = "repair"
      /\ todo' = {h \in Hedges : prot[h].state # "NONE"}
  BY DEF ClosesReplayed, storeVars
<1>2. Books'
  BY <1>1, QuietStep DEF DebtInv
<1>3. TypeOK'
  BY <1>1 DEF DebtInv, TypeOK, InStart, Hedges
<1>4. Progress'
  BY <1>1 DEF Progress, InCycle, BeforeDebt, BeforeAllocation,
                    BeforeRecovery, DuringRecovery
<1>5. Repaired'
  BY <1>1 DEF Repaired, NeedsRepair
<1> QED BY <1>2, <1>3, <1>4, <1>5 DEF DebtInv

\* One visit of the repair: the hedge it visits needs no repair after it, and
\* whether another one does is untouched.
LEMMA RepairStep == DebtInv /\ RepairDebt => DebtInv'
<1> SUFFICES ASSUME DebtInv, RepairDebt
             PROVE  DebtInv'
  OBVIOUS
<1> PICK h \in todo :
      /\ todo' = todo \ {h}
      /\ debt' = IF NeedsRepair(h) THEN [debt EXCEPT ![h[1]] = StoppedDebt(h)] ELSE debt
  BY DEF RepairDebt
<1>1. /\ pc = "repair" /\ pc' = "repair"
      /\ UNCHANGED <<intents, prot, closes, level, paid>>
  BY DEF RepairDebt
<1>2. h[1] \in Levels /\ h \in Levels \X {0, 1, 2}
  BY DEF DebtInv, TypeOK
<1>3. /\ Books' /\ debt' \in [Levels -> DebtRecords] /\ paid' \in [Levels -> Nat]
      /\ \A g \in Hedges : NeedsRepair(g)' => NeedsRepair(g) /\ g # h
  <2>1. CASE ~NeedsRepair(h)
    <3>1. debt' = debt
      BY <2>1
    <3>2. Books'
      BY <1>1, <3>1, QuietStep DEF DebtInv
    <3>3. \A g \in Hedges : NeedsRepair(g)' => NeedsRepair(g) /\ g # h
      BY <1>1, <2>1, <3>1 DEF NeedsRepair
    <3> QED BY <1>1, <3>1, <3>2, <3>3 DEF DebtInv, TypeOK, DebtRecords
  <2>2. CASE NeedsRepair(h)
    <3>1. h = Recovery(h[1]) /\ debt[h[1]].allocated > 0
      BY <1>2, <2>2 DEF NeedsRepair, Recovery
    <3>2. debt' = [debt EXCEPT ![h[1]] = StoppedDebt(Recovery(h[1]))]
      BY <2>2, <3>1
    <3>3. /\ Books' /\ debt' \in [Levels -> DebtRecords] /\ paid' \in [Levels -> Nat]
          /\ debt'[h[1]].allocated = 0
      BY <1>1, <1>2, <3>1, <3>2, StoppedDebtStep
    <3>4. \A g \in Hedges : NeedsRepair(g)' => NeedsRepair(g) /\ g # h
      <4> SUFFICES ASSUME NEW g \in Hedges, NeedsRepair(g)'
                   PROVE  NeedsRepair(g) /\ g # h
        OBVIOUS
      <4>1. g[1] # h[1]
        BY <3>3 DEF NeedsRepair
      <4>2. debt'[g[1]] = debt[g[1]]
        BY <1>2, <3>2, <4>1, HedgeNames DEF DebtInv, TypeOK
      <4> QED BY <1>1, <4>1, <4>2 DEF NeedsRepair
    <3> QED BY <3>3, <3>4
  <2> QED BY <2>1, <2>2
<1>4. TypeOK'
  BY <1>1, <1>3 DEF DebtInv, TypeOK, DebtRecords
<1>5. Progress'
  BY <1>1 DEF Progress, InCycle, BeforeDebt, BeforeAllocation,
                    BeforeRecovery, DuringRecovery
<1>6. Repaired'
  BY <1>1, <1>3 DEF DebtInv, Repaired
<1> QED BY <1>3, <1>4, <1>5, <1>6 DEF DebtInv

\* The repair is over when it has visited everything.
LEMMA DebtsRepairedStep == DebtInv /\ DebtsRepaired => DebtInv'
<1> SUFFICES ASSUME DebtInv, DebtsRepaired
             PROVE  DebtInv'
  OBVIOUS
<1>1. /\ UNCHANGED <<intents, prot, closes, debt, paid, level, todo>>
      /\ pc = "repair" /\ pc' = "admit" /\ todo = {}
  BY DEF DebtsRepaired, Goto, storeVars
<1>2. Books'
  BY <1>1, QuietStep DEF DebtInv
<1>3. TypeOK'
  BY <1>1 DEF DebtInv, TypeOK, InStart
<1>4. Progress'
  BY <1>1 DEF Progress, InCycle, BeforeDebt, BeforeAllocation,
                    BeforeRecovery, DuringRecovery
<1>5. Repaired'
  BY <1>1 DEF DebtInv, Repaired, NeedsRepair
<1> QED BY <1>2, <1>3, <1>4, <1>5 DEF DebtInv

\* An admitted start works on a level that nothing was ever stored for.
LEMMA AdmitStep == DebtInv /\ Admit => DebtInv'
<1> SUFFICES ASSUME DebtInv, Admit
             PROVE  DebtInv'
  OBVIOUS
<1>1. /\ UNCHANGED <<intents, prot, closes, debt, paid, todo>>
      /\ pc = "admit" /\ pc' = "baseline" /\ level' \in Levels /\ IsNextLevel(level')
  BY DEF Admit, storeVars
<1>2. Books'
  BY <1>1, QuietStep DEF DebtInv
<1>3. TypeOK'
  BY <1>1 DEF DebtInv, TypeOK, InCycle
<1>4. Baseline(level') \notin intents /\ Recovery(level') \notin intents
  <2>1. ~(level' < level')
    BY <1>1 DEF Levels
  <2> QED BY <1>1, <2>1, HedgeNames DEF IsNextLevel
<1>5. /\ debt[level'] = NoDebt /\ paid[level'] = 0
      /\ prot[Baseline(level')] = NoHedge /\ prot[Recovery(level')] = NoHedge
  BY <1>1, <1>4, HedgeNames DEF DebtInv, Books, Untouched
<1>6. Progress'
  BY <1>1, <1>4, <1>5 DEF Progress, Baseline, Recovery, InCycle, BeforeDebt, BeforeAllocation,
                    BeforeRecovery, DuringRecovery
<1>7. Repaired'
  BY <1>1 DEF DebtInv, Repaired, NeedsRepair
<1> QED BY <1>2, <1>3, <1>6, <1>7 DEF DebtInv

\* An exception or a crash loses the place in the program and nothing else.
LEMMA CrashStep == DebtInv /\ (Raise \/ Crash) => DebtInv'
<1> SUFFICES ASSUME DebtInv, Raise \/ Crash
             PROVE  DebtInv'
  OBVIOUS
<1>1. /\ UNCHANGED <<intents, prot, closes, debt, paid>> /\ pc' \in {"safe", "down"}
      /\ level' \in Levels /\ todo' \subseteq Levels \X {0, 1, 2}
  BY FirstLevel DEF Raise, Crash, Goto, storeVars, DebtInv, TypeOK
<1>2. Books'
  BY <1>1, QuietStep DEF DebtInv
<1>3. TypeOK'
  BY <1>1 DEF DebtInv, TypeOK, InSafe
<1>4. Progress' /\ Repaired'
  BY <1>1 DEF Progress, Repaired, InCycle, BeforeDebt, BeforeAllocation,
                    BeforeRecovery, DuringRecovery
<1> QED BY <1>2, <1>3, <1>4 DEF DebtInv

\* A step that writes one level and does not lower its debt lowers no debt.
LEMMA RaisedDebt ==
  ASSUME TypeOK, NEW k \in Levels, NEW e, debt' = [debt EXCEPT ![k] = e],
         e.confirmed >= debt[k].confirmed
  PROVE  \A l \in Levels : debt'[l].confirmed >= debt[l].confirmed
<1>1. \A l \in Levels : debt[l].confirmed \in Nat
  BY Amounts
<1>2. \A l \in Levels : debt'[l] = IF l = k THEN e ELSE debt[l]
  BY DEF TypeOK
<1> QED BY <1>1, <1>2

\* Rolling a stopped recovery's loss into its debt lowers no debt.
LEMMA StoppedDebtKept ==
  ASSUME DebtInv, NEW k \in Levels, debt[k].allocated > 0,
         debt' = [debt EXCEPT ![k] = StoppedDebt(Recovery(k))],
         UNCHANGED <<intents, prot, closes, paid>>
  PROVE  \A l \in Levels : debt'[l].confirmed >= debt[l].confirmed
<1>1. debt'[k].confirmed >= debt[k].confirmed
  BY StoppedDebtStep
<1>2. StoppedDebt(Recovery(k)).confirmed >= debt[k].confirmed
  BY <1>1 DEF DebtInv, TypeOK
<1> QED BY <1>2, RaisedDebt DEF DebtInv

\* Outside the settlement, confirmed debt never falls.
LEMMA DebtIsKept ==
  ASSUME DebtInv, \/ RecordConfirmedStopDebt \/ AllocateDebt \/ ReleaseDebt
                  \/ RecordRecoveryStopDebt \/ RepairDebt
  PROVE  \A l \in Levels : debt'[l].confirmed >= debt[l].confirmed
<1>1. \A l \in Levels : /\ debt[l] \in DebtRecords /\ debt[l].confirmed \in Nat
                        /\ debt[l].confirmed = debt[l].allocated + debt[l].remaining
  BY Amounts DEF DebtInv, Books, DebtIsBalanced
<1>2. level \in Levels /\ TypeOK
  BY DEF DebtInv, TypeOK
<1>3. CASE RecordConfirmedStopDebt
  <2> DEFINE x == prot[Baseline(level)].loss
             e == AddConfirmedStopDebt(debt[level], x)
  <2>1. x \in Nat
    BY <1>2, HedgeNames, Amounts
  <2>2. e = AddConfirmedStopDebt(debt[level], x) /\ debt' = [debt EXCEPT ![level] = e]
    BY <1>3 DEF RecordConfirmedStopDebt
  <2> HIDE DEF x, e
  <2>3. e.confirmed = debt[level].confirmed + x
    BY <1>1, <1>2, <2>1, <2>2, AddFacts
  <2>4. e.confirmed >= debt[level].confirmed
    BY <1>1, <1>2, <2>1, <2>3
  <2> QED BY <1>2, <2>2, <2>4, RaisedDebt
<1>4. CASE AllocateDebt
  <2> DEFINE e == AllocateConfirmedDebt(debt[level])
  <2>1. e = AllocateConfirmedDebt(debt[level]) /\ debt' = [debt EXCEPT ![level] = e]
    BY <1>4 DEF AllocateDebt
  <2>2. debt[level].allocated = 0
    BY <1>4 DEF AllocateDebt, DebtInv, Progress, BeforeAllocation
  <2> HIDE DEF e
  <2>3. e.confirmed = debt[level].confirmed
    BY <1>1, <1>2, <2>1, <2>2, AllocateFacts
  <2>4. e.confirmed >= debt[level].confirmed
    BY <1>1, <1>2, <2>3
  <2> QED BY <1>2, <2>1, <2>4, RaisedDebt
<1>5. CASE ReleaseDebt
  <2> DEFINE e == ReleaseAllocatedDebt(debt[level])
  <2>1. e = ReleaseAllocatedDebt(debt[level]) /\ debt' = [debt EXCEPT ![level] = e]
    BY <1>5 DEF ReleaseDebt
  <2> HIDE DEF e
  <2>2. e.confirmed = debt[level].confirmed
    BY <1>1, <1>2, <2>1, ReleaseFacts
  <2>3. e.confirmed >= debt[level].confirmed
    BY <1>1, <1>2, <2>2
  <2> QED BY <1>2, <2>1, <2>3, RaisedDebt
<1>6. CASE UNCHANGED debt
  BY <1>1, <1>6
<1>7. CASE RecordRecoveryStopDebt
  <2>1. CASE debt[level].allocated = 0
    BY <1>6, <1>7, <2>1 DEF RecordRecoveryStopDebt
  <2>2. CASE debt[level].allocated # 0
    <3>1. debt[level].allocated > 0
      BY <1>2, <2>2, Amounts
    <3>2. /\ debt' = [debt EXCEPT ![level] = StoppedDebt(Recovery(level))]
          /\ UNCHANGED <<intents, prot, closes, paid>>
      BY <1>7, <2>2 DEF RecordRecoveryStopDebt
    <3> QED BY <1>2, <3>1, <3>2, StoppedDebtKept
  <2> QED BY <2>1, <2>2
<1>8. CASE RepairDebt
  <2> PICK h \in todo :
        debt' = IF NeedsRepair(h) THEN [debt EXCEPT ![h[1]] = StoppedDebt(h)] ELSE debt
    BY <1>8 DEF RepairDebt
  <2>1. UNCHANGED <<intents, prot, closes, paid>> /\ h \in Levels \X {0, 1, 2}
    BY <1>8 DEF RepairDebt, DebtInv, TypeOK
  <2>2. CASE NeedsRepair(h)
    <3>1. h[1] \in Levels /\ h = Recovery(h[1]) /\ debt[h[1]].allocated > 0
      BY <2>1, <2>2 DEF NeedsRepair, Recovery
    <3>2. debt' = [debt EXCEPT ![h[1]] = StoppedDebt(Recovery(h[1]))]
      BY <2>2, <3>1
    <3> QED BY <2>1, <3>1, <3>2, StoppedDebtKept
  <2>3. CASE ~NeedsRepair(h)
    BY <1>6, <2>3
  <2> QED BY <2>2, <2>3
<1> QED BY <1>3, <1>4, <1>5, <1>7, <1>8

-----------------------------------------------------------------------------
(* The invariant *)

\* The store starts empty and no process runs.
LEMMA InitDebt == Init => DebtInv
<1> SUFFICES ASSUME Init
             PROVE  DebtInv
  OBVIOUS
<1>1. NoHedge \in HedgeRecords /\ NoDebt \in DebtRecords
  BY DebtConstants DEF NoHedge, HedgeRecords, HedgeStates, NoDebt, DebtRecords
<1>2. TypeOK
  BY <1>1, FirstLevel DEF Init, TypeOK, HedgeRecords, DebtRecords
<1>3. \A l \in Levels : debt[l] = NoDebt /\ paid[l] = 0 /\ prot[Baseline(l)] = NoHedge
                        /\ prot[Recovery(l)] = NoHedge
  BY HedgeNames DEF Init
<1>4. DebtIsBalanced /\ LossCountsOnce /\ Allocations
  BY <1>3 DEF DebtIsBalanced, LossCountsOnce, Allocations, NoDebt, NoHedge
<1>5. Untouched
  BY <1>3 DEF Untouched, Init
<1>6. Progress /\ Repaired
  BY DEF Init, Progress, Repaired, InCycle, BeforeDebt, BeforeAllocation, BeforeRecovery,
         DuringRecovery
<1> QED BY <1>2, <1>4, <1>5, <1>6 DEF DebtInv, Books

\* Every step of the cycle, of the start and of the safe state keeps the invariant.
LEMMA NextDebt == DebtInv /\ [Next]_vars => DebtInv'
<1> SUFFICES ASSUME DebtInv, [Next]_vars
             PROVE  DebtInv'
  OBVIOUS
<1>1. CASE Cycle
  BY <1>1, PersistBaselineStep, ProtectBaselineStep, ExitFillStep, CloseExitStep, RecordStep,
     PlanStep, PersistRecoveryStep, AllocateStep, ProtectRecoveryStep, ReleaseStep,
     RecoveryStopStep, SettleStep DEF Cycle
<1>2. CASE Start
  BY <1>2, ReplayStep, ClosesReplayedStep, RepairStep, DebtsRepairedStep, AdmitStep DEF Start
<1>3. CASE MakeSafe \/ ApplyEmergencyExit \/ Raise \/ Crash
  BY <1>3, SafeStep, CrashStep
<1>4. CASE UNCHANGED vars
  BY <1>4 DEF vars, storeVars, runnerVars, DebtInv, TypeOK, Books, DebtIsBalanced,
              LossCountsOnce, Allocations, BaselineOnly, Untouched, Progress, Repaired,
              NeedsRepair
<1> QED BY <1>1, <1>2, <1>3, <1>4 DEF Next

\* The inductive invariant holds in every reachable state.
LEMMA DebtInvariant == Spec => []DebtInv
  BY InitDebt, NextDebt, PTL DEF Spec

\* The tables keep their types over every step.
LEMMA NextTypes ==
  ASSUME DebtInv, [Next]_vars
  PROVE  prot' \in [Hedges -> HedgeRecords] /\ debt' \in [Levels -> DebtRecords]
<1>1. DebtInv'
  BY NextDebt
<1> QED BY <1>1 DEF DebtInv, TypeOK, HedgeRecords, DebtRecords

-----------------------------------------------------------------------------
(* What is in the debt of a level whose recovery has a snapshot *)

\* Until the loss of the recovery is rolled, the debt is the loss of the baseline; then
\* it is both, or, where an emergency close lost more after the roll, more than the first.
RollOf(l) ==
  prot[Recovery(l)].state \in {"ACTIVE", "CLOSED_STOP", "ERROR"} =>
    /\ ~prot[Baseline(l)].open /\ paid[l] = 0
    /\ debt[l].allocated > 0 => debt[l].confirmed = prot[Baseline(l)].loss
    /\ debt[l].allocated = 0 =>
         \/ /\ prot[Recovery(l)].state = "CLOSED_STOP"
            /\ debt[l].confirmed = prot[Baseline(l)].loss + prot[Recovery(l)].loss
         \/ /\ prot[Recovery(l)].state = "ERROR"
            /\ debt[l].confirmed > prot[Baseline(l)].loss

OpenStates == \A h \in Hedges : prot[h].open => prot[h].state \in {"ACTIVE", "ERROR"}

\* How far the level of the running cycle has come, in amounts.
RollProgress ==
  /\ pc \in {"record", "submit", "protect_recovery"} \cup BeforeAllocation =>
       ~prot[Baseline(level)].open /\ prot[Baseline(level)].loss > 0 /\ paid[level] = 0
  /\ pc \in {"submit", "protect_recovery"} \cup BeforeAllocation =>
       debt[level].confirmed = prot[Baseline(level)].loss
  /\ pc \in {"submit", "protect_recovery"} => debt[level].allocated > 0
  /\ pc = "recovery_exit" => prot[Recovery(level)].state = "ACTIVE"
  /\ pc = "stop_debt" => prot[Recovery(level)].state = "CLOSED_STOP"

RollInv == OpenStates /\ RollProgress /\ \A l \in Levels : RollOf(l)

\* A step that leaves a level alone.
LEMMA RollFrame ==
  ASSUME NEW l \in Levels, RollOf(l), prot'[Baseline(l)] = prot[Baseline(l)],
         prot'[Recovery(l)] = prot[Recovery(l)], debt'[l] = debt[l], paid'[l] = paid[l]
  PROVE  RollOf(l)'
  BY DEF RollOf, Baseline, Recovery

\* A step that writes one snapshot: what it shows of the level of that hedge.
LEMMA RollHedgeStep ==
  ASSUME TypeOK, RollInv, NEW h \in Hedges, NEW q \in HedgeRecords,
         prot' = [prot EXCEPT ![h] = q], UNCHANGED <<debt, paid>>,
         q.open => q.state \in {"ACTIVE", "ERROR"}, RollOf(h[1])'
  PROVE  OpenStates' /\ \A l \in Levels : RollOf(l)'
<1>1. \A g \in Hedges : prot'[g] = IF g = h THEN q ELSE prot[g]
  BY DEF TypeOK
<1>2. OpenStates'
  BY <1>1 DEF RollInv, OpenStates
<1>3. ASSUME NEW l \in Levels PROVE RollOf(l)'
  <2>1. CASE l = h[1]
    BY <2>1
  <2>2. CASE l # h[1]
    BY <1>1, <2>2, HedgeNames, RollFrame DEF RollInv
  <2> QED BY <2>1, <2>2
<1> QED BY <1>2, <1>3

\* A step that writes the debt of one level: what it shows of that level.
LEMMA RollDebtStep ==
  ASSUME TypeOK, RollInv, NEW k \in Levels, UNCHANGED prot, RollOf(k)',
         \A l \in Levels : l # k => debt'[l] = debt[l] /\ paid'[l] = paid[l]
  PROVE  OpenStates' /\ \A l \in Levels : RollOf(l)'
<1>1. OpenStates'
  BY DEF RollInv, OpenStates
<1>2. ASSUME NEW l \in Levels PROVE RollOf(l)'
  BY RollFrame DEF RollInv
<1> QED BY <1>1, <1>2

\* A step that writes neither snapshots nor debt.
LEMMA RollQuietStep ==
  ASSUME DebtInv, RollInv,
         \/ PersistBaseline \/ PlanRecovery \/ PersistRecovery \/ SubmitRecovery \/ MakeSafe
         \/ Boot \/ ClosesReplayed \/ DebtsRepaired \/ Admit \/ Raise \/ Crash
         \/ UNCHANGED vars
  PROVE  RollInv'
<1>1. UNCHANGED <<prot, debt, paid>>
  BY DEF PersistBaseline, PlanRecovery, PersistRecovery, SubmitRecovery, MakeSafe, Boot,
         ClosesReplayed, DebtsRepaired, Admit, Raise, Crash, storeVars, vars
<1>2. OpenStates' /\ \A l \in Levels : RollOf(l)'
  BY <1>1 DEF RollInv, OpenStates, RollOf, Baseline, Recovery
<1>3. \/ pc' \in {"safe", "safe_apply", "down", "protect_baseline", "release", "replay",
                  "repair", "admit", "baseline"}
      \/ /\ level' = level
         /\ \/ pc' = pc
            \/ pc = "plan" /\ pc' = "persist"
            \/ pc = "persist" /\ pc' = "allocate"
            \/ pc = "submit" /\ pc' = "protect_recovery"
  BY DEF PersistBaseline, PlanRecovery, PersistRecovery, SubmitRecovery, MakeSafe, Boot,
         ClosesReplayed, DebtsRepaired, Admit, Raise, Crash, Goto, vars, runnerVars
<1>4. RollProgress'
  BY <1>1, <1>3 DEF RollInv, RollProgress, BeforeAllocation, Baseline, Recovery
<1> QED BY <1>2, <1>4 DEF RollInv

\* Protection of the baseline: its level has no recovery yet.
LEMMA RollProtectBaseline ==
  ASSUME DebtInv, RollInv, ProtectBaseline
  PROVE  RollInv'
<1> DEFINE q == [NoHedge EXCEPT !.state = "ACTIVE", !.open = TRUE]
<1>1. /\ prot' = [prot EXCEPT ![Baseline(level)] = q] /\ UNCHANGED <<debt, paid, level>>
      /\ pc = "protect_baseline" /\ pc' = "baseline_exit"
  BY DEF ProtectBaseline, ProtectHedge, Goto
<1>2. /\ level \in Levels /\ Baseline(level) \in Hedges /\ Baseline(level)[1] = level
      /\ Recovery(level) \in Hedges /\ Recovery(level) # Baseline(level)
  BY HedgeNames DEF DebtInv, TypeOK
<1>3. q \in HedgeRecords /\ q.state = "ACTIVE"
  BY OpenedRecord DEF NoHedge
<1>4. prot'[Recovery(level)].state = "NONE"
  BY <1>1, <1>2 DEF DebtInv, TypeOK, Progress, BeforeDebt, NoHedge
<1>5. RollOf(level)'
  BY <1>1, <1>4 DEF RollOf, Recovery
<1>6. OpenStates' /\ \A l \in Levels : RollOf(l)'
  <2> HIDE DEF q
  <2> QED BY <1>1, <1>2, <1>3, <1>5, RollHedgeStep DEF DebtInv
<1>7. RollProgress'
  BY <1>1 DEF RollProgress, BeforeAllocation
<1> QED BY <1>6, <1>7 DEF RollInv

\* Protection of the recovery: the debt is allocated and is the loss of the baseline.
LEMMA RollProtectRecovery ==
  ASSUME DebtInv, RollInv, ProtectRecovery
  PROVE  RollInv'
<1> DEFINE q == [NoHedge EXCEPT !.state = "ACTIVE", !.open = TRUE]
<1>1. /\ prot' = [prot EXCEPT ![Recovery(level)] = q] /\ UNCHANGED <<debt, paid, level>>
      /\ pc = "protect_recovery" /\ pc' = "recovery_exit"
  BY DEF ProtectRecovery, ProtectHedge, Goto
<1>2. /\ level \in Levels /\ Baseline(level) \in Hedges /\ Recovery(level)[1] = level
      /\ Recovery(level) \in Hedges /\ Recovery(level) # Baseline(level)
  BY HedgeNames DEF DebtInv, TypeOK
<1>3. q \in HedgeRecords /\ q.state = "ACTIVE"
  BY OpenedRecord DEF NoHedge
<1>4. prot'[Recovery(level)] = q /\ prot'[Baseline(level)] = prot[Baseline(level)]
  BY <1>1, <1>2 DEF DebtInv, TypeOK
<1>5. RollOf(level)'
  BY <1>1, <1>4 DEF RollInv, RollProgress, RollOf, Baseline, Recovery
<1>6. OpenStates' /\ \A l \in Levels : RollOf(l)'
  <2> HIDE DEF q
  <2> QED BY <1>1, <1>2, <1>3, <1>5, RollHedgeStep DEF DebtInv
<1>7. RollProgress'
  <2> HIDE DEF q
  <2> QED BY <1>1, <1>3, <1>4 DEF RollProgress, BeforeAllocation, Recovery
<1> QED BY <1>6, <1>7 DEF RollInv

\* An execution of an exit leaves the state; only an awaited recovery has a rolled debt.
LEMMA RollExitFill ==
  ASSUME DebtInv, RollInv, ExitFill
  PROVE  RollInv'
<1> PICK h \in Awaited, stop \in BOOLEAN, stillOpen \in BOOLEAN, loss \in Losses :
      /\ prot[h].open
      /\ prot' = [prot EXCEPT ![h] = [prot[h] EXCEPT !.open = stillOpen,
                                                     !.stopped = prot[h].stopped \/ stop,
                                                     !.loss = prot[h].loss + loss]]
      /\ UNCHANGED <<intents, closes, debt, runnerVars, paid>>
  BY DEF ExitFill
<1> DEFINE q == prot'[h]
<1>1. /\ level \in Levels /\ h \in Hedges /\ h[1] = level
      /\ Baseline(level) \in Hedges /\ Recovery(level) \in Hedges
      /\ Recovery(level) # Baseline(level)
      /\ \/ pc = "baseline_exit" /\ h = Baseline(level)
         \/ pc = "recovery_exit" /\ h = Recovery(level)
  BY HedgeNames DEF Awaited, DebtInv, TypeOK
<1>2. prot' \in [Hedges -> HedgeRecords]
  BY NextTypes, <1>1 DEF Next, Cycle
<1>3. q \in HedgeRecords /\ prot' = [prot EXCEPT ![h] = q]
  BY <1>1, <1>2 DEF DebtInv, TypeOK
<1>4. q.state = prot[h].state /\ prot[h].state \in {"ACTIVE", "ERROR"}
  BY <1>1 DEF DebtInv, TypeOK, RollInv, OpenStates
<1>5. \A g \in Hedges : g # h => prot'[g] = prot[g]
  BY <1>1 DEF DebtInv, TypeOK
<1>6. RollOf(level)'
  <2>1. CASE pc = "baseline_exit"
    <3>1. prot'[Recovery(level)].state = "NONE"
      BY <1>1, <1>5, <2>1 DEF DebtInv, Progress, BeforeDebt, NoHedge
    <3> QED BY <3>1 DEF RollOf, Recovery, runnerVars
  <2>2. CASE pc = "recovery_exit"
    <3>1. prot[Recovery(level)].state = "ACTIVE" /\ prot'[Recovery(level)].state = "ACTIVE"
      BY <1>1, <1>4, <2>2 DEF RollInv, RollProgress
    <3>2. prot'[Baseline(level)] = prot[Baseline(level)]
      BY <1>1, <1>5, <2>2
    <3> QED BY <1>1, <3>1, <3>2 DEF RollInv, RollOf, Baseline, Recovery, runnerVars
  <2> QED BY <1>1, <2>1, <2>2
<1>7. OpenStates' /\ \A l \in Levels : RollOf(l)'
  <2>1. RollOf(h[1])'
    BY <1>1, <1>6 DEF runnerVars, RollOf
  <2>2. UNCHANGED <<debt, paid>>
    OBVIOUS
  <2> HIDE DEF q
  <2> QED BY <1>1, <1>3, <1>4, <2>1, <2>2, RollHedgeStep DEF DebtInv
<1>8. RollProgress'
  BY <1>1, <1>4 DEF RollInv, RollProgress, BeforeAllocation, Recovery, runnerVars
<1> QED BY <1>7, <1>8 DEF RollInv

\* The close of an awaited hedge: a baseline that is closed stays out of the account of
\* its recovery, a recovery closed by its stop has its debt still allocated.
LEMMA RollCloseExit ==
  ASSUME DebtInv, RollInv, CloseExit
  PROVE  RollInv'
<1> PICK h \in Awaited :
      /\ ~prot[h].open
      /\ prot' = [prot EXCEPT ![h] = [prot[h] EXCEPT !.state = Terminal(prot[h])]]
      /\ Goto(AfterExit(h))
      /\ UNCHANGED <<intents, closes, debt, paid>>
  BY DEF CloseExit
<1> DEFINE q == prot'[h]
<1>1. /\ level \in Levels /\ h \in Hedges /\ h[1] = level
      /\ Baseline(level) \in Hedges /\ Recovery(level) \in Hedges
      /\ Recovery(level) # Baseline(level)
      /\ \/ pc = "baseline_exit" /\ h = Baseline(level)
         \/ pc = "recovery_exit" /\ h = Recovery(level)
  BY HedgeNames DEF Awaited, DebtInv, TypeOK
<1>2. UNCHANGED <<level, debt, paid>>
  BY DEF Goto
<1>3. q \in HedgeRecords /\ prot' = [prot EXCEPT ![h] = q]
  BY <1>1, NextTypes DEF DebtInv, TypeOK, Next, Cycle
<1>4. prot[h] \in HedgeRecords
  BY <1>1 DEF DebtInv, TypeOK, HedgeRecords
<1>5. /\ ~q.open /\ q.loss = prot[h].loss /\ q.stopped = prot[h].stopped
      /\ q.state = IF prot[h].stopped THEN "CLOSED_STOP" ELSE "CLOSED_TP"
  BY <1>1, <1>4 DEF DebtInv, TypeOK, HedgeRecords, Terminal
<1>6. \A g \in Hedges : g # h => prot'[g] = prot[g]
  BY <1>1 DEF DebtInv, TypeOK
<1>7. CASE pc = "baseline_exit"
  <2>1. h = Baseline(level) /\ prot[Recovery(level)].state = "NONE"
        /\ debt[level] = NoDebt /\ paid[level] = 0
    BY <1>1, <1>7 DEF DebtInv, Progress, BeforeDebt, NoHedge
  <2>2. prot'[Recovery(level)].state = "NONE"
    BY <1>1, <1>6, <2>1
  <2>3. RollOf(h[1])'
    BY <1>1, <1>2, <2>2 DEF RollOf, Recovery
  <2>4. OpenStates' /\ \A l \in Levels : RollOf(l)'
    <3> HIDE DEF q
    <3> QED BY <1>1, <1>2, <1>3, <1>5, <2>3, RollHedgeStep DEF DebtInv
  <2>5. pc' = IF prot[h].stopped /\ prot[h].loss > 0 THEN "record" ELSE "safe"
    BY <1>1, <2>1 DEF AfterExit, Goto
  <2>6. RollProgress'
    BY <1>2, <1>5, <2>1, <2>5 DEF RollProgress, BeforeAllocation, Baseline
  <2> QED BY <2>4, <2>6 DEF RollInv
<1>8. CASE pc = "recovery_exit"
  <2>1. h = Recovery(level) /\ prot[h].state = "ACTIVE"
    BY <1>1, <1>8 DEF RollInv, RollProgress
  <2>2. prot'[Baseline(level)] = prot[Baseline(level)]
    BY <1>1, <1>6, <2>1
  <2>3. /\ ~prot[Baseline(level)].open /\ paid[level] = 0
        /\ debt[level].allocated > 0 => debt[level].confirmed = prot[Baseline(level)].loss
        /\ debt[level].allocated # 0
    BY <1>1, <2>1 DEF RollInv, RollOf
  <2>4. RollOf(h[1])'
    <3>1. RollOf(level)'
      BY <1>1, <1>2, <2>2, <2>3 DEF RollOf, Baseline
    <3> QED BY <1>1, <1>2, <3>1
  <2>5. OpenStates' /\ \A l \in Levels : RollOf(l)'
    <3> HIDE DEF q
    <3> QED BY <1>1, <1>2, <1>3, <1>5, <2>4, RollHedgeStep DEF DebtInv
  <2>6. pc' = IF prot[h].stopped THEN "stop_debt" ELSE "settle"
    BY <2>1 DEF AfterExit, Goto
  <2>7. RollProgress'
    BY <1>2, <1>5, <2>1, <2>6 DEF RollProgress, BeforeAllocation, Recovery
  <2> QED BY <2>5, <2>7 DEF RollInv
<1> QED BY <1>1, <1>7, <1>8

\* An emergency exit books into an open hedge: an open baseline has no recovery yet, and
\* more loss of a recovery leaves what was rolled above the loss of the baseline.
LEMMA RollApplyClose ==
  ASSUME DebtInv, RollInv, NEW k \in Levels, ApplyClose(k), UNCHANGED <<debt, paid>>,
         prot' \in [Hedges -> HedgeRecords]
  PROVE  OpenStates' /\ \A l \in Levels : RollOf(l)'
<1>1. CASE UNCHANGED prot
  BY <1>1 DEF RollInv, OpenStates, RollOf, Baseline, Recovery
<1>2. CASE \E a \in {1, 2}, stillOpen \in BOOLEAN, loss \in Losses :
             /\ prot[<<k, a>>].open
             /\ prot' = [prot EXCEPT ![<<k, a>>] =
                           [state |-> "ERROR", open |-> stillOpen, stopped |-> TRUE,
                            loss |-> prot[<<k, a>>].loss + loss]]
  <2> PICK a \in {1, 2}, stillOpen \in BOOLEAN, loss \in Losses :
             /\ prot[<<k, a>>].open
             /\ prot' = [prot EXCEPT ![<<k, a>>] =
                           [state |-> "ERROR", open |-> stillOpen, stopped |-> TRUE,
                            loss |-> prot[<<k, a>>].loss + loss]]
    BY <1>2
  <2> DEFINE h == <<k, a>>
             q == prot'[h]
  <2>1. h \in Hedges /\ h[1] = k
    BY DEF Hedges
  <2>2. q.state = "ERROR" /\ q \in HedgeRecords /\ prot' = [prot EXCEPT ![h] = q]
    BY <2>1 DEF DebtInv, TypeOK
  <2>3. prot[h].open /\ prot[h].state \in {"ACTIVE", "ERROR"}
    BY <2>1 DEF RollInv, OpenStates
  <2>4. \A g \in Hedges : g # h => prot'[g] = prot[g]
    BY <2>1 DEF DebtInv, TypeOK
  <2>5. RollOf(k)
    BY DEF RollInv
  <2>6. /\ Baseline(k) \in Hedges /\ Recovery(k) \in Hedges /\ Baseline(k) # Recovery(k)
        /\ h = Baseline(k) \/ h = Recovery(k)
    BY <2>1, HedgeNames
  <2> HIDE DEF h, q
  <2>7. CASE h = Baseline(k)
    <3>1. prot[Recovery(k)].state \notin {"ACTIVE", "CLOSED_STOP", "ERROR"}
      BY <2>3, <2>5, <2>7 DEF RollOf
    <3>2. prot'[Recovery(k)] = prot[Recovery(k)]
      BY <2>4, <2>6, <2>7
    <3>3. RollOf(k)'
      BY <3>1, <3>2 DEF RollOf, Recovery
    <3> QED BY <2>1, <2>2, <3>3, RollHedgeStep DEF DebtInv
  <2>8. CASE h = Recovery(k)
    <3>1. prot'[Baseline(k)] = prot[Baseline(k)]
      BY <2>4, <2>6, <2>8
    <3>2. prot'[Recovery(k)].state = "ERROR"
      BY <2>2, <2>8 DEF q
    <3>3. RollOf(k)'
      BY <2>3, <2>5, <2>8, <3>1, <3>2 DEF RollOf, Baseline, Recovery
    <3> QED BY <2>1, <2>2, <3>3, RollHedgeStep DEF DebtInv
  <2> QED BY <2>6, <2>7, <2>8
<1> QED BY <1>1, <1>2 DEF ApplyClose

\* The emergency path and the replay of its closes by a start.
LEMMA RollEmergency ==
  ASSUME DebtInv, RollInv, ApplyEmergencyExit \/ ReplayClose
  PROVE  RollInv'
<1>1. /\ UNCHANGED <<debt, paid>> /\ pc' \in {"safe", "replay"}
      /\ \E k \in Levels : ApplyClose(k)
  BY DEF ApplyEmergencyExit, ReplayClose, Goto, DebtInv, TypeOK
<1>2. prot' \in [Hedges -> HedgeRecords]
  BY NextTypes DEF Next, Start
<1>3. OpenStates' /\ \A l \in Levels : RollOf(l)'
  BY <1>1, <1>2, RollApplyClose
<1>4. RollProgress'
  BY <1>1 DEF RollProgress, BeforeAllocation
<1> QED BY <1>3, <1>4 DEF RollInv

\* The records the writers of debt leave behind, field by field.
LEMMA DebtFields ==
  ASSUME NEW d \in DebtRecords, NEW x \in Nat
  PROVE  /\ AddConfirmedStopDebt(d, x).confirmed = d.confirmed + x
         /\ AllocateConfirmedDebt(d).confirmed = d.confirmed
         /\ AllocateConfirmedDebt(d).allocated = d.remaining
         /\ AddConfirmedStopDebt(ReleaseAllocatedDebt(d), x).confirmed = d.confirmed + x
         /\ AddConfirmedStopDebt(ReleaseAllocatedDebt(d), x).allocated = 0
  BY DEF DebtRecords, AddConfirmedStopDebt, AllocateConfirmedDebt, ReleaseAllocatedDebt

\* Rolling the loss of a stopped recovery makes its debt both losses.
LEMMA RollStoppedDebt ==
  ASSUME DebtInv, RollInv, NEW k \in Levels, debt[k].allocated > 0,
         debt' = [debt EXCEPT ![k] = StoppedDebt(Recovery(k))], UNCHANGED <<prot, paid>>,
         \/ prot[Recovery(k)].state = "CLOSED_STOP"
         \/ prot[Recovery(k)].state = "ERROR" /\ prot[Recovery(k)].loss > 0
  PROVE  OpenStates' /\ \A l \in Levels : RollOf(l)'
<1>1. /\ debt[k] \in DebtRecords /\ prot[Recovery(k)].loss \in Nat
      /\ prot[Baseline(k)].loss \in Nat
  BY HedgeNames, Amounts DEF DebtInv
<1>2. debt'[k] = AddConfirmedStopDebt(ReleaseAllocatedDebt(debt[k]), prot[Recovery(k)].loss)
  BY HedgeNames DEF DebtInv, TypeOK, StoppedDebt
<1>3. /\ debt'[k].confirmed = debt[k].confirmed + prot[Recovery(k)].loss
      /\ debt'[k].allocated = 0
  BY <1>1, <1>2, DebtFields
<1>4. /\ ~prot[Baseline(k)].open /\ paid[k] = 0
      /\ debt[k].confirmed = prot[Baseline(k)].loss
  BY DEF RollInv, RollOf
<1>5. debt'[k].confirmed = prot[Baseline(k)].loss + prot[Recovery(k)].loss
  BY <1>3, <1>4
<1>6. prot[Recovery(k)].loss > 0 => debt'[k].confirmed > prot[Baseline(k)].loss
  BY <1>1, <1>5
<1>7. RollOf(k)'
  <2>1. ~(debt'[k].allocated > 0)
    BY <1>3
  <2> QED BY <1>3, <1>4, <1>5, <1>6, <2>1 DEF RollOf, Baseline, Recovery
<1> QED BY <1>7, RollDebtStep DEF DebtInv, TypeOK

\* The first debt of a level is the loss of its baseline.
LEMMA RollRecord ==
  ASSUME DebtInv, RollInv, RecordConfirmedStopDebt
  PROVE  RollInv'
<1> DEFINE x == prot[Baseline(level)].loss
<1>1. /\ pc = "record" /\ pc' = "plan" /\ UNCHANGED <<prot, paid, level>>
      /\ debt' = [debt EXCEPT ![level] = AddConfirmedStopDebt(debt[level], x)]
  BY DEF RecordConfirmedStopDebt, Goto
<1>2. /\ level \in Levels /\ debt[level] \in DebtRecords /\ x \in Nat
      /\ debt[level].confirmed = 0 /\ prot[Recovery(level)].state = "NONE"
  BY <1>1, HedgeNames, Amounts
     DEF DebtInv, TypeOK, Progress, BeforeDebt, NoDebt, NoHedge
<1>3. debt'[level].confirmed = x
  <2>1. debt'[level] = AddConfirmedStopDebt(debt[level], x)
    BY <1>1, <1>2 DEF DebtInv, TypeOK
  <2> HIDE DEF x
  <2> QED BY <1>2, <2>1, DebtFields
<1>4. RollOf(level)'
  BY <1>1, <1>2 DEF RollOf, Recovery
<1>5. OpenStates' /\ \A l \in Levels : RollOf(l)'
  BY <1>1, <1>2, <1>4, RollDebtStep DEF DebtInv, TypeOK
<1>6. RollProgress'
  BY <1>1, <1>3 DEF RollInv, RollProgress, BeforeAllocation, Baseline
<1> QED BY <1>5, <1>6 DEF RollInv

\* The whole debt, which is not nothing, is allocated.
LEMMA RollAllocate ==
  ASSUME DebtInv, RollInv, AllocateDebt
  PROVE  RollInv'
<1>1. /\ pc = "allocate" /\ pc' = "submit" /\ UNCHANGED <<prot, paid, level>>
      /\ debt' = [debt EXCEPT ![level] = AllocateConfirmedDebt(debt[level])]
  BY DEF AllocateDebt, Goto
<1>2. /\ level \in Levels /\ debt[level] \in DebtRecords
      /\ debt[level].allocated = 0 /\ prot[Recovery(level)].state = "NONE"
      /\ debt[level].confirmed = debt[level].allocated + debt[level].remaining
  BY <1>1, Amounts
     DEF DebtInv, TypeOK, Books, DebtIsBalanced, Progress, BeforeAllocation, NoHedge
<1>3. debt[level].confirmed = prot[Baseline(level)].loss /\ prot[Baseline(level)].loss > 0
  BY <1>1 DEF RollInv, RollProgress, BeforeAllocation
<1>4. /\ debt'[level].confirmed = debt[level].confirmed
      /\ debt'[level].allocated = debt[level].remaining
  <2>1. debt'[level] = AllocateConfirmedDebt(debt[level])
    BY <1>1, <1>2 DEF DebtInv, TypeOK
  <2> QED BY <1>2, <2>1, DebtFields
<1>5. debt'[level].allocated > 0
  BY <1>2, <1>3, <1>4 DEF DebtRecords
<1>6. RollOf(level)'
  BY <1>1, <1>2 DEF RollOf, Recovery
<1>7. OpenStates' /\ \A l \in Levels : RollOf(l)'
  BY <1>1, <1>2, <1>6, RollDebtStep DEF DebtInv, TypeOK
<1>8. RollProgress'
  BY <1>1, <1>3, <1>4, <1>5 DEF RollInv, RollProgress, BeforeAllocation, Baseline
<1> QED BY <1>7, <1>8 DEF RollInv

\* A released or settled debt is of a level whose recovery never opened or took profit.
LEMMA RollReleaseSettle ==
  ASSUME DebtInv, RollInv, ReleaseDebt \/ SettleTakeProfit
  PROVE  RollInv'
<1>1. /\ level \in Levels /\ UNCHANGED <<prot, level>> /\ pc' \in {"safe", "down"}
      /\ \A l \in Levels : l # level => debt'[l] = debt[l] /\ paid'[l] = paid[l]
  BY DEF ReleaseDebt, SettleTakeProfit, Goto, DebtInv, TypeOK
<1>2. prot[Recovery(level)].state \in {"NONE", "CLOSED_TP"}
  BY DEF ReleaseDebt, SettleTakeProfit, DebtInv, Progress, BeforeRecovery, NoHedge
<1>3. RollOf(level)'
  BY <1>1, <1>2 DEF RollOf, Recovery
<1>4. OpenStates' /\ \A l \in Levels : RollOf(l)'
  BY <1>1, <1>3, RollDebtStep DEF DebtInv
<1>5. RollProgress'
  BY <1>1 DEF RollProgress, BeforeAllocation
<1> QED BY <1>4, <1>5 DEF RollInv

\* The cycle and the repair of a start roll the same way.
LEMMA RollRepair ==
  ASSUME DebtInv, RollInv, RecordRecoveryStopDebt \/ RepairDebt
  PROVE  RollInv'
<1>1. UNCHANGED <<prot, paid>> /\ pc' \in {"safe", "repair"}
  BY DEF RecordRecoveryStopDebt, RepairDebt, Goto
<1>2. OpenStates' /\ \A l \in Levels : RollOf(l)'
  <2>1. CASE UNCHANGED debt
    BY <1>1, <2>1 DEF RollInv, OpenStates, RollOf, Baseline, Recovery
  <2>2. CASE RecordRecoveryStopDebt /\ debt[level].allocated # 0
    <3>1. level \in Levels /\ debt[level].allocated > 0
      BY <2>2, Amounts DEF DebtInv, TypeOK
    <3>2. debt' = [debt EXCEPT ![level] = StoppedDebt(Recovery(level))]
      BY <2>2 DEF RecordRecoveryStopDebt
    <3>3. prot[Recovery(level)].state = "CLOSED_STOP"
      BY <2>2 DEF RecordRecoveryStopDebt, RollInv, RollProgress
    <3> QED BY <1>1, <3>1, <3>2, <3>3, RollStoppedDebt
  <2>3. CASE RepairDebt /\ debt' # debt
    <3> PICK h \in todo :
          NeedsRepair(h) /\ debt' = [debt EXCEPT ![h[1]] = StoppedDebt(h)]
      BY <2>3 DEF RepairDebt
    <3>1. h[1] \in Levels /\ h = Recovery(h[1])
      BY DEF DebtInv, TypeOK, NeedsRepair, Recovery
    <3>2. /\ debt[h[1]].allocated > 0 /\ prot[Recovery(h[1])].loss > 0
          /\ prot[Recovery(h[1])].state \in {"CLOSED_STOP", "ERROR"}
          /\ debt' = [debt EXCEPT ![h[1]] = StoppedDebt(Recovery(h[1]))]
      BY <3>1 DEF NeedsRepair
    <3> QED BY <1>1, <3>1, <3>2, RollStoppedDebt
  <2> QED BY <2>1, <2>2, <2>3 DEF RecordRecoveryStopDebt
<1>3. RollProgress'
  BY <1>1 DEF RollProgress, BeforeAllocation
<1> QED BY <1>2, <1>3 DEF RollInv

\* What is in every debt, in every reachable state.
LEMMA RollInvariant == Spec => []RollInv
<1>1. Init => RollInv
  <2> SUFFICES ASSUME Init
               PROVE  RollInv
    OBVIOUS
  <2>1. \A h \in Hedges : prot[h].state = "NONE" /\ ~prot[h].open
    BY DEF Init, NoHedge
  <2> QED BY <2>1, HedgeNames
          DEF Init, RollInv, OpenStates, RollProgress, BeforeAllocation, RollOf
<1>2. DebtInv /\ RollInv /\ [Next]_vars => RollInv'
  <2> SUFFICES ASSUME DebtInv, RollInv, [Next]_vars
               PROVE  RollInv'
    OBVIOUS
  <2>1. CASE Cycle
    BY <2>1, RollQuietStep, RollProtectBaseline, RollProtectRecovery, RollExitFill,
       RollCloseExit, RollRecord, RollAllocate, RollReleaseSettle, RollRepair DEF Cycle
  <2>2. CASE Start
    BY <2>2, RollQuietStep, RollEmergency, RollRepair DEF Start
  <2>3. CASE MakeSafe \/ ApplyEmergencyExit \/ Raise \/ Crash \/ UNCHANGED vars
    BY <2>3, RollQuietStep, RollEmergency
  <2> QED BY <2>1, <2>2, <2>3 DEF Next
<1> QED BY <1>1, <1>2, DebtInvariant, PTL DEF Spec

-----------------------------------------------------------------------------
(* Theorems *)

\* Every row, snapshot and amount keeps its type; no amount of debt goes negative.
THEOREM TypesAreKept == Spec => []TypeOK
<1>1. DebtInv => TypeOK
  BY DEF DebtInv
<1> QED BY <1>1, DebtInvariant, PTL

\* RecoveryDebtState can always be built: confirmed is allocated plus remaining.
THEOREM DebtBalances == Spec => []DebtIsBalanced
<1>1. DebtInv => DebtIsBalanced
  BY DEF DebtInv, Books
<1> QED BY <1>1, DebtInvariant, PTL

\* No crash, repair or restart makes a loss count twice.
THEOREM EachLossCountsOnce == Spec => []LossCountsOnce
<1>1. DebtInv => LossCountsOnce
  BY DEF DebtInv, Books
<1> QED BY <1>1, DebtInvariant, PTL

\* Debt is allocated only to a recovery whose intent is stored.
THEOREM AllocationFollowsIntent == Spec => []AllocationHasIntent
<1>1. DebtInv => AllocationHasIntent
  BY DEF DebtInv, Books, Allocations, AllocationHasIntent
<1> QED BY <1>1, DebtInvariant, PTL

\* At admission the free debt of a stopped recovery's level is exactly the losses of its two
\* hedges, and of an emergency-closed one more than the first: the repair looks once, and
\* what it finds allocated was, to the amount, the loss of the baseline.
THEOREM LossesRolledAtAdmission == Spec => []LossesAreRolled
<1>1. DebtInv /\ RollInv => LossesAreRolled
  <2> SUFFICES ASSUME DebtInv, RollInv, pc = "baseline", NEW l \in Levels,
                      prot[Recovery(l)].loss > 0,
                      prot[Recovery(l)].state \in {"CLOSED_STOP", "ERROR"}
               PROVE  /\ prot[Recovery(l)].state = "CLOSED_STOP" =>
                           debt[l].remaining = prot[Baseline(l)].loss + prot[Recovery(l)].loss
                      /\ prot[Recovery(l)].state = "ERROR" =>
                           debt[l].remaining > prot[Baseline(l)].loss
    BY DEF LossesAreRolled
  <2>1. ~(debt[l].row /\ debt[l].allocated > 0)
    BY HedgeNames DEF DebtInv, Repaired, NeedsRepair
  <2>2. ~debt[l].row => debt[l].allocated = 0
    BY DEF DebtInv, Books, Untouched, NoDebt
  <2>3. debt[l].allocated \in Nat /\ debt[l].remaining \in Nat /\ debt[l].confirmed \in Nat
    BY Amounts DEF DebtInv
  <2>4. debt[l].allocated = 0
    BY <2>1, <2>2, <2>3
  <2>5. debt[l].remaining = debt[l].confirmed
    BY <2>3, <2>4 DEF DebtInv, Books, DebtIsBalanced
  <2> QED BY <2>4, <2>5 DEF RollInv, RollOf
<1> QED BY <1>1, DebtInvariant, RollInvariant, PTL

\* Debt falls only when the take-profit of its recovery pays it, by what it pays.
THEOREM DebtFallsWhenPaid == Spec => DebtFallsOnlyByTakeProfit
<1> DEFINE Falls == \A l \in Levels : debt'[l].confirmed < debt[l].confirmed =>
                      /\ prot[Recovery(l)].state = "CLOSED_TP"
                      /\ debt[l].confirmed - debt'[l].confirmed <= debt[l].allocated
                      /\ paid'[l] - paid[l] = debt[l].confirmed - debt'[l].confirmed
<1>1. DebtInv /\ [Next]_vars => [Falls]_vars
  <2> SUFFICES ASSUME DebtInv, Next
               PROVE  Falls
    OBVIOUS
  <2>1. CASE UNCHANGED debt
    BY <2>1, Amounts DEF DebtInv
  <2>2. CASE SettleTakeProfit
    <3>1. /\ \A l \in Levels : l # level => debt'[l] = debt[l]
          /\ debt[level].confirmed - debt'[level].confirmed \in 0 .. debt[level].allocated
          /\ paid'[level] - paid[level] = debt[level].confirmed - debt'[level].confirmed
      BY <2>2, SettledDebt
    <3>2. prot[Recovery(level)].state = "CLOSED_TP"
      BY <2>2 DEF SettleTakeProfit, DebtInv, Progress
    <3>3. \A l \in Levels : debt[l].confirmed \in Nat /\ debt[l].allocated \in Nat
      BY Amounts DEF DebtInv
    <3> QED BY <3>1, <3>2, <3>3
  <2>3. CASE \/ RecordConfirmedStopDebt \/ AllocateDebt \/ ReleaseDebt
             \/ RecordRecoveryStopDebt \/ RepairDebt
    <3>1. \A l \in Levels : debt[l].confirmed \in Nat /\ debt'[l].confirmed >= debt[l].confirmed
      BY <2>3, Amounts, DebtIsKept DEF DebtInv
    <3>2. \A l \in Levels : debt'[l].confirmed \in Nat
      BY NextDebt DEF DebtInv, TypeOK
    <3> QED BY <3>1, <3>2
  <2> QED BY <2>1, <2>2, <2>3
          DEF Next, Cycle, Start, PersistBaseline, ProtectBaseline, ProtectRecovery,
              ProtectHedge, ExitFill, CloseExit, PlanRecovery, PersistRecovery, SubmitRecovery,
              Boot, ReplayClose, ClosesReplayed, DebtsRepaired, Admit, MakeSafe,
              ApplyEmergencyExit, Raise, Crash, storeVars
<1> QED BY <1>1, DebtInvariant, PTL DEF Spec, DebtFallsOnlyByTakeProfit
=============================================================================
