-------------------------- MODULE OptionSpreadProofs --------------------------
(***************************************************************************)
(* The spread is never naked and is OPEN only on proof, for every quantity,*)
(* policy, number of attempts and of cycles, and for restarts at any time; *)
(* hedging starts on one spread alone if a restart waits for settlement.   *)
(* And whatever the chain and the fills are, an OPEN spread keeps within   *)
(* the loss limit under which its pair was chosen.                         *)
(*                                                                         *)
(* The chain behind NoNakedShort is  filled short <= ordered short <=      *)
(* booked long <= filled long.  It survives every step because the short   *)
(* is sized once, after the long has ended with all its executions booked, *)
(* and because each cycle sends each leg at most once: the parts of        *)
(* SpreadInv about intents, states and the runner's control say that.      *)
(***************************************************************************)
EXTENDS OptionSpread, SpreadChoice, SumTheorems, TLAPS

Active == InTry \cup {"mark_error"}

\* The protective long has ended and every lot of it is booked.
LongProven(c) == order[Long(c)] = "DONE" /\ filled[Long(c)] = booked[Long(c)]

Counts ==
  \A o \in Orders :
    /\ recorded[o] = booked[o] /\ booked[o] <= published[o]
    /\ published[o] <= filled[o] /\ filled[o] <= size[o]

Untouched ==
  \A o \in Orders : o \notin intents =>
    o \notin acked /\ order[o] = "NONE" /\ filled[o] = 0 /\ size[o] = 0

LegOrder ==
  \A c \in Cycles :
    /\ size[Short(c)] <= booked[Long(c)]
    /\ Short(c) \in intents \/ spread[c] = "LONG_PROTECTION_FILLED" => LongProven(c)
    /\ spread[c] \in {"NONE", "LONG_PROTECTION_PENDING", "LONG_PROTECTION_FILLED"}
         => Short(c) \notin intents
    /\ spread[c] = "NONE" => Long(c) \notin intents
    /\ spread[c] = "OPEN" =>
         /\ filled[Long(c)] = Qty /\ order[Long(c)] = "DONE"
         /\ filled[Short(c)] = Qty /\ order[Short(c)] = "DONE"

\* Cycles are started in order, so that the next number is unused.
Contiguous == \E k \in 0 .. MaxCycles : Started = 1 .. k

Control ==
  /\ \A c \in todo : spread[c] = "ERROR" /\ Long(c) \in intents /\ Short(c) \notin intents
  /\ late => leg = "LONG"
  /\ pc \in {"boot_capture", "option_capture", "choose", "persist_long", "persist_short"}
       => todo = {} /\ ~late
  /\ pc \in Active /\ ~late => todo = {}
  /\ pc = "persist_long" =>
       leg = "LONG" /\ spread[cycle] = "NONE" /\ cycle = Cardinality(Started) + 1
  /\ pc = "persist_short" => spread[cycle] = "LONG_PROTECTION_FILLED"
  /\ pc \in Active =>
       /\ This \in intents /\ cycle \notin todo
       /\ leg = "LONG" => /\ spread[cycle] \in {"LONG_PROTECTION_PENDING", "ERROR"}
                          /\ Short(cycle) \notin intents
       /\ leg = "SHORT" => spread[cycle] = "SHORT_PREMIUM_PENDING"
  /\ pc = "place" => order[This] = "NONE" /\ filled[This] = 0
  /\ pc = "apply" => seen <= published[This] /\ next <= recorded[This] + 1
  /\ pc \in {"fetch", "apply", "order"} => tries < Attempts

SpreadInv == TypeOK /\ Counts /\ Untouched /\ LegOrder /\ Contiguous /\ Control

-----------------------------------------------------------------------------
(* Orders and cycles *)

\* A leg of a cycle is an order, and the two legs are different ones.
LEMMA Pairs ==
  /\ \A c \in Cycles, l \in Legs : <<c, l>> \in Orders
  /\ \A c \in Cycles : Long(c) \in Orders /\ Short(c) \in Orders
  /\ \A c, d \in Cycles : Long(c) # Short(d)
  /\ \A c, d \in Cycles : c # d => Long(c) # Long(d) /\ Short(c) # Short(d)
  /\ \A o \in Orders : \E c \in Cycles : o = Long(c) \/ o = Short(c)
BY DEF Orders, Long, Short, Legs

\* The number of the next cycle is that of a cycle not yet started.
LEMMA NextIsNew ==
  ASSUME Contiguous, NextCycle \in Cycles
  PROVE  NextCycle \notin Started
<1>1. PICK k \in 0 .. MaxCycles : Started = 1 .. k
  BY DEF Contiguous
<1>2. Cardinality(1 .. k) = k
  BY <1>1, FS_Interval, SpreadConstants
<1> QED BY <1>1, <1>2, SpreadConstants DEF NextCycle

\* Starting the next cycle keeps the cycles contiguous.
LEMMA StaysContiguous ==
  ASSUME Contiguous, cycle \in Cycles, cycle = Cardinality(Started) + 1,
         Started' = Started \cup {cycle}
  PROVE  Contiguous'
<1>1. PICK k \in 0 .. MaxCycles : Started = 1 .. k
  BY DEF Contiguous
<1>2. Cardinality(1 .. k) = k
  BY <1>1, FS_Interval, SpreadConstants
<1>3. cycle = k + 1 /\ k + 1 \in 0 .. MaxCycles /\ Started' = 1 .. k + 1
  BY <1>1, <1>2, SpreadConstants DEF Cycles
<1> QED BY <1>3 DEF Contiguous

-----------------------------------------------------------------------------
(* The invariant holds initially and is kept by every step *)

\* Nothing is ordered, filled or booked at first.
LEMMA SpreadInit == Init => SpreadInv
<1> SUFFICES ASSUME Init PROVE SpreadInv
  OBVIOUS
<1>1. TypeOK
  <2>1. DOMAIN capture = {}
    BY DEF Init, NothingRead
  <2>2. 1 \in Cycles /\ 0 \in 0 .. Qty /\ 0 \in 0 .. Attempts /\ 1 \in 1 .. Qty + 1
    BY SpreadConstants DEF Cycles
  <2> QED BY <2>1, <2>2 DEF Init, TypeOK, Legs, SpreadStates, Ended
<1>2. Counts /\ Untouched
  BY DEF Init, Counts, Untouched
<1>3. LegOrder
  BY Pairs DEF Init, LegOrder, LongProven
<1>4. Contiguous
  <2>1. Started = 1 .. 0
    BY DEF Init, Started
  <2> QED BY <2>1, SpreadConstants DEF Contiguous
<1>5. Control
  BY DEF Init, Control, Active, InTry
<1> QED BY <1>1, <1>2, <1>3, <1>4, <1>5 DEF SpreadInv

\* The exchange moves one order and leaves the store and the runner alone.
LEMMA ExchangeKeeps ==
  ASSUME SpreadInv, Exchange
  PROVE  SpreadInv'
<1> USE DEF SpreadInv
<1>0. PICK o \in Orders : Arrive(o) \/ Vanish(o) \/ Fill(o) \/ Expire(o) \/ Publish(o)
  BY DEF Exchange
<1>1. UNCHANGED <<size, storeVars, runnerVars>>
  BY <1>0 DEF Arrive, Vanish, Fill, Expire, Publish
<1>2. /\ order' \in [Orders -> {"NONE", "INFLIGHT", "OPEN", "DONE"}]
      /\ filled' \in [Orders -> 0 .. Qty] /\ published' \in [Orders -> 0 .. Qty]
      /\ \A p \in Orders : order[p] \in {"NONE", "DONE"} =>
           order'[p] = order[p] /\ filled'[p] = filled[p]
      /\ \A p \in Orders : published[p] <= published'[p] /\ published'[p] <= filled'[p]
                           /\ filled'[p] <= size[p]
  BY <1>0, SpreadConstants DEF Arrive, Vanish, Fill, Expire, Publish, TypeOK, Counts
<1>3. TypeOK'
  BY <1>1, <1>2 DEF TypeOK, storeVars, runnerVars
<1>4. Counts' /\ Untouched'
  BY <1>1, <1>2 DEF TypeOK, Counts, Untouched, storeVars
<1>5. LegOrder'
  BY <1>1, <1>2, Pairs DEF TypeOK, LegOrder, LongProven, storeVars
<1>6. Contiguous'
  BY <1>1 DEF Contiguous, Started, storeVars
<1>7. Control'
  <2>1. This \in Orders
    BY Pairs DEF TypeOK, This
  <2> QED BY <1>1, <1>2, <2>1, Pairs DEF TypeOK, Control, This, Started, storeVars, runnerVars
<1> QED BY <1>3, <1>4, <1>5, <1>6, <1>7

\* A step that changes neither the exchange nor the store keeps their part.
LEMMA DurablePartKept ==
  ASSUME SpreadInv, UNCHANGED <<exchangeVars, storeVars>>
  PROVE  Counts' /\ Untouched' /\ LegOrder' /\ Contiguous'
BY DEF SpreadInv, exchangeVars, storeVars, Counts, Untouched, LegOrder, LongProven, Contiguous,
   Started

\* The reads and decisions of the entry service.
LEMMA ServiceReadsKeep ==
  ASSUME SpreadInv, LookupLeg \/ FetchExecutions \/ ExecutionsApplied
  PROVE  SpreadInv'
<1> USE DEF SpreadInv
<1>0. This \in Orders /\ UNCHANGED <<exchangeVars, storeVars>>
  BY Pairs DEF TypeOK, This, LookupLeg, FetchExecutions, ExecutionsApplied
<1>1. TypeOK'
  BY <1>0, SpreadConstants DEF LookupLeg, FetchExecutions, ExecutionsApplied, TypeOK, Goto, InTry,
     Outside, exchangeVars, storeVars
<1>2. Control'
  BY <1>0 DEF LookupLeg, FetchExecutions, ExecutionsApplied, TypeOK, Control, Counts, Active,
     Goto, InTry, Started, This, exchangeVars, storeVars
<1> QED BY <1>0, <1>1, <1>2, DurablePartKept

\* The start: late longs, the reconciliation and the choice that follows it.
LEMMA StartKeeps ==
  ASSUME SpreadInv,
         \/ NextLate \/ LateDone \/ (\E s \in Surfaces : ReadSurface(s)) \/ Reconcile
         \/ LoadOpen \/ CompleteLong \/ OpenNew \/ RefuseOptions
  PROVE  SpreadInv'
<1> USE DEF SpreadInv
<1>0. UNCHANGED <<exchangeVars, storeVars>>
  BY DEF NextLate, LateDone, ReadSurface, Reconcile, LoadOpen, CompleteLong, OpenNew,
     RefuseOptions
<1>1. CASE NextLate
  <2>1. PICK c \in todo : todo' = todo \ {c} /\ cycle' = c /\ leg' = "LONG" /\ late' = TRUE
    BY <1>1 DEF NextLate
  <2>2. TypeOK'
    BY <1>0, <1>1, <2>1, SpreadConstants DEF NextLate, TypeOK, InTry, Legs, exchangeVars, storeVars
  <2>3. Control'
    BY <1>0, <1>1, <2>1, SpreadConstants DEF NextLate, TypeOK, Control, Active, InTry, Long, Short, This,
       Started, exchangeVars, storeVars
  <2> QED BY <1>0, <2>2, <2>3, DurablePartKept
<1>2. CASE LateDone \/ (\E s \in Surfaces : ReadSurface(s)) \/ Reconcile \/ LoadOpen \/ RefuseOptions
  <2>1. DOMAIN capture' \subseteq Surfaces
    <3>1. CASE \E s \in Surfaces : ReadSurface(s)
      <4>1. PICK s \in Surfaces : ReadSurface(s)
        BY <3>1
      <4>2. DOMAIN capture' = DOMAIN capture \cup {s}
        BY <4>1 DEF ReadSurface
      <4> QED BY <4>1, <4>2 DEF TypeOK
    <3>2. CASE Reconcile
      <4>1. capture' = NothingRead /\ DOMAIN NothingRead = {}
        BY <3>2 DEF Reconcile, NothingRead
      <4> QED BY <4>1
    <3>3. CASE LateDone \/ LoadOpen \/ RefuseOptions
      BY <3>3 DEF LateDone, LoadOpen, RefuseOptions, Goto, TypeOK
    <3> QED BY <1>2, <3>1, <3>2, <3>3
  <2>2. TypeOK'
    BY <1>0, <1>2, <2>1 DEF LateDone, ReadSurface, Reconcile, LoadOpen, RefuseOptions, Goto, TypeOK,
       Capturing, InStart, Outside, Ended, exchangeVars, storeVars
  <2>3. /\ pc \in {"boot_capture", "option_capture", "choose"} \/ (pc = "late" /\ todo = {})
        /\ todo' = todo /\ ~late' /\ leg' = leg
        /\ pc' \notin Active \cup {"persist_long", "persist_short"}
    <3>1. CASE LateDone
      BY <3>1 DEF LateDone, Active, InTry
    <3>2. CASE \E s \in Surfaces : ReadSurface(s)
      BY <3>2 DEF ReadSurface, Capturing, Control, Active, InTry
    <3>3. CASE Reconcile
      BY <3>3 DEF Reconcile, Capturing, Control, Active, InTry
    <3>4. CASE LoadOpen \/ RefuseOptions
      BY <3>4 DEF LoadOpen, RefuseOptions, Goto, Control, Active, InTry
    <3> QED BY <1>2, <3>1, <3>2, <3>3, <3>4
  <2>4. Control'
    BY <1>0, <2>3 DEF Control, Active, InTry, storeVars
  <2> QED BY <1>0, <2>2, <2>4, DurablePartKept
<1>3. CASE CompleteLong \/ OpenNew
  <2>1. OpenNew => NextCycle \notin Started
    BY NextIsNew DEF OpenNew
  <2>2. TypeOK'
    BY <1>0, <1>3 DEF CompleteLong, OpenNew, InState, TypeOK, Legs, Outside, exchangeVars, storeVars
  <2>3. Control'
    BY <1>0, <1>3, <2>1 DEF CompleteLong, OpenNew, InState, TypeOK, Control, Active, InTry, This,
       Started, NextCycle, exchangeVars, storeVars
  <2> QED BY <1>0, <2>2, <2>3, DurablePartKept
<1> QED BY <1>1, <1>2, <1>3

\* Exceptions, crashes and restarts lose the runner's own variables only.
LEMMA FailuresKeep ==
  ASSUME SpreadInv, Raise \/ Crash \/ Boot
  PROVE  SpreadInv'
<1> USE DEF SpreadInv
<1>0. UNCHANGED <<exchangeVars, storeVars>>
  BY DEF Raise, Crash, Boot
<1>1. \/ /\ pc \in InTry /\ pc' = "mark_error"
         /\ UNCHANGED <<tries, cycle, leg, late, todo, next, seen, capture>>
      \/ /\ pc' \in {"refused", "halted", "down", "late"}
         /\ tries' = 0 /\ cycle' = 1 /\ leg' = "LONG" /\ late' = FALSE
         /\ next' = 1 /\ seen' = 0 /\ capture' = NothingRead
         /\ todo' = {} \/ todo' = {c \in Cycles : IsLateLong(c)}
  BY DEF Raise, Crash, Boot, Fresh, Goto
<1>2. TypeOK'
  <2>1. 1 \in Cycles /\ 0 \in 0 .. Qty /\ 0 \in 0 .. Attempts /\ 1 \in 1 .. Qty + 1
    BY SpreadConstants DEF Cycles
  <2>2. DOMAIN NothingRead = {}
    BY DEF NothingRead
  <2>3. todo' \subseteq Cycles /\ DOMAIN capture' \subseteq Surfaces
    BY <1>1, <2>2 DEF TypeOK
  <2>4. pc' \in InTry \cup InStart \cup Outside \cup Ended
    BY <1>1 DEF InStart, Outside, Ended
  <2> QED BY <1>0, <1>1, <2>1, <2>3, <2>4 DEF TypeOK, Legs, exchangeVars, storeVars
<1>3. \A c \in todo' : spread[c] = "ERROR" /\ Long(c) \in intents /\ Short(c) \notin intents
  BY <1>1, Pairs DEF IsLateLong, Control, Untouched, TypeOK
<1>4. Control'
  BY <1>0, <1>1, <1>3 DEF Control, Active, InTry, This, Started, exchangeVars, storeVars
<1> QED BY <1>0, <1>2, <1>4, DurablePartKept

\* The intent of a leg is stored with its new state; nothing of it exists yet.
LEMMA PersistKeeps ==
  ASSUME SpreadInv, PersistLong \/ PersistShort
  PROVE  SpreadInv'
<1> USE DEF SpreadInv
<1>0. /\ cycle \in Cycles /\ Long(cycle) \in Orders /\ Short(cycle) \in Orders
      /\ UNCHANGED <<exchangeVars, recorded, booked, acked, cycle, late, todo, tries>>
      /\ pc' = "place" /\ todo = {} /\ ~late
  BY Pairs DEF TypeOK, PersistLong, PersistShort, Goto, Control
<1>1. TypeOK'
  BY <1>0 DEF PersistLong, PersistShort, Goto, TypeOK, SpreadStates, InTry, Legs, exchangeVars
<1>2. Counts' /\ Untouched'
  BY <1>0 DEF PersistLong, PersistShort, TypeOK, Counts, Untouched, exchangeVars
<1>3. CASE PersistLong
  <2>1. Long(cycle) \notin intents /\ Short(cycle) \notin intents /\ spread[cycle] = "NONE"
        /\ leg = "LONG" /\ cycle = Cardinality(Started) + 1
    BY <1>0, <1>3 DEF PersistLong, Control, LegOrder
  <2>2. LegOrder'
    BY <1>0, <1>3, <2>1, Pairs DEF PersistLong, TypeOK, LegOrder, LongProven, exchangeVars
  <2>3. Contiguous'
    <3>1. Started' = Started \cup {cycle}
      BY <1>0, <1>3 DEF PersistLong, Started, TypeOK
    <3> QED BY <1>0, <2>1, <3>1, StaysContiguous
  <2>4. Control'
    BY <1>0, <1>3, <2>1, Pairs DEF PersistLong, Goto, TypeOK, Control, Untouched, Active, InTry, This, Long,
       Short, exchangeVars
  <2> QED BY <1>1, <1>2, <2>2, <2>3, <2>4
<1>4. CASE PersistShort
  <2>1. Short(cycle) \notin intents /\ spread[cycle] = "LONG_PROTECTION_FILLED" /\ LongProven(cycle)
    BY <1>0, <1>4 DEF PersistShort, Control, LegOrder
  <2>2. LegOrder'
    BY <1>0, <1>4, <2>1, Pairs DEF PersistShort, TypeOK, LegOrder, LongProven, exchangeVars
  <2>3. Contiguous'
    <3>1. Started' = Started
      BY <1>0, <1>4, <2>1 DEF PersistShort, Started, TypeOK
    <3> QED BY <3>1 DEF Contiguous
  <2>4. Control'
    BY <1>0, <1>4, <2>1, Pairs DEF PersistShort, TypeOK, Control, Untouched, Active, InTry, This, Short,
       exchangeVars
  <2> QED BY <1>1, <1>2, <2>2, <2>3, <2>4
<1> QED BY <1>3, <1>4

\* The order is sent for the first time, with the quantity its leg may have.
LEMMA PlaceKeeps ==
  ASSUME SpreadInv, PlaceLeg
  PROVE  SpreadInv'
<1> USE DEF SpreadInv
<1> DEFINE q == IF leg = "LONG" THEN Qty ELSE ShortQuantity
<1>0. /\ cycle \in Cycles /\ This \in Orders /\ This \in intents
      /\ order[This] = "NONE" /\ filled[This] = 0
      /\ UNCHANGED <<filled, published, storeVars, tries, cycle, leg, late, todo, next, seen, capture>>
      /\ pc = "place" /\ pc' \in {"ack", "lookup", "mark_error"}
      /\ size' = [size EXCEPT ![This] = q]
      /\ \E st \in {"NONE", "INFLIGHT", "OPEN"} : order' = [order EXCEPT ![This] = st]
  <2>1. UNCHANGED order => order' = [order EXCEPT ![This] = order[This]]
    BY DEF TypeOK
  <2> QED BY <2>1, Pairs DEF TypeOK, PlaceLeg, Goto, Control, Active, InTry, This
<1>1. q \in 0 .. Qty
  BY <1>0, Pairs, SpreadConstants DEF TypeOK, ShortQuantity
<1>2. TypeOK'
  BY <1>0, <1>1 DEF TypeOK, storeVars, InTry, Outside
<1>3. Counts' /\ Untouched'
  BY <1>0, <1>1 DEF TypeOK, Counts, Untouched, storeVars
<1>4. LegOrder'
  <2>1. CASE leg = "LONG"
    <3>1. /\ This = Long(cycle) /\ Short(cycle) \notin intents
          /\ spread[cycle] \in {"LONG_PROTECTION_PENDING", "ERROR"}
      BY <1>0, <2>1 DEF This, Long, Control, Active, InTry
    <3> QED BY <1>0, <1>1, <2>1, <3>1, Pairs DEF TypeOK, LegOrder, LongProven, storeVars
  <2>2. CASE leg = "SHORT"
    <3>1. This = Short(cycle) /\ spread[cycle] = "SHORT_PREMIUM_PENDING" /\ q = booked[Long(cycle)]
      BY <1>0, <2>2 DEF This, Short, Control, Active, InTry, ShortQuantity
    <3> QED BY <1>0, <1>1, <2>2, <3>1, Pairs DEF TypeOK, LegOrder, LongProven, storeVars
  <2> QED BY <2>1, <2>2 DEF TypeOK, Legs
<1>5. Contiguous'
  BY <1>0 DEF Contiguous, Started, storeVars
<1>6. Control'
  BY <1>0 DEF Control, Active, InTry, This, Started, storeVars
<1> QED BY <1>2, <1>3, <1>4, <1>5, <1>6

\* The acknowledgement is stored for an order that has an intent.
LEMMA AckKeeps ==
  ASSUME SpreadInv, AckLeg
  PROVE  SpreadInv'
<1> USE DEF SpreadInv
<1>0. This \in Orders /\ This \in intents /\ acked' = acked \cup {This}
  BY Pairs DEF TypeOK, AckLeg, This, Control, Active, InTry
<1>1. TypeOK'
  BY <1>0, SpreadConstants DEF AckLeg, TypeOK, InTry, exchangeVars
<1>2. Counts' /\ Untouched' /\ LegOrder' /\ Contiguous'
  BY <1>0 DEF AckLeg, Counts, Untouched, LegOrder, LongProven, Contiguous, Started, exchangeVars
<1>3. Control'
  BY <1>0, SpreadConstants DEF AckLeg, Control, Active, InTry, This, Started, TypeOK, exchangeVars
<1> QED BY <1>1, <1>2, <1>3

\* An execution is booked once: the next one is new exactly when it follows the
\* recorded ones.
LEMMA ApplyKeeps ==
  ASSUME SpreadInv, ApplyExecution
  PROVE  SpreadInv'
<1> USE DEF SpreadInv
<1>0. /\ cycle \in Cycles /\ This \in Orders /\ This \in intents /\ pc = "apply"
      /\ next <= seen /\ seen <= published[This] /\ next <= recorded[This] + 1
      /\ next' = next + 1 /\ next' \in 1 .. Qty + 1
      /\ UNCHANGED <<exchangeVars, intents, spread, tries, cycle, leg, late, todo, seen, capture>>
  BY Pairs, SpreadConstants DEF TypeOK, ApplyExecution, This, Control, Active, InTry
<1>1. CASE ~IsNew(next) \/ booked[This] + 1 > Limit
  <2>1. UNCHANGED <<recorded, booked, acked>> /\ pc' \in {"apply", "mark_error"}
        /\ (pc' = "apply" => ~IsNew(next))
    BY <1>0, <1>1 DEF ApplyExecution
  <2>2. TypeOK'
    BY <1>0, <2>1 DEF TypeOK, InTry, Outside, exchangeVars
  <2>3. Counts' /\ Untouched' /\ LegOrder' /\ Contiguous'
    BY <1>0, <2>1 DEF Counts, Untouched, LegOrder, LongProven, Contiguous, Started, exchangeVars
  <2>4. Control'
    <3>1. pc' = "apply" => next' <= recorded'[This] + 1
      BY <1>0, <2>1 DEF TypeOK, IsNew
    <3> QED BY <1>0, <2>1, <3>1 DEF Control, Active, InTry, This, Started, TypeOK, exchangeVars
  <2> QED BY <2>2, <2>3, <2>4
<1>2. CASE IsNew(next) /\ booked[This] + 1 <= Limit
  <2>1. /\ recorded' = [recorded EXCEPT ![This] = next] /\ booked' = [booked EXCEPT ![This] = @ + 1]
        /\ acked' = acked \cup {This} /\ pc' = pc
        /\ next = recorded[This] + 1 /\ next = booked[This] + 1 /\ next <= Qty
    <3>1. ~(booked[This] + 1 > Limit) /\ Limit \in 0 .. Qty /\ booked[This] \in 0 .. Qty
      BY <1>0, <1>2, Pairs, SpreadConstants DEF TypeOK, Limit
    <3>2. /\ recorded' = [recorded EXCEPT ![This] = next]
          /\ booked' = [booked EXCEPT ![This] = @ + 1]
          /\ acked' = acked \cup {This} /\ pc' = pc
      BY <1>0, <1>2, <3>1 DEF ApplyExecution
    <3>3. next > recorded[This] /\ recorded[This] = booked[This] /\ next \in 1 .. Qty + 1
      BY <1>0, <1>2 DEF TypeOK, IsNew, Counts
    <3>4. next = recorded[This] + 1 /\ next = booked[This] + 1 /\ next <= Qty
      BY <1>0, <1>2, <3>1, <3>3, SpreadConstants
    <3> QED BY <3>2, <3>4
  <2>2. TypeOK'
    BY <1>0, <2>1 DEF TypeOK, exchangeVars
  <2>3. Counts'
    BY <1>0, <2>1 DEF TypeOK, Counts, exchangeVars
  <2>4. Untouched'
    BY <1>0, <2>1 DEF Untouched, exchangeVars
  <2>5. LegOrder'
    <3>1. \A c \in Cycles : booked[Long(c)] <= booked'[Long(c)]
      BY <1>0, <2>1, Pairs DEF TypeOK
    <3>2. \A c \in Cycles : LongProven(c) => booked'[Long(c)] = booked[Long(c)]
      BY <1>0, <2>1, Pairs DEF TypeOK, LongProven, Counts
    <3> QED BY <1>0, <2>1, <3>1, <3>2, Pairs DEF TypeOK, LegOrder, LongProven, exchangeVars
  <2>6. Contiguous'
    BY <1>0 DEF Contiguous, Started
  <2>7. Control'
    BY <1>0, <2>1 DEF Control, Active, InTry, This, Started, TypeOK, exchangeVars
  <2> QED BY <2>2, <2>3, <2>4, <2>5, <2>6, <2>7
<1> QED
  <2>1. booked[This] + 1 > Limit \/ booked[This] + 1 <= Limit
    BY <1>0, Pairs, SpreadConstants DEF TypeOK, Limit
  <2> QED BY <1>1, <1>2, <2>1

\* A leg is finalized when its order has ended and every lot of it is booked.
LEMMA CheckKeeps ==
  ASSUME SpreadInv, CheckOrder
  PROVE  SpreadInv'
<1> USE DEF SpreadInv
<1>0. /\ cycle \in Cycles /\ This \in Orders /\ This \in intents /\ pc = "order"
      /\ tries \in 0 .. Attempts /\ tries < Attempts
      /\ spread[cycle] # "NONE" /\ (~late => todo = {}) /\ cycle \notin todo
      /\ UNCHANGED <<exchangeVars, intents, recorded, booked, acked, cycle, leg, late, todo, next, seen,
                     capture>>
  <2>1. pc = "order" /\ pc \in Active
    BY DEF CheckOrder, Active, InTry
  <2>2. cycle \in Cycles /\ leg \in Legs /\ tries \in 0 .. Attempts /\ This \in Orders
    BY Pairs DEF TypeOK, This
  <2>3. /\ This \in intents /\ tries < Attempts /\ cycle \notin todo
        /\ spread[cycle] \in {"LONG_PROTECTION_PENDING", "ERROR", "SHORT_PREMIUM_PENDING"}
    BY <2>1, <2>2 DEF Control, Legs
  <2>4. ~late => todo = {}
    BY <2>1 DEF Control
  <2>5. UNCHANGED <<exchangeVars, intents, recorded, booked, acked, cycle, leg, late, todo, next, seen,
                    capture>>
    BY DEF CheckOrder, Goto, Again
  <2> QED BY <2>1, <2>2, <2>3, <2>4, <2>5
<1>1. PICK found \in BOOLEAN, creditOk \in BOOLEAN :
        IF Settled(found)
        THEN /\ spread' = [spread EXCEPT ![cycle] = Finalized(creditOk)]
             /\ Goto(AfterLeg(Finalized(creditOk)))
        ELSE /\ UNCHANGED spread
             /\ IF found /\ order[This] = "DONE" /\ filled[This] < booked[This]
                THEN Goto("mark_error") ELSE Again("fetch", "mark_error")
  BY Zenon DEF CheckOrder
<1>2. Counts' /\ Untouched'
  BY <1>0 DEF Counts, Untouched, exchangeVars
<1>3. CASE ~Settled(found)
  <2>1. /\ UNCHANGED spread /\ pc' \in {"fetch", "mark_error"} /\ tries' \in 0 .. Attempts
        /\ pc' = "fetch" => tries' < Attempts
    BY <1>0, <1>1, <1>3, SpreadConstants DEF Goto, Again
  <2>2. TypeOK'
    BY <1>0, <2>1 DEF TypeOK, InTry, Outside, exchangeVars
  <2>3. LegOrder' /\ Contiguous'
    BY <1>0, <2>1 DEF LegOrder, LongProven, Contiguous, Started, exchangeVars
  <2>4. Control'
    BY <1>0, <2>1 DEF Control, Active, InTry, This, Started, exchangeVars
  <2> QED BY <1>2, <2>2, <2>3, <2>4
<1>4. CASE Settled(found)
  <2> DEFINE st == Finalized(creditOk)
  <2>1. /\ spread' = [spread EXCEPT ![cycle] = st] /\ tries' = tries /\ pc' = AfterLeg(st)
        /\ order[This] = "DONE" /\ filled[This] = booked[This]
    BY <1>1, <1>4 DEF Goto, Settled
  <2>2. CASE leg = "LONG"
    <3>1. /\ This = Long(cycle) /\ LongProven(cycle) /\ Short(cycle) \notin intents
          /\ st \in {"LONG_PROTECTION_FILLED", "ERROR"}
      BY <1>0, <2>1, <2>2 DEF This, Long, LongProven, Control, Active, InTry, Finalized
    <3>2. /\ pc' \in {"late", "persist_short", "halted", "refused"}
          /\ pc' = "persist_short" => st = "LONG_PROTECTION_FILLED" /\ ~late
      BY <2>1, <3>1 DEF AfterLeg, NotOpened
    <3>3. TypeOK'
      BY <1>0, <2>1, <3>1, <3>2 DEF TypeOK, SpreadStates, InStart, Outside, Ended, exchangeVars
    <3>4. LegOrder'
      BY <1>0, <2>1, <3>1, Pairs DEF TypeOK, LegOrder, LongProven, exchangeVars
    <3>5. Control'
      BY <1>0, <2>1, <3>1, <3>2 DEF Control, Active, InTry, TypeOK, exchangeVars
    <3>6. Started' = Started
      BY <1>0, <2>1, <3>1 DEF Started, TypeOK
    <3> QED BY <1>2, <3>3, <3>4, <3>5, <3>6 DEF Contiguous
  <2>3. CASE leg = "SHORT"
    <3>1. /\ This = Short(cycle) /\ ~late /\ spread[cycle] = "SHORT_PREMIUM_PENDING"
          /\ st \in {"OPEN", "PARTIALLY_OPEN", "ERROR"}
          /\ st = "OPEN" => booked[This] = Qty
      BY <1>0, <2>1, <2>3 DEF This, Short, Control, Active, InTry, Finalized
    <3>2. pc' \in {"option_capture", "halted"}
      BY <2>1, <3>1 DEF AfterLeg, NotOpened
    <3>3. TypeOK'
      BY <1>0, <2>1, <3>1, <3>2 DEF TypeOK, SpreadStates, Outside, Ended, exchangeVars
    <3>4. LongProven(cycle)
      BY <1>0, <3>1 DEF LegOrder
    <3>5. st = "OPEN" => filled[Short(cycle)] = Qty /\ filled[Long(cycle)] = Qty
      <4>1. /\ booked[Short(cycle)] = filled[Short(cycle)]
            /\ filled[Short(cycle)] <= size[Short(cycle)]
            /\ size[Short(cycle)] <= booked[Long(cycle)] /\ filled[Long(cycle)] = booked[Long(cycle)]
        BY <1>0, <2>1, <3>1, <3>4, Pairs DEF LegOrder, LongProven, Counts
      <4>2. /\ filled[Short(cycle)] \in 0 .. Qty /\ size[Short(cycle)] \in 0 .. Qty
            /\ booked[Long(cycle)] \in 0 .. Qty
        BY <1>0, Pairs DEF TypeOK
      <4> QED BY <3>1, <4>1, <4>2, SpreadConstants
    <3>6. LegOrder'
      BY <1>0, <2>1, <3>1, <3>4, <3>5, Pairs DEF TypeOK, LegOrder, LongProven, exchangeVars
    <3>7. Control'
      BY <1>0, <2>1, <3>1, <3>2 DEF Control, Active, InTry, TypeOK, exchangeVars
    <3>8. Started' = Started
      BY <1>0, <2>1, <3>1 DEF Started, TypeOK
    <3> QED BY <1>2, <3>3, <3>6, <3>7, <3>8 DEF Contiguous
  <2> QED BY <2>2, <2>3 DEF TypeOK, Legs
<1> QED BY <1>3, <1>4

\* The failed leg is marked; its orders and fills stay what they are.
LEMMA MarkKeeps ==
  ASSUME SpreadInv, MarkError
  PROVE  SpreadInv'
<1> USE DEF SpreadInv
<1>0. /\ cycle \in Cycles /\ spread' = [spread EXCEPT ![cycle] = "ERROR"]
      /\ pc = "mark_error" /\ pc' \in {"halted", "refused", "late"}
      /\ UNCHANGED <<exchangeVars, intents, recorded, booked, acked, tries, cycle, leg, late, todo, next,
                     seen, capture>>
      /\ spread[cycle] \in {"LONG_PROTECTION_PENDING", "ERROR", "SHORT_PREMIUM_PENDING"}
  BY DEF TypeOK, MarkError, Goto, NotOpened, Control, Active, Legs
<1>1. TypeOK'
  BY <1>0 DEF TypeOK, SpreadStates, InStart, Ended, exchangeVars
<1>2. Counts' /\ Untouched'
  BY <1>0 DEF Counts, Untouched, exchangeVars
<1>3. LegOrder'
  BY <1>0 DEF TypeOK, LegOrder, LongProven, exchangeVars
<1>4. Started' = Started
  BY <1>0 DEF Started, TypeOK
<1>5. Control'
  BY <1>0 DEF Control, Active, InTry, TypeOK, exchangeVars
<1> QED BY <1>1, <1>2, <1>3, <1>4, <1>5 DEF Contiguous

\* Every step keeps the invariant.
LEMMA SpreadStep == SpreadInv /\ [Next]_vars => SpreadInv'
<1> SUFFICES ASSUME SpreadInv, [Next]_vars PROVE SpreadInv'
  OBVIOUS
<1>1. CASE UNCHANGED vars
  BY <1>1 DEF vars, exchangeVars, storeVars, runnerVars, SpreadInv, TypeOK, Counts, Untouched, LegOrder,
     LongProven, Contiguous, Started, Control, Active, This
<1>2. CASE Next
  BY <1>2, ExchangeKeeps, ServiceReadsKeep, StartKeeps, FailuresKeep, PersistKeeps, PlaceKeeps, AckKeeps,
     ApplyKeeps, CheckKeeps, MarkKeeps DEF Next, RunnerStep
<1> QED BY <1>1, <1>2

\* The invariant holds in every reachable state.
LEMMA SpreadAlways == Spec => []SpreadInv
BY SpreadInit, SpreadStep, PTL DEF Spec

-----------------------------------------------------------------------------
(* One spread at a time, when a restart waits until the exchange has settled *)

\* A cycle that left nothing on the exchange and never can again.
Dead(c) ==
  /\ spread[c] = "ERROR"
  /\ \A l \in Legs : /\ <<c, l>> \notin acked /\ filled[<<c, l>>] = 0
                     /\ order[<<c, l>>] \notin {"INFLIGHT", "OPEN"}

\* Every cycle before the last one is dead, and all are when a new one is begun.
DeadBeforeLast ==
  /\ \A c, d \in Started : c < d => Dead(c)
  /\ pc = "persist_long" => \A c \in Started : Dead(c)

\* The service works on the last cycle; a late long is one that was acknowledged.
WorksOnLast ==
  /\ pc \in Active \cup {"persist_short"} =>
       cycle \in Started /\ \A c \in Started : c <= cycle
  /\ \A c \in todo : Long(c) \in acked

\* From the restart to its decision nothing moves on the exchange, so what the
\* reconciliation reads one surface at a time is one state of the account.
Settling == pc \in {"late", "boot_capture"} \/ late
StartIsQuiet ==
  /\ late => pc \in {"fetch", "apply", "order", "mark_error", "late", "refused"}
  /\ Settling \/ pc = "choose" => Quiet
  /\ Settling /\ "executions" \in DOMAIN capture => capture["executions"] = published
  /\ pc = "choose" => \A o \in Orders : published[o] <= recorded[o]

HedgesAnOpenSpread == pc \in {"option_capture", "hedge"} => InState("OPEN") # {}

OneInv == DeadBeforeLast /\ WorksOnLast /\ StartIsQuiet /\ HedgesAnOpenSpread

\* The steps of the runner that write the store or the exchange, and those that
\* do neither.
Writes == PersistLong \/ PersistShort \/ PlaceLeg \/ AckLeg \/ ApplyExecution \/ CheckOrder
          \/ MarkError
Reads == LookupLeg \/ FetchExecutions \/ ExecutionsApplied
Chooses == NextLate \/ LateDone \/ (\E s \in Surfaces : ReadSurface(s)) \/ Reconcile
           \/ LoadOpen \/ CompleteLong \/ OpenNew \/ RefuseOptions

LEMMA NextParts == Next <=> Exchange \/ Writes \/ Reads \/ Chooses \/ Raise \/ Crash \/ Boot
BY DEF Next, RunnerStep, Writes, Reads, Chooses

LEMMA NonWrites ==
  ASSUME Reads \/ Chooses \/ Raise \/ Crash \/ Boot
  PROVE  UNCHANGED <<exchangeVars, storeVars>>
BY DEF Reads, LookupLeg, FetchExecutions, ExecutionsApplied, Chooses, NextLate, LateDone,
       ReadSurface, Reconcile, LoadOpen, CompleteLong, OpenNew, RefuseOptions, Raise, Crash,
       Boot

\* A write belongs to the cycle of the runner, which it does not change, and
\* starts at most that cycle.
LEMMA WriteFacts ==
  ASSUME SpreadInv, Writes
  PROVE  /\ pc \in Active \cup {"persist_long", "persist_short"} /\ cycle \in Cycles
         /\ UNCHANGED <<filled, published, cycle, late, todo, capture>> /\ acked \subseteq acked'
         /\ \A c \in Cycles \ {cycle} :
              /\ spread'[c] = spread[c]
              /\ \A l \in Legs : /\ order'[<<c, l>>] = order[<<c, l>>]
                                 /\ <<c, l>> \in acked' => <<c, l>> \in acked
         /\ PlaceLeg \/ UNCHANGED order
         /\ Started' = IF PersistLong THEN Started \cup {cycle} ELSE Started
         /\ PersistLong <=> pc = "persist_long"
<1> USE DEF SpreadInv
<1>0. /\ cycle \in Cycles /\ This \in Orders /\ leg \in Legs
      /\ \A c \in Cycles \ {cycle}, l \in Legs : <<c, l>> \in Orders /\ <<c, l>> # This
  BY Pairs DEF TypeOK, This
<1>1. CASE PersistLong
  BY <1>0, <1>1 DEF PersistLong, PersistShort, PlaceLeg, Goto, TypeOK, Started, exchangeVars
<1>2. CASE PersistShort
  <2>1. spread[cycle] # "NONE"
    BY <1>2 DEF PersistShort, Control
  <2> QED BY <1>0, <1>2, <2>1 DEF PersistLong, PersistShort, TypeOK, Started, exchangeVars
<1>3. CASE PlaceLeg
  BY <1>0, <1>3 DEF PlaceLeg, PersistLong, Goto, TypeOK, Started, storeVars, Active, InTry
<1>4. CASE AckLeg
  BY <1>0, <1>4 DEF AckLeg, PersistLong, Started, exchangeVars, Active, InTry
<1>5. CASE ApplyExecution
  BY <1>0, <1>5 DEF ApplyExecution, PersistLong, Started, exchangeVars, Active, InTry
<1>6. CASE CheckOrder \/ MarkError
  <2>1. /\ pc \in Active /\ pc # "persist_long"
        /\ UNCHANGED <<exchangeVars, acked, cycle, late, todo, capture>>
    BY <1>6 DEF CheckOrder, MarkError, Goto, Again, Active, InTry
  <2>2. spread[cycle] # "NONE"
    BY <1>0, <2>1 DEF Control, Legs
  <2>3. spread' = spread \/ \E st \in SpreadStates \ {"NONE"} :
                              spread' = [spread EXCEPT ![cycle] = st]
    <3>1. CASE MarkError
      BY <3>1 DEF MarkError, SpreadStates
    <3>2. CASE CheckOrder
      <4>1. \A ok \in BOOLEAN : Finalized(ok) \in SpreadStates \ {"NONE"}
        BY DEF Finalized, SpreadStates
      <4> QED BY <3>2, <4>1 DEF CheckOrder
    <3> QED BY <1>6, <3>1, <3>2
  <2>4. /\ Started' = Started
        /\ \A c \in Cycles \ {cycle} : spread'[c] = spread[c]
    BY <1>0, <2>2, <2>3 DEF TypeOK, Started
  <2> QED BY <1>0, <2>1, <2>4 DEF PersistLong, exchangeVars
<1> QED BY <1>1, <1>2, <1>3, <1>4, <1>5, <1>6 DEF Writes

\* The cycles already started come before the one that persist_long begins.
LEMMA NewIsLast ==
  ASSUME SpreadInv, pc = "persist_long"
  PROVE  \A c \in Started : c < cycle
<1>1. PICK k \in 0 .. MaxCycles : Started = 1 .. k
  BY DEF SpreadInv, Contiguous
<1>2. Cardinality(1 .. k) = k
  BY <1>1, FS_Interval, SpreadConstants
<1> QED BY <1>1, <1>2, SpreadConstants DEF SpreadInv, Control

\* A dead cycle is not touched by the exchange, nor by the service's work on
\* another one.
LEMMA DeadStaysDead ==
  ASSUME SpreadInv, Next, NEW c \in Cycles, Dead(c), Writes => c # cycle
  PROVE  Dead(c)'
<1>0. \A l \in Legs : <<c, l>> \in Orders
  BY Pairs
<1>1. CASE Exchange
  <2>1. PICK o \in Orders : Arrive(o) \/ Vanish(o) \/ Fill(o) \/ Expire(o) \/ Publish(o)
    BY <1>1 DEF Exchange
  <2>2. UNCHANGED storeVars
    BY <2>1 DEF Arrive, Vanish, Fill, Expire, Publish
  <2>3. \A l \in Legs : UNCHANGED <<order[<<c, l>>], filled[<<c, l>>]>>
    BY <1>0, <2>1 DEF Dead, Arrive, Vanish, Fill, Expire, Publish, SpreadInv, TypeOK
  <2> QED BY <2>2, <2>3 DEF Dead, storeVars
<1>2. CASE Writes
  BY <1>2, WriteFacts DEF Dead
<1>3. CASE UNCHANGED <<exchangeVars, storeVars>>
  BY <1>3 DEF Dead, exchangeVars, storeVars
<1> QED BY <1>1, <1>2, <1>3, NextParts, NonWrites

LEMMA StartedFacts ==
  ASSUME SpreadInv, Next
  PROVE  /\ Started \subseteq Cycles
         /\ Started' = IF PersistLong THEN Started \cup {cycle} ELSE Started
         /\ PersistLong => Writes
<1>1. CASE Exchange \/ UNCHANGED storeVars
  <2>1. ~PersistLong /\ spread' = spread
    BY <1>1 DEF Exchange, Arrive, Vanish, Fill, Expire, Publish, storeVars, PersistLong,
                SpreadInv, Control, TypeOK, runnerVars, Goto
  <2> QED BY <2>1 DEF Started
<1> QED BY <1>1, NextParts, NonWrites, WriteFacts DEF Writes, Started

\* Where the runner can be after a step.
LEMMA WriteLabels ==
  ASSUME SpreadInv, OneInv, Writes
  PROVE  /\ pc' \notin {"persist_long", "choose", "boot_capture", "hedge"}
         /\ pc' = "late" => late
         /\ late => pc' \in {"fetch", "apply", "order", "mark_error", "late", "refused"}
         /\ pc' \in Active \cup {"persist_short"} =>
              \/ pc \in Active \cup {"persist_short"} \/ PersistLong
         /\ pc' = "option_capture" => spread'[cycle] = "OPEN"
<1> USE DEF SpreadInv
<1>1. CASE PersistLong \/ PersistShort
  <2>1. pc' = "place" /\ pc \in {"persist_long", "persist_short"}
    BY <1>1 DEF PersistLong, PersistShort, Goto
  <2>2. ~late
    BY <2>1 DEF Control
  <2>3. pc = "persist_short" \/ PersistLong
    BY <1>1 DEF PersistShort
  <2> QED BY <2>1, <2>2, <2>3
<1>2. CASE PlaceLeg \/ AckLeg
  <2>1. pc \in {"place", "ack"} /\ pc' \in {"ack", "lookup", "mark_error", "fetch"}
    BY <1>2 DEF PlaceLeg, AckLeg, Goto
  <2>2. ~late
    BY <2>1 DEF OneInv, StartIsQuiet
  <2> QED BY <2>1, <2>2 DEF Active, InTry
<1>3. CASE ApplyExecution
  <2>1. pc = "apply" /\ pc' \in {"apply", "mark_error"}
    BY <1>3 DEF ApplyExecution
  <2> QED BY <2>1 DEF Active, InTry
<1>4. CASE MarkError
  <2>1. pc = "mark_error" /\ pc' = NotOpened
    BY <1>4 DEF MarkError, Goto
  <2> QED BY <2>1 DEF NotOpened, Active
<1>5. CASE CheckOrder
  <2>1. pc = "order" /\ cycle \in Cycles
    BY <1>5 DEF CheckOrder, TypeOK
  <2>2. CASE pc' \in {"mark_error", "fetch"}
    BY <2>1, <2>2 DEF Active, InTry
  <2>3. CASE \E ok \in BOOLEAN : /\ spread' = [spread EXCEPT ![cycle] = Finalized(ok)]
                                 /\ pc' = AfterLeg(Finalized(ok))
    <3>1. PICK ok \in BOOLEAN : /\ spread' = [spread EXCEPT ![cycle] = Finalized(ok)]
                                /\ pc' = AfterLeg(Finalized(ok))
      BY <2>3
    <3>2. spread'[cycle] = Finalized(ok)
      BY <2>1, <3>1 DEF TypeOK
    <3>3. late => Finalized(ok) # "OPEN"
      BY <2>1 DEF Control, Finalized
    <3> HIDE DEF Finalized
    <3> QED BY <2>1, <3>1, <3>2, <3>3 DEF AfterLeg, NotOpened, Active, InTry
  <2>4. \/ pc' \in {"mark_error", "fetch"}
        \/ \E ok \in BOOLEAN : /\ spread' = [spread EXCEPT ![cycle] = Finalized(ok)]
                               /\ pc' = AfterLeg(Finalized(ok))
    BY <1>5 DEF CheckOrder, Goto, Again
  <2> QED BY <2>2, <2>3, <2>4
<1> QED BY <1>1, <1>2, <1>3, <1>4, <1>5 DEF Writes

\* A step that writes nothing begins a cycle only by OpenNew.
LEMMA OtherLabels ==
  ASSUME Exchange \/ Reads \/ Chooses \/ Raise \/ Crash \/ Boot, pc' = "persist_long"
  PROVE  pc = "persist_long" \/ OpenNew
BY DEF Exchange, Arrive, Vanish, Fill, Expire, Publish, runnerVars, Reads, LookupLeg,
       FetchExecutions, ExecutionsApplied, Chooses, NextLate, LateDone, ReadSurface, Reconcile,
       LoadOpen, CompleteLong, RefuseOptions, Raise, Crash, Boot, Fresh, Goto

LEMMA DeadBeforeLastStep ==
  ASSUME SpreadInv, OneInv, Next
  PROVE  DeadBeforeLast'
<1>0. Started \subseteq Cycles /\ Cycles \subseteq Nat /\ cycle \in Cycles
  BY SpreadConstants DEF Started, Cycles, SpreadInv, TypeOK
<1>1. ASSUME NEW c \in Started', NEW d \in Started', c < d PROVE Dead(c)'
  <2>1. CASE PersistLong
    <3>0. Started' = Started \cup {cycle} /\ pc = "persist_long"
      BY <2>1, StartedFacts DEF PersistLong
    <3>a. \A e \in Started : e < cycle
      BY <3>0, NewIsLast
    <3>b. c \in Nat /\ d \in Nat /\ cycle \in Nat
      BY <1>0, <1>1, <3>0
    <3>1. c \in Started /\ c # cycle
      BY <1>1, <3>0, <3>a, <3>b
    <3>2. Dead(c)
      BY <2>1, <3>1 DEF OneInv, DeadBeforeLast, PersistLong
    <3> QED BY <1>0, <3>1, <3>2, DeadStaysDead
  <2>2. CASE ~PersistLong
    <3>0. Started' = Started
      BY <2>2, StartedFacts
    <3>1. c \in Started /\ d \in Started /\ Dead(c)
      BY <1>1, <3>0 DEF OneInv, DeadBeforeLast
    <3>2. Writes => d <= cycle
      BY <2>2, <3>1, WriteFacts DEF OneInv, WorksOnLast
    <3> QED BY <1>0, <1>1, <3>1, <3>2, DeadStaysDead
  <2> QED BY <2>1, <2>2
<1>2. ASSUME pc' = "persist_long", NEW c \in Started' PROVE Dead(c)'
  <2>1. ~Writes /\ c \in Started
    <3>1. ~Writes
      BY <1>2, WriteLabels
    <3> QED BY <1>2, <3>1, StartedFacts
  <2>2. CASE pc = "persist_long"
    <3>1. Dead(c)
      BY <2>1, <2>2 DEF OneInv, DeadBeforeLast
    <3> QED BY <1>0, <2>1, <3>1, DeadStaysDead
  <2>3. CASE OpenNew
    <3>1. /\ pc = "choose" /\ Quiet /\ spread[c] = "ERROR"
          /\ Long(c) \notin acked /\ Short(c) \notin acked
          /\ booked[Long(c)] = 0 /\ booked[Short(c)] = 0
          /\ \A o \in Orders : published[o] <= recorded[o]
      BY <2>1, <2>3 DEF OpenNew, SafelyRejected, OneInv, StartIsQuiet
    <3>2. \A l \in Legs : /\ <<c, l>> \in Orders /\ <<c, l>> \notin acked
                          /\ booked[<<c, l>>] = 0
      BY <1>0, <2>1, <3>1, Pairs DEF Legs, Long, Short
    <3>3. \A o \in Orders : /\ order[o] \notin {"INFLIGHT", "OPEN"}
                            /\ booked[o] = 0 => filled[o] = 0
      BY <3>1 DEF Quiet, SpreadInv, Counts, TypeOK
    <3>4. Dead(c)
      BY <3>1, <3>2, <3>3 DEF Dead
    <3> QED BY <1>0, <2>1, <3>4, DeadStaysDead
  <2> QED BY <1>2, <2>1, <2>2, <2>3, NextParts, OtherLabels
<1> QED BY <1>1, <1>2 DEF DeadBeforeLast

LEMMA WorksOnLastStep ==
  ASSUME SpreadInv, OneInv, Next
  PROVE  WorksOnLast'
<1>0. /\ Started \subseteq Cycles /\ Cycles \subseteq Nat /\ cycle \in Cycles
      /\ todo \subseteq Started
  BY SpreadConstants DEF Started, Cycles, SpreadInv, TypeOK, Control
\* A cycle that is not dead is the last one.
<1>1. ASSUME NEW c \in Started, ~Dead(c) PROVE \A d \in Started : d <= c
  BY <1>0, <1>1 DEF OneInv, DeadBeforeLast
<1>2. CASE Writes
  <2>1. \A c \in todo' : Long(c) \in acked'
    BY <1>2, WriteFacts DEF OneInv, WorksOnLast
  <2>2. CASE PersistLong
    <3>1. Started' = Started \cup {cycle} /\ pc = "persist_long" /\ cycle' = cycle
      BY <1>2, <2>2, WriteFacts
    <3>2. \A d \in Started : d < cycle
      BY <3>1, NewIsLast
    <3>3. \A d \in Started' : d <= cycle
      BY <1>0, <3>1, <3>2
    <3> QED BY <2>1, <3>1, <3>3 DEF WorksOnLast
  <2>3. CASE ~PersistLong
    BY <1>2, <2>1, <2>3, WriteFacts, WriteLabels DEF OneInv, WorksOnLast
  <2> QED BY <2>2, <2>3
<1>3. CASE NextLate
  <2>1. PICK c \in todo : todo' = todo \ {c} /\ cycle' = c
    BY <1>3 DEF NextLate
  <2>2. UNCHANGED <<exchangeVars, storeVars>>
    BY <1>3 DEF NextLate
  <2>3. c \in Started /\ ~Dead(c)
    BY <1>0, <2>1 DEF OneInv, WorksOnLast, Dead, Long, Legs
  <2> QED BY <1>1, <2>1, <2>2, <2>3 DEF OneInv, WorksOnLast, Started, storeVars
<1>4. CASE CompleteLong
  <2>1. PICK c \in InState("LONG_PROTECTION_FILLED") : cycle' = c
    BY <1>4 DEF CompleteLong
  <2>2. UNCHANGED <<exchangeVars, storeVars, todo>>
    BY <1>4 DEF CompleteLong
  <2>3. c \in Started /\ ~Dead(c)
    BY <2>1 DEF Dead, InState, Started
  <2> QED BY <1>1, <2>1, <2>2, <2>3 DEF OneInv, WorksOnLast, Started, storeVars
<1>5. CASE Boot
  BY <1>5 DEF Boot, Fresh, IsLateLong, WorksOnLast, Active, InTry, storeVars
<1>6. CASE Exchange \/ Reads
  <2>1. /\ UNCHANGED <<storeVars, cycle, todo>>
        /\ pc' \in Active \cup {"persist_short"} => pc \in Active \cup {"persist_short"}
    BY <1>6 DEF Exchange, Arrive, Vanish, Fill, Expire, Publish, runnerVars, Reads, LookupLeg,
                FetchExecutions, ExecutionsApplied, Goto, Active, InTry
  <2> QED BY <2>1 DEF OneInv, WorksOnLast, Started, storeVars
<1>7. CASE \/ LateDone \/ (\E s \in Surfaces : ReadSurface(s)) \/ Reconcile \/ LoadOpen
           \/ OpenNew \/ RefuseOptions
  <2>1. UNCHANGED <<storeVars, todo>> /\ pc' \notin Active \cup {"persist_short"}
    BY <1>7 DEF LateDone, ReadSurface, Capturing, Reconcile, LoadOpen, OpenNew, RefuseOptions,
                Goto, Active, InTry
  <2> QED BY <2>1 DEF OneInv, WorksOnLast, storeVars
<1>8. CASE Raise \/ Crash
  <2>1. /\ UNCHANGED storeVars
        /\ \/ /\ pc \in Active /\ UNCHANGED <<cycle, todo>>
           \/ todo' = {} /\ pc' \notin Active \cup {"persist_short"}
    BY <1>8 DEF Raise, Crash, Fresh, Goto, Active, InTry
  <2> QED BY <2>1 DEF OneInv, WorksOnLast, Started, storeVars
<1> QED BY <1>2, <1>3, <1>4, <1>5, <1>6, <1>7, <1>8, NextParts DEF Chooses

LEMMA StartIsQuietStep ==
  ASSUME SpreadInv, OneInv, Next, BootAfter = "settlement"
  PROVE  StartIsQuiet'
<1> USE DEF Settling
<1>0. OneInv => StartIsQuiet
  BY DEF OneInv
<1>1. CASE Exchange
  <2>1. UNCHANGED <<storeVars, runnerVars>> /\ ~Quiet
    BY <1>1 DEF Exchange, Arrive, Vanish, Fill, Expire, Publish, Quiet, SpreadInv, TypeOK
  <2>2. ~Settling /\ pc # "choose"
    BY <1>0, <2>1 DEF StartIsQuiet
  <2> QED BY <1>0, <2>1, <2>2 DEF StartIsQuiet, runnerVars
<1>2. CASE Writes
  <2>1. /\ pc' # "choose" /\ (Settling' => late)
        /\ late' = late /\ capture' = capture /\ published' = published
        /\ late => pc' \in {"fetch", "apply", "order", "mark_error", "late", "refused"}
    BY <1>2, WriteFacts, WriteLabels
  <2>2. late => UNCHANGED <<order, filled, published>>
    <3>1. late => ~PlaceLeg
      BY <1>0 DEF StartIsQuiet, PlaceLeg
    <3> QED BY <1>2, <3>1, WriteFacts
  <2> QED BY <1>0, <2>1, <2>2 DEF StartIsQuiet, Quiet
<1>3. CASE Reads
  <2>1. /\ UNCHANGED <<exchangeVars, storeVars, late, capture>>
        /\ pc \in {"lookup", "fetch", "apply"}
        /\ pc' \in {"ack", "mark_error", "apply", "order"} /\ (pc' = "ack" => pc = "lookup")
    BY <1>3 DEF Reads, LookupLeg, FetchExecutions, ExecutionsApplied, Goto
  <2> QED BY <1>0, <2>1 DEF StartIsQuiet, Quiet, exchangeVars
<1>4. CASE Boot
  <2>1. /\ Quiet /\ UNCHANGED <<exchangeVars, storeVars>> /\ pc' = "late" /\ late' = FALSE
        /\ DOMAIN capture' = {}
    BY <1>4 DEF Boot, Fresh, NothingRead
  <2> QED BY <2>1 DEF StartIsQuiet, Quiet, exchangeVars
<1>5. CASE NextLate \/ LateDone
  <2>1. /\ pc = "late" /\ pc' \in {"fetch", "boot_capture"}
        /\ (late' => pc' = "fetch") /\ UNCHANGED <<exchangeVars, storeVars, capture>>
    BY <1>5 DEF NextLate, LateDone
  <2> QED BY <1>0, <2>1 DEF StartIsQuiet, Quiet, exchangeVars
<1>6. CASE \E s \in Surfaces : ReadSurface(s)
  <2>1. PICK s \in Surfaces : ReadSurface(s)
    BY <1>6
  <2>2. UNCHANGED <<exchangeVars, storeVars, pc, late>> /\ pc \in Capturing
        /\ capture' = [t \in DOMAIN capture \cup {s} |->
                         IF t = s THEN SurfaceValue(s) ELSE capture[t]]
    BY <2>1 DEF ReadSurface
  <2>3. "executions" \in DOMAIN capture' =>
          \/ capture'["executions"] = published
          \/ "executions" \in DOMAIN capture /\ capture'["executions"] = capture["executions"]
    BY <2>2 DEF SurfaceValue
  <2> QED BY <1>0, <2>2, <2>3 DEF StartIsQuiet, Quiet, exchangeVars, Capturing
<1>7. CASE Reconcile
  <2>1. /\ UNCHANGED <<exchangeVars, storeVars, late>> /\ DOMAIN capture' = {}
        /\ pc \in Capturing /\ pc' \in {"hedge", "halted", "choose", "refused"}
        /\ pc' = "choose" => /\ pc = "boot_capture" /\ "executions" \in DOMAIN capture
                             /\ Matched
    BY <1>7 DEF Reconcile, NothingRead, Capturing, Surfaces
  <2>2. ~late
    BY <1>0, <2>1 DEF StartIsQuiet, Capturing
  <2> QED BY <1>0, <2>1, <2>2 DEF StartIsQuiet, Quiet, Matched, exchangeVars, storeVars
<1>8. CASE LoadOpen \/ CompleteLong \/ OpenNew \/ RefuseOptions
  <2>1. /\ UNCHANGED <<exchangeVars, late>> /\ pc = "choose"
        /\ pc' \in {"option_capture", "persist_short", "persist_long", "halted"}
    BY <1>8 DEF LoadOpen, CompleteLong, OpenNew, RefuseOptions, Goto
  <2> QED BY <1>0, <2>1 DEF StartIsQuiet
<1>9. CASE Raise \/ Crash
  <2>1. /\ UNCHANGED exchangeVars
        /\ \/ /\ pc \in InTry /\ pc' = "mark_error" /\ UNCHANGED <<late, capture>>
           \/ pc' \in {"refused", "halted", "down"} /\ late' = FALSE
    BY <1>9 DEF Raise, Crash, Fresh, Goto
  <2> QED BY <1>0, <2>1 DEF StartIsQuiet, Quiet, exchangeVars
<1> QED BY <1>1, <1>2, <1>3, <1>4, <1>5, <1>6, <1>7, <1>8, <1>9, NextParts DEF Chooses

LEMMA HedgesStep ==
  ASSUME SpreadInv, OneInv, Next
  PROVE  HedgesAnOpenSpread'
<1>1. CASE Writes
  <2>1. pc' # "hedge" /\ (pc' = "option_capture" => spread'[cycle] = "OPEN") /\ cycle \in Cycles
    BY <1>1, WriteFacts, WriteLabels
  <2> QED BY <2>1 DEF HedgesAnOpenSpread, InState
<1>2. CASE LoadOpen
  <2>1. InState("OPEN") # {}
    BY <1>2, FS_EmptySet DEF LoadOpen
  <2> QED BY <1>2, <2>1 DEF LoadOpen, HedgesAnOpenSpread, InState, storeVars
<1>3. CASE UNCHANGED storeVars /\ (pc' \in {"option_capture", "hedge"} =>
                                     pc \in {"option_capture", "hedge"})
  BY <1>3 DEF OneInv, HedgesAnOpenSpread, InState, storeVars
<1>4. CASE Exchange \/ Reads \/ Raise \/ Crash \/ Boot
  BY <1>3, <1>4
  DEF Exchange, Arrive, Vanish, Fill, Expire, Publish, runnerVars, Reads, LookupLeg,
      FetchExecutions, ExecutionsApplied, Raise, Crash, Boot, Fresh, Goto
<1>5. CASE \/ NextLate \/ LateDone \/ (\E s \in Surfaces : ReadSurface(s)) \/ Reconcile
           \/ CompleteLong \/ OpenNew \/ RefuseOptions
  BY <1>3, <1>5 DEF NextLate, LateDone, ReadSurface, Reconcile, CompleteLong, OpenNew,
                    RefuseOptions, Goto
<1> QED BY <1>1, <1>2, <1>4, <1>5, NextParts DEF Chooses

LEMMA OneStep ==
  ASSUME SpreadInv, OneInv, [Next]_vars, BootAfter = "settlement"
  PROVE  OneInv'
<1>1. CASE UNCHANGED vars
  BY <1>1 DEF vars, exchangeVars, storeVars, runnerVars, OneInv, DeadBeforeLast, Dead, Started,
              WorksOnLast, StartIsQuiet, Settling, Quiet, HedgesAnOpenSpread, InState
<1>2. CASE Next
  BY <1>2, DeadBeforeLastStep, WorksOnLastStep, StartIsQuietStep, HedgesStep DEF OneInv
<1> QED BY <1>1, <1>2

-----------------------------------------------------------------------------
(* The theorems *)

\* Types are kept: in particular no loop runs past its attempts and no leg is
\* booked beyond the requested quantity.
THEOREM TypesAreKept == Spec => []TypeOK
<1>1. SpreadInv => TypeOK
  BY DEF SpreadInv
<1> QED BY <1>1, SpreadAlways, PTL

\* The exchange never holds more short than long puts of a spread.
THEOREM NeverNaked == Spec => []NoNakedShort
<1>1. ASSUME SpreadInv, NEW c \in Cycles
      PROVE  filled[Short(c)] <= filled[Long(c)]
  <2>1. /\ filled[Short(c)] <= size[Short(c)] /\ size[Short(c)] <= booked[Long(c)]
        /\ booked[Long(c)] <= published[Long(c)] /\ published[Long(c)] <= filled[Long(c)]
    BY <1>1, Pairs DEF SpreadInv, Counts, LegOrder
  <2> QED BY <1>1, <2>1, Pairs DEF SpreadInv, TypeOK
<1>2. SpreadInv => NoNakedShort
  BY <1>1 DEF NoNakedShort
<1> QED BY <1>2, SpreadAlways, PTL

\* Each execution is counted once, across polls, crashes and restarts.
THEOREM ExecutionsCountOnce == Spec => []FillsAreBooked
<1>1. ASSUME SpreadInv, NEW o \in Orders
      PROVE  booked[o] = recorded[o] /\ recorded[o] <= filled[o]
  BY <1>1 DEF SpreadInv, Counts, TypeOK
<1>2. SpreadInv => FillsAreBooked
  BY <1>1 DEF FillsAreBooked
<1> QED BY <1>2, SpreadAlways, PTL

\* A spread that is OPEN is filled in full, on both legs, at the exchange.
THEOREM OpenOnProof == Spec => []OpenIsMatched
<1>1. ASSUME SpreadInv, NEW c \in InState("OPEN"), NEW l \in Legs
      PROVE  filled[<<c, l>>] = Qty /\ order[<<c, l>>] = "DONE"
  BY <1>1 DEF SpreadInv, LegOrder, InState, Long, Short, Legs
<1>2. SpreadInv => OpenIsMatched
  BY <1>1 DEF OpenIsMatched
<1> QED BY <1>2, SpreadAlways, PTL

\* If a restart waits until no order is working or unpublished, hedging starts on
\* one spread alone: for any number of cycles that were tried before, none of them
\* holds a fill or an order that can still bring one.
THEOREM HedgesOneSpread == BootAfter = "settlement" => (Spec => []OneSpread)
<1> SUFFICES ASSUME BootAfter = "settlement" PROVE Spec => []OneSpread
  OBVIOUS
<1>1. Init => OneInv
  BY DEF Init, OneInv, DeadBeforeLast, Started, WorksOnLast, Active, InTry, StartIsQuiet,
         Settling, HedgesAnOpenSpread
<1>2. SpreadInv /\ OneInv /\ [Next]_vars => OneInv'
  BY OneStep
<1>3. ASSUME SpreadInv, OneInv PROVE OneSpread
  <2> SUFFICES ASSUME pc = "hedge"
               PROVE  /\ Cardinality(InState("OPEN")) = 1
                      /\ \A c \in Cycles \ InState("OPEN"), l \in Legs :
                           filled[<<c, l>>] = 0 /\ order[<<c, l>>] \notin {"INFLIGHT", "OPEN"}
    BY DEF OneSpread
  <2>1. PICK c \in Cycles : spread[c] = "OPEN"
    BY <1>3 DEF OneInv, HedgesAnOpenSpread, InState
  <2>2. c \in Started /\ ~Dead(c) /\ Started \subseteq Cycles /\ Cycles \subseteq Nat
    BY <2>1, SpreadConstants DEF Started, Dead, Cycles
  <2>3. \A d \in Started : d # c => Dead(d)
    BY <1>3, <2>2 DEF OneInv, DeadBeforeLast
  <2>4. InState("OPEN") = {c}
    BY <2>1, <2>3 DEF InState, Started, Dead
  <2>5. Cardinality(InState("OPEN")) = 1
    BY <2>4, FS_Singleton
  <2>6. ASSUME NEW d \in Cycles \ InState("OPEN"), NEW l \in Legs
        PROVE  filled[<<d, l>>] = 0 /\ order[<<d, l>>] \notin {"INFLIGHT", "OPEN"}
    <3>1. CASE d \in Started
      BY <2>3, <2>4, <2>6, <3>1 DEF Dead
    <3>2. CASE d \notin Started
      <4>1. Long(d) \notin intents /\ Short(d) \notin intents
        BY <1>3, <2>6, <3>2 DEF SpreadInv, LegOrder, Started
      <4>2. <<d, l>> \in Orders /\ <<d, l>> \notin intents
        BY <2>6, <4>1, Pairs DEF Long, Short, Legs
      <4> QED BY <1>3, <4>2 DEF SpreadInv, Untouched
    <3> QED BY <3>1, <3>2
  <2> QED BY <2>5, <2>6
<1>4. SpreadInv /\ OneInv => OneSpread
  BY <1>3
<1> QED BY <1>1, <1>2, <1>4, SpreadAlways, PTL DEF Spec

-----------------------------------------------------------------------------
(* The choice of the pair *)

\* Two tuples of ranks are compared at their first difference.
Ranks == [1 .. 6 -> Int]

LEMMA PrecedesIsOrder ==
  ASSUME NEW r \in Ranks, NEW s \in Ranks, NEW t \in Ranks
  PROVE  /\ Precedes(r, s) /\ Precedes(s, t) => Precedes(r, t)
         /\ r # s => Precedes(r, s) \/ Precedes(s, r)
<1>1. ASSUME Precedes(r, s), Precedes(s, t) PROVE Precedes(r, t)
  <2>1. PICK i \in 1 .. 6 : r[i] < s[i] /\ \A j \in 1 .. i - 1 : r[j] = s[j]
    BY <1>1 DEF Precedes, Ranks
  <2>2. PICK k \in 1 .. 6 : s[k] < t[k] /\ \A j \in 1 .. k - 1 : s[j] = t[j]
    BY <1>1 DEF Precedes, Ranks
  <2>3. \A j \in 1 .. 6 : r[j] \in Int /\ s[j] \in Int /\ t[j] \in Int
    BY DEF Ranks
  <2>4. CASE i <= k
    <3>1. r[i] < t[i]
      BY <2>1, <2>2, <2>3, <2>4
    <3>2. \A j \in 1 .. i - 1 : r[j] = t[j]
      BY <2>1, <2>2, <2>4
    <3> QED BY <3>1, <3>2 DEF Precedes, Ranks
  <2>5. CASE k <= i
    <3>1. r[k] < t[k]
      BY <2>1, <2>2, <2>3, <2>5
    <3>2. \A j \in 1 .. k - 1 : r[j] = t[j]
      BY <2>1, <2>2, <2>5
    <3> QED BY <3>1, <3>2 DEF Precedes, Ranks
  <2> QED BY <2>4, <2>5
<1>2. ASSUME r # s PROVE Precedes(r, s) \/ Precedes(s, r)
  <2> DEFINE D == {i \in 1 .. 6 : r[i] # s[i]}
  <2>1. D \in SUBSET Nat /\ D # {}
    BY <1>2 DEF Ranks
  <2>2. Min(D) \in D /\ \A y \in D : Min(D) <= y
    <3> HIDE DEF D
    <3> QED BY <2>1, LeastElement
  <2>3. PICK i \in 1 .. 6 : r[i] # s[i] /\ \A j \in 1 .. 6 : r[j] # s[j] => i <= j
    BY <2>2
  <2>4. \A j \in 1 .. i - 1 : r[j] = s[j] /\ s[j] = r[j]
    BY <2>3
  <2>5. r[i] < s[i] \/ s[i] < r[i]
    BY <2>3 DEF Ranks
  <2> QED BY <2>4, <2>5 DEF Precedes, Ranks
<1> QED BY <1>1, <1>2

LEMMA ChainTypes ==
  ASSUME chain \in OptionChains
  PROVE  /\ IsFiniteSet(DOMAIN chain) /\ DOMAIN chain \subseteq Nat
         /\ \A k \in DOMAIN chain :
              /\ chain[k].bid \in Nat /\ chain[k].ask \in Nat
              /\ chain[k].delta \in Int /\ chain[k].expiry \in Int
              /\ chain[k].minQty \in Nat \ {0} /\ chain[k].tick \in Nat \ {0}
BY ChoiceConstants

\* The loss of a pair whose prices and quantity are integers.
LEMMA PairTypes ==
  ASSUME chain \in OptionChains, NEW s \in DOMAIN chain, NEW l \in DOMAIN chain
  PROVE  /\ PairQuantity(s, l) \in Nat /\ PairQuantity(s, l) > 0
         /\ PairWidth(s, l) \in Int /\ PairCredit(s, l) \in Int
<1>1. PairQuantity(s, l) \in Nat /\ PairQuantity(s, l) > 0
  BY ChainTypes DEF PairQuantity, Larger
<1>2. s \in Int /\ l \in Int /\ OneDollar \in Int
  BY ChainTypes, ChoiceConstants
<1>3. s - l \in Int
  BY <1>2
<1>4. PairWidth(s, l) \in Int
  BY <1>2, <1>3 DEF PairWidth
<1>5. chain[s].bid - chain[l].ask \in Int
  BY ChainTypes
<1>6. PairCredit(s, l) \in Int
  BY <1>1, <1>5 DEF PairCredit
<1> QED BY <1>1, <1>4, <1>6

LEMMA RankTypes ==
  ASSUME chain \in OptionChains, NEW p \in Candidates
  PROVE  /\ p[1] \in DOMAIN chain /\ p[2] \in DOMAIN chain
         /\ Rank(p) \in Ranks /\ Rank(p)[5] = p[1] /\ Rank(p)[6] = p[2]
<1>1. p[1] \in DOMAIN chain /\ p[2] \in DOMAIN chain
  BY DEF Candidates
<1>2. /\ chain[p[1]].expiry \in Int /\ Distance(chain[p[1]].delta, -30) \in Int
      /\ Distance(p[1] - p[2], 50) \in Int /\ -PairCredit(p[1], p[2]) \in Int
      /\ p[1] \in Int /\ p[2] \in Int
  <2>1. p[1] \in Int /\ p[2] \in Int /\ chain[p[1]].expiry \in Int /\ chain[p[1]].delta \in Int
    BY <1>1, ChainTypes
  <2>2. Distance(chain[p[1]].delta, -30) \in Int
    BY <2>1 DEF Distance
  <2>3. Distance(p[1] - p[2], 50) \in Int
    BY <2>1 DEF Distance
  <2>4. -PairCredit(p[1], p[2]) \in Int
    BY <1>1, PairTypes
  <2> QED BY <2>1, <2>2, <2>3, <2>4
<1>3. /\ Rank(p)[5] = p[1] /\ Rank(p)[6] = p[2] /\ Rank(p) \in Ranks
  BY <1>2 DEF Rank, Ranks
<1> QED BY <1>1, <1>3

\* One candidate comes before all others.
LEMMA BestIsCandidate ==
  ASSUME chain \in OptionChains, Candidates # {}
  PROVE  Best \in Candidates
<1> DEFINE Leads(p, S) == \A q \in S \ {p} : Precedes(Rank(p), Rank(q))
           Bad == {S \in SUBSET Candidates : S # {} /\ ~\E p \in S : Leads(p, S)}
<1>1. IsFiniteSet(Candidates)
  <2>1. IsFiniteSet((DOMAIN chain) \X (DOMAIN chain))
    BY ChainTypes, FS_Product
  <2>2. Candidates \subseteq (DOMAIN chain) \X (DOMAIN chain)
    BY DEF Candidates
  <2> QED BY <2>1, <2>2, FS_Subset
<1>2. ASSUME Bad # {} PROVE FALSE
  <2>1. Bad \in SUBSET (SUBSET Candidates)
    OBVIOUS
  <2>2. PICK S \in Bad : \A u \in Bad : u \subseteq S => u = S
    <3> HIDE DEF Bad
    <3> QED BY <1>1, <1>2, <2>1, MinimalSubset
  <2>3. PICK x \in S : TRUE
    BY <2>2
  <2>4. S \in SUBSET Candidates /\ ~\E p \in S : Leads(p, S)
    BY <2>2
  <2> DEFINE R == S \ {x}
  <2>5. R # {}
    <3>1. R = {} => Leads(x, S)
      OBVIOUS
    <3> QED BY <2>3, <2>4, <3>1
  <2>6. R \notin Bad /\ R \in SUBSET Candidates
    BY <2>2, <2>3
  <2>7. PICK m \in R : Leads(m, R)
    BY <2>5, <2>6
  <2>8. m \in Candidates /\ x \in Candidates /\ m \in S /\ m # x
    BY <2>3, <2>4, <2>7
  <2>9. \A p \in Candidates : Rank(p) \in Ranks
    BY RankTypes
  <2>10. Rank(m) # Rank(x)
    <3>1. m \in (DOMAIN chain) \X (DOMAIN chain) /\ x \in (DOMAIN chain) \X (DOMAIN chain)
      BY <2>8 DEF Candidates
    <3>2. m[1] # x[1] \/ m[2] # x[2]
      BY <2>8, <3>1
    <3>3. /\ Rank(m)[5] = m[1] /\ Rank(m)[6] = m[2]
          /\ Rank(x)[5] = x[1] /\ Rank(x)[6] = x[2]
      BY <2>8, RankTypes
    <3> QED BY <3>2, <3>3
  <2>11. Precedes(Rank(m), Rank(x)) \/ Precedes(Rank(x), Rank(m))
    BY <2>8, <2>9, <2>10, PrecedesIsOrder
  <2>12. CASE Precedes(Rank(m), Rank(x))
    <3>1. Leads(m, S)
      BY <2>7, <2>12
    <3> QED BY <2>4, <2>8, <3>1
  <2>13. CASE Precedes(Rank(x), Rank(m))
    <3>1. ASSUME NEW q \in S \ {x} PROVE Precedes(Rank(x), Rank(q))
      <4>1. CASE q = m
        BY <2>13, <4>1
      <4>2. CASE q # m
        <5>1. Precedes(Rank(m), Rank(q)) /\ q \in Candidates
          BY <2>4, <2>7, <3>1, <4>2
        <5>2. Rank(x) \in Ranks /\ Rank(m) \in Ranks /\ Rank(q) \in Ranks
          BY <2>8, <2>9, <5>1
        <5> QED BY <2>13, <5>1, <5>2, PrecedesIsOrder
      <4> QED BY <4>1, <4>2
    <3>2. Leads(x, S)
      BY <3>1
    <3> QED BY <2>3, <2>4, <3>2
  <2> QED BY <2>11, <2>12, <2>13
<1>3. Candidates \notin Bad
  BY <1>2
<1>4. \E p \in Candidates : Leads(p, Candidates)
  BY <1>3
<1> QED BY <1>4 DEF Best

-----------------------------------------------------------------------------
(* The money *)

LEMMA ProductOrder ==
  ASSUME NEW x \in Int, NEW y \in Int, NEW n \in Nat, x <= y
  PROVE  x * n \in Int /\ y * n \in Int /\ x * n <= y * n
<1>1. x * n \in Int /\ y * n \in Int
  OBVIOUS
<1>2. (y - x) * n >= 0
  OBVIOUS
<1>3. (y - x) * n = y * n - x * n
  OBVIOUS
<1> QED BY <1>1, <1>2, <1>3

LEMMA ProductSum ==
  ASSUME NEW x \in Int, NEW y \in Int, NEW n \in Int
  PROVE  x * n \in Int /\ y * n \in Int /\ (x + y) * n = x * n + y * n /\ (x - y) * n = x * n - y * n
OBVIOUS

\* What the short put can cost more than the long one brings is the width.
LEMMA SpreadLoss ==
  ASSUME NEW high \in Int, NEW low \in Int, low <= high, NEW price \in Int, NEW q \in Nat
  PROVE  /\ Intrinsic(high, price) * q \in Int /\ Intrinsic(low, price) * q \in Int
         /\ ((high - low) * OneDollar) * q \in Int
         /\ Intrinsic(high, price) * q - Intrinsic(low, price) * q <= ((high - low) * OneDollar) * q
         /\ price >= high => Intrinsic(high, price) * q = 0 /\ Intrinsic(low, price) * q = 0
<1> DEFINE h == Larger(high - price, 0)
           k == Larger(low - price, 0)
           d == OneDollar
<1>1. h \in Int /\ k \in Int /\ h - k <= high - low /\ h - k \in Int /\ high - low \in Int
      /\ (price >= high => h = 0 /\ k = 0)
  BY DEF Larger
<1>2. d \in Nat
  BY ChoiceConstants
<1>3. Intrinsic(high, price) = h * d /\ Intrinsic(low, price) = k * d
  BY DEF Intrinsic
<1> HIDE DEF h, k, d
<1>4. h * d \in Int /\ k * d \in Int /\ (h - k) * d = h * d - k * d
  BY <1>1, <1>2, ProductSum
<1>5. (h - k) * d \in Int /\ (high - low) * d \in Int /\ (h - k) * d <= (high - low) * d
  BY <1>1, <1>2, ProductOrder
<1>6. ((h - k) * d) * q <= ((high - low) * d) * q /\ ((high - low) * d) * q \in Int
  BY <1>5, ProductOrder
<1>7. (h * d) * q \in Int /\ (k * d) * q \in Int
      /\ (h * d - k * d) * q = (h * d) * q - (k * d) * q
  BY <1>4, ProductSum
<1>8. price >= high => (h * d) * q = 0 /\ (k * d) * q = 0
  <2> SUFFICES ASSUME price >= high PROVE (h * d) * q = 0 /\ (k * d) * q = 0
    OBVIOUS
  <2>1. h * d = 0 /\ k * d = 0
    BY <1>1, <1>2
  <2> QED BY <2>1
<1>9. (h * d) * q - (k * d) * q <= ((high - low) * d) * q
  BY <1>4, <1>6, <1>7
<1> QED BY <1>3, <1>6, <1>7, <1>8, <1>9 DEF d

\* The plan is one of a candidate, and each side has filled at its limit or better.
LegTotals == [quantity : Nat, notional : Int, fees : Nat]
Planned == {"long", "short", "OPEN"}
ChoiceInv ==
  /\ chain \in OptionChains
  /\ legs \in [{"long", "short"} -> LegTotals]
  /\ stage = "choose" => \A side \in {"long", "short"} : legs[side] = Unfilled
  /\ stage \in Planned =>
       /\ \E p \in Candidates : plan = PlanFor(p[1], p[2])
       /\ legs["long"].notional <= legs["long"].quantity * plan.longLimit
       /\ legs["short"].notional >= legs["short"].quantity * plan.shortLimit
  /\ stage \in {"short", "OPEN"} => legs["long"].quantity = plan.quantity
  /\ stage = "OPEN" => legs["short"].quantity = plan.quantity /\ CreditAccepted

LEMMA LimitTypes ==
  ASSUME NEW v \in Nat, NEW t \in Nat \ {0}
  PROVE  /\ Rules!QuantizeLimitPrice(v, t, "Buy", "AGGRESSIVE") \in Int
         /\ Rules!QuantizeLimitPrice(v, t, "Sell", "AGGRESSIVE") \in Int
<1>1. (v \div t) * t \in Int
  OBVIOUS
<1>2. (-v) \div t \in Int
  OBVIOUS
<1>3. -((-v) \div t) \in Int
  BY <1>2
<1>4. -((-v) \div t) * t \in Int
  BY <1>3
<1> QED BY <1>1, <1>4 DEF Rules!QuantizeLimitPrice, Rules!CeilToStep, Rules!FloorToStep

LEMMA PlanFacts ==
  ASSUME ChoiceInv, stage \in Planned
  PROVE  /\ plan.longStrike \in DOMAIN chain /\ plan.shortStrike \in DOMAIN chain
         /\ plan.longStrike < plan.shortStrike
         /\ plan.quantity \in Nat /\ plan.longLimit \in Int /\ plan.shortLimit \in Int
         /\ PairQuantity(plan.shortStrike, plan.longStrike) = plan.quantity
         /\ WithinLoss(plan.shortStrike, plan.longStrike)
<1>1. PICK p \in Candidates : plan = PlanFor(p[1], p[2])
  BY DEF ChoiceInv
<1>2. chain \in OptionChains /\ p[1] \in DOMAIN chain /\ p[2] \in DOMAIN chain
  BY DEF ChoiceInv, Candidates
<1>3. /\ plan.longStrike = p[2] /\ plan.shortStrike = p[1]
      /\ plan.quantity = PairQuantity(p[1], p[2])
      /\ plan.longLimit = Rules!QuantizeLimitPrice(chain[p[2]].ask, chain[p[2]].tick, "Buy", "AGGRESSIVE")
      /\ plan.shortLimit = Rules!QuantizeLimitPrice(chain[p[1]].bid, chain[p[1]].tick, "Sell", "AGGRESSIVE")
  BY <1>1 DEF PlanFor
<1>4. plan.longLimit \in Int /\ plan.shortLimit \in Int
  BY <1>2, <1>3, ChainTypes, LimitTypes
<1>5. p[1] - p[2] \in 1 .. 200 /\ WithinLoss(p[1], p[2])
  BY DEF Candidates
<1>6. p[2] < p[1]
  BY <1>2, <1>5, ChainTypes
<1> QED BY <1>2, <1>3, <1>4, <1>5, <1>6, PairTypes

\* What the filled spread can lose, at any price of the underlying.
LEMMA LossAtEveryPrice ==
  ASSUME ChoiceInv, stage = "OPEN", NEW price \in Int
  PROVE  /\ ExpirationPnl(price) >=
              -(MaximumLoss + RoundingGivenAway + legs["short"].fees + legs["long"].fees)
         /\ price >= plan.shortStrike => ExpirationPnl(price) > 0
<1> DEFINE q == plan.quantity
           s == plan.shortStrike
           l == plan.longStrike
           sn == legs["short"].notional
           ln == legs["long"].notional
           sf == legs["short"].fees
           lf == legs["long"].fees
           bid == chain[s].bid
           ask == chain[l].ask
           sl == plan.shortLimit
           ll == plan.longLimit
           w == ((s - l) * OneDollar) * q
           is == Intrinsic(s, price) * q
           il == Intrinsic(l, price) * q
<1>1. stage \in Planned
  BY DEF Planned
<1>2. /\ s \in DOMAIN chain /\ l \in DOMAIN chain /\ l < s /\ q \in Nat /\ sl \in Int /\ ll \in Int
      /\ PairQuantity(s, l) = q /\ WithinLoss(s, l)
  BY <1>1, PlanFacts
<1>3. s \in Int /\ l \in Int /\ bid \in Int /\ ask \in Int /\ MaximumLoss \in Int
  BY <1>2, ChainTypes, ChoiceConstants DEF ChoiceInv
<1>4. /\ legs["short"].quantity = q /\ legs["long"].quantity = q
      /\ ln <= q * ll /\ sn >= q * sl /\ CreditAccepted
  BY <1>1 DEF ChoiceInv
<1>5. sn \in Int /\ ln \in Int /\ sf \in Nat /\ lf \in Nat
  BY DEF ChoiceInv, LegTotals
<1>6. ActualNetCredit = sn - ln - sf - lf
  BY DEF ActualNetCredit
<1>7. ExpirationPnl(price) = sn - ln - sf - lf - is + il
  BY <1>4, <1>6 DEF ExpirationPnl
<1>8. RoundingGivenAway = (bid - sl + ll - ask) * q
  BY DEF RoundingGivenAway
<1>9. w - (bid - ask) * q <= MaximumLoss
  BY <1>2 DEF WithinLoss, PairWidth, PairCredit
<1>10. is \in Int /\ il \in Int /\ w \in Int /\ is - il <= w
       /\ (price >= s => is = 0 /\ il = 0)
  <2>1. l <= s /\ s \in Int /\ l \in Int /\ q \in Nat
    BY <1>2, <1>3
  <2> HIDE DEF s, l, q
  <2>2. /\ Intrinsic(s, price) * q \in Int /\ Intrinsic(l, price) * q \in Int
        /\ ((s - l) * OneDollar) * q \in Int
        /\ Intrinsic(s, price) * q - Intrinsic(l, price) * q <= ((s - l) * OneDollar) * q
        /\ price >= s => Intrinsic(s, price) * q = 0 /\ Intrinsic(l, price) * q = 0
    BY <2>1, SpreadLoss, Zenon
  <2> QED BY <2>2
<1> HIDE DEF q, s, l, sn, ln, sf, lf, bid, ask, sl, ll, w, is, il
<1>11. /\ bid * q \in Int /\ ask * q \in Int /\ sl * q \in Int /\ ll * q \in Int
       /\ (bid - ask) * q = bid * q - ask * q
       /\ (bid - sl + ll - ask) * q = bid * q - sl * q + ll * q - ask * q
       /\ q * ll = ll * q /\ q * sl = sl * q
  BY <1>2, <1>3
<1>12. ExpirationPnl(price) >= -(MaximumLoss + RoundingGivenAway + sf + lf)
  BY <1>3, <1>4, <1>5, <1>7, <1>8, <1>9, <1>10, <1>11
<1>13. price >= s => ExpirationPnl(price) > 0
  BY <1>4, <1>5, <1>6, <1>7, <1>10 DEF CreditAccepted
<1> QED BY <1>12, <1>13 DEF s, sf, lf

LEMMA ChoiceStep == ChoiceInv /\ [ChoiceNext]_choiceVars => ChoiceInv'
<1> SUFFICES ASSUME ChoiceInv, [ChoiceNext]_choiceVars PROVE ChoiceInv'
  OBVIOUS
<1>1. ASSUME chain' = chain
      PROVE  \A m, n : PlanFor(m, n)' = PlanFor(m, n) /\ Candidates' = Candidates
  BY <1>1 DEF PlanFor, PairQuantity, Candidates, PairCredit, WithinLoss, PairWidth
<1>2. CASE SelectPair
  <2>1. /\ stage = "choose" /\ UNCHANGED <<chain, legs>>
        /\ \/ Candidates # {} /\ plan' = PlanFor(Best[1], Best[2]) /\ stage' = "long"
           \/ stage' = "refused"
    BY <1>2 DEF SelectPair
  <2>2. CASE stage' = "refused"
    BY <2>1, <2>2 DEF ChoiceInv, Planned
  <2>3. CASE Candidates # {} /\ plan' = PlanFor(Best[1], Best[2]) /\ stage' = "long"
    <3>1. Best \in Candidates /\ chain \in OptionChains
      BY <2>3, BestIsCandidate DEF ChoiceInv
    <3>2. \E p \in Candidates' : plan' = PlanFor(p[1], p[2])'
      BY <1>1, <2>1, <2>3, <3>1
    <3>3. /\ plan'.longLimit \in Int /\ plan'.shortLimit \in Int
      <4>1. Best[1] \in DOMAIN chain /\ Best[2] \in DOMAIN chain
        BY <3>1 DEF Candidates
      <4> QED BY <2>3, <3>1, <4>1, ChainTypes, LimitTypes DEF PlanFor
    <3>4. /\ legs'["long"].notional = 0 /\ legs'["long"].quantity = 0
          /\ legs'["short"].notional = 0 /\ legs'["short"].quantity = 0
      BY <2>1 DEF ChoiceInv, Unfilled
    <3> QED BY <2>1, <2>3, <3>1, <3>2, <3>3, <3>4 DEF ChoiceInv, Planned
  <2> QED BY <2>1, <2>2, <2>3
<1>3. ASSUME NEW side \in {"long", "short"}, FillLeg(side) PROVE ChoiceInv'
  <2>1. PICK price \in FillPrices(side), fee \in 0 .. MaxFee :
          legs' = [legs EXCEPT ![side] =
            [quantity |-> @.quantity + 1, notional |-> @.notional + price, fees |-> @.fees + fee]]
    BY <1>3 DEF FillLeg
  <2>2. stage = side /\ UNCHANGED <<chain, stage, plan>> /\ stage \in Planned
    BY <1>3 DEF FillLeg, Planned
  <2>3. plan.longLimit \in Int /\ plan.shortLimit \in Int /\ plan.quantity \in Nat
    BY <2>2, PlanFacts
  <2>4. price \in Int /\ (side = "long" => price <= plan.longLimit)
        /\ (side = "short" => price >= plan.shortLimit)
    <3>1. Larger(1, plan.longLimit - Improvement) \in Int
      BY <2>3, ChoiceConstants DEF Larger
    <3> QED BY <2>1, <2>3, <3>1, ChoiceConstants DEF FillPrices
  <2>5. /\ legs \in [{"long", "short"} -> LegTotals] /\ fee \in Nat
        /\ \A k \in {"long", "short"} :
             legs[k].quantity \in Nat /\ legs[k].notional \in Int /\ legs[k].fees \in Nat
    BY ChoiceConstants DEF ChoiceInv, LegTotals
  <2>6. /\ legs' \in [{"long", "short"} -> LegTotals]
        /\ legs'[side].quantity = legs[side].quantity + 1
        /\ legs'[side].notional = legs[side].notional + price
        /\ \A k \in {"long", "short"} : k # side => legs'[k] = legs[k]
    <3>1. [quantity |-> legs[side].quantity + 1, notional |-> legs[side].notional + price,
           fees |-> legs[side].fees + fee] \in LegTotals
      BY <2>4, <2>5 DEF LegTotals
    <3> QED BY <2>1, <2>5, <3>1
  <2>7. \A x \in Int : (legs[side].quantity + 1) * x = legs[side].quantity * x + x
                       /\ legs[side].quantity * x \in Int
    BY <2>5
  <2>8. /\ legs'["long"].notional <= legs'["long"].quantity * plan.longLimit
        /\ legs'["short"].notional >= legs'["short"].quantity * plan.shortLimit
    <3>1. /\ legs["long"].notional <= legs["long"].quantity * plan.longLimit
          /\ legs["short"].notional >= legs["short"].quantity * plan.shortLimit
      BY <2>2 DEF ChoiceInv
    <3>2. CASE side = "long"
      <4>1. legs'["long"].quantity * plan.longLimit
              = legs["long"].quantity * plan.longLimit + plan.longLimit
            /\ legs["long"].quantity * plan.longLimit \in Int
        BY <2>3, <2>6, <2>7, <3>2
      <4>2. legs'["short"] = legs["short"]
        BY <2>6, <3>2
      <4>3. legs'["long"].notional = legs["long"].notional + price /\ price <= plan.longLimit
            /\ legs["long"].notional \in Int
        BY <2>4, <2>5, <2>6, <3>2
      <4> QED BY <2>3, <2>4, <3>1, <4>1, <4>2, <4>3
    <3>3. CASE side = "short"
      <4>1. legs'["short"].quantity * plan.shortLimit
              = legs["short"].quantity * plan.shortLimit + plan.shortLimit
            /\ legs["short"].quantity * plan.shortLimit \in Int
        BY <2>3, <2>6, <2>7, <3>3
      <4>2. legs'["long"] = legs["long"]
        BY <2>6, <3>3
      <4>3. legs'["short"].notional = legs["short"].notional + price /\ price >= plan.shortLimit
            /\ legs["short"].notional \in Int
        BY <2>4, <2>5, <2>6, <3>3
      <4> QED BY <2>3, <2>4, <3>1, <4>1, <4>2, <4>3
    <3> QED BY <3>2, <3>3
  <2>9. stage' = "short" => legs'["long"].quantity = plan'.quantity
    BY <2>2, <2>6 DEF ChoiceInv
  <2>10. \E p \in Candidates' : plan' = PlanFor(p[1], p[2])'
    BY <1>1, <2>2 DEF ChoiceInv
  <2> QED BY <2>2, <2>6, <2>8, <2>9, <2>10 DEF ChoiceInv
<1>4. CASE FinalizeLong \/ FinalizeShort
  <2>1. /\ UNCHANGED <<chain, plan, legs>>
        /\ \/ stage' = "ERROR"
           \/ stage = "long" /\ stage' = "short" /\ legs["long"].quantity = plan.quantity
           \/ /\ stage = "short" /\ stage' = "OPEN"
              /\ legs["short"].quantity = plan.quantity /\ CreditAccepted
    BY <1>4 DEF FinalizeLong, FinalizeShort
  <2>2. CreditAccepted' = CreditAccepted
    BY <2>1 DEF CreditAccepted, ActualNetCredit
  <2>3. Candidates' = Candidates /\ \A m, n : PlanFor(m, n)' = PlanFor(m, n)
    BY <1>1, <2>1
  <2> QED BY <2>1, <2>2, <2>3 DEF ChoiceInv, Planned
<1>5. CASE UNCHANGED choiceVars
  <2>1. UNCHANGED <<chain, stage, plan, legs>>
    BY <1>5 DEF choiceVars
  <2>2. CreditAccepted' = CreditAccepted
    BY <2>1 DEF CreditAccepted, ActualNetCredit
  <2>3. Candidates' = Candidates /\ \A m, n : PlanFor(m, n)' = PlanFor(m, n)
    BY <1>1, <2>1
  <2> QED BY <2>1, <2>2, <2>3 DEF ChoiceInv, Planned
<1> QED BY <1>2, <1>3, <1>4, <1>5 DEF ChoiceNext

\* The loss limit of the selection holds for the spread that was filled: at no settlement
\* price does it lose more than the limit, the fees and what the rounding gave away.
THEOREM SpreadLossIsBounded == ChoiceSpec => []LossIsBounded
<1>1. ChoiceInit => ChoiceInv
  BY DEF ChoiceInit, ChoiceInv, Unfilled, LegTotals, Planned
<1>2. ChoiceInv /\ [ChoiceNext]_choiceVars => ChoiceInv'
  BY ChoiceStep
<1>3. ChoiceInv => LossIsBounded
  <2> SUFFICES ASSUME ChoiceInv, stage = "OPEN", NEW price \in SettlementPrices
               PROVE  /\ ExpirationPnl(price) >=
                           -(MaximumLoss + RoundingGivenAway + legs["short"].fees + legs["long"].fees)
                      /\ price >= plan.shortStrike => ExpirationPnl(price) > 0
    BY DEF LossIsBounded
  <2>1. price \in Int
    BY ChainTypes DEF SettlementPrices, ChoiceInv
  <2> QED BY <2>1, LossAtEveryPrice
<1> QED BY <1>1, <1>2, <1>3, PTL DEF ChoiceSpec
=============================================================================
