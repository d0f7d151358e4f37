------------------------- MODULE LevelExecutionProofs -------------------------
(***************************************************************************)
(* Machine-checked facts about LevelExecution, for every quantity and every *)
(* bound of the polling loops, whatever the exchange fills, delays or loses *)
(* and wherever the runner fails or crashes.                               *)
(*                                                                         *)
(* ExchangeInv says what the exchange keeps by itself, StoreInv what the   *)
(* durable tables keep, and PathInv what the runner may rely on at each    *)
(* point of its path.  Quantities are sums over sets of executions.        *)
(***************************************************************************)
EXTENDS MCLevelExecution, SumTheorems, TLAPS

-----------------------------------------------------------------------------
(* Totals of executions *)

\* Executions of any number and quantity.
Lots == [role : Roles, n : Nat, qty : Nat]

LEMMA TotalEmpty == Total({}) = 0
<1>1. Sum([e \in {} |-> e.qty], {}) = 0
  BY SumEmpty
<1> QED BY <1>1 DEF Total, Sum

\* The total of a set, and of its subsets, with one function for all of them.
LEMMA TotalIsSum ==
  ASSUME NEW E, IsFiniteSet(E), E \subseteq Lots, NEW F \in SUBSET E
  PROVE  /\ Total(F) = Sum([e \in E |-> e.qty], F)
         /\ Total(F) \in Nat /\ Total(F) <= Total(E)
<1> DEFINE f == [e \in F |-> e.qty]
           g == [e \in E |-> e.qty]
<1>1. IsFiniteSet(F) /\ (\A x \in F : f[x] \in Int /\ f[x] = g[x])
      /\ (\A x \in F : g[x] \in Nat) /\ (\A x \in E : g[x] \in Nat)
  BY FS_Subset DEF Lots
<1>2. Total(F) = Sum(f, F) /\ Total(E) = Sum(g, E)
  BY DEF Total, Sum
<1> HIDE DEF f, g
<1>3. Sum(f, F) = Sum(g, F)
  BY <1>1, SumSame
<1>4. Sum(g, F) \in Nat
  BY <1>1, SumType
<1>5. Sum(g, F) <= Sum(g, E)
  BY <1>1, SumSubset
<1>6. Total(F) = Sum(g, F)
  BY <1>2, <1>3
<1>7. Total(F) <= Total(E) /\ Total(F) \in Nat
  BY <1>2, <1>4, <1>5, <1>6
<1> QED BY <1>6, <1>7 DEF g

LEMMA TotalNat ==
  ASSUME NEW E, IsFiniteSet(E), E \subseteq Lots
  PROVE  Total(E) \in Nat
<1>1. E \in SUBSET E
  OBVIOUS
<1> QED BY <1>1, TotalIsSum

LEMMA TotalAdd ==
  ASSUME NEW E, IsFiniteSet(E), E \subseteq Lots, NEW x \in Lots, x \notin E
  PROVE  /\ Total(E \cup {x}) = Total(E) + x.qty
         /\ IsFiniteSet(E \cup {x}) /\ E \cup {x} \subseteq Lots
         /\ Total(E) \in Nat /\ x.qty \in Nat
<1> DEFINE T == E \cup {x}
           g == [e \in T |-> e.qty]
<1>1. IsFiniteSet(T) /\ T \subseteq Lots /\ E \in SUBSET T /\ T \in SUBSET T
  BY FS_AddElement
<1>2. Total(T) = Sum(g, T) /\ Total(E) = Sum(g, E) /\ Total(E) \in Nat
  <2> HIDE DEF T
  <2> QED BY <1>1, TotalIsSum
<1>3. g[x] = x.qty /\ x.qty \in Nat /\ (\A y \in E \cup {x} : g[y] \in Int)
  BY DEF Lots
<1> HIDE DEF g
<1>4. Sum(g, E \cup {x}) = g[x] + Sum(g, E)
  BY <1>3, SumAdd
<1> QED BY <1>1, <1>2, <1>3, <1>4

\* A part of a set that has the same total is the whole set, if no execution is
\* empty.
LEMMA TotalWhole ==
  ASSUME NEW E, IsFiniteSet(E), E \subseteq Lots, \A e \in E : e.qty > 0,
         NEW F \in SUBSET E, Total(E) <= Total(F)
  PROVE  F = E
<1> SUFFICES ASSUME NEW x \in E, x \notin F PROVE FALSE
  OBVIOUS
<1> DEFINE R == E \ {x}
<1>1. IsFiniteSet(R) /\ R \subseteq Lots /\ x \in Lots /\ x \notin R /\ F \in SUBSET R
      /\ R \cup {x} = E
  BY FS_Subset
<1> HIDE DEF R
<1>2. Total(E) = Total(R) + x.qty /\ Total(R) \in Nat /\ x.qty \in Nat
  BY <1>1, TotalAdd
<1>3. Total(F) <= Total(R) /\ Total(F) \in Nat
  BY <1>1, TotalIsSum
<1>4. x.qty > 0
  OBVIOUS
<1> QED BY <1>2, <1>3, <1>4

\* The totals of two disjoint sets add up.
LEMMA TotalUnion ==
  ASSUME NEW E, IsFiniteSet(E), E \subseteq Lots, NEW F, F \subseteq E, NEW G, G \subseteq E,
         F \cap G = {}
  PROVE  Total(F \cup G) = Total(F) + Total(G)
<1> DEFINE Bad == {s \in SUBSET G : Total(F \cup s) # Total(F) + Total(s)}
<1> SUFFICES ASSUME Bad # {} PROVE FALSE
  OBVIOUS
<1>0. IsFiniteSet(F) /\ IsFiniteSet(G) /\ F \subseteq Lots /\ G \subseteq Lots /\ Total(F) \in Nat
  <2>1. IsFiniteSet(F) /\ IsFiniteSet(G) /\ F \subseteq Lots /\ G \subseteq Lots
    BY FS_Subset
  <2> QED BY <2>1, TotalNat
<1>1. PICK s \in Bad : \A u \in Bad : u \subseteq s => u = s
  <2>1. Bad \in SUBSET (SUBSET G)
    OBVIOUS
  <2> HIDE DEF Bad
  <2> QED BY <1>0, <2>1, MinimalSubset
<1>2. s # {}
  <2> SUFFICES ASSUME s = {} PROVE FALSE
    OBVIOUS
  <2>1. F \cup s = F
    OBVIOUS
  <2> QED BY <1>0, <1>1, <2>1, TotalEmpty
<1>3. PICK x \in s : TRUE
  BY <1>2
<1> DEFINE r == s \ {x}
           FR == F \cup r
<1>4. r \subseteq G /\ r # s /\ r \subseteq s /\ x \in G /\ x \notin F /\ x \in Lots
  BY <1>0, <1>1, <1>3
<1>5. Total(FR) = Total(F) + Total(r)
  BY <1>1, <1>4
<1>6. IsFiniteSet(r) /\ r \subseteq Lots /\ x \notin r /\ r \cup {x} = s
  BY <1>0, <1>1, <1>3, FS_Subset
<1>7. IsFiniteSet(FR) /\ FR \subseteq Lots /\ x \notin FR /\ FR \cup {x} = F \cup s
  BY <1>0, <1>4, <1>6, FS_Union
<1>8. Total(F \cup s) # Total(F) + Total(s)
  BY <1>1
<1> HIDE DEF Bad, r, FR
<1>9. Total(s) = Total(r) + x.qty /\ Total(r) \in Nat /\ x.qty \in Nat
  BY <1>4, <1>6, TotalAdd
<1>10. Total(F \cup s) = Total(FR) + x.qty
  BY <1>4, <1>7, TotalAdd
<1> QED BY <1>0, <1>5, <1>8, <1>9, <1>10

LEMMA RoleTotalNat ==
  ASSUME NEW E, IsFiniteSet(E), E \subseteq Lots, NEW R
  PROVE  /\ IsFiniteSet(OfRole(E, R)) /\ OfRole(E, R) \subseteq Lots
         /\ Total(OfRole(E, R)) \in Nat
<1>1. OfRole(E, R) \in SUBSET E
  BY DEF OfRole
<1>2. IsFiniteSet(OfRole(E, R)) /\ OfRole(E, R) \subseteq Lots
  BY <1>1, FS_Subset
<1> QED BY <1>2, TotalNat

\* The total of some roles after one more execution.
LEMMA RoleTotalAdd ==
  ASSUME NEW E, IsFiniteSet(E), E \subseteq Lots, NEW x \in Lots, x \notin E, NEW R
  PROVE  Total(OfRole(E \cup {x}, R)) =
           IF x.role \in R THEN Total(OfRole(E, R)) + x.qty ELSE Total(OfRole(E, R))
<1>1. IsFiniteSet(OfRole(E, R)) /\ OfRole(E, R) \subseteq Lots /\ x \notin OfRole(E, R)
  BY RoleTotalNat DEF OfRole
<1>2. OfRole(E \cup {x}, R) = IF x.role \in R THEN OfRole(E, R) \cup {x} ELSE OfRole(E, R)
  BY DEF OfRole
<1>3. Total(OfRole(E, R) \cup {x}) = Total(OfRole(E, R)) + x.qty
  BY <1>1, TotalAdd
<1> QED BY <1>2, <1>3

\* Fewer executions of fewer roles have a smaller total.
LEMMA RoleTotalSubset ==
  ASSUME NEW E, IsFiniteSet(E), E \subseteq Lots, NEW F \in SUBSET E, NEW R, NEW Q, R \subseteq Q
  PROVE  Total(OfRole(F, R)) <= Total(OfRole(E, Q))
<1>1. OfRole(F, R) \in SUBSET OfRole(E, Q)
  BY DEF OfRole
<1> QED BY <1>1, RoleTotalNat, TotalIsSum

-----------------------------------------------------------------------------
(* The exchange by itself: ExchangeInv *)

NonEntry == Roles \ {"ENTRY"}
EntryTotal == Total(OfRole(fills, {"ENTRY"}))
ClosedTotal == Total(OfRole(fills, NonEntry))

\* The buy orders are reduce-only, so they never fill more than the entry has;
\* and as no fill is empty, this bounds the number of fills.
FillsInv ==
  /\ fills \subseteq Executions /\ IsFiniteSet(fills)
  /\ history \subseteq fills
  /\ \A e \in fills : e.n <= Cardinality(fills)
  /\ Cardinality(fills) <= EntryTotal + ClosedTotal
  /\ EntryTotal <= Qty
  /\ ClosedTotal <= EntryTotal

\* An entry that is complete is no longer working.
EntryOrderInv ==
  /\ order["ENTRY"] \in {"NONE", "INFLIGHT"} => EntryTotal = 0
  /\ order["ENTRY"] # "NONE" => size["ENTRY"] = Qty
  /\ order["ENTRY"] = "OPEN" => EntryTotal < Qty

ExchangeInv ==
  /\ order \in [Roles -> {"NONE", "INFLIGHT", "OPEN", "DONE"}]
  /\ size \in [Roles -> 0 .. Qty]
  /\ amended \in BOOLEAN /\ missed \in BOOLEAN
  /\ FillsInv
  /\ EntryOrderInv

LEMMA PositionIs ==
  /\ Position = EntryTotal - ClosedTotal
  /\ Filled("ENTRY") = EntryTotal
BY DEF Position, Filled, EntryTotal, ClosedTotal, NonEntry

LEMMA Difference ==
  ASSUME NEW q \in Nat, NEW a \in Nat, NEW b \in Nat, b <= a, a <= q
  PROVE  a - b \in 0 .. q /\ (a <= b => a - b = 0)
OBVIOUS

LEMMA TotalsNat ==
  ASSUME ExchangeInv
  PROVE  /\ EntryTotal \in Nat /\ ClosedTotal \in Nat /\ Position \in 0 .. Qty
         /\ Cardinality(fills) \in Nat /\ fills \subseteq Lots /\ IsFiniteSet(fills)
         /\ Qty \in Nat /\ Qty > 0
         /\ \A r \in Roles : Filled(r) \in Nat
<1>1. fills \subseteq Lots /\ IsFiniteSet(fills) /\ Qty \in Nat /\ Qty > 0
  BY ExecutionConstants DEF ExchangeInv, FillsInv, Executions, Lots
<1>2. EntryTotal \in Nat /\ ClosedTotal \in Nat /\ \A r \in Roles : Filled(r) \in Nat
  BY <1>1, RoleTotalNat DEF EntryTotal, ClosedTotal, Filled
<1>3. Position \in 0 .. Qty
  BY <1>1, <1>2, PositionIs DEF ExchangeInv, FillsInv
<1> QED BY <1>1, <1>2, <1>3, FS_CardinalityType

LEMMA ExchangeInit == Init => ExchangeInv
<1> SUFFICES ASSUME Init PROVE ExchangeInv
  OBVIOUS
<1>1. fills = {} /\ history = {} /\ OfRole({}, {"ENTRY"}) = {} /\ OfRole({}, NonEntry) = {}
  BY DEF Init, OfRole
<1>2. EntryTotal = 0 /\ ClosedTotal = 0 /\ Cardinality(fills) = 0 /\ IsFiniteSet(fills)
  BY <1>1, TotalEmpty, FS_EmptySet DEF EntryTotal, ClosedTotal
<1>3. FillsInv
  BY <1>1, <1>2, ExecutionConstants DEF FillsInv
<1>4. order["ENTRY"] = "NONE" /\ order \in [Roles -> {"NONE"}]
      /\ size \in [Roles -> {0}] /\ amended = FALSE /\ missed = FALSE
  BY DEF Init, Roles
<1>5. EntryOrderInv
  BY <1>2, <1>4 DEF EntryOrderInv
<1>6. order \in [Roles -> {"NONE", "INFLIGHT", "OPEN", "DONE"}] /\ size \in [Roles -> 0 .. Qty]
  BY <1>4, ExecutionConstants
<1> QED BY <1>3, <1>4, <1>5, <1>6 DEF ExchangeInv

\* A step that fills nothing.
LEMMA ExchangeFrame ==
  ASSUME ExchangeInv, fills' = fills, history' = history \/ history' = fills,
         order' \in [Roles -> {"NONE", "INFLIGHT", "OPEN", "DONE"}],
         size' \in [Roles -> 0 .. Qty], amended' \in BOOLEAN, missed' \in BOOLEAN, EntryOrderInv'
  PROVE  ExchangeInv'
<1>1. FillsInv'
  BY DEF ExchangeInv, FillsInv, EntryTotal, ClosedTotal
<1> QED BY <1>1 DEF ExchangeInv

LEMMA ExchangeUnchanged ==
  ASSUME ExchangeInv, UNCHANGED exchangeVars
  PROVE  ExchangeInv'
<1>1. UNCHANGED <<order, size, fills, history, amended, missed>>
  BY DEF exchangeVars
<1>2. EntryOrderInv'
  BY <1>1 DEF ExchangeInv, EntryOrderInv, EntryTotal
<1> QED BY <1>1, <1>2, ExchangeFrame DEF ExchangeInv

LEMMA FillStep ==
  ASSUME ExchangeInv, NEW r \in Roles, NEW q \in 1 .. Qty, Fill(r, q)
  PROVE  /\ ExchangeInv'
         /\ EntryTotal' = EntryTotal + (IF r = "ENTRY" THEN q ELSE 0)
         /\ ClosedTotal' = ClosedTotal + (IF r = "ENTRY" THEN 0 ELSE q)
         /\ Filled(r)' = Filled(r) + q
<1> DEFINE x == [role |-> r, n |-> Cardinality(fills) + 1, qty |-> q]
           c == Cardinality(fills)
<1>1. /\ order[r] = "OPEN" /\ q <= size[r] - Filled(r) /\ (r # "ENTRY" => q <= Position)
      /\ fills' = fills \cup {x}
      /\ order' = [order EXCEPT ![r] = IF q = size[r] - Filled(r) THEN "DONE" ELSE @]
      /\ UNCHANGED <<size, history, amended, missed>>
  BY DEF Fill
<1>2. /\ EntryTotal \in Nat /\ ClosedTotal \in Nat /\ c \in Nat /\ Qty \in Nat
      /\ fills \subseteq Lots /\ IsFiniteSet(fills) /\ Filled(r) \in Nat
  BY TotalsNat
<1>3. /\ order \in [Roles -> {"NONE", "INFLIGHT", "OPEN", "DONE"}]
      /\ size \in [Roles -> 0 .. Qty] /\ amended \in BOOLEAN /\ missed \in BOOLEAN
      /\ FillsInv /\ EntryOrderInv
  BY DEF ExchangeInv
<1>4. x \notin fills /\ x \in Lots /\ x.role = r /\ x.qty = q /\ q \in Nat /\ q >= 1
  <2>1. x.n = c + 1 /\ ~(c + 1 <= c)
    BY <1>2
  <2> QED BY <1>2, <1>3, <2>1 DEF FillsInv, Lots
<1>5. /\ Total(OfRole(fills \cup {x}, {"ENTRY"})) =
            IF r \in {"ENTRY"} THEN EntryTotal + q ELSE EntryTotal
      /\ Total(OfRole(fills \cup {x}, NonEntry)) =
            IF r \in NonEntry THEN ClosedTotal + q ELSE ClosedTotal
      /\ Total(OfRole(fills \cup {x}, {r})) = Filled(r) + q
  <2> HIDE DEF x
  <2> QED BY <1>2, <1>4, RoleTotalAdd DEF EntryTotal, ClosedTotal, Filled
<1>6. /\ EntryTotal' = EntryTotal + (IF r = "ENTRY" THEN q ELSE 0)
      /\ ClosedTotal' = ClosedTotal + (IF r = "ENTRY" THEN 0 ELSE q)
      /\ Filled(r)' = Filled(r) + q
  <2>1. r = "ENTRY" \/ r \in NonEntry
    BY DEF NonEntry
  <2>2. /\ EntryTotal' = Total(OfRole(fills \cup {x}, {"ENTRY"}))
        /\ ClosedTotal' = Total(OfRole(fills \cup {x}, NonEntry))
        /\ Filled(r)' = Total(OfRole(fills \cup {x}, {r}))
    BY <1>1 DEF EntryTotal, ClosedTotal, Filled
  <2> HIDE DEF x
  <2> QED BY <1>2, <1>4, <1>5, <2>1, <2>2 DEF NonEntry
<1>7. IsFiniteSet(fills') /\ Cardinality(fills') = c + 1
  <2> HIDE DEF x
  <2> QED BY <1>1, <1>2, <1>4, FS_AddElement
<1>8. EntryTotal' <= Qty /\ ClosedTotal' <= EntryTotal'
  <2>1. EntryTotal <= Qty /\ ClosedTotal <= EntryTotal
    BY <1>3 DEF FillsInv
  <2>2. size[r] <= Qty /\ size[r] \in Nat /\ (r = "ENTRY" => Filled(r) = EntryTotal)
    BY <1>3, PositionIs
  <2>3. Position = EntryTotal - ClosedTotal
    BY PositionIs
  <2> QED BY <1>1, <1>2, <1>4, <1>6, <2>1, <2>2, <2>3
<1>9. c + 1 <= EntryTotal' + ClosedTotal' /\ EntryTotal' \in Nat /\ ClosedTotal' \in Nat
  <2>1. c <= EntryTotal + ClosedTotal
    BY <1>3 DEF FillsInv
  <2> QED BY <1>2, <1>4, <1>6, <2>1
<1>10. x \in Executions
  <2>1. c + 1 <= 2 * Qty
    BY <1>2, <1>8, <1>9
  <2> QED BY <1>2, <1>4, <2>1 DEF Executions
<1>11. FillsInv'
  <2>1. \A e \in fills' : e.n <= c + 1 /\ e \in Executions
    <3> SUFFICES ASSUME NEW e \in fills' PROVE e.n <= c + 1 /\ e \in Executions
      OBVIOUS
    <3>1. CASE e \in fills
      BY <1>2, <1>3, <3>1 DEF FillsInv, Executions
    <3>2. CASE e = x
      BY <1>2, <1>10, <3>2
    <3> QED BY <1>1, <3>1, <3>2
  <2>2. history' \subseteq fills'
    BY <1>1, <1>3 DEF FillsInv
  <2> QED BY <1>7, <1>8, <1>9, <2>1, <2>2 DEF FillsInv, Executions, Roles, Exits
<1>12. EntryOrderInv'
  <2>1. CASE r = "ENTRY"
    <3>1. size["ENTRY"] = Qty /\ Filled(r) = EntryTotal /\ EntryTotal' = EntryTotal + q
      BY <1>1, <1>2, <1>4, <1>3, <1>6, <2>1, PositionIs DEF EntryOrderInv
    <3>2. order'["ENTRY"] = IF q = Qty - EntryTotal THEN "DONE" ELSE "OPEN"
      BY <1>1, <1>3, <2>1, <3>1
    <3>3. q <= Qty - EntryTotal
      BY <1>1, <2>1, <3>1
    <3> QED BY <1>1, <1>2, <1>4, <3>1, <3>2, <3>3 DEF EntryOrderInv
  <2>2. CASE r # "ENTRY"
    <3>1. order'["ENTRY"] = order["ENTRY"] /\ EntryTotal' = EntryTotal /\ size' = size
      BY <1>1, <1>2, <1>3, <1>6, <2>2 DEF Roles
    <3> QED BY <1>3, <3>1 DEF EntryOrderInv
  <2> QED BY <2>1, <2>2
<1>13. order' \in [Roles -> {"NONE", "INFLIGHT", "OPEN", "DONE"}]
  BY <1>1, <1>3
<1> QED BY <1>1, <1>3, <1>6, <1>11, <1>12, <1>13 DEF ExchangeInv

Arrived(r) == order[r] \in {"OPEN", "DONE"}

\* The position has its stop, or is gone, or the triggered stop itself left it.
StopHolds == order["STOP"] = "OPEN" \/ Position = 0 \/ missed

\* The stop covers the whole entry, which cannot grow.
StopCovers == order["ENTRY"] = "DONE" /\ size["STOP"] = EntryTotal

\* What a step of the exchange never does: it takes no order back, and once the
\* entry is over a position that is gone stays so, and a stop for all of it ends
\* only with the position or by missing part of it.
LEMMA ExchangeMoves ==
  ASSUME ExchangeInv, Exchange
  PROVE  /\ ExchangeInv'
         /\ size' = size /\ history \subseteq history' /\ UNCHANGED <<storeVars, runnerVars>>
         /\ \A r \in Roles :
              /\ order[r] = "NONE" => order'[r] = "NONE"
              /\ order[r] = "DONE" => order'[r] = "DONE"
              /\ Arrived(r) => Arrived(r)'
         /\ order["ENTRY"] = "DONE" => EntryTotal' = EntryTotal
         /\ order["ENTRY"] = "DONE" /\ Position = 0 => Position' = 0
         /\ missed => missed'
         /\ StopCovers /\ StopHolds => StopHolds'
<1> USE DEF Arrived
<1>1. /\ order \in [Roles -> {"NONE", "INFLIGHT", "OPEN", "DONE"}]
      /\ size \in [Roles -> 0 .. Qty] /\ amended \in BOOLEAN /\ missed \in BOOLEAN
      /\ FillsInv /\ EntryOrderInv
      /\ EntryTotal \in Nat /\ ClosedTotal \in Nat /\ Position \in 0 .. Qty
      /\ Qty \in Nat /\ "ENTRY" \in Roles /\ "STOP" \in Roles
  BY TotalsNat DEF ExchangeInv, Roles, Exits
<1>2. history \subseteq fills /\ Position = EntryTotal - ClosedTotal
      /\ Position' = EntryTotal' - ClosedTotal'
  <2>1. Position' = EntryTotal' - ClosedTotal'
    BY DEF Position, Filled, EntryTotal, ClosedTotal, NonEntry
  <2> QED BY <1>1, <2>1, PositionIs DEF FillsInv
<1>3. ASSUME NEW r \in Roles, Arrive(r) \/ Vanish(r) \/ Expire(r)
      PROVE  /\ UNCHANGED <<fills, size, history, amended, storeVars, runnerVars>>
             /\ missed' \in BOOLEAN /\ (missed => missed')
             /\ \E v \in {"NONE", "OPEN", "DONE"} :
                  /\ order' = [order EXCEPT ![r] = v]
                  /\ v = "DONE" => order[r] = "OPEN" /\ (r = "STOP" /\ Position > 0 => missed')
                  /\ v # "DONE" => order[r] = "INFLIGHT"
  BY <1>1, <1>3 DEF Arrive, Vanish, Expire
<1>4. ASSUME NEW r \in Roles, Arrive(r) \/ Vanish(r) \/ Expire(r)
      PROVE  /\ ExchangeInv' /\ EntryTotal' = EntryTotal /\ Position' = Position
             /\ size' = size /\ history' = history /\ UNCHANGED <<storeVars, runnerVars>>
             /\ \A k \in Roles :
                  /\ order[k] = "NONE" => order'[k] = "NONE"
                  /\ order[k] = "DONE" => order'[k] = "DONE"
                  /\ Arrived(k) => Arrived(k)'
             /\ missed => missed'
             /\ StopHolds => StopHolds'
  <2>1. PICK v \in {"NONE", "OPEN", "DONE"} :
          /\ order' = [order EXCEPT ![r] = v]
          /\ v = "DONE" => order[r] = "OPEN" /\ (r = "STOP" /\ Position > 0 => missed')
          /\ v # "DONE" => order[r] = "INFLIGHT"
    BY <1>3, <1>4
  <2>2. /\ UNCHANGED <<fills, size, history, amended, storeVars, runnerVars>>
        /\ missed' \in BOOLEAN /\ (missed => missed')
    BY <1>3, <1>4
  <2>3. EntryTotal' = EntryTotal /\ ClosedTotal' = ClosedTotal
    BY <2>2 DEF EntryTotal, ClosedTotal
  <2>4. order' \in [Roles -> {"NONE", "INFLIGHT", "OPEN", "DONE"}]
    BY <1>1, <2>1
  <2>5. EntryOrderInv'
    <3>1. CASE r = "ENTRY"
      BY <1>1, <2>1, <2>2, <2>3, <3>1, ExecutionConstants DEF EntryOrderInv
    <3>2. CASE r # "ENTRY"
      BY <1>1, <2>1, <2>2, <2>3, <3>2 DEF EntryOrderInv
    <3> QED BY <3>1, <3>2
  <2>6. ExchangeInv'
    BY <1>1, <2>2, <2>4, <2>5, ExchangeFrame
  <2>7. \A k \in Roles : /\ order[k] = "NONE" => order'[k] = "NONE"
                         /\ order[k] = "DONE" => order'[k] = "DONE"
                         /\ Arrived(k) => Arrived(k)'
    BY <1>1, <2>1
  <2>8. Position' = Position
    BY <1>1, <1>2, <2>3
  <2>9. StopHolds => StopHolds'
    <3>1. CASE order["STOP"] = "OPEN" /\ r = "STOP" /\ Position > 0
      BY <2>1, <3>1 DEF StopHolds
    <3>2. CASE order["STOP"] = "OPEN" /\ r # "STOP"
      BY <1>1, <2>1, <3>2 DEF StopHolds
    <3>3. CASE Position = 0 \/ missed
      BY <2>2, <2>8, <3>3 DEF StopHolds
    <3> QED BY <1>1, <3>1, <3>2, <3>3 DEF StopHolds
  <2> QED BY <2>2, <2>3, <2>6, <2>7, <2>8, <2>9
<1>5. CASE \E r \in Roles : Arrive(r) \/ Vanish(r) \/ Expire(r)
  BY <1>4, <1>5
<1>6. CASE \E r \in Roles : \E q \in 1 .. Qty : Fill(r, q)
  <2>1. PICK r \in Roles, q \in 1 .. Qty : Fill(r, q)
    BY <1>6
  <2>2. /\ order[r] = "OPEN" /\ q <= size[r] - Filled(r) /\ (r # "ENTRY" => q <= Position)
        /\ order' = [order EXCEPT ![r] = IF q = size[r] - Filled(r) THEN "DONE" ELSE @]
        /\ UNCHANGED <<size, history, amended, missed, storeVars, runnerVars>>
    BY <2>1 DEF Fill
  <2>3. /\ ExchangeInv'
        /\ EntryTotal' = EntryTotal + (IF r = "ENTRY" THEN q ELSE 0)
        /\ ClosedTotal' = ClosedTotal + (IF r = "ENTRY" THEN 0 ELSE q)
        /\ Filled(r)' = Filled(r) + q
    BY <2>1, FillStep
  <2>4. \A k \in Roles : /\ order[k] = "NONE" => order'[k] = "NONE"
                         /\ order[k] = "DONE" => order'[k] = "DONE"
                         /\ Arrived(k) => Arrived(k)'
    BY <1>1, <2>2
  <2>5. order["ENTRY"] = "DONE" => r # "ENTRY" /\ EntryTotal' = EntryTotal
    BY <1>1, <2>2, <2>3
  <2>6. order["ENTRY"] = "DONE" => Position # 0
    BY <1>1, <2>2, <2>5
  <2>7. ASSUME StopCovers, StopHolds PROVE StopHolds'
    <3>1. CASE missed \/ order'["STOP"] = "OPEN"
      BY <2>2, <3>1 DEF StopHolds
    <3>2. CASE ~missed /\ order'["STOP"] # "OPEN"
      <4>0. order["STOP"] = "OPEN" /\ r # "ENTRY" /\ EntryTotal' = EntryTotal
        BY <2>5, <2>6, <2>7, <3>2 DEF StopHolds, StopCovers
      <4>1. r = "STOP" /\ q = size["STOP"] - Filled("STOP")
        BY <1>1, <2>2, <3>2, <4>0
      <4>2. Filled("STOP")' = EntryTotal
        BY <1>1, <2>3, <2>7, <4>1, TotalsNat DEF StopCovers
      <4>3. fills' \subseteq Lots /\ IsFiniteSet(fills') /\ Position' \in 0 .. Qty
            /\ EntryTotal' \in Nat /\ ClosedTotal' \in Nat
        <5>1. fills' \subseteq Lots /\ IsFiniteSet(fills')
          BY <2>3, ExecutionConstants DEF ExchangeInv, FillsInv, Executions, Lots, Roles, Exits
        <5>2. EntryTotal' \in Nat /\ ClosedTotal' \in Nat
          BY <5>1, RoleTotalNat DEF EntryTotal, ClosedTotal, NonEntry
        <5>3. ClosedTotal' <= EntryTotal' /\ EntryTotal' <= Qty
          BY <2>3 DEF ExchangeInv, FillsInv
        <5>4. EntryTotal' - ClosedTotal' \in 0 .. Qty
          BY <1>1, <5>2, <5>3, Difference
        <5> QED BY <1>2, <5>1, <5>2, <5>4
      <4>4. Filled("STOP")' <= ClosedTotal'
        <5>1. fills' \in SUBSET fills' /\ {"STOP"} \subseteq NonEntry
          BY DEF NonEntry, Roles, Exits
        <5>2. Total(OfRole(fills', {"STOP"})) <= Total(OfRole(fills', NonEntry))
          BY <4>3, <5>1, RoleTotalSubset
        <5> QED BY <5>2 DEF Filled, ClosedTotal, NonEntry
      <4>5. Position' = 0
        <5>1. EntryTotal' <= ClosedTotal' /\ ClosedTotal' <= EntryTotal' /\ EntryTotal' <= Qty
          BY <2>3, <4>0, <4>2, <4>4 DEF ExchangeInv, FillsInv
        <5>2. EntryTotal' - ClosedTotal' = 0
          BY <1>1, <4>3, <5>1, Difference
        <5> QED BY <1>2, <5>2
      <4> QED BY <4>5 DEF StopHolds
    <3> QED BY <3>1, <3>2
  <2> QED BY <2>2, <2>3, <2>4, <2>5, <2>6, <2>7
<1>7. CASE Publish
  <2>1. history' = fills /\ UNCHANGED <<order, size, fills, amended, missed, storeVars, runnerVars>>
    BY <1>7 DEF Publish
  <2>2. EntryTotal' = EntryTotal /\ ClosedTotal' = ClosedTotal
    BY <2>1 DEF EntryTotal, ClosedTotal
  <2>3. EntryOrderInv'
    BY <1>1, <2>1, <2>2 DEF EntryOrderInv
  <2>4. ExchangeInv'
    BY <1>1, <2>1, <2>3, ExchangeFrame
  <2>5. Position' = Position
    BY <1>2, <2>2
  <2> QED BY <1>2, <2>1, <2>2, <2>4, <2>5 DEF StopHolds
<1> QED BY <1>5, <1>6, <1>7 DEF Exchange

-----------------------------------------------------------------------------
(* The durable tables: StoreInv *)

EntryInv ==
  /\ entry \in [state : EntryStates, filled : 0 .. Qty]
  /\ entry.state = "ENTRY_PARTIALLY_FILLED" => 0 < entry.filled /\ entry.filled < Qty
  /\ entry.state = "ACTIVE_UNPROTECTED" =>
       0 < entry.filled /\ order["ENTRY"] = "DONE" /\ EntryTotal = entry.filled
  /\ entry.filled = Total(OfRole(recorded, {"ENTRY"}))

\* The checks of the protection snapshot.
SnapshotOK(p) ==
  /\ p \in Protections
  /\ p.tp + p.stop + p.open = p.qty
  /\ p.state \in {"CANCEL_PENDING", "CLOSED_TP", "CLOSED_STOP"} => p.open = 0
  /\ p.state = "CANCEL_PENDING" => p.pending # "NONE"

\* What the snapshot has closed, against the recorded exits.
Booked(p) ==
  /\ p.qty - p.open >= Total(OfRole(recorded, Exits))
  /\ RecordedCloses = {} => p.qty - p.open = Total(OfRole(recorded, Exits))

ProtectionInv ==
  /\ Protected =>
       /\ SnapshotOK(prot) /\ Booked(prot)
       /\ prot.qty = entry.filled /\ entry.state = "ACTIVE_UNPROTECTED"
  /\ ~Protected =>
       OfRole(recorded, Exits) = {} /\ order["STOP"] = "NONE" /\ order["TP"] = "NONE"
  /\ order["STOP"] # "NONE" => size["STOP"] = prot.qty

StoreInv ==
  /\ recorded \subseteq history /\ intents \subseteq Roles
  /\ EntryInv
  /\ ProtectionInv
  /\ IntentBeforeOrder

-----------------------------------------------------------------------------
(* The runner: PathInv *)

Early ==
  {"persist_entry", "submit_entry", "place_entry", "lookup_entry", "ack_entry", "fail_entry",
   "lose_entry", "entry_fills", "apply_entry", "entry_order", "entry_position"}
Installing == {"place_exit", "lookup_exit", "see_exit", "confirm_exit", "doubt_exit"}
Leaving == {"exit_orders", "exit_cancel", "exit_recheck", "exit_position"}
Guarded ==
  {"protected_position", "liquidation", "restart_capture", "amend", "exit_fills",
   "apply_exit", "final_capture", "done"} \cup Leaving
Polling ==
  {"entry_fills", "apply_entry", "entry_order", "see_exit", "exit_fills", "apply_exit",
   "flat_lookup", "flat_fills", "flat_record", "flat_apply"} \cup Leaving
Labels == InCycle \cup InSafe \cup InBoot \cup AboutToEnd \cup Ended \cup {"admitted"}

RunnerTypes ==
  /\ pc \in Labels /\ (pc \in Polling => tries < Attempts)
  /\ tries \in 0 .. Attempts /\ leg \in Exits
  /\ targets \subseteq Exits /\ gotFill \in BOOLEAN /\ DOMAIN capture \subseteq Surfaces

\* The executions in hand are published and of the role being worked on.
BatchInv ==
  /\ batch \subseteq history /\ current \in history \cup {NoExecution}
  /\ pc = "apply_entry" => \A e \in batch : e.role = "ENTRY"
  /\ pc = "apply_exit" => \A e \in batch : e.role \in Exits
  /\ pc \in {"flat_record", "flat_apply"} => \A e \in batch : e.role = "CLOSE"
  /\ pc = "flat_apply" => current \in RecordedCloses
  /\ pc = "boot_apply" => batch \subseteq RecordedCloses

EntryPath ==
  /\ pc \in {"persist_entry", "submit_entry", "place_entry"} => order["ENTRY"] = "NONE"
  /\ pc \in {"submit_entry", "place_entry"} => "ENTRY" \in intents
  /\ pc \in Early => ~Protected /\ leg = "STOP"
  /\ pc = "entry_position" => entry.state = "ACTIVE_UNPROTECTED"

\* The stop is confirmed only while it holds, and the take-profit follows it.
ExitPath ==
  /\ pc = "persist_exit" => entry.state = "ACTIVE_UNPROTECTED" /\ (Protected <=> leg = "TP")
  /\ pc \in Installing => Protected
  /\ pc \in Installing /\ leg = "STOP" =>
       prot.open = prot.qty /\ prot.state = "ACTIVE_UNPROTECTED"
  /\ pc = "place_exit" => leg \in intents
  /\ pc \in Installing \cup {"persist_exit"} /\ leg = "TP" => Arrived("STOP")
  /\ pc = "confirm_exit" => Arrived(leg) /\ (leg = "STOP" => StopHolds)

BothDone == order["STOP"] = "DONE" /\ order["TP"] = "DONE"

GuardedPath ==
  /\ pc \in Guarded => Protected /\ Arrived("STOP") /\ Arrived("TP")
  /\ pc \in Leaving => prot.state = "CANCEL_PENDING"
  /\ pc = "exit_position" /\ targets = {} => BothDone
  /\ pc \in {"final_capture", "done"} =>
       prot.state \in {"CLOSED_TP", "CLOSED_STOP"} /\ Position = 0 /\ BothDone
  /\ pc \in InCycle /\ Protected => (prot.state = "ACTIVE_PROTECTED" => StopHolds)

\* The emergency close is an order of the emergency path only.
ClosePath ==
  /\ pc \in InCycle \cup {"done"} => order["CLOSE"] = "NONE" /\ RecordedCloses = {}
  /\ pc = "flat_place" => "CLOSE" \in intents

PathInv == RunnerTypes /\ BatchInv /\ EntryPath /\ ExitPath /\ GuardedPath /\ ClosePath

\* The inductive invariant of the cycle.
CycleInv == ExchangeInv /\ StoreInv /\ PathInv

LEMMA NothingIsRead == DOMAIN NothingRead = {}
BY DEF NothingRead

LEMMA CycleInit == Init => CycleInv
<1> SUFFICES ASSUME Init PROVE CycleInv
  OBVIOUS
<1>1. ExchangeInv
  BY ExchangeInit
<1>2. /\ recorded = {} /\ history = {} /\ intents = {} /\ ~Protected
      /\ entry = [state |-> "NONE", filled |-> 0]
      /\ \A r \in Roles : order[r] = "NONE"
      /\ \A R : OfRole(recorded, R) = {}
  BY DEF Init, OfRole, Protected
<1>3. EntryInv
  BY <1>2, TotalEmpty, ExecutionConstants DEF EntryInv, EntryStates
<1>4. ProtectionInv /\ IntentBeforeOrder
  BY <1>2 DEF ProtectionInv, IntentBeforeOrder, Roles, Exits
<1>5. pc = "persist_entry" /\ tries = 0 /\ leg = "STOP" /\ batch = {} /\ current = NoExecution
      /\ targets = {} /\ gotFill = FALSE /\ capture = NothingRead
  BY DEF Init
<1>6. RunnerTypes
  <2>1. DOMAIN capture \subseteq Surfaces
    BY <1>5, NothingIsRead
  <2>2. pc \in Labels
    BY <1>5 DEF Labels, InCycle
  <2>3. tries < Attempts /\ tries \in 0 .. Attempts
    BY <1>5, ExecutionConstants
  <2> QED BY <1>5, <2>1, <2>2, <2>3 DEF RunnerTypes, Exits
<1>7. BatchInv /\ EntryPath /\ ExitPath /\ GuardedPath /\ ClosePath
  BY <1>2, <1>5 DEF BatchInv, EntryPath, ExitPath, GuardedPath, ClosePath, Guarded, Installing,
                    Leaving, Roles, RecordedCloses
<1> QED BY <1>1, <1>2, <1>3, <1>4, <1>6, <1>7 DEF CycleInv, StoreInv, PathInv

\* A step that leaves the store alone, takes no order back and places none.
LEMMA StoreFrame ==
  ASSUME StoreInv, UNCHANGED storeVars, history \subseteq history',
         \A r \in Roles : order[r] = "NONE" => order'[r] = "NONE",
         order["ENTRY"] = "DONE" => order'["ENTRY"] = "DONE" /\ EntryTotal' = EntryTotal,
         size'["STOP"] = size["STOP"]
  PROVE  StoreInv'
<1>1. UNCHANGED <<intents, recorded, entry, prot>>
  BY DEF storeVars
<1>2. EntryInv'
  BY <1>1 DEF StoreInv, EntryInv
<1>3. ProtectionInv'
  <2>1. Protected' = Protected /\ Booked(prot)' = Booked(prot) /\ SnapshotOK(prot)' = SnapshotOK(prot)
    BY <1>1 DEF Protected, Booked, RecordedCloses
  <2> QED BY <1>1, <2>1 DEF StoreInv, ProtectionInv, Roles, Exits
<1>4. IntentBeforeOrder'
  BY <1>1 DEF StoreInv, IntentBeforeOrder
<1> QED BY <1>1, <1>2, <1>3, <1>4 DEF StoreInv

\* Steps of the exchange between two steps of the runner.
LEMMA CycleExchange ==
  ASSUME CycleInv, Exchange
  PROVE  CycleInv'
<1>1. ExchangeInv /\ StoreInv /\ PathInv
  BY DEF CycleInv
<1>2. /\ ExchangeInv'
      /\ size' = size /\ history \subseteq history' /\ UNCHANGED <<storeVars, runnerVars>>
      /\ \A r \in Roles :
           /\ order[r] = "NONE" => order'[r] = "NONE"
           /\ order[r] = "DONE" => order'[r] = "DONE"
           /\ Arrived(r) => Arrived(r)'
      /\ order["ENTRY"] = "DONE" => EntryTotal' = EntryTotal
      /\ order["ENTRY"] = "DONE" /\ Position = 0 => Position' = 0
      /\ missed => missed'
      /\ StopCovers /\ StopHolds => StopHolds'
  BY <1>1, ExchangeMoves
<1>3. UNCHANGED <<intents, recorded, entry, prot, pc, tries, leg, batch, current, targets,
                  gotFill, capture>>
  BY <1>2 DEF storeVars, runnerVars
<1>4. StoreInv'
  BY <1>1, <1>2, StoreFrame DEF Roles
<1>5. /\ Protected' = Protected /\ RecordedCloses' = RecordedCloses
      /\ Protected => order["ENTRY"] = "DONE" /\ EntryTotal = prot.qty
      /\ Protected /\ Arrived("STOP") => StopCovers
  <2>1. Protected => order["ENTRY"] = "DONE" /\ EntryTotal = prot.qty
    BY <1>1 DEF StoreInv, ProtectionInv, EntryInv
  <2>2. Arrived("STOP") => size["STOP"] = prot.qty
    BY <1>1 DEF StoreInv, ProtectionInv, Arrived
  <2> QED BY <1>3, <2>1, <2>2 DEF Protected, RecordedCloses, StopCovers
<1>6. BothDone => BothDone'
  BY <1>2 DEF BothDone, Roles, Exits
<1>7. RunnerTypes' /\ BatchInv' /\ EntryPath' /\ ClosePath'
  BY <1>1, <1>2, <1>3, <1>5
     DEF PathInv, RunnerTypes, BatchInv, EntryPath, ClosePath, Roles, Exits
<1>8. /\ Arrived("STOP") => Arrived("STOP")'
      /\ Arrived("TP") => Arrived("TP")'
      /\ leg \in Roles
  BY <1>1, <1>2 DEF PathInv, RunnerTypes, Roles, Exits
<1>9. ExitPath'
  <2>1. pc = "confirm_exit" => Arrived(leg)'
    BY <1>1, <1>2, <1>3, <1>8 DEF PathInv, ExitPath, Arrived
  <2>2. pc = "confirm_exit" /\ leg = "STOP" => StopHolds'
    BY <1>1, <1>2, <1>5 DEF PathInv, ExitPath, Installing
  <2> QED BY <1>1, <1>3, <1>5, <1>8, <2>1, <2>2 DEF PathInv, ExitPath
<1>10. GuardedPath'
  <2>1. pc \in InCycle /\ Protected /\ prot.state = "ACTIVE_PROTECTED" => StopHolds'
    <3> SUFFICES ASSUME pc \in InCycle, Protected, prot.state = "ACTIVE_PROTECTED" PROVE StopHolds'
      OBVIOUS
    <3>1. StopHolds
      BY <1>1 DEF PathInv, GuardedPath
    <3>2. CASE Position = 0 \/ missed
      BY <1>2, <1>5, <3>2 DEF StopHolds
    <3>3. CASE Position # 0 /\ ~missed
      BY <1>2, <1>5, <3>1, <3>3 DEF StopHolds, Arrived
    <3> QED BY <3>2, <3>3
  <2>2. pc \in {"final_capture", "done"} => Position' = 0
    BY <1>1, <1>2, <1>5 DEF PathInv, GuardedPath, Guarded
  <2> QED BY <1>1, <1>3, <1>5, <1>6, <1>8, <2>1, <2>2 DEF PathInv, GuardedPath
<1> QED BY <1>2, <1>4, <1>7, <1>9, <1>10 DEF CycleInv, PathInv

-----------------------------------------------------------------------------
(* Steps of the runner that only read and decide *)

\* Neither the exchange nor the store changes.
LEMMA ReadFrame ==
  ASSUME CycleInv, UNCHANGED <<exchangeVars, storeVars>>
  PROVE  /\ ExchangeInv' /\ StoreInv'
         /\ UNCHANGED <<order, history, intents, recorded, entry, prot>>
         /\ Position' = Position /\ StopHolds' = StopHolds /\ BothDone' = BothDone
         /\ Protected' = Protected /\ RecordedCloses' = RecordedCloses
         /\ Arrived("STOP")' = Arrived("STOP") /\ Arrived("TP")' = Arrived("TP")
<1>1. UNCHANGED <<order, size, fills, history, amended, missed, intents, recorded, entry, prot>>
  BY DEF exchangeVars, storeVars
<1>2. ExchangeInv'
  BY ExchangeUnchanged DEF CycleInv
<1>3. EntryTotal' = EntryTotal /\ Position' = Position
  BY <1>1 DEF EntryTotal, Position, Filled
<1>4. StoreInv'
  BY <1>1, <1>3, StoreFrame DEF CycleInv
<1> QED BY <1>1, <1>2, <1>3, <1>4
        DEF StopHolds, BothDone, Protected, RecordedCloses, Arrived

LEMMA ReadingTheEntry ==
  ASSUME CycleInv, LookupEntry \/ FetchEntryFills \/ EntryFillsApplied
  PROVE  CycleInv'
<1>1. UNCHANGED <<exchangeVars, storeVars>>
  BY DEF LookupEntry, FetchEntryFills, FetchFills, EntryFillsApplied
<1>2. PathInv
  BY DEF CycleInv
<1> USE DEF PathInv, RunnerTypes, BatchInv, EntryPath, ExitPath, GuardedPath, ClosePath, Early,
            Installing, Leaving, Guarded, Polling, Labels, InCycle, InSafe, InBoot, AboutToEnd, Ended
<1>3. CASE LookupEntry
  <2>1. pc = "lookup_entry" /\ pc' \in {"ack_entry", "lose_entry"}
        /\ UNCHANGED <<tries, leg, batch, targets, current, gotFill, capture>>
    BY <1>3 DEF LookupEntry, Goto
  <2>2. PathInv'
    BY <1>1, <1>2, <2>1, ReadFrame
  <2> QED BY <1>1, <2>2, ReadFrame DEF CycleInv
<1>4. CASE FetchEntryFills
  <2>1. pc = "entry_fills" /\ pc' = "apply_entry" /\ batch' = OfRole(history, {"ENTRY"})
        /\ UNCHANGED <<tries, leg, targets, current, gotFill, capture>>
    BY <1>4 DEF FetchEntryFills, FetchFills
  <2>2. batch' \subseteq history /\ \A e \in batch' : e.role = "ENTRY"
    BY <2>1 DEF OfRole
  <2>3. PathInv'
    BY <1>1, <1>2, <2>1, <2>2, ReadFrame
  <2> QED BY <1>1, <2>3, ReadFrame DEF CycleInv
<1>5. CASE EntryFillsApplied
  <2>1. pc = "apply_entry" /\ pc' = (IF entry.state = "ACTIVE_UNPROTECTED" THEN "entry_position" ELSE "entry_order")
        /\ UNCHANGED <<tries, leg, batch, targets, current, gotFill, capture>>
    BY <1>5 DEF EntryFillsApplied, Goto
  <2>2. PathInv'
    BY <1>1, <1>2, <2>1, ReadFrame
  <2> QED BY <1>1, <2>2, ReadFrame DEF CycleInv
<1> QED BY <1>3, <1>4, <1>5

LEMMA ReadingTheExits ==
  ASSUME CycleInv, SeeExit \/ CheckProtectedPosition \/ FetchExitFills \/ ExitFillsApplied
                   \/ ListExitOrders \/ ExitsCancelled
  PROVE  CycleInv'
<1>1. UNCHANGED <<exchangeVars, storeVars>>
  BY DEF SeeExit, CheckProtectedPosition, FetchExitFills, FetchFills, ExitFillsApplied,
         ListExitOrders, ExitsCancelled
<1>2. PathInv /\ Attempts \in Nat \ {0}
  BY ExecutionConstants DEF CycleInv
<1>3. order \in [Roles -> {"NONE", "INFLIGHT", "OPEN", "DONE"}]
  BY DEF CycleInv, ExchangeInv
<1>4. SUFFICES PathInv'
  BY <1>1, ReadFrame DEF CycleInv
<1> USE DEF PathInv, RunnerTypes, BatchInv, EntryPath, ExitPath, GuardedPath, ClosePath, Early,
            Installing, Leaving, Guarded, Polling, Labels, InCycle, InSafe, InBoot, AboutToEnd, Ended
<1>5. CASE SeeExit
  <2>1. /\ pc \in {"lookup_exit", "see_exit"} /\ pc' \in {"confirm_exit", "doubt_exit", "see_exit"}
        /\ pc' = "confirm_exit" => order[leg] = "OPEN"
        /\ pc' = "see_exit" => pc = "see_exit" /\ tries' < Attempts
        /\ tries' = tries \/ (pc = "see_exit" /\ tries' = tries + 1)
        /\ UNCHANGED <<leg, batch, targets, current, gotFill, capture>>
    BY <1>5 DEF SeeExit, Working, Goto, Again
  <2>2. tries' \in 0 .. Attempts
    BY <1>2, <2>1
  <2>3. pc' = "confirm_exit" => Arrived(leg)' /\ (leg = "STOP" => StopHolds')
    BY <1>1, <2>1, ReadFrame DEF Arrived, StopHolds
  <2> QED BY <1>1, <1>2, <2>1, <2>2, <2>3, ReadFrame
<1>6. CASE CheckProtectedPosition
  <2>1. /\ \/ pc = "liquidation" /\ pc' \in {"restart_capture", "safe_cancel"}
           \/ pc = "protected_position" /\ pc' \in {"liquidation", "safe_cancel"}
        /\ UNCHANGED <<tries, leg, batch, targets, current, gotFill, capture>>
    BY <1>6 DEF CheckProtectedPosition, Goto, Failed
  <2> QED BY <1>1, <1>2, <2>1, ReadFrame
<1>7. CASE FetchExitFills
  <2>1. pc = "exit_fills" /\ pc' = "apply_exit" /\ batch' = OfRole(history, Exits)
        /\ UNCHANGED <<tries, leg, targets, current, gotFill, capture>>
    BY <1>7 DEF FetchExitFills, FetchFills
  <2>2. batch' \subseteq history /\ \A e \in batch' : e.role \in Exits
    BY <2>1 DEF OfRole
  <2> QED BY <1>1, <1>2, <2>1, <2>2, ReadFrame
<1>8. CASE ExitFillsApplied
  <2>1. /\ pc = "apply_exit"
        /\ \/ prot.state = "CANCEL_PENDING" /\ pc' = "exit_orders" /\ tries' = tries
           \/ /\ pc' = IF tries + 1 < Attempts THEN "exit_fills" ELSE "safe_cancel"
              /\ tries' = tries + 1
        /\ UNCHANGED <<leg, batch, targets, current, gotFill, capture>>
    BY <1>8 DEF ExitFillsApplied, Goto, Again, Failed
  <2>2. tries' \in 0 .. Attempts /\ (pc' \in {"exit_fills", "exit_orders"} => tries' < Attempts)
    BY <1>2, <2>1
  <2> QED BY <1>1, <1>2, <2>1, <2>2, ReadFrame
<1>9. CASE ListExitOrders
  <2>1. /\ \/ pc = "exit_orders" /\ pc' = "exit_cancel"
           \/ pc = "exit_recheck" /\ pc' = "exit_position"
        /\ targets' = {r \in Exits : order[r] = "OPEN"}
        /\ UNCHANGED <<tries, leg, batch, current, gotFill, capture>>
    BY <1>9 DEF ListExitOrders, Working
  <2>2. targets' = {} => order["STOP"] # "OPEN" /\ order["TP"] # "OPEN"
    BY <2>1 DEF Exits
  <2>3. targets' = {} => BothDone'
    BY <1>1, <1>2, <2>1, <2>2, ReadFrame DEF BothDone, Arrived
  <2>4. targets' \subseteq Exits
    BY <2>1
  <2> QED BY <1>1, <1>2, <2>1, <2>3, <2>4, ReadFrame
<1>10. CASE ExitsCancelled
  <2>1. pc = "exit_cancel" /\ pc' = "exit_recheck"
        /\ UNCHANGED <<tries, leg, batch, targets, current, gotFill, capture>>
    BY <1>10 DEF ExitsCancelled, Goto
  <2> QED BY <1>1, <1>2, <2>1, ReadFrame
<1> QED BY <1>5, <1>6, <1>7, <1>8, <1>9, <1>10

LEMMA Reconciling ==
  ASSUME CycleInv, (\E s \in Surfaces : ReadSurface(s)) \/ Reconcile
  PROVE  CycleInv'
<1>1. UNCHANGED <<exchangeVars, storeVars>>
  BY DEF ReadSurface, Reconcile
<1>2. PathInv
  BY DEF CycleInv
<1>3. SUFFICES PathInv'
  BY <1>1, ReadFrame DEF CycleInv
<1> USE DEF PathInv, RunnerTypes, BatchInv, EntryPath, ExitPath, GuardedPath, ClosePath, Early,
            Installing, Leaving, Guarded, Polling, Labels, InCycle, InSafe, InBoot, AboutToEnd, Ended
<1>4. CASE \E s \in Surfaces : ReadSurface(s)
  <2>1. PICK s \in Surfaces : ReadSurface(s)
    BY <1>4
  <2>2. /\ pc \in {"restart_capture", "final_capture", "boot_capture"}
        /\ DOMAIN capture' = DOMAIN capture \cup {s}
        /\ UNCHANGED <<pc, tries, leg, batch, targets, current, gotFill>>
    BY <2>1 DEF ReadSurface, Capturing
  <2>3. DOMAIN capture' \subseteq Surfaces
    BY <1>2, <2>2
  <2> QED BY <1>1, <1>2, <2>2, <2>3, ReadFrame
<1>5. CASE Reconcile
  <2>1. /\ \/ pc = "restart_capture" /\ pc' \in {"amend", "safe_cancel"}
           \/ pc = "final_capture" /\ pc' \in {"done", "safe_cancel"}
           \/ pc = "boot_capture" /\ pc' \in {"admitted", "refused"}
        /\ capture' = NothingRead
        /\ UNCHANGED <<tries, leg, batch, targets, current, gotFill>>
    BY <1>5 DEF Reconcile, Verdict, Capturing, Failed
  <2>2. DOMAIN capture' \subseteq Surfaces
    BY <2>1, NothingIsRead
  <2> QED BY <1>1, <1>2, <2>1, <2>2, ReadFrame
<1> QED BY <1>4, <1>5

LEMMA ReadingTheClose ==
  ASSUME CycleInv, LookupClose \/ FetchCloseFills \/ CloseFillsApplied \/ RecordedClosesApplied
  PROVE  CycleInv'
<1>1. UNCHANGED <<exchangeVars, storeVars>>
  BY DEF LookupClose, FetchCloseFills, FetchFills, CloseFillsApplied, RecordedClosesApplied
<1>2. PathInv /\ Attempts \in Nat \ {0}
  BY ExecutionConstants DEF CycleInv
<1>3. SUFFICES PathInv'
  BY <1>1, ReadFrame DEF CycleInv
<1> USE DEF PathInv, RunnerTypes, BatchInv, EntryPath, ExitPath, GuardedPath, ClosePath, Early,
            Installing, Leaving, Guarded, Polling, Labels, InCycle, InSafe, InBoot, AboutToEnd, Ended
<1>4. CASE LookupClose
  <2>1. pc = "flat_lookup" /\ pc' \in {"flat_fills", "safe_final"}
        /\ UNCHANGED <<tries, leg, batch, targets, current, gotFill, capture>>
    BY <1>4 DEF LookupClose, Goto
  <2> QED BY <1>1, <1>2, <2>1, ReadFrame
<1>5. CASE FetchCloseFills
  <2>1. pc = "flat_fills" /\ pc' = "flat_record" /\ batch' = OfRole(history, {"CLOSE"})
        /\ UNCHANGED <<tries, leg, targets, current, gotFill, capture>>
    BY <1>5 DEF FetchCloseFills, FetchFills
  <2>2. batch' \subseteq history /\ \A e \in batch' : e.role = "CLOSE"
    BY <2>1 DEF OfRole
  <2> QED BY <1>1, <1>2, <2>1, <2>2, ReadFrame
<1>6. CASE CloseFillsApplied
  <2>1. /\ pc = "flat_record"
        /\ \/ pc' = "safe_final" /\ tries' = tries
           \/ /\ pc' = IF tries + 1 < Attempts THEN "flat_fills" ELSE "safe_final"
              /\ tries' = tries + 1
        /\ UNCHANGED <<leg, batch, targets, current, gotFill, capture>>
    BY <1>6 DEF CloseFillsApplied, Goto, Again
  <2>2. tries' \in 0 .. Attempts /\ (pc' = "flat_fills" => tries' < Attempts)
    BY <1>2, <2>1
  <2> QED BY <1>1, <1>2, <2>1, <2>2, ReadFrame
<1>7. CASE RecordedClosesApplied
  <2>1. pc = "boot_apply" /\ pc' = "boot_capture"
        /\ UNCHANGED <<tries, leg, batch, targets, current, gotFill, capture>>
    BY <1>7 DEF RecordedClosesApplied, Goto
  <2> QED BY <1>1, <1>2, <2>1, ReadFrame
<1> QED BY <1>4, <1>5, <1>6, <1>7

LEMMA FailingAndStarting ==
  ASSUME CycleInv, Raise \/ Crash \/ Boot
  PROVE  CycleInv'
<1>1. UNCHANGED <<exchangeVars, storeVars>>
  BY DEF Raise, Crash, Boot, Leave
<1>2. PathInv /\ Attempts \in Nat \ {0} /\ RecordedCloses \subseteq history
  BY ExecutionConstants DEF CycleInv, StoreInv, RecordedCloses, OfRole
<1>3. SUFFICES PathInv'
  BY <1>1, ReadFrame DEF CycleInv
<1>4. /\ \/ pc' \in {"safe_cancel", "safe_final", "halted", "refused", "down"} /\ batch' = {}
         \/ pc' = "boot_apply" /\ batch' = RecordedCloses
      /\ tries' = 0 /\ leg' = "STOP" /\ current' = NoExecution /\ targets' = {} /\ gotFill' = FALSE
      /\ capture' = NothingRead
  BY DEF Raise, Crash, Boot, Leave, Fresh, Failed
<1>5. DOMAIN capture' \subseteq Surfaces /\ tries' \in 0 .. Attempts
  BY <1>2, <1>4, NothingIsRead
<1> QED BY <1>1, <1>2, <1>4, <1>5, ReadFrame
        DEF PathInv, RunnerTypes, BatchInv, EntryPath, ExitPath, GuardedPath, ClosePath, Early, Exits,
            Installing, Leaving, Guarded, Polling, Labels, InCycle, InSafe, InBoot, AboutToEnd, Ended

-----------------------------------------------------------------------------
(* Steps of the runner that write the store *)

LEMMA WriteFrame ==
  ASSUME CycleInv, UNCHANGED exchangeVars
  PROVE  /\ ExchangeInv' /\ UNCHANGED <<order, size, fills, history, EntryTotal, Position>>
         /\ StopHolds' = StopHolds /\ BothDone' = BothDone
         /\ Arrived("STOP")' = Arrived("STOP") /\ Arrived("TP")' = Arrived("TP")
<1>1. UNCHANGED <<order, size, fills, history, amended, missed>>
  BY DEF exchangeVars
<1>2. ExchangeInv'
  BY ExchangeUnchanged DEF CycleInv
<1>3. EntryTotal' = EntryTotal /\ Position' = Position
  BY <1>1 DEF EntryTotal, Position, Filled
<1> QED BY <1>1, <1>2, <1>3 DEF StopHolds, BothDone, Arrived

\* The tables of the store as sets of lots.
LEMMA RecordedLots ==
  ASSUME CycleInv
  PROVE  /\ recorded \subseteq Lots /\ IsFiniteSet(recorded) /\ recorded \in SUBSET fills
         /\ history \subseteq Lots /\ history \subseteq Executions
<1>1. recorded \subseteq history /\ history \subseteq fills /\ fills \subseteq Executions
  BY DEF CycleInv, StoreInv, ExchangeInv, FillsInv
<1>2. fills \subseteq Lots /\ IsFiniteSet(fills)
  BY TotalsNat DEF CycleInv
<1> QED BY <1>1, <1>2, FS_Subset

\* The oldest execution of a batch is one of it.
LEMMA FirstIsElement ==
  ASSUME NEW E, E \subseteq Lots, E # {}
  PROVE  First(E) \in E
<1> DEFINE N == {e.n : e \in E}
<1>1. N \subseteq Nat /\ N # {}
  BY DEF Lots
<1>2. PICK m \in N : \A k \in N : ~(<<k, m>> \in OpToRel(<, Nat))
  <2> HIDE DEF N
  <2> QED BY <1>1, WFMin, NatLessThanWellFounded
<1>3. ASSUME NEW k \in N PROVE m <= k
  <2>1. k < m => <<k, m>> \in OpToRel(<, Nat)
    BY <1>1 DEF OpToRel
  <2>2. ~(k < m)
    BY <1>2, <2>1, Zenon
  <2> QED BY <1>1, <2>2
<1>4. PICK e \in E : e.n = m
  OBVIOUS
<1>5. \A f \in E : e.n <= f.n
  BY <1>3, <1>4
<1> QED BY <1>5 DEF First

\* A change of the entry's state, its intent included.
LEMMA EntryStateStep ==
  ASSUME CycleInv, UNCHANGED <<exchangeVars, recorded, prot>>, ~Protected,
         intents \subseteq intents', intents' \subseteq Roles,
         NEW v \in EntryStates \ {"ENTRY_PARTIALLY_FILLED"},
         entry' = [entry EXCEPT !.state = v],
         v = "ACTIVE_UNPROTECTED" =>
           0 < entry.filled /\ order["ENTRY"] = "DONE" /\ EntryTotal = entry.filled
  PROVE  /\ ExchangeInv' /\ StoreInv' /\ ~Protected' /\ RecordedCloses' = RecordedCloses
         /\ entry'.state = v
<1>1. /\ ExchangeInv' /\ UNCHANGED <<order, size, history, EntryTotal, recorded, prot>>
  BY WriteFrame
<1>2. EntryInv /\ ProtectionInv /\ IntentBeforeOrder /\ recorded \subseteq history
  BY DEF CycleInv, StoreInv
<1>3. entry'.state = v /\ entry'.filled = entry.filled
      /\ entry' \in [state : EntryStates, filled : 0 .. Qty]
  BY <1>2 DEF EntryInv
<1>4. EntryInv'
  BY <1>1, <1>2, <1>3 DEF EntryInv
<1>5. ~Protected' /\ ProtectionInv' /\ IntentBeforeOrder'
  BY <1>1, <1>2 DEF Protected, ProtectionInv, IntentBeforeOrder
<1> QED BY <1>1, <1>2, <1>3, <1>4, <1>5 DEF StoreInv, RecordedCloses

LEMMA WritingTheEntry ==
  ASSUME CycleInv, PersistEntry \/ SubmitEntry \/ AckEntry \/ EntryNotPlaced
  PROVE  CycleInv'
<1>1. PathInv /\ intents \subseteq Roles /\ Attempts \in Nat \ {0}
  BY ExecutionConstants DEF CycleInv, StoreInv
<1>2. /\ UNCHANGED <<exchangeVars, recorded, prot>>
      /\ \/ /\ pc = "persist_entry" /\ pc' = "submit_entry" /\ tries' = tries
            /\ intents' = intents \cup {"ENTRY"}
         \/ /\ pc = "submit_entry" /\ pc' = "place_entry" /\ tries' = tries
            /\ intents' = intents
         \/ /\ pc = "ack_entry" /\ pc' = "entry_fills" /\ tries' = 0
            /\ intents' = intents
         \/ /\ pc \in {"fail_entry", "lose_entry"} /\ pc' = "safe_cancel" /\ tries' = tries
            /\ intents' = intents
      /\ UNCHANGED <<leg, batch, targets, current, gotFill, capture>>
  BY DEF PersistEntry, SubmitEntry, AckEntry, EntryNotPlaced, EntryTo, Goto, GotoLoop, Failed
<1>3. PICK v \in EntryStates \ {"ENTRY_PARTIALLY_FILLED", "ACTIVE_UNPROTECTED"} :
        entry' = [entry EXCEPT !.state = v]
  BY DEF PersistEntry, SubmitEntry, AckEntry, EntryNotPlaced, EntryTo, EntryStates
<1>4. ~Protected
  BY <1>1, <1>2 DEF PathInv, EntryPath, Early
<1>5. intents \subseteq intents' /\ intents' \subseteq Roles
  BY <1>1, <1>2 DEF Roles
<1>6. ExchangeInv' /\ StoreInv' /\ ~Protected' /\ RecordedCloses' = RecordedCloses
  BY <1>2, <1>3, <1>4, <1>5, EntryStateStep
<1>7. UNCHANGED <<order, history>>
  BY <1>2, WriteFrame
<1>8. PathInv'
  <2>1. tries' \in 0 .. Attempts /\ (pc' = "entry_fills" => tries' < Attempts)
    BY <1>1, <1>2 DEF PathInv, RunnerTypes
  <2> QED BY <1>1, <1>2, <1>6, <1>7, <2>1
          DEF PathInv, RunnerTypes, BatchInv, EntryPath, ExitPath, GuardedPath, ClosePath, Early,
              Installing, Leaving, Guarded, Polling, Labels, InCycle, InSafe, InBoot, AboutToEnd,
              Ended
<1> QED BY <1>6, <1>8 DEF CycleInv

LEMMA CheckingTheEntry ==
  ASSUME CycleInv, CheckEntryOrder \/ CheckEntryPosition
  PROVE  CycleInv'
<1>1. /\ PathInv /\ intents \subseteq Roles /\ Attempts \in Nat \ {0} /\ EntryInv
      /\ UNCHANGED <<exchangeVars, recorded, prot, intents, leg, batch, targets, current, gotFill, capture>>
      /\ Filled("ENTRY") = EntryTotal
  BY ExecutionConstants, PositionIs
     DEF CycleInv, StoreInv, CheckEntryOrder, CheckEntryPosition, Goto, Again
<1>2. pc \in {"entry_order", "entry_position"} /\ ~Protected
  BY <1>1 DEF CheckEntryOrder, CheckEntryPosition, PathInv, EntryPath, Early
<1>3. \/ /\ entry' = [entry EXCEPT !.state = "ACTIVE_UNPROTECTED"]
         /\ 0 < entry.filled /\ order["ENTRY"] = "DONE" /\ EntryTotal = entry.filled
         /\ pc' = "entry_position" /\ tries' = tries
      \/ /\ entry' = [entry EXCEPT !.state = "RECONCILING"]
         /\ pc' = "safe_cancel" /\ tries' = tries
      \/ /\ entry' = entry
         /\ \/ pc = "entry_position" /\ pc' = "persist_exit" /\ tries' = tries
            \/ pc' = "safe_cancel" /\ tries' = tries
            \/ pc = "entry_order" /\ tries' = tries + 1
               /\ pc' = IF tries + 1 < Attempts THEN "entry_fills" ELSE "safe_cancel"
  <2>1. CASE CheckEntryOrder
    <3>1. PICK found \in Lookups("ENTRY") :
            IF Finalizable(found) /\ entry.state = "ENTRY_PARTIALLY_FILLED"
            THEN EntryTo("ACTIVE_UNPROTECTED") /\ Goto("entry_position")
            ELSE /\ UNCHANGED entry
                 /\ IF Finalizable(found) THEN Goto(Failed) ELSE Again("entry_fills", Failed)
      BY <2>1 DEF CheckEntryOrder
    <3>2. CASE Finalizable(found) /\ entry.state = "ENTRY_PARTIALLY_FILLED"
      BY <1>1, <3>1, <3>2 DEF Finalizable, EntryTo, Goto, EntryInv
    <3>3. CASE ~(Finalizable(found) /\ entry.state = "ENTRY_PARTIALLY_FILLED")
      <4>1. pc = "entry_order"
        BY <2>1 DEF CheckEntryOrder
      <4> QED BY <3>1, <3>3, <4>1 DEF Goto, Again, Failed
    <3> QED BY <3>2, <3>3
  <2>2. CASE CheckEntryPosition
    BY <2>2 DEF CheckEntryPosition, EntryTo, Goto, Failed
  <2> QED BY <2>1, <2>2
<1>4. /\ ExchangeInv' /\ StoreInv' /\ ~Protected' /\ RecordedCloses' = RecordedCloses
      /\ UNCHANGED <<order, history>>
      /\ pc' \in {"entry_position", "persist_exit"} => entry'.state = "ACTIVE_UNPROTECTED"
  <2>1. CASE entry' = entry
    <3>1. UNCHANGED <<exchangeVars, storeVars>>
      BY <1>1, <2>1 DEF storeVars
    <3>2. pc' = "persist_exit" => entry.state = "ACTIVE_UNPROTECTED"
      BY <1>1, <1>3, <2>1 DEF PathInv, EntryPath, EntryInv
    <3>3. pc' = "entry_position" => entry'.state = "ACTIVE_UNPROTECTED"
      BY <1>1, <1>3, <2>1 DEF EntryInv
    <3> QED BY <1>2, <2>1, <3>1, <3>2, <3>3, ReadFrame
  <2>2. CASE entry' # entry
    <3>1. PICK v \in {"ACTIVE_UNPROTECTED", "RECONCILING"} :
            /\ entry' = [entry EXCEPT !.state = v]
            /\ v = "ACTIVE_UNPROTECTED" =>
                 0 < entry.filled /\ order["ENTRY"] = "DONE" /\ EntryTotal = entry.filled
            /\ pc' \in {"entry_position", "persist_exit"} => v = "ACTIVE_UNPROTECTED"
      BY <1>3, <2>2
    <3>2. v \in EntryStates \ {"ENTRY_PARTIALLY_FILLED"}
      BY DEF EntryStates
    <3> QED BY <1>1, <1>2, <3>1, <3>2, EntryStateStep, WriteFrame
  <2> QED BY <2>1, <2>2
<1>5. tries' \in 0 .. Attempts /\ (pc' \in {"entry_fills"} => tries' < Attempts)
  BY <1>1, <1>2, <1>3 DEF PathInv, RunnerTypes, Polling
<1>6. pc' \in {"entry_position", "persist_exit", "safe_cancel", "entry_fills"}
  BY <1>3
<1>7. PathInv'
  BY <1>1, <1>2, <1>4, <1>5, <1>6
     DEF PathInv, RunnerTypes, BatchInv, EntryPath, ExitPath, GuardedPath, ClosePath, Early,
         Installing, Leaving, Guarded, Polling, Labels, InCycle, InSafe, InBoot, AboutToEnd, Ended
<1> QED BY <1>4, <1>7 DEF CycleInv

\* One more recorded execution.
LEMMA RecordStep ==
  ASSUME CycleInv, NEW e \in history, e \notin recorded, recorded' = recorded \cup {e}
  PROVE  /\ e.qty \in 1 .. Qty /\ e.role \in Roles
         /\ \A R : /\ Total(OfRole(recorded, R)) \in Nat
                   /\ e.role \in R =>
                        Total(OfRole(recorded', R)) = Total(OfRole(recorded, R)) + e.qty
                   /\ e.role \notin R => OfRole(recorded', R) = OfRole(recorded, R)
         /\ \A R : Total(OfRole(recorded', R)) <= Total(OfRole(fills, R))
<1>1. /\ recorded \subseteq Lots /\ IsFiniteSet(recorded) /\ e \in Lots /\ e \in Executions
      /\ recorded \cup {e} \in SUBSET fills /\ fills \subseteq Lots /\ IsFiniteSet(fills)
  BY RecordedLots, TotalsNat DEF CycleInv, ExchangeInv, FillsInv
<1>2. e.qty \in 1 .. Qty /\ e.role \in Roles
  BY <1>1 DEF Executions
<1>3. ASSUME NEW R
      PROVE  /\ Total(OfRole(recorded, R)) \in Nat
             /\ e.role \in R =>
                  Total(OfRole(recorded', R)) = Total(OfRole(recorded, R)) + e.qty
             /\ e.role \notin R => OfRole(recorded', R) = OfRole(recorded, R)
  <2>1. e.role \notin R => OfRole(recorded \cup {e}, R) = OfRole(recorded, R)
    BY DEF OfRole
  <2> QED BY <1>1, <2>1, RoleTotalNat, RoleTotalAdd
<1>4. ASSUME NEW R PROVE Total(OfRole(recorded', R)) <= Total(OfRole(fills, R))
  BY <1>1, RoleTotalSubset
<1> QED BY <1>2, <1>3, <1>4

LEMMA ApplyingAnEntryFill ==
  ASSUME CycleInv, ApplyEntryFill
  PROVE  CycleInv'
<1> DEFINE e == First(batch)
           filled == entry.filled + e.qty
<1>1. /\ pc = "apply_entry" /\ batch # {} /\ batch' = batch \ {e}
      /\ UNCHANGED <<exchangeVars, intents, prot, tries, leg, targets, current, gotFill, capture>>
      /\ \/ UNCHANGED <<recorded, entry, pc>>
         \/ pc' = "safe_cancel" /\ UNCHANGED <<recorded, entry>>
         \/ /\ e \notin recorded /\ ~(filled > Qty) /\ recorded' = recorded \cup {e} /\ pc' = pc
            /\ entry' = [state |-> IF filled = Qty THEN "ACTIVE_UNPROTECTED"
                                   ELSE "ENTRY_PARTIALLY_FILLED",
                         filled |-> filled]
  BY DEF ApplyEntryFill, IsNew, Failed
<1>2. PathInv /\ EntryInv /\ ProtectionInv /\ IntentBeforeOrder /\ ExchangeInv
      /\ recorded \subseteq history /\ intents \subseteq Roles
  BY DEF CycleInv, StoreInv
<1>3. batch \subseteq history /\ (\A x \in batch : x.role = "ENTRY") /\ ~Protected
      /\ RecordedCloses = {} /\ leg = "STOP"
  BY <1>1, <1>2 DEF PathInv, BatchInv, EntryPath, Early, ClosePath, InCycle
<1>4. e \in batch
  BY <1>1, <1>3, RecordedLots, FirstIsElement
<1>5. e \in history /\ e.role = "ENTRY"
  BY <1>3, <1>4
<1> HIDE DEF e
<1>6. CASE UNCHANGED <<recorded, entry>>
  <2>1. UNCHANGED <<exchangeVars, storeVars>>
    BY <1>1, <1>6 DEF storeVars
  <2>2. pc' \in {"apply_entry", "safe_cancel"} /\ batch' \subseteq batch
    BY <1>1
  <2>3. PathInv'
    BY <1>1, <1>2, <2>1, <2>2, ReadFrame
       DEF PathInv, RunnerTypes, BatchInv, EntryPath, ExitPath, GuardedPath, ClosePath, Early,
           Installing, Leaving, Guarded, Polling, Labels, InCycle, InSafe, InBoot, AboutToEnd, Ended
  <2> QED BY <2>1, <2>3, ReadFrame DEF CycleInv
<1>7. CASE ~UNCHANGED <<recorded, entry>>
  <2>1. /\ e \notin recorded /\ ~(filled > Qty) /\ recorded' = recorded \cup {e} /\ pc' = pc
        /\ entry' = [state |-> IF filled = Qty THEN "ACTIVE_UNPROTECTED"
                               ELSE "ENTRY_PARTIALLY_FILLED",
                     filled |-> filled]
    BY <1>1, <1>7
  <2>2. ExchangeInv' /\ UNCHANGED <<order, size, fills, history, EntryTotal, Position>>
    BY <1>1, WriteFrame
  <2>3. /\ e.qty \in 1 .. Qty
        /\ Total(OfRole(recorded', {"ENTRY"})) = Total(OfRole(recorded, {"ENTRY"})) + e.qty
        /\ OfRole(recorded', Exits) = OfRole(recorded, Exits)
        /\ OfRole(recorded', {"CLOSE"}) = OfRole(recorded, {"CLOSE"})
        /\ Total(OfRole(recorded', {"ENTRY"})) <= EntryTotal
    BY <1>5, <2>1, RecordStep DEF Exits, EntryTotal
  <2>4. entry.filled \in 0 .. Qty /\ entry.filled = Total(OfRole(recorded, {"ENTRY"}))
        /\ Qty \in Nat /\ EntryTotal <= Qty /\ EntryTotal \in Nat
    BY <1>2, TotalsNat DEF EntryInv, ExchangeInv, FillsInv
  <2>5. filled \in 1 .. Qty /\ filled = Total(OfRole(recorded', {"ENTRY"}))
    BY <2>1, <2>3, <2>4
  <2>6. filled = Qty => EntryTotal = Qty /\ order["ENTRY"] = "DONE"
    <3> SUFFICES ASSUME filled = Qty PROVE EntryTotal = Qty /\ order["ENTRY"] = "DONE"
      OBVIOUS
    <3>1. EntryTotal = Qty
      BY <2>3, <2>4, <2>5
    <3>2. order["ENTRY"] \in {"NONE", "INFLIGHT", "OPEN", "DONE"}
      BY <1>2 DEF ExchangeInv, Roles
    <3>3. Qty > 0
      BY ExecutionConstants
    <3> QED BY <1>2, <2>4, <3>1, <3>2, <3>3 DEF ExchangeInv, EntryOrderInv
  <2> HIDE DEF filled
  <2>7. EntryInv'
    BY <2>1, <2>2, <2>4, <2>5, <2>6 DEF EntryInv, EntryStates
  <2>8. ~Protected' /\ RecordedCloses' = {}
    BY <1>1, <1>3, <2>3 DEF Protected, RecordedCloses
  <2>9. ProtectionInv' /\ IntentBeforeOrder'
    BY <1>1, <1>2, <1>3, <2>2, <2>3, <2>8 DEF ProtectionInv, IntentBeforeOrder
  <2>10. recorded' \subseteq history'
    BY <1>2, <1>5, <2>1, <2>2
  <2>11. PathInv'
    BY <1>1, <1>2, <2>1, <2>2, <2>8
       DEF PathInv, RunnerTypes, BatchInv, EntryPath, ExitPath, GuardedPath, ClosePath, Early,
           Installing, Leaving, Guarded, Polling, Labels, InCycle, InSafe, InBoot, AboutToEnd, Ended
  <2> QED BY <1>1, <1>2, <2>2, <2>7, <2>9, <2>10, <2>11 DEF CycleInv, StoreInv
<1> QED BY <1>6, <1>7

\* A snapshot is not the absence of one.
LEMMA SnapshotProtects ==
  ASSUME NEW p, SnapshotOK(p)
  PROVE  p # NoProtection /\ p.state \in ProtectionStates /\ p.qty \in 1 .. Qty /\ p.open \in 0 .. Qty
BY DEF SnapshotOK, Protections, ProtectionStates, NoProtection

\* A change of the protection's state, its intent included, that closes nothing.
LEMMA ProtectionStateStep ==
  ASSUME CycleInv, Protected, UNCHANGED <<exchangeVars, recorded, entry>>,
         intents \subseteq intents', intents' \subseteq Roles,
         SnapshotOK(prot'), prot'.qty = prot.qty, prot'.open = prot.open
  PROVE  ExchangeInv' /\ StoreInv' /\ Protected' /\ RecordedCloses' = RecordedCloses
<1>1. ExchangeInv' /\ UNCHANGED <<order, size, history, EntryTotal>>
  BY WriteFrame
<1>2. EntryInv /\ ProtectionInv /\ IntentBeforeOrder /\ recorded \subseteq history
  BY DEF CycleInv, StoreInv
<1>3. Protected' /\ RecordedCloses' = RecordedCloses
  BY SnapshotProtects DEF Protected, RecordedCloses
<1>4. EntryInv' /\ IntentBeforeOrder'
  BY <1>1, <1>2 DEF EntryInv, IntentBeforeOrder
<1>5. Booked(prot)'
  BY <1>2, <1>3 DEF ProtectionInv, Booked
<1>6. SnapshotOK(prot)'
  BY DEF SnapshotOK, Protections, ProtectionStates
<1>7. ProtectionInv'
  BY <1>1, <1>2, <1>3, <1>5, <1>6 DEF ProtectionInv
<1> QED BY <1>1, <1>2, <1>3, <1>4, <1>7 DEF StoreInv

LEMMA PersistingAnExit ==
  ASSUME CycleInv, PersistExit
  PROVE  CycleInv'
<1>1. /\ pc = "persist_exit" /\ pc' = "place_exit" /\ intents' = intents \cup {leg}
      /\ prot' = IF leg = "STOP" THEN NewProtection ELSE [prot EXCEPT !.hasTp = TRUE]
      /\ UNCHANGED <<exchangeVars, recorded, entry, tries, leg, batch, targets, current, gotFill, capture>>
  BY DEF PersistExit, Goto
<1>2. PathInv /\ EntryInv /\ ProtectionInv /\ IntentBeforeOrder /\ recorded \subseteq history
      /\ intents \subseteq Roles
  BY DEF CycleInv, StoreInv
<1>3. /\ leg \in Exits /\ entry.state = "ACTIVE_UNPROTECTED" /\ (Protected <=> leg = "TP")
      /\ RecordedCloses = {}
  BY <1>1, <1>2 DEF PathInv, RunnerTypes, ExitPath, ClosePath, InCycle
<1>4. intents \subseteq intents' /\ intents' \subseteq Roles
  BY <1>1, <1>2, <1>3 DEF Roles
<1>5. /\ ExchangeInv' /\ UNCHANGED <<order, size, fills, history, EntryTotal, Position>>
      /\ StopHolds' = StopHolds /\ BothDone' = BothDone
      /\ Arrived("STOP")' = Arrived("STOP") /\ Arrived("TP")' = Arrived("TP")
  BY <1>1, WriteFrame
<1>6. CASE leg = "STOP"
  <2>1. prot' = NewProtection /\ ~Protected /\ leg # "TP"
    BY <1>1, <1>3, <1>6
  <2>2. /\ prot'.qty = entry.filled /\ prot'.open = entry.filled
        /\ prot'.state = "ACTIVE_UNPROTECTED"
    BY <2>1 DEF NewProtection
  <2>3. entry.filled \in 1 .. Qty
    BY <1>2, <1>3, ExecutionConstants DEF EntryInv
  <2>4. SnapshotOK(NewProtection)
    <3>1. NewProtection \in Protections
      BY <2>3, ExecutionConstants DEF NewProtection, Protections, ProtectionStates
    <3> QED BY <2>3, <3>1 DEF SnapshotOK, NewProtection
  <2>5. Protected' /\ RecordedCloses' = {}
    BY <1>1, <1>3, <2>1, <2>4, SnapshotProtects DEF Protected, RecordedCloses
  <2>6. Total(OfRole(recorded, Exits)) = 0
    BY <1>2, <2>1, TotalEmpty DEF ProtectionInv
  <2>7. Booked(prot)' /\ SnapshotOK(prot)'
    <3>1. entry.filled - entry.filled = 0
      BY <2>3
    <3>2. Booked(prot)'
      BY <1>1, <2>2, <2>6, <3>1 DEF Booked
    <3>3. SnapshotOK(prot)'
      BY <2>1, <2>4 DEF SnapshotOK, Protections, ProtectionStates
    <3> QED BY <3>2, <3>3
  <2>8. EntryInv' /\ IntentBeforeOrder'
    BY <1>1, <1>2, <1>4, <1>5 DEF EntryInv, IntentBeforeOrder
  <2>9. ProtectionInv'
    BY <1>1, <1>2, <1>3, <1>5, <2>1, <2>2, <2>5, <2>7 DEF ProtectionInv
  <2>10. PathInv'
    BY <1>1, <1>2, <1>5, <1>6, <2>1, <2>2, <2>5
       DEF PathInv, RunnerTypes, BatchInv, EntryPath, ExitPath, GuardedPath, ClosePath, Early,
           Installing, Leaving, Guarded, Polling, Labels, InCycle, InSafe, InBoot, AboutToEnd, Ended
  <2> QED BY <1>1, <1>2, <1>4, <1>5, <2>8, <2>9, <2>10 DEF CycleInv, StoreInv
<1>7. CASE leg = "TP"
  <2>1. Protected /\ prot' = [prot EXCEPT !.hasTp = TRUE] /\ SnapshotOK(prot)
    BY <1>1, <1>2, <1>3, <1>7 DEF ProtectionInv
  <2>2. /\ SnapshotOK(prot') /\ prot'.qty = prot.qty /\ prot'.open = prot.open
        /\ prot'.state = prot.state
    BY <2>1 DEF SnapshotOK, Protections
  <2>3. StoreInv' /\ Protected' /\ RecordedCloses' = RecordedCloses
    BY <1>1, <1>4, <2>1, <2>2, ProtectionStateStep
  <2>4. PathInv'
    BY <1>1, <1>2, <1>5, <1>7, <2>1, <2>2, <2>3
       DEF PathInv, RunnerTypes, BatchInv, EntryPath, ExitPath, GuardedPath, ClosePath, Early,
           Installing, Leaving, Guarded, Polling, Labels, InCycle, InSafe, InBoot, AboutToEnd, Ended
  <2> QED BY <1>5, <2>3, <2>4 DEF CycleInv
<1> QED BY <1>3, <1>6, <1>7 DEF Exits

LEMMA ConfirmingAnExit ==
  ASSUME CycleInv, ConfirmExit \/ DoubtExit
  PROVE  CycleInv'
<1>1. /\ \/ /\ pc = "confirm_exit" /\ leg = "STOP" /\ leg' = "TP" /\ pc' = "persist_exit"
            /\ prot' = [prot EXCEPT !.state = "ACTIVE_PROTECTED"]
         \/ /\ pc = "confirm_exit" /\ leg # "STOP" /\ leg' = leg /\ pc' = "protected_position"
            /\ prot' = prot
         \/ /\ pc = "doubt_exit" /\ leg' = leg /\ pc' = "safe_cancel"
            /\ prot' = [prot EXCEPT !.state = "RECONCILING"]
      /\ UNCHANGED <<exchangeVars, intents, recorded, entry, tries, batch, targets, current, gotFill, capture>>
  BY DEF ConfirmExit, DoubtExit, Goto, Failed, ProtTo
<1>2. PathInv /\ ProtectionInv /\ intents \subseteq Roles
  BY DEF CycleInv, StoreInv
<1>3. leg \in Exits /\ Protected /\ SnapshotOK(prot) /\ entry.state = "ACTIVE_UNPROTECTED"
  BY <1>1, <1>2 DEF PathInv, RunnerTypes, ExitPath, Installing, ProtectionInv
<1>4. /\ SnapshotOK(prot') /\ prot'.qty = prot.qty /\ prot'.open = prot.open
      /\ prot'.state = IF pc' = "persist_exit" THEN "ACTIVE_PROTECTED"
                       ELSE IF pc' = "safe_cancel" THEN "RECONCILING" ELSE prot.state
  BY <1>1, <1>3 DEF SnapshotOK, Protections, ProtectionStates
<1>5. StoreInv' /\ Protected' /\ RecordedCloses' = RecordedCloses
  BY <1>1, <1>2, <1>3, <1>4, ProtectionStateStep
<1>6. /\ ExchangeInv' /\ UNCHANGED <<order, size, fills, history, EntryTotal, Position>>
      /\ StopHolds' = StopHolds /\ BothDone' = BothDone
      /\ Arrived("STOP")' = Arrived("STOP") /\ Arrived("TP")' = Arrived("TP")
  BY <1>1, WriteFrame
<1>7. CASE pc = "confirm_exit" /\ leg = "STOP"
  <2>1. Arrived("STOP") /\ StopHolds /\ leg' = "TP" /\ pc' = "persist_exit"
    BY <1>1, <1>2, <1>7 DEF PathInv, ExitPath
  <2>2. PathInv'
    BY <1>1, <1>2, <1>3, <1>5, <1>6, <1>7, <2>1
       DEF PathInv, RunnerTypes, BatchInv, EntryPath, ExitPath, GuardedPath, ClosePath, Early, Exits,
           Installing, Leaving, Guarded, Polling, Labels, InCycle, InSafe, InBoot, AboutToEnd, Ended
  <2> QED BY <1>5, <1>6, <2>2 DEF CycleInv
<1>8. CASE pc = "confirm_exit" /\ leg = "TP"
  <2>1. Arrived("STOP") /\ Arrived("TP") /\ prot' = prot /\ leg' = leg /\ pc' = "protected_position"
    BY <1>1, <1>2, <1>8 DEF PathInv, ExitPath, Installing
  <2>2. PathInv'
    BY <1>1, <1>2, <1>3, <1>5, <1>6, <1>8, <2>1
       DEF PathInv, RunnerTypes, BatchInv, EntryPath, ExitPath, GuardedPath, ClosePath, Early,
           Installing, Leaving, Guarded, Polling, Labels, InCycle, InSafe, InBoot, AboutToEnd, Ended
  <2> QED BY <1>5, <1>6, <2>2 DEF CycleInv
<1>9. CASE pc = "doubt_exit"
  <2>1. leg' = leg /\ pc' = "safe_cancel"
    BY <1>1, <1>9
  <2>2. PathInv'
    BY <1>1, <1>2, <1>3, <1>5, <1>6, <1>9, <2>1
       DEF PathInv, RunnerTypes, BatchInv, EntryPath, ExitPath, GuardedPath, ClosePath, Early,
           Installing, Leaving, Guarded, Polling, Labels, InCycle, InSafe, InBoot, AboutToEnd, Ended
  <2> QED BY <1>5, <1>6, <2>2 DEF CycleInv
<1> QED BY <1>1, <1>3, <1>7, <1>8, <1>9 DEF Exits

LEMMA ClosingTheExit ==
  ASSUME CycleInv, CloseExit
  PROVE  CycleInv'
<1>1. /\ pc = "exit_position"
      /\ \/ /\ targets = {} /\ Position = prot.open /\ pc' = "final_capture" /\ tries' = tries
            /\ prot' = [prot EXCEPT !.state = prot.pending, !.pending = "NONE"]
         \/ /\ pc' = IF tries + 1 < Attempts THEN "exit_fills" ELSE "safe_cancel"
            /\ tries' = tries + 1
            /\ prot' = [prot EXCEPT !.state = "RECONCILING"]
      /\ UNCHANGED <<exchangeVars, intents, recorded, entry, leg, batch, targets, current, gotFill, capture>>
  BY DEF CloseExit, ExitExplained, Goto, Again, Failed, ProtTo
<1>2. PathInv /\ ProtectionInv /\ intents \subseteq Roles /\ Attempts \in Nat \ {0}
  BY ExecutionConstants DEF CycleInv, StoreInv
<1>3. /\ Protected /\ SnapshotOK(prot) /\ entry.state = "ACTIVE_UNPROTECTED"
      /\ prot.state = "CANCEL_PENDING" /\ (targets = {} => BothDone) /\ prot.open = 0
      /\ Arrived("STOP") /\ Arrived("TP")
  BY <1>1, <1>2 DEF PathInv, GuardedPath, Guarded, Leaving, ProtectionInv, SnapshotOK
<1>4. /\ SnapshotOK(prot') /\ prot'.qty = prot.qty /\ prot'.open = prot.open
      /\ pc' = "final_capture" => prot'.state \in {"CLOSED_TP", "CLOSED_STOP"} /\ targets = {} /\ Position = 0
      /\ prot'.state # "ACTIVE_PROTECTED"
  <2>1. prot \in Protections /\ prot.tp + prot.stop + prot.open = prot.qty
        /\ prot.pending \in {"CLOSED_TP", "CLOSED_STOP"}
    BY <1>3 DEF SnapshotOK, Protections
  <2> QED BY <1>1, <1>3, <2>1 DEF SnapshotOK, Protections, ProtectionStates
<1>5. StoreInv' /\ Protected' /\ RecordedCloses' = RecordedCloses
  BY <1>1, <1>2, <1>3, <1>4, ProtectionStateStep
<1>6. /\ ExchangeInv' /\ UNCHANGED <<order, size, fills, history, EntryTotal, Position>>
      /\ StopHolds' = StopHolds /\ BothDone' = BothDone
      /\ Arrived("STOP")' = Arrived("STOP") /\ Arrived("TP")' = Arrived("TP")
  BY <1>1, WriteFrame
<1>7. tries' \in 0 .. Attempts /\ (pc' = "exit_fills" => tries' < Attempts)
  BY <1>1, <1>2 DEF PathInv, RunnerTypes, Polling, Leaving
<1>8. pc' \in {"final_capture", "exit_fills", "safe_cancel"}
  BY <1>1
<1>9. PathInv'
  BY <1>1, <1>2, <1>3, <1>4, <1>5, <1>6, <1>7, <1>8
     DEF PathInv, RunnerTypes, BatchInv, EntryPath, ExitPath, GuardedPath, ClosePath, Early,
         Installing, Leaving, Guarded, Polling, Labels, InCycle, InSafe, InBoot, AboutToEnd, Ended
<1> QED BY <1>5, <1>6, <1>9 DEF CycleInv

\* An exit moves its quantity from open to the leg that filled.
LEMMA ReducedSnapshot ==
  ASSUME SnapshotOK(prot), NEW e, e.qty \in 1 .. Qty, e.role \in Exits, ~(e.qty > prot.open)
  PROVE  /\ SnapshotOK(Reduced(e)) /\ Reduced(e).qty = prot.qty
         /\ Reduced(e).open = prot.open - e.qty
         /\ Reduced(e).state \in {"CANCEL_PENDING", "EXIT_PARTIALLY_FILLED"}
<1> DEFINE open == prot.open - e.qty
           stop == StopFilled(e)
           tp == TpFilled(e)
           state == IF open = 0 THEN "CANCEL_PENDING" ELSE "EXIT_PARTIALLY_FILLED"
           pending == IF open > 0 THEN "NONE" ELSE IF stop > 0 THEN "CLOSED_STOP" ELSE "CLOSED_TP"
<1>1. /\ prot \in Protections /\ prot.tp + prot.stop + prot.open = prot.qty
      /\ prot.tp \in Nat /\ prot.stop \in Nat /\ prot.open \in Nat /\ prot.qty \in 1 .. Qty
      /\ Qty \in Nat
  BY ExecutionConstants DEF SnapshotOK, Protections
<1>2. open \in 0 .. Qty /\ stop \in 0 .. Qty /\ tp \in 0 .. Qty /\ tp + stop + open = prot.qty
  <2>1. \/ e.role = "STOP" /\ stop = prot.stop + e.qty /\ tp = prot.tp + 0
        \/ e.role = "TP" /\ stop = prot.stop + 0 /\ tp = prot.tp + e.qty
    BY DEF Exits, StopFilled, TpFilled
  <2> QED BY <1>1, <2>1
<1>3. Reduced(e) = [prot EXCEPT !.open = open, !.stop = stop, !.tp = tp, !.state = state,
                                !.pending = pending]
  BY DEF Reduced
<1>4. state \in {"CANCEL_PENDING", "EXIT_PARTIALLY_FILLED"}
      /\ pending \in {"NONE", "CLOSED_TP", "CLOSED_STOP"}
      /\ (state = "CANCEL_PENDING" => open = 0 /\ pending # "NONE")
  BY <1>2
<1> HIDE DEF open, stop, tp, state, pending
<1>5. /\ Reduced(e).open = open /\ Reduced(e).stop = stop /\ Reduced(e).tp = tp
      /\ Reduced(e).state = state /\ Reduced(e).pending = pending /\ Reduced(e).qty = prot.qty
      /\ Reduced(e) \in Protections
  BY <1>1, <1>2, <1>3, <1>4 DEF Protections, ProtectionStates
<1>6. SnapshotOK(Reduced(e))
  BY <1>2, <1>4, <1>5 DEF SnapshotOK
<1> QED BY <1>4, <1>5, <1>6 DEF open

LEMMA ApplyingAnExitFill ==
  ASSUME CycleInv, ApplyExitFill
  PROVE  CycleInv'
<1> DEFINE e == First(batch)
<1>1. /\ pc = "apply_exit" /\ batch # {} /\ batch' = batch \ {e}
      /\ UNCHANGED <<exchangeVars, intents, entry, tries, leg, targets, current, gotFill, capture>>
      /\ \/ UNCHANGED <<recorded, prot, pc>>
         \/ pc' = "safe_cancel" /\ UNCHANGED <<recorded, prot>>
         \/ /\ e \notin recorded /\ ~(e.qty > prot.open) /\ recorded' = recorded \cup {e}
            /\ pc' = pc /\ prot' = Reduced(e)
  BY DEF ApplyExitFill, IsNew, Failed
<1>2. PathInv /\ EntryInv /\ ProtectionInv /\ IntentBeforeOrder /\ ExchangeInv
      /\ recorded \subseteq history /\ intents \subseteq Roles
  BY DEF CycleInv, StoreInv
<1>3. /\ batch \subseteq history /\ (\A x \in batch : x.role \in Exits) /\ Protected
      /\ Arrived("STOP") /\ Arrived("TP") /\ RecordedCloses = {}
  BY <1>1, <1>2 DEF PathInv, BatchInv, GuardedPath, Guarded, ClosePath, InCycle
<1>4. e \in batch
  BY <1>1, <1>3, RecordedLots, FirstIsElement
<1>5. e \in history /\ e.role \in Exits
  BY <1>3, <1>4
<1> HIDE DEF e
<1>6. CASE UNCHANGED <<recorded, prot>>
  <2>1. UNCHANGED <<exchangeVars, storeVars>>
    BY <1>1, <1>6 DEF storeVars
  <2>2. pc' \in {"apply_exit", "safe_cancel"} /\ batch' \subseteq batch
    BY <1>1
  <2>3. PathInv'
    BY <1>1, <1>2, <2>1, <2>2, ReadFrame
       DEF PathInv, RunnerTypes, BatchInv, EntryPath, ExitPath, GuardedPath, ClosePath, Early,
           Installing, Leaving, Guarded, Polling, Labels, InCycle, InSafe, InBoot, AboutToEnd, Ended
  <2> QED BY <2>1, <2>3, ReadFrame DEF CycleInv
<1>7. CASE ~UNCHANGED <<recorded, prot>>
  <2>1. /\ e \notin recorded /\ ~(e.qty > prot.open) /\ recorded' = recorded \cup {e}
        /\ pc' = pc /\ prot' = Reduced(e)
    BY <1>1, <1>7
  <2>2. /\ ExchangeInv' /\ UNCHANGED <<order, size, fills, history, EntryTotal, Position>>
        /\ StopHolds' = StopHolds /\ BothDone' = BothDone
        /\ Arrived("STOP")' = Arrived("STOP") /\ Arrived("TP")' = Arrived("TP")
    BY <1>1, WriteFrame
  <2>3. /\ e.qty \in 1 .. Qty
        /\ Total(OfRole(recorded, Exits)) \in Nat
        /\ Total(OfRole(recorded', Exits)) = Total(OfRole(recorded, Exits)) + e.qty
        /\ OfRole(recorded', {"ENTRY"}) = OfRole(recorded, {"ENTRY"})
        /\ OfRole(recorded', {"CLOSE"}) = OfRole(recorded, {"CLOSE"})
    BY <1>5, <2>1, RecordStep DEF Exits
  <2>4. /\ SnapshotOK(prot) /\ Booked(prot) /\ prot.qty = entry.filled
        /\ entry.state = "ACTIVE_UNPROTECTED"
    BY <1>2, <1>3 DEF ProtectionInv
  <2>5. /\ SnapshotOK(Reduced(e)) /\ prot'.qty = prot.qty /\ prot'.open = prot.open - e.qty
        /\ prot'.state \in {"CANCEL_PENDING", "EXIT_PARTIALLY_FILLED"}
    BY <1>5, <2>1, <2>3, <2>4, ReducedSnapshot
  <2>6. Protected' /\ RecordedCloses' = {} /\ RecordedCloses = {}
    BY <1>3, <2>1, <2>3, <2>5, SnapshotProtects DEF Protected, RecordedCloses
  <2>7. SnapshotOK(prot)'
    BY <2>1, <2>5 DEF SnapshotOK, Protections, ProtectionStates
  <2>8. Booked(prot)'
    <3>1. prot.qty - prot.open = Total(OfRole(recorded, Exits)) /\ prot.qty \in Int /\ prot.open \in Int
      BY <2>4, <2>6, SnapshotProtects DEF Booked
    <3>2. prot'.qty - prot'.open = Total(OfRole(recorded', Exits))
      BY <2>3, <2>5, <3>1
    <3>3. Total(OfRole(recorded', Exits)) \in Nat
      BY <2>3
    <3>4. prot'.qty - prot'.open >= Total(OfRole(recorded', Exits))
      BY <3>2, <3>3
    <3> QED BY <3>2, <3>4 DEF Booked
  <2>9. EntryInv' /\ IntentBeforeOrder'
    BY <1>1, <1>2, <2>2, <2>3 DEF EntryInv, IntentBeforeOrder
  <2>10. ProtectionInv'
    BY <1>1, <1>2, <1>3, <2>2, <2>4, <2>5, <2>6, <2>7, <2>8 DEF ProtectionInv
  <2>11. recorded' \subseteq history' /\ batch' \subseteq batch
    BY <1>1, <1>2, <1>5, <2>1, <2>2
  <2>12. PathInv'
    BY <1>1, <1>2, <1>3, <2>1, <2>2, <2>5, <2>6, <2>11
       DEF PathInv, RunnerTypes, BatchInv, EntryPath, ExitPath, GuardedPath, ClosePath, Early,
           Installing, Leaving, Guarded, Polling, Labels, InCycle, InSafe, InBoot, AboutToEnd, Ended
  <2> QED BY <1>1, <1>2, <2>2, <2>9, <2>10, <2>11, <2>12 DEF CycleInv, StoreInv
<1> QED BY <1>6, <1>7

LEMMA PersistingTheClose ==
  ASSUME CycleInv, PersistClose
  PROVE  CycleInv'
<1>1. /\ pc = "flat_persist" /\ pc' = "flat_place" /\ intents' = intents \cup {"CLOSE"}
      /\ UNCHANGED <<exchangeVars, recorded, entry, prot, tries, leg, batch, targets, current,
                     gotFill, capture>>
  BY DEF PersistClose, Goto
<1>2. PathInv /\ EntryInv /\ ProtectionInv /\ IntentBeforeOrder /\ recorded \subseteq history
      /\ intents \subseteq Roles
  BY DEF CycleInv, StoreInv
<1>3. /\ ExchangeInv' /\ UNCHANGED <<order, size, fills, history, EntryTotal, Position>>
  BY <1>1, WriteFrame
<1>4. Protected' = Protected /\ RecordedCloses' = RecordedCloses /\ Booked(prot)' = Booked(prot)
      /\ SnapshotOK(prot)' = SnapshotOK(prot)
  BY <1>1 DEF Protected, RecordedCloses, Booked
<1>5. EntryInv' /\ ProtectionInv' /\ IntentBeforeOrder' /\ intents' \subseteq Roles
  BY <1>1, <1>2, <1>3, <1>4 DEF EntryInv, ProtectionInv, IntentBeforeOrder, Roles
<1>6. PathInv'
  BY <1>1, <1>2, <1>3, <1>4
     DEF PathInv, RunnerTypes, BatchInv, EntryPath, ExitPath, GuardedPath, ClosePath, Early,
         Installing, Leaving, Guarded, Polling, Labels, InCycle, InSafe, InBoot, AboutToEnd, Ended
<1> QED BY <1>1, <1>2, <1>3, <1>5, <1>6 DEF CycleInv, StoreInv

LEMMA RecordingAClose ==
  ASSUME CycleInv, RecordCloseFill
  PROVE  CycleInv'
<1>1. PICK e \in batch :
        /\ pc = "flat_record" /\ pc' = "flat_apply" /\ recorded' = recorded \cup {e}
        /\ current' = e /\ gotFill' = TRUE
        /\ UNCHANGED <<exchangeVars, intents, entry, prot, tries, leg, batch, targets, capture>>
  BY DEF RecordCloseFill
<1>2. PathInv /\ EntryInv /\ ProtectionInv /\ IntentBeforeOrder /\ recorded \subseteq history
      /\ intents \subseteq Roles
  BY DEF CycleInv, StoreInv
<1>3. e \in history /\ e.role = "CLOSE"
  BY <1>1, <1>2 DEF PathInv, BatchInv
<1>4. /\ OfRole(recorded', {"ENTRY"}) = OfRole(recorded, {"ENTRY"})
      /\ OfRole(recorded', Exits) = OfRole(recorded, Exits)
      /\ e \in RecordedCloses'
  BY <1>1, <1>3 DEF OfRole, Exits, RecordedCloses
<1>5. ExchangeInv' /\ UNCHANGED <<order, size, fills, history, EntryTotal, Position>>
  BY <1>1, WriteFrame
<1>6. Protected' = Protected /\ (Booked(prot) => Booked(prot)') /\ SnapshotOK(prot)' = SnapshotOK(prot)
  <2>1. Booked(prot) => Booked(prot)'
    BY <1>1, <1>4 DEF Booked
  <2> QED BY <1>1, <2>1 DEF Protected
<1>7. EntryInv' /\ ProtectionInv' /\ IntentBeforeOrder' /\ recorded' \subseteq history'
  BY <1>1, <1>2, <1>3, <1>4, <1>5, <1>6 DEF EntryInv, ProtectionInv, IntentBeforeOrder
<1>8. PathInv'
  BY <1>1, <1>2, <1>3, <1>4, <1>5, <1>6
     DEF PathInv, RunnerTypes, BatchInv, EntryPath, ExitPath, GuardedPath, ClosePath, Early,
         Installing, Leaving, Guarded, Polling, Labels, InCycle, InSafe, InBoot, AboutToEnd, Ended
<1> QED BY <1>1, <1>2, <1>5, <1>7, <1>8 DEF CycleInv, StoreInv

LEMMA MinOfTwo ==
  ASSUME NEW a \in Nat, NEW b \in Nat
  PROVE  /\ Min({a, b}) \in Nat /\ Min({a, b}) <= a /\ Min({a, b}) <= b
         /\ Min({a, b}) \in {a, b}
<1>1. \E x \in {a, b} : \A y \in {a, b} : x <= y
  <2>1. CASE a <= b
    BY <2>1
  <2>2. CASE ~(a <= b)
    BY <2>2
  <2> QED BY <2>1, <2>2
<1> QED BY <1>1 DEF Min

\* A recorded close leaves the books, as far as they still hold it: what is open
\* falls by its quantity, or to zero.
LEMMA EmergencyExitStep ==
  ASSUME CycleInv, UNCHANGED <<exchangeVars, intents, recorded>>, NEW e \in RecordedCloses,
         EmergencyExit(e)
  PROVE  /\ ExchangeInv' /\ StoreInv' /\ Protected' = Protected
         /\ RecordedCloses' = RecordedCloses
         /\ Protected =>
              /\ entry' = entry /\ prot'.qty = prot.qty
              /\ prot'.open = 0 \/ prot'.open = prot.open - e.qty
<1> DEFINE remaining == Min({e.qty, ActiveExposure})
           applies == remaining > 0 /\ ~Unallocated(e)
<1>1. EntryInv /\ ProtectionInv /\ IntentBeforeOrder /\ recorded \subseteq history
      /\ intents \subseteq Roles
  BY DEF CycleInv, StoreInv
<1>2. e \in recorded /\ e \in Executions /\ e.qty \in 1 .. Qty
  <2>1. e \in recorded
    BY DEF RecordedCloses, OfRole
  <2>2. e \in Executions
    BY <1>1, <2>1, RecordedLots
  <2> QED BY <2>1, <2>2 DEF Executions
<1>3. ExchangeInv' /\ UNCHANGED <<order, size, history, EntryTotal, recorded, intents>>
      /\ RecordedCloses' = RecordedCloses /\ RecordedCloses # {}
  BY WriteFrame DEF RecordedCloses
<1>4. /\ prot' = IF applies /\ Protected
                 THEN [prot EXCEPT !.state = "ERROR", !.open = @ - remaining,
                                   !.stop = @ + remaining, !.pending = "NONE"]
                 ELSE prot
      /\ entry' = IF applies /\ ~Protected THEN [entry EXCEPT !.state = "ERROR"] ELSE entry
  BY DEF EmergencyExit
<1>5. ASSUME Protected
      PROVE  /\ entry' = entry /\ SnapshotOK(prot') /\ prot'.qty = prot.qty
             /\ prot'.open \in 0 .. Qty /\ prot.open \in 0 .. Qty /\ prot'.open <= prot.open
             /\ prot'.open = 0 \/ prot'.open = prot.open - e.qty
  <2>1. /\ SnapshotOK(prot) /\ prot \in Protections /\ prot.open \in 0 .. Qty /\ Qty \in Nat
    BY <1>1, <1>5, ExecutionConstants DEF ProtectionInv, SnapshotOK, Protections
  <2>2. ActiveExposure = prot.open /\ ~Unallocated(e)
    BY <1>5 DEF ActiveExposure, Unallocated
  <2>3. remaining \in Nat /\ remaining <= prot.open /\ remaining \in {e.qty, prot.open}
    <3>1. e.qty \in Nat /\ prot.open \in Nat
      BY <1>2, <2>1
    <3>2. Min({e.qty, prot.open}) \in Nat /\ Min({e.qty, prot.open}) <= prot.open
          /\ Min({e.qty, prot.open}) \in {e.qty, prot.open}
      BY <3>1, MinOfTwo
    <3> QED BY <2>2, <3>2
  <2>4. applies <=> remaining > 0
    BY <2>2
  <2>5. CASE applies
    <3>1. prot' = [prot EXCEPT !.state = "ERROR", !.open = prot.open - remaining,
                               !.stop = prot.stop + remaining, !.pending = "NONE"]
          /\ entry' = entry
      BY <1>4, <1>5, <2>5
    <3>2. prot.tp + prot.stop + prot.open = prot.qty /\ prot.tp \in Nat /\ prot.stop \in Nat
          /\ prot.qty \in 1 .. Qty
      BY <2>1 DEF SnapshotOK, Protections
    <3> HIDE DEF remaining, applies
    <3>3. prot.open - remaining \in 0 .. Qty /\ prot.stop + remaining \in 0 .. Qty
          /\ prot.tp + (prot.stop + remaining) + (prot.open - remaining) = prot.qty
          /\ prot.open - remaining <= prot.open
      BY <2>1, <2>3, <3>2
    <3>4. /\ prot' \in Protections /\ prot'.qty = prot.qty /\ prot'.tp = prot.tp
          /\ prot'.stop = prot.stop + remaining /\ prot'.open = prot.open - remaining
          /\ prot'.state = "ERROR"
      BY <2>1, <3>1, <3>3 DEF Protections, ProtectionStates
    <3>5. SnapshotOK(prot') /\ prot'.open \in 0 .. Qty /\ prot'.open <= prot.open
      BY <3>3, <3>4 DEF SnapshotOK
    <3>6. prot'.open = 0 \/ prot'.open = prot.open - e.qty
      <4>1. CASE remaining = e.qty
        BY <3>4, <4>1
      <4>2. CASE remaining = prot.open
        BY <2>1, <3>4, <4>2
      <4> QED BY <2>3, <4>1, <4>2
    <3> QED BY <2>1, <3>1, <3>4, <3>5, <3>6
  <2>6. CASE ~applies
    <3>1. prot' = prot /\ entry' = entry
      BY <1>4, <2>6
    <3>2. remaining = 0
      BY <2>3, <2>4, <2>6
    <3> HIDE DEF remaining, applies
    <3>3. prot.open = 0
      BY <1>2, <2>3, <3>2
    <3> QED BY <2>1, <3>1, <3>3
  <2> QED BY <2>5, <2>6
<1>6. CASE Protected
  <2>1. /\ Protected' /\ SnapshotOK(prot)'
    BY <1>5, <1>6, SnapshotProtects DEF Protected, SnapshotOK, Protections, ProtectionStates
  <2>2. Booked(prot)'
    <3>1. prot.qty - prot.open >= Total(OfRole(recorded, Exits)) /\ prot.qty \in Int
      BY <1>1, <1>6, SnapshotProtects DEF ProtectionInv, Booked
    <3>2. Total(OfRole(recorded, Exits)) \in Nat
      BY RecordedLots, RoleTotalNat
    <3>3. prot'.qty - prot'.open >= Total(OfRole(recorded, Exits))
      BY <1>5, <1>6, <3>1, <3>2
    <3> QED BY <1>3, <3>3 DEF Booked
  <2>3. EntryInv' /\ IntentBeforeOrder' /\ ProtectionInv'
    BY <1>1, <1>3, <1>5, <1>6, <2>1, <2>2 DEF EntryInv, IntentBeforeOrder, ProtectionInv
  <2> QED BY <1>1, <1>3, <1>5, <1>6, <2>1, <2>3 DEF StoreInv
<1>7. CASE ~Protected
  <2>1. prot' = prot /\ (entry' = entry \/ entry' = [entry EXCEPT !.state = "ERROR"])
    BY <1>4, <1>7
  <2>2. CASE entry' = entry
    <3>1. UNCHANGED <<exchangeVars, storeVars>>
      BY <2>1, <2>2 DEF storeVars
    <3> QED BY <1>3, <1>7, <3>1, ReadFrame
  <2>3. CASE entry' = [entry EXCEPT !.state = "ERROR"]
    <3>1. "ERROR" \in EntryStates \ {"ENTRY_PARTIALLY_FILLED"} /\ "ERROR" # "ACTIVE_UNPROTECTED"
      BY DEF EntryStates
    <3>2. ExchangeInv' /\ StoreInv' /\ ~Protected'
      BY <1>1, <1>7, <2>1, <2>3, <3>1, EntryStateStep
    <3>3. Protected' = Protected
      BY <2>1 DEF Protected
    <3> QED BY <1>3, <1>7, <3>2, <3>3
  <2> QED BY <2>1, <2>2, <2>3
<1> QED BY <1>6, <1>7

LEMMA ApplyingAClose ==
  ASSUME CycleInv, ApplyCloseFill \/ ApplyRecordedClose
  PROVE  CycleInv'
<1>1. PathInv
  BY DEF CycleInv
<1>2. PICK e \in RecordedCloses :
        /\ EmergencyExit(e) /\ batch' \subseteq batch
        /\ UNCHANGED <<exchangeVars, intents, recorded, tries, leg, targets, gotFill, capture>>
        /\ \/ /\ pc = "flat_apply" /\ pc' \in {"safe_final", "flat_record"}
              /\ current' = NoExecution
           \/ pc = "boot_apply" /\ pc' \in {"refused", "boot_apply"} /\ current' = current
  <2>1. CASE ApplyCloseFill
    <3>1. current \in RecordedCloses
      BY <1>1, <2>1 DEF ApplyCloseFill, PathInv, BatchInv
    <3> QED BY <2>1, <3>1 DEF ApplyCloseFill
  <2>2. CASE ApplyRecordedClose
    <3>1. pc = "boot_apply" /\ batch # {} /\ batch \subseteq RecordedCloses /\ batch \subseteq history
      BY <1>1, <2>2 DEF ApplyRecordedClose, PathInv, BatchInv
    <3>2. First(batch) \in batch
      BY <3>1, RecordedLots, FirstIsElement
    <3> QED BY <2>2, <3>1, <3>2 DEF ApplyRecordedClose
  <2> QED BY <2>1, <2>2
<1>3. ExchangeInv' /\ StoreInv' /\ RecordedCloses' = RecordedCloses
  BY <1>2, EmergencyExitStep
<1>4. UNCHANGED <<order, history>>
  BY <1>2, WriteFrame
<1>5. PathInv'
  BY <1>1, <1>2, <1>3, <1>4
     DEF PathInv, RunnerTypes, BatchInv, EntryPath, ExitPath, GuardedPath, ClosePath, Early,
         Installing, Leaving, Guarded, Polling, Labels, InCycle, InSafe, InBoot, AboutToEnd, Ended
<1> QED BY <1>3, <1>5 DEF CycleInv

-----------------------------------------------------------------------------
(* Steps of the runner that call the exchange *)

\* An order that is placed, or refused, where none was before.
LEMMA PlaceStep ==
  ASSUME CycleInv, NEW r \in Roles, NEW q \in 0 .. Qty, NEW outcome, Place(r, q, outcome),
         UNCHANGED storeVars, r \in intents,
         r = "ENTRY" => order["ENTRY"] = "NONE" /\ q = Qty,
         r = "STOP" => Protected /\ q = prot.qty,
         r = "TP" => Protected
  PROVE  /\ ExchangeInv' /\ StoreInv'
         /\ \A k \in Roles : k # r => order'[k] = order[k]
         /\ outcome = "ack" => order'[r] = "OPEN"
         /\ UNCHANGED <<history, recorded, entry, prot, intents, Position, missed>>
         /\ Protected' = Protected /\ RecordedCloses' = RecordedCloses
<1>1. /\ order' = [order EXCEPT ![r] = IF outcome = "ack" THEN "OPEN"
                                       ELSE IF outcome = "uncertain" THEN "INFLIGHT" ELSE @]
      /\ size' = [size EXCEPT ![r] = q]
      /\ UNCHANGED <<fills, history, amended, missed, intents, recorded, entry, prot>>
  BY DEF Place, storeVars
<1>2. ExchangeInv /\ EntryInv /\ ProtectionInv /\ IntentBeforeOrder /\ recorded \subseteq history
      /\ intents \subseteq Roles
  BY DEF CycleInv, StoreInv
<1>3. /\ order \in [Roles -> {"NONE", "INFLIGHT", "OPEN", "DONE"}] /\ size \in [Roles -> 0 .. Qty]
      /\ amended \in BOOLEAN /\ missed \in BOOLEAN /\ EntryOrderInv /\ "ENTRY" \in Roles /\ "STOP" \in Roles /\ "TP" \in Roles
  BY <1>2 DEF ExchangeInv, Roles, Exits
<1>4. /\ order' \in [Roles -> {"NONE", "INFLIGHT", "OPEN", "DONE"}] /\ size' \in [Roles -> 0 .. Qty]
      /\ \A k \in Roles : k # r => order'[k] = order[k] /\ size'[k] = size[k]
      /\ size'[r] = q
      /\ outcome = "ack" => order'[r] = "OPEN"
  BY <1>1, <1>3
<1>5. EntryTotal' = EntryTotal /\ Position' = Position /\ Protected' = Protected
      /\ RecordedCloses' = RecordedCloses /\ Booked(prot)' = Booked(prot)
      /\ SnapshotOK(prot)' = SnapshotOK(prot)
  BY <1>1 DEF EntryTotal, Position, Filled, Protected, RecordedCloses, Booked
<1>6. EntryOrderInv'
  <2>1. CASE r = "ENTRY"
    <3>1. EntryTotal = 0 /\ Qty > 0
      BY <1>3, <2>1, ExecutionConstants DEF EntryOrderInv
    <3>2. order'["ENTRY"] \in {"OPEN", "INFLIGHT", "NONE"}
      BY <1>1, <1>3, <2>1
    <3> QED BY <1>4, <1>5, <2>1, <3>1, <3>2 DEF EntryOrderInv
  <2>2. CASE r # "ENTRY"
    BY <1>3, <1>4, <1>5, <2>2 DEF EntryOrderInv
  <2> QED BY <2>1, <2>2
<1>7. ExchangeInv'
  BY <1>1, <1>2, <1>3, <1>4, <1>6, ExchangeFrame
<1>8. EntryInv'
  BY <1>1, <1>2, <1>3, <1>4, <1>5 DEF EntryInv
<1>9. ProtectionInv'
  BY <1>1, <1>2, <1>3, <1>4, <1>5 DEF ProtectionInv
<1>10. IntentBeforeOrder'
  BY <1>1, <1>2, <1>4 DEF IntentBeforeOrder
<1> QED BY <1>1, <1>2, <1>4, <1>5, <1>7, <1>8, <1>9, <1>10 DEF StoreInv

LEMMA Placing ==
  ASSUME CycleInv, PlaceEntry \/ PlaceExit \/ PlaceClose
  PROVE  CycleInv'
<1>1. PathInv /\ ExchangeInv /\ ProtectionInv /\ Attempts \in Nat \ {0} /\ Qty \in Nat
  BY ExecutionConstants DEF CycleInv, StoreInv
<1>2. UNCHANGED storeVars /\ UNCHANGED <<leg, batch, targets, current, gotFill, capture>>
  BY DEF PlaceEntry, PlaceExit, PlaceClose, Goto, GotoLoop
<1>3. Exits \subseteq Roles /\ "ENTRY" \in Roles /\ "CLOSE" \in Roles /\ "STOP" \in Roles /\ "TP" \in Roles
  BY DEF Roles, Exits
<1> USE DEF PathInv, RunnerTypes, BatchInv, EntryPath, ExitPath, GuardedPath, ClosePath, Early,
            Installing, Leaving, Guarded, Polling, Labels, InCycle, InSafe, InBoot, AboutToEnd, Ended
<1>4. CASE PlaceEntry
  <2>1. PICK outcome : Place("ENTRY", Qty, outcome)
    BY <1>4 DEF PlaceEntry
  <2>2. pc = "place_entry" /\ pc' \in {"ack_entry", "lookup_entry", "fail_entry"} /\ tries' = tries
    BY <1>4 DEF PlaceEntry, Goto
  <2>3. order["ENTRY"] = "NONE" /\ "ENTRY" \in intents /\ Qty \in 0 .. Qty
    BY <1>1, <2>2
  <2>4. /\ ExchangeInv' /\ StoreInv'
        /\ \A k \in Roles : k # "ENTRY" => order'[k] = order[k]
        /\ UNCHANGED <<history, recorded, entry, prot, intents, Position, missed>>
        /\ Protected' = Protected /\ RecordedCloses' = RecordedCloses
    BY <1>2, <1>3, <2>1, <2>3, PlaceStep
  <2>5. order'["CLOSE"] = order["CLOSE"]
    BY <1>3, <2>4
  <2>6. PathInv'
    BY <1>1, <1>2, <2>2, <2>4, <2>5
  <2> QED BY <2>4, <2>6 DEF CycleInv
<1>5. CASE PlaceExit
  <2>1. PICK outcome : Place(leg, prot.open, outcome)
    BY <1>5 DEF PlaceExit
  <2>2. pc = "place_exit" /\ pc' \in {"see_exit", "lookup_exit", "doubt_exit"} /\ tries' = 0
    BY <1>5 DEF PlaceExit, GotoLoop
  <2>3. /\ leg \in Exits /\ leg \in intents /\ Protected
        /\ leg = "STOP" => prot.open = prot.qty /\ prot.state = "ACTIVE_UNPROTECTED"
        /\ leg = "TP" => Arrived("STOP")
    BY <1>1, <2>2
  <2>4. prot.open \in 0 .. Qty /\ leg \in Roles /\ leg # "ENTRY" /\ leg # "CLOSE"
    <3>1. prot.open \in 0 .. Qty
      BY <1>1, <2>3, SnapshotProtects DEF ProtectionInv
    <3> QED BY <2>3, <3>1 DEF Roles, Exits
  <2>5. /\ ExchangeInv' /\ StoreInv'
        /\ \A k \in Roles : k # leg => order'[k] = order[k]
        /\ UNCHANGED <<history, recorded, entry, prot, intents, Position, missed>>
        /\ Protected' = Protected /\ RecordedCloses' = RecordedCloses
    BY <1>2, <2>1, <2>3, <2>4, PlaceStep
  <2>6. /\ order'["CLOSE"] = order["CLOSE"]
        /\ leg = "TP" => order'["STOP"] = order["STOP"]
    BY <1>3, <2>4, <2>5
  <2>7. leg = "TP" => Arrived("STOP")' /\ StopHolds' = StopHolds
    BY <2>3, <2>5, <2>6 DEF Arrived, StopHolds
  <2>8. leg = "STOP" \/ leg = "TP"
    BY <2>3 DEF Exits
  <2>9. tries' \in 0 .. Attempts /\ tries' < Attempts
    BY <1>1, <2>2
  <2>10. CASE leg = "STOP"
    BY <1>1, <1>2, <2>2, <2>3, <2>5, <2>6, <2>9, <2>10 DEF CycleInv
  <2>11. CASE leg = "TP"
    BY <1>1, <1>2, <2>2, <2>3, <2>5, <2>6, <2>7, <2>9, <2>11 DEF CycleInv
  <2> QED BY <2>8, <2>10, <2>11
<1>6. CASE PlaceClose
  <2>1. PICK outcome : Place("CLOSE", size["CLOSE"], outcome)
    BY <1>6 DEF PlaceClose
  <2>2. pc = "flat_place" /\ pc' \in {"flat_fills", "flat_lookup", "safe_final"} /\ tries' = 0
    BY <1>6 DEF PlaceClose, GotoLoop
  <2>3. "CLOSE" \in intents /\ size["CLOSE"] \in 0 .. Qty
    BY <1>1, <1>3, <2>2 DEF ExchangeInv
  <2>4. /\ ExchangeInv' /\ StoreInv'
        /\ UNCHANGED <<history, recorded, entry, prot, intents, Position, missed>>
        /\ Protected' = Protected /\ RecordedCloses' = RecordedCloses
    BY <1>2, <1>3, <2>1, <2>3, PlaceStep
  <2>5. tries' \in 0 .. Attempts /\ tries' < Attempts
    BY <1>1, <2>2
  <2>6. PathInv'
    BY <1>1, <1>2, <2>2, <2>4, <2>5
  <2> QED BY <2>4, <2>6 DEF CycleInv
<1> QED BY <1>4, <1>5, <1>6

\* Orders may be cancelled, the take-profit amended and the close sized; nothing
\* is placed or filled.
LEMMA QuietStep ==
  ASSUME CycleInv, UNCHANGED <<fills, history, missed, storeVars>>, amended' \in BOOLEAN,
         order' \in [Roles -> {"NONE", "INFLIGHT", "OPEN", "DONE"}],
         \A r \in Roles : order'[r] = order[r] \/ (order[r] = "OPEN" /\ order'[r] = "DONE"),
         size' \in [Roles -> 0 .. Qty], size'["ENTRY"] = size["ENTRY"], size'["STOP"] = size["STOP"]
  PROVE  /\ ExchangeInv' /\ StoreInv' /\ Position' = Position
         /\ Protected' = Protected /\ RecordedCloses' = RecordedCloses
         /\ UNCHANGED <<history, recorded, entry, prot, intents>>
<1>1. UNCHANGED <<intents, recorded, entry, prot>>
  BY DEF storeVars
<1>2. EntryTotal' = EntryTotal /\ Position' = Position /\ Protected' = Protected
      /\ RecordedCloses' = RecordedCloses
  BY <1>1 DEF EntryTotal, Position, Filled, Protected, RecordedCloses
<1>3. ExchangeInv /\ StoreInv /\ EntryOrderInv /\ "ENTRY" \in Roles /\ missed' \in BOOLEAN
  BY DEF CycleInv, ExchangeInv, Roles
<1>4. order'["ENTRY"] = order["ENTRY"] \/ (order["ENTRY"] = "OPEN" /\ order'["ENTRY"] = "DONE")
  BY <1>3
<1>5. EntryOrderInv'
  BY <1>2, <1>3, <1>4 DEF EntryOrderInv
<1>6. ExchangeInv'
  BY <1>3, <1>5, ExchangeFrame
<1>7. StoreInv'
  <2>1. \A r \in Roles : order[r] = "NONE" => order'[r] = "NONE"
    OBVIOUS
  <2>2. order["ENTRY"] = "DONE" => order'["ENTRY"] = "DONE"
    BY <1>4
  <2> QED BY <1>2, <1>3, <2>1, <2>2, StoreFrame
<1> QED BY <1>1, <1>2, <1>6, <1>7

LEMMA CallingTheExchange ==
  ASSUME CycleInv, Amend \/ CancelExit \/ CancelAll \/ SeePosition
  PROVE  CycleInv'
<1>1. /\ PathInv /\ Attempts \in Nat \ {0} /\ amended \in BOOLEAN
      /\ order \in [Roles -> {"NONE", "INFLIGHT", "OPEN", "DONE"}] /\ size \in [Roles -> 0 .. Qty]
      /\ Position \in 0 .. Qty
  BY ExecutionConstants, TotalsNat DEF CycleInv, ExchangeInv
<1>2. Exits \subseteq Roles /\ "ENTRY" \in Roles /\ "CLOSE" \in Roles /\ "STOP" \in Roles /\ "TP" \in Roles
  BY DEF Roles, Exits
<1> USE DEF PathInv, RunnerTypes, BatchInv, EntryPath, ExitPath, GuardedPath, ClosePath, Early,
            Installing, Leaving, Guarded, Polling, Labels, InCycle, InSafe, InBoot, AboutToEnd, Ended
<1>3. CASE Amend
  <2>1. /\ pc = "amend" /\ pc' = "exit_fills" /\ tries' = 0 /\ amended' \in BOOLEAN
        /\ UNCHANGED <<order, size, fills, history, missed, storeVars, leg, batch, targets, current, gotFill, capture>>
    BY <1>1, <1>3 DEF Amend, GotoLoop
  <2>2. /\ ExchangeInv' /\ StoreInv' /\ Position' = Position
        /\ Protected' = Protected /\ RecordedCloses' = RecordedCloses
        /\ UNCHANGED <<history, recorded, entry, prot, intents>>
    BY <1>1, <1>2, <2>1, QuietStep
  <2>3. StopHolds' = StopHolds /\ Arrived("STOP")' = Arrived("STOP") /\ Arrived("TP")' = Arrived("TP")
    BY <2>1, <2>2 DEF StopHolds, Arrived
  <2>4. tries' \in 0 .. Attempts /\ tries' < Attempts
    BY <1>1, <2>1
  <2>5. PathInv'
    BY <1>1, <2>1, <2>2, <2>3, <2>4
  <2> QED BY <2>2, <2>5 DEF CycleInv
<1>4. CASE CancelExit
  <2>1. PICK r \in targets :
          /\ targets' = targets \ {r}
          /\ IF Working(r)
             THEN order' \in {order, [order EXCEPT ![r] = "DONE"]} /\ UNCHANGED pc
             ELSE pc' = Failed /\ UNCHANGED order
    BY <1>4 DEF CancelExit
  <2>2. /\ pc = "exit_cancel" /\ pc' \in {"exit_cancel", "safe_cancel"}
        /\ UNCHANGED <<size, fills, history, amended, missed, storeVars, tries, leg, batch, current, gotFill, capture>>
    BY <1>4 DEF CancelExit, Failed
  <2>3. r \in Roles /\ targets' \subseteq Exits
    BY <1>1, <1>2, <2>1
  <2>4. /\ order' \in [Roles -> {"NONE", "INFLIGHT", "OPEN", "DONE"}]
        /\ \A k \in Roles : order'[k] = order[k] \/ (order[k] = "OPEN" /\ order'[k] = "DONE")
        /\ order'["CLOSE"] = order["CLOSE"]
    <3>1. r # "CLOSE"
      BY <1>1, <2>1 DEF Exits
    <3> QED BY <1>1, <1>2, <2>1, <2>3, <3>1 DEF Working
  <2>5. /\ ExchangeInv' /\ StoreInv' /\ Position' = Position
        /\ Protected' = Protected /\ RecordedCloses' = RecordedCloses
        /\ UNCHANGED <<history, recorded, entry, prot, intents>>
    BY <1>1, <2>2, <2>4, QuietStep
  <2>6. Protected /\ Arrived("STOP")' /\ Arrived("TP")' /\ prot.state = "CANCEL_PENDING"
    BY <1>1, <1>2, <2>2, <2>4 DEF Arrived
  <2>7. PathInv'
    BY <1>1, <2>2, <2>3, <2>4, <2>5, <2>6
  <2> QED BY <2>5, <2>7 DEF CycleInv
<1>5. CASE CancelAll
  <2>1. /\ \/ pc = "safe_cancel" /\ pc' = "safe_position"
           \/ pc = "safe_final" /\ pc' = "halted"
        /\ order' \in {order, [r \in Roles |-> IF Working(r) THEN "DONE" ELSE order[r]]}
        /\ UNCHANGED <<size, fills, history, amended, missed, storeVars, tries, leg, batch, targets,
                       current, gotFill, capture>>
    BY <1>5 DEF CancelAll, Goto
  <2>2. /\ order' \in [Roles -> {"NONE", "INFLIGHT", "OPEN", "DONE"}]
        /\ \A k \in Roles : order'[k] = order[k] \/ (order[k] = "OPEN" /\ order'[k] = "DONE")
    BY <1>1, <2>1 DEF Working
  <2>3. /\ ExchangeInv' /\ StoreInv' /\ Position' = Position
        /\ Protected' = Protected /\ RecordedCloses' = RecordedCloses
        /\ UNCHANGED <<history, recorded, entry, prot, intents>>
    BY <1>1, <2>1, <2>2, QuietStep
  <2>4. PathInv'
    BY <1>1, <2>1, <2>3
  <2> QED BY <2>3, <2>4 DEF CycleInv
<1>6. CASE SeePosition
  <2>1. /\ pc \in {"safe_position", "flat_position"}
        /\ pc' \in {"safe_final", "flat_position", "flat_persist"}
        /\ size' = size \/ size' = [size EXCEPT !["CLOSE"] = Position]
        /\ UNCHANGED <<order, fills, history, amended, missed, storeVars, tries, leg, batch, targets,
                       current, gotFill, capture>>
    BY <1>6 DEF SeePosition, Goto
  <2>2. size' \in [Roles -> 0 .. Qty] /\ size'["ENTRY"] = size["ENTRY"] /\ size'["STOP"] = size["STOP"]
    BY <1>1, <1>2, <2>1
  <2>3. /\ ExchangeInv' /\ StoreInv' /\ Position' = Position
        /\ Protected' = Protected /\ RecordedCloses' = RecordedCloses
        /\ UNCHANGED <<history, recorded, entry, prot, intents>>
    BY <1>1, <2>1, <2>2, QuietStep
  <2>4. PathInv'
    BY <1>1, <2>1, <2>3
  <2> QED BY <2>3, <2>4 DEF CycleInv
<1> QED BY <1>3, <1>4, <1>5, <1>6

-----------------------------------------------------------------------------
(* The invariant of the cycle, and what follows from it *)

LEMMA CycleNext == CycleInv /\ [Next]_vars => CycleInv'
<1> SUFFICES ASSUME CycleInv, [Next]_vars PROVE CycleInv'
  OBVIOUS
<1>1. CASE UNCHANGED vars
  <2>1. UNCHANGED <<exchangeVars, storeVars>> /\ UNCHANGED runnerVars
    BY <1>1 DEF vars
  <2>2. UNCHANGED <<pc, tries, leg, batch, current, targets, gotFill, capture>>
    BY <2>1 DEF runnerVars
  <2>3. PathInv'
    BY <2>1, <2>2, ReadFrame
       DEF CycleInv, PathInv, RunnerTypes, BatchInv, EntryPath, ExitPath, GuardedPath, ClosePath,
           Arrived
  <2> QED BY <2>1, <2>3, ReadFrame DEF CycleInv
<1>2. CASE Exchange
  BY <1>2, CycleExchange
<1>3. CASE RunnerStep
  BY <1>3, ReadingTheEntry, ReadingTheExits, Reconciling, ReadingTheClose, WritingTheEntry,
     CheckingTheEntry, ApplyingAnEntryFill, PersistingAnExit, ConfirmingAnExit, ClosingTheExit,
     ApplyingAnExitFill, PersistingTheClose, RecordingAClose, ApplyingAClose, Placing,
     CallingTheExchange
     DEF RunnerStep
<1>4. CASE Raise \/ Crash \/ Boot
  BY <1>4, FailingAndStarting
<1> QED BY <1>1, <1>2, <1>3, <1>4 DEF Next

\* The invariant holds of every run, whatever the quantity and the bound of the
\* polling loops.
THEOREM CycleAlways == Spec => []CycleInv
<1>1. Init => CycleInv
  BY CycleInit
<1>2. CycleInv /\ [Next]_vars => CycleInv'
  BY CycleNext
<1> QED BY <1>1, <1>2, PTL DEF Spec

LEMMA StoreFollows == CycleInv => StoreIsAhead
<1> SUFFICES ASSUME CycleInv PROVE StoreIsAhead
  OBVIOUS
<1>1. ExchangeInv /\ FillsInv /\ EntryInv /\ ProtectionInv /\ IntentBeforeOrder
      /\ recorded \subseteq history /\ intents \subseteq Roles
      /\ RunnerTypes /\ BatchInv
  BY DEF CycleInv, ExchangeInv, StoreInv, PathInv
<1>2. Protected => prot \in Protections
                   /\ prot.tp + prot.stop + prot.open = prot.qty
                   /\ (prot.state \in {"CANCEL_PENDING", "CLOSED_TP", "CLOSED_STOP"} => prot.open = 0)
                   /\ (prot.state = "CANCEL_PENDING" => prot.pending # "NONE")
  BY <1>1 DEF ProtectionInv, SnapshotOK
<1>3. TypeOK
  BY <1>1, <1>2 DEF TypeOK, ExchangeInv, FillsInv, EntryInv, RunnerTypes, BatchInv, Labels
<1>4. FillsAreBooked
  BY <1>1 DEF FillsAreBooked, EntryInv, ProtectionInv, Booked, RecordedCloses
<1> QED BY <1>1, <1>3, <1>4 DEF StoreIsAhead

\* The durable tables are a valid account of the past at every crash point: every
\* snapshot passes its own checks, every order the exchange has or may still get
\* has its intent on record, and the snapshots add up to the recorded executions
\* however often those are polled.
THEOREM StoreAlwaysAhead == Spec => []StoreIsAhead
BY CycleAlways, StoreFollows, PTL

\* While the cycle trusts its protection, its stop works on the exchange for the
\* whole short position, unless the triggered stop itself dropped part of it:
\* neither a lost or late answer nor a fill of the take-profit in between leaves
\* a trusted position without its stop (install_after_entry confirms the stop, an
\* order for the booked entry, before it trusts it).
THEOREM ProtectionIsReal == Spec => []ProtectedMeansStop
<1>1. CycleInv => ProtectedMeansStop
  <2> SUFFICES ASSUME CycleInv, pc \in InCycle, Protected, prot.state = "ACTIVE_PROTECTED",
                      Position > 0, ~missed
               PROVE  StopCoversPosition
    BY DEF ProtectedMeansStop
  <2>1. Working("STOP")
    BY TotalsNat DEF CycleInv, PathInv, GuardedPath, StopHolds, Working
  <2>2. size["STOP"] = EntryTotal
    BY <2>1 DEF CycleInv, StoreInv, ProtectionInv, EntryInv, Working
  <2>3. Filled("STOP") <= ClosedTotal
    <3>1. fills \in SUBSET fills /\ {"STOP"} \subseteq NonEntry
      BY DEF NonEntry, Roles, Exits
    <3>2. Total(OfRole(fills, {"STOP"})) <= Total(OfRole(fills, NonEntry))
      BY <3>1, TotalsNat, RoleTotalSubset DEF CycleInv
    <3> QED BY <3>2 DEF Filled, ClosedTotal
  <2>4. EntryTotal - ClosedTotal <= EntryTotal - Filled("STOP")
    <3>1. EntryTotal \in Nat /\ ClosedTotal \in Nat /\ Filled("STOP") \in Nat
      BY TotalsNat DEF CycleInv, Roles, Exits
    <3> QED BY <2>3, <3>1
  <2> QED BY <2>1, <2>2, <2>4, PositionIs DEF StopCoversPosition
<1> QED BY <1>1, CycleAlways, PTL

\* At the end of a cycle the recorded executions are all there are: the entry is
\* booked in full, and the booked exits make up the whole position.
LEMMA DoneIsFlat == CycleInv => DoneMeansFlat
<1> SUFFICES ASSUME CycleInv, pc = "done"
             PROVE  /\ Position = 0
                    /\ \A r \in Roles : order[r] \in {"NONE", "DONE"}
                    /\ fills = recorded
                    /\ prot.state \in {"CLOSED_TP", "CLOSED_STOP"}
  BY DEF DoneMeansFlat
<1>1. ExchangeInv /\ FillsInv /\ EntryInv /\ ProtectionInv
  BY DEF CycleInv, ExchangeInv, StoreInv
<1>2. /\ Protected /\ prot.state \in {"CLOSED_TP", "CLOSED_STOP"} /\ Position = 0 /\ BothDone
      /\ order["CLOSE"] = "NONE" /\ RecordedCloses = {}
  BY DEF CycleInv, PathInv, GuardedPath, Guarded, ClosePath
<1>3. /\ SnapshotOK(prot) /\ prot.open = 0 /\ prot.qty \in Nat
      /\ prot.qty = Total(OfRole(recorded, Exits))
      /\ order["ENTRY"] = "DONE" /\ EntryTotal = prot.qty
      /\ prot.qty = Total(OfRole(recorded, {"ENTRY"}))
  <2>1. SnapshotOK(prot) /\ Booked(prot) /\ prot.qty = entry.filled /\ entry.state = "ACTIVE_UNPROTECTED"
    BY <1>1, <1>2 DEF ProtectionInv
  <2>2. prot.open = 0 /\ prot.qty \in Nat
    BY <1>2, <2>1, SnapshotProtects DEF SnapshotOK
  <2>3. prot.qty - prot.open = Total(OfRole(recorded, Exits))
    BY <1>2, <2>1 DEF Booked
  <2>4. prot.qty - 0 = prot.qty
    BY <2>2
  <2> QED BY <1>1, <2>1, <2>2, <2>3, <2>4 DEF EntryInv
<1>4. \A r \in Roles : order[r] \in {"NONE", "DONE"}
  BY <1>2, <1>3 DEF Roles, Exits, BothDone
<1>5. /\ fills \subseteq Lots /\ IsFiniteSet(fills) /\ recorded \in SUBSET fills
      /\ \A e \in fills : e.qty > 0 /\ e.role \in Roles
  BY <1>1, TotalsNat, RecordedLots, ExecutionConstants DEF FillsInv, Executions
<1>6. ASSUME NEW R, NEW Q, Q \subseteq R,
             Total(OfRole(fills, R)) <= Total(OfRole(recorded, Q))
      PROVE  OfRole(recorded, Q) = OfRole(fills, R)
  <2>1. IsFiniteSet(OfRole(fills, R)) /\ OfRole(fills, R) \subseteq Lots
    BY <1>5, RoleTotalNat
  <2>2. OfRole(recorded, Q) \in SUBSET OfRole(fills, R) /\ \A e \in OfRole(fills, R) : e.qty > 0
    BY <1>5, <1>6 DEF OfRole
  <2> QED BY <1>6, <2>1, <2>2, TotalWhole
<1>7. EntryTotal \in Nat /\ ClosedTotal \in Nat /\ Position = EntryTotal - ClosedTotal
  BY <1>1, TotalsNat, PositionIs
<1>8. OfRole(recorded, {"ENTRY"}) = OfRole(fills, {"ENTRY"})
  <2>1. Total(OfRole(fills, {"ENTRY"})) <= Total(OfRole(recorded, {"ENTRY"}))
    BY <1>3, <1>7 DEF EntryTotal
  <2> QED BY <1>6, <2>1
<1>9. OfRole(recorded, Exits) = OfRole(fills, NonEntry)
  <2>1. ClosedTotal = EntryTotal
    BY <1>2, <1>7
  <2>2. Total(OfRole(fills, NonEntry)) <= Total(OfRole(recorded, Exits))
    <3>1. Total(OfRole(recorded, Exits)) = EntryTotal
      BY <1>3
    <3>2. EntryTotal <= EntryTotal
      BY <1>7
    <3>3. Total(OfRole(fills, NonEntry)) = EntryTotal
      BY <2>1 DEF ClosedTotal
    <3> QED BY <3>1, <3>2, <3>3
  <2>3. Exits \subseteq NonEntry
    BY DEF Exits, NonEntry, Roles
  <2> QED BY <1>6, <2>2, <2>3
<1>10. fills = recorded
  <2> SUFFICES ASSUME NEW e \in fills PROVE e \in recorded
    BY <1>5
  <2>1. e.role = "ENTRY" \/ e.role \in NonEntry
    BY <1>5 DEF NonEntry
  <2>2. e \in OfRole(fills, {"ENTRY"}) \/ e \in OfRole(fills, NonEntry)
    BY <2>1 DEF OfRole
  <2> QED BY <1>8, <1>9, <2>2 DEF OfRole
<1> QED BY <1>2, <1>4, <1>10

\* A cycle that reports success has left nothing behind: no position, no order
\* working or on its way, and every execution booked under a closed level.
THEOREM SuccessIsFlat == Spec => []DoneMeansFlat
BY CycleAlways, DoneIsFlat, PTL

-----------------------------------------------------------------------------
(* The startup gate: BootInv *)

Starting == {"boot_apply", "boot_capture", "admitted"}

\* Of the recorded closes, those no longer in hand have left the books.
BooksInv ==
  /\ pc = "boot_apply" /\ Protected =>
       \/ prot.open = 0
       \/ prot.qty - prot.open >= Total(OfRole(recorded, Exits)) + Total(RecordedCloses \ batch)
  /\ RecordedClosesAreBooked

\* On an exchange at rest, what the gate has read is still so.
CalmInv ==
  /\ calm => Settled /\ pc \in Starting
  /\ pc = "boot_apply" => DOMAIN capture = {}
  /\ calm /\ pc = "boot_capture" => \A s \in DOMAIN capture : capture[s] = SurfaceValue(s)
  /\ calm /\ pc = "admitted" => Position = 0 /\ fills = recorded

BootInv == CycleInv /\ BooksInv /\ CalmInv

\* The only steps of the runner that stay in the start or enter it.
LEMMA StartingSteps ==
  ASSUME RunnerStep, pc' \in Starting
  PROVE  ApplyRecordedClose \/ RecordedClosesApplied \/ (\E s \in Surfaces : ReadSurface(s)) \/ Reconcile
<1> USE DEF Starting, Goto, GotoLoop, Again, Failed
<1>1. ~(PersistEntry \/ SubmitEntry \/ PlaceEntry \/ LookupEntry \/ AckEntry \/ EntryNotPlaced)
  BY DEF PersistEntry, SubmitEntry, PlaceEntry, LookupEntry, AckEntry, EntryNotPlaced
<1>2. ~(FetchEntryFills \/ ApplyEntryFill \/ EntryFillsApplied \/ CheckEntryOrder \/ CheckEntryPosition)
  BY DEF FetchEntryFills, FetchFills, ApplyEntryFill, EntryFillsApplied, CheckEntryOrder,
         CheckEntryPosition
<1>3. ~(PersistExit \/ PlaceExit \/ SeeExit \/ ConfirmExit \/ DoubtExit \/ CheckProtectedPosition)
  BY DEF PersistExit, PlaceExit, SeeExit, ConfirmExit, DoubtExit, CheckProtectedPosition
<1>4. ~(Amend \/ FetchExitFills \/ ApplyExitFill \/ ExitFillsApplied)
  BY DEF Amend, FetchExitFills, FetchFills, ApplyExitFill, ExitFillsApplied
<1>5. ~(ListExitOrders \/ CancelExit \/ ExitsCancelled \/ CloseExit)
  BY DEF ListExitOrders, CancelExit, ExitsCancelled, CloseExit
<1>6. ~(CancelAll \/ SeePosition \/ PersistClose \/ PlaceClose \/ LookupClose)
  BY DEF CancelAll, SeePosition, PersistClose, PlaceClose, LookupClose
<1>7. ~(FetchCloseFills \/ RecordCloseFill \/ ApplyCloseFill \/ CloseFillsApplied)
  BY DEF FetchCloseFills, FetchFills, RecordCloseFill, ApplyCloseFill, CloseFillsApplied
<1> QED BY <1>1, <1>2, <1>3, <1>4, <1>5, <1>6, <1>7 DEF RunnerStep

\* The closes of a level are its exits and its emergency closes.
LEMMA ClosingTotals ==
  ASSUME CycleInv
  PROVE  /\ Total(OfRole(recorded, NonEntry)) = Total(OfRole(recorded, Exits)) + Total(RecordedCloses)
         /\ Total(OfRole(recorded, NonEntry)) \in Nat
         /\ Protected => Total(OfRole(recorded, NonEntry)) <= prot.qty
<1>1. recorded \subseteq Lots /\ IsFiniteSet(recorded) /\ recorded \in SUBSET fills
      /\ fills \subseteq Lots /\ IsFiniteSet(fills) /\ ExchangeInv
  BY RecordedLots, TotalsNat DEF CycleInv
<1>2. /\ OfRole(recorded, NonEntry) = OfRole(recorded, Exits) \cup RecordedCloses
      /\ OfRole(recorded, Exits) \subseteq recorded /\ RecordedCloses \subseteq recorded
      /\ OfRole(recorded, Exits) \cap RecordedCloses = {}
  BY DEF OfRole, RecordedCloses, NonEntry, Roles, Exits
<1>3. Total(OfRole(recorded, Exits) \cup RecordedCloses)
        = Total(OfRole(recorded, Exits)) + Total(RecordedCloses)
  BY <1>1, <1>2, TotalUnion
<1>4. Total(OfRole(recorded, NonEntry)) \in Nat
  BY <1>1, RoleTotalNat
<1>5. ASSUME Protected PROVE Total(OfRole(recorded, NonEntry)) <= prot.qty
  <2>1. EntryTotal = prot.qty
    BY <1>5 DEF CycleInv, StoreInv, ProtectionInv, EntryInv
  <2>2. ClosedTotal <= EntryTotal /\ ClosedTotal \in Nat /\ EntryTotal \in Nat
    BY <1>1, TotalsNat DEF ExchangeInv, FillsInv
  <2>3. Total(OfRole(recorded, NonEntry)) <= ClosedTotal
    BY <1>1, RoleTotalSubset DEF ClosedTotal
  <2>4. Total(OfRole(recorded, NonEntry)) <= EntryTotal
    BY <1>4, <2>2, <2>3
  <2> QED BY <2>1, <2>4
<1> QED BY <1>2, <1>3, <1>4, <1>5

LEMMA BooksApply ==
  ASSUME CycleInv, BooksInv, ApplyRecordedClose, pc' = "boot_apply"
  PROVE  BooksInv'
<1> DEFINE e == First(batch)
           left == RecordedCloses \ batch
<1>1. pc = "boot_apply" /\ batch # {} /\ EmergencyExit(e)
      /\ UNCHANGED <<exchangeVars, intents, recorded>>
      /\ batch' = IF Unallocated(e) THEN {} ELSE batch \ {e}
  BY DEF ApplyRecordedClose
<1>2. batch \subseteq RecordedCloses /\ batch \subseteq history
  BY <1>1 DEF CycleInv, PathInv, BatchInv
<1>3. e \in batch
  BY <1>1, <1>2, RecordedLots, FirstIsElement
<1>4. e \in RecordedCloses /\ e \notin left
  BY <1>2, <1>3
<1> HIDE DEF e
<1>5. /\ Protected' = Protected /\ RecordedCloses' = RecordedCloses
      /\ Protected =>
           /\ entry' = entry /\ prot'.qty = prot.qty
           /\ prot'.open = 0 \/ prot'.open = prot.open - e.qty
  BY <1>1, <1>4, EmergencyExitStep
<1> SUFFICES ASSUME Protected, prot'.open # 0
             PROVE  prot'.qty - prot'.open
                      >= Total(OfRole(recorded', Exits)) + Total(RecordedCloses' \ batch')
  BY <1>5 DEF BooksInv, RecordedClosesAreBooked
<1>6. prot'.open = prot.open - e.qty /\ prot'.qty = prot.qty /\ recorded' = recorded
  BY <1>1, <1>5
<1>7. RecordedCloses' \ batch' = left \cup {e}
  <2>1. batch' = batch \ {e}
    BY <1>1 DEF Unallocated
  <2> QED BY <1>4, <1>5, <2>1
<1>8. /\ recorded \subseteq Lots /\ IsFiniteSet(recorded) /\ RecordedCloses \subseteq recorded
      /\ Total(OfRole(recorded, Exits)) \in Nat
  BY RecordedLots, RoleTotalNat DEF RecordedCloses, OfRole
<1>9. left \subseteq Lots /\ IsFiniteSet(left) /\ e \in Lots
  BY <1>4, <1>8, FS_Subset
<1>10. prot.open \in 0 .. Qty /\ prot.qty \in 1 .. Qty /\ e.qty \in 1 .. Qty /\ Qty \in Nat
  <2>1. SnapshotOK(prot)
    BY DEF CycleInv, StoreInv, ProtectionInv
  <2>2. e \in Executions
    BY <1>2, <1>3, RecordedLots
  <2> QED BY <2>1, <2>2, SnapshotProtects, ExecutionConstants DEF Executions
<1>11. prot.open # 0 \/ prot'.open # 0 - e.qty
  <2>1. prot'.open \in Nat
    <3>1. CycleInv'
      BY ApplyingAClose
    <3>2. SnapshotOK(prot)'
      BY <1>5, <3>1 DEF CycleInv, StoreInv, ProtectionInv
    <3>3. prot'.open \in 0 .. Qty
      BY <3>2 DEF SnapshotOK, Protections
    <3> QED BY <3>3, ExecutionConstants
  <2> QED BY <1>10, <2>1
<1>12. prot.qty - prot.open >= Total(OfRole(recorded, Exits)) + Total(left)
  BY <1>1, <1>6, <1>11 DEF BooksInv
<1> HIDE DEF left
<1>13. Total(left \cup {e}) = Total(left) + e.qty /\ Total(left) \in Nat
  BY <1>4, <1>9, TotalAdd
<1>14. prot'.qty - prot'.open >= Total(OfRole(recorded, Exits)) + Total(left \cup {e})
  BY <1>6, <1>8, <1>10, <1>12, <1>13
<1> QED BY <1>6, <1>7, <1>14

LEMMA BooksNext ==
  ASSUME CycleInv, BooksInv, [Next]_vars
  PROVE  BooksInv'
<1>1. CASE pc' \notin Starting
  BY <1>1 DEF BooksInv, RecordedClosesAreBooked, Starting
<1>2. CASE UNCHANGED storeVars /\ pc' = pc /\ batch' = batch
  <2>1. UNCHANGED <<recorded, prot, entry, intents>> /\ Protected' = Protected
    BY <1>2 DEF storeVars, Protected
  <2> QED BY <1>2, <2>1 DEF BooksInv, RecordedClosesAreBooked, RecordedCloses
<1>3. CASE UNCHANGED vars
  BY <1>2, <1>3 DEF vars, runnerVars
<1>4. CASE Exchange
  <2>1. UNCHANGED <<storeVars, runnerVars>>
    BY <1>4, ExchangeMoves DEF CycleInv
  <2> QED BY <1>2, <2>1 DEF runnerVars
<1>5. CASE Raise \/ Crash
  BY <1>1, <1>5 DEF Raise, Crash, Leave, Fresh, Failed, Starting
<1>6. CASE Boot
  <2>1. pc' = "boot_apply" /\ batch' = RecordedCloses /\ UNCHANGED <<exchangeVars, storeVars>>
    BY <1>6 DEF Boot, Fresh
  <2>2. UNCHANGED <<recorded, prot>> /\ Protected' = Protected /\ RecordedCloses' = RecordedCloses
    BY <2>1, ReadFrame
  <2>3. Total(RecordedCloses' \ batch') = 0
    <3>1. RecordedCloses' \ batch' = {}
      BY <2>1, <2>2
    <3> QED BY <3>1, TotalEmpty
  <2>4. ASSUME Protected
        PROVE  prot.qty - prot.open >= Total(OfRole(recorded, Exits)) + 0
    <3>1. prot.qty - prot.open >= Total(OfRole(recorded, Exits))
      BY <2>4 DEF CycleInv, StoreInv, ProtectionInv, Booked
    <3>2. Total(OfRole(recorded, Exits)) \in Nat
      BY RecordedLots, RoleTotalNat
    <3> QED BY <3>1, <3>2
  <2>5. Protected => prot'.qty - prot'.open >= Total(OfRole(recorded', Exits)) + Total(RecordedCloses' \ batch')
    BY <2>2, <2>3, <2>4
  <2> QED BY <2>1, <2>2, <2>5 DEF BooksInv, RecordedClosesAreBooked
<1>7. CASE RunnerStep /\ pc' \in Starting
  <2>1. CASE ApplyRecordedClose
    <3>1. pc' = "boot_apply"
      BY <1>7, <2>1 DEF ApplyRecordedClose, Starting
    <3> QED BY <2>1, <3>1, BooksApply
  <2>2. CASE RecordedClosesApplied
    <3>1. pc = "boot_apply" /\ batch = {} /\ pc' = "boot_capture" /\ UNCHANGED <<exchangeVars, storeVars>>
      BY <2>2 DEF RecordedClosesApplied, Goto
    <3>2. UNCHANGED <<recorded, prot>> /\ Protected' = Protected
      BY <3>1, ReadFrame
    <3>3. ASSUME Protected PROVE prot.qty - prot.open >= Total(OfRole(recorded, NonEntry))
      <4>1. CASE prot.open = 0
        <5>1. prot.qty \in Nat
          BY <3>3, SnapshotProtects, ExecutionConstants DEF CycleInv, StoreInv, ProtectionInv
        <5>2. Total(OfRole(recorded, NonEntry)) <= prot.qty /\ Total(OfRole(recorded, NonEntry)) \in Nat
          BY <3>3, ClosingTotals
        <5> QED BY <4>1, <5>1, <5>2
      <4>2. CASE prot.qty - prot.open >= Total(OfRole(recorded, Exits)) + Total(RecordedCloses \ batch)
        <5>1. RecordedCloses \ batch = RecordedCloses
          BY <3>1
        <5> QED BY <4>2, <5>1, ClosingTotals
      <4> QED BY <3>1, <3>3, <4>1, <4>2 DEF BooksInv
    <3> QED BY <3>1, <3>2, <3>3 DEF BooksInv, RecordedClosesAreBooked, NonEntry
  <2>3. CASE \E s \in Surfaces : ReadSurface(s)
    BY <1>2, <2>3 DEF ReadSurface
  <2>4. CASE Reconcile
    <3>1. pc' = "admitted" /\ pc = "boot_capture" /\ UNCHANGED <<exchangeVars, storeVars>>
      BY <1>7, <2>4 DEF Reconcile, Verdict, Capturing, Failed, Starting
    <3>2. UNCHANGED <<recorded, prot>> /\ Protected' = Protected
      BY <3>1, ReadFrame
    <3> QED BY <3>1, <3>2 DEF BooksInv, RecordedClosesAreBooked
  <2> QED BY <1>7, <2>1, <2>2, <2>3, <2>4, StartingSteps
<1> QED BY <1>1, <1>3, <1>4, <1>5, <1>6, <1>7 DEF Next

\* An exchange at rest has no step to take.
LEMMA SettledIsStill == Settled => ~Exchange
BY DEF Settled, Exchange, Arrive, Vanish, Expire, Fill, Publish

\* What the gate compares does not change while the exchange and the store do not.
LEMMA SurfacesHold ==
  ASSUME UNCHANGED <<exchangeVars, storeVars>>
  PROVE  \A s : SurfaceValue(s)' = SurfaceValue(s)
<1>1. UNCHANGED <<order, fills, history, recorded>>
  BY DEF exchangeVars, storeVars
<1>2. Position' = Position
  BY <1>1 DEF Position, Filled
<1> QED BY <1>1, <1>2 DEF SurfaceValue, Known

LEMMA CalmNext ==
  ASSUME CycleInv, CalmInv, [MCNext]_<<vars, calm>>
  PROVE  CalmInv'
<1>1. CASE UNCHANGED <<vars, calm>>
  <2>1. UNCHANGED <<exchangeVars, storeVars, pc, capture, calm>>
    BY <1>1 DEF vars, runnerVars
  <2>2. UNCHANGED <<order, history, fills, recorded, Position>> /\ \A s : SurfaceValue(s)' = SurfaceValue(s)
    BY <2>1, ReadFrame, SurfacesHold DEF exchangeVars
  <2> QED BY <2>1, <2>2 DEF CalmInv, Settled
<1>2. CASE MCNext
  <2>1. Next /\ calm' = IF pc \in Ended /\ pc' = "boot_apply" THEN Settled
                        ELSE calm /\ pc' \in InBoot \cup {"admitted"}
    BY <1>2 DEF MCNext
  <2>2. calm => Settled /\ pc \in Starting
    BY DEF CalmInv
  <2>3. CASE Exchange
    <3>1. pc' = pc /\ capture' = capture
      BY <2>3, ExchangeMoves DEF CycleInv, runnerVars
    <3>2. ~calm'
      BY <2>1, <2>2, <2>3, <3>1, SettledIsStill DEF Ended
    <3> QED BY <3>1, <3>2 DEF CalmInv
  <2>4. CASE Raise \/ Crash
    <3>1. pc' \notin Starting
      BY <2>4 DEF Raise, Crash, Leave, Fresh, Failed, Starting
    <3>2. ~calm'
      BY <2>1, <3>1 DEF Starting, InBoot
    <3> QED BY <3>1, <3>2 DEF CalmInv, Starting
  <2>5. CASE Boot
    <3>1. pc' = "boot_apply" /\ capture' = NothingRead /\ UNCHANGED <<exchangeVars, storeVars>>
          /\ pc \in Ended
      BY <2>5 DEF Boot, Fresh
    <3>2. calm' = Settled /\ Settled' = Settled
      BY <2>1, <3>1 DEF Settled, exchangeVars
    <3> QED BY <3>1, <3>2, NothingIsRead DEF CalmInv, Starting
  <2>6. CASE RunnerStep /\ pc' \notin Starting
    <3>1. ~calm'
      BY <2>1, <2>6 DEF Starting, InBoot
    <3> QED BY <2>6, <3>1 DEF CalmInv, Starting
  <2>7. CASE RunnerStep /\ pc' \in Starting
    <3>1. /\ ApplyRecordedClose \/ RecordedClosesApplied \/ (\E s \in Surfaces : ReadSurface(s)) \/ Reconcile
          /\ UNCHANGED exchangeVars
      <4>1. ApplyRecordedClose \/ RecordedClosesApplied \/ (\E s \in Surfaces : ReadSurface(s)) \/ Reconcile
        BY <2>7, StartingSteps
      <4> QED BY <4>1 DEF ApplyRecordedClose, RecordedClosesApplied, ReadSurface, Reconcile
    <3>2. pc \in {"boot_apply", "boot_capture"}
      <4>1. CASE \E s \in Surfaces : ReadSurface(s)
        BY <2>7, <4>1 DEF ReadSurface, Capturing, Starting
      <4>2. CASE Reconcile
        BY <2>7, <4>2 DEF Reconcile, Verdict, Capturing, Failed, Starting
      <4> QED BY <3>1, <4>1, <4>2 DEF ApplyRecordedClose, RecordedClosesApplied
    <3>3. calm' => calm
      BY <2>1, <3>2 DEF Ended
    <3>4. calm' => Settled' /\ pc' \in Starting
      BY <2>2, <2>7, <3>1, <3>3 DEF Settled, exchangeVars
    <3>5. CASE ApplyRecordedClose
      <4>1. pc = "boot_apply" /\ pc' = "boot_apply" /\ capture' = capture
        BY <2>7, <3>5 DEF ApplyRecordedClose, Starting
      <4> QED BY <3>4, <4>1 DEF CalmInv
    <3>6. CASE RecordedClosesApplied
      <4>1. pc = "boot_apply" /\ pc' = "boot_capture" /\ capture' = capture
        BY <3>6 DEF RecordedClosesApplied, Goto
      <4> QED BY <3>4, <4>1 DEF CalmInv
    <3>7. CASE \E s \in Surfaces : ReadSurface(s)
      <4>1. PICK s \in Surfaces : ReadSurface(s)
        BY <3>7
      <4>2. /\ pc = "boot_capture" /\ pc' = pc /\ UNCHANGED <<exchangeVars, storeVars>>
            /\ capture' = [t \in DOMAIN capture \cup {s} |-> IF t = s THEN SurfaceValue(s) ELSE capture[t]]
        BY <3>2, <4>1 DEF ReadSurface, Capturing
      <4>3. \A t : SurfaceValue(t)' = SurfaceValue(t)
        BY <4>2, SurfacesHold
      <4>4. ASSUME calm, NEW t \in DOMAIN capture' PROVE capture'[t] = SurfaceValue(t)'
        BY <4>2, <4>3, <4>4 DEF CalmInv
      <4> QED BY <3>3, <3>4, <4>2, <4>4 DEF CalmInv
    <3>8. CASE Reconcile
      <4>1. /\ pc = "boot_capture" /\ pc' = "admitted" /\ DOMAIN capture = Surfaces
            /\ Matched /\ capture["position"] = 0 /\ UNCHANGED <<exchangeVars, storeVars>>
        BY <2>7, <3>8 DEF Reconcile, Verdict, Capturing, Failed, Starting
      <4>2. UNCHANGED <<fills, recorded, Position>>
        BY <4>1, ReadFrame DEF exchangeVars
      <4>3. ASSUME calm PROVE Position = 0 /\ fills = recorded
        <5>1. capture["position"] = SurfaceValue("position") /\ capture["executions"] = SurfaceValue("executions")
          BY <4>1, <4>3 DEF CalmInv, Surfaces
        <5>2. SurfaceValue("position") = Position /\ SurfaceValue("executions") = (history \subseteq recorded)
          BY DEF SurfaceValue
        <5>3. history \subseteq recorded
          BY <4>1, <5>1, <5>2 DEF Matched, ExecutionsKnown
        <5>4. recorded \subseteq history /\ history = fills
          BY <2>2, <4>3 DEF CycleInv, StoreInv, Settled
        <5> QED BY <4>1, <5>1, <5>2, <5>3, <5>4
      <4> QED BY <3>3, <3>4, <4>1, <4>2, <4>3 DEF CalmInv
    <3> QED BY <3>1, <3>5, <3>6, <3>7, <3>8
  <2> QED BY <2>1, <2>3, <2>4, <2>5, <2>6, <2>7 DEF Next
<1> QED BY <1>1, <1>2

\* The startup gate, however the last run ended: a close that was recorded and not
\* yet applied has left the books before the first reconciliation; and on an
\* exchange at rest an admitted start finds no position, no order and no execution
\* that is not recorded (_apply_recorded_emergency_exits and
\* evaluate_startup_reconciliation).
THEOREM GateAdmitsReconciled == MCSpec => []AdmittedIsReconciled
<1>1. MCInit => BootInv
  <2> SUFFICES ASSUME MCInit PROVE BootInv
    OBVIOUS
  <2>1. Init /\ calm = FALSE /\ pc = "persist_entry"
    BY DEF MCInit, Init
  <2>2. CycleInv
    BY <2>1, CycleInit
  <2> QED BY <2>1, <2>2 DEF BootInv, BooksInv, CalmInv, RecordedClosesAreBooked
<1>2. BootInv /\ [MCNext]_<<vars, calm>> => BootInv'
  <2> SUFFICES ASSUME BootInv, [MCNext]_<<vars, calm>> PROVE BootInv'
    OBVIOUS
  <2>1. [Next]_vars
    BY DEF MCNext
  <2>2. CycleInv'
    BY <2>1, CycleNext DEF BootInv
  <2>3. BooksInv'
    BY <2>1, BooksNext DEF BootInv
  <2>4. CalmInv'
    BY CalmNext DEF BootInv
  <2> QED BY <2>2, <2>3, <2>4 DEF BootInv
<1>3. BootInv => AdmittedIsReconciled
  BY DEF BootInv, BooksInv, CalmInv, Settled, AdmittedIsReconciled
<1> QED BY <1>1, <1>2, <1>3, PTL DEF MCSpec
=============================================================================
