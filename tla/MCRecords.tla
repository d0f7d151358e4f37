----------------------------- MODULE MCRecords -----------------------------
(***************************************************************************)
(* What the program writes down, for TLC, in one run: the execution store, *)
(* the event journal, and the books of the simulated exchange.  Each       *)
(* snapshot table of the store is explored by itself, by two writers, and  *)
(* so are the journal and the exchange: instance names the one in use.     *)
(***************************************************************************)
EXTENDS ExecutionStore, Journal, SimulatedExchange, TLC

CONSTANTS entry, exit, option, debt, l1, l2, e1, e2, s1, s2, o1, o2, c1, d1, d2
VARIABLE instance

MCInit ==
  /\ StoreInit /\ JournalInit /\ SimInit
  /\ instance \in {entry, exit, option, debt, "journal", "exchange"}

\* Only calls about the instance's table, or about an order without a snapshot.
Chosen(c) == c = Idle \/ c.key \in {instance, None}

MCNext ==
  \/ /\ instance \in Keys /\ StoreNext /\ UNCHANGED <<journalVars, simVars, instance>>
     /\ \A w \in Writers : Chosen(call'[w])
  \/ instance = "journal" /\ JournalNext /\ UNCHANGED <<storeVars, simVars, instance>>
  \/ instance = "exchange" /\ SimNext /\ UNCHANGED <<storeVars, journalVars, instance>>

MCSpec == MCInit /\ [][MCNext]_<<storeVars, journalVars, simVars, instance>>

MCKeyOf == [i \in Executions \cup Postings |->
  CASE i \in {e1, e2} -> entry [] i \in {s1, s2} -> exit [] i \in {o1, o2} -> option
    [] i \in {d1, d2} -> debt [] i = c1 -> None]
MCQuantity == [i \in Executions \cup Postings |-> IF i \in {e1, s1, o1, d1} THEN 1 ELSE 2]
MCParent == [k \in Keys |-> IF k \in {entry, exit} THEN l1 ELSE None]

\* Writers, and simulated levels, differ in nothing but their names.
MCSymmetry == Permutations(Writers) \cup Permutations(Levels)
============================================================================
