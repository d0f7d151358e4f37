-------------------------- MODULE ExecutionLedger --------------------------
(***************************************************************************)
(* What the execution store promises its callers, without versions,         *)
(* connections or locks: an order intent is accepted once, a snapshot is    *)
(* opened together with the intent it belongs to, an execution enters the   *)
(* books once and in the same instant as the quantity of its snapshot, and  *)
(* a change of a recovery debt is added to the debt as it then is.          *)
(***************************************************************************)
EXTENDS Integers

CONSTANTS Keys, Links, Executions, Postings, Parent, KeyOf, Quantity, None

VARIABLES intents, acknowledged, booked, posted, opened, total

ledgerVars == <<intents, acknowledged, booked, posted, opened, total>>

LedgerInit ==
  /\ intents = {} /\ acknowledged = {} /\ booked = {} /\ posted = {}
  /\ opened = {} /\ total = [k \in Keys |-> 0]

Intend(l) ==
  /\ l \notin intents
  /\ intents' = intents \cup {l}
  /\ UNCHANGED <<acknowledged, booked, posted, opened, total>>

\* An intent and the snapshot it opens.
Open(k, l) ==
  /\ l \notin intents /\ k \notin opened
  /\ intents' = intents \cup {l}
  /\ Parent[k] = None \/ Parent[k] \in intents'
  /\ opened' = opened \cup {k}
  /\ UNCHANGED <<acknowledged, booked, posted, total>>

Acknowledge(l) ==
  /\ l \in intents
  /\ acknowledged' = acknowledged \cup {l}
  /\ UNCHANGED <<intents, booked, posted, opened, total>>

\* An execution and the quantity it adds to its snapshot.
Book(x) ==
  /\ x \notin booked /\ KeyOf[x] \in opened
  /\ booked' = booked \cup {x}
  /\ total' = [total EXCEPT ![KeyOf[x]] = @ + Quantity[x]]
  /\ UNCHANGED <<intents, acknowledged, posted, opened>>

\* An execution of an order that has no snapshot.
BookOnly(x) ==
  /\ x \notin booked /\ KeyOf[x] = None
  /\ booked' = booked \cup {x}
  /\ UNCHANGED <<intents, acknowledged, posted, opened, total>>

\* A change of a recovery debt; the first one opens it.
Post(p) ==
  /\ p \notin posted
  /\ posted' = posted \cup {p}
  /\ opened' = opened \cup {KeyOf[p]}
  /\ total' = [total EXCEPT ![KeyOf[p]] = @ + Quantity[p]]
  /\ UNCHANGED <<intents, acknowledged, booked>>

LedgerNext ==
  \/ \E l \in Links : Intend(l) \/ Acknowledge(l) \/ \E k \in Keys : Open(k, l)
  \/ \E x \in Executions : Book(x) \/ BookOnly(x)
  \/ \E p \in Postings : Post(p)

LedgerSpec == LedgerInit /\ [][LedgerNext]_ledgerVars
============================================================================
