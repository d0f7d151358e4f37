--------------------------- MODULE MCLevelExecution ---------------------------
(***************************************************************************)
(* Model checking of LevelExecution.  Two lots are the least quantity that *)
(* can be filled in parts, and two attempts the least bound with which a   *)
(* polling loop both repeats and gives up.  calm remembers, while the      *)
(* runner starts, that it was started on an exchange at rest: the code has *)
(* nothing of the kind, and the start itself does not wait for it.         *)
(***************************************************************************)
EXTENDS LevelExecution

VARIABLE calm

\* No order is working or on its way and every execution is published.
Settled == (\A r \in Roles : order[r] \in {"NONE", "DONE"}) /\ history = fills

MCInit == Init /\ calm = FALSE
MCNext ==
  /\ Next
  /\ calm' = IF pc \in Ended /\ pc' = "boot_apply" THEN Settled
             ELSE calm /\ pc' \in InBoot \cup {"admitted"}

\* The event loop keeps running the coroutine while it has a step to take;
\* nothing is assumed of the exchange, of failures or of restarts.
MCSpec == MCInit /\ [][MCNext]_<<vars, calm>> /\ WF_runnerVars(RunnerStep)

\* The startup gate.  However the last run ended, a close recorded and not yet
\* applied has left the books before the first reconciliation; and once the
\* exchange has settled, a start that is admitted finds no position, no order and
\* no execution it has not recorded.
AdmittedIsReconciled ==
  /\ RecordedClosesAreBooked
  /\ pc = "admitted" /\ calm =>
       /\ Position = 0
       /\ \A r \in Roles : order[r] \in {"NONE", "DONE"}
       /\ fills = recorded

\* Every polling loop and every error path ends: a run of the runner comes to
\* an end, crashed, halted, refused, done or admitted to the next cycle.
RunnerComesToRest == []<>(pc \in Ended \cup {"admitted"})
=============================================================================
