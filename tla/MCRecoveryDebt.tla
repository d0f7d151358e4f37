---------------------------- MODULE MCRecoveryDebt ----------------------------
(* Instances of RecoveryDebt for TLC. *)
EXTENDS RecoveryDebt

MCLosses == {0, 1, 2}
MCProfits == {-1, 0, 1, 2, 3}
=============================================================================
