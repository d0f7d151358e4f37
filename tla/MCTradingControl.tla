--------------------------- MODULE MCTradingControl ---------------------------
(***************************************************************************)
(* Several levels at once, for TLC, in one run.  Two instances of          *)
(* TradingControl: the coordinator against the commands of one operator,   *)
(* and the commands of two operators at once while no price moves.  A      *)
(* third, of MultiLevelRun: the cycle of the levels that were entered.     *)
(***************************************************************************)
EXTENDS TradingControl, MultiLevelRun

CONSTANTS First, Second \* the two calls
VARIABLE instance

MCEntryPrice == [l \in Levels |-> 3 - l]
MCPrices == {1, 3}
MCHandlerOf == [m \in Commands |->
  CASE m = "c" -> "CLOSE" [] m = "r" -> "RESUME" [] m = "f" -> "FLATTEN"]

OneOperator ==
  /\ call'[Second] = Idle
  /\ call'[First] # Idle => call'[First].cmd # "c"

MCInit == Init /\ RunInit /\ instance \in {"gate", "commands", "levels"}
ControlNext ==
  /\ Next /\ UNCHANGED <<runVars, instance>>
  /\ instance = "gate" => OneOperator
  /\ instance = "commands" => generation' = 0
RunEnded == step \in {"done", "raised"} /\ UNCHANGED <<vars, runVars, instance>>
MCNext ==
  \/ instance # "levels" /\ ControlNext
  \/ instance = "levels" /\ RunNext /\ UNCHANGED <<vars, instance>>
  \/ instance = "levels" /\ RunEnded

MCSpec ==
  /\ MCInit /\ [][MCNext]_<<vars, runVars, instance>>
  /\ \A c \in Calls : WF_vars(CallStep(c))
  /\ WF_runVars(instance = "levels" /\ RunnerMoves)
=============================================================================
