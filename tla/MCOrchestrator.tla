--------------------------- MODULE MCOrchestrator ---------------------------
(***************************************************************************)
(* Instances of Orchestrator for TLC.  The tools stand for the kinds the   *)
(* code tells apart: one the policy allows, one to confirm, one to confirm *)
(* that is critical, one RED, one the policy does not know and one it      *)
(* knows that is not registered; "shutdown" is the shutdown tool.          *)
(***************************************************************************)
EXTENDS Orchestrator, TLC

ToolTier ==
    [green |-> "GREEN", orange |-> "ORANGE", critical |-> "ORANGE",
     red |-> "RED", unknown |-> "GREEN", absent |-> "GREEN", shutdown |-> "ORANGE"]

MCTier == [a \in Actions |-> ToolTier[a]]

Symmetry == Permutations(Tasks)
=============================================================================
