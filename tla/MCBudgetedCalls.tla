--------------------------- MODULE MCBudgetedCalls ---------------------------
(***************************************************************************)
(* The callers of the server, each with the paths of the router it takes,  *)
(* and a direct client of the router for the analyse step.                 *)
(***************************************************************************)
EXTENDS BudgetedCalls

MCKinds ==
    [c \in Callers |->
        CASE c = "brain"  -> {"primary", "fallback", "consensus"}
          [] c = "client" -> {"analyse", "fallback"}
          [] OTHER        -> {"primary"}]
=============================================================================
