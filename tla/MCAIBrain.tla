------------------------------ MODULE MCAIBrain ------------------------------
(***************************************************************************)
(* A small market for the AI brain: two symbols, and answers of an LLM     *)
(* that sit on both sides of the clamps of the decision engine.            *)
(***************************************************************************)
EXTENDS AIBrain

CONSTANTS A, B

Answer(direction, conviction, sl, tp) ==
    [direction |-> direction, conviction |-> conviction, stop_loss_pct |-> sl, take_profit_pct |-> tp]

MCAnswers ==
    { Answer("long",  90, 25, 30),    \* too wide a stop, too near a target
      Answer("short", 72, 10, 20),
      Answer("long",  71, 10, 20) }   \* below the threshold

MCSymbols == {A, B}

\* From some entry, steps to a stop, to the trigger of a trail and back, to
\* a target.
MCTicks == {<<A, 989>>, <<A, 1000>>, <<A, 1010>>, <<B, 1000>>}
=============================================================================
