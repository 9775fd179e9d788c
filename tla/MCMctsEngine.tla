---------------------------- MODULE MCMctsEngine ----------------------------
(***************************************************************************)
(* A game for MctsEngine: the orders of two actions meet in ab, a third    *)
(* order meets a finished position (won), another has no actions without   *)
(* being over (stuck), and those two collide on their key.                 *)
(***************************************************************************)
EXTENDS MctsEngine

CONSTANTS s, a, b, c, ab, won, stuck, t, out, off

MCMoves == [p \in Position |-> CASE p = s -> <<a, b, c>> [] p = a -> <<ab, won>> [] p = b -> <<ab, stuck>>
                                 [] p = c -> <<won>> [] p = ab -> <<t>> [] p = off -> <<s>> [] OTHER -> <<>>]
MCMover == [p \in Position |-> IF p \in {ab, c} THEN 2 ELSE 1]
MCWinner == [p \in Position |-> CASE p = won -> 1 [] p \in {stuck, t} -> 2 [] OTHER -> 0]
MCValue == [p \in Position |-> CASE p \in {a, c} -> 10 [] p = b -> -10 [] p = ab -> 100 [] OTHER -> 0]
MCKey == [p \in Position |-> IF p = stuck THEN won ELSE p]
MCDepth == [p \in Position |-> CASE p = off -> 0 [] p = s -> 1 [] p \in {a, b, c} -> 2
                                 [] p \in {ab, won, stuck} -> 3 [] OTHER -> 4]
Setting(dag, batch, m, budget, sampling) ==
  [dag |-> dag, batch |-> batch, m |-> m, sims |-> budget, sampling |-> sampling]
MCConfigs == {Setting(d, IF d THEN 2 ELSE 1, 0, 1, FALSE) : d \in BOOLEAN}
             \cup {Setting(TRUE, 2, 3, 6, FALSE), Setting(TRUE, 2, 0, 3, TRUE)}
MCBudgets == {[target |-> 2, ceiling |-> 3, early |-> TRUE, extension |-> TRUE]}

=============================================================================
