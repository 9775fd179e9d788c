---------------------------- MODULE MCGeneration ----------------------------
(***************************************************************************)
(* Instances for Generation: two champions that play two or three games,   *)
(* one of which the resignation rule calls wrongly, two candidates, and a  *)
(* gauntlet on a graph of nine positions whose first move is random.       *)
(***************************************************************************)
EXTENDS Generation

Spot(mover, value, visits) ==
  [over |-> FALSE, mover |-> mover, value |-> value, visits |-> visits,
   policy |-> IF Len(visits) = 1 THEN <<7>>
              ELSE [i \in DOMAIN visits |-> IF i = 1 THEN 4 ELSE IF i = 2 THEN 3 ELSE 0],
   chosen |-> TRUE, verdict |-> 0]
End(winner) ==
  [over |-> TRUE, mover |-> 1, value |-> 0, visits |-> <<>>, policy |-> <<>>, chosen |-> TRUE,
   verdict |-> IF winner = 1 THEN 1 ELSE -1]
Past(seat) == [Spot(seat, 0, <<2, 1>>) EXCEPT !.verdict = 0]
\* Seat 1 despairs twice, then once more, and wins; seat 2 despairs with good reason, and seat 1
\* is forced once; nobody despairs.
Comeback == <<Spot(1, -90, <<2, 1>>), Spot(1, -80, <<3, 0, 1>>), Spot(2, -95, <<1, 1>>), Spot(1, -95, <<2, 2>>), End(1)>>
Rout == <<Spot(1, 20, <<1, 2>>), Spot(2, 85, <<2, 1>>), Spot(1, 95, <<3>>), Spot(2, 90, <<1, 2>>), Spot(1, 95, <<1, 1>>), End(1)>>
Even == <<Spot(1, 10, <<1, 1>>), Spot(2, 0, <<2, 1>>), Spot(2, 5, <<1, 1>>), Spot(1, 0, <<1, 3>>), Spot(1, 0, <<1, 3>>), Past(2)>>
MCScript == [net \in {"c1", "c2"} |-> [g \in 0..1 |->
               IF net = "c1" THEN <<Comeback, Rout>>[g + 1] ELSE <<Even, Comeback>>[g + 1]]]
MCDraw == [g \in 0..1 |-> 30 * g]
Resign(t, p, c) == [threshold |-> t, plies |-> p, control |-> c]
Gumbel(on, m, pv) == [on |-> on, m |-> m, pv |-> pv]
Plain == [resign |-> Resign(Unset, Unset, Unset), gumbel |-> Gumbel(FALSE, Unset, "unset")]
Arm == [resign |-> Resign(75, 2, 25), gumbel |-> Gumbel(TRUE, Unset, "improved")]
Wrong == [resign |-> Resign(Unset, 2, Unset), gumbel |-> Gumbel(FALSE, Unset, "unset")]
Inv(gen, from, until, shards, env, instances, autoscale) ==
  [gen |-> gen, from |-> from, until |-> until, shards |-> shards, env |-> env, games |-> 1,
   instances |-> instances, autoscale |-> autoscale]
MCInvocations ==
  {Inv(1, "", "", 2, Arm, 1, TRUE), Inv(1, "selfplay", "selfplay", 1, Plain, 1, FALSE),
   Inv(1, "train", "", 1, Plain, 1, FALSE), Inv(1, "gauntlet", "", 1, Plain, 1, FALSE),
   Inv(2, "", "train", 2, Arm, 1, TRUE), Inv(1, "selfplay", "", 1, Wrong, 1, TRUE)}
MCBudgets == {[runs |-> 3, faults |-> 0, moves |-> 0], [runs |-> 2, faults |-> 1, moves |-> 0],
              [runs |-> 2, faults |-> 0, moves |-> 1], [runs |-> 1, faults |-> 1, moves |-> 1]}
MCLoadable == {"c1", "c2", "n1", "n2"}
MCKnobs == [jobs |-> 1, maxTurns |-> 3, epsilon |-> 60, explore |-> 1]

\* The gauntlet's graph: 1 opens, 2 to 4 are seat 2's, 5 to 7 seat 1's, 8 and 9 are over.
MCLegalAt == [p \in 1..9 |-> CASE p = 1 -> <<1, 2, 3>> [] p \in 2..4 -> <<1, 2>> [] p \in 5..7 -> <<1, 2>> [] OTHER -> <<>>]
MCAfterMove == [p \in 1..9 |-> [a \in 1..3 |-> CASE p = 1 -> a + 1
                                                 [] p \in 2..4 -> IF a = 1 THEN p + 3 ELSE IF p = 3 THEN 9 ELSE 5
                                                 [] p \in 5..7 -> IF (p + a) % 2 = 0 THEN 8 ELSE IF p = 7 THEN 1 ELSE 9
                                                 [] OTHER -> p]]
MCSeatAt == [p \in 1..9 |-> IF p \in 2..4 THEN 2 ELSE 1]
MCWinnerAt == [p \in 1..9 |-> CASE p = 8 -> 1 [] p = 9 -> 2 [] OTHER -> 0]
MCCapturesAt == [p \in 1..9 |-> IF p \in {3, 6} THEN {2} ELSE {}]
MCAlphaMove == [p \in 1..9 |-> [k \in 1..2 |-> IF p \in 5..7 THEN k ELSE IF p = 3 THEN 2 ELSE 1]]
MCNetMove == [net \in MCLoadable |-> [p \in 1..9 |->
                CASE net = "c1" -> 1 [] net = "c2" -> IF p < 8 THEN 2 ELSE 1 [] net = "n1" -> IF p > 4 THEN 2 ELSE 1
                  [] OTHER -> IF p \in {3, 6} THEN 2 ELSE 1]]
\* A clock that cuts every search short, and one that does so from the second ply on.
MCClocks == {"busy", "filling"}
MCTimedMove == [clock \in MCClocks |-> [ply \in 0..8 |-> [p \in 1..9 |->
                  IF p < 8 /\ (clock = "busy" \/ ply > 0) THEN 2 ELSE 1]]]
MCStream == [seed \in 0..5 |-> <<(seed * 37) % 100, (seed * 53) % 100, 80, 10>>]
MCDerivedSeed == [seed \in 0..2 |-> [n \in 1..4 |-> (seed + n) % 6]]
Side(engine, path, kind) == [engine |-> engine, path |-> path, budget |-> [kind |-> kind, amount |-> 2]]
Flags(a, b, aNet, games, seed, threads) ==
  [a |-> [engine |-> a.engine, path |-> a.path], b |-> [engine |-> b.engine, path |-> b.path],
   budget |-> a.budget, budgetA |-> NoFlag, budgetB |-> b.budget, net |-> "c1", aNet |-> aNet, bNet |-> NoFlag,
   games |-> games, seed |-> seed, maxTurns |-> 3, epsilon |-> 60, explore |-> 1, threads |-> threads, board |-> 12]
MCArenaFlags ==
  {Flags(Side("greedy", NoFlag, "nodes"), Side("ab-enhanced", NoFlag, "depth"), NoFlag, 3, 1, 1),
   Flags(Side("mcts", "n2", "nodes"), Side("mcts", NoFlag, "ms"), NoFlag, 2, 0, 2),
   Flags(Side("ab-plain", NoFlag, "depth"), Side("ab-plain", NoFlag, "depth"), NoFlag, 2, 2, 1),
   Flags(Side("mcts", "n2", "nodes"), Side("mcts", NoFlag, "ms"), "n1", 2, 0, 2)}
=============================================================================
