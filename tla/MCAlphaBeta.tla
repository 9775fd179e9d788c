---------------------------- MODULE MCAlphaBeta ----------------------------
(***************************************************************************)
(* Three games for AlphaBetaEngine.  In the first, positions 1 to 22 are   *)
(* five layers of a game of two, with transpositions, finished positions   *)
(* and captures; in the second, 31 to 43, three players take turns and the *)
(* third may be eliminated; in the third, 50 to 57, seat 1 forces the end. *)
(* Evaluations are spread by a hash.                                       *)
(***************************************************************************)
EXTENDS AlphaBetaProps

MCPosition == 1..22 \cup 31..43 \cup 50..57
MCAct == 1..3
Layer(p) == CASE p \in {1, 31, 50} -> 0 [] p \in 2..4 \cup 32..34 \cup 51..52 -> 1
              [] p \in 5..9 \cup 35..38 \cup 53..54 -> 2 [] p \in 10..15 \cup 39..43 \cup 55..57 -> 3
              [] p \in 16..22 -> 4
Three(p) == p \in 31..43
MCOver == {9, 14, 19, 21, 42, 55, 56}
To(p, i) == CASE p = 1 -> 1 + i
              [] p \in 2..4 -> 5 + ((p + 2 * i) % 5)
              [] p \in 5..9 -> 10 + ((3 * p + i) % 6)
              [] p \in 10..15 -> 16 + ((p + 3 * i) % 7)
              [] p \in {31, 50} -> p + i
              [] p \in 32..34 -> 35 + ((p + i) % 4)
              [] p \in 35..38 -> 39 + ((p + i) % 5)
              [] p = 51 -> 52 + i
              [] p = 52 -> 54
              [] p = 53 -> 54 + i
              [] p = 54 -> 57
Degree(p) == CASE p \in MCOver \/ p \in 16..22 \cup 39..43 \cup {57} -> 0
               [] p \notin MCOver /\ p \in {52, 54} -> 1
               [] p \in {50, 51, 53} \/ (p \in 1..15 \cup 31..38 /\ p \notin MCOver /\ p % 3 = 2) -> 2
               [] OTHER -> 3
MCMoves == [p \in MCPosition |-> [i \in 1..Degree(p) |-> [act |-> i, to |-> To(p, i)]]]
MCMover == [p \in MCPosition |-> IF Three(p) THEN <<1, 2, 3, 1>>[Layer(p) + 1] ELSE <<1, 1, 2, 1, 2>>[Layer(p) + 1]]
MCWinner == [p \in MCPosition |-> IF p \in {9, 21} THEN 2 ELSE IF p \in MCOver THEN 1 ELSE 0]
MCLive == [p \in MCPosition |-> IF p \in MCOver THEN {MCWinner[p]} ELSE IF p = 38 THEN {1, 3}
                                ELSE IF Three(p) THEN {1, 2, 3} ELSE {1, 2}]
MCCapture == {<<p, 2>> : p \in {1, 5, 7, 12}}
MCSlot == [p \in MCPosition |-> p % 11]
Hash(k, p, seat) == ((37 * p + 101 * k + 53 * seat + p * p * (k + 7)) % 41) - 20
MCEval == [k \in 1..8 |-> [p \in MCPosition |-> [seat \in 1..4 |-> Hash(k, p, seat)]]]
Option(k, enhanced, lmr) == [enhanced |-> enhanced, lmr |-> lmr, eval |-> k]
MCBooks == [p \in MCPosition |-> IF p = 3 THEN 1 ELSE NoAct]
MCMovesLeft == [p \in MCPosition |-> IF Layer(p) = 0 THEN 2 ELSE IF Layer(p) = 3 THEN 2 ELSE 1]
MCTurnOf == [p \in MCPosition |-> IF Layer(p) < 2 THEN 1 ELSE 2]
MCCoin == [g \in 0..MaxGames |-> [p \in MCPosition |-> IF (p + g) % 3 = 0 /\ p \notin MCOver THEN 2 ELSE NoAct]]
\* Many evaluations searched once, stopped at few polls; and few evaluations searched by calls
\* that overlap, later in the same game, in the next one, and with another set of players.
MCSetups ==
  {[options |-> Option(k, e, FALSE), roots |-> {r}, calls |-> 1, polls |-> {Never, 12, 20, 31},
    entry |-> "deadline"] : k \in 1..6, e \in BOOLEAN, r \in {1, 31}}
  \cup {[options |-> Option(k, TRUE, FALSE), roots |-> {1}, calls |-> 1, polls |-> {Never, 12, 20, 31},
          entry |-> "nodes"] : k \in {1, 4}}
  \cup {[options |-> Option(1, TRUE, TRUE), roots |-> r, calls |-> 2, polls |-> {Never},
          entry |-> "deadline"] : r \in {{1, 3}, {50, 51}}}
  \cup {[options |-> Option(2, TRUE, FALSE), roots |-> {31, 38}, calls |-> 2, polls |-> {Never},
          entry |-> "deadline"]}
SalvageSetups ==
  {[options |-> Option(k, TRUE, FALSE), roots |-> {1}, calls |-> 1,
    polls |-> {Never} \cup {4 * i : i \in 5..14}, entry |-> "deadline"] : k \in {2, 4}}
=============================================================================
