---------------------------- MODULE MCProbeMine ----------------------------
(***************************************************************************)
(* Recorded games of two on the board, one for a word of policies: a turn  *)
(* plays its lowest or its highest moves, or places neutrals.              *)
(***************************************************************************)
EXTENDS ProbeMine

Ends(legal, policy) ==
  LET moves == SelectSeq(legal, LAMBDA a : a.kind = "Move")
      pairs == SelectSeq(legal, LAMBDA a : a.kind = "PlaceNeutrals")
  IN IF policy = "pair" /\ pairs # <<>> THEN pairs[1]
     ELSE IF policy = "high" THEN moves[Len(moves)] ELSE moves[1]

Written(a) == IF a.kind = "Move" THEN DumpMove("move", <<a.target>>) ELSE DumpMove("neutrals", a.cells)

\* One action of the recorder: it opens a turn where one starts.
Noted(t, word) ==
  LET opens == t.state.movesLeft = ActionsPerTurn
      n == Len(t.turns) + IF opens THEN 1 ELSE 0
      a == Ends(LegalList(t.state), word[1 + ((n - 1) % Len(word))])
      turns == IF opens THEN Append(t.turns, DumpTurn(n, t.state.current, <<>>)) ELSE t.turns
  IN [state |-> Explicit(Apply(t.state, a)), played |-> IF opens THEN Append(t.played, t.state) ELSE t.played,
      turns |-> [turns EXCEPT ![n].moves = Append(@, Written(a))]]

RECURSIVE Recorded(_, _)
Recorded(t, word) == IF t.state.over THEN t ELSE Recorded(Noted(t, word), word)
Recording(word) == Recorded([state |-> Explicit(NewGame(2)), played |-> <<>>, turns |-> <<>>], word)

Whole(id, r, result) == [game |-> DumpGame(id, Rows, Cols, result, r.turns), played |-> r.played]

\* The same game as a recording may hold it: without its last turn, for a resignation;
\* with an empty turn after the end; or as no game of two on this board, or a move off it.
Resigned(id, r, result) == [Whole(id, r, result) EXCEPT !.game.turns = SubSeq(@, 1, Len(@) - 1)]
Trailing(id, r) == [Whole(id, r, r.state.winner) EXCEPT !.game.turns = Append(@, DumpTurn(9, 1, <<>>))]
Third(id, r) == [Whole(id, r, 1) EXCEPT !.game.turns[2].player = 3]
Wider(id, r) == [Whole(id, r, 1) EXCEPT !.game.cols = Cols + 1]
Twice(id, r) == [Whole(id, r, 1) EXCEPT !.game.turns[2].moves = Append(@, Head(@))]
Off(id, r) == [Whole(id, r, 1) EXCEPT !.game.turns[2].moves[1] = DumpMove("move", <<<<Rows, 0>>>>)]
Late(id, r) == [Whole(id, r, 1) EXCEPT !.game.turns = Append(@, [Head(@) EXCEPT !.turn = 9])]

Words == <<<<"low", "high", "pair", "low", "low">>, <<"low", "high", "pair", "high", "low">>,
           <<"low", "high", "pair", "pair", "low">>, <<"high", "low", "pair", "high", "low">>,
           <<"high", "pair", "high", "pair", "pair">>, <<"pair", "high", "pair", "high", "low">>,
           <<"pair", "high", "pair", "low", "low">>>>

\* The first two games share the position they place neutrals in, and so do the last two.
RecordingsOf(r) ==
  <<Whole(9, r[1], 1), Whole(3, r[2], 1), Whole(5, r[3], 2), Resigned(12, r[1], 2), Whole(1, r[4], 1),
    Third(8, r[1]), Whole(7, r[5], 2), Trailing(2, r[6]), Resigned(10, r[2], 2), Whole(6, r[7], 2),
    Twice(11, r[4]), Whole(4, r[5], 0), Wider(14, r[4]), Late(13, r[7]), Off(15, r[3])>>

GameDump(config, records) == [kind |-> "games", config |-> config, records |-> records]
Cyclic(list, i) == list[1 + ((i - 1) % Len(list))]
DumpsOf(list) ==
  {GameDump(config, [k \in 1..4 |-> Cyclic(list, i + k + (k \div 3))]) :
     config \in {MineConfig(2, 2, 1, 1), MineConfig(1, 1, 2, 0), DefaultMineConfig}, i \in DOMAIN list}
  \cup {GameDump(config, list) : config \in {MineConfig(2, 2, 2, 3), MineConfig(1, 0, 3, 8), MineConfig(0, 2, 2, 2), MineConfig(1, -1, 2, 2)}}
MCDumps ==
  DumpsOf(RecordingsOf([i \in DOMAIN Words |-> Recording(Words[i])] \o <<>>))
  \cup {[kind |-> "play", config |-> config, seeds |-> <<<<n, 3, 5, n, 3, 5, 3>>, <<9, n>>, <<7>>>>] :
     n \in {0, 4}, config \in {PlayConfig(2, 9, 3), PlayConfig(5, 4, 1), PlayConfig(7, 9, 2)}}
=============================================================================
