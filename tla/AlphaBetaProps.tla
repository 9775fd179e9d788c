---------------------------- MODULE AlphaBetaProps ----------------------------
(***************************************************************************)
(* What the scores of the engine's searches say of the game.               *)
(***************************************************************************)
EXTENDS AlphaBeta, AlphaBetaEngine

\* The plain definition of what a position is worth to a seat at a depth.
RECURSIVE Worth(_, _, _, _)
Worth(seat, p, depth, ply) ==
  LET values == {Worth(seat, Moves[p][i].to, depth - 1, ply + 1) : i \in DOMAIN Moves[p]}
  IN  IF p \in Over THEN TerminalScore(p, seat, ply)
      ELSE IF depth = 0 \/ Moves[p] = <<>> THEN Eval[setup.options.eval][p][seat]
      ELSE IF Mover[p] = seat THEN CHOOSE x \in values : \A y \in values : y <= x
      ELSE CHOOSE x \in values : \A y \in values : x <= y

RECURSIVE WorthAll(_, _, _)
WorthAll(p, depth, ply) ==
  LET values == {WorthAll(Moves[p][i].to, depth - 1, ply + 1) : i \in DOMAIN Moves[p]}
  IN  IF p \in Over THEN [seat \in 1..4 |-> TerminalScore(p, seat, ply)]
      ELSE IF depth = 0 \/ Moves[p] = <<>> THEN Eval[setup.options.eval][p]
      ELSE CHOOSE x \in values : \A y \in values : y[Mover[p]] <= x[Mover[p]]

\* What a root action is worth, read off the game.
ActionWorth(p, act, depth) ==
  LET to == Moves[p][CHOOSE i \in DOMAIN Moves[p] : Moves[p][i].act = act].to
  IN  IF Cardinality(Live[p]) > 2 THEN WorthAll(to, depth - 1, 1)[Mover[p]]
      ELSE Worth(Mover[p], to, depth - 1, 1)

Preserved(p) == LET m == Preserving(Moves[p], Mover[p]) IN {m[i].act : i \in DOMAIN m}

Searched(c) == calls[c].best.depth > 0 /\ ~calls[c].best.book

\* The first search of a searcher without reductions answers, at every depth it completes, with
\* an action that is worth its score, and no action is worth more: whatever window, table entry
\* of a colliding slot, killer or cut decided what it looked at.
ScoreIsTrue ==
  \A c \in CallId :
    (Searched(c) /\ ~calls[c].best.salvaged /\ calls[c].fresh /\ ~setup.options.lmr) =>
      /\ calls[c].best.score = ActionWorth(calls[c].pos, calls[c].best.act, calls[c].best.depth)
      /\ \A act \in Preserved(calls[c].pos) :
           ActionWorth(calls[c].pos, act, calls[c].best.depth) <= calls[c].best.score

\* An interrupted iteration answers with an action only if it has proved the score it claims.
SalvageIsProven ==
  \A c \in CallId :
    (Searched(c) /\ calls[c].best.salvaged /\ calls[c].fresh /\ ~setup.options.lmr) =>
      calls[c].best.score <= ActionWorth(calls[c].pos, calls[c].best.act, calls[c].best.depth + 1)

\* "A cancelled search therefore can never answer with a worse move than the last completed
\* iteration": the salvaged action is worth no less than the one it replaces, a ply deeper.
SalvageIsNoWorse ==
  \A c \in CallId :
    (calls[c].best.salvaged /\ calls[c].best.depth > 0 /\ calls[c].fresh /\ ~setup.options.lmr) =>
      ActionWorth(calls[c].pos, calls[c].best.over, calls[c].best.depth + 1)
        <= ActionWorth(calls[c].pos, calls[c].best.act, calls[c].best.depth + 1)

\* A seat forces the game's end in its favour within n actions.
RECURSIVE Forces(_, _, _)
Forces(seat, p, n) ==
  \/ p \in Over /\ Winner[p] = seat
  \/ /\ p \notin Over /\ n > 0 /\ Moves[p] # <<>>
     /\ IF Mover[p] = seat
        THEN \E i \in DOMAIN Moves[p] : Forces(seat, Moves[p][i].to, n - 1)
        ELSE \A i \in DOMAIN Moves[p] : Forces(seat, Moves[p][i].to, n - 1)

\* A mate score is a forced end of the game within the plies it says, also when it comes from
\* an entry that an earlier move left at another distance from its root.
MateIsReal ==
  \A c \in CallId :
    (Searched(c) /\ Cardinality(Live[calls[c].pos]) = 2) =>
      LET score == calls[c].best.score
          seat == Mover[calls[c].pos]
      IN  /\ score > MateBand => Forces(seat, calls[c].pos, MateScore - score)
          /\ score < -MateBand => Forces(3 - seat, calls[c].pos, MateScore + score)
=============================================================================
