---------------------------- MODULE MCBotClient ----------------------------
\* Small instances of BotClient for TLC.
EXTENDS BotClientProps, TLC

CONSTANTS t1, t2, b1, b2, x, y

At(board, mover, left) ==
  [board |-> board, mover |-> mover, left |-> left, over |-> FALSE]

\* Two boards with the turn ours, the transient with no action left, theirs.
MCPosition == {At(b1, 1, 1), At(b2, 1, 1), At(b2, 1, 0), At(b1, 2, 1)}

\* One position of ours, one of theirs.
MCLobbyPosition == {At(b1, 1, 1), At(b1, 2, 1)}

\* Each board allows an action of its own, so a stale action can be illegal.
MCLegal == [p \in Position |-> IF p.board = b1 THEN {x} ELSE {y}]

Symmetry == Permutations(TaskId) \cup Permutations(Game)
=============================================================================
