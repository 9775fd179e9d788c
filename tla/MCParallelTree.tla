--------------------------- MODULE MCParallelTree ---------------------------
(***************************************************************************)
(* Trees for ParallelTree.                                                 *)
(***************************************************************************)
EXTENDS ParallelTree

CONSTANTS root, left, right, below, t1, t2

\* Two children, one of which has a child that is stuck.
ForkKids == [x \in Node |-> CASE x = root -> {left, right} [] x = left -> {below} [] OTHER -> {}]
\* The values are powers of a base no visit count reaches.
ForkValue == [x \in Node |-> CASE x = left -> 1 [] x = right -> 10 [] x = below -> 100 [] OTHER -> 0]

\* One forced move.
ChainKids == [x \in Node |-> CASE x = root -> {left} [] x = left -> {below} [] OTHER -> {}]

=============================================================================
