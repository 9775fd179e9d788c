---------------------------- MODULE SearcherState ----------------------------
(***************************************************************************)
(* The alpha-beta searcher as it is kept from one search to the next       *)
(* (Searcher in searcher.rs): what is fixed when it is built, what a       *)
(* search leaves in it, and the actions it looks at.                       *)
(*                                                                         *)
(* The game is a finite graph; Moves[p] lists the curated search actions.  *)
(***************************************************************************)
EXTENDS Integers, Sequences, FiniteSets, SequencesExt

CONSTANTS
  Position,
  Act,             \* the actions
  Moves,           \* Position -> sequence of [act, to]
  Mover, Winner,   \* Position -> seat; 0: no winner
  Over,            \* the positions with game_over
  Live,            \* Position -> the active seats
  Slot,            \* Position -> its slot in the packed table
  MaxDepth,        \* MAX_DEPTH
  Generations,     \* generations the packed entry tells apart
  NoAct

ASSUME DepthAssumption == MaxDepth \in Nat \ {0} /\ Generations \in Nat \ {0}
ASSUME GameAssumption ==
  /\ Moves \in [Position -> Seq([act : Act, to : Position])]
  /\ \A p \in Over : Moves[p] = <<>>
  /\ NoAct \notin Act

Never == -1
NoEntry == [key |-> "none"]
Quiet == [act \in Act |-> 0]

\* Searcher::with_table
NewSearcher(p, options) ==
  [root |-> Mover[p], multi |-> Cardinality(Live[p]) > 2, options |-> options,
   table |-> [x \in {Slot[q] : q \in Position} |-> NoEntry], gen |-> 0, map |-> <<>>,
   killers |-> [ply \in 0..MaxDepth |-> <<NoAct, NoAct>>], history |-> <<Quiet, Quiet>>,
   left |-> Never]

\* What a search leaves in a searcher: root, multi and options are never assigned after new.
Learned(s, after) ==
  [root |-> s.root, multi |-> s.multi, options |-> s.options,
   table |-> after.table, gen |-> after.gen, map |-> after.map, killers |-> after.killers,
   history |-> after.history, left |-> after.left]

\* begin_search: the table stays, one generation older; history fades.
BeginSearch(s) ==
  IF ~s.options.enhanced THEN s
  ELSE [s EXCEPT !.gen = (@ + 1) % Generations,
                 !.killers = [ply \in DOMAIN @ |-> <<NoAct, NoAct>>],
                 !.history = [i \in DOMAIN @ |-> [act \in Act |-> @[i][act] \div 2]]]

\* preserve_actor: no suicide while there is another way.
Preserving(moves, actor) ==
  LET alive == SelectSeq(moves, LAMBDA m : actor \in Live[m.to])
  IN  IF alive = <<>> THEN moves ELSE alive

\* preserving_fallback over the legal actions.
Fallback(p) == IF Moves[p] = <<>> THEN NoAct ELSE Preserving(Moves[p], Mover[p])[1].act
=============================================================================
