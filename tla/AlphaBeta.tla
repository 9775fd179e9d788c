------------------------------ MODULE AlphaBeta ------------------------------
(***************************************************************************)
(* The alpha-beta searcher (searcher.rs) over its transposition table      *)
(* (tt.rs): iterative deepening with aspiration windows, principal         *)
(* variation search with late-move reductions, max^n for three and four    *)
(* players, and the plain mode of the parity oracle.                       *)
(*                                                                         *)
(* A search is a function of the searcher it starts from; an operator that *)
(* searches answers [s, ok, score]: the searcher afterwards, whether the   *)
(* budget lasted, and the score.  s.left counts the polls of `running`     *)
(* that still answer yes, so a stop by the clock, by the node limit or by  *)
(* cancellation is a stop at some poll.                                    *)
(*                                                                         *)
(* Keys do not collide, slots of the table do.                             *)
(***************************************************************************)
EXTENDS SearcherState

CONSTANTS
  Neutral,         \* the actions that place neutrals
  Capture,         \* <<position, action>>: the target is another player's cell
  Eval,            \* evaluation -> Position -> seat -> score
  MateScore, MateBand, InfScore,
  Delta,           \* aspiration_delta
  AspirationMinDepth, LmrLateAfter, LmrMinDepth

ASSUME ScoreAssumption ==
  /\ MateBand \in Nat /\ MateBand + 2 * MaxDepth < MateScore /\ MateScore < InfScore
  /\ Delta \in Nat \ {0} /\ Neutral \subseteq Act

OrderTT == 10000000
OrderKiller == 5000000
OrderWin == 1000000
OrderElimination == 100000
OrderCapture == 10000
OrderHistoryCap == 9000
OrderContinuation == 100
HistoryStoreCap == 2^28

Smaller(a, b) == IF a < b THEN a ELSE b
Larger(a, b) == IF a > b THEN a ELSE b
Magnitude(x) == IF x < 0 THEN -x ELSE x
-----------------------------------------------------------------------------
(* The budget *)

\* running, asked n times.
Lasts(s, n) == s.left = Never \/ s.left >= n
Polled(s, n) == [s EXCEPT !.left = IF @ = Never THEN Never ELSE Larger(@ - n, 0)]

Out(s, score) == [s |-> s, ok |-> TRUE, score |-> score]
Incomplete(s) == [s |-> s, ok |-> FALSE, score |-> 0]
-----------------------------------------------------------------------------
(* The tables *)

\* Mate scores are kept relative to the node.
ToStored(score, ply) ==
  CASE score > MateBand -> score + ply [] score < -MateBand -> score - ply [] OTHER -> score
\* For the mutation check: a mate is read off the table as if the node were the root.
FromStoredAsIs(score, ply) == score

FromStored(score, ply) ==
  CASE score > MateBand -> score - ply [] score < -MateBand -> score + ply [] OTHER -> score

\* TranspositionTable::probe
Held(s, p) ==
  LET e == s.table[Slot[p]] IN IF e # NoEntry /\ e.key = p THEN e ELSE NoEntry

\* TranspositionTable::store: within a generation the deeper entry of another key stays.
Stored(s, p, entry) ==
  LET old == s.table[Slot[p]]
      kept == old # NoEntry /\ old.key # p /\ old.gen = s.gen /\ old.depth > entry.depth
  IN  IF kept THEN s ELSE [s EXCEPT !.table[Slot[p]] = entry]

Insert(s, p, entry) ==
  [s EXCEPT !.map = [q \in DOMAIN @ \cup {p} |-> IF q = p THEN entry ELSE s.map[q]]]

\* store_entry
StoreEntry(s, p, depth, ply, flag, act, best) ==
  IF s.options.enhanced
  THEN Stored(s, p, [key |-> p, depth |-> depth, flag |-> flag, gen |-> s.gen, act |-> act,
                     score |-> ToStored(best, ply)])
  ELSE Insert(s, p, [depth |-> depth, ply |-> ply, flag |-> flag, act |-> act, score |-> best])

\* probe_tt_move
TTMove(s, p) ==
  IF s.options.enhanced
  THEN IF Held(s, p) = NoEntry THEN NoAct ELSE Held(s, p).act
  ELSE IF p \in DOMAIN s.map THEN s.map[p].act ELSE NoAct

\* apply_bound
ApplyBound(flag, value, alpha, beta) ==
  LET low == IF flag = "lower" THEN Larger(alpha, value) ELSE alpha
      high == IF flag = "upper" THEN Smaller(beta, value) ELSE beta
  IN  [cut |-> flag = "exact" \/ low >= high, score |-> value, alpha |-> low, beta |-> high]

\* probe: a deep enough entry tightens the window or answers; plain entries only at their ply.
Probe(s, p, depth, ply, alpha, beta) ==
  LET miss == [cut |-> FALSE, score |-> 0, alpha |-> alpha, beta |-> beta]
      e == IF s.options.enhanced THEN Held(s, p) ELSE IF p \in DOMAIN s.map THEN s.map[p] ELSE NoEntry
  IN  IF e = NoEntry \/ (e # NoEntry /\ e.depth < depth) THEN miss
      ELSE IF s.options.enhanced THEN ApplyBound(e.flag, FromStored(e.score, ply), alpha, beta)
      ELSE IF e.ply # ply THEN miss ELSE ApplyBound(e.flag, e.score, alpha, beta)

\* For the mutation check: every stored score is taken for the value.
BoundFlagExact(best, alpha, beta) == "exact"

BoundFlag(best, alpha, beta) ==
  CASE best <= alpha -> "upper" [] best > alpha /\ best >= beta -> "lower" [] OTHER -> "exact"
-----------------------------------------------------------------------------
(* Move ordering *)

Captures(p, m) == <<p, m.act>> \in Capture

OrderOf(s, p, m, ttMove, ply) ==
  LET actor == Mover[p]
      Tier(test, bonus) == IF test THEN bonus ELSE 0
  IN  Tier(m.act = ttMove, OrderTT)
      + Tier(s.options.enhanced /\ m.act \in {s.killers[ply][1], s.killers[ply][2]}, OrderKiller)
      + Tier(m.to \in Over /\ Winner[m.to] = actor, OrderWin)
      + (Cardinality(Live[p]) - Cardinality(Live[m.to])) * OrderElimination
      + Tier(Captures(p, m), OrderCapture)
      + Tier(s.options.enhanced /\ actor <= 2 /\ m.act \notin Neutral,
             Smaller(s.history[Smaller(actor, 2)][m.act], OrderHistoryCap))
      + Tier(Mover[m.to] = actor, OrderContinuation)

\* ordered_children: stable, best first, each with its order; one poll per action.
Ordered(s, p, ttMove, ply) ==
  LET listed == [i \in DOMAIN Moves[p] |->
                   [act |-> Moves[p][i].act, to |-> Moves[p][i].to, at |-> i,
                    order |-> OrderOf(s, p, Moves[p][i], ttMove, ply)]]
  IN  SortSeq(listed, LAMBDA m, n : m.order > n.order \/ (m.order = n.order /\ m.at < n.at))

\* record_cutoff: a quiet refutation becomes a killer of its ply and gains history.
RecordCutoff(s, p, act, depth, ply) ==
  IF ~s.options.enhanced \/ act = NoAct \/ act \in Neutral \/ <<p, act>> \in Capture THEN s
  ELSE LET first == s.killers[ply][1]
           known == [s EXCEPT !.killers[ply] = IF first = act THEN @ ELSE <<act, first>>]
       IN  IF Mover[p] > 2 THEN known
           ELSE [known EXCEPT !.history[Mover[p]][act] =
                   Smaller(@ + depth * depth, HistoryStoreCap)]
-----------------------------------------------------------------------------
(* Interior nodes *)

TerminalScore(p, seat, ply) == IF Winner[p] = seat THEN MateScore - ply ELSE ply - MateScore
TerminalScores(p, ply) == [seat \in 1..4 |-> TerminalScore(p, seat, ply)]

\* The node's bookkeeping while its children are searched.
Node(s, alpha, beta) ==
  [s |-> s, ok |-> TRUE, alpha |-> alpha, beta |-> beta, best |-> 0, act |-> NoAct,
   searched |-> 0, seen |-> FALSE]
Open(n) == n.ok /\ n.alpha < n.beta

\* What one child's score does to the node.
Better(n, r, maximizing) ==
  ~n.seen \/ (IF maximizing THEN r.score > n.best ELSE r.score < n.best)

Counted(n, act, r, maximizing) ==
  CASE ~r.ok -> [n EXCEPT !.s = r.s, !.ok = FALSE]
    [] r.ok /\ Better(n, r, maximizing) ->
         [n EXCEPT !.s = r.s, !.best = r.score, !.act = act, !.seen = TRUE, !.searched = @ + 1,
                   !.alpha = IF maximizing THEN Larger(@, r.score) ELSE @,
                   !.beta = IF maximizing THEN @ ELSE Smaller(@, r.score)]
    [] OTHER -> [n EXCEPT !.s = r.s, !.searched = @ + 1]

\* The staged fast path: a move of the table, not a placement of neutrals, goes first.
FastPath(s, ttMove) == s.options.enhanced /\ ttMove # NoAct /\ ttMove \notin Neutral

Reduction(s, p, m, depth, searched) ==
  IF /\ s.options.lmr /\ s.options.enhanced /\ ~s.multi
     /\ depth >= LmrMinDepth /\ searched > LmrLateAfter
     /\ m.order < OrderCapture /\ m.act \notin Neutral /\ Mover[m.to] = Mover[p]
  THEN 1 ELSE 0

RECURSIVE Minimax(_, _, _, _, _, _)

\* scout_max, scout_min: a null window, verified at full depth, then opened.
Verified(r, q, depth, low, ply, beats) ==
  IF r.ok /\ beats THEN Minimax(r.s, q, depth - 1, low, low + 1, ply + 1) ELSE r
Opened(r, q, depth, alpha, beta, ply) ==
  IF r.ok /\ r.score > alpha /\ r.score < beta
  THEN Minimax(r.s, q, depth - 1, alpha, beta, ply + 1) ELSE r
Rescued(r, q, depth, alpha, beta, ply, reduction, maximizing) ==
  Opened(Verified(r, q, depth, IF maximizing THEN alpha ELSE beta - 1, ply,
                  reduction # 0 /\ IF maximizing THEN r.score > alpha ELSE r.score < beta),
         q, depth, alpha, beta, ply)
Scout(s, q, depth, alpha, beta, ply, reduction, maximizing) ==
  LET low == IF maximizing THEN alpha ELSE beta - 1
  IN  Rescued(Minimax(s, q, depth - 1 - reduction, low, low + 1, ply + 1),
              q, depth, alpha, beta, ply, reduction, maximizing)

\* One child after the other, until one cuts.
Children(node, p, moves, depth, ply, maximizing) ==
  LET Visit(n, m) ==
        IF ~Open(n) THEN n
        ELSE Counted(n, m.act,
               IF ~n.seen THEN Minimax(n.s, m.to, depth - 1, n.alpha, n.beta, ply + 1)
               ELSE Scout(n.s, m.to, depth, n.alpha, n.beta, ply,
                          Reduction(n.s, p, m, depth, n.searched + 1), maximizing),
               maximizing)
  IN  FoldLeft(Visit, node, moves)

\* The end of a node: a cut is remembered, the result stored as the bound it is.
Closed(n, p, alpha, beta, depth, ply) ==
  LET kept == IF n.alpha >= n.beta THEN RecordCutoff(n.s, p, n.act, depth, ply) ELSE n.s
  IN  IF ~n.ok THEN Incomplete(n.s)
      ELSE Out(StoreEntry(kept, p, depth, ply, BoundFlag(n.best, alpha, beta), n.act, n.best), n.best)

\* The table's move alone, before the others are even listed.
Staged(node, p, ttMove, depth, ply, maximizing) ==
  LET at == CHOOSE i \in DOMAIN Moves[p] : Moves[p][i].act = ttMove
  IN  IF ~FastPath(node.s, ttMove) THEN node
      ELSE Children(node, p, <<[act |-> ttMove, to |-> Moves[p][at].to, order |-> OrderTT]>>,
                    depth, ply, maximizing)

\* All others, unless that one cut the node.
Rest(node, p, ttMove, alpha, beta, depth, ply, maximizing) ==
  LET polled == Polled(node.s, Len(Moves[p]))
      rest == SelectSeq(Ordered(polled, p, ttMove, ply), LAMBDA m : ~node.seen \/ m.act # ttMove)
  IN  IF Open(node) /\ ~Lasts(node.s, Len(Moves[p])) THEN Incomplete(polled)
      ELSE IF Open(node) /\ Moves[p] = <<>> THEN Out(polled, Eval[node.s.options.eval][p][node.s.root])
      ELSE Closed(IF Open(node)
                  THEN Children([node EXCEPT !.s = polled], p, rest, depth, ply, maximizing) ELSE node,
                  p, alpha, beta, depth, ply)

Interior(s, p, depth, alpha, beta, ply, ttMove, maximizing) ==
  Rest(Staged(Node(s, alpha, beta), p, ttMove, depth, ply, maximizing),
       p, ttMove, alpha, beta, depth, ply, maximizing)

Unknown(s, p, depth, known, ply) ==
  IF known.cut THEN Out(s, known.score)
  ELSE Interior(s, p, depth, known.alpha, known.beta, ply, TTMove(s, p), Mover[p] = s.root)

Minimax(s, p, depth, alpha, beta, ply) ==
  LET here == Polled(s, 1)
  IN  IF ~Lasts(s, 1) THEN Incomplete(s)
      ELSE IF p \in Over THEN Out(here, TerminalScore(p, s.root, ply))
      ELSE IF depth = 0 THEN Out(here, Eval[s.options.eval][p][s.root])
      ELSE Unknown(here, p, depth, Probe(here, p, depth, ply, alpha, beta), ply)

\* max_n: the mover maximises its own component; an immediate win cannot be beaten.
RECURSIVE MaxN(_, _, _, _)
BestOwn(n, m, r, actor) ==
  IF r.ok /\ (~n.seen \/ r.score[actor] > n.score[actor])
  THEN [s |-> r.s, ok |-> TRUE, seen |-> TRUE, score |-> r.score, act |-> m.act]
  ELSE [n EXCEPT !.s = r.s, !.ok = r.ok]
ClosedN(n, p, depth, ply) ==
  IF ~n.ok THEN Incomplete(n.s)
  ELSE Out(Insert(n.s, p, [depth |-> depth, ply |-> ply, flag |-> "exact", act |-> n.act,
                           score |-> n.score]), n.score)
MaxN(s, p, depth, ply) ==
  LET here == Polled(s, 1)
      polled == Polled(here, Len(Moves[p]))
      known == p \in DOMAIN s.map
      Visit(n, m) ==
        IF ~n.ok \/ (n.seen /\ n.score[Mover[p]] >= MateScore - (ply + 1)) THEN n
        ELSE BestOwn(n, m, MaxN(n.s, m.to, depth - 1, ply + 1), Mover[p])
      none == [s |-> polled, ok |-> TRUE, seen |-> FALSE, score |-> <<>>, act |-> NoAct]
  IN  IF ~Lasts(s, 1) THEN Incomplete(s)
      ELSE IF p \in Over THEN Out(here, TerminalScores(p, ply))
      ELSE IF depth = 0 THEN Out(here, Eval[s.options.eval][p])
      ELSE IF known /\ (known => s.map[p].depth >= depth /\ s.map[p].ply = ply)
      THEN Out(here, s.map[p].score)
      ELSE IF ~Lasts(here, Len(Moves[p])) THEN Incomplete(polled)
      ELSE IF Moves[p] = <<>> THEN Out(polled, Eval[s.options.eval][p])
      ELSE ClosedN(FoldLeft(Visit, none, Ordered(polled, p, IF known THEN s.map[p].act ELSE NoAct, ply)),
                   p, depth, ply)
-----------------------------------------------------------------------------
(* The root *)

\* For the mutation check: whatever was best so far is salvaged.
SalvageableUnproven(s, n, alpha) == s.options.enhanced /\ n.seen

\* Only a score above the window's floor is proven.
Salvageable(s, n, alpha) == s.options.enhanced /\ n.seen /\ n.best > alpha

\* at_depth: the answer of one iteration, or what can be salvaged of it.
Answered(s, n, p, depth, alpha, beta) ==
  IF n.ok
  THEN [s |-> StoreEntry(n.s, p, depth, 0, BoundFlag(n.best, alpha, beta), n.act, n.best),
        ok |-> TRUE, act |-> n.act, score |-> n.best, partial |-> FALSE]
  ELSE [s |-> n.s, ok |-> FALSE, act |-> n.act, score |-> n.best, partial |-> Salvageable(s, n, alpha)]

\* A root move of a game of more than two, for the root's seat.
OfRoot(r, s) == [s |-> r.s, ok |-> r.ok, score |-> IF r.ok THEN r.score[s.root] ELSE 0]

AtDepth(s, p, depth, alpha, beta) ==
  LET polled == Polled(s, Len(Moves[p]))
      moves == Preserving(Ordered(polled, p, TTMove(s, p), 0), s.root)
      Root(n, m) ==
        IF s.multi THEN OfRoot(MaxN(n.s, m.to, depth - 1, 1), s)
        ELSE IF ~n.seen THEN Minimax(n.s, m.to, depth - 1, n.alpha, beta, 1)
        ELSE Scout(n.s, m.to, depth, n.alpha, beta, 0, 0, TRUE)
      Visit(n, m) ==
        IF ~n.ok THEN n
        ELSE [Counted(n, m.act, Root(n, m), TRUE) EXCEPT !.alpha = IF s.multi THEN alpha ELSE @]
  IN  IF ~Lasts(s, Len(Moves[p]))
      THEN [s |-> polled, ok |-> FALSE, act |-> NoAct, score |-> 0, partial |-> FALSE]
      ELSE Answered(s, FoldLeft(Visit, Node(polled, alpha, beta), moves), p, depth, alpha, beta)

\* The loop of at_depth_aspirated: the failing side is widened, then opened.
\* w is the window, with what was widened already.
RECURSIVE Widening(_, _, _, _, _)
Widening(r, p, depth, centre, w) ==
  LET wider == IF r.score <= w.alpha
               THEN [w EXCEPT !.alpha = IF w.low THEN -InfScore ELSE centre - 4 * Delta, !.low = TRUE]
               ELSE [w EXCEPT !.beta = IF w.high THEN InfScore ELSE centre + 4 * Delta, !.high = TRUE]
  IN  IF ~r.ok \/ (r.score > w.alpha /\ r.score < w.beta) THEN r
      ELSE Widening(AtDepth(r.s, p, depth, wider.alpha, wider.beta), p, depth, centre, wider)

\* at_depth_aspirated; previous is the last score, with hasPrevious
Iteration(s, p, depth, hasPrevious, previous) ==
  LET aspired == /\ hasPrevious /\ s.options.enhanced /\ ~s.multi /\ depth >= AspirationMinDepth
                 /\ Magnitude(previous) < MateBand
      w == IF aspired THEN [alpha |-> previous - Delta, beta |-> previous + Delta, low |-> FALSE, high |-> FALSE]
           ELSE [alpha |-> -InfScore, beta |-> InfScore, low |-> FALSE, high |-> FALSE]
      r == AtDepth(s, p, depth, w.alpha, w.beta)
  IN  IF aspired THEN Widening(r, p, depth, previous, w) ELSE r
=============================================================================
