--------------------------- MODULE AlphaBetaEngine ---------------------------
(***************************************************************************)
(* The alpha-beta engine adapter (vsbot/alphabeta.rs) inside the opening   *)
(* explorer (vsbot/explore.rs), as the client calls them: one searcher     *)
(* kept from move to move behind a lock that is only ever tried, a watcher *)
(* thread per search that forwards the client's cancellation, and the      *)
(* per-game exploration window a late answer must leave alone.             *)
(*                                                                         *)
(* The client cancels a search when the next snapshot or game comes, but   *)
(* the search runs on until it notices, so calls overlap.                  *)
(*                                                                         *)
(* What an iteration of the search answers is a parameter: the adapter     *)
(* does the same whatever is searched, and AlphaBeta gives it its value.   *)
(***************************************************************************)
EXTENDS SearcherState

CONSTANTS
  Setups,      \* [options, roots, calls, polls, entry]: what is searched, how often, at which
               \* polls a budget may end, and by which entry point: "deadline" or "nodes"
  Books,       \* Position -> the opening book's action or NoAct
  MovesLeft,   \* Position -> actions left in the turn
  TurnOf,      \* Position -> which of the game's turns it belongs to
  Coin,        \* game -> position -> the random action its stream draws there, or NoAct
  Window,      \* turns the exploration covers
  Deepened(_, _, _, _, _),  \* one iteration of the search, as AlphaBeta's Iteration: [s, ok, act, score, partial]
  MaxGames, MaxPanics,
  NoSearcher, NoPosition

ASSUME SetupAssumption ==
  /\ \A u \in Setups : u.roots \subseteq Position /\ u.calls \in Nat /\ u.polls \subseteq Nat \cup {Never}
  /\ \A p \in Position : Books[p] \in {NoAct} \cup {Moves[p][i].act : i \in DOMAIN Moves[p]}
  /\ Window \in Nat /\ MaxGames \in Nat /\ MaxPanics \in Nat

VARIABLES
  setup,
  cached,     \* the kept searcher with its shape, or NoSearcher
  lock,       \* the call that holds it, 0 when free
  calls,      \* the choose calls so far
  explore,    \* the explorer's GameState
  panics
engineVars == <<setup, cached, lock, calls, explore, panics>>

CallId == DOMAIN calls
Free == 0

\* SearcherShape::of; the board is the same for all positions of one graph.
Shape(p) == [root |-> Mover[p], active |-> Live[p]]
CanAct(p) == p \notin Over /\ Moves[p] # <<>>

NoAnswer == [act |-> NoAct, score |-> 0, depth |-> 0, salvaged |-> FALSE, book |-> FALSE,
             over |-> NoAct]
NewCall(p, g) ==
  [stage |-> "asked", pos |-> p, game |-> g, cancelled |-> FALSE, epoch |-> 0,
   own |-> FALSE, fresh |-> FALSE, s |-> NoSearcher, token |-> FALSE, watcher |-> "none", done |-> FALSE,
   depth |-> 1, best |-> NoAnswer, panicked |-> FALSE, action |-> NoAct, judged |-> FALSE]

\* GameState::opening
Opening(index) == [index |-> index, turn |-> 0, last |-> 0, seen |-> NoPosition, decision |-> NoAct]
-----------------------------------------------------------------------------
(* The client *)

Cancelled(cs) == [c \in DOMAIN cs |-> [cs[c] EXCEPT !.cancelled = TRUE]]

Reaches(p) ==
  LET step[k \in 0..MaxDepth] ==
        IF k = 0 THEN {p}
        ELSE UNION {{q} \cup {Moves[q][i].to : i \in DOMAIN Moves[q]} : q \in step[k - 1]}
  IN  step[MaxDepth]

\* A snapshot of the game at hand: later than the last, or the last repeated by a resync.
Snapshot(p) ==
  /\ Len(calls) < setup.calls /\ p \in setup.roots
  /\ \A c \in CallId : calls[c].game = explore.index => p \in Reaches(calls[c].pos)
  /\ calls' = Append(Cancelled(calls), NewCall(p, explore.index))
  /\ UNCHANGED <<setup, cached, lock, explore, panics>>

\* on_game_start, after the client has cancelled what ran.
GameStart ==
  /\ explore.index < MaxGames
  /\ calls' = Cancelled(calls)
  /\ explore' = Opening(explore.index + 1)
  /\ UNCHANGED <<setup, cached, lock, panics>>
-----------------------------------------------------------------------------
(* choose *)

Becomes(c, call) == calls' = [calls EXCEPT ![c] = call]
Searcher(c) == IF calls[c].own THEN calls[c].s ELSE cached.s

\* The explorer reads which game the search belongs to.
ReadEpoch(c) ==
  /\ calls[c].stage = "asked"
  /\ Becomes(c, [calls[c] EXCEPT !.stage = "entered", !.epoch = explore.index])
  /\ UNCHANGED <<setup, cached, lock, explore, panics>>

\* A cancelled budget and a position that cannot be acted on are answered with nothing.
Refuse(c) ==
  /\ calls[c].stage = "entered"
  /\ calls[c].cancelled \/ ~CanAct(calls[c].pos)
  /\ Becomes(c, [calls[c] EXCEPT !.stage = "done"])
  /\ UNCHANGED <<setup, cached, lock, explore, panics>>

\* A searcher is rooted at a seat, and the book does not spare it the check.
AssertRoot(s, p) == Mover[p] = s.root
BookResult(p) == [NoAnswer EXCEPT !.act = Books[p], !.book = TRUE]

\* What search_with_deadline does before its first iteration.
Started(call, s) ==
  LET ready == [call EXCEPT !.watcher = "polling"]
  IN  IF ~AssertRoot(s, call.pos)
      THEN [ready EXCEPT !.stage = "joining", !.done = TRUE, !.panicked = TRUE]
      ELSE IF Books[call.pos] # NoAct
      THEN [ready EXCEPT !.stage = "joining", !.done = TRUE, !.best = BookResult(call.pos)]
      ELSE [ready EXCEPT !.stage = "searching",
                         !.best = [NoAnswer EXCEPT !.act = Fallback(call.pos)]]
Begun(s) == BeginSearch([s EXCEPT !.left = Never])

\* For the mutation check: any kept searcher will do.
FittingAny(p) ==
  IF cached = NoSearcher THEN [shape |-> Shape(p), s |-> NewSearcher(p, setup.options)] ELSE cached

\* The kept searcher, rebuilt unless it was built for this shape.
Fitting(p) ==
  IF cached = NoSearcher \/ (cached # NoSearcher /\ cached.shape # Shape(p))
  THEN [shape |-> Shape(p), s |-> NewSearcher(p, setup.options)] ELSE cached

TakeLock(c) ==
  /\ calls[c].stage = "entered" /\ ~calls[c].cancelled /\ CanAct(calls[c].pos)
  /\ lock = Free
  /\ lock' = c
  /\ LET kept == Fitting(calls[c].pos)
         started == Started(calls[c], kept.s)
     IN  /\ cached' = IF started.stage = "searching" THEN [kept EXCEPT !.s = Begun(@)] ELSE kept
         /\ Becomes(c, [started EXCEPT !.token = FALSE, !.fresh = kept # cached])
  /\ UNCHANGED <<setup, explore, panics>>

\* The lock is held by a search that has not unwound yet: a searcher of this call's own.
Contended(c) ==
  /\ calls[c].stage = "entered" /\ ~calls[c].cancelled /\ CanAct(calls[c].pos)
  /\ lock # Free
  /\ LET s == NewSearcher(calls[c].pos, setup.options)
     IN  Becomes(c, [Started(calls[c], s) EXCEPT !.own = TRUE, !.fresh = TRUE, !.s = Begun(s)])
  /\ UNCHANGED <<setup, cached, lock, explore, panics>>

\* search_node_budget discards an interrupted iteration; search_with_deadline salvages it.
Salvages(r) == setup.entry = "deadline" /\ r.partial

\* One iteration; a raised token stops it at its first poll, a deadline or a node limit at any.
After(call, r) ==
  LET answer == [act |-> r.act, score |-> r.score, book |-> FALSE, salvaged |-> ~r.ok,
                 over |-> call.best.act, depth |-> IF r.ok THEN call.depth ELSE call.best.depth]
  IN  [call EXCEPT !.best = IF r.ok \/ Salvages(r) THEN answer ELSE @, !.depth = IF r.ok THEN @ + 1 ELSE @,
                   !.stage = IF r.ok THEN @ ELSE "joining", !.done = ~r.ok]

Iterated(c, r) ==
  IF calls[c].own
  THEN Becomes(c, [After(calls[c], r) EXCEPT !.s = Learned(@, r.s)]) /\ UNCHANGED cached
  ELSE Becomes(c, After(calls[c], r)) /\ cached' = [cached EXCEPT !.s = Learned(@, r.s)]

Iterate(c, polls) ==
  /\ calls[c].stage = "searching" /\ calls[c].depth <= MaxDepth
  /\ polls = 0 \/ ~calls[c].token
  /\ Iterated(c, Deepened([Searcher(c) EXCEPT !.left = polls], calls[c].pos, calls[c].depth,
                          calls[c].depth > 1, calls[c].best.score))
  /\ UNCHANGED <<setup, lock, explore, panics>>

\* Past the soft deadline no iteration is started; nor past the deepest.
Enough(c) ==
  /\ calls[c].stage = "searching" /\ calls[c].depth > 1
  /\ Becomes(c, [calls[c] EXCEPT !.stage = "joining", !.done = TRUE])
  /\ UNCHANGED <<setup, cached, lock, explore, panics>>

\* A search that panics drops its Stop guard as one that returns does.
Panics(c) ==
  /\ panics < MaxPanics /\ calls[c].stage = "searching"
  /\ Becomes(c, [calls[c] EXCEPT !.stage = "joining", !.done = TRUE, !.panicked = TRUE])
  /\ panics' = panics + 1
  /\ UNCHANGED <<setup, cached, lock, explore>>

\* The watcher: told to stop, or its budget is cancelled.
Watch(c) ==
  /\ calls[c].watcher = "polling"
  /\ calls[c].done \/ calls[c].cancelled
  /\ Becomes(c, [calls[c] EXCEPT !.watcher = "gone", !.token = ~calls[c].done])
  /\ UNCHANGED <<setup, cached, lock, explore, panics>>

\* The scope ends with its watcher, and the lock is given back, poisoned or not.
Join(c) ==
  /\ calls[c].stage = "joining" /\ calls[c].watcher = "gone"
  /\ Becomes(c, [calls[c] EXCEPT !.stage = IF @ = "joining" /\ calls[c].panicked THEN "done" ELSE "found",
                                 !.s = NoSearcher])
  /\ lock' = IF lock = c THEN Free ELSE lock
  /\ UNCHANGED <<setup, cached, explore, panics>>

\* The two looks at the budget after the search: the adapter drops a superseded answer, and
\* the explorer does not judge one.
Look(c) ==
  /\ calls[c].stage = "found"
  /\ Becomes(c, [calls[c] EXCEPT !.stage = IF calls[c].cancelled THEN "done" ELSE "judging",
                   !.action = IF calls[c].cancelled THEN NoAct ELSE calls[c].best.act])
  /\ UNCHANGED <<setup, cached, lock, explore, panics>>
-----------------------------------------------------------------------------
(* verdict *)

OpensATurn(p) == explore.last = 0 \/ MovesLeft[p] >= explore.last

Judged(p) ==
  LET turn == IF OpensATurn(p) THEN explore.turn + 1 ELSE explore.turn
  IN  [explore EXCEPT !.turn = turn, !.last = MovesLeft[p], !.seen = p,
                      !.decision = IF turn > Window THEN NoAct ELSE Coin[explore.index][p]]

\* For the mutation check: every search is taken for one of the current game.
StragglerNever(c) == FALSE

Straggler(c) == explore.index # calls[c].epoch

Verdict(c) ==
  /\ calls[c].stage = "judging"
  /\ LET p == calls[c].pos
         known == explore.seen = p
         after == IF Straggler(c) \/ known THEN explore ELSE Judged(p)
         drawn == IF Straggler(c) THEN NoAct ELSE after.decision
     IN  /\ explore' = after
         /\ Becomes(c, [calls[c] EXCEPT !.stage = "done", !.judged = TRUE,
                                        !.action = IF drawn = NoAct THEN @ ELSE drawn])
  /\ UNCHANGED <<setup, cached, lock, panics>>
-----------------------------------------------------------------------------
EngineInit ==
  /\ setup \in Setups
  /\ cached = NoSearcher /\ lock = Free /\ calls = <<>>
  /\ explore = Opening(0) /\ panics = 0

Choose(c) ==
  \/ ReadEpoch(c) \/ Refuse(c) \/ TakeLock(c) \/ Contended(c)
  \/ \E polls \in setup.polls \cup {0} : Iterate(c, polls)
  \/ Enough(c) \/ Panics(c) \/ Watch(c) \/ Join(c) \/ Look(c) \/ Verdict(c)

EngineNext ==
  \/ \E p \in setup.roots : Snapshot(p)
  \/ GameStart
  \/ \E c \in CallId : Choose(c)

EngineSpec == EngineInit /\ [][EngineNext]_engineVars
-----------------------------------------------------------------------------
(* Properties *)

\* No search runs on a searcher of another seat or another set of players, no two searches
\* share one, and none is refused by the searcher it is given (assert_root), however the calls
\* overlap: what panics are seen are those that befell a search.
SearcherFits ==
  /\ Cardinality({c \in CallId : calls[c].panicked}) <= panics
  /\ \A c \in CallId : calls[c].stage = "searching" =>
       /\ Searcher(c).root = Mover[calls[c].pos]
       /\ Searcher(c).multi = (Cardinality(Live[calls[c].pos]) > 2)
       /\ calls[c].own \/ lock = c

Judges(g) == {c \in CallId : calls[c].judged /\ calls[c].game = g}

\* The window of a game counts only turns this game's own searches were judged in: a straggler
\* of the last game does not shorten it.
GameCountsItsOwn == explore.turn <= Cardinality(Judges(explore.index))

\* The verdicts are "order-independent, idempotent": a turn is counted once.
TurnsAreCountedOnce == explore.turn <= Cardinality({TurnOf[calls[c].pos] : c \in Judges(explore.index)})

=============================================================================
