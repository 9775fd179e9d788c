------------------------------ MODULE Gauntlet ------------------------------
(***************************************************************************)
(* The match loop of virus-arena (gauntlet.rs, engine.rs, rng.rs, stats.rs *)
(* and bin/arena.rs) and its transcription in trainer/netgauntlet: games   *)
(* paired by colour and seed, played by a pool of worker threads.          *)
(*                                                                         *)
(* The game is a finite graph.  Engines are functions of what they depend  *)
(* on: a net of the position, an alpha-beta searcher of the position and   *)
(* of how many searches its table has seen; a side with a deadline is one  *)
(* of how the clock ran through its game as well, which no two games       *)
(* share.  Draws stand for SplitMix64, in percent.                         *)
(***************************************************************************)
EXTENDS Integers, Sequences, SequencesExt

CONSTANTS
  Opening,      \* the position a game starts from
  LegalAt,      \* [position -> Seq of actions]
  AfterMove,    \* [position -> [action -> position]]
  SeatAt,       \* [position -> 1..2]
  OverAt,       \* positions that are over
  WinnerAt,     \* [position -> 0..2]
  CapturesAt,   \* [position -> set of actions that take an opposing cell]
  AlphaMove,    \* [position -> [searches so far, 1 or 2 for more -> action]]
  NetMove,      \* [net -> [position -> action]]
  Clocks,       \* the ways the wall clock may run through a game
  TimedMove,    \* [clock -> [ply -> [position -> action]]]: what a search cut off by it answers
  Stream,       \* [derived seed -> Seq of draws in 0..99]
  DerivedSeed,  \* mix64 of a base seed and a number: a function on their pairs
  VerdictMin, GateMin,    \* VERDICT_MIN_GAMES, GATE_MIN_GAMES
  NoFlag, NoMove, NoClock

VARIABLE pools    \* [the processes that play a gauntlet -> None or their thread pool]

TurnActions == 3

Idle == [live |-> FALSE]
NoGame == -1

-----------------------------------------------------------------------------
(* engine.rs *)

NeedsNet(side) == side.engine = "mcts"

\* SideSpec::validate; a budget is [kind, amount].
SpecIsValid(side) ==
  /\ side.engine \in {"greedy", "ab-plain", "ab-enhanced", "mcts"}
  /\ side.budget.kind \in {"nodes", "depth", "ms"} /\ side.budget.amount > 0
  /\ ~(side.engine = "mcts" /\ side.budget.kind = "depth")

\* Whether the searcher an enhanced side holds is kept: it is, for the player it was rooted at.
Reused(side, memory, p) ==
  side.engine = "ab-enhanced" /\ memory # <<>> /\ SeatAt[memory[1]] = SeatAt[p]

\* What a side has searched with the searcher it holds after choosing at p.
Remembered(side, memory, p) ==
  CASE side.engine \in {"greedy", "mcts"} -> <<>>
    [] Reused(side, memory, p) -> Append(memory, p)
    [] OTHER -> <<p>>

\* Budget::deadline: only a wall-clock budget has one, so no other side consults a clock.
Timed(side) == side.budget.kind = "ms"
ClockOf(side, clock) == IF Timed(side) THEN clock ELSE NoClock

\* Side::choose of GreedySide, AlphaBetaSide and MctsSide; a search with a deadline answers what
\* the clock lets it reach, and an overrun is only reported.
SideChoose(side, net, memory, clock, ply, p) ==
  LET captures == SelectSeq(LegalAt[p], LAMBDA a : a \in CapturesAt[p])
  IN  CASE LegalAt[p] = <<>> -> NoMove
        [] side.engine = "greedy" /\ LegalAt[p] # <<>> -> (captures \o LegalAt[p])[1]
        [] side.engine # "greedy" /\ clock # NoClock /\ LegalAt[p] # <<>> -> TimedMove[clock][ply][p]
        [] side.engine = "mcts" /\ clock = NoClock /\ LegalAt[p] # <<>> -> NetMove[net][p]
        [] OTHER -> AlphaMove[p][IF Len(Remembered(side, memory, p)) > 1 THEN 2 ELSE 1]

-----------------------------------------------------------------------------
(* rng.rs *)

\* For the mutation check: the two games of a pair open differently.
GameSeedPerGame(seed, index) == DerivedSeed[seed][index + 1]

\* derive_game_seed: both colours of a pair replay one opening.
GameSeed(seed, index) == DerivedSeed[seed][(index \div 2) + 1]

Draws(seed, k) == Stream[seed][((k - 1) % Len(Stream[seed])) + 1]

\* Rng::below
Below(seed, k, len) == (Draws(seed, k) * len) \div 100

-----------------------------------------------------------------------------
(* One game *)

AHasSeatOne(index) == index % 2 = 0

\* SideNets::by_seat: the net follows the side, not the chair.
SideInSeat(job, index, seat) == IF (seat = 1) = AHasSeatOne(index) THEN job.sideA ELSE job.sideB
NetInSeat(job, index, seat) == IF (seat = 1) = AHasSeatOne(index) THEN job.netA ELSE job.netB

\* What play_game_with_nets takes from the run before its loop, and the clock where a side
\* consults it: all that a game depends on.
Seating(job, index, clock) ==
  [side |-> [seat \in 1..2 |-> SideInSeat(job, index, seat)], net |-> [seat \in 1..2 |-> NetInSeat(job, index, seat)],
   clock |-> [seat \in 1..2 |-> ClockOf(SideInSeat(job, index, seat), clock)],
   seed |-> GameSeed(job.seed, index), maxTurns |-> job.maxTurns, epsilon |-> job.epsilon, explore |-> job.explore]

GameBegins == [p |-> Opening, turns |-> 0, plies |-> 0, drawn |-> 0, memory |-> <<<<>>, <<>>>>,
               termination |-> "TurnCap", stopped |-> FALSE]

\* The random opening: a coin, and a move when it falls heads.
Coin(s, table) ==
  LET legal == LegalAt[s.p]
  IN  IF s.turns < table.explore /\ Draws(table.seed, s.drawn + 1) < table.epsilon
      THEN [heads |-> TRUE, move |-> legal[Below(table.seed, s.drawn + 2, Len(legal)) + 1], drawn |-> 2]
      ELSE [heads |-> FALSE, move |-> NoMove, drawn |-> IF s.turns < table.explore THEN 1 ELSE 0]

Legalised(p, move) == IF \E i \in DOMAIN LegalAt[p] : LegalAt[p][i] = move THEN move ELSE LegalAt[p][1]

Moved(s, seat, memory, coin, next) ==
  [s EXCEPT !.p = next, !.plies = @ + 1, !.memory[seat] = memory, !.drawn = @ + coin.drawn,
            !.turns = IF SeatAt[next] # seat THEN @ + 1 ELSE @]

\* The side searches whether or not the coin overrides it.
Acted(s, seat, side, searched, coin) ==
  IF ~coin.heads /\ searched = NoMove THEN [s EXCEPT !.termination = "Stalled", !.stopped = TRUE]
  ELSE Moved(s, seat, Remembered(side, s.memory[seat], s.p), coin,
             AfterMove[s.p][Legalised(s.p, IF coin.heads THEN coin.move ELSE searched)])

\* ply_ceiling, a guard against a runaway: a turn has no more actions than this.
Ceiling(table) == table.maxTurns * TurnActions

\* One pass of play_game's loop.
GamePly(s, table) ==
  LET seat == SeatAt[s.p]
      side == table.side[seat]
  IN  IF s.stopped THEN s
      ELSE IF s.turns >= table.maxTurns \/ s.plies >= Ceiling(table)
      THEN [s EXCEPT !.stopped = TRUE]
      ELSE IF s.p \in OverAt THEN [s EXCEPT !.termination = "Decided", !.stopped = TRUE]
      ELSE IF LegalAt[s.p] = <<>> THEN [s EXCEPT !.termination = "Stalled", !.stopped = TRUE]
      ELSE Acted(s, seat, side,
                 SideChoose(side, table.net[seat], s.memory[seat], table.clock[seat], s.plies, s.p), Coin(s, table))

\* The loop to its end.
GameEnd(table) ==
  FoldLeft(LAMBDA s, i : GamePly(s, table), GameBegins, [i \in 1..Ceiling(table) + 1 |-> i])

GameOutcome(index, winner, termination, turns, plies) ==
  [index |-> index, winner |-> winner, aIsP1 |-> AHasSeatOne(index), termination |-> termination,
   turns |-> turns, plies |-> plies]

\* play_game_with_nets: only a decided game has a winner, whatever the territory says.
Finished(end, index) ==
  IF end.p \in OverAt THEN GameOutcome(index, WinnerAt[end.p], "Decided", end.turns, end.plies)
  ELSE GameOutcome(index, 0, end.termination, end.turns, end.plies)
GameResult(job, index, clock) == Finished(GameEnd(Seating(job, index, clock)), index)

\* GameOutcome::outcome_for_a
OutcomeForA(game) ==
  IF game.winner = 0 THEN "Draw" ELSE IF (game.winner = 1) = game.aIsP1 THEN "Win" ELSE "Loss"

-----------------------------------------------------------------------------
(* bin/arena.rs: from flags to a run *)

\* resolve_net: two explicit names that disagree are refused.
NetClash(side, flag) == NeedsNet(side) /\ side.path # NoFlag /\ flag # NoFlag /\ side.path # flag
ResolveNet(side, flag, default) ==
  IF ~NeedsNet(side) THEN NoFlag
  ELSE IF side.path # NoFlag THEN side.path ELSE IF flag # NoFlag THEN flag ELSE default

\* A run's configuration, with the net each side plays; knobs are the cap and the random
\* opening, and fits says whether the board is the nets'.
GauntletConfig(sideA, sideB, netA, netB, games, seed, knobs, threads, fits) ==
  [sideA |-> sideA, sideB |-> sideB, netA |-> netA, netB |-> netB, games |-> games, seed |-> seed,
   maxTurns |-> knobs.maxTurns, epsilon |-> knobs.epsilon, explore |-> knobs.explore,
   threads |-> threads, fits |-> fits]

\* Options::to_config
ToConfig(flags) ==
  LET Spec(side, budget) == [engine |-> side.engine, budget |-> IF budget = NoFlag THEN flags.budget ELSE budget]
  IN  GauntletConfig(Spec(flags.a, flags.budgetA), Spec(flags.b, flags.budgetB),
                     ResolveNet(flags.a, flags.aNet, flags.net), ResolveNet(flags.b, flags.bNet, flags.net),
                     flags.games, flags.seed, flags, flags.threads, flags.board = 12)

\* GauntletConfig::validate
ConfigIsValid(job) ==
  /\ SpecIsValid(job.sideA) /\ SpecIsValid(job.sideB)
  /\ job.games > 0 /\ job.epsilon \in 0..100 /\ job.maxTurns > 0
  /\ NeedsNet(job.sideA) \/ NeedsNet(job.sideB) => job.fits

ArenaAccepts(flags) ==
  ~NetClash(flags.a, flags.aNet) /\ ~NetClash(flags.b, flags.bNet) /\ ConfigIsValid(ToConfig(flags))

\* netgauntlet's parse and validate: one engine, two artifacts that are not one file.
NetGauntletJob(a, b, games, sims, seed, jobs, knobs) ==
  LET side == [engine |-> "mcts", budget |-> [kind |-> "nodes", amount |-> sims]]
  IN  GauntletConfig(side, side, a, b, games, seed, knobs, jobs, TRUE)

-----------------------------------------------------------------------------
(* The worker threads *)

\* For the mutation check: an odd number of games is played as asked.
EvenGamesAsAsked(games) == games

\* even_games
EvenGames(games) == ((games + 1) \div 2) * 2

Threads(job) ==
  LET wanted == IF job.threads > 1 THEN job.threads ELSE 1
  IN  1..(IF wanted < EvenGames(job.games) THEN wanted ELSE EvenGames(job.games))

\* run_with_nets, to the spawn
PoolFor(job) ==
  [live |-> TRUE, job |-> job, next |-> 0, at |-> [w \in Threads(job) |-> NoGame],
   mine |-> [w \in Threads(job) |-> <<>>], ended |-> [w \in Threads(job) |-> "no"]]

\* fetch_add hands out each index once; past the last game a worker returns what it has.
Fetch(who, w) ==
  LET pool == pools[who]
  IN  /\ pool.live /\ w \in DOMAIN pool.at
      /\ pool.at[w] = NoGame /\ pool.ended[w] = "no"
      /\ pools' = [pools EXCEPT ![who] =
                     IF pool.next >= EvenGames(pool.job.games)
                     THEN [pool EXCEPT !.ended[w] = "returned", !.next = @ + 1]
                     ELSE [pool EXCEPT !.at[w] = pool.next, !.next = @ + 1]]

Finishes(pool, w, clock) ==
  [pool EXCEPT !.at[w] = NoGame, !.mine[w] = Append(@, GameResult(pool.job, pool.at[w], clock))]

PlayGame(who, w) ==
  LET pool == pools[who]
  IN  /\ pool.live /\ w \in DOMAIN pool.at /\ pool.at[w] # NoGame
      /\ \E clock \in Clocks : pools' = [pools EXCEPT ![who] = Finishes(pool, w, clock)]

\* A panic takes the worker and the games it had finished.
Panics(who, w) ==
  LET pool == pools[who]
  IN  /\ pool.live /\ w \in DOMAIN pool.at /\ pool.at[w] # NoGame
      /\ pools' = [pools EXCEPT ![who] = [pool EXCEPT !.at[w] = NoGame, !.ended[w] = "panicked", !.mine[w] = <<>>]]

AllEnded(pool) == pool.live /\ \A w \in DOMAIN pool.ended : pool.ended[w] # "no"

\* Every handle is joined; one that panicked turns the run into an error.
RunFailed(pool) == \E w \in DOMAIN pool.ended : pool.ended[w] = "panicked"

\* The games of the handles joined, each by its worker and its place in what that worker returned.
Joined(pool) == UNION {{<<w, k>> : k \in DOMAIN pool.mine[w]} : w \in DOMAIN pool.mine}
JoinedGame(pool, x) == pool.mine[x[1]][x[2]]

\* sort_by_key is stable: by index, then in the order they were joined.
Precedes(pool, x, y) ==
  \/ JoinedGame(pool, x).index < JoinedGame(pool, y).index
  \/ /\ JoinedGame(pool, x).index = JoinedGame(pool, y).index
     /\ x[1] < y[1] \/ (x[1] = y[1] /\ x[2] < y[2])

\* The games in index order, never in the order of completion.
Collected(pool) ==
  [i \in 1..Cardinality(Joined(pool)) |->
     JoinedGame(pool, CHOOSE x \in Joined(pool) : Cardinality({y \in Joined(pool) : Precedes(pool, y, x)}) = i - 1)]

Count(games, Holds(_)) == Cardinality({k \in DOMAIN games : Holds(games[k])})

\* Record, with the caps and stalls the summary names
Tally(games) ==
  [w |-> Count(games, LAMBDA g : OutcomeForA(g) = "Win"), l |-> Count(games, LAMBDA g : OutcomeForA(g) = "Loss"),
   d |-> Count(games, LAMBDA g : OutcomeForA(g) = "Draw"),
   capped |-> Count(games, LAMBDA g : g.termination = "TurnCap"),
   stalled |-> Count(games, LAMBDA g : g.termination = "Stalled")]

GamesOf(record) == record.w + record.l + record.d

\* Record::verdict
VerdictOf(record) ==
  IF GamesOf(record) < VerdictMin THEN "Informational"
  ELSE IF GamesOf(record) < GateMin THEN "Indicative" ELSE "Gateable"

\* Record::pooled_score against a threshold in percent
ScoreMeets(record, percent) == 50 * (2 * record.w + record.d) >= percent * GamesOf(record)

\* real_main: a tally with a stalled game is printed and the exit says it is not to be trusted.
ExitsClean(pool) == ~RunFailed(pool) /\ Tally(Collected(pool)).stalled = 0

=============================================================================
