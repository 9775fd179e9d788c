# vsbot in TLA+

vsbot plays a turn-based virus game against a server over one WebSocket, and
carries the tools that train it. This directory models the parts where a unit
test ends and interleavings, numbers or long games begin: the protocol client
that decides when to act, the tasks and threads it spawns, the clocks that bound
them, the rules engine, the evaluation and the two search engines, and the
offline pipeline of self-play, training, gauntlet and probes. TLC checks small
instances; TLAPS proves what matters most for every instance.

## The system

| Component | Source (`src/crates/` unless said) | State it keeps | Operations | Hard behaviour | Correct when |
|---|---|---|---|---|---|
| Client state machine | `virus-proto/src/bot.rs` | `BotCore` behind one mutex: phase, game, seat, position, version, searched version, cancel token, busy flag's start, last resync | one handler per server frame; `on_disconnected` | frames lost, repeated, late, malformed; the core read, unlocked and used | acts at most once per authoritative position, only in it, only on its turn |
| Search task | `bot.rs` `run_search` | its dispatch, its fallback, its answer | fallback, engine, check, enqueue | runs beside the read loop; overruns, panics, is superseded | a superseded answer never reaches the wire |
| Outbox, writer, session | `virus-proto/src/client.rs` | unbounded queue; socket | write, drop, fail, connect, disconnect | the queue outlives the socket | nothing stale is written |
| Challenger timer | `client.rs`, `bot.rs` `challenge_tick` | how far a tick has come | heal, challenge | check, unlock, send | one commitment at a time; an accept never wedges the client |
| Reconnect loop | `client.rs` `run_forever` | backoff | sleep, double, reset | what counts as a session's length | a flapping endpoint is retried ever more slowly |
| Turn clock | `virus-proto/src/clock.rs` | bank, last movesLeft, turn-ended flag | `allocate`, `spent`, `end_turn` | overlapping searches report late | a turn stays within its bound |
| Stop rules | `clock.rs` `verdict`, `vsbot/src/mcts.rs` `drive` | visits, halfway leader | one verdict per slice | a re-rooted tree's inherited lead | stops by the ceiling, early only on an earned lead |
| Pondering | `bot.rs`, `virus-proto/src/ponder.rs`, `vsbot/src/mcts.rs` `ponder` | the slot, its token; the session's inbox and tree | think, answer, tear down | a thread steered through a channel by two tasks | never simulates past a snapshot, always answers |
| Rules, snapshots, position key | `virus-core` | none; `State` is a value | `decode`, `legal_actions`, `legal_action`, `apply`, `outcome_winner` | elimination, turn rotation, movesLeft 0, the server's lagging flags | the position and its key survive every path; a running game can go on |
| Search position, evaluation | `virus-core/src/position.rs`, `virus-eval` | caches of a position | search actions, articulation, race, threats, score | samples, ties, scan orders, truncation | a fair sample; a cut costs what it severs; mirrored positions are worth the same |
| Alpha-beta, table | `virus-search` | transposition table, generation, killers, history | `search_with_deadline`, `search_nodes`, probe, store | abort in the middle of an iteration; entries of other positions and moves | the answer is worth its score; a mate is a mate |
| MCTS | `virus-mcts/src/search.rs`, `gumbel.rs` | the arena of nodes, the index, the plan | select, expand, back up, re-root, halve | several parents, batches, renumbering | values are conserved, a position has one node, the schedule is kept |
| Parallel MCTS | `virus-mcts/src/parallel.rs` | the shared tree, visits, virtual losses, the budget | claim, collide, expand, back up | workers on one tree | visits add up, virtual loss is undone, every run returns |
| Engine adapters | `vsbot/src/mcts.rs`, `alphabeta.rs`, `explore.rs` | a session's tree; a cached searcher; an opening window | `choose`, `ponder`, `on_game_start` | concurrent calls for different positions and games | a call never answers with another's state |
| Self-play | `virus-selfplay` | a game, its rows, the streaks of hopeless plies, statistics | search, resign, write, shard | the control arm; a shard's share of a generation | the control arm measures the counterfactual; rows are whole games |
| Arena | `virus-arena` (`gauntlet.rs`, `engine.rs`, `stats.rs`, `bin/arena.rs`), `src/trainer/netgauntlet` | the schedule's counter, results | resolve flags, play, tally | threads finish out of order | a pair of games favours nobody |
| Probes | `virus-arena/src/probes.rs`, `bin/probe.rs` | a dump, the candidates | replay, label, mine, select | recordings without board or moves left; repeats | probes are positions of their games; selection does not depend on the order |
| Generations | `src/trainer/generation.sh` | the directory of a generation and its stamps, the champion, the arena lock | self-play, train, gauntlet, report | runs stopped, failed, killed; other users of the box | rows, candidate, champion and report belong together |

They meet in five places. Frames go from the session's read loop into the
client's handlers; a handler spawns a search task; the task talks to an engine
(or to the pondering session) and puts an action on the outbox; the writer takes
it off. The mutex of `BotCore` is the only state the read loop, the tasks and
the writer share, and no lock is held across an `await`, so every lock section
is one step of the model and everything between two lock sections interleaves.
The engines share the rules with the client and nothing else. The offline tools
share files: a run of `generation.sh` finds what earlier runs left.

## Modules

Names follow the source: a helper of `impl BotCore` or of `State` is an operator
of the same name in CamelCase, a handler an action. Operators whose comment
begins with "Mutant" are deliberate bugs, each of which some property must
catch; no action uses them.

### The client

* **`BotClient`** is the core: `BotCore`, all frame handlers, the search tasks,
  the outbox, the writer and the session. `core` is one record because the
  handlers chain the helpers, and the helpers are operators from a core to a
  core (`Invalidate`, `DropPosition`, `Install`, `GoIdle`, `HealPending`,
  `MayAct`, `Valid` for `action_still_valid`). The frames that refresh the
  position and those that may also start a search are `OnRefresh` and
  `OnDriver`. A task's `pc` names the lock section it is about to enter, and `tick`
  that of the challenger's timer: it heals, checks the phase, unlocks, and sends, and
  frames come in between.
  `answers` and `answered` are history: the actions that reached the socket.
* **`TurnLicence`** is the abstract promise: every authoritative position is a
  numbered licence to act once. `BotClientProps` shows that `BotClient`
  implements it (`position_version` numbers the licences) and states the other
  properties; `MCBotClient` gives the constants their values.
* **`Reconnect`** is `run_forever` around `next_backoff`, in whole seconds. It
  keeps the order of the source: the `Instant` is taken before the session and
  read after the sleep, so a delay counts as part of the session's length.
* **`TurnClock`** is `TurnAllocator` with the client's calls of it: `allocate`
  when a search starts, `end_turn` when an installed position is not ours,
  `spent` when a search returns, whoever it was for. The server side is its
  truth only (whose turn, how many actions left). Durations are ticks; the
  source divides them in `f64`, so a quotient may be either neighbouring tick
  (`Near`), and what holds holds for both. `used` and `count` are history, as
  are `rejected` and `interrupted`: they name what the orderly properties exclude.
* **`PonderSession`** is the slot in `BotCore`, `maybe_ponder` with its two lock
  sections, `hand_to_ponder`, the step channel and the session's thread. There
  is one step of each kind per version with a token of its own, so a step names
  its token. `panicked` is history. A search that was handed over waits for a
  `Resolve`: its session answers, or ends and takes the queued replies along.

### The game

* **`VirusRules`** is `virus-core`: cells, connectivity from the base, the
  enumeration and the check of actions, `apply` with elimination and turn
  rotation, construction, `decode` and `outcome_winner`. A position is one
  record, since `apply` copies the state. The Zobrist key is modelled as the set
  of the table entries folded into it, so XOR is symmetric difference and two
  keys are equal exactly when every entry is: what is checked is that the
  incremental updates are right, not that 64 bits do not collide. The flood
  fill is stated as the least set closed under "own neighbour of"; scratch
  buffers, text forms and off-corner bases are left out.
* **`SearchPosition`** extends it by what the searchers see: the enumeration in
  board order, Tarjan's visit with its low-links, the ranking of cells worth
  defending, and the bounded sample of neutral placements. The caches a position
  is built with and the lazy path of an applied one are both there.
* **`Evaluation`** is `virus-eval` on top of it, in the code's integers with the
  code's truncation: components, cut losses, the race for open cells, threats,
  predatory cuts, the weights, and the score relative to the other seats.

### The engines

* **`SearchTree`** is the single-threaded searcher: selection to a leaf, the
  batch with its virtual losses, expansion, transpositions through the index,
  back-up in one frame, the Gumbel plan and its halving, re-rooting. A game is a
  finite graph (`Moves`, `Mover`, `Over`, `Value`); keys may collide. PUCT and
  Gumbel scores are floating point and only order the edges: any edge may be
  selected and any ranking may come out.
* **`MctsEngine`** is the adapter around it: `drive` with its slices and
  verdicts, and three callers: a pondering session that reuses, drops or rebuilds
  its tree, a cold `choose`, and one ply of self-play. `MCMctsEngine` is a game
  of ten positions with a transposition, a finished, a stuck and an
  out-of-domain position and a colliding key.
* **`ParallelTree`** is the workers of `ParallelMcts` on one shared tree. A step
  ends wherever another worker may look: a `OnceLock` is read or set, a flag
  exchanged, a sum loaded or exchanged. `select` is left open: a descent takes
  any edge, so what holds does not depend on the selection formula. An edge is
  named by the node it leads to; `outcome` and `edges`, which no node ever has
  both of, are read in one step, and `fetch_add`s in a row are one step, since
  nothing but `select` reads them between. A root without an action runs
  nothing and is excluded by `RootAssumption`. `due` is history.
  `MCParallelTree` holds the trees.
* **`SearcherState`** is the game as the alpha-beta searcher sees it and the
  searcher as it is kept from one search to the next: what is fixed when it is
  built (seat, number of players, options) and what a search leaves in it.
* **`AlphaBeta`** is the search and its table. A search is a function from a
  searcher to a searcher; the budget is the number of polls of `running` that
  still answer yes, so a stop by the clock, the node limit or a cancellation is
  a stop at some poll. Ordering, killers, history, aspiration, scouts,
  reductions, mate distances, max^n, the salvage of an aborted iteration and the
  replacement in the table are the code's.
* **`AlphaBetaEngine`** is the adapter and the opening explorer around it: the
  cached searcher behind a lock that is only tried, the watcher that bridges
  cancellation, panics, and the window of exploring turns with its epochs.
  What one deepening makes of a searcher is its constant `Deepened`, which the runs
  give the value `Iteration` of `AlphaBeta`: nothing in the adapter depends on which
  one it is. Calls overlap as the client's searches do. `AlphaBetaProps` brings search and
  adapter together and states what the answers are worth; `MCAlphaBeta` holds three
  games.

### The offline tools

* **`SelfPlay`** is one self-play game, its rows and statistics, and the shard
  process. What the searches of a game say is data (`Script`), since a search is
  deterministic in the net, the seed, the game and the ply.
* **`Gauntlet`** is the match loop of the arena and its transcription in
  `netgauntlet`: flags, sides, seeds, one game, the worker threads and the tally.
  What a side with a node or depth budget answers is a function of what it sees; what
  one with a time budget answers depends on the clock (`Clocks`, `TimedMove`), and
  every game may meet another one. `gauntlet.rs` (lines 14 and 302) claims no more.
* **`Generation`** is `generation.sh` over both: four stamped stages, the
  directories, the shards, the training container, the gauntlet's instances and
  lock, the pooled report; and what else happens: SIGKILL and signals that run the EXIT
  trap, failing tools, a `cat` whose failure nobody sees, another champion promoted,
  another arena started. What the script does to the lock it does in steps: `pgrep`,
  `mkdir`, the trap, `rmdir`, `trap - EXIT`. `cut` and `short` are history.
* **`ProbeMine`** is the miner of probe positions, over `SearchPosition`: the
  replay of a recording through the rules, labels, classes, selection, and mining
  from games of the engine's own. `MCProbeMine` writes the recordings by playing, and
  spoils some. Names sort as text, `t10` before `t9` (`ReadsBefore`, for numbers
  of up to four digits); the recordings of the run are too short for that to show.
* **`MCGeneration`** and **`MCOffline`** put the two in one run. They share
  nothing; the run's behaviours are those of one or of the other.

`BotClientProofs` (with the reconnect loop), `PonderSessionProofs`, `VirusRulesProofs`,
`ParallelTreeProofs`, `MctsEngineProofs`, `AlphaBetaProofs` (the alpha-beta adapter and the turn
clock) and `GenerationProofs` hold the theorems, `SumLemmas` what they need to know about
finite sets of numbers and sums over them.

### The environment

The server is open: in `BotClient` any frame of the kinds in `Sends` may arrive
whenever the socket is up, with any game id, any snapshot or a malformed one.
Loss, repetition and delay need no action of their own. `Orderly` restricts it
only to greeting a connection with one `welcome` before anything else, which
the matchmaking properties need and the acting ones do not. In `PonderSession`
a frame is what it does to the position; which frames do what is `BotClient`'s.
In `MctsEngine` a session may be asked about any position next, of this game or
another, and in `AlphaBetaEngine` calls start, overlap and are cancelled at will.

Time is nondeterministic: `GraceRunsOut` and `CooldownRunsOut` may happen at any
moment, the engine may overrun at any moment, a drive may end between any two
slices. A property that holds under this holds under every clock. Only `MctsEngine`
counts: its stop rules compare times, so a slice lasts its ticks and may overshoot.

## Runs

| Run | Question | Bounds |
|---|---|---|
| `acting` | Any frame in any order, searches overlapping, the socket dying: does the client ever act twice on a position, on an old one, out of turn, or illegally? Does it implement `TurnLicence`? | two games, four positions (two boards of ours, the `movesLeft` 0 transient, theirs), two live searches, two queued items, four version changes |
| `matchmaking` | Lobbies, challenges and the optimistic busy flag: is the flag always under a deadline, and does a client whose accepted game never comes stop waiting? | one game, every lobby frame, challenger on, its tick in three steps, four version changes |
| `reconnect_defaults` | Does a flapping endpoint end at the longest delay? It does not | the shipped 1 s, 30 s and 30 s, flaps of up to two seconds, sessions of up to 35 |
| `turn_clock` | Does a turn stay within its bound, whatever its actions use and whichever snapshots are rejected? | budget 8, floor 1, overhead 1, two searches at once, four searches in a turn before interruptions stop |
| `ponder_session` | Until a session panics, does one ever think past a snapshot? Is every search that waits in its session's hands, and does it hear of its end? Is a wanted answer ever cut short, a position pondered twice? Does every dropped session end? | two games, two threads, four version changes, sessions may panic |
| `rules` | Every game of two, three and four seats: is activity mobility, is a snapshot read back as itself, is the search's sample fair, do cuts cost what they sever, are mirrored positions worth the same? | two rows by five columns, played to the end; four actions are too many |
| `mcts` | One engine pondering, answering, re-rooting, played cold and in self-play: are values conserved, is the DAG free of duplicates, is the halving schedule kept, is an early stop late, is every question answered, from its own tree, and one without an action at once? | ten positions, one of them finished, two configurations without and one with Gumbel, batches of one and two, re-roots of up to two plies, two steps a session |
| `parallel_tree` | Two workers on one tree: is a leaf evaluated by one of them, do backups balance, does every run return? | a root with a finished child and one whose only child is stuck; batches of two, five simulations or two timed rounds; workers may panic |
| `alphabeta` | Three games searched with and without enhancements, stopped at chosen polls, by overlapping calls: is a score the worth of its action, a mate a mate, a salvaged answer proved? Does a call get a searcher that fits, and a game's window count its own turns? | eight depth-three games of two (six evaluations, with and without enhancements), three players with one eliminated, a forced end; two calls, two games, one panic |
| `offline` | Self-play, training, gauntlet and report over several runs of the script: do the files belong together, does another user of the box keep its lock, do pairs of games cancel (timed arenas are among the jobs, and need only be complete)? And dumps mined for probes | two generations, two games, two shards; three runs, two runs and a fault or a move of another user, or one run and both; fourteen recordings in thirty-odd arrangements on three by four cells |
| `stale_slot` | Does a session never think past a snapshot, panics included? Not when a dead session's search drops a later slot | as `ponder_session` |
| `salvage` | Does a cancelled search never answer with a worse action? It does | two evaluations, eleven polls |

**Why the bounds are enough.** Two games and two boards are what a stale result
needs to be confused with a current one; two searches overlap; four versions
reach game start, new snapshot, drop and restart in one behaviour. `MaxVersion`
and `MaxOutbox` only disable frames and enqueueing, never a task, the writer or
a timer; `PonderSession` stops when its last version is used, so its runs do not
check deadlock. In `TurnClock` a budget of 8 shares as 4, 2 and 2 with the
source's weights and is exhausted by two extended actions, so the floor and the
cap on the extension both bind.

On the 2×5 board all 25,765 positions are reached, among them games that end
with nobody left (winner 0), two seats eliminated by one action, a mover
eliminated in the middle of its turn, neutrals of two seats, own cells cut off
from their base, and snapshots `decode` refuses; deadlock is off because games
end. The sampler's limits shrink with the board: with `ExactBranchLimit` 5 and
three defensive cells most openings of a turn are sampled and many are not. What
does not fit is the last limit: so few pairs arise that `MaxStrategicPairs`
never cuts the list. The cost of a cut is compared on every position, with the
board scanned in its own and in mirrored order.

In `ParallelTree` leaf values are powers of a base no visit count reaches, so a
value credited to the wrong edge, twice or never changes a sum; two workers with
two descents each collide, meet their own claims, reclaim a leaf published a
step before, and race the last three of five simulations. Deadlock is off
because the caller stops after `MaxRuns`. In `MctsEngine` the two orders of two
actions meet in one position, so a re-root renumbers a shared child and drops a
parent of it; two finished positions collide on their key, and the property on
duplicates says so (`collisions`). `MaxSims` stops the rounds of a searcher
without a schedule, never a step under way.

In `AlphaBeta` the transposition table has eleven slots for forty-three
positions, so entries of other positions and of earlier depths are met all the
time; evaluations lie in a range that ties and aspirations of two fail both
ways. Where the searcher was used before or reductions are on, its answers are
not minimax values by design; there only `MateIsReal` and the adapter's
properties apply. The generation wraps at 4 instead of 64.

In `Generation` one game is called wrongly by the resignation rule and one
rightly, two games are dealt to one or two shards, and three runs are what it
takes to resume, to redo a stage and to go on. Recordings come in lists of four
that hold two games with a common position, whole, resigned, undecided and
unsound ones, and one list of all fourteen; on three by four cells a placement
costs between nothing and half of a seat's cells.

**Fairness.** `Reconnect` is weakly fair, so that its counterexample is one of a loop that
runs: an endpoint answers or refuses in the end, and a sleep ends. In `PonderSession` the read loop finishes the handler it
is in, a spawned task runs, and a session's thread is scheduled and its drive
stops at its ceiling; nothing makes frames come, and no timeout has to fire.
`AcceptedGameComesOrHeals` needs that the grace period runs out and that the
challenger's timer ticks while the session is up and finishes its tick (`Tick`): wall-clock
timers, each on its own task. Nothing is assumed of the server. In `ParallelTree` every worker thread is
scheduled and the caller joins its workers; no particular step of a worker, and
no outcome of an exchange, is assumed. In `MctsEngine` the engine's own thread
runs (`WF_vars(Work)`); nothing makes the client ask.

## What the code does that its documentation denies

| Run | Code | Documentation |
|---|---|---|
| `stale_slot` | `bot.rs:1064` drops the slot, whatever it holds by then, without cancelling its token | `ponder.rs:27` "never simulates past a snapshot" |
| `reconnect_defaults` | `client.rs:109` reads the session's length after the sleep, so at the shipped 30 s and 30 s the longest delay alone is a healthy session, and the delay falls back to 1 s | `client.rs:118` "an immediate accept-then-drop keeps climbing"; the test at `client.rs:197` ends at the ceiling, without the sleeps |
| `salvage` | `searcher.rs:1031` answers with the best action of the iteration that was cut off if it beats that iteration's lower bound; in the re-search after an aspiration that failed low the bound is minus infinity, and the first action looked at will do | `searcher.rs:120` "can never answer with a worse move than the last completed iteration" |

### Observed while modelling

These have no run of their own. The models contain them, and a reader who states
the doc's sentence as a property will find it violated.

*The client.*
* `bot.rs:582` sets `InLobby` during a game, after which a closing lobby goes
  idle; `bot.rs:596` says "A lobby closing never ends a game in progress".
* `bot.rs:948` charges a late search to whatever bank is open; `clock.rs:97`
  speaks of splitting "a turn's wall clock across the turn's actions". `TurnBound`
  speaks of games in which no search was interrupted, and does not see it.
* `bot.rs:1158` checks the phase under the lock and `bot.rs:1174` sends after it, so a
  challenge may leave a client that has just accepted another game.
* `client.rs:136` revalidates only guarded actions, so a join, accept or pong
  queued before a drop is written after it, which `bot.rs:543` rules out.
* `bot.rs:270` drops a position without ending the turn, so a turn of neutrals
  whose follow-up snapshots were rejected leaves the next turn what it left of
  its bank; the `rejected` history in `TurnOpensAFullBank` is this case.

*The engines.*
* `parallel.rs:615` hands what collided with a panicked worker's claim back for
  ever on a forced line, so the panic that line 641 promises to raise never is;
  hence `EveryRunEnds` speaks of runs without a panic. And `parallel.rs:596`
  warns that a contended `run_sims` can fall short; it never does.
* `vsbot/src/mcts.rs:64` and `:370` take the root's visits for the size of the
  tree that survives a re-root. In a DAG a kept child has visits, and a subtree,
  from a parent that was dropped (`VisitsBoundTheTree` in `MctsEngine` states it).
* `explore.rs`: a verdict that comes for an earlier position of a turn after one
  for a later position counts a second turn, so the window is not
  "order-independent" (`TurnsAreCountedOnce` in `AlphaBetaEngine`).
* `alphabeta.rs:262` says a poisoned lock "is treated as an empty cache"; the
  searcher that panicked is taken over as it is.
* `analysis.rs:60` says another scan order "yields different `cut_loss` values".
  It does not: `CutsSeverTheirCost` holds for two orders and equals a definition
  without one.
* `zobrist.rs:10` and `snapshot.rs:103` argue as if a stuck player could get a
  target back and activity were not a function of the grid. With corner bases it
  is (`ActiveIsMobility`). The code is right either way, since it keeps activity
  in the key.

*The offline tools.*
* With `errexit` off in the stages, a `cat` that fails (`generation.sh:271`) leaves
  fewer rows than games; the validator looks at each row and has no count, so a prefix of
  whole lines is stamped (`short` in `RowsAreTheGeneration`). The checks of a new candidate
  lose their exit status, too (`generation.sh:345`; `run_stage` runs under `||`, line 240): one of
  another shape is stamped and goes to the gauntlet, where line 340 has "a trainer that ignored
  --channels/--layers is caught here rather than in the gauntlet". A run ended by a signal between `rmdir` and `trap - EXIT`
  (`generation.sh:415`) runs `rmdir` again, on a lock that may by then be another's; one ended
  between `mkdir` and the trap leaves the lock behind. `OthersKeepTheirLock` says that
  there is no other such window. Rows that failed their validation stay on disk and enter the
  window of later generations. The champion's snapshot is copied in place, so a
  torn copy is kept for ever. A run killed between clearing two stamps, or with
  its training container still at work, lets a report pool the logs of another
  candidate (`cut` in `ReportIsOfTheCandidate`). `Killed` is SIGKILL; on the signals of
  `Terminated` bash runs the EXIT trap.
* `virus-selfplay/src/lib.rs` says a run killed part way leaves whole games; a
  buffered writer leaves a torn line.
* `probes.rs`: the miner rebuilds each turn with three moves left, so a recorded
  turn that lacks its last action is not noticed; and the turn cap of
  `mine_self_play` ends a game after the first ply of the turn it names.

## What is proved

`TypeOK` is proved for every module of the client, for the rules and for the
shared tree. The assumptions are those named in the modules (`ASSUME`), no others.

**Acting** (`BotClientProofs`): for every set of games, seats, positions and
tasks and every server, `VersionIdentifiesPosition`, `OneActionPerVersion`,
`SupersededSearchIsCancelled` and `WrittenActionIsSound` hold and the client
implements `TurnLicence`. None is inductive alone. `IInv` adds: the core holds a
position only with a game; everything in flight carries a version no higher than
the core's, and at the core's own version carries its game, seat and position; a
version in flight or answered has been searched while it is current; and an
uncancelled search is the core's own, at the core's version. The argument turns
on one relation between two cores (a move): a handler either keeps version,
game, seat and position or takes the version strictly up. Every helper is a
move, moves compose, a move keeps `IInv`, and a move is a `Supersede` step of
`TurnLicence`; each handler then needs one line, and the remaining work is in
the task's and the writer's steps.

**Matchmaking** (`BotClientProofs`): `BusyFlagHasADeadline`, against any server;
and, if the server welcomes each connection first and once (`Orderly`),
`IdleIsUncommitted`: an idle client has no game, no position and no accept it
waits for. The second needs the same of a core that is not registered yet, since
that is the one `on_welcome` makes idle.

**Reconnecting** (`BotClientProofs`), for every configuration that makes sense (`ConfigOK`):
the delay stays within its bounds; and where `ReconnectMax >= StableSession`, as in the shipped
values, the longest delay is never held: after it the delay is the shortest, whatever the
session was (`CeilingIsNotHeld`). So what `reconnect_defaults` finds is no matter of its bounds.

**The clock** (`AlphaBetaProofs`): for every budget, floor and overhead,
`TurnOpensAFullBank` and `TurnBound`. The first rests on one fact about a known
turn (a bank marked as ended, or a `last` below the moves left, exactly at the
turn's start); the second on a balance kept by `TurnInv`: bank, running search
and time used always add up to no more than the turn plus what the actions made
so far may exceed it by. The lemmas on `Targets` and `Ceilings` do the division.

**Pondering** (`PonderSessionProofs`): `SlotIsOfTheGame`, `LiveStepIsCurrent`
and `NoAnswerIsLost`. For the second the invariant is that an uncancelled token is the slot's or
the current search's, so cancelling those two cancels everything; a panic is the
one way a token escapes it, hence the condition. For the third (a search that waits has its
`Answer` in a session's hands, also where sessions panic) it is `Handed`: a session ends on its own only
with an empty queue, and whatever a panic takes along is resolved in the same step. That the
session then comes to it is the other half of `HandedIsResolved`, which is liveness. `OneStepPerSnapshot` and
`LiveAnswerIsLast` need no such condition. They rest on `Sequenced`: every step a
session holds is of no later version than the core's; one of the core's own
version is what the turn calls for and was the one step for it (`Placed`, from
`searched_version` and `pondered_version`); so a step that is appended is newer
than all there are, and a session only ever loses steps from the front.

**The rules** (`VirusRulesProofs`): `ActiveIsMobility`, `DecodeAgrees` and eight
more (the key is what recomputing it gives, a mover can act, the enumeration is
exactly what the check accepts, ...), for every board of at least two by two with room for its seats and two to four players.
`Sound` is the inductive invariant: typed, seated (bases stand), settled, the key
holds, and activity is mobility. The heart is `StuckForEver`: whatever an action
does to the board, a seat without a move stays without one. It is shown through
regions, the sets closed under own neighbours: a stuck seat's region is walled
in by cells nobody can soften, and the mover's capture lies outside it. The key is
split into sections (cells, current, moves left, active, neutrals) on which each
setter acts alone.

`SamplesAreFair` adds what a search is offered (`SearchTriesAFairSample`), for every
board, every limit of the sample and every cut the visit may find: what the sample
promises rests on how it is put together, not on which cells the visit calls cuts.
Lists that are flattened (`Flattened`) and the three folds that add one element at a
time (`FoldGathers`: listing without repeats, shortlisting, giving up safe cells) are
each described step by step, and then each part of the sample: the board order lists a
set once (`InOrderLists`), a list's pairs are the unordered pairs of its cells
(`PairsWithinLists`), the pairs that come first name every shortlisted cell and are few
enough that none is dropped (`ReservedFacts`, `SampledFacts`, where
`SampleAssumption`'s `MaxStrategicPairs > MaxDefensive` is needed), and the shortlist is
all the cells worth defending where they fit (`DefensiveFacts`).

**The miner** (`VirusRulesProofs`, over `ProbeMine` and the lists above): `ProbesExtreme`,
`ProbesAreTheExtremes` for every board, configuration and dump. A recording may hold any turns of any
seats, legal or not, any cells and any result; assumed is that it numbers its turns apart and that no
two recordings of a dump share the part of their id that names a record (`IsDump`, which `MCOffline`'s
`DumpsAreRecorded` evaluates on the run's dumps). Eight characters of an id could collide: two placements
of one swing, turn and name would then stay in the order of the dump, and a selection that has room for
one of them would depend on it. `MInv` says no more than that what was mined is what the dump gives. The work
is in what that is, fold by fold: a replay starts every turn from a board whose key is right, or refuses the
recording and says why (`RecordingReplays`); each game adds to the counts what `AddsTo`
says and its own candidates, so the totals are sums over the *set* of games (`GamesTally`) and the candidates
their union; the candidates of distinct turns are strictly ordered (`BeforeIsStrict`), so there is one
way to list them (`OrderedAscends`, `OneOrder`), whatever order they came in; two of them have one key
exactly if they have one snapshot (`KeyIsThePosition`); and taking passes over a candidate only if its key has been seen or
if its class is full of earlier ones (`TakeFacts`, `SelectionFacts`), which are the more extreme.

**The shared tree** (`ParallelTreeProofs`): for every tree, number of workers,
batch and budget, `TypeOK`, `ClaimsAreExclusive`, `CollisionIsWithAnother` and
`BackupsAddUp`. The invariant adds that a thread's descents fit its claim and each walks at least
one edge (the root is expanded for good), that a descent in progress has one
left to make, and that between batches and outside a run a thread holds no
claim. The last is what a panic keeps from being true of a run, and why the
run's end is only checked. The statistics are out of balance whenever a worker is
between two of its relaxed additions; `Balanced` says by how much. The `vl` of an edge is
the number of descents that hold it, in progress, waiting for their value or half
backed up; `flights` and `visits` are the sums of `vl` and `n` over the children at every moment;
and `w` is short of the sum below it by exactly what the backups under way still owe, which is the
leaf's value at the one edge a backup stands on. Each step moves what it adds
from what is owed to what is booked, and between runs nothing is owed. That every
edge makes the node it leads to (`ShapeAssumption`) keeps two edges from
sharing a sum. The lemmas on sums (`SumLemmas`) start from the fold's definition: a sum takes an element out,
follows a change of one term, is additive; where that needs an induction, it goes
through a least counterexample among the subsets.

**The tree of one engine** (`MctsEngineProofs`): `DagIsDuplicateFree`,
`AnswerIsSearchedThere`, `EarlyStopIsLate`, `ValueIsConserved` and `ScheduleIsKept`, for every
game, evaluation, configuration and session. The inductive invariant `EngineInv` has four parts.
`TreeInv` is the arena's: edges lead to the node of the position the action leads
to; every node but the root has a parent and is deeper by `Depth`, so no edge
leads back to the root; the index finds every position there is, and no two nodes
share one, until two finished positions collide on their key. `StepOK` is about
the step being taken: a leaf waits for its value exactly while a round is pending, and every
descent of a round starts with a root edge, one the plan asked for; so a round
that is backed up leaves the root a visited edge. A re-root keeps all of this, because what survives
is numbered by a bijection of what lies below the new root. `DriveOK` ties the
drive to the session whose step it is, and `Searched` keeps an answered position
at the root it was asked of; a drive has a root where the game goes on. An early stop is late by arithmetic: the leader's
lead is no more than the simulations of this drive, and the rate at which they came cannot close it
before the ceiling, so more than half of the ceiling has gone. Induction over numbers (depths, the
length of a list) goes through least counterexamples.

`ValueIsConserved` needs the books of the tree (`Books`). What arrived at a node is what went on
along its edges and what ended there (`Booked`). The descents in hand are paths from the root,
deeper at each stop, so none passes a node twice and a backup books it once. The first tree of a
session has a visit at the root for every simulation of the drive and counts at each node what was added there
(`FirstTree`); a re-rooted one has lost visits at its root and is bounded only (`CarriedTree`).
The sums are those of `SumLemmas`.

`ScheduleIsKept` needs `Scheduling`: only self-play has a plan, and what the plan has
scheduled is the simulations done and the descents under way, never more than the budget or the
phase has (`InBudget`). The candidates take turns (`Even`). There are more than 2^p of them
while p halvings are to come after this phase (`Halvable`), so none is asked of fewer than two; and a
phase's share, times the phases left, fits what is left of the budget (`Affordable`), by how
`PhaseSize` divides. Powers of two double because the subsets of a set do.

**The alpha-beta adapter** (`AlphaBetaProofs`): `SearcherFits` and `GameCountsItsOwn`, for every
game, number of calls and of games, and whatever the search does: `Deepened` is any
operator, and of what it returns only the fields a search assigns reach the searcher (`Learned`). The first
needs `FitInv`: the cached searcher was built for the shape it is filed under, the holder of the
lock searches in a searcher of its own position's shape, so `assert_root` refuses nothing, and the calls
that panicked are counted. The second needs `CountInv`: a call of an earlier game is
cancelled before the next game's window opens, so a call that reads the epoch uncancelled reads its own
game's, and the straggler, whose epoch is older, leaves the window alone.

**The generation script** (`GenerationProofs`): `LockIsReleased`, for any flags,
any number of generations, shards and instances, and whatever others on the box
do. It needs where a run may hold the lock (`OnlyInTheGauntlet`): `Autoscale`
overwrites `took`, so a run that came there with the lock would lose track of it.
The same invariant gives `OthersKeepTheirLock`: a run that holds no lock has no trap that
would remove one, but between `rmdir` and `trap - EXIT`.
`ReportIsOfTheCandidate`, likewise: a report pools the logs of the candidate it
is stamped with, unless the generation was `cut`. `FilesInv` says what the files
of every generation (`DirOK`) are at each point of a run: outside the generation at work
they are whole or cut, inside it each stage's files follow from the stamps of
the stages before; a kill can leave any of these points, and what a killed run's container
still writes, it writes into a generation that is cut.
`RowsAreTheGeneration`, on top of it: once self-play is stamped, the rows are every
game of the generation once, whole and the snapshot's, unless `cat` failed (`short`). `RowsInv` says what shards and
rows hold at each point on the way: a shard that plays has played what is no longer left of
its share (`ShardWhole`), the first k shards concatenated are the games that fall to them
(`WhileConcatenating`), and the rows that are validated or stamped are all of them. A torn
snapshot lets no shard finish, so it never gets that far. That a
game's rows count what its searches counted is arithmetic: `quantize` deals what rounding down
leaves over to as many ranks, one each, and there are enough (`SumLemmas`). `PlayIn`
folds over the positions of a game; the proof takes the fold pass by pass (`Passes`)
and looks for the first pass that goes wrong. It assumes of a search what its code gives:
visits that are counts, at least one of them (`--sims` is at least 1), and a policy that adds
up to one; that a torn network file does not load; and that a missing file is not a file of
games.

`PairsCancel`, for any number of games and threads and any order of theirs: `PoolOK`
says of a pool of workers that what they hold was handed out, that no game is in two
places, that none is lost but with a worker that panicked, and that a worker returns only
when nothing is left. So a run in which every handle joins has every index of an even number once,
and the sort puts it at its place (`CollectedAll`). In a node or depth budget (`Reproducible`)
all a game depends on is `Seating`; with the sides exchanged it is the seating of the other
game of the pair, and so the same game seen by the other side (`MateIsOpposite`). Of a timed job
only the first part holds: every index is there once. Pairing the games is a bijection, hence wins
and losses trade places. It is assumed that the numbers of games and of threads are counts.

`ControlIsTheCounterfactual`, for any script, threshold, number of plies and share of control
games: what a shard reports of its control arm is what stopping those games would have changed.
Both sides are an operator over data, so the proof compares two runs of one fold. It plays every game
twice, under the rule and to the end. The two are twins up to the ply where the rule first
fires (`TwinsGo`, `GamesAreTwins`): the same rows, counts and streaks, and a streak is the
mover's own last hopeless positions (`Trail`). From there one game is over, and the other keeps what
it had been decided then: a game played out notes its first verdict only. `ReportTells`
reads the statistics off the two games, and `ShardsInv`, on top of `LockInv`,
`FilesInv` and `RowsInv`, carries that over a shard's games: at every moment of a shard that has not
failed, its report adds up over the control games it has finished (`SavedGrows`), and each
other game it wrote is the cut one. A forced move is searched and judged but
leaves no row, which is why the rows are counted over `Unforced`.

**Only model-checked.** Liveness (`DroppedSessionEnds`, `HandedIsResolved`,
`AcceptedGameComesOrHeals`, `EveryRunEnds`, `EveryQuestionIsAnswered`), which the prover
does not do under fairness; what a search finds (`MateIsReal`, `ScoreIsTrue`, `SalvageIsProven`);
what `Evaluation` computes (`CutsSeverTheirCost`, `ScoresAreFair`); and that a probe is of its game
(`ProbesAreTheirGames`), which compares the replay with the game the recorder played. All but the last compute with
recursive definitions, and what a recursive definition computes for every input is induction over data, which is out of
the prover's reach, as are `RECURSIVE` operators altogether. This is also why connectivity
in `VirusRules`, and what survives a re-root in `SearchTree` (`Below`), is a least closed
set and not a recursion; `Survivors` lists it in no particular order, since node numbers
mean nothing beyond themselves.

## What is not modelled

* The network (`net.rs`, `action_id.rs`) and what a net says about a probe
  (`run_probe`): floating-point functions without state. Priors, PUCT and Gumbel
  scores, root noise and temperature are choices left open.
* The lazy-SMP threads of `virus-search`, which the bot does not turn on.
* The opening book's content, the greedy reference engine's choice, tracing,
  statistics for the log, wording of messages. JSON is modelled by what survives
  it (a well-formed snapshot or a malformed one).
* Start-up: the environment, flags that only select an engine. The flags of
  self-play, arena, prober and gauntlet are resolved as the code does.
* The Python trainer, the deployment files and `roundtrip.sh`, which are external;
  of the trainer, `validate_rows.py` is modelled by what it refuses.
* The server. It is an environment that may send anything, so whether a game
  resumes after a panic or two rejected snapshots is not a question asked here.
