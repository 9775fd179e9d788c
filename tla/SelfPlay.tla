------------------------------ MODULE SelfPlay ------------------------------
(***************************************************************************)
(* virus-selfplay: one game with the resignation rule and its control arm, *)
(* the rows it leaves for the trainer, and the shard process that plays    *)
(* its share of a generation (src/crates/virus-selfplay/src/lib.rs and     *)
(* bin/selfplay.rs). Generation runs the processes.                        *)
(*                                                                         *)
(* A search is deterministic in (net, seed, game, ply), so what the        *)
(* searches of a game say is data: Script[net][g] lists the positions game *)
(* g goes through when it is played out, each with what its search returns.*)
(* Values are percentages of the absolute frame, +100 for seat 1.          *)
(***************************************************************************)
EXTENDS Integers, Sequences, SequencesExt, FiniteSets

CONSTANTS
  Script,       \* [net -> [0..GameCount-1 -> Seq of positions]], the last final or past the cap
  Draw,         \* [0..GameCount-1 -> 0..99]: control_draw of the game's seed
  GameCount,    \* --games, over all shards
  PlyCeiling,   \* max_turns * ACTIONS_PER_TURN
  PolicyUnit,   \* a policy is in units of 1/PolicyUnit
  NoPly

SumOf(counts) == MapThenSumSet(LAMBDA i : counts[i], DOMAIN counts)

\* What a search of at least one simulation says of its root: counts, and a policy that adds up to one.
SearchReports(position) ==
  /\ position.visits \in Seq(Nat) /\ SumOf(position.visits) > 0
  /\ position.policy \in Seq(Nat) /\ SumOf(position.policy) = PolicyUnit

ASSUME SelfPlayAssumption ==
  /\ GameCount \in Nat /\ PlyCeiling \in Nat /\ PolicyUnit \in Nat \ {0}
  /\ \A net \in DOMAIN Script : \A g \in 0..(GameCount - 1) :
       /\ Script[net][g] \in Seq({Script[net][g][k] : k \in DOMAIN Script[net][g]}) \ {<<>>}
       /\ \A k \in DOMAIN Script[net][g] :
            LET position == Script[net][g][k]
            IN  /\ position.over \/ position.visits = <<>> \/ SearchReports(position)
                /\ position.mover \in 1..2
  /\ NoPly \notin [side : 1..2, at : Nat]

-----------------------------------------------------------------------------
(* bin/selfplay.rs: what the flags and the environment amount to *)

Unset == -1
Refused == [ok |-> FALSE, on |-> FALSE]

InRange(rules) ==
  IF rules.threshold \in 1..100 /\ rules.plies # 0 /\ rules.control \in 0..100 THEN rules ELSE Refused

\* ResignArgs::resolve: a refinement without the switch is an error, not a silent "off".
ResolveResign(args) ==
  IF args.threshold = Unset
  THEN IF args.plies # Unset \/ args.control # Unset THEN Refused ELSE [ok |-> TRUE, on |-> FALSE]
  ELSE InRange([ok |-> TRUE, on |-> TRUE, threshold |-> args.threshold,
                plies |-> IF args.plies = Unset THEN 8 ELSE args.plies,
                control |-> IF args.control = Unset THEN 10 ELSE args.control])

\* GumbelArgs::resolve
ResolveGumbel(args) ==
  IF ~args.on
  THEN IF args.m # Unset \/ args.pv # "unset" THEN Refused ELSE [ok |-> TRUE, on |-> FALSE]
  ELSE LET m == IF args.m = Unset THEN 16 ELSE args.m
       IN  IF m < 2 THEN Refused
           ELSE [ok |-> TRUE, on |-> TRUE, m |-> m, pv |-> IF args.pv = "unset" THEN "raw" ELSE args.pv]

\* parse: nothing is played under settings that would not do what they say.
Accepted(env) == ResolveResign(env.resign).ok /\ ResolveGumbel(env.gumbel).ok

-----------------------------------------------------------------------------
(* Rows *)

\* quantize: integer counts for a policy by largest remainders, ties to the lower action, the
\* shortfall dealt round and round.
Dealt(policy, total, floors) ==
  LET Remainder(i) == (policy[i] * total) % PolicyUnit
      Rank(i) == Cardinality({j \in DOMAIN policy : \/ Remainder(j) > Remainder(i)
                                                   \/ (Remainder(j) = Remainder(i) /\ j < i)})
      short == total - SumOf(floors)
  IN  [i \in DOMAIN policy |->
         floors[i] + IF short <= Rank(i) THEN 0 ELSE (short - 1 - Rank(i)) \div Len(policy) + 1]
Quantize(policy, wanted) ==
  LET total == IF wanted = 0 THEN 1 ELSE wanted
  IN  Dealt(policy, total, [i \in DOMAIN policy |-> (policy[i] * total) \div PolicyUnit])

\* row, but for the board it encodes
Row(g, position, ply, gumbel) ==
  [g |-> g, ply |-> ply, mover |-> position.mover, actions |-> Len(position.visits), z |-> 0,
   pv |-> IF gumbel.on /\ gumbel.pv = "improved"
          THEN Quantize(position.policy, SumOf(position.visits)) ELSE position.visits]

-----------------------------------------------------------------------------
(* One game *)

\* is_hopeless: the frame is absolute, so the sign depends on the seat.
Hopeless(mover, value, threshold) == IF mover = 1 THEN value < -threshold ELSE value > threshold

\* For the mutation check: one counter for both seats.
ObserveShared(streaks, position, rules) ==
  [seat \in 1..2 |-> IF Hopeless(position.mover, position.value, rules.threshold)
                     THEN streaks[seat] + 1 ELSE 0]

\* ResignTracker::observe counts a seat's own plies.
Observe(streaks, position, rules) ==
  [streaks EXCEPT ![position.mover] =
     IF Hopeless(position.mover, position.value, rules.threshold) THEN @ + 1 ELSE 0]

GameStart ==
  [ply |-> 0, searches |-> 0, streaks |-> [seat \in 1..2 |-> 0], would |-> NoPly, resigned |-> 0,
   rows |-> <<>>, capped |-> TRUE, stopped |-> FALSE]

\* For the mutation check: the rule's last firing is what the control arm records.
FiringLast(s, streaks, position, rules) == rules.on /\ streaks[position.mover] >= rules.plies

\* Only the first firing counts.
Firing(s, streaks, position, rules) ==
  rules.on /\ streaks[position.mover] >= rules.plies /\ s.would = NoPly

\* The position searched: the rule is judged, the row kept, the game stopped or moved on.
Searched(s, position, row, streaks, fires, control) ==
  LET stops == (fires /\ ~control) \/ ~position.chosen
  IN  [s EXCEPT !.searches = @ + 1, !.streaks = streaks,
                !.would = IF fires THEN [side |-> position.mover, at |-> s.ply] ELSE @,
                !.resigned = IF fires /\ ~control THEN position.mover ELSE @,
                !.rows = IF Len(position.visits) > 1 THEN Append(@, row) ELSE @,
                !.capped = ~stops, !.stopped = stops, !.ply = IF stops THEN @ ELSE @ + 1]

\* One pass of play_game's loop.
Ply(s, g, position, rules, gumbel, control) ==
  LET streaks == IF rules.on THEN Observe(s.streaks, position, rules) ELSE s.streaks
  IN  IF s.stopped THEN s
      ELSE IF position.over THEN [s EXCEPT !.capped = FALSE, !.stopped = TRUE]
      ELSE IF position.visits = <<>>
      THEN [s EXCEPT !.searches = @ + 1, !.capped = FALSE, !.stopped = TRUE]
      ELSE Searched(s, position, Row(g, position, s.ply, gumbel), streaks,
                    Firing(s, streaks, position, rules), control)

\* The outcome is settled once and stamped on every row.
SettleGame(end, last, z, control) ==
  [rows |-> [i \in DOMAIN end.rows |-> [end.rows[i] EXCEPT !.z = z]],
   plies |-> end.ply, searches |-> end.searches, z |-> z, capped |-> end.capped /\ ~last.over,
   resigned |-> end.resigned, control |-> control,
   would |-> IF end.resigned = 0 THEN end.would ELSE NoPly]
Reported(end, last, control) ==
  SettleGame(end, last, IF end.resigned = 0 THEN last.verdict ELSE IF end.resigned = 1 THEN -1 ELSE 1, control)
ReportedIn(end, script, control) == Reported(end, script[end.ply + 1], control)

\* play_game in a chosen arm
PlayIn(net, g, rules, gumbel, control) ==
  LET script == Script[net][g]
      played == SubSeq(script, 1, IF Len(script) < PlyCeiling THEN Len(script) ELSE PlyCeiling)
  IN  ReportedIn(FoldLeft(LAMBDA s, position : Ply(s, g, position, rules, gumbel, control), GameStart, played),
                 script, control)

\* is_control_game: a function of the game, of no setting and no shard.
IsControl(g, rules) == rules.on /\ Draw[g] < rules.control

\* play_game
SelfPlayGame(net, g, env) ==
  PlayIn(net, g, ResolveResign(env.resign), ResolveGumbel(env.gumbel), IsControl(g, ResolveResign(env.resign)))

-----------------------------------------------------------------------------
(* One shard of a generation *)

NoStats == [games |-> 0, rows |-> 0, capped |-> 0, resigned |-> 0, searches |-> 0,
            outcomes |-> [z \in {-1, 0, 1} |-> 0], control |-> 0, would |-> 0, wrong |-> 0,
            controlSearches |-> 0, searchesSaved |-> 0, pliesSaved |-> 0]

One(holds) == IF holds THEN 1 ELSE 0

\* The tally generate keeps; a control game that would have been resigned is measured against
\* the place the rule first fired.
Played(stats, report) ==
  [stats EXCEPT !.games = @ + 1, !.rows = @ + Len(report.rows), !.capped = @ + One(report.capped),
                !.resigned = @ + One(report.resigned # 0), !.searches = @ + report.searches,
                !.outcomes[report.z] = @ + 1, !.control = @ + One(report.control),
                !.controlSearches = @ + IF report.control THEN report.searches ELSE 0]
Counted(stats, report) ==
  IF ~report.control \/ report.would = NoPly THEN Played(stats, report)
  ELSE [Played(stats, report) EXCEPT
          !.would = @ + 1,
          !.searchesSaved = @ + report.searches - (report.would.at + 1),
          !.pliesSaved = @ + report.plies - report.would.at,
          !.wrong = @ + One(report.z # (IF report.would.side = 1 THEN -1 ELSE 1))]

\* The games of a shard: the index is global, so sharding repartitions and never regenerates.
ShardGames(idx, count) == {g \in 0..(GameCount - 1) : g % count = idx}

\* What a game leaves in the file once it is flushed.
Chunk(net, g, report) == [g |-> g, net |-> net, rows |-> report.rows, torn |-> FALSE]

NextGame(shard) == CHOOSE g \in shard.left : \A h \in shard.left : g <= h

\* generate, one game further: its rows are written and flushed, then it is counted.
Wrote(shard, g, report) ==
  [shard EXCEPT !.left = @ \ {g}, !.file = Append(@, Chunk(shard.net, g, report)),
                !.stats = Counted(@, report)]
Generated(shard) == Wrote(shard, NextGame(shard), SelfPlayGame(shard.net, NextGame(shard), shard.env))

\* A write error inside a game: what the writer had spilled of it stays in the file.
Tore(shard, chunk) == [shard EXCEPT !.status = "failed", !.file = Append(@, [chunk EXCEPT !.torn = TRUE])]
GeneratedTorn(shard) ==
  Tore(shard, Chunk(shard.net, NextGame(shard), SelfPlayGame(shard.net, NextGame(shard), shard.env)))

\* run: settings, net, the file created, and then the games.
Launched(net, loads, idx, count, env) ==
  [net |-> net, env |-> env, left |-> ShardGames(idx, count), file |-> <<>>, stats |-> NoStats,
   status |-> IF Accepted(env) /\ loads THEN "playing" ELSE "failed"]

-----------------------------------------------------------------------------
(* validate_rows.py, over the concatenated shards *)

RowIsValid(row) == row.actions >= 2 /\ Len(row.pv) = row.actions /\ SumOf(row.pv) > 0
                   /\ (\A i \in DOMAIN row.pv : row.pv[i] >= 0) /\ row.mover \in {1, 2} /\ row.z \in -1..1

RowsAreValid(file) ==
  /\ \A c \in DOMAIN file : ~file[c].torn /\ \A i \in DOMAIN file[c].rows : RowIsValid(file[c].rows[i])
  /\ \A c, e \in DOMAIN file : file[c].g = file[e].g =>
       \A i \in DOMAIN file[c].rows, k \in DOMAIN file[e].rows : file[c].rows[i].z = file[e].rows[k].z

=============================================================================
