----------------------------- MODULE ProbeMine -----------------------------
(***************************************************************************)
(* The miner of probe positions: recorded games are replayed through the   *)
(* rules, every neutral placement in them is labelled by what it cost and  *)
(* by who won, and the most extreme of each class are kept, each position  *)
(* once; or games are played, and the placements the engine chose are kept. *)
(*                                                                         *)
(* A game's id stands for the eight characters of it a record's name has.  *)
(* A recording holds turns; the moves left are not part of it.             *)
(***************************************************************************)
EXTENDS SearchPosition

CONSTANTS Preferred(_, _), \* which of its actions a cold search of a position chooses
          NotMined         \* the miner has not run

VARIABLES dump, \* what it is given: recordings, each with what was played, or seeds
          mined \* what it made of it

(***************************************************************************)
(* Recordings                                                              *)
(***************************************************************************)
DumpMove(kind, cells) == [kind |-> kind, cells |-> cells]
DumpTurn(turn, player, moves) == [turn |-> turn, player |-> player, moves |-> moves]
DumpGame(id, rows, cols, result, turns) ==
  [id |-> id, rows |-> rows, cols |-> cols, result |-> result, turns |-> turns]

\* The action a recorded move is, Rejected if its shape is wrong.
RecordedAction(m) == CASE m.kind = "move" /\ Len(m.cells) = 1 -> Move(m.cells[1])
                       [] m.kind = "neutrals" /\ Len(m.cells) = 2 -> PlaceNeutrals(m.cells[1], m.cells[2])
                       [] OTHER -> Rejected

\* A position itself, its board worked out once.
Explicit(s) == LET board == s.cells IN [s EXCEPT !.cells = CHOOSE cells \in {board} : cells = board]

\* One recorded action of a turn of player, legality checked.
Replayed(s, player, m) ==
  IF s = Rejected \/ RecordedAction(m) = Rejected THEN Rejected
  ELSE IF s.over \/ s.current # player \/ ~LegalAction(s, RecordedAction(m)) THEN Rejected
  ELSE Explicit(Apply(s, RecordedAction(m)))

InitialBoard == Explicit(NewGame(2)).cells

\* Mutant: the spent placements are not carried from turn to turn.
TurnStateUnspent(r, player) == FromGrid(2, r.board, player, ActionsPerTurn, {})

TurnState(r, player) == FromGrid(2, r.board, player, ActionsPerTurn, r.used)

TurnPosition(turn, s) == [turn |-> turn, state |-> s]

ReplayRefused(r, why) == [r EXCEPT !.refused = why]

TurnEnded(r, turn, first, last) ==
  IF last = Rejected THEN ReplayRefused(r, "illegal_move")
  ELSE [r EXCEPT !.board = last.cells, !.used = last.neutralUsed, !.over = last.over,
                 !.positions = Append(@, TurnPosition(turn.turn, first))]

ReplayedTurn(r, turn) ==
  IF r.refused # "no" THEN r
  ELSE IF turn.player \notin 1..2 THEN ReplayRefused(r, "multiplayer")
  ELSE IF r.over THEN IF turn.moves = <<>> THEN r ELSE ReplayRefused(r, "illegal_move")
  ELSE LET first == TurnState(r, turn.player)
       IN TurnEnded(r, turn, first,
            FoldLeft(LAMBDA s, m : Replayed(s, turn.player, m), first, turn.moves))

\* The position at the start of every recorded turn, or why there is none.
Replay(game) ==
  IF game.rows # Rows \/ game.cols # Cols THEN [refused |-> "board_size", positions |-> <<>>]
  ELSE FoldLeft(ReplayedTurn, [board |-> InitialBoard, used |-> {}, over |-> FALSE,
                               positions |-> <<>>, refused |-> "no"], game.turns)

(***************************************************************************)
(* Labels and classes                                                      *)
(***************************************************************************)
MineConfig(horizon, minSwing, maxSuspect, maxControl) ==
  [horizon |-> horizon, minSwing |-> minSwing, maxSuspect |-> maxSuspect, maxControl |-> maxControl]
DefaultMineConfig == MineConfig(4, 4, 30, 8)
MinHorizonTurns == 1
ProbeClass == {"LostAdvantage", "KeptAdvantage"}

Advantage(s, p) == Cardinality(Own(s.cells, p)) - Cardinality(Own(s.cells, 3 - p))

Labels(s, p, normals, swing, cost, final, horizon) ==
  [mover |-> p, ownNormals |-> normals, legalPairs |-> (normals * (normals - 1)) \div 2,
   legalMoves |-> Cardinality(MoveTargets(s.cells, p)), swing |-> swing, immediateCost |-> cost,
   final |-> final, horizon |-> horizon]

\* Measured from the position, the mover's next turn, the one at the horizon and the last.
Label(s, next, after, horizon, last) ==
  LET p == s.current
      before == Advantage(s, p)
  IN Labels(s, p, Cardinality(OwnedNormals(s.cells, p)), Advantage(after, p) - before,
            Advantage(next, p) - before, Advantage(last, p), horizon)

\* Whether p won; unknown where the recording names no winner.
Decided(result, p) ==
  CASE result \notin 1..2 -> "unknown" [] result = p -> "won" [] OTHER -> "lost"

\* The turn that starts at a position is a neutral placement.
Places(turn, s) == /\ turn.moves # <<>>
                   /\ RecordedAction(turn.moves[1]) # Rejected
                   /\ RecordedAction(turn.moves[1]).kind = "PlaceNeutrals"
                   /\ CanPlaceNeutrals(s)

\* The mover's own turns after position i.
Later(positions, i) ==
  LET rest == SubSeq(positions, i + 1, Len(positions))
  IN FlattenSeq([j \in DOMAIN rest |->
       IF rest[j].state.current = positions[i].state.current THEN <<rest[j]>> ELSE <<>>])

HorizonOf(config, later) ==
  LET asked == IF config.horizon < 1 THEN 1 ELSE config.horizon
  IN IF asked < Len(later) THEN asked ELSE Len(later)

ProbeRecord(id, turn, class, s, labels) ==
  [id |-> id, turn |-> turn, class |-> class, snapshot |-> Snapshot(s), labels |-> labels]
ProbeCandidate(record, s) == [hash |-> s.hash, swing |-> record.labels.swing, record |-> record]

Labelled(config, positions, i, later) ==
  LET horizon == HorizonOf(config, later)
  IN Label(positions[i].state, later[1].state, later[horizon].state, horizon,
           positions[Len(positions)].state)

\* Mutant: a placement without a winner counts as lost.
ClassOfUnknown(config, outcome, swing) ==
  CASE outcome = "won" -> "KeptAdvantage"
    [] outcome # "won" /\ swing <= -config.minSwing -> "LostAdvantage"
    [] OTHER -> "flat"

\* The class a placement's outcome and swing earn it, or why it has none.
ClassOf(config, outcome, swing) ==
  CASE outcome = "unknown" -> "no_winner"
    [] outcome = "won" -> "KeptAdvantage"
    [] outcome = "lost" /\ swing <= -config.minSwing -> "LostAdvantage"
    [] OTHER -> "flat"

\* What becomes of the turn that starts at position i: the candidate it is, or why it is dropped.
Classed(game, here, labels, class) ==
  [fate |-> class,
   candidate |-> ProbeCandidate(ProbeRecord(game.id, here.turn, class, here.state, labels), here.state)]
Placement(config, game, positions, i, later) ==
  IF ~Places(game.turns[i], positions[i].state) THEN [fate |-> "moves"]
  ELSE IF Len(later) < MinHorizonTurns THEN [fate |-> "short_horizon"]
  ELSE LET labels == Labelled(config, positions, i, later)
       IN Classed(game, positions[i], labels,
            ClassOf(config, Decided(game.result, positions[i].state.current), labels.swing))

Found(config, game, positions) ==
  [i \in DOMAIN positions |-> Placement(config, game, positions, i, Later(positions, i))]

(***************************************************************************)
(* Mining and selection                                                    *)
(***************************************************************************)
NoMineStats == [games |-> 0, replayed |-> 0, multiplayer |-> 0, illegal_move |-> 0, board_size |-> 0,
            neutral_turns |-> 0, short_horizon |-> 0, flat |-> 0, no_winner |-> 0, duplicate |-> 0]
CountUp(stats, k, n) == [stats EXCEPT ![k] = @ + n]

\* The placements of one replayed game, added to what has been mined.
AddPlacements(m, found) ==
  LET placed == {i \in DOMAIN found : found[i].fate # "moves"}
      dropped(why) == Cardinality({i \in placed : found[i].fate = why})
  IN [stats |-> [m.stats EXCEPT !.replayed = @ + 1, !.neutral_turns = @ + Cardinality(placed),
                                !.short_horizon = @ + dropped("short_horizon"),
                                !.flat = @ + dropped("flat"), !.no_winner = @ + dropped("no_winner")],
      candidates |-> m.candidates \o
        FlattenSeq([i \in DOMAIN found |->
          IF found[i].fate \in ProbeClass THEN <<found[i].candidate>> ELSE <<>>])]

MineGame(m, config, game, replay) ==
  IF replay.refused # "no" THEN [m EXCEPT !.stats = CountUp(@, replay.refused, 1)]
  ELSE AddPlacements(m, Found(config, game, replay.positions))

\* Mutant: equal swings stay in the order the games were fed in.
BeforeBySwing(c, d) == c.swing < d.swing

\* Turn numbers as text, of four digits at most: the digits from the left, then the shorter;
\* t10 is before t9.
LeftAligned(turn) ==
  CASE turn < 10 -> 1000 * turn
    [] turn \in 10..99 -> 100 * turn
    [] turn \in 100..999 -> 10 * turn
    [] turn > 999 -> turn
ReadsBefore(t, u) ==
  \/ LeftAligned(t) < LeftAligned(u)
  \/ LeftAligned(t) = LeftAligned(u) /\ t < u

\* Ascending swing, ties by name.
Before(c, d) ==
  \/ c.swing < d.swing
  \/ c.swing = d.swing /\ c.record.id < d.record.id
  \/ c.swing = d.swing /\ c.record.id = d.record.id /\ ReadsBefore(c.record.turn, d.record.turn)

\* The candidates from first to last, those that tie staying as they were.
Ordered(candidates) ==
  LET places == DOMAIN candidates
      rank == [i \in places |->
                 Cardinality({j \in places :
                   \/ Before(candidates[j], candidates[i])
                   \/ ~Before(candidates[i], candidates[j]) /\ j <= i})]
  IN [k \in places |-> candidates[CHOOSE i \in places : rank[i] = k]]

\* Mutant: a repeated position is kept again.
TakeOneAgain(t, c, class, limit) ==
  IF Len(t.kept) >= limit \/ c.record.class # class THEN t ELSE [t EXCEPT !.kept = Append(@, c.record)]

TakeOne(t, c, class, limit) ==
  IF Len(t.kept) >= limit \/ c.record.class # class THEN t
  ELSE IF c.hash \in t.seen THEN [t EXCEPT !.duplicates = @ + 1]
  ELSE [t EXCEPT !.kept = Append(@, c.record), !.seen = @ \cup {c.hash}]

\* Up to limit distinct positions of one class, in the order given.
Take(candidates, class, limit, seen) ==
  FoldLeft(LAMBDA t, c : TakeOne(t, c, class, limit),
           [kept |-> <<>>, seen |-> seen, duplicates |-> 0], candidates)

\* The suspects, worst first, then the controls, best first.
Selected(m, config, ordered) ==
  LET suspects == Take(ordered, "LostAdvantage", config.maxSuspect, {})
      controls == Take(Reverse(ordered), "KeptAdvantage", config.maxControl, suspects.seen)
  IN [records |-> suspects.kept \o controls.kept,
      stats |-> CountUp(m.stats, "duplicate", suspects.duplicates + controls.duplicates),
      candidates |-> ordered]

MineGames(games, config) ==
  LET all == FoldLeft(LAMBDA m, game : MineGame(m, config, game, Replay(game)),
                      [stats |-> CountUp(NoMineStats, "games", Len(games)), candidates |-> <<>>], games)
  IN Selected(all, config, Ordered(all.candidates))

(***************************************************************************)
(* Mining the engine's own games                                           *)
(***************************************************************************)
PlayConfig(randomPlies, turnCap, maxPositions) ==
  [randomPlies |-> randomPlies, turnCap |-> turnCap, maxPositions |-> maxPositions]

\* The legal actions in the order they are listed.
LegalList(s) == ExactActions(Unanalyzed(s))

\* Mutant: the last action drawn at random is taken for the engine's.
OwnChoiceOfTheDraw(config, plies) == plies >= config.randomPlies

OwnChoice(config, plies) == plies > config.randomPlies

\* One ply: drawn while the opening lasts, then the engine's.
PlayPly(t, config, draws, legal) ==
  LET a == IF t.ply < config.randomPlies
           THEN legal[1 + (draws[1 + (t.ply % Len(draws))] % Len(legal))]
           ELSE legal[Preferred(t.state, legal)]
      keeps == /\ a.kind = "PlaceNeutrals"
               /\ OwnChoice(config, t.ply + 1)
               /\ t.state.hash \notin t.seen
  IN [t EXCEPT !.ply = @ + 1,
               !.turns = IF t.state.movesLeft = ActionsPerTurn THEN @ + 1 ELSE @,
               !.seen = IF keeps THEN @ \cup {t.state.hash} ELSE @,
               !.kept = IF keeps THEN Append(@, [snapshot |-> Snapshot(t.state), ply |-> t.ply + 1, game |-> t.game,
                                                 labels |-> Label(t.state, t.state, t.state, 0, t.state)])
                                 ELSE @,
               !.state = Explicit(Apply(t.state, a))]

GameStops(t, config) ==
  t.state.over \/ t.turns >= config.turnCap \/ Len(t.kept) >= config.maxPositions

PlayOn(t, config, draws) == IF GameStops(t, config) THEN t ELSE PlayPly(t, config, draws, LegalList(t.state))

\* A game to its end or to its cap: a turn takes ActionsPerTurn plies at most.
SelfPlayed(t, config, draws) ==
  FoldLeft(LAMBDA u, n : PlayOn(u, config, draws), t, [n \in 1..config.turnCap * ActionsPerTurn |-> n])

Opened(t, g) == [t EXCEPT !.state = NewGame(2), !.ply = 0, !.turns = 0, !.game = g]

\* One game for each seed, a seed being the draws it gives.
MineSelfPlay(config, seeds) ==
  FoldLeft(LAMBDA t, g : SelfPlayed(Opened(t, g), config, seeds[g]),
           [state |-> NewGame(2), ply |-> 0, turns |-> 0, game |-> 0, seen |-> {}, kept |-> <<>>],
           [g \in DOMAIN seeds |-> g]).kept

(***************************************************************************)
(* A dump is mined, once                                                   *)
(***************************************************************************)
\* A horizon of none measures nothing, and a negative swing would invert the class.
ConfigAccepted(config) == config.horizon > 0 /\ config.minSwing >= 0

NoDump == [kind |-> "none"]

DumpGames(records) == [k \in DOMAIN records |-> records[k].game]

MineDb == /\ dump.kind = "games" /\ mined = NotMined
          /\ mined' = IF ConfigAccepted(dump.config) THEN MineGames(DumpGames(dump.records), dump.config)
                      ELSE Rejected
          /\ UNCHANGED dump

MinePlay == /\ dump.kind = "play" /\ mined = NotMined
            /\ mined' = MineSelfPlay(dump.config, dump.seeds)
            /\ UNCHANGED dump

MiningNext == MineDb \/ MinePlay

\* A list of anything.
IsList(l) == l \in Seq(ToSet(l))

\* A recording numbers its turns apart; what it plays may be anything.
IsRecordedTurn(turn) == turn.turn \in Int /\ IsList(turn.moves)
IsRecording(game) ==
  /\ game.id \in Int /\ IsList(game.turns)
  /\ \A i \in DOMAIN game.turns : IsRecordedTurn(game.turns[i])
  /\ \A i, j \in DOMAIN game.turns : i # j => game.turns[i].turn # game.turns[j].turn

\* No two recordings of a dump have one id.
IsGameDump(d) ==
  /\ {d.config.horizon, d.config.minSwing} \subseteq Int
  /\ {d.config.maxSuspect, d.config.maxControl} \subseteq Nat
  /\ IsList(d.records) /\ \A k \in DOMAIN d.records : IsRecording(d.records[k].game)
  /\ \A j, k \in DOMAIN d.records : j # k => d.records[j].game.id # d.records[k].game.id

IsDump(d) == d.kind = "games" => IsGameDump(d)

MiningInit == IsDump(dump) /\ mined = NotMined

MiningSpec == MiningInit /\ [][MiningNext]_<<dump, mined>>

-----------------------------------------------------------------------------
(***************************************************************************)
(* Properties                                                              *)
(***************************************************************************)
\* The position a record is read back as; only a choice between moves and placements will do.
ReadBack(s) == IF s = Rejected \/ s.players # 2 \/ ~CanPlaceNeutrals(s) THEN Rejected ELSE s

\* The counts are those of the legal actions, and there are moves to compare placements with.
LabelCounts(labels, legal) ==
  /\ labels.legalMoves > 0
  /\ labels.legalMoves + labels.legalPairs = Cardinality(legal)

\* A record is of a turn of its game: the position is the one that was played, key and
\* spent placements included, a placement was its next action and could be, and the class
\* is what the winner says.
IsOfTurn(r, turn, result, s, legal) ==
  /\ r.turn = turn.turn /\ ReadBack(Decode(r.snapshot)) = s
  /\ \E a \in legal : a.kind = "PlaceNeutrals" /\ turn.moves = <<DumpMove("neutrals", a.cells)>>
  /\ result = IF r.class = "KeptAdvantage" THEN s.current ELSE 3 - s.current
  /\ LabelCounts(r.labels, legal)
IsOfItsGame(r, played, game) ==
  \E i \in DOMAIN played : IsOfTurn(r, game.turns[i], game.result, played[i], LegalActions(played[i]))

\* A position of an own game that was kept is one whose own best action is a placement, is
\* kept once, and is past the opening.
IsTheEngines(probe, config, s, legal) ==
  /\ ReadBack(s) = s /\ legal[Preferred(s, legal)].kind = "PlaceNeutrals"
  /\ probe.ply > config.randomPlies
  /\ LabelCounts(probe.labels, ToSet(legal))
AreTheEngines(kept, config) ==
  /\ Len(kept) <= config.maxPositions
  /\ \A k \in DOMAIN kept :
       LET s == Decode(kept[k].snapshot) IN IsTheEngines(kept[k], config, s, LegalList(s))
  /\ \A j, k \in DOMAIN kept : j # k => kept[j].snapshot # kept[k].snapshot

\* A recording holds neither the board nor the moves left nor who has spent the placement,
\* and still every probe mined from one is a position that was played, is read back as it, and
\* is of the class its winner says; a recording the rules refuse yields none; and a probe of
\* the engine's own games is a choice of the engine, never a draw of the opening.
ProbesAreTheirGames ==
  mined \notin {NotMined, Rejected} =>
    IF dump.kind = "play" THEN AreTheEngines(mined, dump.config)
    ELSE \A k \in DOMAIN mined.records :
           \E i \in DOMAIN dump.records :
             /\ dump.records[i].game.id = mined.records[k].id
             /\ IsOfItsGame(mined.records[k], dump.records[i].played, dump.records[i].game)

\* How extreme a candidate is of its class: the worse for a suspect, the better for a control.
Extremity(c) == IF c.class = "LostAdvantage" THEN -c.labels.swing ELSE c.labels.swing
KeptOf(class) == {k \in DOMAIN mined.records : mined.records[k].class = class}
LimitOf(class) == IF class = "LostAdvantage" THEN dump.config.maxSuspect ELSE dump.config.maxControl

\* No position is in the set twice, within a class or across them; no candidate is left out
\* for one less extreme, nor while its class has room; every game and every placement is
\* counted under what became of it; and the set does not depend on the order of the dump.
ProbesAreTheExtremes ==
  (dump.kind = "games" /\ mined \notin {NotMined, Rejected}) =>
    /\ \A j, k \in DOMAIN mined.records :
         j # k => mined.records[j].snapshot # mined.records[k].snapshot
    /\ \A class \in ProbeClass : Cardinality(KeptOf(class)) <= LimitOf(class)
    /\ \A i \in DOMAIN mined.candidates :
         LET c == mined.candidates[i].record
         IN \/ \E k \in DOMAIN mined.records : mined.records[k].snapshot = c.snapshot
            \/ /\ Cardinality(KeptOf(c.class)) = LimitOf(c.class)
               /\ \A k \in KeptOf(c.class) : Extremity(mined.records[k]) >= Extremity(c)
    /\ LET n == mined.stats
       IN /\ n["games"] = n["replayed"] + n["multiplayer"] + n["illegal_move"] + n["board_size"]
          /\ n["neutral_turns"] = n["short_horizon"] + n["flat"] + n["no_winner"] + Len(mined.candidates)
    /\ MineGames(DumpGames(Reverse(dump.records)), dump.config) = mined

=============================================================================
