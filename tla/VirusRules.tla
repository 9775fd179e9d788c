------------------------------ MODULE VirusRules ------------------------------
(***************************************************************************)
(* The rules engine of virus-core: a position, the actions it allows, what *)
(* an action makes of it, and the import of a position from the wire.      *)
(*                                                                         *)
(* A position is one record, as State is one value: apply copies it. Its   *)
(* incremental Zobrist key is the set of the table entries folded into it, *)
(* so XOR is the symmetric difference of sets.                             *)
(***************************************************************************)
EXTENDS Integers, FiniteSets

CONSTANTS Rows, Cols,  \* the board
          Players,     \* the most seats that may play
          Rejected     \* what decode returns for a snapshot it refuses

Seat == 1..Players
ActionsPerTurn == 3

Pos == (0..Rows-1) \X (0..Cols-1)
Index(c) == c[1] * Cols + c[2]

Base == [p \in Seat |-> << <<0, 0>>, <<Rows-1, Cols-1>>, <<0, Cols-1>>, <<Rows-1, 0>> >>[p]]

\* The cells around a cell, without it.
Near == [c \in Pos |-> {d \in Pos : /\ d # c
                                    /\ d[1] - c[1] \in -1..1
                                    /\ d[2] - c[2] \in -1..1}]

ASSUME BoardAssumption == /\ Rows \in 2..50
                          /\ Cols \in 2..50
                          /\ Players \in 2..4

\* Every seat starts beside a free cell; only four seats on two by two do not.
ASSUME RoomAssumption == \A p \in Seat : \E c \in Near[Base[p]] : \A q \in Seat : c # Base[q]

(***************************************************************************)
(* Cells                                                                   *)
(***************************************************************************)
Owned == {"Normal", "Base", "Fortified"}
Piece(p, k) == [owner |-> p, kind |-> k]
Empty == Piece(0, "Empty")
Neutral == Piece(0, "Neutral")
Cell == [owner : Seat, kind : Owned] \cup {Empty, Neutral}

CapturableBy(cell, p) == \/ cell.kind = "Empty"
                         \/ cell.kind = "Normal" /\ cell.owner # p

(***************************************************************************)
(* The incremental key                                                     *)
(***************************************************************************)
Xor(a, b) == (a \ b) \cup (b \ a)
CellKey(c, cell) == IF cell = Empty THEN {} ELSE {<<"cell", c, cell>>}
CurrentKey(p) == {<<"current", p>>}
MovesLeftKey(n) == {<<"moves_left", n>>}
ActiveKeys(seats) == {<<"active", p>> : p \in seats}
NeutralUsedKeys(seats) == {<<"neutral_used", p>> : p \in seats}
CellKeys(cells) == {<<"cell", c, cells[c]>> : c \in {d \in Pos : cells[d] # Empty}}

RecomputedHash(s) ==
  CurrentKey(s.current) \cup MovesLeftKey(s.movesLeft) \cup ActiveKeys(s.active)
    \cup NeutralUsedKeys(s.neutralUsed) \cup CellKeys(s.cells)

SetCell(s, c, cell) ==
  [s EXCEPT !.cells[c] = cell,
            !.hash = Xor(Xor(@, CellKey(c, s.cells[c])), CellKey(c, cell))]
SetCurrent(s, p) ==
  [s EXCEPT !.current = p, !.hash = Xor(@, Xor(CurrentKey(s.current), CurrentKey(p)))]
SetMovesLeft(s, n) ==
  [s EXCEPT !.movesLeft = n, !.hash = Xor(@, Xor(MovesLeftKey(s.movesLeft), MovesLeftKey(n)))]

\* Mutant: the placement is never recorded.
SetNeutralUsedNever(s, p) == s

SetNeutralUsed(s, p) ==
  IF p \in s.neutralUsed THEN s
  ELSE [s EXCEPT !.neutralUsed = @ \cup {p}, !.hash = Xor(@, NeutralUsedKeys({p}))]

\* Mutant: eliminating a seat leaves its entry in the key.
DeactivateUnhashed(s, gone) == [s EXCEPT !.active = @ \ gone]

\* set_active for every seat of gone, each to false.
Deactivate(s, gone) ==
  [s EXCEPT !.active = @ \ gone, !.hash = Xor(@, ActiveKeys(s.active \cap gone))]

(***************************************************************************)
(* Connectivity and legal actions                                          *)
(***************************************************************************)
Own(cells, p) == {c \in Pos : cells[c].owner = p}
BaseIntact(cells, p) == cells[Base[p]] = Piece(p, "Base")

\* The sets of own cells that hold the base and every own neighbour of their cells.
Regions(cells, p) ==
  {region \in SUBSET Own(cells, p) :
     /\ Base[p] \in region
     /\ \A c \in region : \A d \in Near[c] : cells[d].owner = p => d \in region}

\* What the flood from the base reaches: the least region.
Connected(cells, p) ==
  IF BaseIntact(cells, p)
  THEN LET regions == Regions(cells, p)
       IN {c \in Own(cells, p) : \A region \in regions : c \in region}
  ELSE {}

HasMove(cells, p) ==
  \E c \in Connected(cells, p) : \E d \in Near[c] : CapturableBy(cells[d], p)

MoveTargets(cells, p) ==
  {d \in UNION {Near[c] \cup {c} : c \in Connected(cells, p)} : CapturableBy(cells[d], p)}

OwnedNormals(cells, p) == {c \in Pos : cells[c] = Piece(p, "Normal")}

\* Mutant: a spent turn still allows an action.
CanActWithoutMoves(s) == ~s.over /\ s.current \in s.active

CanAct(s) == /\ ~s.over
             /\ s.current \in s.active
             /\ s.movesLeft > 0
CanPlaceNeutrals(s) == /\ s.movesLeft = ActionsPerTurn
                       /\ s.current \notin s.neutralUsed

Move(c) == [kind |-> "Move", target |-> c]
PlaceNeutrals(c, d) == [kind |-> "PlaceNeutrals", cells |-> <<c, d>>]
Action == {Move(c) : c \in Pos} \cup {PlaceNeutrals(c, d) : c, d \in Pos}

LegalActions(s) ==
  IF ~CanAct(s) THEN {}
  ELSE LET owned == OwnedNormals(s.cells, s.current)
       IN {Move(c) : c \in MoveTargets(s.cells, s.current)} \cup
          IF CanPlaceNeutrals(s)
          THEN {PlaceNeutrals(pair[1], pair[2]) :
                  pair \in {q \in owned \X owned : Index(q[1]) < Index(q[2])}}
          ELSE {}

\* Mutant: any own cell will do as a neighbour, connected or not.
LegalMoveFromAnywhere(cells, p, c) == /\ c \in Pos
                                      /\ CapturableBy(cells[c], p)
                                      /\ Near[c] \cap Own(cells, p) # {}

LegalMove(cells, p, c) == /\ c \in Pos
                          /\ CapturableBy(cells[c], p)
                          /\ Near[c] \cap Connected(cells, p) # {}

LegalAction(s, a) ==
  /\ CanAct(s)
  /\ \/ a.kind = "Move" /\ LegalMove(s.cells, s.current, a.target)
     \/ /\ a.kind = "PlaceNeutrals"
        /\ CanPlaceNeutrals(s)
        /\ a.cells[1] # a.cells[2]
        /\ {a.cells[1], a.cells[2]} \subseteq OwnedNormals(s.cells, s.current)

(***************************************************************************)
(* Transitions                                                             *)
(***************************************************************************)
\* Mutants: the captured piece keeps its owner; a capture makes a plain piece.
CapturedForItsOwner(cell, p) == Piece(cell.owner, "Fortified")
CapturedPlain(cell, p) == Piece(p, "Normal")

Captured(cell, p) == Piece(p, IF cell.kind = "Normal" THEN "Fortified" ELSE "Normal")

MakeMove(s, c) ==
  SetMovesLeft(SetCell(s, c, Captured(s.cells[c], s.current)), (s.movesLeft - 1) % 256)

MakeNeutrals(s, c, d) ==
  SetMovesLeft(SetNeutralUsed(SetCell(SetCell(s, c, Neutral), d, Neutral), s.current), 0)

Play(s, a) == IF a.kind = "Move" THEN MakeMove(s, a.target)
              ELSE MakeNeutrals(s, a.cells[1], a.cells[2])

\* Mutant: only the mover is looked at.
EliminateStuckMover(s) ==
  IF HasMove(s.cells, s.current) THEN s ELSE Deactivate(s, {s.current})

EliminateStuckPlayers(s) == Deactivate(s, {p \in s.active : ~HasMove(s.cells, p)})

\* The seat of a set of at most one; nobody's is 0.
Sole(seats) == IF seats = {} THEN 0 ELSE CHOOSE p \in seats : TRUE

Finish(s, p) == SetMovesLeft([s EXCEPT !.over = TRUE, !.winner = p], 0)

\* Mutant: the turn goes to the next seat, active or not.
FollowingAnySeat(active, p) == (p % Players) + 1

\* The first active seat after p in turn order, p itself last.
Following(active, p) ==
  LET after(q) == IF q > p THEN q - p ELSE q - p + Players
  IN CHOOSE q \in active : \A r \in active : after(q) <= after(r)

Advance(s, p) == SetMovesLeft(SetCurrent(s, Following(s.active, p)), ActionsPerTurn)

\* What mutate does once the action is on the board.
Settle(s) ==
  LET next == EliminateStuckPlayers(s)
  IN IF Cardinality(next.active) <= 1 THEN Finish(next, Sole(next.active))
     ELSE IF next.current \notin next.active \/ next.movesLeft = 0
          THEN Advance(next, next.current)
          ELSE next

Apply(s, a) == Settle(Play(s, a))

(***************************************************************************)
(* Construction, the wire, the outcome                                     *)
(***************************************************************************)
Hashed(s) == [s EXCEPT !.hash = RecomputedHash(s)]

NewGame(players) ==
  Hashed([players |-> players,
          cells |-> [c \in Pos |-> IF \E p \in 1..players : c = Base[p]
                                   THEN Piece(CHOOSE p \in 1..players : c = Base[p], "Base")
                                   ELSE Empty],
          active |-> 1..players, neutralUsed |-> {}, current |-> 1, movesLeft |-> ActionsPerTurn,
          winner |-> 0, over |-> FALSE, hash |-> {}])

FromGrid(players, cells, current, movesLeft, neutralUsed) ==
  Hashed([players |-> players, cells |-> cells, active |-> {p \in Seat : BaseIntact(cells, p)},
          neutralUsed |-> neutralUsed, current |-> current, movesLeft |-> movesLeft,
          winner |-> 0, over |-> FALSE, hash |-> {}])

Snapshot(s) ==
  [players |-> s.players, board |-> s.cells, active |-> s.active, neutralUsed |-> s.neutralUsed,
   currentPlayer |-> s.current, movesLeft |-> s.movesLeft,
   gameOver |-> s.over, winner |-> s.winner]

WellFormed(snap) ==
  /\ snap.movesLeft <= ActionsPerTurn
  /\ snap.currentPlayer \in 1..snap.players
  /\ snap.winner \in 0..snap.players
  /\ \A c \in Pos : /\ snap.board[c] \in Cell
                    /\ snap.board[c].owner <= snap.players
                    /\ snap.board[c].kind = "Base" => Base[snap.board[c].owner] = c
  /\ \A p \in snap.active : BaseIntact(snap.board, p)

\* Mutant: the declared activity is trusted.
DecodeTrusting(snap) ==
  LET grid == FromGrid(snap.players, snap.board, snap.currentPlayer, snap.movesLeft,
                       snap.neutralUsed)
      next == Deactivate(grid, grid.active \ snap.active)
  IN IF ~WellFormed(snap) THEN Rejected
     ELSE IF snap.gameOver THEN Finish(next, snap.winner)
     ELSE IF Cardinality(snap.active) <= 1 THEN Finish(next, Sole(snap.active))
     ELSE IF snap.winner # 0 \/ snap.currentPlayer \notin snap.active THEN Rejected
     ELSE next

\* The declared activity is only ever withdrawn, from seats without a move.
Decode(snap) ==
  LET grid == FromGrid(snap.players, snap.board, snap.currentPlayer, snap.movesLeft,
                       snap.neutralUsed)
      derived == {p \in snap.active : BaseIntact(snap.board, p) /\ HasMove(snap.board, p)}
      next == Deactivate(grid, grid.active \ derived)
  IN IF ~WellFormed(snap) THEN Rejected
     ELSE IF snap.gameOver THEN Finish(next, snap.winner)
     ELSE IF Cardinality(derived) <= 1 THEN Finish(next, Sole(derived))
     ELSE IF snap.winner # 0 \/ snap.currentPlayer \notin derived THEN Rejected
     ELSE next

\* Mutant: territory decides every game.
OutcomeByTerritory(s) ==
  LET owned(p) == Cardinality(Own(s.cells, p))
      best == {p \in 1..s.players : \A q \in 1..s.players : owned(q) <= owned(p)}
  IN IF Cardinality(best) = 1 THEN Sole(best) ELSE 0

OutcomeWinner(s) ==
  LET survivors == {p \in s.active : HasMove(s.cells, p)}
      contenders == IF s.active = {} THEN 1..s.players ELSE s.active
      owned(p) == Cardinality(Own(s.cells, p))
      best == {p \in contenders : \A q \in contenders : owned(q) <= owned(p)}
  IN IF Cardinality(survivors) = 1 THEN Sole(survivors)
     ELSE IF Cardinality(best) = 1 THEN Sole(best)
     ELSE 0

(***************************************************************************)
(* Every game                                                              *)
(***************************************************************************)
VARIABLE state

Init == \E players \in 2..Players : state = NewGame(players)

Next == \E a \in LegalActions(state) : state' = Apply(state, a)

Spec == Init /\ [][Next]_state

-----------------------------------------------------------------------------
(***************************************************************************)
(* Properties                                                              *)
(***************************************************************************)

\* Positions are well typed; in particular movesLeft never wraps below zero.
TypeOK ==
  /\ state.players \in 2..Players
  /\ state.cells \in [Pos -> Cell]
  /\ state.active \subseteq Seat
  /\ state.neutralUsed \subseteq Seat
  /\ state.current \in Seat
  /\ state.movesLeft \in 0..ActionsPerTurn
  /\ state.winner \in 0..Players
  /\ state.over \in BOOLEAN

\* A running game always has a mover who has something to play, whoever the last
\* action eliminated and however far the turn had to skip.
RunningCanAct == ~state.over => CanAct(state) /\ LegalActions(state) # {}

\* Who is active is a function of the board: a seat is eliminated exactly when it
\* has no move, and a seat without a move never gets one again.
ActiveIsMobility == state.active = {p \in Seat : HasMove(state.cells, p)}

\* The incremental key is the key of the position, whatever path led to it.
HashIsRecomputed == state.hash = RecomputedHash(state)

\* Each seat that spent its placement left two neutral cells, and nobody else any.
NeutralsAreSpentOnce ==
  Cardinality({c \in Pos : state.cells[c] = Neutral}) = 2 * Cardinality(state.neutralUsed)

\* The two implementations of legality, enumeration and check, agree.
EnumerationAgrees ==
  LET legal == LegalActions(state)
      turned(a) == IF a.kind = "Move" THEN a ELSE PlaceNeutrals(a.cells[2], a.cells[1])
  IN {a \in Action : LegalAction(state, a)} = legal \cup {turned(a) : a \in legal}

\* A finished game's winner is its outcome: territory decides only where nobody is left.
OutcomeIsWinner == state.over /\ state.winner # 0 => OutcomeWinner(state) = state.winner

\* What a server may publish of a position: it may still list late seats, eliminated
\* by now, as active, and may not have noticed that the game is over.
Published(s, late, noticed) ==
  [Snapshot(s) EXCEPT !.active = s.active \cup late,
                      !.gameOver = noticed,
                      !.winner = IF noticed THEN s.winner ELSE 0]

\* Decoding recovers the position, key included, however far the server's flags lag.
DecodeAgrees ==
  \A late \in SUBSET ((1..state.players) \ state.active) : \A noticed \in {FALSE, state.over} :
    Decode(Published(state, late, noticed)) = state

Rank(cell) == CASE cell.kind = "Empty" -> 0 [] cell.kind = "Normal" -> 1 [] OTHER -> 2

\* Every action hardens some cell and softens none, revives nobody and gives no
\* placement back: no position repeats and every game ends.
GamesOnlyMoveForward ==
  [][/\ \A c \in Pos : Rank(state.cells[c]) <= Rank(state'.cells[c])
     /\ \E c \in Pos : Rank(state.cells[c]) < Rank(state'.cells[c])
     /\ state'.active \subseteq state.active
     /\ state.neutralUsed \subseteq state'.neutralUsed]_state

\* The echo of a turn's last action, published before the turn is passed on.
Echo(s, next) ==
  [Snapshot(next) EXCEPT !.currentPlayer = s.current,
                         !.movesLeft = IF s.current \in next.active THEN 0 ELSE s.movesLeft - 1]

\* An echo is refused or imported as a position in which nobody may act, and never as
\* one whose next action would take movesLeft below zero.
EchoOffersNothing ==
  [][state'.current # state.current =>
       LET echoed == Decode(Echo(state, state'))
       IN echoed = Rejected \/ LegalActions(echoed) = {}]_state

=============================================================================
