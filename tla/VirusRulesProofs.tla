-------------------------- MODULE VirusRulesProofs --------------------------
(***************************************************************************)
(* Proofs about VirusRules, about what SearchPosition offers a search, and *)
(* about what ProbeMine makes of recorded games, for every board and       *)
(* number of seats.                                                        *)
(*                                                                         *)
(* The heart of the rules is that being stuck is for ever. What the flood  *)
(* reaches is itself a region, all of whose neighbours outside are immune  *)
(* to the stuck seat; an action can only shrink that region, because a     *)
(* cell next to it that some seat could take, the stuck seat could take    *)
(* too.                                                                    *)
(*                                                                         *)
(* The heart of the other two is a library about lists: what a fold leaves *)
(* is followed one member at a time.                                       *)
(***************************************************************************)
EXTENDS ProbeMine, SumLemmas, FiniteSetTheorems, SequenceTheorems, TLAPS

(***************************************************************************)
(* The board                                                               *)
(***************************************************************************)
LEMMA NearIsMutual ==
  /\ \A c \in Pos : Near[c] \subseteq Pos
  /\ \A c, d \in Pos : d \in Near[c] => c \in Near[d]
BY BoardAssumption DEF Near, Pos

LEMMA BasesApart ==
  /\ \A p \in Seat : Base[p] \in Pos
  /\ \A p, q \in Seat : Base[p] = Base[q] => p = q
<1>1. /\ Rows - 1 \in 1..49 /\ Cols - 1 \in 1..49
      /\ \A p \in Seat : p \in {1, 2, 3, 4}
  BY BoardAssumption DEF Seat
<1>2. ASSUME NEW p \in Seat
      PROVE  \/ p = 1 /\ Base[p] = <<0, 0>>
             \/ p = 2 /\ Base[p] = <<Rows - 1, Cols - 1>>
             \/ p = 3 /\ Base[p] = <<0, Cols - 1>>
             \/ p = 4 /\ Base[p] = <<Rows - 1, 0>>
  BY <1>1, <1>2 DEF Base
<1>3. \A p \in Seat : Base[p] \in Pos
  <2> TAKE p \in Seat
  <2> QED BY <1>1, <1>2, BoardAssumption DEF Pos
<1>4. ASSUME NEW p \in Seat, NEW q \in Seat, Base[p] = Base[q]
      PROVE  p = q
  BY <1>1, <1>2, <1>4
<1> QED BY <1>3, <1>4

\* The flood from an intact base is itself a region, so the least one.
LEMMA ConnectedIsLeast ==
  ASSUME NEW cells, NEW p \in Seat, BaseIntact(cells, p)
  PROVE  /\ Connected(cells, p) \subseteq Own(cells, p)
         /\ Connected(cells, p) \in Regions(cells, p)
         /\ \A region \in Regions(cells, p) : Connected(cells, p) \subseteq region
<1> DEFINE T == Connected(cells, p)
<1>1. T = {c \in Own(cells, p) : \A region \in Regions(cells, p) : c \in region}
  BY DEF Connected
<1>2. Base[p] \in T
  <2>1. Base[p] \in Own(cells, p)
    BY BasesApart DEF BaseIntact, Own, Piece
  <2> QED BY <1>1, <2>1 DEF Regions
<1>3. ASSUME NEW c \in T, NEW d \in Near[c], cells[d].owner = p
      PROVE  d \in T
  <2>1. c \in Pos /\ d \in Pos
    BY <1>1, NearIsMutual DEF Own
  <2>2. d \in Own(cells, p)
    BY <2>1, <1>3 DEF Own
  <2>3. ASSUME NEW region \in Regions(cells, p)
        PROVE  d \in region
    BY <1>1, <1>3 DEF Regions
  <2> QED BY <1>1, <2>2, <2>3
<1>4. T \in Regions(cells, p)
  BY <1>1, <1>2, <1>3 DEF Regions
<1> QED BY <1>1, <1>4

(***************************************************************************)
(* What an action may make of a cell                                       *)
(***************************************************************************)
Hardened(old, new) ==
  \/ new = old
  \/ old = Empty /\ \E q \in Seat : new = Piece(q, "Normal")
  \/ \E o, q \in Seat : o # q /\ old = Piece(o, "Normal") /\ new = Piece(q, "Fortified")
  \/ \E o \in Seat : old = Piece(o, "Normal") /\ new = Neutral

BoardHardened(old, new) == \A c \in Pos : Hardened(old[c], new[c])

LEMMA HardenedFacts ==
  ASSUME NEW old \in Cell, NEW new \in Cell, Hardened(old, new), NEW p \in Seat
  PROVE  /\ new.owner = p => old.owner = p \/ CapturableBy(old, p)
         /\ CapturableBy(new, p) => CapturableBy(old, p)
         /\ old = Piece(p, "Base") <=> new = Piece(p, "Base")
         /\ Rank(old) <= Rank(new)
         /\ new # old => Rank(old) < Rank(new)
         /\ new.kind = "Base" => new = old
BY BoardAssumption DEF Hardened, Cell, Owned, Empty, Neutral, Piece, Seat, CapturableBy, Rank

\* A seat without a move never gets one again.
LEMMA StuckForEver ==
  ASSUME NEW old \in [Pos -> Cell], NEW new \in [Pos -> Cell], BoardHardened(old, new),
         NEW p \in Seat, ~HasMove(old, p)
  PROVE  ~HasMove(new, p)
<1> DEFINE T == Connected(old, p)
           Shrunk == T \cap Own(new, p)
<1>1. SUFFICES ASSUME HasMove(new, p) PROVE FALSE
  OBVIOUS
<1>2. BaseIntact(new, p)
  BY <1>1 DEF HasMove, Connected
<1>3. BaseIntact(old, p)
  BY <1>2, BasesApart, HardenedFacts DEF BaseIntact, BoardHardened
<1>4. /\ T \subseteq Own(old, p) /\ Base[p] \in T
      /\ \A c \in T : \A d \in Near[c] : old[d].owner = p => d \in T
  BY <1>3, ConnectedIsLeast DEF Regions
<1>5. ASSUME NEW c \in T, NEW d \in Near[c]
      PROVE  ~CapturableBy(old[d], p) /\ c \in Pos /\ d \in Pos
  BY <1>4, NearIsMutual DEF HasMove, Own
<1>6. Shrunk \in Regions(new, p)
  <2>1. Base[p] \in Own(new, p)
    BY <1>2, BasesApart DEF BaseIntact, Own, Piece
  <2>2. ASSUME NEW c \in Shrunk, NEW d \in Near[c], new[d].owner = p
        PROVE  d \in Shrunk
    <3>1. ~CapturableBy(old[d], p) /\ d \in Pos
      BY <1>5
    <3>2. old[d].owner = p
      BY <3>1, <2>2, HardenedFacts DEF BoardHardened
    <3> QED BY <1>4, <3>1, <3>2, <2>2 DEF Own
  <2> QED BY <1>4, <2>1, <2>2 DEF Regions
<1>7. Connected(new, p) \subseteq T
  BY <1>2, <1>6, ConnectedIsLeast
<1>8. PICK c \in Connected(new, p) : \E d \in Near[c] : CapturableBy(new[d], p)
  BY <1>1 DEF HasMove
<1>9. PICK d \in Near[c] : CapturableBy(new[d], p)
  BY <1>8
<1>10. ~CapturableBy(old[d], p) /\ d \in Pos
  BY <1>5, <1>7
<1> QED BY <1>9, <1>10, HardenedFacts DEF BoardHardened

(***************************************************************************)
(* The key                                                                 *)
(***************************************************************************)
\* A position has its nine fields and no other.
Shaped(s) ==
  s = [players |-> s.players, cells |-> s.cells, active |-> s.active,
       neutralUsed |-> s.neutralUsed, current |-> s.current, movesLeft |-> s.movesLeft,
       winner |-> s.winner, over |-> s.over, hash |-> s.hash]

HashHolds(s) == s.hash = RecomputedHash(s)

\* Keys of different fields, and of different cells, are different.
LEMMA KeyKinds ==
  /\ \A p : \A k \in CurrentKey(p) : k[1] = "current"
  /\ \A n : \A k \in MovesLeftKey(n) : k[1] = "moves_left"
  /\ \A seats : \A k \in ActiveKeys(seats) : k[1] = "active" /\ k[2] \in seats
  /\ \A seats : \A k \in NeutralUsedKeys(seats) : k[1] = "neutral_used" /\ k[2] \in seats
  /\ \A cells : \A k \in CellKeys(cells) : k[1] = "cell"
  /\ \A c, cell : \A k \in CellKey(c, cell) : k[1] = "cell" /\ k[2] = c
BY DEF CurrentKey, MovesLeftKey, ActiveKeys, NeutralUsedKeys, CellKeys, CellKey

LEMMA MovesLeftSet ==
  ASSUME NEW s, Shaped(s), NEW n
  PROVE  LET t == SetMovesLeft(s, n)
         IN /\ Shaped(t)
            /\ t.players = s.players /\ t.cells = s.cells /\ t.active = s.active
            /\ t.neutralUsed = s.neutralUsed /\ t.current = s.current /\ t.movesLeft = n
            /\ t.winner = s.winner /\ t.over = s.over
            /\ HashHolds(s) => HashHolds(t)
<1> DEFINE t == SetMovesLeft(s, n)
           h == Xor(s.hash, Xor(MovesLeftKey(s.movesLeft), MovesLeftKey(n)))
<1>1. t = [s EXCEPT !.movesLeft = n, !.hash = h]
  BY DEF SetMovesLeft
<1> HIDE DEF t, h
<1>2. t = [players |-> s.players, cells |-> s.cells, active |-> s.active,
           neutralUsed |-> s.neutralUsed, current |-> s.current, movesLeft |-> n,
           winner |-> s.winner, over |-> s.over, hash |-> h]
  BY <1>1 DEF Shaped
<1>3. /\ t.players = s.players /\ t.cells = s.cells /\ t.active = s.active
      /\ t.neutralUsed = s.neutralUsed /\ t.current = s.current /\ t.movesLeft = n
      /\ t.winner = s.winner /\ t.over = s.over
      /\ t.hash = h
  BY <1>2
<1>4. Shaped(t)
  BY <1>2, <1>3 DEF Shaped
<1>5. ASSUME HashHolds(s) PROVE HashHolds(t)
  <2> DEFINE old == MovesLeftKey(s.movesLeft)
             new == MovesLeftKey(n)
             rest == CurrentKey(s.current) \cup ActiveKeys(s.active) \cup NeutralUsedKeys(s.neutralUsed) \cup CellKeys(s.cells)
  <2>1. s.hash = rest \cup old
    BY <1>5 DEF HashHolds, RecomputedHash
  <2>2. rest \cap old = {} /\ rest \cap new = {}
    BY KeyKinds
  <2>3. RecomputedHash(t) = rest \cup new
    BY <1>3 DEF RecomputedHash
  <2> HIDE DEF rest, old, new
  <2>4. h = Xor(s.hash, Xor(old, new))
    BY DEF h, old, new
  <2>5. Xor(rest \cup old, Xor(old, new)) = rest \cup new
    BY <2>2 DEF Xor
  <2> QED BY <1>3, <2>1, <2>3, <2>4, <2>5 DEF HashHolds
<1> QED BY <1>3, <1>4, <1>5 DEF t

LEMMA CurrentSet ==
  ASSUME NEW s, Shaped(s), NEW p
  PROVE  LET t == SetCurrent(s, p)
         IN /\ Shaped(t)
            /\ t.players = s.players /\ t.cells = s.cells /\ t.active = s.active
            /\ t.neutralUsed = s.neutralUsed /\ t.current = p /\ t.movesLeft = s.movesLeft
            /\ t.winner = s.winner /\ t.over = s.over
            /\ HashHolds(s) => HashHolds(t)
<1> DEFINE t == SetCurrent(s, p)
           h == Xor(s.hash, Xor(CurrentKey(s.current), CurrentKey(p)))
<1>1. t = [s EXCEPT !.current = p, !.hash = h]
  BY DEF SetCurrent
<1> HIDE DEF t, h
<1>2. t = [players |-> s.players, cells |-> s.cells, active |-> s.active,
           neutralUsed |-> s.neutralUsed, current |-> p, movesLeft |-> s.movesLeft,
           winner |-> s.winner, over |-> s.over, hash |-> h]
  BY <1>1 DEF Shaped
<1>3. /\ t.players = s.players /\ t.cells = s.cells /\ t.active = s.active
      /\ t.neutralUsed = s.neutralUsed /\ t.current = p /\ t.movesLeft = s.movesLeft
      /\ t.winner = s.winner /\ t.over = s.over
      /\ t.hash = h
  BY <1>2
<1>4. Shaped(t)
  BY <1>2, <1>3 DEF Shaped
<1>5. ASSUME HashHolds(s) PROVE HashHolds(t)
  <2> DEFINE old == CurrentKey(s.current)
             new == CurrentKey(p)
             rest == MovesLeftKey(s.movesLeft) \cup ActiveKeys(s.active) \cup NeutralUsedKeys(s.neutralUsed) \cup CellKeys(s.cells)
  <2>1. s.hash = rest \cup old
    BY <1>5 DEF HashHolds, RecomputedHash
  <2>2. rest \cap old = {} /\ rest \cap new = {}
    BY KeyKinds
  <2>3. RecomputedHash(t) = rest \cup new
    BY <1>3 DEF RecomputedHash
  <2> HIDE DEF rest, old, new
  <2>4. h = Xor(s.hash, Xor(old, new))
    BY DEF h, old, new
  <2>5. Xor(rest \cup old, Xor(old, new)) = rest \cup new
    BY <2>2 DEF Xor
  <2> QED BY <1>3, <2>1, <2>3, <2>4, <2>5 DEF HashHolds
<1> QED BY <1>3, <1>4, <1>5 DEF t

LEMMA CellSet ==
  ASSUME NEW s, Shaped(s), NEW c \in Pos, NEW cell, s.cells \in [Pos -> Cell]
  PROVE  LET t == SetCell(s, c, cell)
         IN /\ Shaped(t)
            /\ t.players = s.players /\ t.cells = [s.cells EXCEPT ![c] = cell] /\ t.active = s.active
            /\ t.neutralUsed = s.neutralUsed /\ t.current = s.current /\ t.movesLeft = s.movesLeft
            /\ t.winner = s.winner /\ t.over = s.over
            /\ HashHolds(s) => HashHolds(t)
<1> DEFINE t == SetCell(s, c, cell)
           h == Xor(Xor(s.hash, CellKey(c, s.cells[c])), CellKey(c, cell))
<1>1. t = [s EXCEPT !.cells[c] = cell, !.hash = h]
  BY DEF SetCell
<1> HIDE DEF t, h
<1>2. t = [players |-> s.players, cells |-> [s.cells EXCEPT ![c] = cell], active |-> s.active,
           neutralUsed |-> s.neutralUsed, current |-> s.current, movesLeft |-> s.movesLeft,
           winner |-> s.winner, over |-> s.over, hash |-> h]
  BY <1>1 DEF Shaped
<1>3. /\ t.players = s.players /\ t.cells = [s.cells EXCEPT ![c] = cell] /\ t.active = s.active
      /\ t.neutralUsed = s.neutralUsed /\ t.current = s.current /\ t.movesLeft = s.movesLeft
      /\ t.winner = s.winner /\ t.over = s.over
      /\ t.hash = h
  BY <1>2
<1>4. Shaped(t)
  BY <1>2, <1>3 DEF Shaped
<1>5. ASSUME HashHolds(s) PROVE HashHolds(t)
  <2> DEFINE old == CellKey(c, s.cells[c])
             new == CellKey(c, cell)
             rest == CurrentKey(s.current) \cup MovesLeftKey(s.movesLeft) \cup ActiveKeys(s.active) \cup NeutralUsedKeys(s.neutralUsed) \cup 
                       {<<"cell", d, s.cells[d]>> : d \in {e \in Pos \ {c} : s.cells[e] # Empty}}
  <2>1. s.hash = rest \cup old
    BY <1>5 DEF HashHolds, RecomputedHash, CellKeys, CellKey
  <2>2. rest \cap old = {} /\ rest \cap new = {}
    BY KeyKinds DEF CellKey
  <2>3. RecomputedHash(t) = rest \cup new
    BY <1>3 DEF RecomputedHash, CellKeys, CellKey
  <2> HIDE DEF rest, old, new
  <2>4. h = Xor(s.hash, Xor(old, new))
    BY DEF h, old, new, Xor
  <2>5. Xor(rest \cup old, Xor(old, new)) = rest \cup new
    BY <2>2 DEF Xor
  <2> QED BY <1>3, <2>1, <2>3, <2>4, <2>5 DEF HashHolds
<1> QED BY <1>3, <1>4, <1>5 DEF t

LEMMA NeutralUsedSet ==
  ASSUME NEW s, Shaped(s), NEW p
  PROVE  LET t == SetNeutralUsed(s, p)
         IN /\ Shaped(t)
            /\ t.players = s.players /\ t.cells = s.cells /\ t.active = s.active
            /\ t.neutralUsed = s.neutralUsed \cup {p} /\ t.current = s.current /\ t.movesLeft = s.movesLeft
            /\ t.winner = s.winner /\ t.over = s.over
            /\ HashHolds(s) => HashHolds(t)
<1> DEFINE t == SetNeutralUsed(s, p)
           h == Xor(s.hash, NeutralUsedKeys({p}))
<1>1. CASE p \in s.neutralUsed
  BY <1>1 DEF SetNeutralUsed
<1>2. CASE p \notin s.neutralUsed
  <2>1. t = [s EXCEPT !.neutralUsed = s.neutralUsed \cup {p}, !.hash = h]
    BY <1>2 DEF SetNeutralUsed
  <2> HIDE DEF t, h
  <2>2. t = [players |-> s.players, cells |-> s.cells, active |-> s.active,
           neutralUsed |-> s.neutralUsed \cup {p}, current |-> s.current, movesLeft |-> s.movesLeft,
           winner |-> s.winner, over |-> s.over, hash |-> h]
    BY <2>1 DEF Shaped
  <2>3. /\ t.players = s.players /\ t.cells = s.cells /\ t.active = s.active
        /\ t.neutralUsed = s.neutralUsed \cup {p} /\ t.current = s.current /\ t.movesLeft = s.movesLeft
        /\ t.winner = s.winner /\ t.over = s.over
        /\ t.hash = h
    BY <2>2
  <2>4. Shaped(t)
    BY <2>2, <2>3 DEF Shaped
  <2>5. ASSUME HashHolds(s) PROVE HashHolds(t)
    <3>1. NeutralUsedKeys({p}) \cap s.hash = {}
      <4>1. NeutralUsedKeys({p}) \cap NeutralUsedKeys(s.neutralUsed) = {}
        BY <1>2, KeyKinds
      <4> DEFINE rest == CurrentKey(s.current) \cup MovesLeftKey(s.movesLeft)
                           \cup ActiveKeys(s.active) \cup CellKeys(s.cells)
      <4>2. s.hash = rest \cup NeutralUsedKeys(s.neutralUsed)
        BY <2>5 DEF HashHolds, RecomputedHash
      <4>3. NeutralUsedKeys({p}) \cap rest = {}
        BY KeyKinds
      <4> QED BY <4>1, <4>2, <4>3
    <3>2. NeutralUsedKeys(s.neutralUsed \cup {p}) = NeutralUsedKeys(s.neutralUsed) \cup NeutralUsedKeys({p})
      BY DEF NeutralUsedKeys
    <3>3. RecomputedHash(t) = RecomputedHash(s) \cup NeutralUsedKeys({p})
      BY <2>3, <3>2 DEF RecomputedHash
    <3>4. h = s.hash \cup NeutralUsedKeys({p})
      BY <3>1 DEF h, Xor
    <3> QED BY <2>3, <2>5, <3>3, <3>4 DEF HashHolds
  <2> QED BY <2>3, <2>4, <2>5 DEF t
<1> QED BY <1>1, <1>2

LEMMA SeatsDeactivated ==
  ASSUME NEW s, Shaped(s), NEW gone
  PROVE  LET t == Deactivate(s, gone)
         IN /\ Shaped(t)
            /\ t.players = s.players /\ t.cells = s.cells /\ t.active = s.active \ gone
            /\ t.neutralUsed = s.neutralUsed /\ t.current = s.current /\ t.movesLeft = s.movesLeft
            /\ t.winner = s.winner /\ t.over = s.over
            /\ HashHolds(s) => HashHolds(t)
<1> DEFINE t == Deactivate(s, gone)
           h == Xor(s.hash, ActiveKeys(s.active \cap gone))
<1>1. t = [s EXCEPT !.active = s.active \ gone, !.hash = h]
  BY DEF Deactivate
<1> HIDE DEF t, h
<1>2. t = [players |-> s.players, cells |-> s.cells, active |-> s.active \ gone,
           neutralUsed |-> s.neutralUsed, current |-> s.current, movesLeft |-> s.movesLeft,
           winner |-> s.winner, over |-> s.over, hash |-> h]
  BY <1>1 DEF Shaped
<1>3. /\ t.players = s.players /\ t.cells = s.cells /\ t.active = s.active \ gone
      /\ t.neutralUsed = s.neutralUsed /\ t.current = s.current /\ t.movesLeft = s.movesLeft
      /\ t.winner = s.winner /\ t.over = s.over
      /\ t.hash = h
  BY <1>2
<1>4. Shaped(t)
  BY <1>2, <1>3 DEF Shaped
<1>5. ASSUME HashHolds(s) PROVE HashHolds(t)
  <2> DEFINE old == ActiveKeys(s.active \cap gone)
             rest == CurrentKey(s.current) \cup MovesLeftKey(s.movesLeft) \cup ActiveKeys(s.active \ gone)
                       \cup NeutralUsedKeys(s.neutralUsed) \cup CellKeys(s.cells)
  <2>1. ActiveKeys(s.active) = ActiveKeys(s.active \ gone) \cup old
    BY DEF ActiveKeys
  <2>2. s.hash = rest \cup old
    BY <1>5, <2>1 DEF HashHolds, RecomputedHash
  <2>3. rest \cap old = {}
    <3>1. ActiveKeys(s.active \ gone) \cap old = {}
      BY KeyKinds
    <3> QED BY <3>1, KeyKinds
  <2>4. RecomputedHash(t) = rest
    BY <1>3 DEF RecomputedHash
  <2>5. h = Xor(s.hash, old)
    BY DEF h
  <2> HIDE DEF rest, old
  <2>6. Xor(rest \cup old, old) = rest
    BY <2>3 DEF Xor
  <2> QED BY <1>3, <2>2, <2>4, <2>5, <2>6 DEF HashHolds
<1> QED BY <1>3, <1>4, <1>5 DEF t

(***************************************************************************)
(* The turn order                                                          *)
(***************************************************************************)
LEMMA FollowingIsActive ==
  ASSUME NEW active \in SUBSET Seat, active # {}, NEW p \in Seat
  PROVE  Following(active, p) \in active
<1> DEFINE after(q) == IF q > p THEN q - p ELSE q - p + Players
           Best(q) == \A r \in active : after(q) <= after(r)
<1>1. \A q \in active : after(q) \in 1..4
  BY BoardAssumption DEF Seat
<1>2. \E q \in active : Best(q)
  <2> HIDE DEF after
  <2>1. CASE \E q \in active : after(q) = 1
    BY <1>1, <2>1
  <2>2. CASE (\A q \in active : after(q) # 1) /\ \E q \in active : after(q) = 2
    BY <1>1, <2>2
  <2>3. CASE (\A q \in active : after(q) \notin {1, 2}) /\ \E q \in active : after(q) = 3
    BY <1>1, <2>3
  <2>4. CASE \A q \in active : after(q) \notin {1, 2, 3}
    BY <1>1, <2>4
  <2> QED BY <2>1, <2>2, <2>3, <2>4
<1>3. Following(active, p) = CHOOSE q \in active : Best(q)
  BY DEF Following
<1> HIDE DEF Best
<1> QED BY <1>2, <1>3

LEMMA SeatsAreFinite ==
  ASSUME NEW seats \in SUBSET Seat
  PROVE  /\ IsFiniteSet(seats) /\ Cardinality(seats) \in Nat
         /\ Cardinality(seats) > 0 => seats # {}
         /\ Cardinality(seats) <= 1 => Sole(seats) \in Seat \cup {0}
<1>1. IsFiniteSet(Seat)
  BY FS_Interval, BoardAssumption DEF Seat
<1>2. IsFiniteSet(seats) /\ Cardinality(seats) \in Nat
  BY <1>1, FS_Subset, FS_CardinalityType
<1>3. Cardinality(seats) > 0 => seats # {}
  BY <1>2, FS_EmptySet
<1>4. Sole(seats) \in Seat \cup {0}
  BY DEF Sole
<1> QED BY <1>2, <1>3, <1>4

(***************************************************************************)
(* What an action does                                                     *)
(***************************************************************************)
Typed(s) ==
  /\ Shaped(s)
  /\ s.players \in 2..Players
  /\ s.cells \in [Pos -> Cell]
  /\ s.active \subseteq Seat
  /\ s.neutralUsed \subseteq Seat
  /\ s.current \in Seat
  /\ s.movesLeft \in 0..ActionsPerTurn
  /\ s.winner \in 0..Players
  /\ s.over \in BOOLEAN

Mobile(cells) == {p \in Seat : HasMove(cells, p)}

\* A game is over exactly when at most one seat can act, and then nobody is to move.
Settled(s) ==
  /\ s.over => s.movesLeft = 0 /\ Cardinality(s.active) <= 1 /\ s.winner = Sole(s.active)
  /\ ~s.over => /\ s.movesLeft > 0 /\ s.winner = 0
                /\ s.current \in s.active /\ Cardinality(s.active) > 1

\* Only seats of this game own cells, and their bases stand where they were built.
Seated(s) ==
  /\ s.current \in 1..s.players
  /\ \A c \in Pos : /\ s.cells[c].owner <= s.players
                    /\ s.cells[c].kind = "Base" => Base[s.cells[c].owner] = c
  /\ \A p \in 1..s.players : BaseIntact(s.cells, p)

\* What an action leaves to Settle: a hardened board and fewer actions.
Played(s, t) ==
  /\ Typed(t)
  /\ BoardHardened(s.cells, t.cells)
  /\ \E c \in Pos : t.cells[c] # s.cells[c]
  /\ \A c \in Pos : t.cells[c].owner \in {s.cells[c].owner, s.current, 0}
  /\ t.players = s.players /\ t.active = s.active /\ t.current = s.current
  /\ t.winner = s.winner /\ t.over = s.over
  /\ s.neutralUsed \subseteq t.neutralUsed
  /\ HashHolds(s) => HashHolds(t)

\* What a legal move finds on its target and puts there.
LEMMA CaptureHardens ==
  ASSUME NEW cell \in Cell, NEW p \in Seat, CapturableBy(cell, p)
  PROVE  /\ Captured(cell, p) \in Cell
         /\ Captured(cell, p).owner = p
         /\ Hardened(cell, Captured(cell, p))
         /\ Captured(cell, p) # cell
<1>1. CASE cell.kind = "Empty"
  <2>1. cell = Empty
    BY <1>1 DEF Cell, Owned, Empty, Neutral, Piece
  <2>2. Captured(cell, p) = Piece(p, "Normal")
    BY <1>1 DEF Captured
  <2> QED BY <2>1, <2>2 DEF Hardened, Cell, Owned, Empty, Piece
<1>2. CASE cell.kind = "Normal" /\ cell.owner # p
  <2>1. PICK o \in Seat : cell = Piece(o, "Normal") /\ o # p
    BY <1>2 DEF Cell, Owned, Empty, Neutral, Piece
  <2>2. Captured(cell, p) = Piece(p, "Fortified")
    BY <1>2 DEF Captured
  <2> QED BY <2>1, <2>2 DEF Hardened, Cell, Owned, Piece
<1> QED BY <1>1, <1>2 DEF CapturableBy

LEMMA MovePlays ==
  ASSUME NEW s, Typed(s), NEW c \in MoveTargets(s.cells, s.current), s.movesLeft > 0
  PROVE  Played(s, MakeMove(s, c))
<1> DEFINE new == Captured(s.cells[c], s.current)
           u == SetCell(s, c, new)
           n == (s.movesLeft - 1) % 256
           t == SetMovesLeft(u, n)
<1>1. c \in Pos /\ CapturableBy(s.cells[c], s.current)
  <2>1. CapturableBy(s.cells[c], s.current)
    BY DEF MoveTargets
  <2>2. PICK d \in Connected(s.cells, s.current) : c \in Near[d] \cup {d}
    BY DEF MoveTargets
  <2>3. d \in Pos
    BY DEF Connected, Own
  <2> QED BY <2>1, <2>2, <2>3, NearIsMutual
<1>2. /\ new \in Cell /\ new.owner = s.current /\ Hardened(s.cells[c], new) /\ new # s.cells[c]
  BY <1>1, CaptureHardens DEF Typed
<1>3. n \in 0..ActionsPerTurn
  BY DEF Typed, ActionsPerTurn
<1> HIDE DEF new, n
<1>4. /\ Shaped(u) /\ u.players = s.players /\ u.cells = [s.cells EXCEPT ![c] = new]
      /\ u.active = s.active /\ u.neutralUsed = s.neutralUsed /\ u.current = s.current
      /\ u.movesLeft = s.movesLeft /\ u.winner = s.winner /\ u.over = s.over
      /\ HashHolds(s) => HashHolds(u)
  BY <1>1, CellSet DEF Typed
<1> HIDE DEF u
<1>5. /\ Shaped(t) /\ t.players = u.players /\ t.cells = u.cells
      /\ t.active = u.active /\ t.neutralUsed = u.neutralUsed /\ t.current = u.current
      /\ t.movesLeft = n /\ t.winner = u.winner /\ t.over = u.over
      /\ HashHolds(u) => HashHolds(t)
  BY <1>4, MovesLeftSet
<1>6. t = MakeMove(s, c)
  BY DEF t, u, n, new, MakeMove
<1> HIDE DEF t
<1>7. s.cells \in [Pos -> Cell]
  BY DEF Typed
<1>8. /\ t.cells \in [Pos -> Cell]
      /\ t.cells[c] # s.cells[c]
      /\ \A e \in Pos : t.cells[e].owner \in {s.cells[e].owner, s.current, 0}
      /\ BoardHardened(s.cells, t.cells)
  BY <1>1, <1>2, <1>4, <1>5, <1>7 DEF BoardHardened, Hardened
<1>9. Typed(t)
  BY <1>3, <1>4, <1>5, <1>8 DEF Typed
<1> QED BY <1>1, <1>4, <1>5, <1>6, <1>8, <1>9 DEF Played

LEMMA NeutralsPlay ==
  ASSUME NEW s, Typed(s), NEW c \in OwnedNormals(s.cells, s.current),
         NEW d \in OwnedNormals(s.cells, s.current), c # d
  PROVE  Played(s, MakeNeutrals(s, c, d))
<1> DEFINE u == SetCell(s, c, Neutral)
           v == SetCell(u, d, Neutral)
           w == SetNeutralUsed(v, s.current)
           t == SetMovesLeft(w, 0)
<1>1. /\ c \in Pos /\ d \in Pos /\ s.current \in Seat /\ s.cells \in [Pos -> Cell]
      /\ s.cells[c] = Piece(s.current, "Normal") /\ s.cells[d] = Piece(s.current, "Normal")
  BY DEF OwnedNormals, Typed
<1>2. Neutral \in Cell /\ Neutral # Piece(s.current, "Normal")
  BY DEF Cell, Neutral, Piece
<1>3. Hardened(Piece(s.current, "Normal"), Neutral)
  BY <1>1 DEF Hardened
<1>4. /\ Shaped(u) /\ u.players = s.players /\ u.cells = [s.cells EXCEPT ![c] = Neutral]
      /\ u.active = s.active /\ u.neutralUsed = s.neutralUsed /\ u.current = s.current
      /\ u.movesLeft = s.movesLeft /\ u.winner = s.winner /\ u.over = s.over
      /\ HashHolds(s) => HashHolds(u)
  BY <1>1, CellSet DEF Typed
<1> HIDE DEF u
<1>5. u.cells \in [Pos -> Cell]
  BY <1>1, <1>2, <1>4
<1>6. /\ Shaped(v) /\ v.players = u.players /\ v.cells = [u.cells EXCEPT ![d] = Neutral]
      /\ v.active = u.active /\ v.neutralUsed = u.neutralUsed /\ v.current = u.current
      /\ v.movesLeft = u.movesLeft /\ v.winner = u.winner /\ v.over = u.over
      /\ HashHolds(u) => HashHolds(v)
  BY <1>1, <1>4, <1>5, CellSet
<1> HIDE DEF v
<1>7. /\ Shaped(w) /\ w.players = v.players /\ w.cells = v.cells
      /\ w.active = v.active /\ w.neutralUsed = v.neutralUsed \cup {s.current}
      /\ w.current = v.current
      /\ w.movesLeft = v.movesLeft /\ w.winner = v.winner /\ w.over = v.over
      /\ HashHolds(v) => HashHolds(w)
  BY <1>6, NeutralUsedSet
<1> HIDE DEF w
<1>8. /\ Shaped(t) /\ t.players = w.players /\ t.cells = w.cells
      /\ t.active = w.active /\ t.neutralUsed = w.neutralUsed /\ t.current = w.current
      /\ t.movesLeft = 0 /\ t.winner = w.winner /\ t.over = w.over
      /\ HashHolds(w) => HashHolds(t)
  BY <1>7, MovesLeftSet
<1>9. t = MakeNeutrals(s, c, d)
  BY DEF t, u, v, w, MakeNeutrals
<1> HIDE DEF t
<1>10. t.cells = [[s.cells EXCEPT ![c] = Neutral] EXCEPT ![d] = Neutral]
  BY <1>4, <1>6, <1>7, <1>8
<1>11. /\ t.cells \in [Pos -> Cell]
       /\ t.cells[d] # s.cells[d]
       /\ \A e \in Pos : t.cells[e].owner \in {s.cells[e].owner, s.current, 0}
       /\ BoardHardened(s.cells, t.cells)
  BY <1>1, <1>2, <1>3, <1>10 DEF BoardHardened, Hardened, Neutral, Piece
<1>12. Typed(t)
  BY <1>1, <1>4, <1>6, <1>7, <1>8, <1>11 DEF Typed, ActionsPerTurn
<1> QED BY <1>1, <1>4, <1>6, <1>7, <1>8, <1>9, <1>11, <1>12 DEF Played

LEMMA LegalPlays ==
  ASSUME NEW s, Typed(s), NEW a \in LegalActions(s)
  PROVE  CanAct(s) /\ Played(s, Play(s, a))
<1> DEFINE owned == OwnedNormals(s.cells, s.current)
<1>1. CanAct(s)
  BY DEF LegalActions
<1>2. CASE \E c \in MoveTargets(s.cells, s.current) : a = Move(c)
  BY <1>1, <1>2, MovePlays DEF CanAct, Play, Move
<1>3. CASE \E pair \in {q \in owned \X owned : Index(q[1]) < Index(q[2])} :
             a = PlaceNeutrals(pair[1], pair[2])
  <2>1. PICK c \in owned, d \in owned : Index(c) < Index(d) /\ a = PlaceNeutrals(c, d)
    BY <1>3
  <2>2. Index(c) \in Int /\ Index(d) \in Int
    BY BoardAssumption DEF Index, OwnedNormals, Pos
  <2>3. c # d
    BY <2>1, <2>2
  <2> QED BY <1>1, <2>1, <2>3, NeutralsPlay DEF Play, PlaceNeutrals
<1> QED BY <1>1, <1>2, <1>3 DEF LegalActions

LEMMA GameFinished ==
  ASSUME NEW s, Shaped(s), NEW p
  PROVE  LET t == Finish(s, p)
         IN /\ Shaped(t)
            /\ t.players = s.players /\ t.cells = s.cells /\ t.active = s.active
            /\ t.neutralUsed = s.neutralUsed /\ t.current = s.current /\ t.movesLeft = 0
            /\ t.winner = p /\ t.over \in BOOLEAN /\ t.over
            /\ HashHolds(s) => HashHolds(t)
<1> DEFINE yes == TRUE
           u == [s EXCEPT !.over = yes, !.winner = p]
<1>1. SetMovesLeft(u, 0) = Finish(s, p) /\ u = [s EXCEPT !.over = yes, !.winner = p]
  BY DEF Finish
<1> HIDE DEF yes, u
<1>2. u = [players |-> s.players, cells |-> s.cells, active |-> s.active,
           neutralUsed |-> s.neutralUsed, current |-> s.current, movesLeft |-> s.movesLeft,
           winner |-> p, over |-> yes, hash |-> s.hash]
  BY <1>1 DEF Shaped
<1>3. /\ u.players = s.players /\ u.cells = s.cells /\ u.active = s.active
      /\ u.neutralUsed = s.neutralUsed /\ u.current = s.current /\ u.movesLeft = s.movesLeft
      /\ u.winner = p /\ u.over = yes
      /\ u.hash = s.hash
  BY <1>2
<1>4. Shaped(u)
  BY <1>2, <1>3 DEF Shaped
<1>5. HashHolds(s) => HashHolds(u)
  BY <1>3 DEF HashHolds, RecomputedHash
<1> DEFINE t == Finish(s, p)
<1>6. t = SetMovesLeft(u, 0)
  BY <1>1
<1> HIDE DEF t
<1>7. /\ Shaped(t)
      /\ t.players = u.players /\ t.cells = u.cells /\ t.active = u.active
      /\ t.neutralUsed = u.neutralUsed /\ t.current = u.current /\ t.movesLeft = 0
      /\ t.winner = u.winner /\ t.over = u.over
      /\ HashHolds(u) => HashHolds(t)
  BY <1>4, <1>6, MovesLeftSet
<1>8. t.over \in BOOLEAN /\ t.over
  BY <1>3, <1>7 DEF yes
<1> QED BY <1>3, <1>5, <1>7, <1>8 DEF t

LEMMA TurnAdvanced ==
  ASSUME NEW s, Shaped(s), NEW p
  PROVE  LET t == Advance(s, p)
         IN /\ Shaped(t)
            /\ t.players = s.players /\ t.cells = s.cells /\ t.active = s.active
            /\ t.neutralUsed = s.neutralUsed /\ t.current = Following(s.active, p)
            /\ t.movesLeft = ActionsPerTurn
            /\ t.winner = s.winner /\ t.over = s.over
            /\ HashHolds(s) => HashHolds(t)
<1> DEFINE u == SetCurrent(s, Following(s.active, p))
<1>1. SetMovesLeft(u, ActionsPerTurn) = Advance(s, p)
  BY DEF Advance
<1>2. /\ Shaped(u) /\ u.players = s.players /\ u.cells = s.cells /\ u.active = s.active
      /\ u.neutralUsed = s.neutralUsed /\ u.current = Following(s.active, p)
      /\ u.movesLeft = s.movesLeft /\ u.winner = s.winner /\ u.over = s.over
      /\ HashHolds(s) => HashHolds(u)
  BY CurrentSet
<1> HIDE DEF u
<1> QED BY <1>1, <1>2, MovesLeftSet

\* Settle turns a played position into one that is over or has a mover who can act.
LEMMA SettleSettles ==
  ASSUME NEW s, Typed(s), ~s.over, s.winner = 0, s.current \in 1..s.players,
         s.active \subseteq 1..s.players, Mobile(s.cells) \subseteq s.active
  PROVE  LET t == Settle(s)
         IN /\ Typed(t) /\ Settled(t)
            /\ t.current \in 1..t.players
            /\ t.players = s.players /\ t.cells = s.cells
            /\ t.active = Mobile(s.cells) /\ t.neutralUsed = s.neutralUsed
            /\ HashHolds(s) => HashHolds(t)
<1> DEFINE stuck == {p \in s.active : ~HasMove(s.cells, p)}
           n == EliminateStuckPlayers(s)
           t == Settle(s)
<1>1. s.active \ stuck = Mobile(s.cells) /\ n = Deactivate(s, stuck)
  BY DEF Mobile, Typed, EliminateStuckPlayers
<1>2. t = IF Cardinality(n.active) <= 1 THEN Finish(n, Sole(n.active))
          ELSE IF n.current \notin n.active \/ n.movesLeft = 0 THEN Advance(n, n.current)
          ELSE n
  BY DEF Settle
<1>3. Shaped(s)
  BY DEF Typed
<1> HIDE DEF stuck, n, t
<1>4. /\ Shaped(n) /\ n.players = s.players /\ n.cells = s.cells
      /\ n.active = Mobile(s.cells) /\ n.neutralUsed = s.neutralUsed /\ n.current = s.current
      /\ n.movesLeft = s.movesLeft /\ n.winner = s.winner /\ n.over = s.over
      /\ HashHolds(s) => HashHolds(n)
  <2> DEFINE m == Deactivate(s, stuck)
  <2>1. /\ Shaped(m) /\ m.players = s.players /\ m.cells = s.cells
        /\ m.active = s.active \ stuck /\ m.neutralUsed = s.neutralUsed
        /\ m.current = s.current /\ m.movesLeft = s.movesLeft
        /\ m.winner = s.winner /\ m.over = s.over
        /\ HashHolds(s) => HashHolds(m)
    BY <1>3, SeatsDeactivated
  <2> HIDE DEF m
  <2>2. n = m
    BY <1>1 DEF m
  <2> QED BY <1>1, <2>1, <2>2
<1>5. n.active \in SUBSET Seat
  BY <1>4 DEF Mobile
<1>6. /\ Cardinality(n.active) \in Nat
      /\ Cardinality(n.active) > 1 => n.active # {}
      /\ Cardinality(n.active) <= 1 => Sole(n.active) \in 0..Players
  BY <1>5, SeatsAreFinite, BoardAssumption DEF Seat
<1>7. CASE Cardinality(n.active) <= 1
  <2>1. t = Finish(n, Sole(n.active))
    BY <1>2, <1>7
  <2>2. /\ Shaped(t) /\ t.players = n.players /\ t.cells = n.cells /\ t.active = n.active
        /\ t.neutralUsed = n.neutralUsed /\ t.current = n.current /\ t.movesLeft = 0
        /\ t.winner = Sole(n.active) /\ t.over
        /\ HashHolds(n) => HashHolds(t)
    BY <1>4, <2>1, GameFinished
  <2>3. Settled(t)
    BY <1>7, <2>2 DEF Settled
  <2>4. Typed(t)
    BY <1>4, <1>5, <1>6, <1>7, <2>2 DEF Typed, ActionsPerTurn
  <2> QED BY <1>4, <2>2, <2>3, <2>4 DEF t
<1>8. CASE Cardinality(n.active) > 1 /\ (n.current \notin n.active \/ n.movesLeft = 0)
  <2>1. t = Advance(n, n.current)
    BY <1>2, <1>6, <1>8
  <2>2. /\ Shaped(t) /\ t.players = n.players /\ t.cells = n.cells /\ t.active = n.active
        /\ t.neutralUsed = n.neutralUsed /\ t.current = Following(n.active, n.current)
        /\ t.movesLeft = ActionsPerTurn /\ t.winner = n.winner /\ t.over = n.over
        /\ HashHolds(n) => HashHolds(t)
    BY <1>4, <2>1, TurnAdvanced
  <2>3. t.current \in n.active
    BY <1>4, <1>5, <1>6, <1>8, <2>2, FollowingIsActive DEF Typed
  <2>4. Settled(t)
    BY <1>4, <1>8, <2>2, <2>3 DEF Settled, ActionsPerTurn
  <2>5. Typed(t)
    BY <1>4, <1>5, <2>2, <2>3 DEF Typed, ActionsPerTurn
  <2>6. t.current \in 1..t.players
    BY <1>4, <2>2, <2>3
  <2> QED BY <1>4, <2>2, <2>4, <2>5, <2>6 DEF t
<1>9. CASE Cardinality(n.active) > 1 /\ n.current \in n.active /\ n.movesLeft # 0
  <2>1. t = n
    BY <1>2, <1>6, <1>9
  <2>2. Settled(t)
    BY <1>4, <1>9, <2>1 DEF Settled, Typed
  <2>3. Typed(t)
    BY <1>4, <1>5, <2>1 DEF Typed
  <2> QED BY <1>4, <2>1, <2>2, <2>3 DEF t
<1> QED BY <1>6, <1>7, <1>8, <1>9

(***************************************************************************)
(* The inductive invariant                                                 *)
(***************************************************************************)
Sound(s) ==
  /\ Typed(s)
  /\ Seated(s)
  /\ Settled(s)
  /\ HashHolds(s)
  /\ s.active = Mobile(s.cells)

IInv == Sound(state)

\* A seat that has a move has its base, and so is one of the game's.
LEMMA MobileAreSeated ==
  ASSUME NEW s, Typed(s), Seated(s)
  PROVE  Mobile(s.cells) \subseteq 1..s.players
<1> SUFFICES ASSUME NEW p \in Seat, HasMove(s.cells, p)
             PROVE  p \in 1..s.players
  BY DEF Mobile
<1>1. BaseIntact(s.cells, p)
  BY DEF HasMove, Connected
<1>2. Base[p] \in Pos /\ s.cells[Base[p]].owner = p
  BY <1>1, BasesApart DEF BaseIntact, Piece
<1>3. p <= s.players
  BY <1>2 DEF Seated
<1> QED BY <1>3, BoardAssumption DEF Seat, Typed

LEMMA InitHolds == Init => Sound(state)
<1> SUFFICES ASSUME NEW players \in 2..Players, state = NewGame(players)
             PROVE  Sound(state)
  BY DEF Init
<1> DEFINE cells == [c \in Pos |-> IF \E p \in 1..players : c = Base[p]
                                   THEN Piece(CHOOSE p \in 1..players : c = Base[p], "Base")
                                   ELSE Empty]
           no == FALSE
           u == [players |-> players, cells |-> cells, active |-> 1..players,
                 neutralUsed |-> {}, current |-> 1, movesLeft |-> ActionsPerTurn,
                 winner |-> 0, over |-> no, hash |-> {}]
           h == RecomputedHash(u)
<1>1. state = [u EXCEPT !.hash = h]
  BY DEF NewGame, Hashed
<1>2. 1..players \subseteq Seat
  BY BoardAssumption DEF Seat
<1>3. /\ cells \in [Pos -> Cell]
      /\ \A p \in 1..players : cells[Base[p]] = Piece(p, "Base")
      /\ \A c \in Pos : (\A p \in 1..players : c # Base[p]) => cells[c] = Empty
  <2>1. ASSUME NEW p \in 1..players PROVE cells[Base[p]] = Piece(p, "Base")
    <3>1. Base[p] \in Pos
      BY <1>2, BasesApart
    <3>2. (CHOOSE q \in 1..players : Base[p] = Base[q]) = p
      BY <1>2, BasesApart
    <3> QED BY <3>1, <3>2
  <2>2. ASSUME NEW c \in Pos PROVE cells[c] \in Cell
    <3>1. CASE \E p \in 1..players : c = Base[p]
      <4>1. PICK p \in 1..players : c = Base[p]
        BY <3>1
      <4> QED BY <1>2, <2>1, <4>1 DEF Cell, Owned, Piece
    <3>2. CASE ~\E p \in 1..players : c = Base[p]
      BY <3>2 DEF Cell
    <3> QED BY <3>1, <3>2
  <2>3. \A c \in Pos : (\A p \in 1..players : c # Base[p]) => cells[c] = Empty
    OBVIOUS
  <2> HIDE DEF cells
  <2>4. cells = [c \in Pos |-> cells[c]]
    BY DEF cells
  <2> QED BY <2>1, <2>2, <2>3, <2>4
<1> HIDE DEF cells, no, h
<1>4. state = [players |-> players, cells |-> cells, active |-> 1..players,
               neutralUsed |-> {}, current |-> 1, movesLeft |-> ActionsPerTurn,
               winner |-> 0, over |-> no, hash |-> h]
  BY <1>1
<1>5. /\ state.players = players /\ state.cells = cells /\ state.active = 1..players
      /\ state.neutralUsed = {} /\ state.current = 1 /\ state.movesLeft = ActionsPerTurn
      /\ state.winner = 0 /\ state.over = no /\ state.hash = h
  BY <1>4
<1>6. HashHolds(state)
  <2>1. RecomputedHash(state) = RecomputedHash(u)
    BY <1>5 DEF RecomputedHash
  <2> QED BY <1>5, <2>1 DEF HashHolds, h
<1>7. Typed(state)
  BY <1>2, <1>3, <1>4, <1>5, BoardAssumption DEF Typed, Shaped, ActionsPerTurn, Seat, no
<1>8. Seated(state)
  <2>1. ASSUME NEW c \in Pos
        PROVE  /\ cells[c].owner <= players
               /\ cells[c].kind = "Base" => Base[cells[c].owner] = c
    <3>1. CASE \E p \in 1..players : c = Base[p]
      <4>1. PICK p \in 1..players : c = Base[p]
        BY <3>1
      <4>2. cells[c] = Piece(p, "Base") /\ p <= players
        BY <1>3, <4>1
      <4> QED BY <4>1, <4>2 DEF Piece
    <3>2. CASE ~\E p \in 1..players : c = Base[p]
      BY <1>3, <3>2 DEF Empty, Piece
    <3> QED BY <3>1, <3>2
  <2> QED BY <1>3, <1>5, <2>1 DEF Seated, BaseIntact
<1>9. Mobile(cells) = 1..players
  <2>1. Mobile(cells) \subseteq 1..players
    BY <1>5, <1>7, <1>8, MobileAreSeated
  <2>2. ASSUME NEW p \in 1..players PROVE HasMove(cells, p)
    <3>1. p \in Seat /\ BaseIntact(cells, p)
      BY <1>2, <1>3 DEF BaseIntact
    <3>2. Base[p] \in Connected(cells, p)
      BY <3>1, ConnectedIsLeast DEF Regions
    <3>3. PICK c \in Near[Base[p]] : \A q \in Seat : c # Base[q]
      BY <3>1, RoomAssumption
    <3>4. c \in Pos
      BY <3>1, NearIsMutual, BasesApart
    <3>5. cells[c] = Empty
      BY <1>2, <1>3, <3>3, <3>4
    <3> QED BY <3>2, <3>3, <3>5 DEF HasMove, CapturableBy, Empty, Piece
  <2> QED BY <1>2, <2>1, <2>2 DEF Mobile
<1>10. Settled(state)
  <2>1. Cardinality(1..players) = players
    BY FS_Interval
  <2> QED BY <1>5, <2>1 DEF Settled, ActionsPerTurn, no
<1> QED BY <1>5, <1>6, <1>7, <1>8, <1>9, <1>10 DEF Sound

\* One action: what it plays, and that settling it restores the invariant.
LEMMA ActionHolds ==
  ASSUME NEW s, Sound(s), NEW a \in LegalActions(s)
  PROVE  /\ Sound(Apply(s, a))
         /\ Played(s, Play(s, a))
         /\ Apply(s, a).cells = Play(s, a).cells
         /\ Apply(s, a).neutralUsed = Play(s, a).neutralUsed
<1> DEFINE u == Play(s, a)
           t == Apply(s, a)
<1>1. /\ Typed(s) /\ Seated(s) /\ Settled(s) /\ HashHolds(s) /\ s.active = Mobile(s.cells)
  BY DEF Sound
<1>2. Played(s, u) /\ ~s.over
  BY <1>1, LegalPlays DEF CanAct
<1>3. t = Settle(u)
  BY DEF Apply
<1> HIDE DEF u, t
<1>4. Mobile(s.cells) \subseteq 1..s.players
  BY <1>1, MobileAreSeated
<1>5. Mobile(u.cells) \subseteq u.active
  BY <1>1, <1>2, StuckForEver DEF Played, Typed, Mobile
<1>6. Typed(u) /\ ~u.over /\ u.winner = 0 /\ u.current \in 1..u.players
      /\ u.active \subseteq 1..u.players
  BY <1>1, <1>2, <1>4 DEF Played, Settled, Seated
<1>7. /\ Typed(t) /\ Settled(t)
      /\ t.current \in 1..t.players
      /\ t.players = u.players /\ t.cells = u.cells
      /\ t.active = Mobile(u.cells) /\ t.neutralUsed = u.neutralUsed
      /\ HashHolds(u) => HashHolds(t)
  BY <1>3, <1>5, <1>6, SettleSettles
<1>8. ASSUME NEW c \in Pos
      PROVE  /\ u.cells[c].owner <= s.players
             /\ u.cells[c].kind = "Base" => Base[u.cells[c].owner] = c
  <2>1. /\ u.cells[c].owner \in {s.cells[c].owner, s.current, 0}
        /\ s.cells[c].owner <= s.players /\ s.current <= s.players /\ 0 <= s.players
        /\ s.cells[c].kind = "Base" => Base[s.cells[c].owner] = c
    BY <1>1, <1>2, BoardAssumption DEF Played, Seated, Typed
  <2>2. u.cells[c].kind = "Base" => u.cells[c] = s.cells[c]
    BY <1>1, <1>2, HardenedFacts, BoardAssumption DEF Played, BoardHardened, Typed, Seat
  <2> QED BY <2>1, <2>2
<1>9. ASSUME NEW p \in 1..s.players
      PROVE  BaseIntact(u.cells, p)
  <2>1. p \in Seat /\ BaseIntact(s.cells, p)
    BY <1>1, BoardAssumption DEF Seated, Seat, Typed
  <2> QED BY <1>1, <1>2, <2>1, BasesApart, HardenedFacts
          DEF BaseIntact, Played, BoardHardened, Typed
<1>10. Seated(t)
  BY <1>2, <1>7, <1>8, <1>9 DEF Seated, Played
<1>11. HashHolds(t)
  BY <1>1, <1>2, <1>7 DEF Played
<1> QED BY <1>2, <1>7, <1>10, <1>11 DEF Sound, u, t

THEOREM Invariance == Spec => []IInv
<1>1. Init => IInv
  BY InitHolds DEF IInv
<1>2. IInv /\ [Next]_state => IInv'
  <2> SUFFICES ASSUME Sound(state), [Next]_state PROVE Sound(state')
    BY DEF IInv
  <2>1. CASE Next
    BY <2>1, ActionHolds DEF Next
  <2>2. CASE UNCHANGED state
    BY <2>2
  <2> QED BY <2>1, <2>2
<1> QED BY <1>1, <1>2, PTL DEF Spec

(***************************************************************************)
(* The properties                                                          *)
(***************************************************************************)
\* Every reachable position is well typed, and movesLeft never wraps below zero.
THEOREM TypeCorrect == Spec => []TypeOK
<1>1. IInv => TypeOK
  BY DEF IInv, Sound, Typed, TypeOK
<1> QED BY <1>1, Invariance, PTL

\* A running game always has a mover who has something to play.
THEOREM MoverCanAct == Spec => []RunningCanAct
<1>1. ASSUME IInv, ~state.over PROVE CanAct(state) /\ LegalActions(state) # {}
  <2>1. /\ CanAct(state) /\ state.current \in Seat /\ HasMove(state.cells, state.current)
        /\ state.cells \in [Pos -> Cell]
    BY <1>1 DEF IInv, Sound, Settled, Typed, Mobile, CanAct
  <2>2. PICK c \in Connected(state.cells, state.current) :
               \E d \in Near[c] : CapturableBy(state.cells[d], state.current)
    BY <2>1 DEF HasMove
  <2>3. PICK d \in Near[c] : CapturableBy(state.cells[d], state.current)
    BY <2>2
  <2>4. d \in MoveTargets(state.cells, state.current)
    BY <2>2, <2>3 DEF MoveTargets
  <2>5. Move(d) \in LegalActions(state)
    BY <2>1, <2>4 DEF LegalActions
  <2> QED BY <2>1, <2>5
<1>2. IInv => RunningCanAct
  BY <1>1 DEF RunningCanAct
<1> QED BY <1>2, Invariance, PTL

\* Who is active is a function of the board.
THEOREM ActivityIsMobility == Spec => []ActiveIsMobility
<1>1. IInv => ActiveIsMobility
  BY DEF IInv, Sound, Mobile, ActiveIsMobility
<1> QED BY <1>1, Invariance, PTL

\* The incremental key is the key of the position, whatever path led to it.
THEOREM KeyIsCanonical == Spec => []HashIsRecomputed
<1>1. IInv => HashIsRecomputed
  BY DEF IInv, Sound, HashHolds, HashIsRecomputed
<1> QED BY <1>1, Invariance, PTL

\* Every action hardens some cell and softens none, and revives nobody.
THEOREM OnlyForward == Spec => GamesOnlyMoveForward
<1> DEFINE Forward ==
       /\ \A c \in Pos : Rank(state.cells[c]) <= Rank(state'.cells[c])
       /\ \E c \in Pos : Rank(state.cells[c]) < Rank(state'.cells[c])
       /\ state'.active \subseteq state.active
       /\ state.neutralUsed \subseteq state'.neutralUsed
<1>1. ASSUME IInv, NEW a \in LegalActions(state), state' = Apply(state, a)
      PROVE  Forward
  <2>1. /\ Sound(state) /\ Sound(state') /\ Typed(state) /\ Typed(state')
        /\ Played(state, Play(state, a))
        /\ state'.cells = Play(state, a).cells
        /\ state'.neutralUsed = Play(state, a).neutralUsed
    BY <1>1, ActionHolds DEF IInv, Sound
  <2>2. BoardHardened(state.cells, state'.cells)
    BY <2>1 DEF Played
  <2>3. ASSUME NEW c \in Pos
        PROVE  /\ Rank(state.cells[c]) <= Rank(state'.cells[c])
               /\ state'.cells[c] # state.cells[c] =>
                    Rank(state.cells[c]) < Rank(state'.cells[c])
    BY <2>1, <2>2, HardenedFacts, BoardAssumption DEF BoardHardened, Typed, Seat
  <2>4. \E c \in Pos : state'.cells[c] # state.cells[c]
    BY <2>1 DEF Played
  <2>5. state'.active \subseteq state.active
    BY <2>1, <2>2, StuckForEver DEF Sound, Mobile, Typed
  <2>6. state.neutralUsed \subseteq state'.neutralUsed
    BY <2>1 DEF Played
  <2> QED BY <2>3, <2>4, <2>5, <2>6
<1>2. IInv /\ [Next]_state => [Forward]_state
  BY <1>1 DEF Next
<1> QED BY <1>2, Invariance, PTL DEF Spec, GamesOnlyMoveForward

\* A finished game's winner is its outcome.
THEOREM WinnerIsOutcome == Spec => []OutcomeIsWinner
<1>1. ASSUME IInv, state.over, state.winner # 0
      PROVE  OutcomeWinner(state) = state.winner
  <2> DEFINE survivors == {p \in state.active : HasMove(state.cells, p)}
  <2>1. /\ survivors = state.active
        /\ state.active \in SUBSET Seat
        /\ Cardinality(state.active) <= 1 /\ state.winner = Sole(state.active)
    BY <1>1 DEF IInv, Sound, Settled, Mobile
  <2>2. state.active # {}
    BY <1>1, <2>1 DEF Sole
  <2>3. Cardinality(survivors) = 1
    BY <2>1, <2>2, SeatsAreFinite, FS_EmptySet
  <2> HIDE DEF survivors
  <2>4. Cardinality(survivors) = 1 => OutcomeWinner(state) = Sole(survivors)
    BY DEF OutcomeWinner, survivors
  <2> QED BY <2>1, <2>3, <2>4
<1>2. IInv => OutcomeIsWinner
  BY <1>1 DEF OutcomeIsWinner
<1> QED BY <1>2, Invariance, PTL

(***************************************************************************)
(* The wire                                                                *)
(***************************************************************************)
LEMMA GridMade ==
  ASSUME NEW players, NEW cells, NEW current, NEW movesLeft, NEW neutralUsed
  PROVE  LET t == FromGrid(players, cells, current, movesLeft, neutralUsed)
         IN /\ Shaped(t) /\ HashHolds(t)
            /\ t.players = players /\ t.cells = cells
            /\ t.active = {p \in Seat : BaseIntact(cells, p)}
            /\ t.neutralUsed = neutralUsed /\ t.current = current /\ t.movesLeft = movesLeft
            /\ t.winner = 0 /\ t.over \in BOOLEAN /\ ~t.over
<1> DEFINE no == FALSE
           intact == {p \in Seat : BaseIntact(cells, p)}
           u == [players |-> players, cells |-> cells, active |-> intact,
                 neutralUsed |-> neutralUsed, current |-> current, movesLeft |-> movesLeft,
                 winner |-> 0, over |-> no, hash |-> {}]
           h == RecomputedHash(u)
           t == FromGrid(players, cells, current, movesLeft, neutralUsed)
<1>1. t = [u EXCEPT !.hash = h]
  BY DEF FromGrid, Hashed
<1> HIDE DEF no, h, t, intact
<1>2. t = [players |-> players, cells |-> cells, active |-> intact,
           neutralUsed |-> neutralUsed, current |-> current, movesLeft |-> movesLeft,
           winner |-> 0, over |-> no, hash |-> h]
  BY <1>1
<1>3. /\ t.players = players /\ t.cells = cells /\ t.active = intact
      /\ t.neutralUsed = neutralUsed /\ t.current = current /\ t.movesLeft = movesLeft
      /\ t.winner = 0 /\ t.over = no /\ t.hash = h
  BY <1>2
<1>4. Shaped(t)
  BY <1>2, <1>3 DEF Shaped
<1>5. RecomputedHash(t) = RecomputedHash(u)
  BY <1>3 DEF RecomputedHash
<1>6. HashHolds(t)
  BY <1>3, <1>5 DEF HashHolds, h
<1> QED BY <1>3, <1>4, <1>6 DEF t, no, intact

\* Positions that agree on eight fields and have the right key are equal.
LEMMA SamePosition ==
  ASSUME NEW s, NEW t, Shaped(s), Shaped(t), HashHolds(s), HashHolds(t),
         t.players = s.players, t.cells = s.cells, t.active = s.active,
         t.neutralUsed = s.neutralUsed, t.current = s.current, t.movesLeft = s.movesLeft,
         t.winner = s.winner, t.over = s.over
  PROVE  t = s
<1>1. t.hash = s.hash
  BY DEF HashHolds, RecomputedHash
<1> QED BY <1>1 DEF Shaped

\* What Decode makes of snap when the board is that of s: next, unless snap is refused
\* or the game is over.
ImportedAs(s, snap, next) ==
  /\ Shaped(next) /\ HashHolds(next)
  /\ next.players = s.players /\ next.cells = s.cells /\ next.active = s.active
  /\ next.neutralUsed = s.neutralUsed /\ next.current = snap.currentPlayer
  /\ next.movesLeft = snap.movesLeft /\ next.winner = 0
  /\ next.over \in BOOLEAN /\ ~next.over
  /\ Decode(snap) =
       IF ~WellFormed(snap) THEN Rejected
       ELSE IF snap.gameOver THEN Finish(next, snap.winner)
       ELSE IF Cardinality(s.active) <= 1 THEN Finish(next, Sole(s.active))
       ELSE IF snap.winner # 0 \/ snap.currentPlayer \notin s.active THEN Rejected
       ELSE next

\* So it is when the declared activity covers the real one.
LEMMA Imported ==
  ASSUME NEW s, Sound(s), NEW snap,
         snap.players = s.players, snap.board = s.cells, snap.neutralUsed = s.neutralUsed,
         s.active \subseteq snap.active, snap.active \subseteq 1..s.players
  PROVE  \E next : ImportedAs(s, snap, next)
<1> DEFINE grid == FromGrid(snap.players, snap.board, snap.currentPlayer, snap.movesLeft,
                            snap.neutralUsed)
           derived == {p \in snap.active : BaseIntact(snap.board, p) /\ HasMove(snap.board, p)}
           gone == grid.active \ derived
           next == Deactivate(grid, gone)
<1>1. Decode(snap) =
        IF ~WellFormed(snap) THEN Rejected
        ELSE IF snap.gameOver THEN Finish(next, snap.winner)
        ELSE IF Cardinality(derived) <= 1 THEN Finish(next, Sole(derived))
        ELSE IF snap.winner # 0 \/ snap.currentPlayer \notin derived THEN Rejected
        ELSE next
  BY DEF Decode
<1>2. \A p : HasMove(s.cells, p) => BaseIntact(s.cells, p)
  BY DEF HasMove, Connected
<1>3. s.active = Mobile(s.cells) /\ 1..s.players \subseteq Seat
  BY BoardAssumption DEF Sound, Typed, Seat
<1>4. derived = s.active
  BY <1>2, <1>3 DEF Mobile
<1>5. /\ Shaped(grid) /\ HashHolds(grid)
      /\ grid.players = s.players /\ grid.cells = s.cells
      /\ grid.active = {p \in Seat : BaseIntact(s.cells, p)}
      /\ grid.neutralUsed = s.neutralUsed /\ grid.current = snap.currentPlayer
      /\ grid.movesLeft = snap.movesLeft /\ grid.winner = 0
      /\ grid.over \in BOOLEAN /\ ~grid.over
  BY GridMade
<1>6. grid.active \ gone = s.active
  BY <1>2, <1>3, <1>4, <1>5 DEF Mobile
<1> HIDE DEF grid, derived, gone
<1>7. /\ Shaped(next) /\ HashHolds(next)
      /\ next.players = grid.players /\ next.cells = grid.cells
      /\ next.active = grid.active \ gone
      /\ next.neutralUsed = grid.neutralUsed /\ next.current = grid.current
      /\ next.movesLeft = grid.movesLeft /\ next.winner = grid.winner /\ next.over = grid.over
  BY <1>5, SeatsDeactivated
<1> HIDE DEF next
<1> WITNESS next
<1> QED BY <1>1, <1>4, <1>5, <1>6, <1>7 DEF ImportedAs

\* Decoding recovers the position, key included, however far the server's flags lag.
THEOREM DecodingAgrees == Spec => []DecodeAgrees
<1>1. ASSUME IInv, NEW late \in SUBSET ((1..state.players) \ state.active),
             NEW noticed \in {FALSE, state.over}
      PROVE  Decode(Published(state, late, noticed)) = state
  <2> DEFINE snap == Published(state, late, noticed)
             winner == IF noticed THEN state.winner ELSE 0
  <2>1. /\ Sound(state) /\ Typed(state) /\ Shaped(state) /\ Seated(state) /\ Settled(state)
        /\ HashHolds(state) /\ state.active = Mobile(state.cells)
        /\ Mobile(state.cells) \subseteq 1..state.players
    BY <1>1, MobileAreSeated DEF IInv, Sound, Typed
  <2>0. snap = [Snapshot(state) EXCEPT !.active = state.active \cup late,
                                       !.gameOver = noticed, !.winner = winner]
    BY DEF Published
  <2> SUFFICES Decode(snap) = state
    OBVIOUS
  <2> HIDE DEF snap, winner
  <2>2. snap = [players |-> state.players, board |-> state.cells,
                active |-> state.active \cup late, neutralUsed |-> state.neutralUsed,
                currentPlayer |-> state.current, movesLeft |-> state.movesLeft,
                gameOver |-> noticed, winner |-> winner]
    BY <2>0 DEF Snapshot
  <2>3. /\ snap.players = state.players /\ snap.board = state.cells
        /\ snap.active = state.active \cup late /\ snap.neutralUsed = state.neutralUsed
        /\ snap.currentPlayer = state.current /\ snap.movesLeft = state.movesLeft
        /\ snap.gameOver = noticed /\ snap.winner = winner
    BY <2>2
  <2>4. Sole(state.active) \in state.active \cup {0}
    BY DEF Sole
  <2>5. winner \in 0..state.players
    BY <2>1, <2>4, BoardAssumption DEF winner, Settled, Typed
  <2>6. WellFormed(snap)
    <3>1. \A p \in snap.active : BaseIntact(snap.board, p)
      BY <2>1, <2>3 DEF Seated
    <3>2. \A c \in Pos : /\ snap.board[c] \in Cell
                         /\ snap.board[c].owner <= snap.players
                         /\ snap.board[c].kind = "Base" => Base[snap.board[c].owner] = c
      BY <2>1, <2>3 DEF Seated, Typed
    <3>3. /\ snap.movesLeft <= ActionsPerTurn
          /\ snap.currentPlayer \in 1..snap.players
      BY <2>1, <2>3 DEF Seated, Typed, ActionsPerTurn
    <3> QED BY <2>3, <2>5, <3>1, <3>2, <3>3 DEF WellFormed
  <2>7. PICK next : ImportedAs(state, snap, next)
    <3>1. /\ state.active \subseteq snap.active
          /\ snap.active \subseteq 1..state.players
      BY <2>1, <2>3
    <3>2. \E next : ImportedAs(state, snap, next)
      BY <2>1, <2>3, <3>1, Imported
    <3> QED BY <3>2
  <2>8. CASE state.over
    <3>1. /\ Cardinality(state.active) <= 1 /\ state.movesLeft = 0
          /\ state.winner = Sole(state.active)
      BY <2>1, <2>8 DEF Settled
    <3>2. Decode(snap) = Finish(next, state.winner)
      BY <2>3, <2>6, <2>7, <3>1 DEF winner, ImportedAs
    <3> DEFINE t == Finish(next, state.winner)
    <3>3. /\ Shaped(t) /\ HashHolds(t)
          /\ t.players = next.players /\ t.cells = next.cells /\ t.active = next.active
          /\ t.neutralUsed = next.neutralUsed /\ t.current = next.current /\ t.movesLeft = 0
          /\ t.winner = state.winner /\ t.over \in BOOLEAN /\ t.over
      BY <2>7, GameFinished DEF ImportedAs
    <3> HIDE DEF t
    <3>4. t.over = state.over
      BY <2>1, <2>8, <3>3
    <3> QED BY <2>1, <2>3, <2>7, <3>1, <3>2, <3>3, <3>4, SamePosition DEF t, ImportedAs
  <2>9. CASE ~state.over
    <3>1. /\ ~(Cardinality(state.active) <= 1) /\ state.winner = 0
          /\ state.current \in state.active
      <4>1. Cardinality(state.active) > 1 /\ Cardinality(state.active) \in Nat
        BY <2>1, <2>9, SeatsAreFinite DEF Settled, Typed
      <4> QED BY <2>1, <2>9, <4>1 DEF Settled
    <3>2. Decode(snap) = next
      BY <1>1, <2>3, <2>6, <2>7, <2>9, <3>1 DEF winner, ImportedAs
    <3>3. next.over = state.over
      <4>1. state.over \in BOOLEAN
        BY <2>1 DEF Typed
      <4>2. next.over \in BOOLEAN /\ ~next.over
        BY <2>7 DEF ImportedAs
      <4> QED BY <2>9, <4>1, <4>2
    <3> QED BY <2>1, <2>3, <2>7, <3>1, <3>2, <3>3, SamePosition DEF ImportedAs
  <2> QED BY <2>8, <2>9
<1>2. IInv => DecodeAgrees
  BY <1>1 DEF DecodeAgrees
<1> QED BY <1>2, Invariance, PTL

\* The echo of a turn's last action offers nothing to play.
THEOREM EchoIsInert == Spec => EchoOffersNothing
<1> DEFINE echo == Echo(state, state')
           Inert == state'.current # state.current =>
                      Decode(echo) = Rejected \/ LegalActions(Decode(echo)) = {}
<1>1. ASSUME IInv, IInv', state'.current # state.current
      PROVE  Decode(echo) = Rejected \/ LegalActions(Decode(echo)) = {}
  <2> DEFINE left == IF state.current \in state'.active THEN 0 ELSE state.movesLeft - 1
  <2>1. /\ Sound(state') /\ Settled(state') /\ state'.active = Mobile(state'.cells)
        /\ Mobile(state'.cells) \subseteq 1..state'.players
    BY <1>1, MobileAreSeated DEF IInv, Sound
  <2>2. echo = [Snapshot(state') EXCEPT !.currentPlayer = state.current, !.movesLeft = left]
    BY DEF Echo
  <2> HIDE DEF echo, left
  <2>3. echo = [players |-> state'.players, board |-> state'.cells, active |-> state'.active,
                neutralUsed |-> state'.neutralUsed, currentPlayer |-> state.current,
                movesLeft |-> left, gameOver |-> state'.over, winner |-> state'.winner]
    BY <2>2 DEF Snapshot
  <2>4. /\ echo.players = state'.players /\ echo.board = state'.cells
        /\ echo.active = state'.active /\ echo.neutralUsed = state'.neutralUsed
        /\ echo.currentPlayer = state.current /\ echo.movesLeft = left
    BY <2>3
  <2>5. PICK next : ImportedAs(state', echo, next)
    BY <2>1, <2>4, Imported
  <2>6. \A p : LegalActions(Finish(next, p)) = {}
    BY <2>5, GameFinished DEF ImportedAs, LegalActions, CanAct
  <2>7. state.current \in state'.active => LegalActions(next) = {}
    BY <2>4, <2>5 DEF ImportedAs, LegalActions, CanAct, left
  <2> QED BY <2>4, <2>5, <2>6, <2>7 DEF ImportedAs
<1>2. IInv /\ IInv' => [Inert]_state
  BY <1>1
<1> QED BY <1>2, Invariance, PTL DEF EchoOffersNothing

(***************************************************************************)
(* Enumeration and check                                                   *)
(***************************************************************************)
\* The row-major numbering is injective.
LEMMA IndexIsInjective ==
  ASSUME NEW c \in Pos, NEW d \in Pos, c # d
  PROVE  Index(c) < Index(d) \/ Index(d) < Index(c)
<1>1. /\ c[1] \in 0..Rows-1 /\ c[2] \in 0..Cols-1 /\ d[1] \in 0..Rows-1 /\ d[2] \in 0..Cols-1
      /\ c[1] # d[1] \/ c[2] # d[2]
  BY DEF Pos
<1>2. ASSUME NEW i \in Nat, NEW j \in Nat, i < j
      PROVE  i * Cols + Cols <= j * Cols
  <2>1. PICK k \in Nat : j = i + 1 + k
    BY <1>2
  <2>2. j * Cols = i * Cols + Cols + k * Cols /\ k * Cols >= 0
    BY <2>1, BoardAssumption
  <2> QED BY <2>2, BoardAssumption
<1>3. CASE c[1] = d[1]
  <2> DEFINE before == c[1] * Cols
  <2>1. before \in Int
    BY <1>1, BoardAssumption
  <2>2. Index(c) = before + c[2] /\ Index(d) = before + d[2]
    BY <1>3 DEF Index
  <2> HIDE DEF before
  <2> QED BY <1>1, <1>3, <2>1, <2>2, BoardAssumption
<1>4. CASE c[1] < d[1]
  <2>1. c[1] * Cols + Cols <= d[1] * Cols
    BY <1>1, <1>2, <1>4, BoardAssumption
  <2> QED BY <1>1, <2>1, BoardAssumption DEF Index
<1>5. CASE d[1] < c[1]
  <2>1. d[1] * Cols + Cols <= c[1] * Cols
    BY <1>1, <1>2, <1>5, BoardAssumption
  <2> QED BY <1>1, <2>1, BoardAssumption DEF Index
<1>6. c[1] = d[1] \/ c[1] < d[1] \/ d[1] < c[1]
  BY <1>1, BoardAssumption
<1> QED BY <1>3, <1>4, <1>5, <1>6

LEMMA MovesAgree ==
  ASSUME NEW cells \in [Pos -> Cell], NEW p \in Seat, NEW c \in Pos
  PROVE  LegalMove(cells, p, c) <=> c \in MoveTargets(cells, p)
<1>1. /\ Connected(cells, p) \subseteq Pos
      /\ \A d \in Connected(cells, p) : cells[d].owner = p
  BY DEF Connected, Own
<1>2. ASSUME LegalMove(cells, p, c) PROVE c \in MoveTargets(cells, p)
  BY <1>1, <1>2, NearIsMutual DEF LegalMove, MoveTargets
<1>3. ASSUME c \in MoveTargets(cells, p) PROVE LegalMove(cells, p, c)
  <2>1. CapturableBy(cells[c], p)
    BY <1>3 DEF MoveTargets
  <2>2. c \notin Connected(cells, p)
    BY <1>1, <2>1 DEF CapturableBy, Cell, Owned, Empty, Neutral, Piece, Seat
  <2>3. PICK d \in Connected(cells, p) : c \in Near[d] \cup {d}
    BY <1>3 DEF MoveTargets
  <2>4. c \in Near[d]
    BY <2>2, <2>3
  <2> QED BY <1>1, <2>1, <2>3, <2>4, NearIsMutual DEF LegalMove
<1> QED BY <1>2, <1>3

\* The legality check admits exactly the enumerated actions, a pair in either order.
LEMMA ChecksAgree ==
  ASSUME NEW s, Typed(s), NEW a \in Action
  PROVE  LegalAction(s, a) <=>
           \/ a \in LegalActions(s)
           \/ \E c, d \in Pos : a = PlaceNeutrals(d, c) /\ PlaceNeutrals(c, d) \in LegalActions(s)
<1> DEFINE owned == OwnedNormals(s.cells, s.current)
<1>1. s.cells \in [Pos -> Cell] /\ s.current \in Seat /\ owned \subseteq Pos
  BY DEF Typed, OwnedNormals
<1>2. ASSUME NEW c \in Pos, NEW d \in Pos
      PROVE  PlaceNeutrals(c, d) \in LegalActions(s) <=>
               /\ CanAct(s) /\ CanPlaceNeutrals(s)
               /\ c \in owned /\ d \in owned /\ Index(c) < Index(d)
  BY DEF LegalActions, Move, PlaceNeutrals
<1>3. ASSUME NEW c \in Pos
      PROVE  Move(c) \in LegalActions(s) <=> CanAct(s) /\ c \in MoveTargets(s.cells, s.current)
  BY DEF LegalActions, Move, PlaceNeutrals
<1>4. CASE \E c \in Pos : a = Move(c)
  <2>1. PICK c \in Pos : a = Move(c)
    BY <1>4
  <2>2. LegalAction(s, a) <=> CanAct(s) /\ LegalMove(s.cells, s.current, c)
    BY <2>1 DEF LegalAction, Move
  <2>3. \A d, e \in Pos : a # PlaceNeutrals(d, e)
    BY <2>1 DEF Move, PlaceNeutrals
  <2> QED BY <1>1, <1>3, <2>1, <2>2, <2>3, MovesAgree
<1>5. CASE \E c, d \in Pos : a = PlaceNeutrals(c, d)
  <2>1. PICK c \in Pos, d \in Pos : a = PlaceNeutrals(c, d)
    BY <1>5
  <2>2. LegalAction(s, a) <=>
          CanAct(s) /\ CanPlaceNeutrals(s) /\ c # d /\ c \in owned /\ d \in owned
    BY <2>1 DEF LegalAction, PlaceNeutrals
  <2>3. \A e, f \in Pos : a = PlaceNeutrals(f, e) <=> e = d /\ f = c
    BY <2>1 DEF PlaceNeutrals
  <2>4. c # d <=> Index(c) < Index(d) \/ Index(d) < Index(c)
    BY IndexIsInjective, BoardAssumption DEF Index, Pos
  <2> HIDE DEF owned
  <2> QED BY <1>2, <2>1, <2>2, <2>3, <2>4
<1> QED BY <1>4, <1>5 DEF Action

LEMMA LegalIsAnAction ==
  ASSUME NEW s, Typed(s), NEW a \in LegalActions(s)
  PROVE  a \in Action
<1> DEFINE owned == OwnedNormals(s.cells, s.current)
<1>1. MoveTargets(s.cells, s.current) \subseteq Pos
  BY NearIsMutual DEF MoveTargets, Connected, Own
<1>2. owned \subseteq Pos
  BY DEF OwnedNormals
<1>3. \/ \E c \in MoveTargets(s.cells, s.current) : a = Move(c)
      \/ \E pair \in owned \X owned : a = PlaceNeutrals(pair[1], pair[2])
  BY DEF LegalActions
<1>4. CASE \E pair \in owned \X owned : a = PlaceNeutrals(pair[1], pair[2])
  <2>1. PICK c \in owned, d \in owned : a = PlaceNeutrals(c, d)
    BY <1>4
  <2> QED BY <1>2, <2>1 DEF Action
<1> QED BY <1>1, <1>3, <1>4 DEF Action

\* The two implementations of legality, enumeration and check, agree.
THEOREM EnumerationIsChecked == Spec => []EnumerationAgrees
<1> DEFINE legal == LegalActions(state)
           turned(a) == IF a.kind = "Move" THEN a ELSE PlaceNeutrals(a.cells[2], a.cells[1])
<1>1. ASSUME IInv, NEW a \in Action, LegalAction(state, a)
      PROVE  a \in legal \cup {turned(b) : b \in legal}
  <2>1. CASE a \in legal
    BY <2>1
  <2>2. CASE \E c, d \in Pos : a = PlaceNeutrals(d, c) /\ PlaceNeutrals(c, d) \in legal
    <3>1. PICK c \in Pos, d \in Pos : a = PlaceNeutrals(d, c) /\ PlaceNeutrals(c, d) \in legal
      BY <2>2
    <3>2. turned(PlaceNeutrals(c, d)) = PlaceNeutrals(d, c)
      BY DEF PlaceNeutrals
    <3> QED BY <3>1, <3>2
  <2> QED BY <1>1, <2>1, <2>2, ChecksAgree DEF IInv, Sound
<1>2. ASSUME IInv, NEW b \in legal
      PROVE  /\ b \in Action /\ LegalAction(state, b)
             /\ turned(b) \in Action /\ LegalAction(state, turned(b))
  <2>1. Typed(state) /\ b \in Action
    BY <1>2, LegalIsAnAction DEF IInv, Sound
  <2>2. LegalAction(state, b)
    BY <1>2, <2>1, ChecksAgree
  <2>3. CASE \E c \in Pos : b = Move(c)
    <3>1. turned(b) = b
      BY <2>3 DEF Move
    <3> QED BY <2>1, <2>2, <3>1
  <2>4. CASE \E c, d \in Pos : b = PlaceNeutrals(c, d)
    <3>1. PICK c \in Pos, d \in Pos : b = PlaceNeutrals(c, d)
      BY <2>4
    <3>2. turned(b) = PlaceNeutrals(d, c)
      BY <3>1 DEF PlaceNeutrals
    <3>3. PlaceNeutrals(d, c) \in Action
      BY DEF Action
    <3>4. LegalAction(state, PlaceNeutrals(d, c))
      BY <1>2, <2>1, <3>1, <3>3, ChecksAgree
    <3> QED BY <2>1, <2>2, <3>2, <3>3, <3>4
  <2> QED BY <2>1, <2>3, <2>4 DEF Action
<1> HIDE DEF legal, turned
<1>3. IInv => {a \in Action : LegalAction(state, a)} = legal \cup {turned(a) : a \in legal}
  BY <1>1, <1>2
<1>4. IInv => EnumerationAgrees
  BY <1>3 DEF EnumerationAgrees, legal, turned
<1> QED BY <1>4, Invariance, PTL

(***************************************************************************)
(* Placements                                                              *)
(***************************************************************************)
Neutrals(cells) == {c \in Pos : cells[c] = Neutral}

\* A move leaves the neutral cells and the placements alone.
LEMMA MoveKeepsNeutrals ==
  ASSUME NEW s, Typed(s), NEW c \in MoveTargets(s.cells, s.current)
  PROVE  /\ Neutrals(MakeMove(s, c).cells) = Neutrals(s.cells)
         /\ MakeMove(s, c).neutralUsed = s.neutralUsed
<1> DEFINE new == Captured(s.cells[c], s.current)
           u == SetCell(s, c, new)
           n == (s.movesLeft - 1) % 256
<1>1. c \in Pos /\ CapturableBy(s.cells[c], s.current)
  BY NearIsMutual DEF MoveTargets, Connected, Own
<1>2. new # Neutral /\ s.cells[c] # Neutral
  BY <1>1 DEF Captured, Piece, Neutral, CapturableBy
<1>3. MakeMove(s, c) = SetMovesLeft(u, n)
  BY DEF MakeMove
<1> HIDE DEF new, n
<1>4. Shaped(u) /\ u.cells = [s.cells EXCEPT ![c] = new] /\ u.neutralUsed = s.neutralUsed
  BY <1>1, CellSet DEF Typed
<1> HIDE DEF u
<1>5. MakeMove(s, c).cells = u.cells /\ MakeMove(s, c).neutralUsed = u.neutralUsed
  BY <1>3, <1>4, MovesLeftSet
<1> QED BY <1>1, <1>2, <1>4, <1>5 DEF Neutrals, Typed

\* A placement adds two neutral cells and its seat.
LEMMA PlacementAddsNeutrals ==
  ASSUME NEW s, Typed(s), NEW c \in OwnedNormals(s.cells, s.current),
         NEW d \in OwnedNormals(s.cells, s.current), c # d
  PROVE  /\ c \in Pos /\ d \in Pos /\ c \notin Neutrals(s.cells) /\ d \notin Neutrals(s.cells)
         /\ Neutrals(MakeNeutrals(s, c, d).cells) = Neutrals(s.cells) \cup {c, d}
         /\ MakeNeutrals(s, c, d).neutralUsed = s.neutralUsed \cup {s.current}
<1> DEFINE u == SetCell(s, c, Neutral)
           v == SetCell(u, d, Neutral)
           w == SetNeutralUsed(v, s.current)
<1>1. /\ c \in Pos /\ d \in Pos /\ s.cells \in [Pos -> Cell] /\ Neutral \in Cell
      /\ s.cells[c] # Neutral /\ s.cells[d] # Neutral
  BY DEF OwnedNormals, Typed, Cell, Neutral, Piece
<1>2. MakeNeutrals(s, c, d) = SetMovesLeft(w, 0)
  BY DEF MakeNeutrals
<1>3. Shaped(u) /\ u.cells = [s.cells EXCEPT ![c] = Neutral] /\ u.neutralUsed = s.neutralUsed
  BY <1>1, CellSet DEF Typed
<1> HIDE DEF u
<1>4. u.cells \in [Pos -> Cell]
  BY <1>1, <1>3
<1>5. Shaped(v) /\ v.cells = [u.cells EXCEPT ![d] = Neutral] /\ v.neutralUsed = u.neutralUsed
  BY <1>1, <1>3, <1>4, CellSet
<1> HIDE DEF v
<1>6. Shaped(w) /\ w.cells = v.cells /\ w.neutralUsed = v.neutralUsed \cup {s.current}
  BY <1>5, NeutralUsedSet
<1> HIDE DEF w
<1>7. /\ MakeNeutrals(s, c, d).cells = v.cells
      /\ MakeNeutrals(s, c, d).neutralUsed = s.neutralUsed \cup {s.current}
  BY <1>2, <1>3, <1>5, <1>6, MovesLeftSet
<1>8. Neutrals(v.cells) = Neutrals(s.cells) \cup {c, d}
  BY <1>1, <1>3, <1>4, <1>5 DEF Neutrals
<1> QED BY <1>1, <1>7, <1>8 DEF Neutrals

LEMMA BoardIsFinite == \A cells : IsFiniteSet(Neutrals(cells))
<1>1. IsFiniteSet(0..Rows-1) /\ IsFiniteSet(0..Cols-1)
  BY FS_Interval, BoardAssumption
<1>2. IsFiniteSet(Pos)
  BY <1>1, FS_Product DEF Pos
<1> QED BY <1>2, FS_Subset DEF Neutrals

\* Each seat that spent its placement left two neutral cells, and nobody else any.
THEOREM PlacementsAreCounted == Spec => []NeutralsAreSpentOnce
<1> DEFINE TwoEach(s) == Cardinality(Neutrals(s.cells)) = 2 * Cardinality(s.neutralUsed)
<1>1. Init /\ IInv => TwoEach(state)
  <2> SUFFICES ASSUME IInv, NEW players \in 2..Players, state = NewGame(players)
               PROVE  TwoEach(state)
    BY DEF Init
  <2>1. state.neutralUsed = {} /\ \A c \in Pos : state.cells[c] # Neutral
    BY DEF NewGame, Hashed, Empty, Neutral, Piece
  <2>2. Neutrals(state.cells) = {}
    BY <2>1 DEF Neutrals
  <2> QED BY <2>1, <2>2, FS_EmptySet
<1>2. ASSUME IInv, TwoEach(state), NEW a \in LegalActions(state), state' = Apply(state, a)
      PROVE  TwoEach(state')
  <2> DEFINE owned == OwnedNormals(state.cells, state.current)
  <2>1. /\ Typed(state)
        /\ state'.cells = Play(state, a).cells
        /\ state'.neutralUsed = Play(state, a).neutralUsed
    BY <1>2, ActionHolds DEF IInv, Sound
  <2>2. CASE \E c \in MoveTargets(state.cells, state.current) : a = Move(c)
    BY <1>2, <2>1, <2>2, MoveKeepsNeutrals DEF Play, Move
  <2>3. CASE /\ CanPlaceNeutrals(state)
             /\ \E c, d \in owned : c # d /\ a = PlaceNeutrals(c, d)
    <3>1. PICK c \in owned, d \in owned : c # d /\ a = PlaceNeutrals(c, d)
      BY <2>3
    <3> DEFINE old == Neutrals(state.cells)
    <3>2. /\ c \notin old /\ d \notin old
          /\ Neutrals(state'.cells) = old \cup {c, d}
          /\ state'.neutralUsed = state.neutralUsed \cup {state.current}
      BY <2>1, <3>1, PlacementAddsNeutrals DEF Play, PlaceNeutrals
    <3>3. state.current \notin state.neutralUsed
      BY <2>3 DEF CanPlaceNeutrals
    <3>4. /\ IsFiniteSet(old) /\ IsFiniteSet(state.neutralUsed)
          /\ Cardinality(old) \in Nat /\ Cardinality(state.neutralUsed) \in Nat
      BY <2>1, BoardIsFinite, SeatsAreFinite, FS_CardinalityType DEF Typed
    <3> HIDE DEF old
    <3>5. IsFiniteSet(old \cup {c}) /\ Cardinality(old \cup {c}) = Cardinality(old) + 1
      BY <3>2, <3>4, FS_AddElement
    <3>6. Cardinality((old \cup {c}) \cup {d}) = Cardinality(old) + 2
      <4>1. d \notin old \cup {c}
        BY <3>1, <3>2
      <4>2. Cardinality((old \cup {c}) \cup {d}) = Cardinality(old \cup {c}) + 1
        BY <3>5, <4>1, FS_AddElement
      <4> QED BY <3>4, <3>5, <4>2
    <3>7. Cardinality(state'.neutralUsed) = Cardinality(state.neutralUsed) + 1
      BY <3>2, <3>3, <3>4, FS_AddElement
    <3>8. (old \cup {c}) \cup {d} = old \cup {c, d}
      OBVIOUS
    <3>9. Cardinality(old) = 2 * Cardinality(state.neutralUsed)
      BY <1>2 DEF old
    <3>10. Cardinality(Neutrals(state'.cells)) = Cardinality(old) + 2
      BY <3>2, <3>6, <3>8
    <3> QED BY <3>4, <3>7, <3>9, <3>10
  <2>4. \/ \E c \in MoveTargets(state.cells, state.current) : a = Move(c)
        \/ /\ CanPlaceNeutrals(state)
           /\ \E c, d \in owned : c # d /\ a = PlaceNeutrals(c, d)
    <3>1. \A c, d \in owned : Index(c) < Index(d) => c # d
      BY BoardAssumption DEF Index, OwnedNormals, Pos
    <3> QED BY <1>2, <3>1 DEF LegalActions
  <2> QED BY <2>2, <2>3, <2>4
<1>3. NeutralsAreSpentOnce <=> TwoEach(state)
  BY DEF NeutralsAreSpentOnce, Neutrals
<1>4. Init /\ IInv => NeutralsAreSpentOnce
  BY <1>1, <1>3
<1>5. IInv /\ NeutralsAreSpentOnce /\ [Next]_state => NeutralsAreSpentOnce'
  <2> SUFFICES ASSUME IInv, TwoEach(state), [Next]_state PROVE TwoEach(state')
    BY DEF NeutralsAreSpentOnce, Neutrals
  <2> HIDE DEF TwoEach
  <2>1. CASE Next
    BY <1>2, <2>1 DEF Next
  <2>2. CASE UNCHANGED state
    BY <2>2
  <2> QED BY <2>1, <2>2
<1> QED BY <1>4, <1>5, Invariance, PTL DEF Spec

(***************************************************************************)
(* Lists                                                                   *)
(***************************************************************************)
\* A list of a set's members.
Lists(seq, X) == seq \in Seq(X) /\ ToSet(seq) = X

\* st joins the first lists of seqs, one more at every step.
Joins(st, seqs, n) ==
  st = [i \in 1..n |-> IF i = 1 THEN seqs[i] ELSE st[i - 1] \o seqs[i]]

\* The lists of a list can be joined up to any of them.
LEMMA JoinsExist ==
  ASSUME NEW n \in Nat, NEW seqs
  PROVE  \A k \in 0..n : \E st : Joins(st, seqs, k)
<1> DEFINE G == {k \in 0..n : \E st : Joins(st, seqs, k)}
<1>1. 0 \in G
  <2> DEFINE st == [i \in 1..0 |-> IF i = 1 THEN seqs[i] ELSE <<>>]
  <2>1. Joins(st, seqs, 0)
    BY DEF Joins
  <2> HIDE DEF st
  <2> QED BY <2>1
<1>2. ASSUME NEW k \in 1..n, k - 1 \in G PROVE k \in G
  <2>1. PICK st : Joins(st, seqs, k - 1)
    BY <1>2
  <2> DEFINE next == [i \in 1..k |-> IF i < k THEN st[i] ELSE IF i = 1 THEN seqs[i] ELSE st[i - 1] \o seqs[i]]
  <2>2. \A i \in 1..k : next[i] = IF i = 1 THEN seqs[i] ELSE next[i - 1] \o seqs[i]
    <3> TAKE i \in 1..k
    <3>1. CASE i < k
      <4>1. next[i] = st[i] /\ i \in 1..(k - 1)
        BY <3>1
      <4>2. st[i] = IF i = 1 THEN seqs[i] ELSE st[i - 1] \o seqs[i]
        BY <2>1, <4>1 DEF Joins
      <4>3. i # 1 => next[i - 1] = st[i - 1]
        BY <3>1
      <4> QED BY <4>1, <4>2, <4>3
    <3>2. CASE i = k
      BY <3>2
    <3> QED BY <3>1, <3>2
  <2>3. next = [i \in 1..k |-> next[i]]
    OBVIOUS
  <2> HIDE DEF next
  <2>4. [i \in 1..k |-> next[i]] = [i \in 1..k |-> IF i = 1 THEN seqs[i] ELSE next[i - 1] \o seqs[i]]
    BY <2>2
  <2>5. Joins(next, seqs, k)
    BY <2>3, <2>4 DEF Joins
  <2> QED BY <2>5
<1> HIDE DEF G
<1>3. \A k \in 0..n : k \in G
  BY <1>1, <1>2, Climb
<1> QED BY <1>3 DEF G

\* A list of lists is flattened by joining them one after the other.
LEMMA FlattenJoins ==
  ASSUME NEW n \in Nat \ {0}, NEW seqs, Len(seqs) = n
  PROVE  \E st : Joins(st, seqs, n) /\ FlattenSeq(seqs) = st[n]
<1> DEFINE it == CHOOSE h : h = [i \in 1..n |-> IF i = 1 THEN seqs[i] ELSE h[i - 1] \o seqs[i]]
<1>1. FlattenSeq(seqs) = it[n]
  BY DEF FlattenSeq
<1>2. it = CHOOSE h : Joins(h, seqs, n)
  BY DEF Joins
<1> HIDE DEF it
<1>3. \E h : Joins(h, seqs, n)
  <2>1. n \in Nat /\ n \in 0..n
    OBVIOUS
  <2> QED BY <2>1, JoinsExist
<1>4. Joins(it, seqs, n)
  BY <1>2, <1>3
<1> QED BY <1>1, <1>4

\* w holds what s and t hold.
Both(w, s, t, X) ==
  /\ w \in Seq(X) /\ ToSet(w) = ToSet(s) \cup ToSet(t) /\ Len(w) = Len(s) + Len(t)
  /\ (IsInjective(s) /\ IsInjective(t) /\ ToSet(s) \cap ToSet(t) = {}) => IsInjective(w)

\* What a list joined to another is.
LEMMA ConcatFacts ==
  ASSUME NEW X, NEW s \in Seq(X), NEW t \in Seq(X)
  PROVE  Both(s \o t, s, t, X)
<1> DEFINE w == s \o t
<1>1. /\ w \in Seq(X) /\ Len(w) = Len(s) + Len(t) /\ DOMAIN w = 1..(Len(s) + Len(t))
      /\ DOMAIN s = 1..Len(s) /\ DOMAIN t = 1..Len(t) /\ Len(s) \in Nat /\ Len(t) \in Nat
      /\ \A i \in 1..(Len(s) + Len(t)) : w[i] = IF i <= Len(s) THEN s[i] ELSE t[i - Len(s)]
  BY ConcatProperties, LenProperties
<1> HIDE DEF w
<1>2. \A i \in DOMAIN s : i \in DOMAIN w /\ w[i] = s[i]
  BY <1>1
<1>3. \A i \in DOMAIN t : i + Len(s) \in DOMAIN w /\ w[i + Len(s)] = t[i]
  <2> TAKE i \in DOMAIN t
  <2>1. i \in 1..Len(t) /\ i + Len(s) \in 1..(Len(s) + Len(t)) /\ ~(i + Len(s) <= Len(s)) /\ i + Len(s) - Len(s) = i
    BY <1>1
  <2> QED BY <1>1, <2>1
<1>4. ASSUME NEW i \in DOMAIN w
      PROVE  \/ i \in DOMAIN s /\ w[i] = s[i]
             \/ i - Len(s) \in DOMAIN t /\ w[i] = t[i - Len(s)] /\ i \notin DOMAIN s
  <2>1. i \in 1..(Len(s) + Len(t))
    BY <1>1
  <2>2. CASE i <= Len(s)
    BY <1>1, <2>1, <2>2
  <2>3. CASE ~(i <= Len(s))
    <3>1. i - Len(s) \in 1..Len(t) /\ i \notin 1..Len(s)
      BY <1>1, <2>1, <2>3
    <3> QED BY <1>1, <2>1, <2>3, <3>1
  <2> QED BY <2>2, <2>3
<1>5. ToSet(w) = ToSet(s) \cup ToSet(t)
  BY <1>2, <1>3, <1>4 DEF ToSet
<1>6. ASSUME IsInjective(s), IsInjective(t), ToSet(s) \cap ToSet(t) = {} PROVE IsInjective(w)
  <2> SUFFICES ASSUME NEW i \in DOMAIN w, NEW j \in DOMAIN w, w[i] = w[j] PROVE i = j
    BY DEF IsInjective
  <2>1. \A k \in DOMAIN s : s[k] \in ToSet(s)
    BY DEF ToSet
  <2>2. \A k \in DOMAIN t : t[k] \in ToSet(t)
    BY DEF ToSet
  <2>3. CASE i \in DOMAIN s /\ j \in DOMAIN s
    BY <1>2, <1>6, <2>3 DEF IsInjective
  <2>4. CASE i \notin DOMAIN s /\ j \notin DOMAIN s
    <3>1. i - Len(s) = j - Len(s)
      BY <1>4, <1>6, <2>4 DEF IsInjective
    <3> QED BY <1>1, <3>1
  <2>5. CASE (i \in DOMAIN s) # (j \in DOMAIN s)
    BY <1>4, <1>6, <2>1, <2>2, <2>5
  <2> QED BY <2>3, <2>4, <2>5
<1> USE DEF w
<1> QED BY <1>1, <1>5, <1>6 DEF Both

\* What the first k lists of seqs hold.
Held(seqs, k) == UNION {ToSet(seqs[i]) : i \in 1..k}

\* No list of seqs repeats what it holds, and no two share anything.
Apart(seqs) ==
  /\ \A i \in DOMAIN seqs : IsInjective(seqs[i])
  /\ \A i, j \in DOMAIN seqs : i # j => ToSet(seqs[i]) \cap ToSet(seqs[j]) = {}

\* No list of seqs is longer than one.
Short(seqs) == \A i \in DOMAIN seqs : Len(seqs[i]) <= 1

\* The first k lists of seqs as one.
IsJoin(l, seqs, X, k) ==
  /\ l \in Seq(X) /\ ToSet(l) = Held(seqs, k)
  /\ Short(seqs) => Len(l) <= k
  /\ Apart(seqs) => IsInjective(l)

\* One more list joined.
LEMMA IsJoined ==
  ASSUME NEW X, NEW seqs \in Seq(Seq(X)), NEW k \in 2..Len(seqs), NEW l, IsJoin(l, seqs, X, k - 1)
  PROVE  IsJoin(l \o seqs[k], seqs, X, k)
<1>1. /\ k \in DOMAIN seqs /\ seqs[k] \in Seq(X) /\ k \in Nat /\ 1..k = 1..(k - 1) \cup {k} /\ k \notin 1..(k - 1)
      /\ \A i \in 1..(k - 1) : i \in DOMAIN seqs
      /\ Len(seqs) \in Nat /\ DOMAIN seqs = 1..Len(seqs)
  OBVIOUS
<1> DEFINE t == seqs[k]
<1>2. Held(seqs, k) = Held(seqs, k - 1) \cup ToSet(t)
  BY <1>1 DEF Held
<1>3. l \in Seq(X) /\ t \in Seq(X) /\ Len(l) \in Nat /\ Len(t) \in Nat
  BY <1>1 DEF IsJoin
<1> DEFINE w == l \o t
<1>4. Both(w, l, t, X)
  <2> HIDE DEF t
  <2> QED BY <1>3, ConcatFacts
<1> HIDE DEF w
<1>5. ASSUME Apart(seqs) PROVE IsInjective(w)
  <2>1. Held(seqs, k - 1) \cap ToSet(t) = {}
    <3> SUFFICES ASSUME NEW x \in Held(seqs, k - 1), x \in ToSet(t) PROVE FALSE
      OBVIOUS
    <3>1. PICK i \in 1..(k - 1) : x \in ToSet(seqs[i])
      BY DEF Held
    <3>2. i \in DOMAIN seqs /\ k \in DOMAIN seqs /\ i # k
      BY <1>1
    <3>3. ToSet(seqs[i]) \cap ToSet(seqs[k]) = {}
      BY <1>5, <3>2 DEF Apart
    <3> QED BY <3>1, <3>3
  <2>2. IsInjective(l) /\ IsInjective(t) /\ ToSet(l) = Held(seqs, k - 1)
    BY <1>1, <1>5 DEF Apart, IsJoin
  <2> QED BY <1>4, <2>1, <2>2 DEF Both
<1>6. ASSUME Short(seqs) PROVE Len(w) <= k
  <2>1. Len(l) <= k - 1 /\ Len(t) <= 1
    BY <1>1, <1>6 DEF IsJoin, Short
  <2> QED BY <1>1, <1>3, <1>4, <2>1 DEF Both
<1>7. w \in Seq(X) /\ ToSet(w) = Held(seqs, k)
  BY <1>2, <1>4 DEF Both, IsJoin
<1>8. IsJoin(w, seqs, X, k)
  BY <1>5, <1>6, <1>7 DEF IsJoin
<1> QED BY <1>8 DEF w

\* A list of lists, flattened, holds what they hold, and nothing twice if they are apart.
LEMMA Flattened ==
  ASSUME NEW X, NEW seqs \in Seq(Seq(X))
  PROVE  IsJoin(FlattenSeq(seqs), seqs, X, Len(seqs))
<1> DEFINE n == Len(seqs)
<1>1. n \in Nat /\ DOMAIN seqs = 1..n
  OBVIOUS
<1>2. CASE n = 0
  <2>1. seqs = <<>> /\ FlattenSeq(seqs) = <<>>
    BY <1>2, EmptySeq DEF FlattenSeq
  <2> DEFINE none == <<>>
  <2>2. Held(seqs, 0) = {} /\ ToSet(none) = {} /\ none \in Seq(X) /\ IsInjective(none) /\ Len(none) = 0
    BY DEF Held, ToSet, IsInjective
  <2> HIDE DEF none
  <2>3. IsJoin(none, seqs, X, 0)
    BY <2>2 DEF IsJoin
  <2> USE DEF none
  <2> QED BY <1>2, <2>1, <2>3
<1>3. CASE n # 0
  <2>1. PICK st : Joins(st, seqs, n) /\ FlattenSeq(seqs) = st[n]
    BY <1>1, <1>3, FlattenJoins
  <2> DEFINE G == {k \in 0..n : k = 0 \/ IsJoin(st[k], seqs, X, k)}
  <2>2. 0 \in G
    BY <1>1
  <2>3. ASSUME NEW k \in 1..n, k - 1 \in G PROVE k \in G
    <3>1. st[k] = IF k = 1 THEN seqs[k] ELSE st[k - 1] \o seqs[k]
      BY <2>1 DEF Joins
    <3>2. CASE k = 1
      <4>1. st[1] = seqs[1] /\ 1 \in DOMAIN seqs /\ seqs[1] \in Seq(X)
        BY <1>1, <3>1, <3>2
      <4>2. 1..1 = {1}
        OBVIOUS
      <4>3. IsJoin(st[1], seqs, X, 1)
        BY <4>1, <4>2 DEF IsJoin, Held, Apart, Short
      <4> QED BY <3>2, <4>3
    <3>3. CASE k # 1
      <4>1. k \in 2..Len(seqs) /\ IsJoin(st[k - 1], seqs, X, k - 1)
        BY <2>3, <3>3
      <4> DEFINE w == st[k - 1] \o seqs[k]
      <4>2. st[k] = w /\ IsJoin(w, seqs, X, k)
        BY <3>1, <3>3, <4>1, IsJoined
      <4> HIDE DEF w
      <4> QED BY <4>2
    <3> QED BY <3>2, <3>3
  <2> HIDE DEF G
  <2>4. \A k \in 0..n : k \in G
    BY <1>1, <2>2, <2>3, Climb
  <2>5. n \in G
    BY <1>1, <2>4
  <2> QED BY <1>3, <2>1, <2>5 DEF G
<1> QED BY <1>2, <1>3

(***************************************************************************)
(* Folds                                                                   *)
(***************************************************************************)
\* A step of the folds that gather a sample: what is shortlisted for defence, pairs without
\* repeats, and safe cells.
Step(how, acc, x) ==
  IF how.kind = "defend" THEN AddDefensive(acc, x)
  ELSE IF how.kind = "unique" THEN AppendUnique(acc, x)
  ELSE IF how.kind = "move" THEN Replayed(acc, how.player, x)
  ELSE IF how.kind = "turn" THEN ReplayedTurn(acc, x)
  ELSE IF how.kind = "game" THEN MineGame(acc, how.config, x, Replay(x))
  ELSE IF how.kind = "take" THEN TakeOne(acc, x, how.class, how.limit)
  ELSE IF how.kind = "ply" THEN PlayOn(acc, how.config, how.draws)
  ELSE IF how.kind = "play" THEN SelfPlayed(Opened(acc, x), how.config, how.seeds[x])
  ELSE LET left == how.pool \ ToSet(acc)
       IN IF left = {} THEN acc ELSE Append(acc, Furthest(left, how.base))

\* h folds over every subset of S, as the definition of a fold does.
FoldOver(h, seq, how, S) ==
  h = [s \in SUBSET S |-> IF s = {} THEN how.start ELSE Step(how, h[s \ {Max(s)}], seq[Max(s)])]

\* Where two folds are both defined they agree.
LEMMA FoldsAgree ==
  ASSUME NEW n \in Nat, NEW seq, NEW how, NEW S \in SUBSET Upto(n), NEW T, NEW e, NEW h,
         FoldOver(e, seq, how, S), FoldOver(h, seq, how, T)
  PROVE  \A s \in SUBSET S : s \in SUBSET T => e[s] = h[s]
<1> DEFINE B == {u \in SUBSET S : u \subseteq T /\ e[u] # h[u]}
<1> SUFFICES ASSUME B # {} PROVE FALSE
  OBVIOUS
<1>1. PICK u \in B : \A v \in B : v \subseteq u => v = u
  <2>1. PlaceSets(B, S, n)
    BY DEF PlaceSets
  <2> HIDE DEF B
  <2> QED BY <2>1, LeastPlaces
<1>2. u \in SUBSET S /\ u \in SUBSET T /\ e[u] # h[u]
  OBVIOUS
<1> DEFINE x == Max(u)
<1>3. /\ e[u] = IF u = {} THEN how.start ELSE Step(how, e[u \ {x}], seq[x])
      /\ h[u] = IF u = {} THEN how.start ELSE Step(how, h[u \ {x}], seq[x])
  BY <1>2 DEF FoldOver
<1>4. u # {}
  BY <1>2, <1>3
<1>5. x \in u
  BY <1>2, <1>4, MaxIsIn
<1> HIDE DEF x
<1>6. u \ {x} \notin B
  BY <1>1, <1>5
<1>7. e[u \ {x}] = h[u \ {x}]
  BY <1>2, <1>6
<1> HIDE DEF B
<1> QED BY <1>2, <1>3, <1>4, <1>7

\* Every set of places has its fold.
LEMMA FoldsExist ==
  ASSUME NEW n \in Nat, NEW seq, NEW how, NEW S \in SUBSET Upto(n)
  PROVE  \E h : FoldOver(h, seq, how, S)
<1> DEFINE B == {u \in SUBSET S : ~\E h : FoldOver(h, seq, how, u)}
<1> SUFFICES ASSUME B # {} PROVE FALSE
  OBVIOUS
<1>1. PICK u \in B : \A v \in B : v \subseteq u => v = u
  <2>1. PlaceSets(B, S, n)
    BY DEF PlaceSets
  <2> HIDE DEF B
  <2> QED BY <2>1, LeastPlaces
<1>2. u \in SUBSET S /\ ~\E h : FoldOver(h, seq, how, u)
  OBVIOUS
<1>3. ASSUME NEW s \in SUBSET u, s # u PROVE \E h : FoldOver(h, seq, how, s)
  <2>1. s \in SUBSET S
    BY <1>2
  <2> QED BY <1>1, <1>3, <2>1
<1> DEFINE G(s) == CHOOSE h : FoldOver(h, seq, how, s)
<1>4. ASSUME NEW s \in SUBSET u, s # u PROVE FoldOver(G(s), seq, how, s)
  BY <1>3, <1>4
<1> HIDE DEF G, B
<1> DEFINE Less(s) == s \ {Max(s)}
           Of(s) == IF s = u THEN IF u = {} THEN how.start ELSE Step(how, G(Less(u))[Less(u)], seq[Max(u)])
                    ELSE G(s)[s]
           h == [s \in SUBSET u |-> Of(s)]
<1>5. ASSUME NEW s \in SUBSET u
      PROVE  Of(s) = IF s = {} THEN how.start ELSE Step(how, h[Less(s)], seq[Max(s)])
  <2>1. CASE s = {}
    <3>1. CASE s = u
      BY <2>1, <3>1
    <3>2. CASE s # u
      <4>1. FoldOver(G(s), seq, how, s)
        BY <1>4, <3>2
      <4>2. G(s)[s] = how.start
        BY <2>1, <4>1 DEF FoldOver
      <4> QED BY <2>1, <3>2, <4>2
    <3> QED BY <3>1, <3>2
  <2>2. CASE s # {}
    <3> DEFINE r == Less(s)
    <3>1. Max(s) \in s
      BY <1>2, <2>2, MaxIsIn
    <3>2. r \in SUBSET u /\ r # u /\ r \in SUBSET s /\ r \in SUBSET r
      BY <3>1
    <3>3. h[r] = G(r)[r]
      BY <3>2
    <3>4. CASE s = u
      BY <2>2, <3>3, <3>4
    <3>5. CASE s # u
      <4>1. FoldOver(G(s), seq, how, s) /\ FoldOver(G(r), seq, how, r)
        <5> HIDE DEF r
        <5> QED BY <1>4, <3>2, <3>5
      <4>2. G(s)[s] = Step(how, G(s)[r], seq[Max(s)])
        <5>1. s \in SUBSET s
          OBVIOUS
        <5> QED BY <2>2, <4>1, <5>1 DEF FoldOver
      <4>3. s \in SUBSET Upto(n) /\ r \in SUBSET s /\ r \in SUBSET r
        BY <1>2, <3>2
      <4> DEFINE a == G(s)
                 b == G(r)
      <4>4. FoldOver(a, seq, how, s) /\ FoldOver(b, seq, how, r)
        BY <4>1
      <4> HIDE DEF r, a, b
      <4>5. a[r] = b[r]
        BY <4>3, <4>4, FoldsAgree
      <4> USE DEF a, b
      <4> HIDE DEF h, Less
      <4> QED BY <2>2, <3>3, <3>5, <4>2, <4>5 DEF r, a, b
    <3> QED BY <3>4, <3>5
  <2> QED BY <2>1, <2>2
<1>6. FoldOver(h, seq, how, u)
  <2> HIDE DEF Of
  <2>1. h = [s \in SUBSET u |-> Of(s)]
    OBVIOUS
  <2> HIDE DEF h
  <2>2. [s \in SUBSET u |-> Of(s)]
          = [s \in SUBSET u |-> IF s = {} THEN how.start ELSE Step(how, h[s \ {Max(s)}], seq[Max(s)])]
    BY <1>5
  <2> QED BY <2>1, <2>2 DEF FoldOver
<1> QED BY <1>2, <1>6

\* st gathers, one element after the other.
Gathers(st, seq, how, n) == st[0] = how.start /\ \A k \in 1..n : st[k] = Step(how, st[k - 1], seq[k])

\* A fold goes through the list in order.
LEMMA FoldGathers ==
  ASSUME NEW n \in Nat, NEW seq, NEW how, NEW it, FoldOver(it, seq, how, Upto(n))
  PROVE  \E st : Gathers(st, seq, how, n) /\ it[Upto(n)] = st[n]
<1> DEFINE S == Upto(n)
           st == [k \in 0..n |-> it[1..k]]
<1>4. st[0] = how.start /\ st[n] = it[S]
  <2>1. 1..0 = {} /\ {} \in SUBSET S
    OBVIOUS
  <2>2. it[{}] = how.start
    BY <2>1 DEF FoldOver
  <2> QED BY <2>1, <2>2 DEF Upto
<1>5. ASSUME NEW k \in 1..n PROVE st[k] = Step(how, st[k - 1], seq[k])
  <2> DEFINE s == 1..k
  <2>1. s \in SUBSET S /\ s # {} /\ k \in s /\ \A x \in s : k >= x
    BY DEF Upto
  <2>2. Max(s) = k
    <3>1. Max(s) \in s /\ Max(s) >= k
      <4>1. \E x \in s : \A y \in s : x >= y
        BY <2>1
      <4> HIDE DEF s
      <4> QED BY <2>1, <4>1 DEF Max
    <3>2. \A x \in 1..k : x >= k => x = k
      OBVIOUS
    <3> QED BY <3>1, <3>2
  <2>3. s \ {k} = 1..(k - 1)
    OBVIOUS
  <2>4. it[s] = Step(how, it[s \ {k}], seq[k])
    <3> HIDE DEF s
    <3> QED BY <2>1, <2>2 DEF FoldOver
  <2>5. st[k] = it[s] /\ st[k - 1] = it[1..(k - 1)]
    OBVIOUS
  <2> HIDE DEF s, st
  <2> QED BY <2>3, <2>4, <2>5
<1> HIDE DEF st
<1> QED BY <1>4, <1>5 DEF Gathers

\* How the cells worth defending are shortlisted.
LEMMA DefenceGathers ==
  ASSUME NEW n \in Nat, NEW seq, DOMAIN seq = 1..n
  PROVE  \E st : Gathers(st, seq, [kind |-> "defend", start |-> <<>>], n) /\ FoldLeft(AddDefensive, <<>>, seq) = st[n]
<1> DEFINE S == Upto(n)
           how == [kind |-> "defend", start |-> <<>>]
           over(h) == [s \in SUBSET S |-> IF s = {} THEN <<>>
                                         ELSE LET x == Max(s) IN AddDefensive(h[s \ {x}], seq[x])]
           it == CHOOSE h : h = over(h)
<1>1. FoldLeft(AddDefensive, <<>>, seq) = it[S]
  BY DEF FoldLeft, MapThenFoldSet, Upto
<1>2. ASSUME NEW h PROVE FoldOver(h, seq, how, S) <=> h = over(h)
  <2>1. ASSUME NEW s \in SUBSET S
        PROVE  (IF s = {} THEN how.start ELSE Step(how, h[s \ {Max(s)}], seq[Max(s)])) = over(h)[s]
    BY DEF Step
  <2> QED BY <2>1 DEF FoldOver
<1>3. \E h : FoldOver(h, seq, how, S)
  BY FoldsExist
<1>4. FoldOver(it, seq, how, S)
  <2> HIDE DEF over
  <2>1. \E h : h = over(h)
    BY <1>2, <1>3
  <2>2. it = over(it)
    BY <2>1
  <2> HIDE DEF it
  <2> QED BY <1>2, <2>2
<1> HIDE DEF it, how
<1>5. \E st : Gathers(st, seq, how, n) /\ it[S] = st[n]
  BY <1>4, FoldGathers
<1> QED BY <1>1, <1>5 DEF how

\* How pairs are listed without repeats.
LEMMA UniqueGathers ==
  ASSUME NEW n \in Nat, NEW seq, DOMAIN seq = 1..n
  PROVE  \E st : Gathers(st, seq, [kind |-> "unique", start |-> <<>>], n) /\ Unique(seq) = st[n]
<1> DEFINE S == Upto(n)
           how == [kind |-> "unique", start |-> <<>>]
           over(h) == [s \in SUBSET S |-> IF s = {} THEN <<>>
                                         ELSE LET x == Max(s) IN AppendUnique(h[s \ {x}], seq[x])]
           it == CHOOSE h : h = over(h)
<1>1. Unique(seq) = it[S]
  BY DEF Unique, FoldLeft, MapThenFoldSet, Upto
<1>2. ASSUME NEW h PROVE FoldOver(h, seq, how, S) <=> h = over(h)
  <2>1. ASSUME NEW s \in SUBSET S
        PROVE  (IF s = {} THEN how.start ELSE Step(how, h[s \ {Max(s)}], seq[Max(s)])) = over(h)[s]
    BY DEF Step
  <2> QED BY <2>1 DEF FoldOver
<1>3. \E h : FoldOver(h, seq, how, S)
  BY FoldsExist
<1>4. FoldOver(it, seq, how, S)
  <2> HIDE DEF over
  <2>1. \E h : h = over(h)
    BY <1>2, <1>3
  <2>2. it = over(it)
    BY <2>1
  <2> HIDE DEF it
  <2> QED BY <1>2, <2>2
<1> HIDE DEF it, how
<1>5. \E st : Gathers(st, seq, how, n) /\ it[S] = st[n]
  BY <1>4, FoldGathers
<1> QED BY <1>1, <1>5 DEF how

\* The fold that gives up safe cells.
Filling(pool, base, seq) ==
  FoldLeft(LAMBDA chosen, i : LET left == pool \ ToSet(chosen)
                              IN IF left = {} THEN chosen ELSE Append(chosen, Furthest(left, base)),
           <<>>, seq)

\* How safe cells are chosen.
LEMMA FillersGather ==
  ASSUME NEW n \in Nat, NEW seq, DOMAIN seq = 1..n, NEW pool, NEW base
  PROVE  \E st : Gathers(st, seq, [kind |-> "fill", start |-> <<>>, pool |-> pool, base |-> base], n)
                /\ Filling(pool, base, seq) = st[n]
<1> DEFINE S == Upto(n)
           how == [kind |-> "fill", start |-> <<>>, pool |-> pool, base |-> base]
           over(h) == [s \in SUBSET S |-> IF s = {} THEN <<>>
                                         ELSE LET x == Max(s) IN (LET left == pool \ ToSet(h[s \ {x}])
                                                             IN IF left = {} THEN h[s \ {x}]
                                                                ELSE Append(h[s \ {x}], Furthest(left, base)))]
           it == CHOOSE h : h = over(h)
<1>1. Filling(pool, base, seq) = it[S]
  BY DEF Filling, FoldLeft, MapThenFoldSet, Upto
<1>2. ASSUME NEW h PROVE FoldOver(h, seq, how, S) <=> h = over(h)
  <2>1. ASSUME NEW s \in SUBSET S
        PROVE  (IF s = {} THEN how.start ELSE Step(how, h[s \ {Max(s)}], seq[Max(s)])) = over(h)[s]
    BY DEF Step
  <2> QED BY <2>1 DEF FoldOver
<1>3. \E h : FoldOver(h, seq, how, S)
  BY FoldsExist
<1>4. FoldOver(it, seq, how, S)
  <2> HIDE DEF over
  <2>1. \E h : h = over(h)
    BY <1>2, <1>3
  <2>2. it = over(it)
    BY <2>1
  <2> HIDE DEF it
  <2> QED BY <1>2, <2>2
<1> HIDE DEF it, how
<1>5. \E st : Gathers(st, seq, how, n) /\ it[S] = st[n]
  BY <1>4, FoldGathers
<1> QED BY <1>1, <1>5 DEF how

\* A list with one more.
LEMMA AppendFacts ==
  ASSUME NEW X, NEW s \in Seq(X), NEW x \in X
  PROVE  /\ Append(s, x) \in Seq(X) /\ Len(Append(s, x)) = Len(s) + 1
         /\ ToSet(Append(s, x)) = ToSet(s) \cup {x}
         /\ (IsInjective(s) /\ x \notin ToSet(s)) => IsInjective(Append(s, x))
<1> DEFINE w == Append(s, x)
           n == Len(s)
<1>1. /\ w \in Seq(X) /\ Len(w) = n + 1 /\ DOMAIN w = 1..(n + 1) /\ DOMAIN s = 1..n /\ n \in Nat
      /\ \A i \in 1..n : w[i] = s[i]
      /\ w[n + 1] = x
  BY AppendProperties, LenProperties
<1> HIDE DEF w, n
<1>2. \A i \in 1..(n + 1) : i \in 1..n \/ i = n + 1
  BY <1>1
<1>3. \A i \in 1..n : i \in 1..(n + 1) /\ i # n + 1
  BY <1>1
<1>4. n + 1 \in 1..(n + 1)
  BY <1>1
<1>5. ToSet(w) = ToSet(s) \cup {x}
  BY <1>1, <1>2, <1>3, <1>4 DEF ToSet
<1>6. ASSUME IsInjective(s), x \notin ToSet(s) PROVE IsInjective(w)
  <2>1. \A i \in 1..n : s[i] # x
    BY <1>1, <1>6 DEF ToSet
  <2> QED BY <1>1, <1>2, <1>3, <1>6, <2>1 DEF IsInjective
<1> QED BY <1>1, <1>5, <1>6 DEF w, n

\* A list without repeats is as long as it has members.
LEMMA LengthCounts ==
  ASSUME NEW X, NEW s \in Seq(X)
  PROVE  /\ IsFiniteSet(ToSet(s)) /\ Cardinality(ToSet(s)) <= Len(s)
         /\ IsInjective(s) => Cardinality(ToSet(s)) = Len(s)
<1>1. /\ DOMAIN s = 1..Len(s) /\ Len(s) \in Nat
  OBVIOUS
<1>2. IsFiniteSet(1..Len(s)) /\ Cardinality(1..Len(s)) = Len(s)
  BY <1>1, FS_Interval
<1>3. s \in Surjection(1..Len(s), ToSet(s))
  BY <1>1 DEF Surjection, ToSet
<1>4. IsFiniteSet(ToSet(s)) /\ Cardinality(ToSet(s)) <= Cardinality(1..Len(s))
  BY <1>2, <1>3, FS_Surjection
<1>5. ASSUME IsInjective(s) PROVE Cardinality(ToSet(s)) = Len(s)
  <2>1. s \in Bijection(1..Len(s), ToSet(s))
    BY <1>1, <1>3, <1>5 DEF Bijection, Injection, IsInjective, Surjection
  <2>2. ExistsBijection(1..Len(s), ToSet(s))
    BY <2>1 DEF ExistsBijection
  <2> QED BY <1>2, <2>2, FS_Bijection
<1> QED BY <1>2, <1>4, <1>5

\* A list without anything.
NothingIn(l, X) == l \in Seq(X) /\ ToSet(l) = {} /\ IsInjective(l) /\ Len(l) = 0

\* The empty list holds nothing, of whatever kind.
LEMMA EmptyFacts == \A X : NothingIn(<<>>, X)
BY DEF NothingIn, ToSet, IsInjective

\* A list contains what it holds.
LEMMA ContainsIsIn ==
  ASSUME NEW X, NEW s \in Seq(X), NEW x
  PROVE  Contains(s, x) <=> x \in ToSet(s)
BY DEF Contains, ToSet

\* What is listed of the first k pairs: no pair twice, and each there is room for.
Distinct(l, seq, X, k) ==
  /\ l \in Seq(X) /\ IsInjective(l)
  /\ Len(l) <= MaxStrategicPairs /\ Len(l) <= k
  /\ ToSet(l) \subseteq {seq[i] : i \in 1..k}
  /\ \A i \in 1..k : i <= MaxStrategicPairs => seq[i] \in ToSet(l)

\* One more pair read.
LEMMA DistinctGrows ==
  ASSUME NEW X, NEW seq \in Seq(X), NEW k \in 1..Len(seq), NEW l, Distinct(l, seq, X, k - 1)
  PROVE  Distinct(AppendUnique(l, seq[k]), seq, X, k)
<1> DEFINE x == seq[k]
           w == Append(l, x)
<1>1. /\ x \in X /\ k \in Nat /\ l \in Seq(X) /\ Len(l) \in Nat /\ MaxStrategicPairs \in Nat
      /\ \A i \in 1..k : i \in 1..(k - 1) \/ i = k
      /\ \A i \in 1..(k - 1) : i \in 1..k
      /\ k \in 1..k
  BY SampleAssumption DEF Distinct
<1>2. Contains(l, x) <=> x \in ToSet(l)
  <2> HIDE DEF x
  <2> QED BY <1>1, ContainsIsIn
<1>3. CASE Contains(l, x) \/ Len(l) >= MaxStrategicPairs
  <2>1. AppendUnique(l, x) = l
    BY <1>3 DEF AppendUnique
  <2>2. k <= MaxStrategicPairs => x \in ToSet(l)
    <3>1. Len(l) <= k - 1
      BY DEF Distinct
    <3> QED BY <1>1, <1>2, <1>3, <3>1
  <2>3. Distinct(l, seq, X, k)
    BY <1>1, <2>2 DEF Distinct
  <2> HIDE DEF x
  <2> QED BY <2>1, <2>3 DEF x
<1>4. CASE ~(Contains(l, x) \/ Len(l) >= MaxStrategicPairs)
  <2>1. AppendUnique(l, x) = w
    BY <1>4 DEF AppendUnique
  <2>2. /\ w \in Seq(X) /\ Len(w) = Len(l) + 1 /\ ToSet(w) = ToSet(l) \cup {x}
        /\ (IsInjective(l) /\ x \notin ToSet(l)) => IsInjective(w)
    <3> HIDE DEF x
    <3> QED BY <1>1, AppendFacts
  <2> HIDE DEF w
  <2>3. Distinct(w, seq, X, k)
    BY <1>1, <1>2, <1>4, <2>2 DEF Distinct
  <2> HIDE DEF x
  <2> QED BY <2>1, <2>3 DEF x
<1> QED BY <1>3, <1>4

\* Listing pairs without repeats loses none of the first, while there is room.
LEMMA UniqueFacts ==
  ASSUME NEW X, NEW seq \in Seq(X)
  PROVE  Distinct(Unique(seq), seq, X, Len(seq))
<1> DEFINE n == Len(seq)
           how == [kind |-> "unique", start |-> <<>>]
<1>1. n \in Nat /\ DOMAIN seq = 1..n
  OBVIOUS
<1>2. PICK st : Gathers(st, seq, how, n) /\ Unique(seq) = st[n]
  BY <1>1, UniqueGathers
<1>3. how.kind = "unique"
  OBVIOUS
<1> HIDE DEF how
<1> DEFINE G == {k \in 0..n : Distinct(st[k], seq, X, k)}
<1>4. 0 \in G
  <2> DEFINE e == <<>>
  <2>1. st[0] = e /\ NothingIn(e, X)
    <3>1. how.start = e
      BY DEF how
    <3>2. NothingIn(e, X)
      BY EmptyFacts
    <3> HIDE DEF e
    <3> QED BY <1>2, <3>1, <3>2 DEF Gathers
  <2> HIDE DEF e
  <2>2. Distinct(e, seq, X, 0)
    BY <2>1, SampleAssumption DEF Distinct, NothingIn
  <2> QED BY <1>1, <2>1, <2>2
<1>5. ASSUME NEW k \in 1..n, k - 1 \in G PROVE k \in G
  <2>1. st[k] = AppendUnique(st[k - 1], seq[k])
    BY <1>2, <1>3 DEF Gathers, Step
  <2> HIDE DEF how
  <2>2. Distinct(st[k - 1], seq, X, k - 1)
    BY <1>5
  <2>3. Distinct(AppendUnique(st[k - 1], seq[k]), seq, X, k)
    BY <2>2, DistinctGrows
  <2> QED BY <2>1, <2>3
<1> HIDE DEF G
<1>6. \A k \in 0..n : k \in G
  BY <1>1, <1>4, <1>5, Climb
<1>7. n \in G
  BY <1>1, <1>6
<1> QED BY <1>2, <1>7 DEF G

\* What is shortlisted of the first k cells: none twice, and all of them unless the list is full.
Shortlisted(l, seq, X, k) ==
  /\ l \in Seq(X) /\ IsInjective(l) /\ Len(l) <= MaxDefensive
  /\ ToSet(l) \subseteq {seq[i] : i \in 1..k}
  /\ \A i \in 1..k : seq[i] \in ToSet(l) \/ Len(l) = MaxDefensive

\* One more cell read.
LEMMA ShortlistGrows ==
  ASSUME NEW X, NEW seq \in Seq(X), NEW k \in 1..Len(seq), NEW l, Shortlisted(l, seq, X, k - 1)
  PROVE  Shortlisted(AddDefensive(l, seq[k]), seq, X, k)
<1> DEFINE x == seq[k]
           w == Append(l, x)
<1>1. /\ x \in X /\ k \in Nat /\ l \in Seq(X) /\ Len(l) \in Nat /\ MaxDefensive \in Nat
      /\ \A i \in 1..k : i \in 1..(k - 1) \/ i = k
      /\ \A i \in 1..(k - 1) : i \in 1..k
      /\ k \in 1..k
  BY SampleAssumption DEF Shortlisted
<1>2. Contains(l, x) <=> x \in ToSet(l)
  <2> HIDE DEF x
  <2> QED BY <1>1, ContainsIsIn
<1>3. CASE Contains(l, x) \/ Len(l) >= MaxDefensive
  <2>1. AddDefensive(l, x) = l
    BY <1>3 DEF AddDefensive
  <2>2. x \in ToSet(l) \/ Len(l) = MaxDefensive
    <3>1. Len(l) <= MaxDefensive
      BY DEF Shortlisted
    <3> QED BY <1>1, <1>2, <1>3, <3>1
  <2>3. Shortlisted(l, seq, X, k)
    BY <1>1, <2>2 DEF Shortlisted
  <2> HIDE DEF x
  <2> QED BY <2>1, <2>3 DEF x
<1>4. CASE ~(Contains(l, x) \/ Len(l) >= MaxDefensive)
  <2>1. AddDefensive(l, x) = w
    BY <1>4 DEF AddDefensive
  <2>2. /\ w \in Seq(X) /\ Len(w) = Len(l) + 1 /\ ToSet(w) = ToSet(l) \cup {x}
        /\ (IsInjective(l) /\ x \notin ToSet(l)) => IsInjective(w)
    <3> HIDE DEF x
    <3> QED BY <1>1, AppendFacts
  <2> HIDE DEF w
  <2>3. Len(l) < MaxDefensive
    BY <1>1, <1>4
  <2>4. \A i \in 1..(k - 1) : seq[i] \in ToSet(l)
    BY <1>1, <2>3 DEF Shortlisted
  <2>5. Shortlisted(w, seq, X, k)
    BY <1>1, <1>2, <1>4, <2>2, <2>3, <2>4 DEF Shortlisted
  <2> HIDE DEF x
  <2> QED BY <2>1, <2>5 DEF x
<1> QED BY <1>3, <1>4

\* Shortlisting cells for defence leaves none out but for want of room.
LEMMA DefenceFacts ==
  ASSUME NEW X, NEW seq \in Seq(X)
  PROVE  Shortlisted(FoldLeft(AddDefensive, <<>>, seq), seq, X, Len(seq))
<1> DEFINE n == Len(seq)
           how == [kind |-> "defend", start |-> <<>>]
<1>1. n \in Nat /\ DOMAIN seq = 1..n
  OBVIOUS
<1>2. PICK st : Gathers(st, seq, how, n) /\ FoldLeft(AddDefensive, <<>>, seq) = st[n]
  BY <1>1, DefenceGathers
<1>3. how.kind = "defend"
  OBVIOUS
<1> HIDE DEF how
<1> DEFINE G == {k \in 0..n : Shortlisted(st[k], seq, X, k)}
<1>4. 0 \in G
  <2> DEFINE e == <<>>
  <2>1. st[0] = e /\ NothingIn(e, X)
    <3>1. how.start = e
      BY DEF how
    <3>2. NothingIn(e, X)
      BY EmptyFacts
    <3> HIDE DEF e
    <3> QED BY <1>2, <3>1, <3>2 DEF Gathers
  <2> HIDE DEF e
  <2>2. Shortlisted(e, seq, X, 0)
    BY <2>1, SampleAssumption DEF Shortlisted, NothingIn
  <2> QED BY <1>1, <2>1, <2>2
<1>5. ASSUME NEW k \in 1..n, k - 1 \in G PROVE k \in G
  <2>1. st[k] = AddDefensive(st[k - 1], seq[k])
    BY <1>2, <1>3 DEF Gathers, Step
  <2>2. Shortlisted(st[k - 1], seq, X, k - 1)
    BY <1>5
  <2>3. Shortlisted(AddDefensive(st[k - 1], seq[k]), seq, X, k)
    BY <2>2, ShortlistGrows
  <2> QED BY <2>1, <2>3
<1> HIDE DEF G
<1>6. \A k \in 0..n : k \in G
  BY <1>1, <1>4, <1>5, Climb
<1>7. n \in G
  BY <1>1, <1>6
<1> QED BY <1>2, <1>7 DEF G

(***************************************************************************)
(* The board in order                                                      *)
(***************************************************************************)
\* Dividing by the columns tells a cell's row and column from its number.
LEMMA RowAndColumn ==
  ASSUME NEW r \in Nat, NEW k \in 0..Cols-1
  PROVE  (r * Cols + k) \div Cols = r /\ (r * Cols + k) % Cols = k
<1>1. Cols \in Nat \ {0} /\ r * Cols \in Nat
  BY BoardAssumption
<1> DEFINE m == r * Cols + k
           q == m \div Cols
           t == m % Cols
<1>2. m \in Nat
  BY <1>1
<1>3. q \in Int /\ t \in 0..Cols-1 /\ m = Cols * q + t
  <2> HIDE DEF m
  <2> QED BY <1>1, <1>2
<1> HIDE DEF q, t
<1>4. r * Cols + k = Cols * q + t
  BY <1>3
<1>5. q = r
  <2>1. (q - r) * Cols = k - t
    BY <1>1, <1>3, <1>4
  <2>2. CASE q - r >= 1
    <3>1. (q - r) * Cols >= Cols
      BY <1>1, <1>3, <2>2
    <3> QED BY <1>1, <1>3, <2>1, <3>1
  <2>3. CASE q - r <= -1
    <3>1. (q - r) * Cols <= -Cols
      BY <1>1, <1>3, <2>3
    <3> QED BY <1>1, <1>3, <2>1, <3>1
  <2> QED BY <1>3, <2>2, <2>3
<1>6. t = k
  BY <1>1, <1>3, <1>4, <1>5
<1> QED BY <1>5, <1>6 DEF q, t, m

\* The board lists every cell once.
LEMMA BoardLists ==
  /\ Board \in Seq(Pos) /\ Len(Board) = Rows * Cols /\ DOMAIN Board = 1..Rows * Cols
  /\ IsInjective(Board) /\ ToSet(Board) = Pos
<1> DEFINE n == Rows * Cols
           Cell_(i) == <<(i - 1) \div Cols, (i - 1) % Cols>>
<1>1. n \in Nat /\ Cols \in Nat \ {0} /\ Rows \in Nat \ {0} /\ n = Rows * Cols
  BY BoardAssumption
<1>2. Board = [i \in 1..n |-> Cell_(i)]
  BY DEF Board
<1>3. ASSUME NEW i \in 1..n
      PROVE  /\ Cell_(i) \in Pos
             /\ i = Cols * Cell_(i)[1] + Cell_(i)[2] + 1
  <2> DEFINE m == i - 1
             q == m \div Cols
             t == m % Cols
  <2>1. m \in Nat /\ m < Rows * Cols /\ i = m + 1
    BY <1>1
  <2>2. q \in Int /\ t \in 0..Cols-1 /\ m = Cols * q + t
    <3> HIDE DEF m
    <3> QED BY <1>1, <2>1
  <2> HIDE DEF q, t
  <2>3. q >= 0
    <3> SUFFICES ASSUME q <= -1 PROVE FALSE
      BY <2>2
    <3>1. Cols * q <= -Cols
      BY <1>1, <2>2
    <3> QED BY <1>1, <2>1, <2>2, <3>1
  <2>4. q <= Rows - 1
    <3> SUFFICES ASSUME q >= Rows PROVE FALSE
      BY <1>1, <2>2
    <3>1. Cols * q >= Cols * Rows
      BY <1>1, <2>2
    <3> QED BY <1>1, <2>1, <2>2, <3>1
  <2>5. Cell_(i) = <<q, t>>
    BY DEF q, t
  <2> QED BY <1>1, <2>1, <2>2, <2>3, <2>4, <2>5 DEF Pos
<1>4. ASSUME NEW c \in Pos PROVE \E i \in 1..n : Cell_(i) = c
  <2>1. PICK r \in 0..Rows-1, k \in 0..Cols-1 : c = <<r, k>>
    BY DEF Pos
  <2> DEFINE i == r * Cols + k + 1
  <2>2. r * Cols \in Nat /\ r * Cols + Cols <= n
    <3>1. r + 1 <= Rows /\ r \in Nat
      BY <1>1
    <3>2. (r + 1) * Cols <= Rows * Cols /\ (r + 1) * Cols = r * Cols + Cols /\ r * Cols \in Nat
      BY <1>1, <3>1
    <3> QED BY <1>1, <3>2
  <2>3. i \in 1..n /\ i - 1 = r * Cols + k
    BY <1>1, <2>2
  <2>4. (r * Cols + k) \div Cols = r /\ (r * Cols + k) % Cols = k
    BY <1>1, RowAndColumn
  <2> HIDE DEF i
  <2>5. Cell_(i) = c
    BY <2>1, <2>3, <2>4
  <2> QED BY <2>3, <2>5
<1> HIDE DEF Cell_, n
<1>5. DOMAIN Board = 1..n /\ Board \in [1..n -> Pos] /\ \A i \in 1..n : Board[i] = Cell_(i)
  BY <1>2, <1>3
<1>6. Board \in Seq(Pos) /\ Len(Board) = n
  BY <1>1, <1>5
<1>7. IsInjective(Board)
  BY <1>3, <1>5 DEF IsInjective
<1>8. ToSet(Board) = Pos
  BY <1>3, <1>4, <1>5 DEF ToSet
<1> QED BY <1>5, <1>6, <1>7, <1>8 DEF n

\* A list of one.
LEMMA OneFacts ==
  ASSUME NEW X, NEW x \in X
  PROVE  <<x>> \in Seq(X) /\ ToSet(<<x>>) = {x} /\ IsInjective(<<x>>) /\ Len(<<x>>) = 1
<1> DEFINE w == <<x>>
<1>1. w \in Seq(X) /\ Len(w) = 1 /\ DOMAIN w = {1} /\ w[1] = x
  OBVIOUS
<1> HIDE DEF w
<1>2. ToSet(w) = {x} /\ IsInjective(w)
  BY <1>1 DEF ToSet, IsInjective
<1> QED BY <1>1, <1>2 DEF w

\* l lists every member of X once.
Roll(l, X) == l \in Seq(X) /\ ToSet(l) = X /\ IsInjective(l)

\* Cells in board order.
LEMMA InOrderLists ==
  ASSUME NEW cells \in SUBSET Pos
  PROVE  Roll(InOrder(cells), cells)
<1> DEFINE n == Rows * Cols
           L(i) == IF Board[i] \in cells THEN <<Board[i]>> ELSE <<>>
           seqs == [i \in 1..n |-> L(i)]
<1>1. n \in Nat
  BY BoardAssumption
<1>2. /\ DOMAIN Board = 1..n /\ \A i \in 1..n : Board[i] \in Pos
      /\ \A i, j \in 1..n : Board[i] = Board[j] => i = j
      /\ \A c \in Pos : \E i \in 1..n : Board[i] = c
  BY BoardLists DEF ToSet, IsInjective
<1> HIDE DEF n
<1>3. ASSUME NEW i \in 1..n
      PROVE  L(i) \in Seq(cells) /\ ToSet(L(i)) = {Board[i]} \cap cells /\ IsInjective(L(i))
  <2>1. CASE Board[i] \in cells
    <3> DEFINE b == Board[i]
    <3>1. b \in cells /\ L(i) = <<b>>
      BY <2>1
    <3> HIDE DEF b, L
    <3>2. <<b>> \in Seq(cells) /\ ToSet(<<b>>) = {b} /\ IsInjective(<<b>>)
      BY <3>1, OneFacts
    <3>3. ToSet(L(i)) = {b} \cap cells /\ L(i) \in Seq(cells) /\ IsInjective(L(i))
      BY <3>1, <3>2
    <3> QED BY <3>3 DEF b
  <2>2. CASE Board[i] \notin cells
    <3>1. L(i) = <<>>
      BY <2>2
    <3> HIDE DEF L
    <3>2. NothingIn(L(i), cells)
      BY <3>1, EmptyFacts
    <3> QED BY <2>2, <3>2 DEF NothingIn
  <2> QED BY <2>1, <2>2
<1> HIDE DEF L
<1>4. /\ seqs \in Seq(Seq(cells)) /\ Len(seqs) = n /\ DOMAIN seqs = 1..n
      /\ \A i \in 1..n : seqs[i] = L(i)
  BY <1>1, <1>3
<1>5. InOrder(cells) = FlattenSeq(seqs)
  BY DEF InOrder, n, L
<1> HIDE DEF seqs
<1>6. Apart(seqs)
  BY <1>2, <1>3, <1>4 DEF Apart
<1>7. Held(seqs, n) = cells
  <2>1. Held(seqs, n) = UNION {{Board[i]} \cap cells : i \in 1..n}
    BY <1>3, <1>4 DEF Held
  <2> QED BY <1>2, <2>1
<1>8. IsJoin(FlattenSeq(seqs), seqs, cells, n)
  BY <1>4, Flattened
<1> QED BY <1>5, <1>6, <1>7, <1>8 DEF IsJoin, Roll

\* Some cell is furthest from the base.
LEMMA FurthestIsIn ==
  ASSUME NEW cells \in SUBSET Pos, cells # {}, NEW base \in Pos
  PROVE  Furthest(cells, base) \in cells
<1> DEFINE D(c) == Distance(c, base)
           m == Rows + Cols
           T == {k \in 0..m : \E c \in cells : D(c) = m - k}
           best == {c \in cells : \A d \in cells : D(d) <= D(c)}
<1>1. m \in Nat
  BY BoardAssumption
<1>2. \A c \in Pos : D(c) \in 0..m
  <2> TAKE c \in Pos
  <2>1. c[1] \in 0..Rows-1 /\ c[2] \in 0..Cols-1 /\ base[1] \in 0..Rows-1 /\ base[2] \in 0..Cols-1
    BY DEF Pos
  <2>2. Gap(c[1], base[1]) \in 0..Rows /\ Gap(c[2], base[2]) \in 0..Cols
    BY <2>1, BoardAssumption DEF Gap
  <2> QED BY <2>2, BoardAssumption DEF Distance
<1> HIDE DEF D, m
<1>3. PICK e \in cells : TRUE
  OBVIOUS
<1>4. T \subseteq Nat /\ T # {}
  <2>1. D(e) \in 0..m
    BY <1>2, <1>3
  <2>2. m - D(e) \in 0..m /\ D(e) = m - (m - D(e))
    BY <1>1, <2>1
  <2> QED BY <1>1, <1>3, <2>2
<1>5. PICK k \in T : \A l \in T : k <= l
  <2> HIDE DEF T
  <2> QED BY <1>4, LeastNumber
<1>6. PICK c \in cells : D(c) = m - k
  OBVIOUS
<1>7. \A d \in cells : D(d) <= D(c)
  <2> TAKE d \in cells
  <2>1. D(d) \in 0..m
    BY <1>2
  <2>2. m - D(d) \in T
    <3>1. m - D(d) \in 0..m /\ D(d) = m - (m - D(d))
      BY <1>1, <2>1
    <3> QED BY <3>1
  <2>3. k <= m - D(d) /\ k \in 0..m
    BY <1>5, <2>2
  <2> QED BY <1>1, <1>6, <2>1, <2>3
<1>8. best \in SUBSET Pos /\ best \subseteq cells /\ c \in best
  BY <1>6, <1>7
<1>9. Furthest(cells, base) = Head(InOrder(best))
  BY DEF Furthest, D
<1> HIDE DEF best
<1> DEFINE l == InOrder(best)
<1>10. Roll(l, best)
  BY <1>8, InOrderLists
<1> HIDE DEF l
<1>11. l \in Seq(best) /\ l # <<>>
  <2> DEFINE none == <<>>
  <2>1. ToSet(none) = {}
    BY DEF ToSet
  <2> HIDE DEF none
  <2>2. l # none
    BY <1>8, <1>10, <2>1 DEF Roll
  <2> QED BY <1>10, <2>2 DEF Roll, none
<1>12. Head(l) \in best
  BY <1>11
<1> QED BY <1>8, <1>9, <1>12 DEF l

\* What is given up comes from the pool.
LEMMA FillerFacts ==
  ASSUME NEW pool \in SUBSET Pos, NEW base \in Pos, NEW n \in Nat, NEW seq, DOMAIN seq = 1..n
  PROVE  Filling(pool, base, seq) \in Seq(pool)
<1> DEFINE how == [kind |-> "fill", start |-> <<>>, pool |-> pool, base |-> base]
<1>1. PICK st : Gathers(st, seq, how, n) /\ Filling(pool, base, seq) = st[n]
  BY FillersGather
<1>2. how.kind = "fill" /\ how.pool = pool /\ how.base = base
  OBVIOUS
<1> HIDE DEF how
<1> DEFINE G == {k \in 0..n : st[k] \in Seq(pool)}
<1>3. 0 \in G
  <2> DEFINE e == <<>>
  <2>1. st[0] = e /\ NothingIn(e, pool)
    <3>1. how.start = e
      BY DEF how
    <3>2. NothingIn(e, pool)
      BY EmptyFacts
    <3> HIDE DEF e
    <3> QED BY <1>1, <3>1, <3>2 DEF Gathers
  <2> HIDE DEF e
  <2>2. e \in Seq(pool)
    BY <2>1 DEF NothingIn
  <2> QED BY <2>1, <2>2
<1>4. ASSUME NEW k \in 1..n, k - 1 \in G PROVE k \in G
  <2> DEFINE l == st[k - 1]
             left == pool \ ToSet(l)
  <2>1. st[k] = IF left = {} THEN l ELSE Append(l, Furthest(left, base))
    BY <1>1, <1>2 DEF Gathers, Step
  <2>2. l \in Seq(pool) /\ left \in SUBSET Pos /\ left \subseteq pool
    BY <1>4
  <2> HIDE DEF l, left
  <2>3. CASE left = {}
    BY <2>1, <2>2, <2>3
  <2>4. CASE left # {}
    <3> DEFINE c == Furthest(left, base)
    <3>1. c \in pool
      BY <2>2, <2>4, FurthestIsIn
    <3> HIDE DEF c
    <3> DEFINE w == Append(l, c)
    <3>2. w \in Seq(pool)
      BY <2>2, <3>1
    <3>3. st[k] = w
      BY <2>1, <2>4 DEF c
    <3> QED BY <3>2, <3>3
  <2> QED BY <2>3, <2>4
<1> HIDE DEF G
<1>5. \A k \in 0..n : k \in G
  BY <1>3, <1>4, Climb
<1>6. n \in G
  BY <1>5
<1> QED BY <1>1, <1>6 DEF G

(***************************************************************************)
(* Pairs                                                                   *)
(***************************************************************************)
\* The pairs of a cell of A and another of B.
Pairs(A, B) == {Pairing(q[1], q[2]) : q \in {r \in A \X B : r[1] # r[2]}}

\* A pair is of its two cells.
LEMMA PairingIsOf ==
  ASSUME NEW c, NEW d
  PROVE  /\ Pairing(c, d) = <<c, d>> \/ Pairing(c, d) = <<d, c>>
         /\ {Pairing(c, d)[1], Pairing(c, d)[2]} = {c, d}
         /\ Pairing(c, d) = <<Pairing(c, d)[1], Pairing(c, d)[2]>>
BY DEF Pairing

\* Two pairs with one cell in common are the same only if the others are.
LEMMA PairingsDiffer ==
  ASSUME NEW c, NEW d, NEW e, NEW f, Pairing(c, d) = Pairing(e, f)
  PROVE  {c, d} = {e, f}
BY PairingIsOf

\* A pair is the same whichever cell is named first.
LEMMA PairingIsMutual ==
  ASSUME NEW c \in Pos, NEW d \in Pos
  PROVE  Pairing(c, d) = Pairing(d, c)
<1>1. Index(c) \in Int /\ Index(d) \in Int
  BY BoardAssumption DEF Index, Pos
<1>2. CASE c = d
  BY <1>2
<1>3. CASE c # d
  BY <1>1, <1>3, IndexIsInjective DEF Pairing
<1> QED BY <1>2, <1>3

\* One cell paired with each of a list.
Row(c, right) ==
  [j \in DOMAIN right |-> IF c = right[j] THEN <<>> ELSE <<Pairing(c, right[j])>>]

\* What one cell paired with another gives.
IsCell(l, Y, e, f) ==
  l \in Seq(Y) /\ IsInjective(l) /\ Len(l) <= 1 /\ ToSet(l) = Pairs({e}, {f})

\* A row lists the pairs of its cell, none twice if the others are not.
LEMMA RowFacts ==
  ASSUME NEW c, NEW B, NEW right \in Seq(B), ToSet(right) = B
  PROVE  /\ FlattenSeq(Row(c, right)) \in Seq(Pairs({c}, B))
         /\ ToSet(FlattenSeq(Row(c, right))) = Pairs({c}, B)
         /\ Len(FlattenSeq(Row(c, right))) <= Len(right)
         /\ IsInjective(right) => IsInjective(FlattenSeq(Row(c, right)))
<1> DEFINE X == Pairs({c}, B)
           n == Len(right)
           L(j) == IF c = right[j] THEN <<>> ELSE <<Pairing(c, right[j])>>
           seqs == [j \in 1..n |-> L(j)]
<1>1. n \in Nat /\ DOMAIN right = 1..n /\ \A j \in 1..n : right[j] \in B
  OBVIOUS
<1>2. ASSUME NEW j \in 1..n
      PROVE  IsCell(L(j), X, c, right[j])
  <2> DEFINE d == right[j]
             w == L(j)
  <2>1. CASE c = d
    <3>1. w = <<>>
      BY <2>1
    <3>0. Pairs({c}, {d}) = {}
      BY <2>1 DEF Pairs
    <3> HIDE DEF w, d, X
    <3>2. NothingIn(w, X)
      BY <3>1, EmptyFacts
    <3>7. w \in Seq(X) /\ IsInjective(w)
      BY <3>2 DEF NothingIn
    <3>8. Len(w) <= 1
      BY <3>2 DEF NothingIn
    <3>9. ToSet(w) = Pairs({c}, {d})
      BY <3>0, <3>2 DEF NothingIn
    <3>3. IsCell(w, X, c, d)
      BY <3>7, <3>8, <3>9 DEF IsCell
    <3> QED BY <3>3 DEF w, d
  <2>2. CASE c # d
    <3> DEFINE b == Pairing(c, d)
               o == <<b>>
    <3>1. w = o
      BY <2>2
    <3>2. d \in B
      BY <1>1
    <3> HIDE DEF d
    <3>3. b \in X /\ Pairs({c}, {d}) = {b}
      <4>1. <<c, d>> \in {c} \X B /\ <<c, d>>[1] = c /\ <<c, d>>[2] = d
        BY <3>2
      <4>2. {r \in {c} \X {d} : r[1] # r[2]} = {<<c, d>>}
        BY <2>2
      <4>3. b \in X
        BY <2>2, <4>1 DEF Pairs
      <4> QED BY <4>1, <4>2, <4>3 DEF Pairs
    <3> HIDE DEF b, X
    <3>4. o \in Seq(X) /\ ToSet(o) = {b} /\ IsInjective(o) /\ Len(o) = 1
      BY <3>3, OneFacts
    <3> HIDE DEF o, w
    <3>7. Len(o) <= 1
      BY <3>4
    <3>8. ToSet(o) = Pairs({c}, {d})
      BY <3>3, <3>4
    <3>5. IsCell(o, X, c, d)
      BY <3>4, <3>7, <3>8 DEF IsCell
    <3>6. IsCell(w, X, c, d)
      BY <3>1, <3>5
    <3> QED BY <3>6 DEF w, d
  <2> QED BY <2>1, <2>2
<1>3. Row(c, right) = seqs
  BY <1>1 DEF Row
<1> HIDE DEF L, X
<1>4. /\ seqs \in Seq(Seq(X)) /\ Len(seqs) = n /\ DOMAIN seqs = 1..n
      /\ \A j \in 1..n : seqs[j] = L(j)
  <2>1. \A j \in 1..n : L(j) \in Seq(X)
    BY <1>2 DEF IsCell
  <2> QED BY <1>1, <2>1
<1> HIDE DEF seqs
<1>5. Short(seqs)
  BY <1>2, <1>4 DEF Short, IsCell
<1>6. Held(seqs, n) = X
  <2>1. Held(seqs, n) = UNION {Pairs({c}, {right[j]}) : j \in 1..n}
    BY <1>2, <1>4 DEF Held, IsCell
  <2>2. \A b \in B : \E j \in 1..n : right[j] = b
    BY <1>1 DEF ToSet
  <2> QED BY <1>1, <2>1, <2>2 DEF X, Pairs
<1>7. ASSUME IsInjective(right) PROVE Apart(seqs)
  <2>1. ASSUME NEW i \in 1..n, NEW j \in 1..n, i # j
        PROVE  ToSet(seqs[i]) \cap ToSet(seqs[j]) = {}
    <3>1. right[i] # right[j]
      BY <1>1, <1>7, <2>1 DEF IsInjective
    <3>2. Pairs({c}, {right[i]}) \cap Pairs({c}, {right[j]}) = {}
      BY <3>1, PairingsDiffer DEF Pairs
    <3> QED BY <1>2, <1>4, <3>2 DEF IsCell
  <2> QED BY <1>2, <1>4, <2>1 DEF Apart, IsCell
<1>8. IsJoin(FlattenSeq(seqs), seqs, X, n)
  BY <1>4, Flattened
<1> QED BY <1>1, <1>3, <1>5, <1>6, <1>7, <1>8 DEF IsJoin, X

\* What a list of cells paired with another gives.
LEMMA PairingsLists ==
  ASSUME NEW A, NEW B, NEW left \in Seq(A), ToSet(left) = A, NEW right \in Seq(B), ToSet(right) = B
  PROVE  Pairings(left, right) \in Seq(Pairs(A, B)) /\ ToSet(Pairings(left, right)) = Pairs(A, B)
<1> DEFINE X == Pairs(A, B)
           n == Len(left)
           R(i) == FlattenSeq(Row(left[i], right))
           seqs == [i \in 1..n |-> R(i)]
<1>1. n \in Nat /\ DOMAIN left = 1..n /\ \A i \in 1..n : left[i] \in A
  OBVIOUS
<1>2. Pairings(left, right) = FlattenSeq(seqs)
  BY <1>1 DEF Pairings, Row
<1>3. ASSUME NEW i \in 1..n PROVE R(i) \in Seq(X) /\ ToSet(R(i)) = Pairs({left[i]}, B)
  <2>1. R(i) \in Seq(Pairs({left[i]}, B)) /\ ToSet(R(i)) = Pairs({left[i]}, B)
    BY RowFacts
  <2>2. Pairs({left[i]}, B) \subseteq X
    BY <1>1 DEF Pairs
  <2> HIDE DEF R, X
  <2> QED BY <2>1, <2>2, SeqMonotonic
<1> HIDE DEF R, X
<1>4. /\ seqs \in Seq(Seq(X)) /\ Len(seqs) = n /\ DOMAIN seqs = 1..n
      /\ \A i \in 1..n : seqs[i] = R(i)
  <2>1. \A i \in 1..n : R(i) \in Seq(X)
    BY <1>3
  <2> QED BY <1>1, <2>1
<1> HIDE DEF seqs
<1>5. Held(seqs, n) = X
  <2>1. Held(seqs, n) = UNION {Pairs({left[i]}, B) : i \in 1..n}
    BY <1>3, <1>4 DEF Held
  <2>2. \A a \in A : \E i \in 1..n : left[i] = a
    BY <1>1 DEF ToSet
  <2> QED BY <1>1, <2>1, <2>2 DEF X, Pairs
<1>6. IsJoin(FlattenSeq(seqs), seqs, X, n)
  BY <1>4, Flattened
<1> QED BY <1>2, <1>5, <1>6 DEF IsJoin, X

\* One cell and a list.
LEMMA PairingsOfOne ==
  ASSUME NEW c, NEW B, NEW right \in Seq(B), ToSet(right) = B
  PROVE  /\ Pairings(<<c>>, right) \in Seq(Pairs({c}, B))
         /\ ToSet(Pairings(<<c>>, right)) = Pairs({c}, B)
         /\ Len(Pairings(<<c>>, right)) <= Len(right)
         /\ IsInjective(right) => IsInjective(Pairings(<<c>>, right))
<1> DEFINE left == <<c>>
           r == FlattenSeq(Row(c, right))
           seqs == [i \in DOMAIN left |-> FlattenSeq(Row(left[i], right))]
<1>1. Pairings(left, right) = FlattenSeq(seqs)
  BY DEF Pairings, Row
<1>2. DOMAIN seqs = {1} /\ seqs[1] = r
  <2>1. DOMAIN left = {1} /\ left[1] = c
    OBVIOUS
  <2> HIDE DEF left
  <2> QED BY <2>1
<1>3. seqs = <<r>>
  <2>1. seqs = [i \in {1} |-> FlattenSeq(Row(left[i], right))]
    OBVIOUS
  <2> HIDE DEF seqs
  <2>2. seqs = [i \in {1} |-> r]
    BY <1>2, <2>1
  <2> HIDE DEF r
  <2> QED BY <2>2
<1>4. Len(seqs) = 1
  <2> HIDE DEF seqs, r
  <2> QED BY <1>3
<1>5. FlattenSeq(seqs) = r
  <2> HIDE DEF seqs, r
  <2>1. PICK h : Joins(h, seqs, 1) /\ FlattenSeq(seqs) = h[1]
    <3>1. \A n \in Nat \ {0} : Len(seqs) = n => \E h : Joins(h, seqs, n) /\ FlattenSeq(seqs) = h[n]
      BY FlattenJoins
    <3> HIDE DEF seqs
    <3> QED BY <1>4, <3>1
  <2>2. h[1] = seqs[1]
    BY <2>1 DEF Joins
  <2> QED BY <1>2, <2>1, <2>2
<1> QED BY <1>1, <1>5, RowFacts

\* The rest of a list.
LEMMA RestFacts ==
  ASSUME NEW A, NEW seq \in Seq(A), NEW i \in 1..Len(seq)
  PROVE  LET rest == SubSeq(seq, i + 1, Len(seq))
             T == {seq[j] : j \in i + 1..Len(seq)}
         IN rest \in Seq(T) /\ ToSet(rest) = T /\ (IsInjective(seq) => IsInjective(rest))
<1> DEFINE n == Len(seq)
           rest == SubSeq(seq, i + 1, n)
           T == {seq[j] : j \in i + 1..n}
<1>1. n \in Nat /\ DOMAIN seq = 1..n /\ i \in 1..n
  OBVIOUS
<1>2. Len(rest) = n - i /\ DOMAIN rest = 1..(n - i) /\ \A k \in 1..(n - i) : rest[k] = seq[i + k]
  OBVIOUS
<1>3. \A k \in 1..(n - i) : i + k \in i + 1..n
  BY <1>1
<1>4. \A j \in i + 1..n : j - i \in 1..(n - i) /\ i + (j - i) = j
  BY <1>1
<1>5. \A k \in 1..(n - i) : rest[k] \in T
  BY <1>2, <1>3
<1>6. rest \in Seq(T)
  <2>1. rest \in Seq(A) /\ n - i \in Nat
    BY <1>1
  <2> HIDE DEF rest, T, n
  <2>2. rest = [k \in 1..(n - i) |-> rest[k]]
    BY <1>2, <2>1
  <2>3. rest \in [1..(n - i) -> T]
    BY <1>5, <2>2
  <2> QED BY <2>1, <2>3, SeqDef
<1> HIDE DEF rest
<1>7. ToSet(rest) = T
  <2>1. ToSet(rest) \subseteq T
    BY <1>2, <1>5 DEF ToSet
  <2>2. ASSUME NEW j \in i + 1..n PROVE seq[j] \in ToSet(rest)
    <3>1. j - i \in DOMAIN rest /\ rest[j - i] = seq[j]
      BY <1>2, <1>4
    <3> QED BY <3>1 DEF ToSet
  <2> QED BY <2>1, <2>2
<1>8. ASSUME IsInjective(seq) PROVE IsInjective(rest)
  <2> SUFFICES ASSUME NEW k \in 1..(n - i), NEW l \in 1..(n - i), rest[k] = rest[l] PROVE k = l
    BY <1>2 DEF IsInjective
  <2>1. i + k \in DOMAIN seq /\ i + l \in DOMAIN seq /\ seq[i + k] = seq[i + l]
    BY <1>1, <1>2
  <2>2. i + k = i + l
    BY <1>8, <2>1 DEF IsInjective
  <2> QED BY <2>2
<1> QED BY <1>6, <1>7, <1>8 DEF rest

\* All pairs of a list's cells, each once.
LEMMA PairsWithinLists ==
  ASSUME NEW A \in SUBSET Pos, NEW seq \in Seq(A), ToSet(seq) = A, IsInjective(seq)
  PROVE  Roll(PairsWithin(seq), Pairs(A, A))
<1> DEFINE X == Pairs(A, A)
           n == Len(seq)
           T(i) == {seq[j] : j \in i + 1..n}
           rest(i) == SubSeq(seq, i + 1, Len(seq))
           R(i) == Pairings(<<seq[i]>>, rest(i))
           seqs == [i \in 1..n |-> R(i)]
<1>1. n \in Nat /\ DOMAIN seq = 1..n /\ \A i \in 1..n : seq[i] \in A
  OBVIOUS
<1>2. PairsWithin(seq) = FlattenSeq(seqs)
  BY <1>1 DEF PairsWithin
<1>3. ASSUME NEW i \in 1..n
      PROVE  R(i) \in Seq(X) /\ ToSet(R(i)) = Pairs({seq[i]}, T(i)) /\ IsInjective(R(i))
  <2>1. rest(i) \in Seq(T(i)) /\ ToSet(rest(i)) = T(i) /\ IsInjective(rest(i))
    BY RestFacts
  <2>2. T(i) \subseteq A
    BY <1>1
  <2>3. seq[i] \in A
    BY <1>1
  <2> DEFINE c == seq[i]
             B == T(i)
             r == rest(i)
  <2> HIDE DEF c, B, r
  <2>4. r \in Seq(B) /\ ToSet(r) = B /\ IsInjective(r)
    BY <2>1 DEF r, B
  <2>5. /\ Pairings(<<c>>, r) \in Seq(Pairs({c}, B)) /\ ToSet(Pairings(<<c>>, r)) = Pairs({c}, B)
        /\ IsInjective(Pairings(<<c>>, r))
    BY <2>4, PairingsOfOne
  <2>6. c \in A /\ B \subseteq A
    BY <2>2, <2>3 DEF c, B
  <2>7. Pairs({c}, B) \subseteq X
    BY <2>6 DEF Pairs
  <2> DEFINE w == Pairings(<<c>>, r)
  <2> HIDE DEF w, X
  <2>8. w \in Seq(X)
    BY <2>5, <2>7, SeqMonotonic DEF w
  <2>9. w = R(i)
    BY DEF w, c, r
  <2> QED BY <2>5, <2>8, <2>9 DEF w, c, B
<1> HIDE DEF R, X
<1>4. /\ seqs \in Seq(Seq(X)) /\ Len(seqs) = n /\ DOMAIN seqs = 1..n
      /\ \A i \in 1..n : seqs[i] = R(i)
  <2>1. \A i \in 1..n : R(i) \in Seq(X)
    BY <1>3
  <2> QED BY <1>1, <2>1
<1> HIDE DEF seqs
<1>5. Held(seqs, n) = X
  <2>1. Held(seqs, n) = UNION {Pairs({seq[i]}, T(i)) : i \in 1..n}
    <3> HIDE DEF T
    <3> QED BY <1>3, <1>4 DEF Held
  <2>2. \A a \in A : \E i \in 1..n : seq[i] = a
    BY <1>1 DEF ToSet
  <2>3. ASSUME NEW i \in 1..n, NEW x \in Pairs({seq[i]}, T(i)) PROVE x \in X
    <3>1. T(i) \subseteq A
      BY <1>1
    <3> QED BY <1>1, <2>3, <3>1 DEF X, Pairs
  <2>4. ASSUME NEW x \in X PROVE \E i \in 1..n : x \in Pairs({seq[i]}, T(i))
    <3>1. PICK c \in A, d \in A : x = Pairing(c, d) /\ c # d
      BY DEF X, Pairs
    <3>2. PICK i \in 1..n, j \in 1..n : seq[i] = c /\ seq[j] = d
      BY <2>2
    <3>3. i < j \/ j < i
      BY <1>1, <3>1, <3>2
    <3>4. CASE i < j
      <4>1. j \in i + 1..n
        BY <3>4, <1>1
      <4>2. d \in T(i)
        BY <3>2, <4>1
      <4>3. <<c, d>> \in {r \in {seq[i]} \X T(i) : r[1] # r[2]}
        BY <3>1, <3>2, <4>2
      <4> QED BY <3>1, <4>3 DEF Pairs
    <3>5. CASE j < i
      <4>1. i \in j + 1..n
        BY <3>5, <1>1
      <4>2. c \in T(j)
        BY <3>2, <4>1
      <4>3. <<d, c>> \in {r \in {seq[j]} \X T(j) : r[1] # r[2]}
        BY <3>1, <3>2, <4>2
      <4>4. x = Pairing(d, c)
        BY <3>1, PairingIsMutual
      <4> QED BY <4>3, <4>4 DEF Pairs
    <3> QED BY <3>3, <3>4, <3>5
  <2> HIDE DEF T
  <2> QED BY <2>1, <2>3, <2>4
<1>6. Apart(seqs)
  <2>1. ASSUME NEW i \in 1..n, NEW j \in 1..n, i < j, NEW x, x \in Pairs({seq[i]}, T(i)), x \in Pairs({seq[j]}, T(j))
        PROVE  FALSE
    <3>1. PICK d \in T(i) : x = Pairing(seq[i], d)
      BY <2>1 DEF Pairs
    <3>2. PICK e \in T(j) : x = Pairing(seq[j], e)
      BY <2>1 DEF Pairs
    <3>3. PICK k \in j + 1..n : e = seq[k]
      OBVIOUS
    <3>4. {seq[i], d} = {seq[j], e}
      <4> DEFINE a == seq[i]
                 b == seq[j]
      <4> HIDE DEF a, b
      <4>1. Pairing(a, d) = Pairing(b, e)
        BY <3>1, <3>2 DEF a, b
      <4>2. {a, d} = {b, e}
        BY <4>1, PairingsDiffer
      <4> QED BY <4>2 DEF a, b
    <3>5. seq[i] = seq[j] \/ seq[i] = seq[k]
      BY <3>3, <3>4
    <3>6. i \in DOMAIN seq /\ j \in DOMAIN seq /\ k \in DOMAIN seq /\ i # j /\ i # k
      BY <1>1, <2>1, <3>3
    <3> QED BY <3>5, <3>6 DEF IsInjective
  <2> HIDE DEF T
  <2>2. ASSUME NEW i \in 1..n, NEW j \in 1..n, i # j PROVE ToSet(seqs[i]) \cap ToSet(seqs[j]) = {}
    <3>1. i < j \/ j < i
      BY <2>2, <1>1
    <3>2. ToSet(seqs[i]) = Pairs({seq[i]}, T(i)) /\ ToSet(seqs[j]) = Pairs({seq[j]}, T(j))
      BY <1>3, <1>4
    <3> QED BY <2>1, <3>1, <3>2
  <2>3. \A i \in 1..n : IsInjective(seqs[i])
    BY <1>3, <1>4
  <2> QED BY <1>4, <2>2, <2>3 DEF Apart
<1>7. IsJoin(FlattenSeq(seqs), seqs, X, n)
  BY <1>4, Flattened
<1> QED BY <1>2, <1>5, <1>6, <1>7 DEF IsJoin, X, Roll

\* The element at a place, if there is one.
LEMMA AtFacts ==
  ASSUME NEW X, NEW seq \in Seq(X), NEW i
  PROVE  At(seq, i) \in Seq(X) /\ ToSet(At(seq, i)) \subseteq ToSet(seq) /\ Len(At(seq, i)) <= 1
<1>1. CASE i \in DOMAIN seq
  <2> DEFINE x == seq[i]
             o == <<x>>
  <2>1. x \in X /\ x \in ToSet(seq)
    BY <1>1 DEF ToSet
  <2>2. At(seq, i) = o
    BY <1>1 DEF At
  <2> HIDE DEF x
  <2>3. o \in Seq(X) /\ ToSet(o) = {x} /\ Len(o) = 1
    BY <2>1, OneFacts
  <2> HIDE DEF o
  <2>4. Len(o) <= 1
    BY <2>3
  <2> QED BY <2>1, <2>2, <2>3, <2>4
<1>2. CASE i \notin DOMAIN seq
  <2> DEFINE e == <<>>
  <2>1. At(seq, i) = e /\ NothingIn(e, X)
    BY <1>2, EmptyFacts DEF At
  <2> HIDE DEF e
  <2>2. Len(e) <= 1
    BY <2>1 DEF NothingIn
  <2> QED BY <2>1, <2>2 DEF NothingIn
<1> QED BY <1>1, <1>2

\* What is distributed over three classes comes from them.
LEMMA DistributedFacts ==
  ASSUME NEW X, NEW a \in Seq(X), NEW b \in Seq(X), NEW c \in Seq(X)
  PROVE  Distributed(<<a, b, c>>) \in Seq(X)
<1> DEFINE classes == <<a, b, c>>
           Ls == {Len(classes[i]) : i \in DOMAIN classes}
           longest == CHOOSE n \in Ls : \A i \in DOMAIN classes : Len(classes[i]) <= n
           turn(n) == [i \in DOMAIN classes |-> At(classes[i], n)]
           seqs == [n \in 1..longest |-> FlattenSeq(turn(n))]
<1>1. DOMAIN classes = 1..3 /\ classes[1] = a /\ classes[2] = b /\ classes[3] = c
  OBVIOUS
<1>2. Distributed(classes) = FlattenSeq(seqs)
  BY DEF Distributed
<1>3. Len(a) \in Nat /\ Len(b) \in Nat /\ Len(c) \in Nat
  OBVIOUS
<1> HIDE DEF classes
<1>4. Ls = {Len(a), Len(b), Len(c)}
  BY <1>1
<1>5. longest \in Nat
  <2>1. \E n \in Ls : \A i \in DOMAIN classes : Len(classes[i]) <= n
    <3> DEFINE x == Len(a)
               y == Len(b)
               z == Len(c)
    <3>1. \A i \in DOMAIN classes : Len(classes[i]) \in {x, y, z}
      BY <1>1
    <3>2. x \in Nat /\ y \in Nat /\ z \in Nat /\ Ls = {x, y, z}
      BY <1>3, <1>4
    <3> HIDE DEF x, y, z, Ls
    <3>3. \E n \in {x, y, z} : x <= n /\ y <= n /\ z <= n
      <4>1. CASE x >= y /\ x >= z
        BY <3>2, <4>1
      <4>2. CASE y >= x /\ y >= z
        BY <3>2, <4>2
      <4>3. CASE z >= x /\ z >= y
        BY <3>2, <4>3
      <4> QED BY <3>2, <4>1, <4>2, <4>3
    <3> QED BY <3>1, <3>2, <3>3
  <2> HIDE DEF Ls
  <2>2. longest \in Ls
    BY <2>1
  <2> HIDE DEF longest
  <2> QED BY <1>3, <1>4, <2>2
<1> HIDE DEF longest
<1>6. ASSUME NEW n \in 1..longest PROVE FlattenSeq(turn(n)) \in Seq(X)
  <2> DEFINE t == turn(n)
  <2>1. \A i \in 1..3 : classes[i] \in Seq(X)
    BY <1>1
  <2>2. \A i \in 1..3 : At(classes[i], n) \in Seq(X)
    BY <2>1, AtFacts
  <2>3. t = [i \in 1..3 |-> At(classes[i], n)]
    BY <1>1
  <2> HIDE DEF t
  <2>4. t \in Seq(Seq(X))
    <3> DEFINE A(i) == At(classes[i], n)
    <3>1. \A i \in 1..3 : A(i) \in Seq(X)
      BY <2>2
    <3>2. t = [i \in 1..3 |-> A(i)]
      BY <2>3
    <3> HIDE DEF A
    <3> QED BY <3>1, <3>2
  <2>5. IsJoin(FlattenSeq(t), t, X, Len(t))
    BY <2>4, Flattened
  <2> QED BY <2>5 DEF IsJoin, t
<1>7. seqs \in Seq(Seq(X))
  <2> DEFINE T(n) == FlattenSeq(turn(n))
  <2>1. \A n \in 1..longest : T(n) \in Seq(X)
    BY <1>6
  <2>2. seqs = [n \in 1..longest |-> T(n)]
    OBVIOUS
  <2> HIDE DEF T, seqs
  <2> QED BY <1>5, <2>1, <2>2
<1> HIDE DEF seqs
<1>8. IsJoin(FlattenSeq(seqs), seqs, X, Len(seqs))
  BY <1>7, Flattened
<1> QED BY <1>2, <1>8 DEF IsJoin, classes

(***************************************************************************)
(* The sample                                                              *)
(***************************************************************************)
\* Whom a cell worth defending is paired with before all others.
Partner(i, defensive, fillers) ==
  IF fillers # <<>> THEN <<fillers[((i - 1) % Len(fillers)) + 1]>>
  ELSE IF Len(defensive) > 1 THEN <<defensive[(i % Len(defensive)) + 1]>>
  ELSE <<>>

\* One list of at most one cell, another than c.
IsPartner(l, O, c, some) ==
  /\ l \in Seq(O) /\ Len(l) <= 1
  /\ some => \E p \in ToSet(l) : p # c

\* There is a partner when there are two cells to defend.
LEMMA PartnerFacts ==
  ASSUME NEW O, NEW defensive \in Seq(O), IsInjective(defensive),
         NEW fillers \in Seq(O \ ToSet(defensive)), NEW i \in DOMAIN defensive
  PROVE  IsPartner(Partner(i, defensive, fillers), O, defensive[i], Len(defensive) >= 2)
<1> DEFINE c == defensive[i]
           n == Len(defensive)
           m == Len(fillers)
<1>1. /\ n \in Nat /\ DOMAIN defensive = 1..n /\ i \in 1..n /\ c \in ToSet(defensive)
      /\ m \in Nat /\ DOMAIN fillers = 1..m
  BY DEF ToSet
<1>2. ASSUME NEW p \in O, p # c, Partner(i, defensive, fillers) = <<p>>
      PROVE  IsPartner(Partner(i, defensive, fillers), O, c, n >= 2)
  <2> DEFINE o == <<p>>
  <2>1. o \in Seq(O) /\ ToSet(o) = {p} /\ Len(o) = 1
    BY OneFacts
  <2>2. Partner(i, defensive, fillers) = o
    BY <1>2
  <2> HIDE DEF o
  <2>3. Len(o) <= 1
    BY <2>1
  <2>4. \E q \in ToSet(o) : q # c
    BY <1>2, <2>1
  <2> HIDE DEF c, n
  <2>5. IsPartner(o, O, c, n >= 2)
    BY <2>1, <2>3, <2>4 DEF IsPartner
  <2> QED BY <2>2, <2>5
<1>3. CASE fillers # <<>>
  <2> DEFINE k == ((i - 1) % m) + 1
             p == fillers[k]
  <2>1. m \in Nat \ {0}
    BY <1>3, EmptySeq
  <2>2. k \in 1..m
    BY <1>1, <2>1
  <2> HIDE DEF k
  <2>3. p \in O /\ p \notin ToSet(defensive)
    BY <1>1, <2>2
  <2>4. Partner(i, defensive, fillers) = <<p>>
    BY <1>3 DEF Partner, k
  <2> HIDE DEF p, c, n
  <2>5. p # c
    BY <1>1, <2>3
  <2> QED BY <1>2, <2>3, <2>4, <2>5 DEF c, n
<1>4. CASE fillers = <<>> /\ n > 1
  <2> DEFINE k == (i % n) + 1
             p == defensive[k]
  <2>1. k \in 1..n /\ k # i
    <3>1. CASE i < n
      <4>1. i % n = i
        BY <1>1, <3>1
      <4> QED BY <1>1, <3>1, <4>1
    <3>2. CASE i = n
      <4>1. n % n = 0
        BY <1>1, <1>4
      <4>2. i % n = 0
        <5> HIDE DEF n
        <5> QED BY <3>2, <4>1
      <4>3. k = 1
        BY <4>2
      <4> HIDE DEF k, n
      <4> QED BY <1>1, <1>4, <3>2, <4>3
    <3> QED BY <1>1, <3>1, <3>2
  <2>2. Partner(i, defensive, fillers) = <<p>>
    BY <1>4 DEF Partner
  <2> HIDE DEF k
  <2>3. p \in O /\ p # c
    BY <1>1, <2>1 DEF IsInjective
  <2> HIDE DEF p, c, n
  <2> QED BY <1>2, <2>2, <2>3 DEF c, n
<1>5. CASE fillers = <<>> /\ ~(n > 1)
  <2> DEFINE e == <<>>
  <2>1. Partner(i, defensive, fillers) = e /\ NothingIn(e, O)
    BY <1>5, EmptyFacts DEF Partner
  <2> HIDE DEF e
  <2>2. Len(e) <= 1 /\ e \in Seq(O)
    BY <2>1 DEF NothingIn
  <2>3. ~(n >= 2)
    BY <1>1, <1>5
  <2>4. IsPartner(e, O, c, n >= 2)
    BY <2>2, <2>3 DEF IsPartner
  <2> QED BY <2>1, <2>4
<1> QED BY <1>3, <1>4, <1>5

\* What is reserved: it comes from the separators and the cells to defend, there is room for
\* all of it, and with two cells to defend there is a pair for each.
IsReserved(l, X, defensive) ==
  /\ l \in Seq(X) /\ Len(l) <= 1 + Len(defensive)
  /\ Len(defensive) >= 2 => \A i \in DOMAIN defensive : \E pair \in ToSet(l) : defensive[i] \in {pair[1], pair[2]}

\* What comes before all others fits, and names every shortlisted cell that has a partner.
LEMMA ReservedFacts ==
  ASSUME NEW O \in SUBSET Pos, NEW defensive \in Seq(O), IsInjective(defensive),
         NEW fillers \in Seq(O \ ToSet(defensive)),
         NEW separators \in Seq(Pairs(ToSet(defensive), O))
  PROVE  IsReserved(Reserved(separators, defensive, fillers), Pairs(ToSet(defensive), O), defensive)
<1> DEFINE D == ToSet(defensive)
           X == Pairs(D, O)
           n == Len(defensive)
           first == At(separators, 1)
           P(i) == Partner(i, defensive, fillers)
           R(i) == Pairings(<<defensive[i]>>, P(i))
           seqs == [i \in 1..n |-> R(i)]
           rest == FlattenSeq(seqs)
<1>1. n \in Nat /\ DOMAIN defensive = 1..n /\ \A i \in 1..n : defensive[i] \in D /\ defensive[i] \in O
  BY DEF ToSet
<1>2. Reserved(separators, defensive, fillers) = first \o rest
  BY <1>1 DEF Reserved, Partner
<1>3. ASSUME NEW i \in 1..n PROVE IsPartner(P(i), O, defensive[i], n >= 2)
  BY <1>1, PartnerFacts
<1> HIDE DEF P
<1>4. ASSUME NEW i \in 1..n
      PROVE  /\ R(i) \in Seq(X)
             /\ Len(R(i)) <= 1
             /\ n >= 2 => \E pair \in ToSet(R(i)) : defensive[i] \in {pair[1], pair[2]}
  <2> DEFINE c == defensive[i]
             r == P(i)
             B == ToSet(r)
             w == Pairings(<<c>>, r)
  <2>1. c \in D /\ c \in O
    BY <1>1
  <2>2. IsPartner(r, O, c, n >= 2)
    BY <1>3
  <2> HIDE DEF c, r, n
  <2>3. r \in Seq(B) /\ B \subseteq O /\ Len(r) <= 1 /\ Len(r) \in Nat
    <3>1. r \in Seq(O) /\ Len(r) <= 1
      BY <2>2 DEF IsPartner
    <3> HIDE DEF B
    <3>2. B \subseteq O
      BY <3>1 DEF B, ToSet
    <3>3. r \in [1..Len(r) -> B] /\ Len(r) \in Nat
      <4>1. r \in [1..Len(r) -> O] /\ Len(r) \in Nat /\ DOMAIN r = 1..Len(r)
        BY <3>1
      <4>2. \A k \in 1..Len(r) : r[k] \in B
        BY <4>1 DEF B, ToSet
      <4> QED BY <4>1, <4>2
    <3>4. r \in Seq(B)
      BY <3>3, SeqDef
    <3> QED BY <3>1, <3>2, <3>3, <3>4
  <2> HIDE DEF B
  <2>4. ToSet(r) = B
    BY DEF B
  <2>5. w \in Seq(Pairs({c}, B)) /\ ToSet(w) = Pairs({c}, B) /\ Len(w) <= Len(r)
    BY <2>3, <2>4, PairingsOfOne
  <2>6. Pairs({c}, B) \subseteq X
    BY <2>1, <2>3 DEF Pairs
  <2> HIDE DEF w, X
  <2>7. w \in Seq(X)
    BY <2>5, <2>6, SeqMonotonic
  <2>8. Len(w) <= 1
    <3>1. Len(w) \in Nat
      BY <2>7
    <3> QED BY <2>3, <2>5, <3>1
  <2>9. ASSUME n >= 2 PROVE \E pair \in ToSet(w) : c \in {pair[1], pair[2]}
    <3>1. PICK p \in B : p # c
      BY <2>2, <2>9 DEF IsPartner, B
    <3>2. <<c, p>> \in {q \in {c} \X B : q[1] # q[2]}
      BY <3>1
    <3>3. Pairing(c, p) \in ToSet(w)
      BY <2>5, <3>2 DEF Pairs
    <3>4. c \in {Pairing(c, p)[1], Pairing(c, p)[2]}
      BY PairingIsOf
    <3> QED BY <3>3, <3>4
  <2>10. w = R(i)
    BY DEF w, c, r
  <2> QED BY <2>7, <2>8, <2>9, <2>10 DEF c
<1> HIDE DEF R, X
<1>5. /\ seqs \in Seq(Seq(X)) /\ Len(seqs) = n /\ DOMAIN seqs = 1..n
      /\ \A i \in 1..n : seqs[i] = R(i)
  <2>1. \A i \in 1..n : R(i) \in Seq(X)
    BY <1>4
  <2> QED BY <1>1, <2>1
<1> HIDE DEF seqs
<1>6. IsJoin(rest, seqs, X, n)
  BY <1>5, Flattened
<1>7. Short(seqs)
  BY <1>4, <1>5 DEF Short
<1> HIDE DEF rest
<1>8. rest \in Seq(X) /\ Len(rest) <= n /\ ToSet(rest) = Held(seqs, n)
  BY <1>6, <1>7 DEF IsJoin
<1>9. first \in Seq(X) /\ Len(first) <= 1
  BY AtFacts DEF X
<1> HIDE DEF first
<1> DEFINE all == first \o rest
<1>10. Both(all, first, rest, X)
  BY <1>8, <1>9, ConcatFacts
<1> HIDE DEF all
<1>11. Len(all) <= 1 + n
  <2>1. Len(all) = Len(first) + Len(rest)
    BY <1>10 DEF Both
  <2>2. Len(first) \in Nat /\ Len(rest) \in Nat
    BY <1>8, <1>9
  <2> QED BY <1>1, <1>8, <1>9, <2>1, <2>2
<1>12. ASSUME n >= 2, NEW i \in 1..n PROVE \E pair \in ToSet(all) : defensive[i] \in {pair[1], pair[2]}
  <2>1. PICK pair \in ToSet(seqs[i]) : defensive[i] \in {pair[1], pair[2]}
    BY <1>4, <1>5, <1>12
  <2>2. pair \in Held(seqs, n)
    BY <2>1 DEF Held
  <2>3. pair \in ToSet(all)
    BY <1>8, <1>10, <2>2 DEF Both
  <2> QED BY <2>1, <2>3
<1>13. all \in Seq(X)
  BY <1>10 DEF Both
<1> HIDE DEF n
<1>14. DOMAIN defensive = 1..n
  BY <1>1
<1>15. IsReserved(all, X, defensive)
  BY <1>11, <1>12, <1>13, <1>14 DEF IsReserved, n
<1> QED BY <1>2, <1>15 DEF all, X

\* A list is one of its own members.
LEMMA OwnMembers ==
  ASSUME NEW X, NEW s \in Seq(X)
  PROVE  s \in Seq(ToSet(s)) /\ ToSet(s) \subseteq X
<1>1. s \in [1..Len(s) -> X] /\ Len(s) \in Nat /\ DOMAIN s = 1..Len(s)
  OBVIOUS
<1>2. \A k \in 1..Len(s) : s[k] \in ToSet(s)
  BY <1>1 DEF ToSet
<1>3. s \in [1..Len(s) -> ToSet(s)]
  BY <1>1, <1>2
<1>4. s \in Seq(ToSet(s))
  BY <1>1, <1>3, SeqDef
<1> QED BY <1>1, <1>4 DEF ToSet

\* A sample: each pair once, no more than there is room for, and with two cells to defend a pair
\* for each.
IsSampled(u, X, defensive) ==
  /\ u \in Seq(X) /\ IsInjective(u) /\ Len(u) <= MaxStrategicPairs
  /\ Len(defensive) >= 2 => \A i \in DOMAIN defensive : \E pair \in ToSet(u) : defensive[i] \in {pair[1], pair[2]}

\* What is sampled names them too, since there is room for all that comes first.
LEMMA SampledFacts ==
  ASSUME NEW O \in SUBSET Pos, NEW defensive \in Seq(O), IsInjective(defensive), Len(defensive) <= MaxDefensive,
         NEW fillers \in Seq(O \ ToSet(defensive)),
         NEW separators \in Seq(Pairs(ToSet(defensive), O))
  PROVE  IsSampled(Sampled(separators, defensive, fillers), Pairs(ToSet(defensive), O), defensive)
<1> DEFINE D == ToSet(defensive)
           F == ToSet(fillers)
           X == Pairs(D, O)
           reserved == Reserved(separators, defensive, fillers)
           given == Pairings(defensive, fillers)
           within == PairsWithin(defensive)
           others == Distributed(<<separators, Unique(given), Unique(within)>>)
           all == reserved \o others
<1>1. Sampled(separators, defensive, fillers) = Unique(all)
  BY DEF Sampled
<1>2. IsReserved(reserved, X, defensive)
  BY ReservedFacts
<1>3. D \subseteq O /\ F \subseteq O /\ defensive \in Seq(D) /\ fillers \in Seq(F)
  BY OwnMembers
<1>4. separators \in Seq(X)
  OBVIOUS
<1>5. given \in Seq(X)
  <2>1. given \in Seq(Pairs(D, F))
    BY <1>3, PairingsLists
  <2>2. Pairs(D, F) \subseteq X
    BY <1>3 DEF Pairs
  <2> HIDE DEF given, X
  <2> QED BY <2>1, <2>2, SeqMonotonic
<1>6. within \in Seq(X)
  <2>1. Roll(within, Pairs(D, D))
    BY <1>3, PairsWithinLists
  <2>2. Pairs(D, D) \subseteq X
    BY <1>3 DEF Pairs
  <2> HIDE DEF within, X
  <2> QED BY <2>1, <2>2, SeqMonotonic DEF Roll
<1> HIDE DEF given, within, X, reserved
<1>7. Unique(given) \in Seq(X) /\ Unique(within) \in Seq(X)
  BY <1>5, <1>6, UniqueFacts DEF Distinct
<1>8. others \in Seq(X)
  BY <1>4, <1>7, DistributedFacts
<1> HIDE DEF others
<1>9. reserved \in Seq(X)
  BY <1>2 DEF IsReserved
<1>10. /\ all \in Seq(X) /\ Len(all) = Len(reserved) + Len(others) /\ Len(reserved) \in Nat /\ Len(others) \in Nat
       /\ \A k \in 1..Len(reserved) : all[k] = reserved[k]
  BY <1>8, <1>9
<1> HIDE DEF all
<1> DEFINE u == Unique(all)
<1>11. Distinct(u, all, X, Len(all))
  BY <1>10, UniqueFacts
<1> HIDE DEF u
<1>12. ASSUME Len(defensive) >= 2, NEW i \in DOMAIN defensive
       PROVE  \E pair \in ToSet(u) : defensive[i] \in {pair[1], pair[2]}
  <2>1. PICK pair \in ToSet(reserved) : defensive[i] \in {pair[1], pair[2]}
    BY <1>2, <1>12 DEF IsReserved
  <2>2. PICK k \in 1..Len(reserved) : reserved[k] = pair
    BY <1>9, <2>1 DEF ToSet
  <2>3. k \in 1..Len(all) /\ k <= MaxStrategicPairs
    <3>1. Len(reserved) <= 1 + Len(defensive) /\ Len(defensive) \in Nat
      BY <1>2 DEF IsReserved
    <3> QED BY <1>10, <2>2, <3>1, SampleAssumption
  <2>4. all[k] = pair
    BY <1>10, <2>2
  <2>5. pair \in ToSet(u)
    BY <1>11, <2>3, <2>4 DEF Distinct
  <2> QED BY <2>1, <2>5
<1>13. u \in Seq(X) /\ IsInjective(u) /\ Len(u) <= MaxStrategicPairs
  BY <1>11 DEF Distinct
<1>14. IsSampled(u, X, defensive)
  BY <1>12, <1>13 DEF IsSampled
<1> QED BY <1>1, <1>14 DEF u, X

\* The cells worth defending.
Classes(base, owned, threatened, cuts) == (owned \cap Near[base]) \cup threatened \cup (owned \cap cuts)

\* The shortlist of them.
IsShortlist(d, W) ==
  /\ d \in Seq(W) /\ IsInjective(d) /\ Len(d) <= MaxDefensive
  /\ Cardinality(W) <= MaxDefensive => ToSet(d) = W

\* The shortlist is of the cells worth defending, and of all of them where they fit.
LEMMA DefensiveFacts ==
  ASSUME NEW base, NEW owned \in SUBSET Pos, NEW threatened \in SUBSET owned, NEW cuts
  PROVE  IsShortlist(Defensive(base, owned, threatened, cuts), Classes(base, owned, threatened, cuts))
<1> DEFINE W == Classes(base, owned, threatened, cuts)
           a == InOrder(owned \cap Near[base])
           b == InOrder(threatened)
           c == InOrder(owned \cap cuts)
           classes == <<a, b, c>>
           heads == [i \in 1..3 |-> At(classes[i], 1)]
           firsts == FlattenSeq(heads)
           flat == FlattenSeq(classes)
           seq == firsts \o flat
           d == FoldLeft(AddDefensive, <<>>, seq)
<1>1. Defensive(base, owned, threatened, cuts) = d
  BY DEF Defensive
<1>2. W \in SUBSET Pos
  BY DEF Classes
<1>3. /\ a \in Seq(W) /\ ToSet(a) = owned \cap Near[base]
      /\ b \in Seq(W) /\ ToSet(b) = threatened
      /\ c \in Seq(W) /\ ToSet(c) = owned \cap cuts
  <2>1. Roll(a, owned \cap Near[base]) /\ Roll(b, threatened) /\ Roll(c, owned \cap cuts)
    BY InOrderLists
  <2>2. owned \cap Near[base] \subseteq W /\ threatened \subseteq W /\ owned \cap cuts \subseteq W
    BY DEF Classes
  <2> HIDE DEF a, b, c, W
  <2> QED BY <2>1, <2>2, SeqMonotonic DEF Roll
<1>4. W = ToSet(a) \cup ToSet(b) \cup ToSet(c)
  BY <1>3 DEF Classes
<1> HIDE DEF a, b, c, W
<1>5. classes \in Seq(Seq(W)) /\ Len(classes) = 3 /\ classes[1] = a /\ classes[2] = b /\ classes[3] = c
  BY <1>3
<1> HIDE DEF classes
<1>6. IsJoin(flat, classes, W, 3)
  BY <1>5, Flattened
<1>7. Held(classes, 3) = W
  <2>1. 1..3 = {1, 2, 3}
    OBVIOUS
  <2> QED BY <1>4, <1>5, <2>1 DEF Held
<1>8. flat \in Seq(W) /\ ToSet(flat) = W
  BY <1>6, <1>7 DEF IsJoin
<1>9. firsts \in Seq(W)
  <2> DEFINE A(i) == At(classes[i], 1)
  <2>0. 1..3 = {1, 2, 3} /\ classes[1] \in Seq(W) /\ classes[2] \in Seq(W) /\ classes[3] \in Seq(W)
    BY <1>3, <1>5
  <2> HIDE DEF firsts
  <2>1. \A i \in 1..3 : classes[i] \in Seq(W)
    BY <2>0
  <2>2. \A i \in 1..3 : A(i) \in Seq(W)
    BY <2>1, AtFacts
  <2>3. heads = [i \in 1..3 |-> A(i)]
    OBVIOUS
  <2> HIDE DEF A, heads
  <2>4. heads \in Seq(Seq(W))
    BY <2>2, <2>3
  <2>5. IsJoin(FlattenSeq(heads), heads, W, Len(heads))
    BY <2>4, Flattened
  <2> QED BY <2>5 DEF IsJoin, firsts
<1> HIDE DEF firsts, flat
<1>10. Both(seq, firsts, flat, W)
  BY <1>8, <1>9, ConcatFacts
<1> HIDE DEF seq
<1>11. seq \in Seq(W) /\ ToSet(seq) = W
  <2>1. ToSet(firsts) \subseteq W
    BY <1>9, OwnMembers
  <2> QED BY <1>8, <1>10, <2>1 DEF Both
<1>12. Shortlisted(d, seq, W, Len(seq))
  BY <1>11, DefenceFacts
<1> HIDE DEF d
<1>13. d \in Seq(W) /\ IsInjective(d) /\ Len(d) <= MaxDefensive
  BY <1>12 DEF Shortlisted
<1>14. ASSUME Cardinality(W) <= MaxDefensive PROVE ToSet(d) = W
  <2>1. ToSet(d) \subseteq W
    BY <1>13, OwnMembers
  <2>2. CASE Len(d) = MaxDefensive
    <3>1. IsFiniteSet(W) /\ Cardinality(ToSet(d)) = Len(d)
      BY <1>11, <1>13, LengthCounts
    <3>2. Cardinality(ToSet(d)) <= Cardinality(W) /\ (Cardinality(ToSet(d)) = Cardinality(W) => ToSet(d) = W)
      BY <2>1, <3>1, FS_Subset
    <3>3. Cardinality(W) \in Nat /\ Len(d) \in Nat
      BY <1>13, <3>1, FS_CardinalityType
    <3> QED BY <1>14, <2>2, <3>1, <3>2, <3>3
  <2>3. CASE Len(d) # MaxDefensive
    <3>1. \A i \in 1..Len(seq) : seq[i] \in ToSet(d)
      BY <1>12, <2>3 DEF Shortlisted
    <3>2. W \subseteq ToSet(d)
      BY <1>11, <3>1 DEF ToSet
    <3> QED BY <2>1, <3>2
  <2> QED BY <2>2, <2>3
<1>15. IsShortlist(d, W)
  BY <1>13, <1>14 DEF IsShortlist
<1> QED BY <1>1, <1>15 DEF W

\* The cuts beside a defensive cell that are separators of it pair with it.
LEMMA SeparatorsFacts ==
  ASSUME NEW component, NEW base, NEW owned \in SUBSET Pos, NEW cuts, NEW defensive \in Seq(owned)
  PROVE  Separators(component, base, owned, cuts, defensive) \in Seq(Pairs(ToSet(defensive), owned))
<1> DEFINE D == ToSet(defensive)
           X == Pairs(D, owned)
           F(i) == owned \cap ArticulationCells(component, base, {defensive[i]})
           L(i) == IF defensive[i] \in cuts THEN <<>> ELSE Pairings(<<defensive[i]>>, InOrder(F(i)))
           seqs == [i \in DOMAIN defensive |-> L(i)]
<1>1. Separators(component, base, owned, cuts, defensive) = FlattenSeq(seqs)
  BY DEF Separators
<1>2. ASSUME NEW i \in DOMAIN defensive PROVE L(i) \in Seq(X)
  <2> DEFINE T == F(i)
             c == defensive[i]
             w == Pairings(<<c>>, InOrder(T))
             e == <<>>
  <2>1. T \in SUBSET owned /\ T \in SUBSET Pos /\ c \in D
    BY <1>2 DEF ToSet
  <2>2. L(i) = IF c \in cuts THEN e ELSE w
    OBVIOUS
  <2>3. e \in Seq(X)
    BY EmptyFacts DEF NothingIn
  <2> HIDE DEF T, c, L, e
  <2>4. InOrder(T) \in Seq(T) /\ ToSet(InOrder(T)) = T
    BY <2>1, InOrderLists DEF Roll
  <2> HIDE DEF w
  <2>5. w \in Seq(Pairs({c}, T))
    BY <2>4, PairingsOfOne DEF w
  <2>6. Pairs({c}, T) \subseteq X
    BY <2>1 DEF Pairs
  <2> HIDE DEF X
  <2>7. w \in Seq(X)
    BY <2>5, <2>6, SeqMonotonic
  <2> QED BY <2>2, <2>3, <2>7
<1>3. DOMAIN defensive = 1..Len(defensive) /\ Len(defensive) \in Nat
  OBVIOUS
<1> HIDE DEF L, X
<1>4. seqs \in Seq(Seq(X))
  BY <1>2, <1>3
<1> HIDE DEF seqs
<1>5. IsJoin(FlattenSeq(seqs), seqs, X, Len(seqs))
  BY <1>4, Flattened
<1> QED BY <1>1, <1>5 DEF IsJoin, X

\* A sample, listed.
IsSampleList(l, W, owned) ==
  /\ l \in Seq(Pairs(W, owned)) /\ IsInjective(l) /\ Len(l) <= MaxStrategicPairs
  /\ (Cardinality(W) <= MaxDefensive /\ Cardinality(W) >= 2)
       => \A c \in W : \E pair \in ToSet(l) : c \in {pair[1], pair[2]}

\* What is listed around a base.
LEMMA SampleAroundFacts ==
  ASSUME NEW component, NEW base \in Pos, NEW owned \in SUBSET Pos, NEW cuts, NEW threatened \in SUBSET owned
  PROVE  IsSampleList(SampleAround(component, base, owned, cuts, threatened),
                      Classes(base, owned, threatened, cuts), owned)
<1> DEFINE W == Classes(base, owned, threatened, cuts)
           d == Defensive(base, owned, threatened, cuts)
           D == ToSet(d)
           safe == (owned \ cuts) \ threatened
           some == Separators(component, base, owned, cuts, d)
           separators == Unique(some)
           places == [i \in 1..FillerLimit |-> i]
           fillers == Filling(safe \ D, base, places)
           l == Sampled(separators, d, fillers)
<1>1. SampleAround(component, base, owned, cuts, threatened) = l
  BY DEF SampleAround, SampleWith, RobustFillers, Filling
<1>2. IsShortlist(d, W)
  BY DefensiveFacts
<1>3. W \subseteq owned
  BY DEF Classes
<1>4. safe \ D \in SUBSET Pos /\ safe \ D \subseteq owned \ D /\ DOMAIN places = 1..FillerLimit /\ FillerLimit \in Nat
  BY SampleAssumption
<1> HIDE DEF W, d, safe, places
<1>5. d \in Seq(W) /\ d \in Seq(owned) /\ IsInjective(d) /\ Len(d) <= MaxDefensive
  BY <1>2, <1>3, SeqMonotonic DEF IsShortlist
<1>6. D \subseteq W
  BY <1>5, OwnMembers
<1>7. fillers \in Seq(owned \ D)
  <2> HIDE DEF D
  <2>1. fillers \in Seq(safe \ D)
    BY <1>4, FillerFacts
  <2> HIDE DEF fillers
  <2> QED BY <1>4, <2>1, SeqMonotonic
<1>8. some \in Seq(Pairs(D, owned))
  BY <1>5, SeparatorsFacts
<1> HIDE DEF some
<1>9. separators \in Seq(Pairs(D, owned))
  BY <1>8, UniqueFacts DEF Distinct
<1> HIDE DEF separators, fillers
<1>10. IsSampled(l, Pairs(D, owned), d)
  BY <1>5, <1>7, <1>9, SampledFacts
<1> HIDE DEF l
<1>11. Pairs(D, owned) \subseteq Pairs(W, owned)
  BY <1>6 DEF Pairs
<1>12. l \in Seq(Pairs(W, owned)) /\ IsInjective(l) /\ Len(l) <= MaxStrategicPairs
  <2> DEFINE P == Pairs(D, owned)
             Q == Pairs(W, owned)
  <2>1. l \in Seq(P) /\ IsInjective(l) /\ Len(l) <= MaxStrategicPairs
    BY <1>10 DEF IsSampled
  <2>2. P \subseteq Q
    BY <1>11
  <2> HIDE DEF P, Q
  <2>3. l \in Seq(Q)
    BY <2>1, <2>2, SeqMonotonic
  <2> QED BY <2>1, <2>3 DEF Q
<1>13. ASSUME Cardinality(W) <= MaxDefensive, Cardinality(W) >= 2, NEW c \in W
       PROVE  \E pair \in ToSet(l) : c \in {pair[1], pair[2]}
  <2>1. D = W
    BY <1>2, <1>13 DEF IsShortlist
  <2>2. Cardinality(D) = Len(d)
    BY <1>5, LengthCounts
  <2>3. PICK i \in DOMAIN d : c = d[i]
    BY <1>13, <2>1 DEF ToSet
  <2>4. Len(d) >= 2
    BY <1>13, <2>1, <2>2
  <2> QED BY <1>10, <2>3, <2>4 DEF IsSampled
<1> QED BY <1>1, <1>12, <1>13 DEF IsSampleList, W

\* The cells a state's mover may place neutrals on.
Mine(s) == OwnedNormals(s.cells, s.current)

\* The cells it can move to.
Targets(s) == MoveTargets(s.cells, s.current)

\* What a state's sample is.
LEMMA StrategicFacts ==
  ASSUME NEW s, Typed(s), CanPlaceNeutrals(s)
  PROVE  IsSampleList(StrategicNeutralPairs(s), Worth(s), Mine(s))
<1> DEFINE owned == Mine(s)
           base == Base[s.current]
           component == Listed(Connected(s.cells, s.current))
           cuts == ArticulationCells(component, base, {})
           threatened == Threatened(s)
<1>1. owned \in SUBSET Pos /\ base \in Pos /\ threatened \in SUBSET owned /\ s.current \in Seat
  BY BasesApart DEF Mine, OwnedNormals, Threatened, Typed
<1>2. Listed(Threatened(s)) = threatened
  BY DEF Listed
<1>3. StrategicNeutralPairs(s) = SampleAround(component, base, owned, cuts, threatened)
  BY <1>2 DEF StrategicNeutralPairs, SampleOf, Mine
<1>4. Worth(s) = Classes(base, owned, threatened, cuts)
  <2>1. Worth(s) = owned \cap (Near[base] \cup threatened \cup cuts)
    BY DEF Worth, Mine
  <2> HIDE DEF cuts, threatened, owned, base
  <2> QED BY <1>1, <2>1 DEF Classes
<1> HIDE DEF owned, base, component, cuts, threatened
<1>5. IsSampleList(SampleAround(component, base, owned, cuts, threatened), Classes(base, owned, threatened, cuts), owned)
  BY <1>1, SampleAroundFacts
<1> QED BY <1>3, <1>4, <1>5 DEF owned

\* The pairs an action list places, none twice and each of two cells of O.
IsPairList(l, O) == l \in Seq(Pairs(O, O)) /\ IsInjective(l)

\* Each of them is two cells.
LEMMA PairOfTwo ==
  ASSUME NEW A, NEW O, NEW pair \in Pairs(A, O), A \subseteq O
  PROVE  /\ pair = <<pair[1], pair[2]>> /\ pair[1] # pair[2]
         /\ pair[1] \in O /\ pair[2] \in O /\ (pair[1] \in A \/ pair[2] \in A)
<1>1. PICK c \in A, d \in O : c # d /\ pair = Pairing(c, d)
  BY DEF Pairs
<1>2. Pairing(c, d) = <<c, d>> \/ Pairing(c, d) = <<d, c>>
  BY PairingIsOf
<1> QED BY <1>1, <1>2

\* The actions that moves and placements make, in a list.
ActionsOf(targets, pairs) ==
  {Move(c) : c \in ToSet(targets)} \cup {PlaceNeutrals(p[1], p[2]) : p \in ToSet(pairs)}

\* l is one of them, no action twice.
IsActionList(l, targets, pairs) == IsInjective(l) /\ ToSet(l) = ActionsOf(targets, pairs)

\* Moves before placements: no action twice.
LEMMA ActionListed ==
  ASSUME NEW O, NEW T, NEW targets \in Seq(T), IsInjective(targets), NEW pairs, IsPairList(pairs, O)
  PROVE  IsActionList(Moves(targets) \o Placements(pairs), targets, pairs)
<1> DEFINE X == {Move(c) : c \in T} \cup {PlaceNeutrals(c, d) : c, d \in O}
           m == Moves(targets)
           p == Placements(pairs)
<1>1. /\ DOMAIN targets = 1..Len(targets) /\ Len(targets) \in Nat
      /\ DOMAIN pairs = 1..Len(pairs) /\ Len(pairs) \in Nat
      /\ \A i \in DOMAIN targets : targets[i] \in T
      /\ \A i \in DOMAIN pairs : pairs[i] \in Pairs(O, O)
  BY DEF IsPairList
<1>2. \A i \in DOMAIN pairs : /\ pairs[i] = <<pairs[i][1], pairs[i][2]>>
                              /\ pairs[i][1] \in O /\ pairs[i][2] \in O
  BY <1>1, PairOfTwo
<1>3. /\ m \in Seq(X) /\ Len(m) = Len(targets) /\ DOMAIN m = DOMAIN targets
      /\ \A i \in DOMAIN m : m[i] = Move(targets[i])
  <2>1. m = [i \in 1..Len(targets) |-> Move(targets[i])]
    BY <1>1 DEF Moves
  <2>2. \A i \in 1..Len(targets) : Move(targets[i]) \in X
    BY <1>1
  <2> HIDE DEF X, m
  <2> QED BY <1>1, <2>1, <2>2
<1>4. /\ p \in Seq(X) /\ Len(p) = Len(pairs) /\ DOMAIN p = DOMAIN pairs
      /\ \A i \in DOMAIN p : p[i] = PlaceNeutrals(pairs[i][1], pairs[i][2])
  <2>1. p = [i \in 1..Len(pairs) |-> PlaceNeutrals(pairs[i][1], pairs[i][2])]
    BY <1>1 DEF Placements
  <2>2. \A i \in 1..Len(pairs) : PlaceNeutrals(pairs[i][1], pairs[i][2]) \in X
    BY <1>1, <1>2
  <2> HIDE DEF X, p
  <2> QED BY <1>1, <2>1, <2>2
<1> HIDE DEF X, m, p
<1>5. IsInjective(m)
  <2>1. \A i, j \in DOMAIN m : m[i] = m[j] => targets[i] = targets[j]
    BY <1>3 DEF Move
  <2> QED BY <1>3, <2>1 DEF IsInjective
<1>6. IsInjective(p)
  <2>1. ASSUME NEW i \in DOMAIN p, NEW j \in DOMAIN p, p[i] = p[j] PROVE pairs[i] = pairs[j]
    <3>1. <<pairs[i][1], pairs[i][2]>> = <<pairs[j][1], pairs[j][2]>>
      BY <1>4, <2>1 DEF PlaceNeutrals
    <3> QED BY <1>2, <1>4, <2>1, <3>1
  <2> QED BY <1>4, <2>1 DEF IsInjective, IsPairList
<1>7. ToSet(m) = {Move(c) : c \in ToSet(targets)}
  BY <1>3 DEF ToSet
<1>8. ToSet(p) = {PlaceNeutrals(q[1], q[2]) : q \in ToSet(pairs)}
  BY <1>4 DEF ToSet
<1>9. ToSet(m) \cap ToSet(p) = {}
  BY <1>7, <1>8 DEF Move, PlaceNeutrals
<1>10. Both(m \o p, m, p, X)
  BY <1>3, <1>4, ConcatFacts
<1> QED BY <1>5, <1>6, <1>7, <1>8, <1>9, <1>10 DEF Both, IsActionList, ActionsOf, m, p

\* All pairs of a state's own cells, and every move, are what is legal.
LEMMA ExactIsLegal ==
  ASSUME NEW s, Typed(s), CanAct(s), NEW targets, ToSet(targets) = Targets(s),
         NEW pairs, ToSet(pairs) = IF CanPlaceNeutrals(s) THEN Pairs(Mine(s), Mine(s)) ELSE {}
  PROVE  ActionsOf(targets, pairs) = LegalActions(s)
<1> DEFINE owned == Mine(s)
           ordered == {q \in owned \X owned : Index(q[1]) < Index(q[2])}
<1>1. LegalActions(s) = {Move(c) : c \in Targets(s)} \cup
          IF CanPlaceNeutrals(s) THEN {PlaceNeutrals(pair[1], pair[2]) : pair \in ordered} ELSE {}
  BY DEF LegalActions, Targets, Mine
<1>2. owned \subseteq Pos
  BY DEF Mine, OwnedNormals
<1>3. Pairs(owned, owned) = ordered
  <2>1. ASSUME NEW p \in Pairs(owned, owned) PROVE p \in ordered
    <3>1. PICK c \in owned, d \in owned : c # d /\ p = Pairing(c, d)
      BY <2>1 DEF Pairs
    <3>2. Index(c) < Index(d) \/ Index(d) < Index(c)
      BY <1>2, <3>1, IndexIsInjective
    <3>3. Index(c) < Index(d) => p = <<c, d>>
      BY <3>1 DEF Pairing
    <3>4. ~(Index(c) < Index(d)) => p = <<d, c>>
      BY <3>1 DEF Pairing
    <3> QED BY <3>2, <3>3, <3>4
  <2>2. ASSUME NEW p \in ordered PROVE p \in Pairs(owned, owned)
    <3>1. PICK c \in owned, d \in owned : p = <<c, d>> /\ Index(c) < Index(d)
      BY <2>2
    <3>2. c # d
      BY <1>2, <3>1, BoardAssumption DEF Index, Pos
    <3>3. Pairing(c, d) = p
      BY <3>1 DEF Pairing
    <3> QED BY <3>1, <3>2, <3>3 DEF Pairs
  <2> QED BY <2>1, <2>2
<1> HIDE DEF owned, ordered
<1>4. ToSet(pairs) = IF CanPlaceNeutrals(s) THEN ordered ELSE {}
  BY <1>3 DEF owned
<1> QED BY <1>1, <1>4 DEF ActionsOf

\* Each action of a list of moves and pairs of own cells is legal.
LEMMA ListedAreLegal ==
  ASSUME NEW s, Typed(s), CanAct(s), NEW targets, ToSet(targets) = Targets(s),
         NEW pairs, IsPairList(pairs, Mine(s)), ~CanPlaceNeutrals(s) => ToSet(pairs) = {},
         NEW a \in ActionsOf(targets, pairs)
  PROVE  LegalAction(s, a)
<1>1. s.cells \in [Pos -> Cell] /\ s.current \in Seat /\ Targets(s) \subseteq Pos
  BY NearIsMutual DEF Typed, Targets, MoveTargets, Connected, Own
<1>2. CASE \E c \in ToSet(targets) : a = Move(c)
  <2>1. PICK c \in Targets(s) : a = Move(c)
    BY <1>2
  <2>2. LegalMove(s.cells, s.current, c)
    BY <1>1, MovesAgree DEF Targets
  <2> QED BY <2>1, <2>2 DEF LegalAction, Move
<1>3. CASE \E p \in ToSet(pairs) : a = PlaceNeutrals(p[1], p[2])
  <2>1. PICK p \in ToSet(pairs) : a = PlaceNeutrals(p[1], p[2])
    BY <1>3
  <2>2. p \in Pairs(Mine(s), Mine(s))
    BY OwnMembers DEF IsPairList
  <2>3. p[1] # p[2] /\ p[1] \in Mine(s) /\ p[2] \in Mine(s)
    BY <2>2, PairOfTwo
  <2>4. CanPlaceNeutrals(s)
    BY <2>1
  <2>5. a.kind = "PlaceNeutrals" /\ a.cells[1] = p[1] /\ a.cells[2] = p[2]
    BY <2>1 DEF PlaceNeutrals
  <2> QED BY <2>3, <2>4, <2>5 DEF LegalAction, Mine
<1> QED BY <1>2, <1>3 DEF ActionsOf

\* A sample's list makes a sample.
LEMMA SampleIsFair ==
  ASSUME NEW s, NEW targets, NEW pairs, IsSampleList(pairs, Worth(s), Mine(s)), NEW l,
         ToSet(l) = ActionsOf(targets, pairs)
  PROVE  IsSample(s, PlacedPairs(l))
<1> DEFINE W == Worth(s)
           owned == Mine(s)
           P == ToSet(pairs)
           of(p) == {p[1], p[2]}
           placed == {of(p) : p \in P}
<1>1. Listed(W) = W /\ W \subseteq owned
  BY DEF Listed, Worth, Mine
<1>2. P \subseteq Pairs(W, owned)
  BY OwnMembers DEF IsSampleList
<1>3. PlacedPairs(l) = placed
  <2>1. {b \in ToSet(l) : b.kind = "PlaceNeutrals"} = {PlaceNeutrals(p[1], p[2]) : p \in P}
    BY DEF ActionsOf, Move, PlaceNeutrals
  <2>2. ASSUME NEW p PROVE ToSet(PlaceNeutrals(p[1], p[2]).cells) = of(p)
    <3>1. PlaceNeutrals(p[1], p[2]).cells = <<p[1], p[2]>>
      BY DEF PlaceNeutrals
    <3>2. ToSet(<<p[1], p[2]>>) = of(p)
      BY DEF ToSet
    <3> QED BY <3>1, <3>2
  <2> HIDE DEF P, of
  <2> QED BY <2>1, <2>2 DEF PlacedPairs
<1>4. \A pair \in placed : pair \cap W # {}
  <2>1. ASSUME NEW p \in P PROVE of(p) \cap W # {}
    <3>1. p[1] \in W \/ p[2] \in W
      BY <1>1, <1>2, PairOfTwo
    <3> QED BY <3>1
  <2> HIDE DEF of, P
  <2> QED BY <2>1
<1>5. Cardinality(placed) <= MaxStrategicPairs
  <2>1. IsFiniteSet(P) /\ Cardinality(P) <= Len(pairs) /\ Len(pairs) \in Nat /\ Len(pairs) <= MaxStrategicPairs
    BY LengthCounts DEF IsSampleList
  <2> DEFINE f == [p \in P |-> of(p)]
  <2> HIDE DEF P, of
  <2>2. f \in Surjection(P, placed)
    BY DEF Surjection
  <2> HIDE DEF f, placed
  <2>3. IsFiniteSet(placed) /\ Cardinality(placed) <= Cardinality(P)
    BY <2>1, <2>2, FS_Surjection
  <2>4. Cardinality(placed) \in Nat /\ Cardinality(P) \in Nat
    BY <2>1, <2>3, FS_CardinalityType
  <2> QED BY <2>1, <2>3, <2>4, SampleAssumption
<1>6. ASSUME Cardinality(W) \in 2..MaxDefensive PROVE W \subseteq UNION placed
  <2>1. Cardinality(W) <= MaxDefensive /\ Cardinality(W) >= 2
    BY <1>6, SampleAssumption
  <2>2. ASSUME NEW c \in W PROVE \E p \in P : c \in of(p)
    BY <2>1, <2>2 DEF IsSampleList
  <2> HIDE DEF P, of, W
  <2> QED BY <2>2
<1> HIDE DEF W, placed
<1> QED BY <1>1, <1>3, <1>4, <1>5, <1>6 DEF IsSample, W

\* The pairs the search tries.
Tried(s) ==
  IF ~CanPlaceNeutrals(s) THEN <<>>
  ELSE IF ~UsesStrategicPairs(Len(FrontierInOrder(s)), Len(OwnedInOrder(s))) THEN PairsWithin(OwnedInOrder(s))
  ELSE StrategicNeutralPairs(s)

\* All of them.
Every(s) == IF ~CanPlaceNeutrals(s) THEN <<>> ELSE PairsWithin(OwnedInOrder(s))

\* A position that was analysed offers what one that was not works out.
LEMMA CachingIsInvisible ==
  ASSUME NEW s, CanAct(s), NEW position \in {PositionOf(s), Unanalyzed(s)}
  PROVE  /\ SearchActions(position) = Moves(FrontierInOrder(s)) \o Placements(Tried(s))
         /\ ExactActions(position) = Moves(FrontierInOrder(s)) \o Placements(Every(s))
<1> DEFINE T == FrontierInOrder(s)
           O == OwnedInOrder(s)
           S == StrategicNeutralPairs(s)
           uses == UsesStrategicPairs(Len(T), Len(O))
           e == <<>>
<1>1. Placements(<<>>) = <<>>
  BY DEF Placements
<1>2. /\ position.state = s
      /\ position.moves \in {T, Absent} /\ position.owned \in {O, Absent}
      /\ CanPlaceNeutrals(s) /\ uses => position.pairs \in {S, Absent}
  <2>1. CASE position = Unanalyzed(s)
    BY <2>1 DEF Unanalyzed
  <2>2. CASE position = PositionOf(s)
    <3> DEFINE q == [Unanalyzed(s) EXCEPT !.moves = T, !.analyzed = TRUE]
    <3>1. position = IF CanPlaceNeutrals(s) THEN WithPlacements(q, O) ELSE q
      BY <2>2 DEF PositionOf
    <3> HIDE DEF T, O, S
    <3>2. q.state = s /\ q.moves = T /\ q.owned = Absent /\ q.pairs = Absent
      BY DEF Unanalyzed
    <3> DEFINE w == WithPlacements(q, O)
               kept == IF UsesStrategicPairs(Len(q.moves), Len(O)) THEN StrategicNeutralPairs(q.state) ELSE Absent
    <3>3. DOMAIN q = {"state", "moves", "owned", "pairs", "analyzed"}
      BY DEF Unanalyzed
    <3>4. w = [q EXCEPT !.owned = O, !.pairs = kept]
      BY DEF WithPlacements
    <3> HIDE DEF q, w, kept
    <3>5. w.state = s /\ w.moves = T /\ w.owned = O /\ w.pairs = kept
      BY <3>2, <3>3, <3>4
    <3>6. kept = IF uses THEN S ELSE Absent
      BY <3>2 DEF kept, S
    <3> QED BY <3>1, <3>2, <3>5, <3>6 DEF w
  <2> QED BY <2>1, <2>2
<1>3. MoveList(position) = T /\ OwnedList(position) = O
  BY <1>2 DEF MoveList, OwnedList
<1>4. CanPlaceNeutrals(s) => SearchPairs(position, T, O) = IF uses THEN S ELSE PairsWithin(O)
  BY <1>2 DEF SearchPairs
<1>5. SearchActions(position) = Moves(T) \o IF CanPlaceNeutrals(s) THEN Placements(SearchPairs(position, T, O)) ELSE e
  BY <1>2, <1>3 DEF SearchActions
<1>6. ExactActions(position) = Moves(T) \o IF CanPlaceNeutrals(s) THEN Placements(PairsWithin(O)) ELSE e
  BY <1>2, <1>3 DEF ExactActions
<1>7. Placements(Tried(s)) = IF CanPlaceNeutrals(s) THEN Placements(SearchPairs(position, T, O)) ELSE e
  BY <1>1, <1>4 DEF Tried
<1>8. Placements(Every(s)) = IF CanPlaceNeutrals(s) THEN Placements(PairsWithin(O)) ELSE e
  BY <1>1 DEF Every
<1> HIDE DEF T, O, e
<1> QED BY <1>5, <1>6, <1>7, <1>8 DEF T

\* The search tries every move and no action twice, only legal ones, all of them where they
\* are few and otherwise a sample of the placements that starves no cell worth defending.
THEOREM SamplesAreFair == Spec => []SearchTriesAFairSample
<1>1. ASSUME IInv PROVE SearchTriesAFairSample
  <2> DEFINE found == SearchActions(PositionOf(state))
             exact == ExactActions(PositionOf(state))
             T == FrontierInOrder(state)
             O == OwnedInOrder(state)
             owned == Mine(state)
             e == <<>>
  <2>1. Typed(state)
    BY <1>1 DEF IInv, Sound
  <2>2. CASE ~CanAct(state)
    <3>1. PositionOf(state).state = state /\ Unanalyzed(state).state = state
      BY <2>2 DEF PositionOf, Unanalyzed
    <3>2. found = e /\ exact = e /\ SearchActions(Unanalyzed(state)) = e
      BY <2>2, <3>1 DEF SearchActions, ExactActions
    <3>3. ToSet(e) = {} /\ IsInjective(e)
      BY EmptyFacts DEF NothingIn
    <3>4. LegalActions(state) = {}
      BY <2>2 DEF LegalActions
    <3> HIDE DEF found, exact, e
    <3> QED BY <3>2, <3>3, <3>4 DEF SearchTriesAFairSample, found, exact
  <2>3. CASE CanAct(state)
    <3> DEFINE tried == Tried(state)
               every == Every(state)
    <3>1. /\ found = Moves(T) \o Placements(tried)
          /\ exact = Moves(T) \o Placements(every)
          /\ SearchActions(Unanalyzed(state)) = found
      BY <2>3, CachingIsInvisible
    <3>2. Roll(T, Targets(state)) /\ Roll(O, owned)
      <4>1. Targets(state) \in SUBSET Pos /\ owned \in SUBSET Pos
        BY NearIsMutual DEF Targets, MoveTargets, Connected, Own, Mine, OwnedNormals
      <4> QED BY <4>1, InOrderLists DEF FrontierInOrder, OwnedInOrder, Targets, Mine
    <3> HIDE DEF found, exact, T, O
    <3>3. owned \in SUBSET Pos
      BY DEF Mine, OwnedNormals
    <3> HIDE DEF owned
    <3>4. Roll(PairsWithin(O), Pairs(owned, owned))
      BY <3>2, <3>3, PairsWithinLists DEF Roll
    <3>5. IsPairList(e, owned) /\ ToSet(e) = {}
      BY EmptyFacts DEF NothingIn, IsPairList
    <3>6. /\ IsPairList(every, owned)
          /\ ToSet(every) = IF CanPlaceNeutrals(state) THEN Pairs(owned, owned) ELSE {}
      <4>1. every = IF CanPlaceNeutrals(state) THEN PairsWithin(O) ELSE e
        BY DEF Every, O
      <4> HIDE DEF every, e
      <4> QED BY <3>4, <3>5, <4>1 DEF Roll, IsPairList
    <3>7. tried = every \/ (CanPlaceNeutrals(state) /\ IsSampleList(tried, Worth(state), owned))
      <4>1. CASE CanPlaceNeutrals(state)
        <5>1. IsSampleList(StrategicNeutralPairs(state), Worth(state), owned)
          BY <2>1, <4>1, StrategicFacts DEF owned
        <5>2. tried \in {every, StrategicNeutralPairs(state)}
          BY <4>1 DEF Tried, Every
        <5> HIDE DEF tried, every
        <5> QED BY <4>1, <5>1, <5>2
      <4>2. CASE ~CanPlaceNeutrals(state)
        BY <4>2 DEF Tried, Every
      <4> QED BY <4>1, <4>2
    <3>8. IsPairList(tried, owned) /\ (~CanPlaceNeutrals(state) => ToSet(tried) = {})
      <4>1. ASSUME IsSampleList(tried, Worth(state), owned) PROVE IsPairList(tried, owned)
        <5>1. Pairs(Worth(state), owned) \subseteq Pairs(owned, owned)
          BY DEF Worth, Pairs, owned, Mine
        <5> HIDE DEF tried
        <5> DEFINE P == Pairs(Worth(state), owned)
                   Q == Pairs(owned, owned)
        <5>2. tried \in Seq(P) /\ IsInjective(tried)
          BY <4>1 DEF IsSampleList
        <5> HIDE DEF P, Q
        <5>3. tried \in Seq(Q)
          BY <5>1, <5>2, SeqMonotonic DEF P, Q
        <5> QED BY <5>2, <5>3 DEF IsPairList, Q
      <4> HIDE DEF tried, every
      <4> QED BY <3>6, <3>7, <4>1
    <3> HIDE DEF tried, every, e
    <3>9. T \in Seq(Targets(state)) /\ IsInjective(T) /\ ToSet(T) = Targets(state)
      BY <3>2 DEF Roll
    <3>10. IsActionList(found, T, tried)
      BY <3>1, <3>8, <3>9, ActionListed
    <3>11. IsActionList(exact, T, every)
      BY <3>1, <3>6, <3>9, ActionListed
    <3>12. IsInjective(found) /\ ToSet(found) = ActionsOf(T, tried) /\ ToSet(exact) = ActionsOf(T, every)
      BY <3>10, <3>11 DEF IsActionList
    <3>13. ToSet(exact) = LegalActions(state)
      BY <2>1, <2>3, <3>6, <3>9, <3>12, ExactIsLegal DEF owned
    <3>14. \A a \in ToSet(found) : LegalAction(state, a)
      BY <2>1, <2>3, <3>8, <3>9, <3>12, ListedAreLegal DEF owned
    <3>15. {a \in ToSet(exact) : a.kind = "Move"} \subseteq ToSet(found)
      BY <3>12 DEF ActionsOf, Move, PlaceNeutrals
    <3>16. found = exact \/ IsSample(state, PlacedPairs(found))
      <4>1. CASE tried = every
        BY <3>1, <4>1
      <4>2. CASE IsSampleList(tried, Worth(state), owned)
        BY <3>12, <4>2, SampleIsFair DEF owned
      <4> QED BY <3>7, <4>1, <4>2
    <3> QED BY <3>1, <3>12, <3>13, <3>14, <3>15, <3>16 DEF SearchTriesAFairSample, found, exact
  <2> QED BY <2>2, <2>3
<1> QED BY <1>1, Invariance, PTL

(***************************************************************************)
(* The replay of a recording                                               *)
(***************************************************************************)
\* A position as a recording can make one: its fields, a board of cells, seats that spent.
Boarded(s) == Shaped(s) /\ s.cells \in [Pos -> Cell] /\ s.neutralUsed \subseteq Seat /\ s.over \in BOOLEAN

\* Working a board out changes nothing.
LEMMA ExplicitIsSame ==
  ASSUME NEW s, Shaped(s)
  PROVE  Explicit(s) = s
<1> DEFINE board == s.cells
           same == CHOOSE cells \in {board} : cells = board
<1>1. same = board
  OBVIOUS
<1>2. Explicit(s) = [s EXCEPT !.cells = same]
  BY DEF Explicit
<1> HIDE DEF same
<1> QED BY <1>1, <1>2 DEF Shaped

\* Settling a position leaves its board and who has spent.
LEMMA SettledBoard ==
  ASSUME NEW s, Boarded(s)
  PROVE  Boarded(Settle(s))
<1> DEFINE stuck == {p \in s.active : ~HasMove(s.cells, p)}
           n == Deactivate(s, stuck)
           t == Settle(s)
<1>1. n = EliminateStuckPlayers(s)
  BY DEF EliminateStuckPlayers
<1>2. t = IF Cardinality(n.active) <= 1 THEN Finish(n, Sole(n.active))
          ELSE IF n.current \notin n.active \/ n.movesLeft = 0 THEN Advance(n, n.current)
          ELSE n
  BY <1>1 DEF Settle
<1>3. Shaped(n) /\ n.cells = s.cells /\ n.neutralUsed = s.neutralUsed /\ n.over = s.over
  BY SeatsDeactivated DEF Boarded
<1> HIDE DEF n, t
<1>4. CASE Cardinality(n.active) <= 1
  <2>1. t = Finish(n, Sole(n.active))
    BY <1>2, <1>4
  <2>2. Shaped(t) /\ t.cells = n.cells /\ t.neutralUsed = n.neutralUsed /\ t.over \in BOOLEAN
    BY <1>3, <2>1, GameFinished
  <2> QED BY <1>3, <2>2 DEF Boarded, t
<1>5. CASE ~(Cardinality(n.active) <= 1) /\ (n.current \notin n.active \/ n.movesLeft = 0)
  <2>1. t = Advance(n, n.current)
    BY <1>2, <1>5
  <2>2. Shaped(t) /\ t.cells = n.cells /\ t.neutralUsed = n.neutralUsed /\ t.over = n.over
    BY <1>3, <2>1, TurnAdvanced
  <2> QED BY <1>3, <2>2 DEF Boarded, t
<1>6. CASE ~(Cardinality(n.active) <= 1) /\ ~(n.current \notin n.active \/ n.movesLeft = 0)
  BY <1>2, <1>3, <1>6 DEF Boarded, t
<1> QED BY <1>4, <1>5, <1>6

\* A legal action makes a board of a board.
LEMMA BoardedAction ==
  ASSUME NEW s, Boarded(s), s.current \in Seat, NEW m,
         RecordedAction(m) # Rejected, LegalAction(s, RecordedAction(m))
  PROVE  Boarded(Explicit(Apply(s, RecordedAction(m))))
<1> DEFINE a == RecordedAction(m)
           u == Play(s, a)
<1>1. a = Move(m.cells[1]) \/ a = PlaceNeutrals(m.cells[1], m.cells[2])
  BY DEF RecordedAction
<1> HIDE DEF a
<1>2. \/ \E c \in Pos : a = Move(c) /\ CapturableBy(s.cells[c], s.current)
      \/ \E c, d \in Pos : a = PlaceNeutrals(c, d)
  <2>1. LegalAction(s, a)
    BY DEF a
  <2>2. ASSUME NEW c, a = Move(c) PROVE c \in Pos /\ CapturableBy(s.cells[c], s.current)
    <3>1. a.kind = "Move" /\ a.target = c
      BY <2>2 DEF Move
    <3> QED BY <2>1, <3>1 DEF LegalAction, LegalMove
  <2>3. ASSUME NEW c, NEW d, a = PlaceNeutrals(c, d) PROVE c \in Pos /\ d \in Pos
    <3>1. a.kind = "PlaceNeutrals" /\ a.cells[1] = c /\ a.cells[2] = d
      BY <2>3 DEF PlaceNeutrals
    <3> QED BY <2>1, <3>1 DEF LegalAction, OwnedNormals
  <2> QED BY <1>1, <2>2, <2>3
<1>3. Shaped(s) /\ s.cells \in [Pos -> Cell] /\ s.neutralUsed \subseteq Seat /\ s.over \in BOOLEAN
  BY DEF Boarded
<1>4. ASSUME NEW c \in Pos, a = Move(c), CapturableBy(s.cells[c], s.current) PROVE Boarded(u)
  <2>1. a = Move(c)
    BY <1>4
  <2>2. a.kind = "Move" /\ a.target = c
    BY <2>1 DEF Move
  <2>3. CapturableBy(s.cells[c], s.current)
    BY <1>4
  <2> DEFINE new == Captured(s.cells[c], s.current)
             v == SetCell(s, c, new)
             n == (s.movesLeft - 1) % 256
             w == SetMovesLeft(v, n)
  <2>4. new \in Cell
    BY <1>3, <2>3, CaptureHardens
  <2>5. u = w
    BY <2>2 DEF Play, MakeMove
  <2> HIDE DEF new, n, u
  <2>6. Shaped(v) /\ v.cells = [s.cells EXCEPT ![c] = new] /\ v.neutralUsed = s.neutralUsed /\ v.over = s.over
    BY <1>3, CellSet
  <2> HIDE DEF v
  <2>7. Shaped(w) /\ w.cells = v.cells /\ w.neutralUsed = v.neutralUsed /\ w.over = v.over
    BY <2>6, MovesLeftSet
  <2> HIDE DEF w
  <2>8. Boarded(u)
    BY <1>3, <2>4, <2>5, <2>6, <2>7 DEF Boarded
  <2> QED BY <2>8
<1>5. ASSUME \E c, d \in Pos : a = PlaceNeutrals(c, d) PROVE Boarded(u)
  <2>1. PICK c \in Pos, d \in Pos : a = PlaceNeutrals(c, d)
    BY <1>5
  <2>2. a.kind = "PlaceNeutrals" /\ a.cells[1] = c /\ a.cells[2] = d
    BY <2>1 DEF PlaceNeutrals
  <2> DEFINE v == SetCell(s, c, Neutral)
             w == SetCell(v, d, Neutral)
             x == SetNeutralUsed(w, s.current)
             y == SetMovesLeft(x, 0)
  <2>3. Neutral \in Cell
    BY DEF Cell
  <2>4. u = y
    BY <2>2 DEF Play, MakeNeutrals
  <2> HIDE DEF u
  <2>5. Shaped(v) /\ v.cells = [s.cells EXCEPT ![c] = Neutral] /\ v.neutralUsed = s.neutralUsed /\ v.over = s.over
    BY <1>3, CellSet
  <2>6. Shaped(v) /\ v.cells \in [Pos -> Cell]
    BY <1>3, <2>3, <2>5
  <2> HIDE DEF v
  <2>7. Shaped(w) /\ w.cells = [v.cells EXCEPT ![d] = Neutral] /\ w.neutralUsed = v.neutralUsed /\ w.over = v.over
    BY <2>6, CellSet
  <2> HIDE DEF w
  <2>8. Shaped(x) /\ x.cells = w.cells /\ x.neutralUsed = w.neutralUsed \cup {s.current} /\ x.over = w.over
    BY <2>7, NeutralUsedSet
  <2> HIDE DEF x
  <2>9. Shaped(y) /\ y.cells = x.cells /\ y.neutralUsed = x.neutralUsed /\ y.over = x.over
    BY <2>8, MovesLeftSet
  <2> HIDE DEF y
  <2>10. w.cells \in [Pos -> Cell]
    BY <2>3, <2>6, <2>7
  <2>11. Boarded(u)
    BY <1>3, <2>4, <2>5, <2>7, <2>8, <2>9, <2>10 DEF Boarded
  <2> QED BY <2>11
<1>6. Boarded(Settle(u))
  <2> HIDE DEF u
  <2> QED BY <1>2, <1>4, <1>5, SettledBoard
<1> DEFINE t == Apply(s, a)
<1>7. Boarded(t)
  BY <1>6 DEF Apply
<1> HIDE DEF t
<1>8. Explicit(t) = t
  BY <1>7, ExplicitIsSame DEF Boarded
<1> QED BY <1>7, <1>8 DEF t, a

\* The fold that replays the moves of a turn.
MovesFrom(first, player, seq) ==
  FoldLeft(LAMBDA s, m : Replayed(s, player, m), first, seq)

\* How the moves of a turn are replayed.
LEMMA MovesGather ==
  ASSUME NEW n \in Nat, NEW seq, DOMAIN seq = 1..n, NEW first, NEW player
  PROVE  \E st : Gathers(st, seq, [kind |-> "move", player |-> player, start |-> first], n) /\ MovesFrom(first, player, seq) = st[n]
<1> DEFINE S == Upto(n)
           how == [kind |-> "move", player |-> player, start |-> first]
           over(h) == [s \in SUBSET S |-> IF s = {} THEN how.start
                                         ELSE LET x == Max(s) IN Replayed(h[s \ {x}], player, seq[x])]
           it == CHOOSE h : h = over(h)
<1>0. how.start = first
  OBVIOUS
<1>1. MovesFrom(first, player, seq) = it[S]
  BY <1>0 DEF MovesFrom, FoldLeft, MapThenFoldSet, Upto
<1>2. ASSUME NEW h PROVE FoldOver(h, seq, how, S) <=> h = over(h)
  <2>1. ASSUME NEW s \in SUBSET S
        PROVE  (IF s = {} THEN how.start ELSE Step(how, h[s \ {Max(s)}], seq[Max(s)])) = over(h)[s]
    BY DEF Step
  <2> QED BY <2>1 DEF FoldOver
<1>3. \E h : FoldOver(h, seq, how, S)
  BY FoldsExist
<1>4. FoldOver(it, seq, how, S)
  <2> HIDE DEF over
  <2>1. \E h : h = over(h)
    BY <1>2, <1>3
  <2>2. it = over(it)
    BY <2>1
  <2> HIDE DEF it
  <2> QED BY <1>2, <2>2
<1> HIDE DEF it, how
<1>5. \E st : Gathers(st, seq, how, n) /\ it[S] = st[n]
  BY <1>4, FoldGathers
<1> QED BY <1>1, <1>5 DEF how

\* How the turns of a game are replayed.
LEMMA TurnsGather ==
  ASSUME NEW n \in Nat, NEW seq, DOMAIN seq = 1..n, NEW first
  PROVE  \E st : Gathers(st, seq, [kind |-> "turn", start |-> first], n) /\ FoldLeft(ReplayedTurn, first, seq) = st[n]
<1> DEFINE S == Upto(n)
           how == [kind |-> "turn", start |-> first]
           over(h) == [s \in SUBSET S |-> IF s = {} THEN how.start
                                         ELSE LET x == Max(s) IN ReplayedTurn(h[s \ {x}], seq[x])]
           it == CHOOSE h : h = over(h)
<1>0. how.start = first
  OBVIOUS
<1>1. FoldLeft(ReplayedTurn, first, seq) = it[S]
  BY <1>0 DEF FoldLeft, MapThenFoldSet, Upto
<1>2. ASSUME NEW h PROVE FoldOver(h, seq, how, S) <=> h = over(h)
  <2>1. ASSUME NEW s \in SUBSET S
        PROVE  (IF s = {} THEN how.start ELSE Step(how, h[s \ {Max(s)}], seq[Max(s)])) = over(h)[s]
    BY DEF Step
  <2> QED BY <2>1 DEF FoldOver
<1>3. \E h : FoldOver(h, seq, how, S)
  BY FoldsExist
<1>4. FoldOver(it, seq, how, S)
  <2> HIDE DEF over
  <2>1. \E h : h = over(h)
    BY <1>2, <1>3
  <2>2. it = over(it)
    BY <2>1
  <2> HIDE DEF it
  <2> QED BY <1>2, <2>2
<1> HIDE DEF it, how
<1>5. \E st : Gathers(st, seq, how, n) /\ it[S] = st[n]
  BY <1>4, FoldGathers
<1> QED BY <1>1, <1>5 DEF how

\* The fold that mines games.
GamesFrom(first, config, seq) ==
  FoldLeft(LAMBDA m, game : MineGame(m, config, game, Replay(game)), first, seq)

\* How games are mined.
LEMMA GamesGather ==
  ASSUME NEW n \in Nat, NEW seq, DOMAIN seq = 1..n, NEW first, NEW config
  PROVE  \E st : Gathers(st, seq, [kind |-> "game", config |-> config, start |-> first], n) /\ GamesFrom(first, config, seq) = st[n]
<1> DEFINE S == Upto(n)
           how == [kind |-> "game", config |-> config, start |-> first]
           over(h) == [s \in SUBSET S |-> IF s = {} THEN how.start
                                         ELSE LET x == Max(s) IN MineGame(h[s \ {x}], config, seq[x], Replay(seq[x]))]
           it == CHOOSE h : h = over(h)
<1>0. how.start = first
  OBVIOUS
<1>1. GamesFrom(first, config, seq) = it[S]
  BY <1>0 DEF GamesFrom, FoldLeft, MapThenFoldSet, Upto
<1>2. ASSUME NEW h PROVE FoldOver(h, seq, how, S) <=> h = over(h)
  <2>1. ASSUME NEW s \in SUBSET S
        PROVE  (IF s = {} THEN how.start ELSE Step(how, h[s \ {Max(s)}], seq[Max(s)])) = over(h)[s]
    BY DEF Step
  <2> QED BY <2>1 DEF FoldOver
<1>3. \E h : FoldOver(h, seq, how, S)
  BY FoldsExist
<1>4. FoldOver(it, seq, how, S)
  <2> HIDE DEF over
  <2>1. \E h : h = over(h)
    BY <1>2, <1>3
  <2>2. it = over(it)
    BY <2>1
  <2> HIDE DEF it
  <2> QED BY <1>2, <2>2
<1> HIDE DEF it, how
<1>5. \E st : Gathers(st, seq, how, n) /\ it[S] = st[n]
  BY <1>4, FoldGathers
<1> QED BY <1>1, <1>5 DEF how

\* The fold that takes candidates of a class.
TakenFrom(first, class, limit, seq) ==
  FoldLeft(LAMBDA t, c : TakeOne(t, c, class, limit), first, seq)

\* How the candidates of a class are taken.
LEMMA TakesGather ==
  ASSUME NEW n \in Nat, NEW seq, DOMAIN seq = 1..n, NEW first, NEW class, NEW limit
  PROVE  \E st : Gathers(st, seq, [kind |-> "take", class |-> class, limit |-> limit, start |-> first], n) /\ TakenFrom(first, class, limit, seq) = st[n]
<1> DEFINE S == Upto(n)
           how == [kind |-> "take", class |-> class, limit |-> limit, start |-> first]
           over(h) == [s \in SUBSET S |-> IF s = {} THEN how.start
                                         ELSE LET x == Max(s) IN TakeOne(h[s \ {x}], seq[x], class, limit)]
           it == CHOOSE h : h = over(h)
<1>0. how.start = first
  OBVIOUS
<1>1. TakenFrom(first, class, limit, seq) = it[S]
  BY <1>0 DEF TakenFrom, FoldLeft, MapThenFoldSet, Upto
<1>2. ASSUME NEW h PROVE FoldOver(h, seq, how, S) <=> h = over(h)
  <2>1. ASSUME NEW s \in SUBSET S
        PROVE  (IF s = {} THEN how.start ELSE Step(how, h[s \ {Max(s)}], seq[Max(s)])) = over(h)[s]
    BY DEF Step
  <2> QED BY <2>1 DEF FoldOver
<1>3. \E h : FoldOver(h, seq, how, S)
  BY FoldsExist
<1>4. FoldOver(it, seq, how, S)
  <2> HIDE DEF over
  <2>1. \E h : h = over(h)
    BY <1>2, <1>3
  <2>2. it = over(it)
    BY <2>1
  <2> HIDE DEF it
  <2> QED BY <1>2, <2>2
<1> HIDE DEF it, how
<1>5. \E st : Gathers(st, seq, how, n) /\ it[S] = st[n]
  BY <1>4, FoldGathers
<1> QED BY <1>1, <1>5 DEF how

\* What the turns of seat 1 or 2 can start from.
Starts == {FromGrid(2, q[1], q[2], ActionsPerTurn, q[3]) : q \in [Pos -> Cell] \X (1..2) \X SUBSET Seat}

\* Such a position is on a board, is its seat's, and its key is right.
LEMMA StartFacts ==
  /\ 1 \in Seat /\ 2 \in Seat
  /\ \A b \in [Pos -> Cell], p \in 1..2, u \in SUBSET Seat : FromGrid(2, b, p, ActionsPerTurn, u) \in Starts
  /\ \A s \in Starts : /\ Boarded(s) /\ HashHolds(s) /\ s.current \in 1..2 /\ s.current \in Seat
                       /\ s.players = 2 /\ s.movesLeft = ActionsPerTurn /\ s.winner = 0 /\ ~s.over
                       /\ s.active = {p \in Seat : BaseIntact(s.cells, p)}
<1>1. 1 \in Seat /\ 2 \in Seat
  BY BoardAssumption DEF Seat
<1>2. ASSUME NEW b \in [Pos -> Cell], NEW p \in 1..2, NEW u \in SUBSET Seat
      PROVE  FromGrid(2, b, p, ActionsPerTurn, u) \in Starts
  <2> DEFINE q == <<b, p, u>>
  <2>1. q \in [Pos -> Cell] \X (1..2) \X SUBSET Seat /\ q[1] = b /\ q[2] = p /\ q[3] = u
    OBVIOUS
  <2> HIDE DEF q
  <2> QED BY <2>1 DEF Starts
<1>3. ASSUME NEW s \in Starts
      PROVE  /\ Boarded(s) /\ HashHolds(s) /\ s.current \in 1..2 /\ s.current \in Seat
             /\ s.players = 2 /\ s.movesLeft = ActionsPerTurn /\ s.winner = 0 /\ ~s.over
             /\ s.active = {p \in Seat : BaseIntact(s.cells, p)}
  <2>1. PICK q \in [Pos -> Cell] \X (1..2) \X SUBSET Seat : s = FromGrid(2, q[1], q[2], ActionsPerTurn, q[3])
    BY DEF Starts
  <2> DEFINE b == q[1]
             p == q[2]
             u == q[3]
             t == FromGrid(2, b, p, ActionsPerTurn, u)
  <2>2. b \in [Pos -> Cell] /\ p \in 1..2 /\ p \in Seat /\ u \subseteq Seat
    BY <1>1
  <2>3. s = t
    BY <2>1
  <2> HIDE DEF b, p, u
  <2>4. /\ Shaped(t) /\ HashHolds(t) /\ t.players = 2 /\ t.cells = b
        /\ t.active = {i \in Seat : BaseIntact(b, i)}
        /\ t.neutralUsed = u /\ t.current = p /\ t.movesLeft = ActionsPerTurn
        /\ t.winner = 0 /\ t.over \in BOOLEAN /\ ~t.over
    BY GridMade
  <2> HIDE DEF t
  <2> QED BY <2>2, <2>3, <2>4 DEF Boarded
<1> QED BY <1>1, <1>2, <1>3

\* The moves of a turn end on a board, or are refused.
LEMMA MovesReplay ==
  ASSUME NEW player \in 1..2, NEW first, Boarded(first),
         NEW moves, IsList(moves)
  PROVE  LET last == MovesFrom(first, player, moves)
         IN last = Rejected \/ Boarded(last)
<1> DEFINE n == Len(moves)
           how == [kind |-> "move", player |-> player, start |-> first]
           last == MovesFrom(first, player, moves)
<1>1. n \in Nat /\ DOMAIN moves = 1..n
  BY DEF IsList
<1> HIDE DEF n
<1>2. PICK st : Gathers(st, moves, how, n) /\ last = st[n]
  BY <1>1, MovesGather
<1>3. how.kind = "move" /\ how.player = player /\ how.start = first
  OBVIOUS
<1> HIDE DEF how, last
<1> DEFINE G == {k \in 0..n : st[k] = Rejected \/ Boarded(st[k])}
<1>4. 0 \in G
  BY <1>1, <1>2, <1>3 DEF Gathers
<1>5. ASSUME NEW k \in 1..n, k - 1 \in G PROVE k \in G
  <2> DEFINE s == st[k - 1]
             m == moves[k]
  <2>1. st[k] = Replayed(s, player, m)
    BY <1>2, <1>3 DEF Gathers, Step
  <2>2. (s = Rejected \/ Boarded(s)) /\ player \in Seat
    BY <1>1, <1>5, StartFacts
  <2> HIDE DEF s, m
  <2>3. CASE s = Rejected \/ RecordedAction(m) = Rejected
    BY <2>1, <2>3 DEF Replayed
  <2>4. CASE ~(s = Rejected \/ RecordedAction(m) = Rejected)
             /\ (s.over \/ s.current # player \/ ~LegalAction(s, RecordedAction(m)))
    BY <2>1, <2>4 DEF Replayed
  <2>5. CASE ~(s = Rejected \/ RecordedAction(m) = Rejected)
             /\ ~(s.over \/ s.current # player \/ ~LegalAction(s, RecordedAction(m)))
    <3> DEFINE t == Explicit(Apply(s, RecordedAction(m)))
    <3>1. st[k] = t
      BY <2>1, <2>5 DEF Replayed
    <3>2. Boarded(t)
      BY <2>2, <2>5, BoardedAction
    <3> HIDE DEF t
    <3> QED BY <3>1, <3>2
  <2> QED BY <2>3, <2>4, <2>5
<1> HIDE DEF G
<1>6. \A k \in 0..n : k \in G
  BY <1>1, <1>4, <1>5, Climb
<1>7. n \in G
  BY <1>1, <1>6
<1> QED BY <1>2, <1>7 DEF G, last

\* What the first k turns of a recording make: the positions their turns start from, or none.
Why == {"no", "multiplayer", "illegal_move"}
AtTurns(positions, turns) ==
  /\ positions \in Seq([turn : Int, state : Starts])
  /\ \A i \in DOMAIN positions : i \in DOMAIN turns /\ positions[i].turn = turns[i].turn
IsReplay(r, turns, k) ==
  /\ r = [board |-> r.board, used |-> r.used, over |-> r.over, positions |-> r.positions, refused |-> r.refused]
  /\ r.refused \in Why /\ r.over \in BOOLEAN
  /\ r.board \in [Pos -> Cell] /\ r.used \subseteq Seat
  /\ AtTurns(r.positions, turns)
  /\ (r.refused = "no" /\ ~r.over) => Len(r.positions) = k

\* One more turn.
LEMMA TurnReplays ==
  ASSUME NEW turns, IsList(turns), \A i \in DOMAIN turns : IsRecordedTurn(turns[i]),
         NEW k \in 1..Len(turns), NEW r, IsReplay(r, turns, k - 1)
  PROVE  IsReplay(ReplayedTurn(r, turns[k]), turns, k)
<1> DEFINE turn == turns[k]
           first == TurnState(r, turn.player)
           last == MovesFrom(first, turn.player, turn.moves)
           t == ReplayedTurn(r, turn)
<1>1. /\ k \in DOMAIN turns /\ IsRecordedTurn(turn) /\ k \in Nat
      /\ turn.turn \in Int /\ IsList(turn.moves)
  BY DEF IsList, IsRecordedTurn
<1>2. t = IF r.refused # "no" THEN r
          ELSE IF turn.player \notin 1..2 THEN ReplayRefused(r, "multiplayer")
          ELSE IF r.over THEN IF turn.moves = <<>> THEN r ELSE ReplayRefused(r, "illegal_move")
          ELSE TurnEnded(r, turn, first, last)
  BY DEF ReplayedTurn, MovesFrom
<1> HIDE DEF first, last, t
<1>3. /\ r = [board |-> r.board, used |-> r.used, over |-> r.over, positions |-> r.positions, refused |-> r.refused]
      /\ r.refused \in Why /\ r.over \in BOOLEAN
      /\ r.board \in [Pos -> Cell] /\ r.used \subseteq Seat
      /\ AtTurns(r.positions, turns)
      /\ (r.refused = "no" /\ ~r.over) => Len(r.positions) = k - 1
  BY DEF IsReplay
<1>4. ASSUME NEW why \in Why, why # "no" PROVE IsReplay(ReplayRefused(r, why), turns, k)
  <2> DEFINE u == ReplayRefused(r, why)
  <2>1. u = [board |-> r.board, used |-> r.used, over |-> r.over, positions |-> r.positions, refused |-> why]
    BY <1>3 DEF ReplayRefused
  <2> HIDE DEF u
  <2>2. u.board = r.board /\ u.used = r.used /\ u.over = r.over /\ u.positions = r.positions /\ u.refused = why
    BY <2>1
  <2>3. IsReplay(u, turns, k)
    BY <1>3, <1>4, <2>1, <2>2 DEF IsReplay
  <2> QED BY <2>3 DEF u
<1>5. CASE r.refused # "no" \/ (turn.player \in 1..2 /\ r.over /\ turn.moves = <<>>)
  <2>1. t = r /\ ~(r.refused = "no" /\ ~r.over)
    BY <1>2, <1>5
  <2> QED BY <1>3, <2>1 DEF IsReplay, t
<1>6. CASE r.refused = "no" /\ turn.player \notin 1..2
  <2>1. t = ReplayRefused(r, "multiplayer")
    BY <1>2, <1>6
  <2> QED BY <1>4, <2>1 DEF Why, t
<1>7. CASE r.refused = "no" /\ turn.player \in 1..2 /\ r.over /\ turn.moves # <<>>
  <2>1. t = ReplayRefused(r, "illegal_move")
    BY <1>2, <1>7
  <2> QED BY <1>4, <2>1 DEF Why, t
<1>8. CASE r.refused = "no" /\ turn.player \in 1..2 /\ ~r.over
  <2>1. t = TurnEnded(r, turn, first, last) /\ r.refused = "no"
    BY <1>2, <1>8
  <2>2. first \in Starts
    BY <1>3, <1>8, StartFacts DEF first, TurnState
  <2>3. last = Rejected \/ Boarded(last)
    BY <1>1, <1>8, <2>2, StartFacts, MovesReplay DEF last
  <2>4. CASE last = Rejected
    <3>1. t = ReplayRefused(r, "illegal_move")
      BY <2>1, <2>4 DEF TurnEnded
    <3> QED BY <1>4, <3>1 DEF Why, t
  <2>5. CASE last # Rejected
    <3> DEFINE one == TurnPosition(turn.turn, first)
               grown == Append(r.positions, one)
    <3>1. one \in [turn : Int, state : Starts] /\ one.turn = turn.turn
      BY <1>1, <2>2 DEF TurnPosition
    <3>2. t = [board |-> last.cells, used |-> last.neutralUsed, over |-> last.over, positions |-> grown,
               refused |-> r.refused]
      <4>1. t = [r EXCEPT !.board = last.cells, !.used = last.neutralUsed, !.over = last.over,
                          !.positions = Append(@, one)]
        BY <2>1, <2>5 DEF TurnEnded
      <4> HIDE DEF one
      <4> QED BY <1>3, <4>1
    <3> HIDE DEF one
    <3>3. Len(r.positions) = k - 1 /\ r.positions \in Seq([turn : Int, state : Starts])
      BY <1>3, <1>8, <2>1 DEF AtTurns
    <3>4. /\ grown \in Seq([turn : Int, state : Starts]) /\ Len(grown) = k /\ DOMAIN grown = 1..k
          /\ \A i \in 1..(k - 1) : grown[i] = r.positions[i]
          /\ grown[k] = one
      BY <1>1, <3>1, <3>3, AppendProperties, LenProperties
    <3> HIDE DEF grown
    <3>5. AtTurns(grown, turns)
      <4> SUFFICES ASSUME NEW i \in 1..k PROVE i \in DOMAIN turns /\ grown[i].turn = turns[i].turn
        BY <3>4 DEF AtTurns
      <4>1. CASE i = k
        BY <1>1, <3>1, <3>4, <4>1
      <4>2. CASE i # k
        <5>1. i \in 1..(k - 1) /\ i \in DOMAIN r.positions
          BY <1>1, <3>3, <4>2
        <5> QED BY <1>3, <3>4, <5>1 DEF AtTurns
      <4> QED BY <4>1, <4>2
    <3>6. last.cells \in [Pos -> Cell] /\ last.neutralUsed \subseteq Seat /\ last.over \in BOOLEAN
      BY <2>3, <2>5 DEF Boarded
    <3> DEFINE u == [board |-> last.cells, used |-> last.neutralUsed, over |-> last.over, positions |-> grown,
                     refused |-> r.refused]
    <3>7. /\ u.board = last.cells /\ u.used = last.neutralUsed /\ u.over = last.over /\ u.positions = grown
          /\ u.refused = r.refused
          /\ u = [board |-> u.board, used |-> u.used, over |-> u.over, positions |-> u.positions, refused |-> u.refused]
      OBVIOUS
    <3> HIDE DEF u
    <3>8. IsReplay(u, turns, k)
      BY <1>1, <1>3, <3>4, <3>5, <3>6, <3>7 DEF IsReplay
    <3> QED BY <3>2, <3>8 DEF u, t
  <2> QED BY <2>4, <2>5
<1> QED BY <1>5, <1>6, <1>7, <1>8

\* A new game's board.
LEMMA InitialBoardIsOne == InitialBoard \in [Pos -> Cell]
<1> DEFINE s == NewGame(2)
           cells == [c \in Pos |-> IF \E p \in 1..2 : c = Base[p]
                                   THEN Piece(CHOOSE p \in 1..2 : c = Base[p], "Base") ELSE Empty]
           no == FALSE
           u == [players |-> 2, cells |-> cells, active |-> 1..2, neutralUsed |-> {}, current |-> 1,
                 movesLeft |-> ActionsPerTurn, winner |-> 0, over |-> no, hash |-> {}]
           h == RecomputedHash(u)
<1>1. s = [u EXCEPT !.hash = h]
  BY DEF NewGame, Hashed
<1>2. cells \in [Pos -> Cell]
  <2>1. \A p \in 1..2 : p \in Seat
    BY BoardAssumption DEF Seat
  <2>2. ASSUME NEW c \in Pos, \E p \in 1..2 : c = Base[p] PROVE (CHOOSE p \in 1..2 : c = Base[p]) \in Seat
    BY <2>1, <2>2
  <2> QED BY <2>2 DEF Cell, Owned, Piece
<1> HIDE DEF cells, no, h
<1>3. s = [players |-> 2, cells |-> cells, active |-> 1..2, neutralUsed |-> {}, current |-> 1,
           movesLeft |-> ActionsPerTurn, winner |-> 0, over |-> no, hash |-> h]
  BY <1>1
<1> HIDE DEF s
<1>4. s.players = 2 /\ s.cells = cells /\ s.active = 1..2 /\ s.neutralUsed = {} /\ s.current = 1
      /\ s.movesLeft = ActionsPerTurn /\ s.winner = 0 /\ s.over = no /\ s.hash = h
  BY <1>3
<1>5. Shaped(s)
  BY <1>3, <1>4 DEF Shaped
<1>6. Explicit(s) = s
  BY <1>5, ExplicitIsSame
<1> QED BY <1>2, <1>4, <1>6 DEF InitialBoard, s

\* A recording is refused, and says why, or gives positions its turns start from.
IsReplayed(replay, game) ==
  /\ replay.refused \in Why \cup {"board_size"}
  /\ replay.refused = "no" => AtTurns(replay.positions, game.turns)

LEMMA RecordingReplays ==
  ASSUME NEW game, IsRecording(game)
  PROVE  IsReplayed(Replay(game), game)
<1> DEFINE turns == game.turns
           n == Len(turns)
           none == <<>>
           no == FALSE
           first == [board |-> InitialBoard, used |-> {}, over |-> no, positions |-> none, refused |-> "no"]
           how == [kind |-> "turn", start |-> first]
           last == FoldLeft(ReplayedTurn, first, turns)
<1>1. IsList(turns) /\ \A i \in DOMAIN turns : IsRecordedTurn(turns[i])
  BY DEF IsRecording
<1>2. n \in Nat /\ DOMAIN turns = 1..n
  BY <1>1 DEF IsList
<1>3. IsReplay(first, turns, 0)
  <2>1. NothingIn(none, [turn : Int, state : Starts])
    BY EmptyFacts
  <2> HIDE DEF none, no
  <2>2. /\ first.board = InitialBoard /\ first.used = {} /\ first.over = no /\ first.positions = none
        /\ first.refused = "no"
        /\ first = [board |-> first.board, used |-> first.used, over |-> first.over,
                    positions |-> first.positions, refused |-> first.refused]
    OBVIOUS
  <2> HIDE DEF first
  <2>3. none \in Seq([turn : Int, state : Starts]) /\ Len(none) = 0
    BY <2>1 DEF NothingIn
  <2>4. AtTurns(none, turns)
    BY <2>3 DEF AtTurns
  <2>5. no \in BOOLEAN
    BY DEF no
  <2> QED BY <2>2, <2>3, <2>4, <2>5, InitialBoardIsOne DEF IsReplay, Why
<1> HIDE DEF first
<1>4. PICK st : Gathers(st, turns, how, n) /\ last = st[n]
  BY <1>2, TurnsGather
<1>5. how.kind = "turn" /\ how.start = first
  OBVIOUS
<1> HIDE DEF how, last, turns, n
<1> DEFINE G == {k \in 0..n : IsReplay(st[k], turns, k)}
<1>6. 0 \in G
  BY <1>2, <1>3, <1>4, <1>5 DEF Gathers
<1>7. ASSUME NEW k \in 1..n, k - 1 \in G PROVE k \in G
  <2>1. st[k] = ReplayedTurn(st[k - 1], turns[k])
    BY <1>4, <1>5 DEF Gathers, Step
  <2>2. IsReplay(st[k - 1], turns, k - 1) /\ k \in 1..Len(turns)
    BY <1>7 DEF n
  <2>3. IsReplay(ReplayedTurn(st[k - 1], turns[k]), turns, k)
    BY <1>1, <2>2, TurnReplays
  <2> QED BY <2>1, <2>3
<1> HIDE DEF G
<1>8. \A k \in 0..n : k \in G
  BY <1>2, <1>6, <1>7, Climb
<1>9. IsReplay(last, turns, n)
  BY <1>2, <1>4, <1>8 DEF G
<1>10. last.refused \in Why /\ AtTurns(last.positions, game.turns)
  BY <1>9 DEF IsReplay, turns
<1>11. Replay(game) = IF game.rows # Rows \/ game.cols # Cols THEN [refused |-> "board_size", positions |-> <<>>] ELSE last
  BY DEF Replay, last, first, turns, no, none
<1>12. CASE game.rows # Rows \/ game.cols # Cols
  <2>1. Replay(game).refused = "board_size"
    BY <1>11, <1>12
  <2> QED BY <2>1 DEF IsReplayed
<1>13. CASE ~(game.rows # Rows \/ game.cols # Cols)
  <2>1. Replay(game) = last
    BY <1>11, <1>13
  <2> HIDE DEF last
  <2> QED BY <1>10, <2>1 DEF IsReplayed
<1> QED BY <1>12, <1>13

(***************************************************************************)
(* The candidates of a game                                                *)
(***************************************************************************)
\* A candidate names its game and turn, is of its class, and is a position a turn starts from.
IsCandidate(c) ==
  /\ c.record.id \in Int /\ c.record.turn \in Int /\ c.record.class \in ProbeClass
  /\ c.swing \in Int /\ c.record.labels.swing = c.swing
  /\ \E s \in Starts : c.hash = s.hash /\ c.record.snapshot = Snapshot(s)

\* What may become of a turn.
Drops == {"short_horizon", "flat", "no_winner"}

\* What becomes of one turn.
IsPlaced(f, id, turn) ==
  \/ f.fate = "moves" \/ f.fate \in Drops
  \/ /\ f.fate \in ProbeClass /\ IsCandidate(f.candidate)
     /\ f.candidate.record.id = id /\ f.candidate.record.turn = turn

\* An advantage is a number, whatever the board.
LEMMA AdvantageIsInt == \A s, p : Advantage(s, p) \in Int
<1>1. \A cells, p : IsFiniteSet(Own(cells, p))
  <2>1. IsFiniteSet(Pos)
    <3>1. IsFiniteSet(0..Rows-1) /\ IsFiniteSet(0..Cols-1)
      BY FS_Interval, BoardAssumption
    <3> QED BY <3>1, FS_Product DEF Pos
  <2> QED BY <2>1, FS_Subset DEF Own
<1>2. \A cells, p : Cardinality(Own(cells, p)) \in Nat
  BY <1>1, FS_CardinalityType
<1> QED BY <1>2 DEF Advantage

\* A turn is no placement, is dropped and says why, or is a candidate.
LEMMA TurnPlaced ==
  ASSUME NEW config, NEW game, IsRecording(game), NEW positions, AtTurns(positions, game.turns),
         NEW i \in DOMAIN positions, NEW later
  PROVE  IsPlaced(Placement(config, game, positions, i, later), game.id, game.turns[i].turn)
<1> DEFINE here == positions[i]
           s == here.state
           labels == Labelled(config, positions, i, later)
           outcome == Decided(game.result, s.current)
           class == ClassOf(config, outcome, labels.swing)
           f == Placement(config, game, positions, i, later)
           r == Classed(game, here, labels, class)
<1>1. here \in [turn : Int, state : Starts] /\ here.turn = game.turns[i].turn
  <2> DEFINE Y == [turn : Int, state : Starts]
  <2>1. positions \in Seq(Y) /\ here.turn = game.turns[i].turn
    BY DEF AtTurns
  <2> HIDE DEF Y
  <2>2. here \in Y
    BY <2>1, ElementOfSeq, LenProperties
  <2> QED BY <2>1, <2>2 DEF Y
<1>2. s \in Starts /\ here.turn \in Int /\ game.id \in Int
  BY <1>1 DEF IsRecording
<1>3. labels.swing \in Int
  <2> DEFINE horizon == HorizonOf(config, later)
             last == positions[Len(positions)].state
             p == s.current
  <2>1. labels = Label(s, later[1].state, later[horizon].state, horizon, last)
    BY DEF Labelled
  <2> HIDE DEF labels, horizon, last
  <2>2. labels.swing = Advantage(later[horizon].state, p) - Advantage(s, p)
    BY <2>1 DEF Label, Labels
  <2> QED BY <2>2, AdvantageIsInt
<1>4. f = IF ~Places(game.turns[i], s) THEN [fate |-> "moves"]
          ELSE IF Len(later) < MinHorizonTurns THEN [fate |-> "short_horizon"]
          ELSE r
  BY DEF Placement
<1>5. class \in ProbeClass \cup {"flat", "no_winner"}
  <2>1. outcome \in {"unknown", "won", "lost"}
    BY DEF Decided
  <2> HIDE DEF outcome
  <2>2. CASE outcome = "unknown"
    BY <2>2 DEF ClassOf
  <2>3. CASE outcome = "won"
    BY <2>3 DEF ClassOf, ProbeClass
  <2>4. CASE outcome = "lost" /\ labels.swing <= -config.minSwing
    BY <2>4 DEF ClassOf, ProbeClass
  <2>5. CASE outcome = "lost" /\ ~(labels.swing <= -config.minSwing)
    BY <2>5 DEF ClassOf
  <2> QED BY <2>1, <2>2, <2>3, <2>4, <2>5
<1> HIDE DEF labels, class, f, here
<1>6. IsPlaced(r, game.id, here.turn)
  <2> DEFINE c == r.candidate
  <2>1. r.fate = class /\ c = ProbeCandidate(ProbeRecord(game.id, here.turn, class, s, labels), s)
    BY DEF Classed
  <2> HIDE DEF r, c
  <2>2. /\ c.hash = s.hash /\ c.swing = labels.swing /\ c.record.labels = labels
        /\ c.record.id = game.id /\ c.record.turn = here.turn /\ c.record.class = class
        /\ c.record.snapshot = Snapshot(s)
    BY <2>1 DEF ProbeCandidate, ProbeRecord
  <2>3. CASE class \in ProbeClass
    <3>1. IsCandidate(c)
      BY <1>2, <1>3, <2>2, <2>3 DEF IsCandidate
    <3> QED BY <2>1, <2>2, <2>3, <3>1 DEF IsPlaced, c
  <2>4. CASE class \notin ProbeClass
    BY <1>5, <2>1, <2>4 DEF IsPlaced, Drops
  <2> QED BY <2>3, <2>4
<1>7. CASE ~Places(game.turns[i], s)
  <2>1. f.fate = "moves"
    BY <1>4, <1>7
  <2> QED BY <2>1 DEF IsPlaced, f
<1>8. CASE Places(game.turns[i], s) /\ Len(later) < MinHorizonTurns
  <2>1. f.fate = "short_horizon"
    BY <1>4, <1>8
  <2> QED BY <2>1 DEF IsPlaced, Drops, f
<1>9. CASE Places(game.turns[i], s) /\ ~(Len(later) < MinHorizonTurns)
  <2>1. f = r
    BY <1>4, <1>9
  <2> HIDE DEF r
  <2> QED BY <1>1, <1>6, <2>1 DEF f
<1> QED BY <1>7, <1>8, <1>9

\* The candidates found, one list.
Picked(found) ==
  FlattenSeq([i \in DOMAIN found |-> IF found[i].fate \in ProbeClass THEN <<found[i].candidate>> ELSE <<>>])

\* The places of what was found that have a fate.
Fated(found, fates) == {i \in DOMAIN found : found[i].fate \in fates}

\* The candidates of one game: each a candidate of it, no two of one turn, as many as were placed.
AreOf(l, id) ==
  /\ l \in Seq(ToSet(l)) /\ IsInjective(l)
  /\ \A c \in ToSet(l) : IsCandidate(c) /\ c.record.id = id
  /\ \A c, d \in ToSet(l) : c.record.turn = d.record.turn => c = d

\* What was found in a recording: one entry for each of n turns.
AreFound(found, game, n) ==
  /\ n \in Nat /\ DOMAIN found = 1..n /\ 1..n \subseteq DOMAIN game.turns
  /\ \A i \in 1..n : IsPlaced(found[i], game.id, game.turns[i].turn)

LEMMA PickedFacts ==
  ASSUME NEW game, IsRecording(game), NEW n, NEW found, AreFound(found, game, n)
  PROVE  AreOf(Picked(found), game.id) /\ Len(Picked(found)) = Cardinality(Fated(found, ProbeClass))
<1> DEFINE P == Fated(found, ProbeClass)
           X == {found[i].candidate : i \in P}
           seqs == [i \in DOMAIN found |-> IF found[i].fate \in ProbeClass THEN <<found[i].candidate>> ELSE <<>>]
           l == Picked(found)
<1>1. n \in Nat /\ DOMAIN found = 1..n /\ P \subseteq 1..n
  BY DEF AreFound, Fated
<1>2. ASSUME NEW i \in P
      PROVE  /\ IsCandidate(found[i].candidate) /\ found[i].candidate.record.id = game.id
             /\ found[i].candidate.record.turn = game.turns[i].turn /\ i \in DOMAIN game.turns
  <2>1. IsPlaced(found[i], game.id, game.turns[i].turn) /\ found[i].fate \in ProbeClass /\ i \in DOMAIN game.turns
    BY DEF AreFound, Fated
  <2>2. found[i].fate # "moves" /\ found[i].fate \notin Drops
    BY <2>1 DEF ProbeClass, Drops
  <2> QED BY <2>1, <2>2 DEF IsPlaced
<1>3. \A i, j \in P : found[i].candidate.record.turn = found[j].candidate.record.turn => i = j
  BY <1>2 DEF IsRecording
<1>4. ASSUME NEW i \in 1..n
      PROVE  /\ seqs[i] \in Seq(X) /\ IsInjective(seqs[i])
             /\ ToSet(seqs[i]) = IF i \in P THEN {found[i].candidate} ELSE {}
  <2>1. CASE i \in P
    <3> DEFINE one == <<found[i].candidate>>
    <3>1. seqs[i] = one /\ found[i].candidate \in X
      BY <1>1, <2>1 DEF Fated
    <3>2. one \in Seq(X) /\ Len(one) = 1 /\ DOMAIN one = {1} /\ one[1] = found[i].candidate
      BY <3>1
    <3>3. ToSet(one) = {found[i].candidate} /\ IsInjective(one)
      BY <3>2 DEF ToSet, IsInjective
    <3> HIDE DEF one, seqs
    <3> QED BY <2>1, <3>1, <3>2, <3>3
  <2>2. CASE i \notin P
    <3> DEFINE e == <<>>
    <3>1. seqs[i] = e /\ NothingIn(e, X)
      BY <1>1, <2>2, EmptyFacts DEF Fated
    <3> HIDE DEF e, seqs
    <3> QED BY <2>2, <3>1 DEF NothingIn
  <2> QED BY <2>1, <2>2
<1>5. seqs \in Seq(Seq(X)) /\ DOMAIN seqs = 1..n /\ Len(seqs) = n
  <2>1. DOMAIN seqs = 1..n /\ seqs = [i \in 1..n |-> seqs[i]]
    BY <1>1
  <2> HIDE DEF seqs
  <2>2. seqs \in [1..n -> Seq(X)]
    BY <1>4, <2>1
  <2> QED BY <1>1, <2>1, <2>2, IsASeq, LenProperties
<1>6. l = FlattenSeq(seqs)
  BY DEF Picked
<1> HIDE DEF seqs, l
<1>7. IsJoin(l, seqs, X, n)
  BY <1>5, <1>6, Flattened
<1>8. Apart(seqs)
  <2>1. ASSUME NEW i \in 1..n, NEW j \in 1..n, i # j PROVE ToSet(seqs[i]) \cap ToSet(seqs[j]) = {}
    <3>1. i \in P /\ j \in P => found[i].candidate # found[j].candidate
      BY <1>3, <2>1
    <3> HIDE DEF P
    <3> QED BY <1>4, <3>1
  <2> QED BY <1>4, <1>5, <2>1 DEF Apart
<1>9. ToSet(l) = X
  <2>1. ToSet(l) = Held(seqs, n)
    BY <1>7 DEF IsJoin
  <2>2. Held(seqs, n) = X
    <3>1. \A i \in P : found[i].candidate \in Held(seqs, n)
      BY <1>1, <1>4 DEF Held
    <3>2. ASSUME NEW x \in Held(seqs, n) PROVE x \in X
      <4>1. PICK i \in 1..n : x \in ToSet(seqs[i])
        BY DEF Held
      <4> QED BY <1>4, <4>1
    <3> QED BY <3>1, <3>2
  <2> QED BY <2>1, <2>2
<1>10. l \in Seq(X) /\ IsInjective(l)
  BY <1>7, <1>8 DEF IsJoin
<1>11. AreOf(l, game.id)
  BY <1>2, <1>3, <1>9, <1>10 DEF AreOf
<1>12. Len(l) = Cardinality(P)
  <2>1. IsFiniteSet(P)
    BY <1>1, FS_Interval, FS_Subset
  <2> DEFINE g == [i \in P |-> found[i].candidate]
  <2>2. g \in Bijection(P, X)
    <3>1. g \in [P -> X] /\ \A x \in X : \E i \in P : g[i] = x
      OBVIOUS
    <3>2. \A i, j \in P : g[i] = g[j] => i = j
      BY <1>3
    <3> HIDE DEF g, P, X
    <3>3. g \in Injection(P, X)
      BY <3>1, <3>2 DEF Injection, IsInjective
    <3>4. g \in Surjection(P, X)
      BY <3>1 DEF Surjection
    <3> QED BY <3>3, <3>4 DEF Bijection
  <2>3. ExistsBijection(P, X)
    BY <2>2 DEF ExistsBijection
  <2>4. Cardinality(X) = Cardinality(P)
    BY <2>1, <2>3, FS_Bijection
  <2>5. Cardinality(ToSet(l)) = Len(l)
    BY <1>10, LengthCounts
  <2> QED BY <1>9, <2>4, <2>5
<1> QED BY <1>11, <1>12 DEF l

(***************************************************************************)
(* Mining                                                                  *)
(***************************************************************************)
Counters == {"games", "replayed", "multiplayer", "illegal_move", "board_size",
             "neutral_turns", "short_horizon", "flat", "no_winner", "duplicate"}

FoundIn(config, game) == Found(config, game, Replay(game).positions)

\* What one recording adds to each count.
AddsTo(config, game, k) ==
  IF Replay(game).refused # "no" THEN IF k = Replay(game).refused THEN 1 ELSE 0
  ELSE IF k = "replayed" THEN 1
  ELSE IF k = "neutral_turns" THEN Cardinality(Fated(FoundIn(config, game), Drops \cup ProbeClass))
  ELSE IF k \in Drops THEN Cardinality(Fated(FoundIn(config, game), {k}))
  ELSE 0

\* The candidates of one recording.
Yields(config, game) == IF Replay(game).refused # "no" THEN <<>> ELSE Picked(FoundIn(config, game))

\* What was found in a recording that is replayed.
LEMMA FoundFacts ==
  ASSUME NEW config, NEW game, IsRecording(game), Replay(game).refused = "no"
  PROVE  AreFound(FoundIn(config, game), game, Len(Replay(game).positions))
<1> DEFINE positions == Replay(game).positions
           n == Len(positions)
           found == FoundIn(config, game)
<1>1. AtTurns(positions, game.turns)
  BY RecordingReplays DEF IsReplayed
<1> HIDE DEF positions
<1>2. n \in Nat /\ DOMAIN positions = 1..n /\ 1..n \subseteq DOMAIN game.turns
  BY <1>1, LenProperties DEF AtTurns
<1>3. found = [i \in DOMAIN positions |-> Placement(config, game, positions, i, Later(positions, i))]
  BY DEF FoundIn, Found, positions
<1>4. ASSUME NEW i \in 1..n PROVE IsPlaced(found[i], game.id, game.turns[i].turn)
  <2> DEFINE f == Placement(config, game, positions, i, Later(positions, i))
  <2>1. found[i] = f
    BY <1>2, <1>3
  <2>2. IsPlaced(f, game.id, game.turns[i].turn)
    <3> DEFINE later == Later(positions, i)
    <3> HIDE DEF later
    <3>1. IsPlaced(Placement(config, game, positions, i, later), game.id, game.turns[i].turn)
      BY <1>1, <1>2, TurnPlaced
    <3> QED BY <3>1 DEF later
  <2> HIDE DEF f, found
  <2> QED BY <2>1, <2>2
<1>5. DOMAIN found = 1..n
  BY <1>2, <1>3
<1> HIDE DEF found
<1>6. AreFound(found, game, n)
  BY <1>2, <1>4, <1>5 DEF AreFound
<1> QED BY <1>6 DEF found, positions

\* The turns of different fates are different.
LEMMA FatesApart ==
  ASSUME NEW game, NEW n, NEW found, AreFound(found, game, n)
  PROVE  /\ \A fates : IsFiniteSet(Fated(found, fates)) /\ Cardinality(Fated(found, fates)) \in Nat
         /\ \A f, g : f \cap g = {} =>
              Cardinality(Fated(found, f \cup g)) = Cardinality(Fated(found, f)) + Cardinality(Fated(found, g))
<1>1. ASSUME NEW fates PROVE IsFiniteSet(Fated(found, fates)) /\ Cardinality(Fated(found, fates)) \in Nat
  <2>1. Fated(found, fates) \subseteq 1..n /\ n \in Nat
    BY DEF AreFound, Fated
  <2>2. IsFiniteSet(1..n)
    BY <2>1, FS_Interval
  <2> QED BY <2>1, <2>2, FS_Subset, FS_CardinalityType
<1>2. ASSUME NEW f, NEW g, f \cap g = {}
      PROVE  Cardinality(Fated(found, f \cup g)) = Cardinality(Fated(found, f)) + Cardinality(Fated(found, g))
  <2> DEFINE F == Fated(found, f)
             G == Fated(found, g)
  <2>1. F \cup G = Fated(found, f \cup g) /\ F \cap G = {}
    BY <1>2 DEF Fated
  <2>2. IsFiniteSet(F) /\ IsFiniteSet(G) /\ Cardinality(F) \in Nat /\ Cardinality(G) \in Nat
    BY <1>1
  <2> HIDE DEF F, G
  <2>3. Cardinality(F \cup G) = Cardinality(F) + Cardinality(G) - Cardinality(F \cap G)
    BY <2>2, FS_Union
  <2>4. Cardinality(F \cap G) = 0
    BY <2>1, FS_EmptySet DEF F, G
  <2>5. Cardinality(F \cup G) = Cardinality(F) + Cardinality(G)
    BY <2>2, <2>3, <2>4
  <2> QED BY <2>1, <2>5 DEF F, G
<1> QED BY <1>1, <1>2

\* A recording adds to the counts what adds up: itself once, and its placements each once.
LEMMA AddsFacts ==
  ASSUME NEW config, NEW game, IsRecording(game)
  PROVE  /\ AreOf(Yields(config, game), game.id)
         /\ \A k \in Counters : AddsTo(config, game, k) \in Int
         /\ AddsTo(config, game, "games") = 0 /\ AddsTo(config, game, "duplicate") = 0
         /\ AddsTo(config, game, "replayed") + AddsTo(config, game, "multiplayer")
              + AddsTo(config, game, "illegal_move") + AddsTo(config, game, "board_size") = 1
         /\ AddsTo(config, game, "neutral_turns") =
              AddsTo(config, game, "short_horizon") + AddsTo(config, game, "flat") + AddsTo(config, game, "no_winner")
                + Len(Yields(config, game))
<1> DEFINE why == Replay(game).refused
           adds(k) == AddsTo(config, game, k)
           l == Yields(config, game)
           found == FoundIn(config, game)
           count(fates) == Cardinality(Fated(found, fates))
<1>1. why \in {"no", "multiplayer", "illegal_move", "board_size"}
  BY RecordingReplays DEF IsReplayed, Why
<1>2. CASE why # "no"
  <2> DEFINE e == <<>>
  <2>1. \A k : adds(k) = IF k = why THEN 1 ELSE 0
    BY <1>2 DEF AddsTo
  <2>2. l = e /\ NothingIn(e, ToSet(e))
    BY <1>2, EmptyFacts DEF Yields
  <2> HIDE DEF e, l, adds, why
  <2>3. AreOf(l, game.id) /\ Len(l) = 0
    BY <2>2 DEF NothingIn, AreOf
  <2>4. \A k \in Counters : adds(k) \in Int
    BY <2>1
  <2>5. /\ adds("games") = 0 /\ adds("duplicate") = 0
        /\ adds("replayed") + adds("multiplayer") + adds("illegal_move") + adds("board_size") = 1
        /\ adds("neutral_turns") = 0 /\ adds("short_horizon") = 0 /\ adds("flat") = 0 /\ adds("no_winner") = 0
    BY <1>1, <1>2, <2>1
  <2> QED BY <2>3, <2>4, <2>5 DEF adds, l
<1>3. CASE why = "no"
  <2> DEFINE n == Len(Replay(game).positions)
  <2>1. AreFound(found, game, n)
    BY <1>3, FoundFacts
  <2>2. l = Picked(found)
    BY <1>3 DEF Yields
  <2>3. \A k : adds(k) = IF k = "replayed" THEN 1
                         ELSE IF k = "neutral_turns" THEN count(Drops \cup ProbeClass)
                         ELSE IF k \in Drops THEN count({k}) ELSE 0
    BY <1>3 DEF AddsTo
  <2> HIDE DEF n, found, l, adds
  <2>4. AreOf(l, game.id) /\ Len(l) = count(ProbeClass)
    BY <2>1, <2>2, PickedFacts
  <2>5. /\ \A fates : count(fates) \in Nat
        /\ \A f, g : f \cap g = {} => count(f \cup g) = count(f) + count(g)
    BY <2>1, FatesApart
  <2> HIDE DEF count
  <2>6. count(Drops) = count({"short_horizon"}) + count({"flat"}) + count({"no_winner"})
    <3> DEFINE two == {"flat"} \cup {"no_winner"}
    <3>1. Drops = {"short_horizon"} \cup two /\ {"short_horizon"} \cap two = {} /\ {"flat"} \cap {"no_winner"} = {}
      BY DEF Drops
    <3>2. count(two) = count({"flat"}) + count({"no_winner"})
      BY <2>5, <3>1
    <3> HIDE DEF two
    <3>3. count(Drops) = count({"short_horizon"}) + count(two)
      BY <2>5, <3>1
    <3> QED BY <2>5, <3>2, <3>3
  <2>7. count(Drops \cup ProbeClass) = count(Drops) + count(ProbeClass)
    <3>1. Drops \cap ProbeClass = {}
      BY DEF Drops, ProbeClass
    <3> QED BY <2>5, <3>1
  <2>8. /\ adds("games") = 0 /\ adds("duplicate") = 0 /\ adds("replayed") = 1 /\ adds("multiplayer") = 0
        /\ adds("illegal_move") = 0 /\ adds("board_size") = 0
        /\ adds("neutral_turns") = count(Drops \cup ProbeClass)
        /\ adds("short_horizon") = count({"short_horizon"}) /\ adds("flat") = count({"flat"})
        /\ adds("no_winner") = count({"no_winner"})
    BY <2>3 DEF Drops
  <2>9. ASSUME NEW k \in Counters PROVE adds(k) \in Int
    <3>1. count(Drops \cup ProbeClass) \in Int /\ count({k}) \in Int
      BY <2>5
    <3> QED BY <2>3, <3>1
  <2>10. adds("neutral_turns") = adds("short_horizon") + adds("flat") + adds("no_winner") + Len(l)
    BY <2>4, <2>5, <2>6, <2>7, <2>8
  <2>11. adds("replayed") + adds("multiplayer") + adds("illegal_move") + adds("board_size") = 1
    BY <2>8
  <2> QED BY <2>4, <2>8, <2>9, <2>10, <2>11 DEF adds, l
<1> QED BY <1>2, <1>3

\* What has been mined: the counts, and a list of candidates.
IsMine(m) ==
  /\ m = [stats |-> m.stats, candidates |-> m.candidates]
  /\ m.stats \in [Counters -> Int] /\ m.candidates \in Seq(ToSet(m.candidates))

\* One more game mined.
LEMMA GameMines ==
  ASSUME NEW config, NEW game, IsRecording(game), NEW m, IsMine(m)
  PROVE  MineGame(m, config, game, Replay(game)) =
           [stats |-> [k \in Counters |-> m.stats[k] + AddsTo(config, game, k)],
            candidates |-> m.candidates \o Yields(config, game)]
<1> DEFINE replay == Replay(game)
           why == replay.refused
           found == FoundIn(config, game)
           l == m.candidates
           c == m.stats
           u == MineGame(m, config, game, replay)
           sum == [k \in Counters |-> c[k] + AddsTo(config, game, k)]
<1>1. why \in {"no", "multiplayer", "illegal_move", "board_size"}
  BY RecordingReplays DEF IsReplayed, Why
<1>2. m = [stats |-> c, candidates |-> l] /\ c \in [Counters -> Int] /\ l \in Seq(ToSet(l))
  BY DEF IsMine
<1>3. CASE why # "no"
  <2> DEFINE d == [c EXCEPT ![why] = @ + 1]
             e == <<>>
  <2>1. u = [m EXCEPT !.stats = d]
    BY <1>3 DEF MineGame, CountUp
  <2>2. \A k \in Counters : AddsTo(config, game, k) = IF k = why THEN 1 ELSE 0
    BY <1>3 DEF AddsTo
  <2>3. d = sum
    <3>1. why \in Counters
      BY <1>1, <1>3 DEF Counters
    <3> HIDE DEF why, c, Counters
    <3>2. \A k \in Counters : d[k] = sum[k]
      BY <1>2, <2>2, <3>1
    <3> QED BY <1>2, <3>2
  <2>4. Yields(config, game) = e
    BY <1>3 DEF Yields
  <2>5. l \o e = l
    BY <1>2, ConcatEmptySeq
  <2> HIDE DEF d, e, l, c, u, sum
  <2>6. u = [stats |-> d, candidates |-> l]
    BY <1>2, <2>1
  <2> QED BY <2>3, <2>4, <2>5, <2>6 DEF u, sum, l, c
<1>4. CASE why = "no"
  <2> DEFINE n == Len(replay.positions)
             placed == {i \in DOMAIN found : found[i].fate # "moves"}
             dropped(k) == Cardinality({i \in placed : found[i].fate = k})
             count(fates) == Cardinality(Fated(found, fates))
             d == [c EXCEPT !.replayed = @ + 1, !.neutral_turns = @ + Cardinality(placed),
                            !.short_horizon = @ + dropped("short_horizon"),
                            !.flat = @ + dropped("flat"), !.no_winner = @ + dropped("no_winner")]
  <2>1. u = [stats |-> d, candidates |-> l \o Picked(found)]
    BY <1>4 DEF MineGame, AddPlacements, Picked, FoundIn
  <2>2. AreFound(found, game, n)
    BY <1>4, FoundFacts
  <2> HIDE DEF n, found
  <2>3. placed = Fated(found, Drops \cup ProbeClass)
    <3>1. ASSUME NEW i \in DOMAIN found
          PROVE  found[i].fate # "moves" <=> found[i].fate \in Drops \cup ProbeClass
      <4>1. IsPlaced(found[i], game.id, game.turns[i].turn)
        BY <2>2 DEF AreFound
      <4> QED BY <4>1 DEF IsPlaced, Drops, ProbeClass
    <3> QED BY <3>1 DEF Fated
  <2>4. \A k \in Drops : dropped(k) = count({k})
    <3> SUFFICES ASSUME NEW k \in Drops PROVE {i \in placed : found[i].fate = k} = Fated(found, {k})
      OBVIOUS
    <3> QED BY DEF Drops, Fated
  <2>5. \A k : AddsTo(config, game, k) =
                 IF k = "replayed" THEN 1
                 ELSE IF k = "neutral_turns" THEN count(Drops \cup ProbeClass)
                 ELSE IF k \in Drops THEN count({k}) ELSE 0
    BY <1>4 DEF AddsTo, found
  <2>6. d = sum
    <3> HIDE DEF c, count, dropped, placed
    <3>1. d \in [Counters -> Int] \/ DOMAIN d = Counters
      BY <1>2
    <3>2. \A fates : count(fates) \in Nat
      BY <2>2, FatesApart DEF count
    <3>3. \A k \in Counters : d[k] = sum[k]
      <4>1. Cardinality(placed) = count(Drops \cup ProbeClass)
        BY <2>3 DEF count
      <4>2. /\ dropped("short_horizon") = count({"short_horizon"}) /\ dropped("flat") = count({"flat"})
            /\ dropped("no_winner") = count({"no_winner"})
        BY <2>4 DEF Drops
      <4>3. ASSUME NEW k \in Counters
            PROVE  d[k] = c[k] + (IF k = "replayed" THEN 1
                                  ELSE IF k = "neutral_turns" THEN Cardinality(placed)
                                  ELSE IF k = "short_horizon" THEN dropped("short_horizon")
                                  ELSE IF k = "flat" THEN dropped("flat")
                                  ELSE IF k = "no_winner" THEN dropped("no_winner") ELSE 0)
        <5>1. c[k] \in Int
          BY <1>2
        <5>2. {"replayed", "neutral_turns", "short_horizon", "flat", "no_winner"} \subseteq DOMAIN c /\ DOMAIN c = Counters
          BY <1>2 DEF Counters
        <5>3. CASE k = "replayed"
          BY <5>1, <5>2, <5>3
        <5>4. CASE k = "neutral_turns"
          BY <5>1, <5>2, <5>4
        <5>5. CASE k = "short_horizon"
          BY <5>1, <5>2, <5>5
        <5>6. CASE k = "flat"
          BY <5>1, <5>2, <5>6
        <5>7. CASE k = "no_winner"
          BY <5>1, <5>2, <5>7
        <5>8. CASE k \notin {"replayed", "neutral_turns", "short_horizon", "flat", "no_winner"}
          <6>1. d[k] = c[k]
            BY <5>2, <5>8
          <6> HIDE DEF d
          <6> QED BY <5>1, <5>8, <6>1
        <5> QED BY <5>3, <5>4, <5>5, <5>6, <5>7, <5>8
      <4>4. ASSUME NEW k \in Counters
            PROVE  AddsTo(config, game, k) = IF k = "replayed" THEN 1
                                             ELSE IF k = "neutral_turns" THEN Cardinality(placed)
                                             ELSE IF k = "short_horizon" THEN dropped("short_horizon")
                                             ELSE IF k = "flat" THEN dropped("flat")
                                             ELSE IF k = "no_winner" THEN dropped("no_winner") ELSE 0
        BY <2>5, <4>1, <4>2 DEF Drops
      <4> HIDE DEF d
      <4> QED BY <4>3, <4>4
    <3>4. DOMAIN d = Counters
      BY <1>2
    <3> HIDE DEF d
    <3>5. d = [k \in Counters |-> d[k]]
      BY <1>2, <3>4 DEF d
    <3> QED BY <3>3, <3>5
  <2>7. Yields(config, game) = Picked(found)
    BY <1>4 DEF Yields, found
  <2> HIDE DEF d, u, sum
  <2> QED BY <2>1, <2>6, <2>7 DEF u, sum
<1> QED BY <1>3, <1>4

\* Recordings, no two of one id.
AreRecordings(games) ==
  /\ IsList(games) /\ \A i \in DOMAIN games : IsRecording(games[i])
  /\ \A i, j \in DOMAIN games : i # j => games[i].id # games[j].id

\* The first k games, what each adds to a count, and their candidates.
Read(games, k) == {games[i] : i \in 1..k}
Added(config, games, c) == [g \in ToSet(games) |-> AddsTo(config, g, c)]
Harvest(config, S) == UNION {ToSet(Yields(config, g)) : g \in S}

\* What the first k games amount to.
IsTally(m, config, games, k) ==
  /\ IsMine(m) /\ IsInjective(m.candidates)
  /\ ToSet(m.candidates) = Harvest(config, Read(games, k))
  /\ \A c \in Counters :
       m.stats[c] = (IF c = "games" THEN Len(games) ELSE 0) + SumOn(Added(config, games, c), Read(games, k))
  /\ m.stats["replayed"] + m.stats["multiplayer"] + m.stats["illegal_move"] + m.stats["board_size"] = k
  /\ m.stats["neutral_turns"] = m.stats["short_horizon"] + m.stats["flat"] + m.stats["no_winner"] + Len(m.candidates)

\* No two candidates of one harvest are of one turn.
LEMMA HarvestFacts ==
  ASSUME NEW config, NEW S, \A g \in S : IsRecording(g), \A g, h \in S : g.id = h.id => g = h
  PROVE  /\ \A c \in Harvest(config, S) : IsCandidate(c)
         /\ \A c, d \in Harvest(config, S) : c.record.id = d.record.id /\ c.record.turn = d.record.turn => c = d
<1>1. ASSUME NEW c \in Harvest(config, S)
      PROVE  IsCandidate(c) /\ \E g \in S : c \in ToSet(Yields(config, g)) /\ c.record.id = g.id
  <2>1. PICK g \in S : c \in ToSet(Yields(config, g))
    BY DEF Harvest
  <2>2. AreOf(Yields(config, g), g.id)
    BY AddsFacts
  <2> QED BY <2>1, <2>2 DEF AreOf
<1>2. ASSUME NEW c \in Harvest(config, S), NEW d \in Harvest(config, S),
             c.record.id = d.record.id, c.record.turn = d.record.turn
      PROVE  c = d
  <2>1. PICK g \in S : c \in ToSet(Yields(config, g)) /\ c.record.id = g.id
    BY <1>1
  <2>2. PICK h \in S : d \in ToSet(Yields(config, h)) /\ d.record.id = h.id
    BY <1>1
  <2>3. g = h
    BY <1>2, <2>1, <2>2
  <2>4. AreOf(Yields(config, g), g.id)
    BY AddsFacts
  <2> QED BY <1>2, <2>1, <2>2, <2>3, <2>4 DEF AreOf
<1> QED BY <1>1, <1>2

\* One more game read.
LEMMA ReadFacts ==
  ASSUME NEW games, AreRecordings(games), NEW k \in 1..Len(games)
  PROVE  /\ games[k] \in Read(games, k) /\ games[k] \notin Read(games, k - 1)
         /\ Read(games, k) \ {games[k]} = Read(games, k - 1)
         /\ Read(games, k) \subseteq ToSet(games) /\ IsFiniteSet(Read(games, k))
         /\ \A g \in Read(games, k) : IsRecording(g) /\ (g.id = games[k].id => g = games[k])
<1>1. Len(games) \in Nat /\ DOMAIN games = 1..Len(games) /\ games \in Seq(ToSet(games))
  BY DEF AreRecordings, IsList
<1>2. k \in Nat /\ 1..k = 1..(k - 1) \cup {k} /\ k \notin 1..(k - 1) /\ 1..k \subseteq DOMAIN games
  BY <1>1
<1>3. \A i \in 1..k : games[i].id = games[k].id => i = k
  BY <1>1, <1>2 DEF AreRecordings
<1>4. \A i \in 1..(k - 1) : games[i] # games[k]
  BY <1>2, <1>3
<1>5. Read(games, k) \subseteq ToSet(games)
  BY <1>2 DEF Read, ToSet
<1>6. IsFiniteSet(Read(games, k))
  BY <1>1, <1>5, LengthCounts, FS_Subset
<1>7. games[k] \in Read(games, k) /\ games[k] \notin Read(games, k - 1)
  BY <1>2, <1>4 DEF Read
<1>8. Read(games, k) \ {games[k]} = Read(games, k - 1)
  BY <1>2, <1>4 DEF Read
<1>9. \A g \in Read(games, k) : IsRecording(g) /\ (g.id = games[k].id => g = games[k])
  BY <1>2, <1>3 DEF Read, AreRecordings
<1> QED BY <1>5, <1>6, <1>7, <1>8, <1>9

\* One more game mined.
LEMMA GameTallies ==
  ASSUME NEW config, NEW games, AreRecordings(games), NEW k \in 1..Len(games), NEW m, IsTally(m, config, games, k - 1)
  PROVE  IsTally(MineGame(m, config, games[k], Replay(games[k])), config, games, k)
<1> DEFINE game == games[k]
           y == Yields(config, game)
           l == m.candidates
           w == l \o y
           adds(c) == AddsTo(config, game, c)
           sum == [c \in Counters |-> m.stats[c] + adds(c)]
           u == MineGame(m, config, game, Replay(game))
           D == Read(games, k)
           E == Read(games, k - 1)
<1>1. /\ game \in D /\ game \notin E /\ D \ {game} = E /\ D \subseteq ToSet(games) /\ IsFiniteSet(D)
      /\ \A g \in D : IsRecording(g) /\ (g.id = game.id => g = game)
  BY ReadFacts
<1>2. IsMine(m) /\ m.stats \in [Counters -> Int] /\ l \in Seq(ToSet(l)) /\ IsInjective(l) /\ ToSet(l) = Harvest(config, E)
  BY DEF IsTally, IsMine
<1>3. u = [stats |-> sum, candidates |-> w]
  BY <1>1, <1>2, GameMines
<1>4. /\ AreOf(y, game.id)
      /\ \A c \in Counters : adds(c) \in Int
      /\ adds("games") = 0
      /\ adds("replayed") + adds("multiplayer") + adds("illegal_move") + adds("board_size") = 1
      /\ adds("neutral_turns") = adds("short_horizon") + adds("flat") + adds("no_winner") + Len(y)
  BY <1>1, AddsFacts
<1>5. k \in Nat
  BY DEF AreRecordings, IsList
<1> HIDE DEF game, y, l, sum, u, adds, D, E
<1>6. /\ w \in Seq(ToSet(w)) /\ ToSet(w) = Harvest(config, D) /\ IsInjective(w) /\ Len(w) = Len(l) + Len(y)
      /\ Len(l) \in Nat /\ Len(y) \in Nat
  <2> DEFINE X == ToSet(l) \cup ToSet(y)
  <2>1. y \in Seq(ToSet(y)) /\ IsInjective(y) /\ \A c \in ToSet(y) : c.record.id = game.id
    BY <1>4 DEF AreOf
  <2>2. l \in Seq(X) /\ y \in Seq(X)
    BY <1>2, <2>1, SeqMonotonic
  <2>3. Both(w, l, y, X)
    <3> HIDE DEF X
    <3> QED BY <2>2, ConcatFacts
  <2>4. ToSet(l) \cap ToSet(y) = {}
    <3> SUFFICES ASSUME NEW c \in ToSet(l), c \in ToSet(y) PROVE FALSE
      OBVIOUS
    <3>1. PICK g \in E : c \in ToSet(Yields(config, g))
      BY <1>2 DEF Harvest
    <3>2. g \in D /\ g # game
      BY <1>1, <3>1
    <3>3. AreOf(Yields(config, g), g.id)
      BY <1>1, <3>2, AddsFacts
    <3>4. c.record.id = g.id /\ c.record.id = game.id
      BY <2>1, <3>1, <3>3 DEF AreOf
    <3> QED BY <1>1, <3>2, <3>4
  <2>5. ToSet(w) = X /\ IsInjective(w) /\ Len(w) = Len(l) + Len(y) /\ w \in Seq(X)
    <3> HIDE DEF X, w
    <3> QED BY <1>2, <2>1, <2>3, <2>4 DEF Both, X
  <2>6. X = Harvest(config, D)
    <3>1. D = E \cup {game}
      BY <1>1
    <3> QED BY <1>2, <3>1 DEF Harvest, y
  <2>7. Len(l) \in Nat /\ Len(y) \in Nat
    BY <2>2, LenProperties
  <2> HIDE DEF w, X
  <2> QED BY <2>5, <2>6, <2>7
<1> HIDE DEF w
<1>7. u.stats = sum /\ u.candidates = w /\ sum \in [Counters -> Int]
  BY <1>2, <1>3, <1>4 DEF sum
<1>8. \A c \in Counters : sum[c] = m.stats[c] + adds(c) /\ m.stats[c] \in Int /\ adds(c) \in Int
  BY <1>2, <1>4 DEF sum
<1>9. IsMine(u)
  BY <1>3, <1>6, <1>7 DEF IsMine
<1>10. ASSUME NEW c \in Counters
       PROVE  sum[c] = (IF c = "games" THEN Len(games) ELSE 0) + SumOn(Added(config, games, c), D)
  <2> DEFINE f == Added(config, games, c)
             base == IF c = "games" THEN Len(games) ELSE 0
  <2>1. \A g \in D : f[g] = AddsTo(config, g, c)
    BY <1>1 DEF Added
  <2>2. \A g \in D : f[g] \in Int
    BY <1>1, <1>10, <2>1, AddsFacts
  <2>3. f[game] = adds(c)
    BY <1>1, <2>1 DEF adds
  <2> HIDE DEF f
  <2>4. SumOn(f, D) = f[game] + SumOn(f, E)
    <3>1. SumOn(f, D) = f[game] + SumOn(f, D \ {game})
      BY <1>1, <2>2, SumTakesOut
    <3> QED BY <1>1, <3>1
  <2>5. SumOn(f, E) \in Int
    <3>1. IsFiniteSet(E) /\ \A g \in E : f[g] \in Int
      BY <1>1, <2>2, FS_Subset
    <3> QED BY <3>1, SumIsInt
  <2>6. m.stats[c] = base + SumOn(f, E)
    BY <1>10 DEF IsTally, E, f
  <2>7. base \in Int
    BY DEF AreRecordings, IsList
  <2> HIDE DEF base
  <2>8. sum[c] = base + SumOn(f, D)
    BY <1>8, <1>10, <2>3, <2>4, <2>5, <2>6, <2>7
  <2> QED BY <2>8 DEF base, f
<1>11. /\ sum["replayed"] + sum["multiplayer"] + sum["illegal_move"] + sum["board_size"] = k
       /\ sum["neutral_turns"] = sum["short_horizon"] + sum["flat"] + sum["no_winner"] + Len(w)
  <2> DEFINE s == m.stats
  <2>1. /\ s["replayed"] + s["multiplayer"] + s["illegal_move"] + s["board_size"] = k - 1
        /\ s["neutral_turns"] = s["short_horizon"] + s["flat"] + s["no_winner"] + Len(l)
    BY DEF IsTally, l
  <2>2. \A c \in Counters : sum[c] = s[c] + adds(c) /\ s[c] \in Int /\ adds(c) \in Int
    BY <1>8
  <2> HIDE DEF s
  <2>3. ASSUME NEW c \in {"replayed", "multiplayer", "illegal_move", "board_size",
                         "neutral_turns", "short_horizon", "flat", "no_winner"}
        PROVE  sum[c] = s[c] + adds(c) /\ s[c] \in Int /\ adds(c) \in Int
    BY <2>2 DEF Counters
  <2>4. sum["replayed"] + sum["multiplayer"] + sum["illegal_move"] + sum["board_size"] = k
    <3>1. /\ sum["replayed"] = s["replayed"] + adds("replayed")
          /\ sum["multiplayer"] = s["multiplayer"] + adds("multiplayer")
          /\ sum["illegal_move"] = s["illegal_move"] + adds("illegal_move")
          /\ sum["board_size"] = s["board_size"] + adds("board_size")
      BY <2>3
    <3>2. /\ s["replayed"] \in Int /\ s["multiplayer"] \in Int
          /\ s["illegal_move"] \in Int /\ s["board_size"] \in Int
          /\ adds("replayed") \in Int /\ adds("multiplayer") \in Int
          /\ adds("illegal_move") \in Int /\ adds("board_size") \in Int
      BY <2>3
    <3> DEFINE a == s["replayed"]
               b == s["multiplayer"]
               c == s["illegal_move"]
               d == s["board_size"]
               v == adds("replayed")
               x == adds("multiplayer")
               r == adds("illegal_move")
               z == adds("board_size")
    <3>3. a + b + c + d = k - 1 /\ v + x + r + z = 1
      BY <1>4, <2>1
    <3>4. a \in Int /\ b \in Int /\ c \in Int /\ d \in Int /\ v \in Int /\ x \in Int /\ r \in Int /\ z \in Int /\ k \in Int
      BY <1>5, <3>2
    <3> HIDE DEF a, b, c, d, v, x, r, z
    <3>5. (a + v) + (b + x) + (c + r) + (d + z) = k
      BY <3>3, <3>4
    <3> QED BY <3>1, <3>5 DEF a, b, c, d, v, x, r, z
  <2>5. sum["neutral_turns"] = sum["short_horizon"] + sum["flat"] + sum["no_winner"] + Len(w)
    <3>1. /\ sum["neutral_turns"] = s["neutral_turns"] + adds("neutral_turns")
          /\ sum["short_horizon"] = s["short_horizon"] + adds("short_horizon")
          /\ sum["flat"] = s["flat"] + adds("flat")
          /\ sum["no_winner"] = s["no_winner"] + adds("no_winner")
      BY <2>3
    <3>2. /\ s["neutral_turns"] \in Int /\ s["short_horizon"] \in Int
          /\ s["flat"] \in Int /\ s["no_winner"] \in Int
          /\ adds("neutral_turns") \in Int /\ adds("short_horizon") \in Int
          /\ adds("flat") \in Int /\ adds("no_winner") \in Int
      BY <2>3
    <3> DEFINE a == s["neutral_turns"]
               b == s["short_horizon"]
               c == s["flat"]
               d == s["no_winner"]
               v == adds("neutral_turns")
               x == adds("short_horizon")
               r == adds("flat")
               z == adds("no_winner")
               n == Len(l)
               o == Len(y)
    <3>3. a = b + c + d + n /\ v = x + r + z + o /\ Len(w) = n + o
      BY <1>4, <1>6, <2>1
    <3>4. /\ a \in Int /\ b \in Int /\ c \in Int /\ d \in Int /\ v \in Int /\ x \in Int /\ r \in Int /\ z \in Int
          /\ n \in Int /\ o \in Int
      BY <1>6, <3>2
    <3> HIDE DEF a, b, c, d, v, x, r, z, n, o
    <3>5. a + v = (b + x) + (c + r) + (d + z) + (n + o)
      BY <3>3, <3>4
    <3> QED BY <3>1, <3>3, <3>5 DEF a, b, c, d, v, x, r, z
  <2> QED BY <2>4, <2>5
<1>12. IsTally(u, config, games, k)
  BY <1>6, <1>7, <1>9, <1>10, <1>11 DEF IsTally, D
<1> QED BY <1>12 DEF u, game

\* Where mining starts.
Unmined(games) == [stats |-> CountUp(NoMineStats, "games", Len(games)), candidates |-> <<>>]

\* What all the games amount to.
LEMMA GamesTally ==
  ASSUME NEW config, NEW games, AreRecordings(games)
  PROVE  IsTally(GamesFrom(Unmined(games), config, games), config, games, Len(games))
<1> DEFINE n == Len(games)
           first == Unmined(games)
           how == [kind |-> "game", config |-> config, start |-> first]
           all == GamesFrom(first, config, games)
<1>1. n \in Nat /\ DOMAIN games = 1..n
  BY DEF AreRecordings, IsList
<1>2. IsTally(first, config, games, 0)
  <2> DEFINE e == <<>>
             s == CountUp(NoMineStats, "games", n)
  <2>1. NothingIn(e, ToSet(e))
    BY EmptyFacts
  <2>2. s \in [Counters -> Int] /\ \A c \in Counters : s[c] = IF c = "games" THEN n ELSE 0
    <3>1. NoMineStats \in [Counters -> Int] /\ \A c \in Counters : NoMineStats[c] = 0
      BY DEF NoMineStats, Counters
    <3>2. s = [NoMineStats EXCEPT !["games"] = @ + n] /\ "games" \in Counters
      BY DEF CountUp, Counters
    <3> HIDE DEF s
    <3>3. \A c \in Counters : s[c] = IF c = "games" THEN n ELSE 0
      <4> TAKE c \in Counters
      <4>1. CASE c = "games"
        BY <1>1, <3>1, <3>2, <4>1
      <4>2. CASE c # "games"
        BY <1>1, <3>1, <3>2, <4>2
      <4> QED BY <4>1, <4>2
    <3> QED BY <1>1, <3>1, <3>2, <3>3
  <2>3. first.stats = s /\ first.candidates = e /\ first = [stats |-> s, candidates |-> e]
    BY DEF Unmined
  <2> HIDE DEF e, s, first
  <2>4. IsMine(first) /\ IsInjective(e) /\ ToSet(e) = {} /\ Len(e) = 0
    BY <2>1, <2>2, <2>3 DEF IsMine, NothingIn
  <2>5. Read(games, 0) = {} /\ Harvest(config, {}) = {}
    BY DEF Read, Harvest
  <2>6. \A c \in Counters : s[c] = (IF c = "games" THEN n ELSE 0) + SumOn(Added(config, games, c), {})
    <3> TAKE c \in Counters
    <3>1. SumOn(Added(config, games, c), {}) = 0
      BY SumOfNone
    <3> QED BY <1>1, <2>2, <3>1
  <2>7. /\ s["replayed"] = 0 /\ s["multiplayer"] = 0 /\ s["illegal_move"] = 0 /\ s["board_size"] = 0
        /\ s["neutral_turns"] = 0 /\ s["short_horizon"] = 0 /\ s["flat"] = 0 /\ s["no_winner"] = 0
    BY <2>2 DEF Counters
  <2>8. /\ s["replayed"] + s["multiplayer"] + s["illegal_move"] + s["board_size"] = 0
        /\ s["neutral_turns"] = s["short_horizon"] + s["flat"] + s["no_winner"] + Len(e)
    BY <2>4, <2>7
  <2> QED BY <2>3, <2>4, <2>5, <2>6, <2>8 DEF IsTally
<1> HIDE DEF first
<1>3. PICK st : Gathers(st, games, how, n) /\ all = st[n]
  BY <1>1, GamesGather
<1>4. how.kind = "game" /\ how.config = config /\ how.start = first
  OBVIOUS
<1> HIDE DEF how, all
<1> DEFINE G == {k \in 0..n : IsTally(st[k], config, games, k)}
<1>5. 0 \in G
  BY <1>1, <1>2, <1>3, <1>4 DEF Gathers
<1>6. ASSUME NEW k \in 1..n, k - 1 \in G PROVE k \in G
  <2>1. st[k] = MineGame(st[k - 1], config, games[k], Replay(games[k]))
    BY <1>3, <1>4 DEF Gathers, Step
  <2>2. IsTally(st[k - 1], config, games, k - 1)
    BY <1>6
  <2>3. IsTally(MineGame(st[k - 1], config, games[k], Replay(games[k])), config, games, k)
    BY <2>2, GameTallies
  <2> QED BY <2>1, <2>3
<1> HIDE DEF G
<1>7. \A k \in 0..n : k \in G
  BY <1>1, <1>5, <1>6, Climb
<1>8. n \in G
  BY <1>1, <1>7
<1> QED BY <1>3, <1>8 DEF G, all, first

(***************************************************************************)
(* One key, one position; one set, one order                               *)
(***************************************************************************)
\* The keys of two starts tell them apart as their snapshots do.
LEMMA KeyIsThePosition ==
  ASSUME NEW s \in Starts, NEW t \in Starts
  PROVE  s.hash = t.hash <=> Snapshot(s) = Snapshot(t)
<1>1. \A u \in {s, t} :
        /\ Shaped(u) /\ u.cells \in [Pos -> Cell] /\ u.neutralUsed \subseteq Seat /\ HashHolds(u)
        /\ u.players = 2 /\ u.movesLeft = ActionsPerTurn /\ u.winner = 0 /\ ~u.over /\ u.over \in BOOLEAN
        /\ u.active = {p \in Seat : BaseIntact(u.cells, p)}
  BY StartFacts DEF Boarded
<1>2. ASSUME Snapshot(s) = Snapshot(t) PROVE s.hash = t.hash
  <2>1. /\ t.players = s.players /\ t.cells = s.cells /\ t.active = s.active
        /\ t.neutralUsed = s.neutralUsed /\ t.current = s.current /\ t.movesLeft = s.movesLeft
        /\ t.winner = s.winner /\ t.over = s.over
    BY <1>2 DEF Snapshot
  <2>2. t = s
    BY <1>1, <2>1, SamePosition
  <2> QED BY <2>2
<1>3. ASSUME NEW u \in {s, t}, NEW p PROVE <<"current", p>> \in u.hash <=> p = u.current
  <2>1. u.hash = RecomputedHash(u)
    BY <1>1 DEF HashHolds
  <2>2. \A k \in MovesLeftKey(u.movesLeft) \cup ActiveKeys(u.active)
                 \cup NeutralUsedKeys(u.neutralUsed) \cup CellKeys(u.cells) : k[1] # "current"
    BY KeyKinds
  <2> QED BY <2>1, <2>2 DEF RecomputedHash, CurrentKey
<1>4. ASSUME NEW u \in {s, t}, NEW p PROVE <<"neutral_used", p>> \in u.hash <=> p \in u.neutralUsed
  <2>1. u.hash = RecomputedHash(u)
    BY <1>1 DEF HashHolds
  <2>2. \A k \in CurrentKey(u.current) \cup MovesLeftKey(u.movesLeft) \cup ActiveKeys(u.active)
                 \cup CellKeys(u.cells) : k[1] # "neutral_used"
    BY KeyKinds
  <2>3. <<"neutral_used", p>> \in NeutralUsedKeys(u.neutralUsed) <=> p \in u.neutralUsed
    BY DEF NeutralUsedKeys
  <2> QED BY <2>1, <2>2, <2>3 DEF RecomputedHash
<1>5. ASSUME NEW u \in {s, t}, NEW c \in Pos, NEW x
      PROVE  <<"cell", c, x>> \in u.hash <=> (x = u.cells[c] /\ x # Empty)
  <2>1. u.hash = RecomputedHash(u)
    BY <1>1 DEF HashHolds
  <2>2. \A k \in CurrentKey(u.current) \cup MovesLeftKey(u.movesLeft) \cup ActiveKeys(u.active)
                 \cup NeutralUsedKeys(u.neutralUsed) : k[1] # "cell"
    BY KeyKinds
  <2>3. <<"cell", c, x>> \in CellKeys(u.cells) <=> (x = u.cells[c] /\ x # Empty)
    BY DEF CellKeys
  <2> QED BY <2>1, <2>2, <2>3 DEF RecomputedHash
<1>6. ASSUME s.hash = t.hash PROVE Snapshot(s) = Snapshot(t)
  <2>1. s.current = t.current
    BY <1>3, <1>6
  <2>2. s.neutralUsed = t.neutralUsed
    BY <1>4, <1>6
  <2>3. \A c \in Pos : s.cells[c] = t.cells[c]
    <3> TAKE c \in Pos
    <3>1. \A x : (x = s.cells[c] /\ x # Empty) <=> (x = t.cells[c] /\ x # Empty)
      BY <1>5, <1>6
    <3>2. s.cells[c] # Empty => s.cells[c] = t.cells[c]
      BY <3>1
    <3>3. t.cells[c] # Empty => s.cells[c] = t.cells[c]
      BY <3>1
    <3> QED BY <3>2, <3>3
  <2>4. s.cells = t.cells
    BY <1>1, <2>3
  <2> QED BY <1>1, <2>1, <2>2, <2>4 DEF Snapshot
<1> QED BY <1>2, <1>6

\* The candidates of a harvest: each names a turn no other does.
IsPool(S) ==
  /\ \A c \in S : IsCandidate(c)
  /\ \A c, d \in S : c.record.id = d.record.id /\ c.record.turn = d.record.turn => c = d

\* Two candidates have one key exactly if they have one snapshot.
LEMMA KeysTellApart ==
  ASSUME NEW c, NEW d, IsCandidate(c), IsCandidate(d)
  PROVE  c.hash = d.hash <=> c.record.snapshot = d.record.snapshot
<1>1. PICK s \in Starts : c.hash = s.hash /\ c.record.snapshot = Snapshot(s)
  BY DEF IsCandidate
<1>2. PICK t \in Starts : d.hash = t.hash /\ d.record.snapshot = Snapshot(t)
  BY DEF IsCandidate
<1> QED BY <1>1, <1>2, KeyIsThePosition

\* Turn numbers are in a strict order as text.
LEMMA NumeralsAreOrdered ==
  /\ \A t \in Int : ~ReadsBefore(t, t)
  /\ \A t, u \in Int : t # u => ReadsBefore(t, u) \/ ReadsBefore(u, t)
  /\ \A t, u \in Int : ReadsBefore(t, u) => ~ReadsBefore(u, t)
  /\ \A t, u, v \in Int : ReadsBefore(t, u) /\ ReadsBefore(u, v) => ReadsBefore(t, v)
<1>1. \A t \in Int : LeftAligned(t) \in Int
  BY DEF LeftAligned
<1> QED BY <1>1 DEF ReadsBefore

\* Of two candidates of a pool one is before the other, and then not the other way.
LEMMA BeforeIsStrict ==
  ASSUME NEW S, IsPool(S)
  PROVE  /\ \A c \in S : ~Before(c, c)
         /\ \A c, d \in S : c # d => Before(c, d) \/ Before(d, c)
         /\ \A c, d \in S : Before(c, d) => ~Before(d, c) /\ c.swing <= d.swing
         /\ \A c, d, e \in S : Before(c, d) /\ Before(d, e) => Before(c, e)
<1>1. \A c \in S : c.swing \in Int /\ c.record.id \in Int /\ c.record.turn \in Int
  BY DEF IsPool, IsCandidate
<1>2. \A c, d \in S : c # d => Before(c, d) \/ Before(d, c)
  <2> TAKE c, d \in S
  <2>1. c # d => c.record.id # d.record.id \/ c.record.turn # d.record.turn
    BY DEF IsPool
  <2> QED BY <1>1, <2>1, NumeralsAreOrdered DEF Before
<1>3. \A c \in S : ~Before(c, c)
  BY <1>1, NumeralsAreOrdered DEF Before
<1>4. \A c, d \in S : Before(c, d) => ~Before(d, c) /\ c.swing <= d.swing
  BY <1>1, NumeralsAreOrdered DEF Before
<1>5. \A c, d, e \in S : Before(c, d) /\ Before(d, e) => Before(c, e)
  BY <1>1, NumeralsAreOrdered DEF Before
<1> QED BY <1>2, <1>3, <1>4, <1>5

\* The members of S from first to last.
Ascends(o, S) ==
  /\ o \in Seq(S) /\ ToSet(o) = S
  /\ \A i, j \in DOMAIN o : i < j => Before(o[i], o[j])

\* Ordering a list without repeats lists its members from first to last.
LEMMA OrderedAscends ==
  ASSUME NEW l, IsList(l), IsInjective(l), IsPool(ToSet(l))
  PROVE  Ascends(Ordered(l), ToSet(l))
<1> DEFINE S == ToSet(l)
           n == Len(l)
           upto(i) == {j \in 1..n : \/ Before(l[j], l[i])
                                    \/ ~Before(l[i], l[j]) /\ j <= i}
           rank == [i \in 1..n |-> Cardinality(upto(i))]
           place(k) == CHOOSE i \in 1..n : rank[i] = k
           o == Ordered(l)
<1>1. /\ n \in Nat /\ DOMAIN l = 1..n /\ \A i \in 1..n : l[i] \in S
      /\ \A c \in S : \E i \in 1..n : c = l[i]
  BY DEF IsList, ToSet
<1>2. /\ \A c \in S : ~Before(c, c)
      /\ \A c, d \in S : c # d => Before(c, d) \/ Before(d, c)
      /\ \A c, d \in S : Before(c, d) => ~Before(d, c)
      /\ \A c, d, e \in S : Before(c, d) /\ Before(d, e) => Before(c, e)
  BY BeforeIsStrict
<1>3. \A i, j \in 1..n : l[i] = l[j] => i = j
  BY <1>1 DEF IsInjective
<1>4. o = [k \in 1..n |-> l[place(k)]]
  BY <1>1 DEF Ordered
<1>5. \A i, j \in 1..n : j \in upto(i) <=> (j = i \/ Before(l[j], l[i]))
  <2> TAKE i, j \in 1..n
  <2>1. ~Before(l[i], l[i]) /\ i <= i
    BY <1>1, <1>2
  <2>2. j # i => Before(l[i], l[j]) \/ Before(l[j], l[i])
    BY <1>1, <1>2, <1>3
  <2> QED BY <2>1, <2>2
<1> HIDE DEF S, n, o
<1>6. IsFiniteSet(1..n) /\ Cardinality(1..n) = n
  BY <1>1, FS_Interval
<1>7. \A i \in 1..n : rank[i] \in 1..n
  <2> TAKE i \in 1..n
  <2>1. upto(i) \subseteq 1..n /\ IsFiniteSet(upto(i)) /\ i \in upto(i)
    BY <1>5, <1>6, FS_Subset
  <2> HIDE DEF upto
  <2>2. Cardinality(upto(i)) \in Nat /\ Cardinality(upto(i)) <= n /\ Cardinality(upto(i)) # 0
    BY <1>6, <2>1, FS_CardinalityType, FS_Subset, FS_EmptySet
  <2> QED BY <1>1, <2>2
<1>8. \A i, j \in 1..n : Before(l[i], l[j]) => rank[i] < rank[j]
  <2> SUFFICES ASSUME NEW i \in 1..n, NEW j \in 1..n, Before(l[i], l[j]) PROVE rank[i] < rank[j]
    OBVIOUS
  <2>1. upto(i) \subseteq upto(j)
    <3> SUFFICES ASSUME NEW k \in upto(i) PROVE k \in upto(j)
      OBVIOUS
    <3>1. k \in 1..n
      OBVIOUS
    <3>2. k = i \/ Before(l[k], l[i])
      BY <1>5, <3>1
    <3>3. Before(l[k], l[j])
      BY <1>1, <1>2, <3>1, <3>2
    <3> QED BY <1>5, <3>1, <3>3
  <2>2. j \in upto(j) /\ j \notin upto(i)
    <3>1. j # i /\ ~Before(l[j], l[i])
      BY <1>1, <1>2
    <3> QED BY <1>5, <3>1
  <2>3. IsFiniteSet(upto(j)) /\ IsFiniteSet(upto(i))
    BY <1>6, FS_Subset
  <2> HIDE DEF upto
  <2>4. Cardinality(upto(i)) <= Cardinality(upto(j)) /\ Cardinality(upto(i)) # Cardinality(upto(j))
    BY <2>1, <2>2, <2>3, FS_Subset
  <2>5. Cardinality(upto(i)) \in Nat /\ Cardinality(upto(j)) \in Nat
    BY <2>3, FS_CardinalityType
  <2> QED BY <2>4, <2>5
<1> HIDE DEF upto
<1>9. \A i, j \in 1..n : rank[i] = rank[j] => i = j
  <2> SUFFICES ASSUME NEW i \in 1..n, NEW j \in 1..n, rank[i] = rank[j], i # j PROVE FALSE
    OBVIOUS
  <2>1. Before(l[i], l[j]) \/ Before(l[j], l[i])
    BY <1>1, <1>2, <1>3
  <2>2. rank[i] < rank[j] \/ rank[j] < rank[i]
    BY <1>8, <2>1
  <2>3. rank[i] \in 1..n /\ rank[j] \in 1..n
    BY <1>7
  <2> HIDE DEF rank
  <2> QED BY <2>2, <2>3
<1>10. rank \in [1..n -> 1..n]
  <2>1. rank = [i \in 1..n |-> rank[i]]
    OBVIOUS
  <2> HIDE DEF rank
  <2> QED BY <1>7, <2>1
<1> HIDE DEF rank
<1>11. \A k \in 1..n : \E i \in 1..n : rank[i] = k
  <2>1. rank \in Injection(1..n, 1..n)
    BY <1>9, <1>10 DEF Injection, IsInjective
  <2>2. rank \in Surjection(1..n, 1..n)
    BY <1>6, <2>1, FS_Injection
  <2> QED BY <2>2 DEF Surjection
<1>12. \A k \in 1..n : place(k) \in 1..n /\ rank[place(k)] = k
  BY <1>11
<1>13. \A i \in 1..n : place(rank[i]) = i
  BY <1>7, <1>9, <1>12
<1> HIDE DEF place
<1>14. o \in Seq(S) /\ DOMAIN o = 1..n
  <2>1. o \in [1..n -> S]
    BY <1>1, <1>4, <1>12
  <2>2. DOMAIN o = 1..n
    BY <1>4
  <2> QED BY <1>1, <2>1, <2>2, SeqDef
<1>15. ToSet(o) = S
  <2>1. \A c \in S : \E k \in 1..n : o[k] = c
    <3> TAKE c \in S
    <3>1. PICK i \in 1..n : c = l[i]
      BY <1>1
    <3>2. rank[i] \in 1..n /\ o[rank[i]] = l[i]
      BY <1>4, <1>7, <1>13
    <3> QED BY <3>1, <3>2
  <2>2. \A k \in 1..n : o[k] \in S
    BY <1>1, <1>4, <1>12
  <2> QED BY <1>14, <2>1, <2>2 DEF ToSet
<1>16. ASSUME NEW i \in 1..n, NEW j \in 1..n, i < j
       PROVE  Before(o[i], o[j])
  <2> DEFINE a == place(i)
             b == place(j)
  <2>1. a \in 1..n /\ b \in 1..n /\ rank[a] = i /\ rank[b] = j /\ o[i] = l[a] /\ o[j] = l[b]
    BY <1>4, <1>12
  <2> HIDE DEF a, b
  <2>2. a # b /\ ~(rank[b] < rank[a])
    BY <1>1, <1>16, <2>1
  <2>3. Before(l[a], l[b]) \/ Before(l[b], l[a])
    BY <1>1, <1>2, <1>3, <2>1, <2>2
  <2> QED BY <1>8, <2>1, <2>2, <2>3
<1> QED BY <1>14, <1>15, <1>16 DEF Ascends, S, o

\* There is one way to list a pool from first to last.
LEMMA OneOrder ==
  ASSUME NEW S, IsPool(S), NEW o, NEW w, Ascends(o, S), Ascends(w, S)
  PROVE  o = w
<1> DEFINE n == Len(o)
<1>1. \A u \in {o, w} : u \in Seq(S) /\ Len(u) \in Nat /\ DOMAIN u = 1..Len(u) /\ ToSet(u) = S
  BY DEF Ascends
<1>2. /\ \A c \in S : ~Before(c, c)
      /\ \A c, d \in S : Before(c, d) => ~Before(d, c)
  BY BeforeIsStrict
<1>3. ASSUME NEW u \in {o, w}
      PROVE  IsInjective(u) /\ Cardinality(S) = Len(u)
  <2>1. \A i, j \in DOMAIN u : i < j => Before(u[i], u[j])
    BY <1>3 DEF Ascends
  <2>2. \A i \in DOMAIN u : u[i] \in S /\ i \in Nat
    BY <1>1
  <2>3. \A i, j \in DOMAIN u : i < j => u[i] # u[j]
    BY <1>2, <2>1, <2>2
  <2>4. \A i, j \in DOMAIN u : u[i] = u[j] => i = j
    BY <2>2, <2>3
  <2>5. IsInjective(u)
    BY <2>4 DEF IsInjective
  <2> QED BY <1>1, <2>5, LengthCounts
<1>4. Len(w) = n /\ n \in Nat /\ DOMAIN o = 1..n /\ DOMAIN w = 1..n
  BY <1>1, <1>3
<1> HIDE DEF n
<1> DEFINE G == {k \in 0..n : \A j \in 1..k : o[j] = w[j]}
<1>5. ASSUME NEW k \in 1..n, k - 1 \in G, NEW u \in {o, w}, NEW v \in {o, w}, {u, v} = {o, w}
      PROVE  u[k] = v[k] \/ Before(v[k], u[k])
  <2>1. u[k] \in S
    BY <1>1, <1>4
  <2>2. PICK m \in 1..n : u[k] = v[m]
    BY <1>1, <1>4, <2>1 DEF ToSet
  <2>3. \A j \in 1..(k - 1) : u[j] = v[j]
    BY <1>5
  <2>4. ~(m < k)
    <3> SUFFICES ASSUME m < k PROVE FALSE
      OBVIOUS
    <3>1. m \in 1..(k - 1)
      BY <1>4
    <3>2. u[m] = u[k] /\ m # k
      BY <1>4, <2>2, <2>3, <3>1
    <3> QED BY <1>3, <1>4, <3>2 DEF IsInjective
  <2>5. m = k \/ k < m
    BY <1>4, <2>4
  <2>6. k < m => Before(v[k], v[m])
    BY <1>4 DEF Ascends
  <2> QED BY <2>2, <2>5, <2>6
<1>6. ASSUME NEW k \in 1..n, k - 1 \in G PROVE k \in G
  <2>1. o[k] = w[k] \/ Before(w[k], o[k])
    BY <1>5, <1>6
  <2>2. w[k] = o[k] \/ Before(o[k], w[k])
    BY <1>5, <1>6
  <2>3. o[k] \in S /\ w[k] \in S
    BY <1>1, <1>4
  <2>4. o[k] = w[k]
    BY <1>2, <2>1, <2>2, <2>3
  <2>5. \A j \in 1..k : j \in 1..(k - 1) \/ j = k
    BY <1>4
  <2>6. \A j \in 1..(k - 1) : o[j] = w[j]
    BY <1>6
  <2>7. k \in 0..n
    BY <1>4
  <2> QED BY <2>4, <2>5, <2>6, <2>7
<1>7. 0 \in G
  BY <1>4
<1> HIDE DEF G
<1>8. n \in G
  <2>1. \A k \in 0..n : k \in G
    BY <1>4, <1>6, <1>7, Climb
  <2> QED BY <1>4, <2>1
<1>9. \A j \in 1..n : o[j] = w[j]
  BY <1>8 DEF G
<1>10. o = [j \in 1..n |-> o[j]] /\ w = [j \in 1..n |-> w[j]]
  BY <1>1, <1>4
<1> QED BY <1>9, <1>10

(***************************************************************************)
(* What is taken of a class                                                *)
(***************************************************************************)
\* Place a of l is where the record kept at j comes from.
ComesFrom(t, l, j, a) == l[a].record = t.kept[j] /\ l[a].hash \in t.seen

\* What has been taken after k candidates: no snapshot twice, each from a candidate of the
\* class, nothing seen but what is kept, and nothing passed over but for want of room.
IsTaken(t, l, class, limit, seen, k) ==
  /\ t = [kept |-> t.kept, seen |-> t.seen, duplicates |-> t.duplicates]
  /\ t.duplicates \in Int /\ IsList(t.kept) /\ Len(t.kept) <= limit /\ seen \subseteq t.seen
  /\ \A i, j \in DOMAIN t.kept : i # j => t.kept[i].snapshot # t.kept[j].snapshot
  /\ \A j \in DOMAIN t.kept :
       \E a \in 1..k : ComesFrom(t, l, j, a) /\ l[a].record.class = class /\ l[a].hash \notin seen
  /\ \A h \in t.seen \ seen : \E j \in DOMAIN t.kept : \E a \in 1..k : ComesFrom(t, l, j, a) /\ l[a].hash = h
  /\ \A a \in 1..k : l[a].record.class = class =>
       \/ l[a].hash \in t.seen
       \/ Len(t.kept) = limit /\ \A j \in DOMAIN t.kept : \E b \in 1..a : ComesFrom(t, l, j, b)

\* One more candidate read.
LEMMA OneTaken ==
  ASSUME NEW l, IsList(l), \A c \in ToSet(l) : IsCandidate(c), NEW k \in 1..Len(l),
         NEW class, NEW limit \in Nat, NEW seen, NEW t, IsTaken(t, l, class, limit, seen, k - 1)
  PROVE  IsTaken(TakeOne(t, l[k], class, limit), l, class, limit, seen, k)
<1> DEFINE c == l[k]
           u == TakeOne(t, c, class, limit)
<1>1. /\ k \in Nat /\ 1..k = 1..(k - 1) \cup {k} /\ k \notin 1..(k - 1) /\ k \in 1..k
      /\ \A a \in 1..k : l[a] \in ToSet(l) /\ IsCandidate(l[a])
      /\ \A a \in 1..k : 1..a \subseteq 1..k
  <2>1. Len(l) \in Nat /\ DOMAIN l = 1..Len(l)
    BY DEF IsList
  <2>2. \A a \in 1..k : l[a] \in ToSet(l)
    BY <2>1 DEF ToSet
  <2> QED BY <2>1, <2>2
<1>2. /\ t = [kept |-> t.kept, seen |-> t.seen, duplicates |-> t.duplicates]
      /\ t.duplicates \in Int /\ IsList(t.kept) /\ Len(t.kept) <= limit /\ seen \subseteq t.seen
      /\ \A i, j \in DOMAIN t.kept : i # j => t.kept[i].snapshot # t.kept[j].snapshot
      /\ \A j \in DOMAIN t.kept :
           \E a \in 1..(k - 1) : ComesFrom(t, l, j, a) /\ l[a].record.class = class /\ l[a].hash \notin seen
      /\ \A h \in t.seen \ seen :
           \E j \in DOMAIN t.kept : \E a \in 1..(k - 1) : ComesFrom(t, l, j, a) /\ l[a].hash = h
      /\ \A a \in 1..(k - 1) : l[a].record.class = class =>
           \/ l[a].hash \in t.seen
           \/ Len(t.kept) = limit /\ \A j \in DOMAIN t.kept : \E b \in 1..a : ComesFrom(t, l, j, b)
  BY DEF IsTaken
<1>3. Len(t.kept) \in Nat /\ DOMAIN t.kept = 1..Len(t.kept)
  BY <1>2 DEF IsList
<1> HIDE DEF c, u
<1>4. ASSUME NEW more \in Int, u = [t EXCEPT !.duplicates = @ + more],
             c.record.class = class => (c.hash \in t.seen \/ Len(t.kept) = limit)
      PROVE  IsTaken(u, l, class, limit, seen, k)
  <2>1. /\ u = [kept |-> u.kept, seen |-> u.seen, duplicates |-> u.duplicates]
        /\ u.kept = t.kept /\ u.seen = t.seen /\ u.duplicates \in Int
    BY <1>2, <1>4
  <2>2. \A j, a : ComesFrom(u, l, j, a) <=> ComesFrom(t, l, j, a)
    BY <2>1 DEF ComesFrom
  <2>3. ASSUME NEW a \in 1..k, l[a].record.class = class
        PROVE  \/ l[a].hash \in t.seen
               \/ Len(t.kept) = limit /\ \A j \in DOMAIN t.kept : \E b \in 1..a : ComesFrom(t, l, j, b)
    <3>1. CASE a \in 1..(k - 1)
      BY <1>2, <2>3, <3>1
    <3>2. CASE a = k
      <4>1. \A j \in DOMAIN t.kept : \E b \in 1..a : ComesFrom(t, l, j, b)
        BY <1>1, <1>2, <3>2
      <4> QED BY <1>4, <2>3, <3>2, <4>1 DEF c
    <3> QED BY <1>1, <3>1, <3>2
  <2>4. \A j \in DOMAIN t.kept :
          \E a \in 1..k : ComesFrom(t, l, j, a) /\ l[a].record.class = class /\ l[a].hash \notin seen
    BY <1>1, <1>2
  <2>5. \A h \in t.seen \ seen :
          \E j \in DOMAIN t.kept : \E a \in 1..k : ComesFrom(t, l, j, a) /\ l[a].hash = h
    BY <1>1, <1>2
  <2> QED BY <1>2, <2>1, <2>2, <2>3, <2>4, <2>5 DEF IsTaken
<1>5. CASE Len(t.kept) >= limit \/ c.record.class # class
  <2>1. u = [t EXCEPT !.duplicates = @ + 0]
    <3>1. u = t
      BY <1>5 DEF u, TakeOne
    <3>2. t.duplicates + 0 = t.duplicates
      BY <1>2
    <3> QED BY <1>2, <3>1, <3>2
  <2>2. c.record.class = class => Len(t.kept) = limit
    BY <1>2, <1>3, <1>5
  <2> QED BY <1>4, <2>1, <2>2 DEF u, c
<1>6. CASE ~(Len(t.kept) >= limit \/ c.record.class # class) /\ c.hash \in t.seen
  <2>1. u = [t EXCEPT !.duplicates = @ + 1]
    BY <1>6 DEF u, TakeOne
  <2> QED BY <1>4, <1>6, <2>1 DEF u, c
<1>7. CASE ~(Len(t.kept) >= limit \/ c.record.class # class) /\ c.hash \notin t.seen
  <2> DEFINE w == Append(t.kept, c.record)
             n == Len(t.kept)
             X == ToSet(t.kept) \cup {c.record}
  <2>1. u = [t EXCEPT !.kept = Append(@, c.record), !.seen = @ \cup {c.hash}]
    BY <1>7 DEF u, TakeOne
  <2>2. /\ u = [kept |-> u.kept, seen |-> u.seen, duplicates |-> u.duplicates]
        /\ u.kept = w /\ u.seen = t.seen \cup {c.hash} /\ u.duplicates \in Int
    BY <1>2, <2>1
  <2>3. /\ w \in Seq(X) /\ ToSet(w) = X /\ Len(w) = n + 1 /\ DOMAIN w = 1..(n + 1)
        /\ \A j \in 1..n : w[j] = t.kept[j]
        /\ w[n + 1] = c.record
    <3>1. t.kept \in Seq(X) /\ c.record \in X
      BY <1>2, SeqMonotonic DEF IsList
    <3>2. w \in Seq(X) /\ ToSet(w) = ToSet(t.kept) \cup {c.record}
      <4> HIDE DEF X
      <4> QED BY <3>1, AppendFacts
    <3>3. /\ Len(w) = n + 1 /\ DOMAIN w = 1..(n + 1)
          /\ \A j \in 1..n : w[j] = t.kept[j]
          /\ w[n + 1] = c.record
      <4> HIDE DEF X
      <4> QED BY <1>3, <3>1, AppendProperties, LenProperties
    <3> QED BY <3>2, <3>3
  <2>4. n \in Nat /\ n < limit /\ 1..(n + 1) = 1..n \cup {n + 1} /\ n + 1 \notin 1..n
    BY <1>2, <1>3, <1>7
  <2>5. DOMAIN t.kept = 1..n
    BY <1>3
  <2> HIDE DEF w, n, X
  <2>6. IsList(w) /\ Len(w) <= limit /\ seen \subseteq u.seen
    BY <1>2, <2>2, <2>3, <2>4 DEF IsList
  <2>7. \A j \in 1..n, a \in 1..k : ComesFrom(t, l, j, a) => ComesFrom(u, l, j, a)
    BY <2>2, <2>3 DEF ComesFrom
  <2>8. ComesFrom(u, l, n + 1, k)
    BY <2>2, <2>3 DEF ComesFrom, c
  <2>9. ASSUME NEW j \in 1..n PROVE w[j].snapshot # c.record.snapshot
    <3>1. PICK a \in 1..(k - 1) : ComesFrom(t, l, j, a)
      BY <1>2, <2>5
    <3>2. l[a].record = w[j] /\ l[a].hash # c.hash
      BY <1>7, <2>3, <3>1 DEF ComesFrom
    <3>3. IsCandidate(l[a]) /\ IsCandidate(c)
      BY <1>1 DEF c
    <3> QED BY <3>2, <3>3, KeysTellApart
  <2>10. \A i, j \in 1..(n + 1) : i # j => w[i].snapshot # w[j].snapshot
    <3> TAKE i, j \in 1..(n + 1)
    <3>1. ASSUME i \in 1..n, j \in 1..n, i # j PROVE w[i].snapshot # w[j].snapshot
      BY <1>2, <2>3, <2>5, <3>1
    <3>2. ASSUME i \in 1..n, j = n + 1 PROVE w[i].snapshot # w[j].snapshot
      BY <2>3, <2>9, <3>2
    <3>3. ASSUME i = n + 1, j \in 1..n PROVE w[i].snapshot # w[j].snapshot
      BY <2>3, <2>9, <3>3
    <3> QED BY <2>4, <3>1, <3>2, <3>3
  <2>11. \A j \in 1..(n + 1) :
           \E a \in 1..k : ComesFrom(u, l, j, a) /\ l[a].record.class = class /\ l[a].hash \notin seen
    <3> TAKE j \in 1..(n + 1)
    <3>1. CASE j \in 1..n
      <4>1. PICK a \in 1..(k - 1) : ComesFrom(t, l, j, a) /\ l[a].record.class = class /\ l[a].hash \notin seen
        BY <1>2, <2>5, <3>1
      <4>2. a \in 1..k
        BY <1>1
      <4> QED BY <2>7, <3>1, <4>1, <4>2
    <3>2. CASE j = n + 1
      <4>1. l[k].record.class = class /\ l[k].hash \notin seen
        BY <1>2, <1>7 DEF c
      <4> QED BY <1>1, <2>8, <3>2, <4>1
    <3> QED BY <2>4, <3>1, <3>2
  <2>12. \A h \in u.seen \ seen : \E j \in 1..(n + 1) : \E a \in 1..k : ComesFrom(u, l, j, a) /\ l[a].hash = h
    <3> TAKE h \in u.seen \ seen
    <3>1. CASE h \in t.seen
      <4>1. PICK j \in 1..n : \E a \in 1..(k - 1) : ComesFrom(t, l, j, a) /\ l[a].hash = h
        BY <1>2, <2>5, <3>1
      <4>2. PICK a \in 1..(k - 1) : ComesFrom(t, l, j, a) /\ l[a].hash = h
        BY <4>1
      <4>3. a \in 1..k /\ j \in 1..(n + 1)
        BY <1>1, <2>4
      <4> QED BY <2>7, <4>2, <4>3
    <3>2. CASE h = c.hash
      <4>1. n + 1 \in 1..(n + 1)
        BY <2>4
      <4> QED BY <1>1, <2>8, <3>2, <4>1 DEF c
    <3> QED BY <2>2, <3>1, <3>2
  <2>13. \A a \in 1..k : l[a].record.class = class => l[a].hash \in u.seen
    <3> SUFFICES ASSUME NEW a \in 1..k, l[a].record.class = class PROVE l[a].hash \in u.seen
      OBVIOUS
    <3>1. CASE a \in 1..(k - 1)
      <4>1. Len(t.kept) # limit
        BY <2>4 DEF n
      <4> QED BY <1>2, <2>2, <3>1, <4>1
    <3>2. CASE a = k
      BY <2>2, <3>2 DEF c
    <3> QED BY <1>1, <3>1, <3>2
  <2> QED BY <2>2, <2>3, <2>6, <2>10, <2>11, <2>12, <2>13 DEF IsTaken, u, c
<1> QED BY <1>5, <1>6, <1>7

\* What is taken of a class.
LEMMA TakeFacts ==
  ASSUME NEW l, IsList(l), \A c \in ToSet(l) : IsCandidate(c), NEW class, NEW limit \in Nat, NEW seen
  PROVE  IsTaken(Take(l, class, limit, seen), l, class, limit, seen, Len(l))
<1> DEFINE n == Len(l)
           first == [kept |-> <<>>, seen |-> seen, duplicates |-> 0]
           how == [kind |-> "take", class |-> class, limit |-> limit, start |-> first]
           all == TakenFrom(first, class, limit, l)
<1>1. n \in Nat /\ DOMAIN l = 1..n
  BY DEF IsList
<1>2. Take(l, class, limit, seen) = all
  BY DEF Take, TakenFrom
<1>3. IsTaken(first, l, class, limit, seen, 0)
  <2> DEFINE e == <<>>
  <2>1. NothingIn(e, ToSet(e))
    BY EmptyFacts
  <2>2. /\ first = [kept |-> first.kept, seen |-> first.seen, duplicates |-> first.duplicates]
        /\ first.kept = e /\ first.seen = seen /\ first.duplicates = 0
    OBVIOUS
  <2> HIDE DEF first, e
  <2>3. IsList(e) /\ Len(e) = 0 /\ DOMAIN e = {}
    BY <2>1 DEF NothingIn, IsList, ToSet
  <2> QED BY <2>2, <2>3 DEF IsTaken
<1>4. PICK st : Gathers(st, l, how, n) /\ all = st[n]
  BY <1>1, TakesGather
<1>5. how.kind = "take" /\ how.class = class /\ how.limit = limit /\ how.start = first
  OBVIOUS
<1> HIDE DEF how, all, first
<1> DEFINE G == {k \in 0..n : IsTaken(st[k], l, class, limit, seen, k)}
<1>6. 0 \in G
  BY <1>1, <1>3, <1>4, <1>5 DEF Gathers
<1>7. ASSUME NEW k \in 1..n, k - 1 \in G PROVE k \in G
  <2>1. st[k] = TakeOne(st[k - 1], l[k], class, limit)
    BY <1>4, <1>5 DEF Gathers, Step
  <2>2. IsTaken(st[k - 1], l, class, limit, seen, k - 1)
    BY <1>7
  <2>3. IsTaken(TakeOne(st[k - 1], l[k], class, limit), l, class, limit, seen, k)
    BY <2>2, OneTaken
  <2> QED BY <1>1, <2>1, <2>3
<1> HIDE DEF G
<1>8. \A k \in 0..n : k \in G
  BY <1>1, <1>6, <1>7, Climb
<1>9. n \in G
  BY <1>1, <1>8
<1> QED BY <1>2, <1>4, <1>9 DEF G

\* A list from its last to its first.
LEMMA ReverseFacts ==
  ASSUME NEW l, IsList(l)
  PROVE  /\ IsList(Reverse(l)) /\ ToSet(Reverse(l)) = ToSet(l) /\ Len(Reverse(l)) = Len(l)
         /\ Len(l) \in Nat /\ DOMAIN l = 1..Len(l) /\ DOMAIN Reverse(l) = 1..Len(l)
         /\ \A i \in 1..Len(l) : Len(l) - i + 1 \in 1..Len(l) /\ Reverse(l)[i] = l[Len(l) - i + 1]
         /\ IsInjective(l) => IsInjective(Reverse(l))
<1> DEFINE n == Len(l)
           r == Reverse(l)
<1>1. n \in Nat /\ DOMAIN l = 1..n
  BY DEF IsList
<1>2. r = [i \in 1..n |-> l[n - i + 1]]
  BY DEF Reverse
<1> HIDE DEF n, r
<1>3. \A i \in 1..n : n - i + 1 \in 1..n /\ n - (n - i + 1) + 1 = i
  BY <1>1
<1>4. DOMAIN r = 1..n /\ \A i \in 1..n : r[i] = l[n - i + 1] /\ l[i] = r[n - i + 1]
  BY <1>2, <1>3
<1>5. ToSet(r) = ToSet(l)
  BY <1>1, <1>3, <1>4 DEF ToSet
<1>6. r \in Seq(ToSet(r)) /\ Len(r) = n
  <2>1. r \in [1..n -> ToSet(r)]
    BY <1>2, <1>4 DEF ToSet
  <2>2. r \in Seq(ToSet(r))
    BY <1>1, <2>1, SeqDef
  <2> QED BY <1>1, <1>4, <2>2
<1>7. ASSUME IsInjective(l) PROVE IsInjective(r)
  <2>1. \A i, j \in 1..n : r[i] = r[j] => n - i + 1 = n - j + 1
    BY <1>1, <1>3, <1>4, <1>7 DEF IsInjective
  <2>2. \A i, j \in 1..n : n - i + 1 = n - j + 1 => i = j
    BY <1>1
  <2> QED BY <1>4, <2>1, <2>2 DEF IsInjective
<1> QED BY <1>1, <1>3, <1>4, <1>5, <1>6, <1>7 DEF IsList, n, r

(***************************************************************************)
(* What is selected                                                        *)
(***************************************************************************)
Suspects(o, config) == Take(o, "LostAdvantage", config.maxSuspect, {})
Controls(o, config) == Take(Reverse(o), "KeptAdvantage", config.maxControl, Suspects(o, config).seen)
Chosen(o, config) == Suspects(o, config).kept \o Controls(o, config).kept

OfClass(R, class) == {k \in DOMAIN R : R[k].class = class}
RoomFor(config, class) == IF class = "LostAdvantage" THEN config.maxSuspect ELSE config.maxControl

\* The chosen are apart, are as many as fit, and leave nothing better out.
IsSelection(R, o, config) ==
  /\ \A j, k \in DOMAIN R : j # k => R[j].snapshot # R[k].snapshot
  /\ \A class \in ProbeClass : Cardinality(OfClass(R, class)) <= RoomFor(config, class)
  /\ \A i \in DOMAIN o :
       \/ \E k \in DOMAIN R : R[k].snapshot = o[i].record.snapshot
       \/ /\ Cardinality(OfClass(R, o[i].record.class)) = RoomFor(config, o[i].record.class)
          /\ \A k \in OfClass(R, o[i].record.class) : Extremity(R[k]) >= Extremity(o[i].record)

\* A candidate no later than another is no less extreme, suspects from the front and
\* controls from the back.
LEMMA OrderIsExtremity ==
  ASSUME NEW S, IsPool(S), NEW o, Ascends(o, S), NEW i \in DOMAIN o, NEW j \in DOMAIN o, i <= j
  PROVE  /\ o[i].record.class = "LostAdvantage" /\ o[j].record.class = "LostAdvantage" =>
              Extremity(o[i].record) >= Extremity(o[j].record)
         /\ o[i].record.class = "KeptAdvantage" /\ o[j].record.class = "KeptAdvantage" =>
              Extremity(o[j].record) >= Extremity(o[i].record)
<1>1. i \in Nat /\ j \in Nat /\ o[i] \in S /\ o[j] \in S
  BY DEF Ascends
<1>2. /\ o[i].swing \in Int /\ o[i].record.labels.swing = o[i].swing
      /\ o[j].swing \in Int /\ o[j].record.labels.swing = o[j].swing
  BY <1>1 DEF IsPool, IsCandidate
<1>3. i = j \/ Before(o[i], o[j])
  BY <1>1 DEF Ascends
<1>4. o[i].swing <= o[j].swing
  BY <1>1, <1>2, <1>3, BeforeIsStrict
<1> QED BY <1>2, <1>4 DEF Extremity

\* What is selected of a pool is a selection of it.
LEMMA SelectionFacts ==
  ASSUME NEW S, IsPool(S), NEW o, Ascends(o, S),
         NEW config, config.maxSuspect \in Nat, config.maxControl \in Nat
  PROVE  /\ IsSelection(Chosen(o, config), o, config)
         /\ Suspects(o, config).duplicates \in Int /\ Controls(o, config).duplicates \in Int
<1> DEFINE n == Len(o)
           r == Reverse(o)
           maxS == config.maxSuspect
           maxC == config.maxControl
           t == Suspects(o, config)
           u == Controls(o, config)
           A == t.kept
           B == u.kept
           a == Len(A)
           b == Len(B)
           R == Chosen(o, config)
<1>1. /\ IsList(o) /\ IsList(r) /\ ToSet(o) = S /\ ToSet(r) = S /\ n \in Nat /\ Len(r) = n
      /\ DOMAIN o = 1..n /\ DOMAIN r = 1..n
      /\ \A i \in 1..n : n - i + 1 \in 1..n /\ r[i] = o[n - i + 1]
  <2>1. IsList(o) /\ ToSet(o) = S
    BY DEF Ascends, IsList
  <2> QED BY <2>1, ReverseFacts
<1>2. \A c \in S : IsCandidate(c)
  BY DEF IsPool
<1>3. IsTaken(t, o, "LostAdvantage", maxS, {}, n)
  BY <1>1, <1>2, TakeFacts DEF Suspects
<1>4. IsTaken(u, r, "KeptAdvantage", maxC, t.seen, n)
  BY <1>1, <1>2, TakeFacts DEF Controls
<1>5. R = A \o B
  BY DEF Chosen
<1>6. \A i \in 1..n : o[i] \in S /\ r[i] \in S /\ IsCandidate(o[i]) /\ IsCandidate(r[i])
  BY <1>1, <1>2 DEF ToSet
<1> HIDE DEF n, r, t, u, R
<1>7. /\ a \in Nat /\ b \in Nat /\ DOMAIN A = 1..a /\ DOMAIN B = 1..b /\ a <= maxS /\ b <= maxC
      /\ t.duplicates \in Int /\ u.duplicates \in Int
  <2>1. /\ IsList(A) /\ IsList(B) /\ a <= maxS /\ b <= maxC
        /\ t.duplicates \in Int /\ u.duplicates \in Int
    BY <1>3, <1>4 DEF IsTaken
  <2> QED BY <2>1 DEF IsList
<1>8. /\ DOMAIN R = 1..(a + b)
      /\ \A i \in 1..a : R[i] = A[i]
      /\ \A j \in 1..b : a + j \in 1..(a + b) /\ R[a + j] = B[j]
      /\ \A i \in 1..a : i \in 1..(a + b)
      /\ \A k \in 1..(a + b) : k \in 1..a \/ \E j \in 1..b : k = a + j
  <2> DEFINE X == ToSet(A) \cup ToSet(B)
  <2>1. IsList(A) /\ IsList(B)
    BY <1>3, <1>4 DEF IsTaken
  <2>2. A \in Seq(X) /\ B \in Seq(X)
    BY <2>1, SeqMonotonic DEF IsList
  <2> HIDE DEF X, A, B
  <2>3. /\ DOMAIN R = 1..(a + b)
        /\ \A i \in 1..(a + b) : R[i] = IF i <= a THEN A[i] ELSE B[i - a]
    BY <1>5, <2>2, ConcatProperties, LenProperties
  <2> HIDE DEF a, b
  <2>4. \A j \in 1..b : a + j \in 1..(a + b) /\ ~(a + j <= a) /\ a + j - a = j
    BY <1>7
  <2>5. \A i \in 1..a : i \in 1..(a + b) /\ i <= a
    BY <1>7
  <2>6. \A k \in 1..(a + b) : k \in 1..a \/ (k - a \in 1..b /\ k = a + (k - a))
    BY <1>7
  <2>7. \A i \in 1..a : R[i] = A[i]
    BY <2>3, <2>5
  <2>8. ASSUME NEW j \in 1..b PROVE R[a + j] = B[j]
    <3>1. PICK i \in 1..(a + b) : i = a + j /\ ~(i <= a) /\ i - a = j
      <4>1. a + j \in 1..(a + b) /\ ~(a + j <= a) /\ a + j - a = j
        BY <2>4
      <4> DEFINE i == a + j
      <4>2. i \in 1..(a + b) /\ i = a + j /\ ~(i <= a) /\ i - a = j
        BY <1>7, <4>1
      <4> HIDE DEF i
      <4> QED BY <4>2
    <3>2. R[i] = B[i - a]
      BY <2>3, <3>1
    <3> QED BY <3>1, <3>2
  <2>9. \A j \in 1..b : a + j \in 1..(a + b)
    BY <2>4
  <2>10. \A i \in 1..a : i \in 1..(a + b)
    BY <2>5
  <2>11. \A k \in 1..(a + b) : k \in 1..a \/ \E j \in 1..b : k = a + j
    BY <2>6
  <2> QED BY <2>3, <2>7, <2>8, <2>9, <2>10, <2>11
<1> HIDE DEF a, b
<1>9. ASSUME NEW j \in 1..a
      PROVE  \E x \in 1..n : ComesFrom(t, o, j, x) /\ o[x].record.class = "LostAdvantage"
  BY <1>3, <1>7 DEF IsTaken
<1>10. ASSUME NEW j \in 1..b
       PROVE  \E x \in 1..n : ComesFrom(u, r, j, x) /\ r[x].record.class = "KeptAdvantage" /\ r[x].hash \notin t.seen
  BY <1>4, <1>7 DEF IsTaken
<1>11. \A i \in 1..a : A[i].class = "LostAdvantage"
  BY <1>9 DEF ComesFrom
<1>12. \A j \in 1..b : B[j].class = "KeptAdvantage"
  BY <1>10 DEF ComesFrom
<1>13. ASSUME NEW i \in 1..a, NEW j \in 1..b PROVE A[i].snapshot # B[j].snapshot
  <2>1. PICK x \in 1..n : ComesFrom(t, o, i, x)
    BY <1>9
  <2>2. PICK y \in 1..n : ComesFrom(u, r, j, y) /\ r[y].hash \notin t.seen
    BY <1>10
  <2>3. A[i] = o[x].record /\ B[j] = r[y].record /\ o[x].hash # r[y].hash
    BY <2>1, <2>2 DEF ComesFrom
  <2> QED BY <1>6, <2>3, KeysTellApart
<1>14. /\ \A i, j \in 1..a : i # j => A[i].snapshot # A[j].snapshot
       /\ \A i, j \in 1..b : i # j => B[i].snapshot # B[j].snapshot
  BY <1>3, <1>4, <1>7 DEF IsTaken
<1>15. ASSUME NEW j \in DOMAIN R, NEW k \in DOMAIN R, j # k PROVE R[j].snapshot # R[k].snapshot
  <2> HIDE DEF A, B
  <2>1. ASSUME j \in 1..a, k \in 1..a PROVE R[j].snapshot # R[k].snapshot
    BY <1>8, <1>14, <1>15, <2>1
  <2>2. ASSUME j \in 1..a, k \notin 1..a PROVE R[j].snapshot # R[k].snapshot
    BY <1>8, <1>13, <2>2
  <2>3. ASSUME j \notin 1..a, k \in 1..a PROVE R[j].snapshot # R[k].snapshot
    BY <1>8, <1>13, <2>3
  <2>4. ASSUME j \notin 1..a, k \notin 1..a PROVE R[j].snapshot # R[k].snapshot
    <3>1. PICK x \in 1..b : j = a + x
      BY <1>8, <2>4
    <3>2. PICK y \in 1..b : k = a + y
      BY <1>8, <2>4
    <3>3. x # y
      BY <1>15, <3>1, <3>2
    <3> QED BY <1>8, <1>14, <3>1, <3>2, <3>3
  <2> QED BY <2>1, <2>2, <2>3, <2>4
<1>16. OfClass(R, "LostAdvantage") = 1..a /\ OfClass(R, "KeptAdvantage") = (a + 1)..(a + b)
  <2> HIDE DEF A, B
  <2>1. \A k \in 1..(a + b) : (k \in 1..a /\ R[k].class = "LostAdvantage")
                              \/ (k \in (a + 1)..(a + b) /\ k \notin 1..a /\ R[k].class = "KeptAdvantage")
    <3> TAKE k \in 1..(a + b)
    <3>1. ASSUME k \in 1..a PROVE R[k].class = "LostAdvantage"
      BY <1>8, <1>11, <3>1
    <3>2. ASSUME NEW j \in 1..b, k = a + j
          PROVE  k \in (a + 1)..(a + b) /\ k \notin 1..a /\ R[k].class = "KeptAdvantage"
      <4>1. R[k].class = "KeptAdvantage"
        BY <1>8, <1>12, <3>2
      <4> QED BY <1>7, <3>2, <4>1
    <3> QED BY <1>8, <3>1, <3>2
  <2>2. 1..a \subseteq 1..(a + b) /\ (a + 1)..(a + b) \subseteq 1..(a + b)
        /\ \A k \in (a + 1)..(a + b) : k \notin 1..a
    BY <1>7
  <2>3. OfClass(R, "LostAdvantage") = 1..a
    BY <1>8, <2>1, <2>2 DEF OfClass
  <2>4. OfClass(R, "KeptAdvantage") = (a + 1)..(a + b)
    BY <1>8, <2>1, <2>2 DEF OfClass
  <2> QED BY <2>3, <2>4
<1>17. /\ Cardinality(OfClass(R, "LostAdvantage")) = a
       /\ Cardinality(OfClass(R, "KeptAdvantage")) = b
  <2>1. Cardinality(1..a) = a
    BY <1>7, FS_Interval
  <2>2. Cardinality((a + 1)..(a + b)) = b
    <3>1. a + 1 \in Int /\ a + b \in Int
      BY <1>7
    <3>2. Cardinality((a + 1)..(a + b)) = IF a + 1 > a + b THEN 0 ELSE (a + b) - (a + 1) + 1
      BY <3>1, FS_Interval
    <3> QED BY <1>7, <3>2
  <2> QED BY <1>16, <2>1, <2>2
<1>18. \A class \in ProbeClass : Cardinality(OfClass(R, class)) <= RoomFor(config, class)
  BY <1>7, <1>17 DEF ProbeClass, RoomFor
<1>19. ASSUME NEW c, IsCandidate(c), c.hash \in u.seen
       PROVE  \E k \in DOMAIN R : R[k].snapshot = c.record.snapshot
  <2>1. CASE c.hash \in t.seen
    <3>1. \E j \in 1..a : \E x \in 1..n : ComesFrom(t, o, j, x) /\ o[x].hash = c.hash
      BY <1>3, <1>7, <2>1 DEF IsTaken
    <3>2. PICK j \in 1..a, x \in 1..n : ComesFrom(t, o, j, x) /\ o[x].hash = c.hash
      BY <3>1
    <3>3. o[x].record.snapshot = c.record.snapshot
      BY <1>6, <1>19, <3>2, KeysTellApart
    <3>4. R[j] = o[x].record /\ j \in DOMAIN R
      BY <1>8, <3>2 DEF ComesFrom
    <3> QED BY <3>3, <3>4
  <2>2. CASE c.hash \notin t.seen
    <3>1. \E j \in 1..b : \E x \in 1..n : ComesFrom(u, r, j, x) /\ r[x].hash = c.hash
      BY <1>4, <1>7, <1>19, <2>2 DEF IsTaken
    <3>2. PICK j \in 1..b, x \in 1..n : ComesFrom(u, r, j, x) /\ r[x].hash = c.hash
      BY <3>1
    <3>3. r[x].record.snapshot = c.record.snapshot
      BY <1>6, <1>19, <3>2, KeysTellApart
    <3>4. R[a + j] = r[x].record /\ a + j \in DOMAIN R
      BY <1>8, <3>2 DEF ComesFrom
    <3> QED BY <3>3, <3>4
  <2> QED BY <2>1, <2>2
<1>20. ASSUME NEW i \in 1..n, o[i].record.class = "LostAdvantage"
       PROVE  \/ \E k \in DOMAIN R : R[k].snapshot = o[i].record.snapshot
              \/ a = maxS /\ \A k \in 1..a : Extremity(R[k]) >= Extremity(o[i].record)
  <2>1. \/ o[i].hash \in t.seen
        \/ a = maxS /\ \A j \in 1..a : \E x \in 1..i : ComesFrom(t, o, j, x)
    BY <1>3, <1>7, <1>20 DEF IsTaken, a
  <2>2. CASE o[i].hash \in t.seen
    <3>1. o[i].hash \in u.seen
      BY <1>4, <2>2 DEF IsTaken
    <3> QED BY <1>6, <1>19, <3>1
  <2>3. CASE a = maxS /\ \A j \in 1..a : \E x \in 1..i : ComesFrom(t, o, j, x)
    <3>1. ASSUME NEW k \in 1..a PROVE Extremity(R[k]) >= Extremity(o[i].record)
      <4>1. PICK x \in 1..i : ComesFrom(t, o, k, x)
        BY <2>3
      <4>2. R[k] = o[x].record /\ R[k].class = "LostAdvantage"
        BY <1>8, <1>11, <4>1 DEF ComesFrom
      <4>3. x \in 1..n /\ x <= i
        BY <1>1
      <4> QED BY <1>1, <1>20, <4>2, <4>3, OrderIsExtremity
    <3> QED BY <2>3, <3>1
  <2> QED BY <2>1, <2>2, <2>3
<1>21. ASSUME NEW i \in 1..n, o[i].record.class = "KeptAdvantage"
       PROVE  \/ \E k \in DOMAIN R : R[k].snapshot = o[i].record.snapshot
              \/ b = maxC /\ \A k \in (a + 1)..(a + b) : Extremity(R[k]) >= Extremity(o[i].record)
  <2> DEFINE y == n - i + 1
  <2>1. y \in 1..n /\ n - y + 1 = i
    BY <1>1
  <2> HIDE DEF y
  <2>2. r[y] = o[i]
    BY <1>1, <2>1
  <2>3. \/ r[y].hash \in u.seen
        \/ b = maxC /\ \A j \in 1..b : \E x \in 1..y : ComesFrom(u, r, j, x)
    BY <1>4, <1>7, <1>21, <2>1, <2>2 DEF IsTaken, b
  <2>4. CASE r[y].hash \in u.seen
    BY <1>6, <1>19, <2>2, <2>4
  <2>5. CASE b = maxC /\ \A j \in 1..b : \E x \in 1..y : ComesFrom(u, r, j, x)
    <3>1. ASSUME NEW j \in 1..b PROVE Extremity(R[a + j]) >= Extremity(o[i].record)
      <4>1. PICK x \in 1..y : ComesFrom(u, r, j, x)
        BY <2>5
      <4>2. R[a + j] = r[x].record /\ R[a + j].class = "KeptAdvantage"
        BY <1>8, <1>12, <4>1 DEF ComesFrom
      <4>3. x \in 1..n /\ n - x + 1 \in 1..n /\ i <= n - x + 1
        BY <1>1, <2>1
      <4>4. R[a + j] = o[n - x + 1].record
        BY <1>1, <4>2, <4>3
      <4> DEFINE z == n - x + 1
      <4>5. z \in DOMAIN o /\ i \in DOMAIN o /\ i <= z /\ R[a + j] = o[z].record
        BY <1>1, <4>3, <4>4
      <4> HIDE DEF z
      <4> QED BY <1>21, <4>2, <4>5, OrderIsExtremity
    <3>2. \A k \in (a + 1)..(a + b) : \E j \in 1..b : k = a + j
      <4>1. \A k \in (a + 1)..(a + b) : k \in 1..(a + b) /\ k \notin 1..a
        BY <1>7
      <4> QED BY <1>8, <4>1
    <3> QED BY <2>5, <3>1, <3>2
  <2> QED BY <2>3, <2>4, <2>5
<1>22. ASSUME NEW i \in DOMAIN o
       PROVE  \/ \E k \in DOMAIN R : R[k].snapshot = o[i].record.snapshot
              \/ /\ Cardinality(OfClass(R, o[i].record.class)) = RoomFor(config, o[i].record.class)
                 /\ \A k \in OfClass(R, o[i].record.class) : Extremity(R[k]) >= Extremity(o[i].record)
  <2>1. i \in 1..n /\ o[i].record.class \in ProbeClass
    BY <1>1, <1>6 DEF IsCandidate
  <2>2. CASE o[i].record.class = "LostAdvantage"
    BY <1>16, <1>17, <1>20, <2>1, <2>2 DEF RoomFor
  <2>3. CASE o[i].record.class = "KeptAdvantage"
    BY <1>16, <1>17, <1>21, <2>1, <2>3 DEF RoomFor
  <2> QED BY <2>1, <2>2, <2>3 DEF ProbeClass
<1>23. IsSelection(R, o, config)
  BY <1>15, <1>18, <1>22 DEF IsSelection
<1> QED BY <1>7, <1>23 DEF R, t, u

\* What all the games amount to, before anything is selected.
MinedFrom(games, config) == GamesFrom(Unmined(games), config, games)

\* Mining selects from the candidates in order.
LEMMA MiningSelects ==
  ASSUME NEW games, NEW config
  PROVE  MineGames(games, config)
           = Selected(MinedFrom(games, config), config, Ordered(MinedFrom(games, config).candidates))
BY DEF MineGames, MinedFrom, GamesFrom, Unmined

\* All the games of a list are read.
LEMMA AllRead ==
  ASSUME NEW games, AreRecordings(games)
  PROVE  /\ Read(games, Len(games)) = ToSet(games) /\ Len(games) \in Nat /\ IsFiniteSet(ToSet(games))
         /\ \A g \in ToSet(games) : IsRecording(g)
         /\ \A g, h \in ToSet(games) : g.id = h.id => g = h
<1>1. games \in Seq(ToSet(games)) /\ Len(games) \in Nat /\ DOMAIN games = 1..Len(games)
  BY DEF AreRecordings, IsList
<1>2. Read(games, Len(games)) = ToSet(games)
  BY <1>1 DEF Read, ToSet
<1>3. IsFiniteSet(ToSet(games))
  BY <1>1, LengthCounts
<1>4. \A g \in ToSet(games) : IsRecording(g)
  BY DEF AreRecordings, ToSet
<1>5. \A g, h \in ToSet(games) : g.id = h.id => g = h
  <2> SUFFICES ASSUME NEW g \in ToSet(games), NEW h \in ToSet(games), g.id = h.id PROVE g = h
    OBVIOUS
  <2>1. PICK i \in DOMAIN games : g = games[i]
    BY DEF ToSet
  <2>2. PICK j \in DOMAIN games : h = games[j]
    BY DEF ToSet
  <2> QED BY <2>1, <2>2 DEF AreRecordings
<1> QED BY <1>1, <1>2, <1>3, <1>4, <1>5

\* The candidates and counts of all the games.
LEMMA MinedFacts ==
  ASSUME NEW games, NEW config, AreRecordings(games)
  PROVE  /\ IsTally(MinedFrom(games, config), config, games, Len(games))
         /\ ToSet(MinedFrom(games, config).candidates) = Harvest(config, ToSet(games))
         /\ IsPool(Harvest(config, ToSet(games)))
         /\ Ascends(Ordered(MinedFrom(games, config).candidates), Harvest(config, ToSet(games)))
<1> DEFINE m == MinedFrom(games, config)
           S == Harvest(config, ToSet(games))
<1>1. IsTally(m, config, games, Len(games))
  BY GamesTally DEF MinedFrom
<1> HIDE DEF m
<1>2. ToSet(m.candidates) = S /\ IsInjective(m.candidates) /\ IsList(m.candidates)
  BY <1>1, AllRead DEF IsTally, IsMine, IsList
<1>3. IsPool(S)
  BY AllRead, HarvestFacts DEF IsPool
<1>4. Ascends(Ordered(m.candidates), S)
  BY <1>2, <1>3, OrderedAscends
<1> QED BY <1>1, <1>2, <1>3, <1>4 DEF m

\* The order of the games makes no difference.
LEMMA SameMine ==
  ASSUME NEW config, NEW games, NEW other, AreRecordings(games), AreRecordings(other),
         ToSet(other) = ToSet(games), Len(other) = Len(games)
  PROVE  MineGames(other, config) = MineGames(games, config)
<1> DEFINE m == MinedFrom(games, config)
           w == MinedFrom(other, config)
           S == Harvest(config, ToSet(games))
<1>1. /\ IsTally(m, config, games, Len(games)) /\ IsTally(w, config, other, Len(games))
      /\ IsPool(S) /\ Ascends(Ordered(m.candidates), S) /\ Ascends(Ordered(w.candidates), S)
  BY MinedFacts
<1>2. Read(games, Len(games)) = ToSet(games) /\ Read(other, Len(games)) = ToSet(games)
  BY AllRead
<1> HIDE DEF m, w, S
<1>3. Ordered(w.candidates) = Ordered(m.candidates)
  BY <1>1, OneOrder
<1>4. m.stats \in [Counters -> Int] /\ w.stats \in [Counters -> Int]
  BY <1>1 DEF IsTally, IsMine
<1>5. ASSUME NEW c \in Counters PROVE w.stats[c] = m.stats[c]
  <2> DEFINE f == Added(config, games, c)
             base == IF c = "games" THEN Len(games) ELSE 0
  <2>1. Added(config, other, c) = f
    BY DEF Added
  <2> HIDE DEF f, base
  <2>2. m.stats[c] = base + SumOn(f, ToSet(games))
    BY <1>1, <1>2 DEF IsTally, f, base
  <2>3. w.stats[c] = base + SumOn(f, ToSet(games))
    BY <1>1, <1>2, <2>1 DEF IsTally, base
  <2> QED BY <2>2, <2>3
<1>6. w.stats = m.stats
  BY <1>4, <1>5
<1>7. Selected(w, config, Ordered(w.candidates)) = Selected(m, config, Ordered(m.candidates))
  BY <1>3, <1>6 DEF Selected
<1> QED BY <1>7, MiningSelects DEF m, w

\* The recordings of a dump: each of a game, no two of one.
ArePlayed(records) ==
  /\ IsList(records) /\ \A k \in DOMAIN records : IsRecording(records[k].game)
  /\ \A j, k \in DOMAIN records : j # k => records[j].game.id # records[k].game.id

\* The games of a dump.
LEMMA GamesOfFacts ==
  ASSUME NEW records, ArePlayed(records)
  PROVE  /\ AreRecordings(DumpGames(records)) /\ Len(DumpGames(records)) = Len(records)
         /\ ToSet(DumpGames(records)) = {x.game : x \in ToSet(records)}
<1> DEFINE g == DumpGames(records)
           n == Len(records)
<1>1. n \in Nat /\ DOMAIN records = 1..n
  BY DEF ArePlayed, IsList
<1>2. g = [k \in 1..n |-> records[k].game]
  BY <1>1 DEF DumpGames
<1> HIDE DEF g, n
<1>3. DOMAIN g = 1..n /\ \A k \in 1..n : g[k] = records[k].game
  BY <1>2
<1>4. g \in Seq(ToSet(g)) /\ Len(g) = n
  <2>1. g \in [1..n -> ToSet(g)]
    BY <1>2, <1>3 DEF ToSet
  <2>2. g \in Seq(ToSet(g))
    BY <1>1, <2>1, SeqDef
  <2> QED BY <1>1, <1>3, <2>2
<1>5. ToSet(g) = {x.game : x \in ToSet(records)}
  BY <1>1, <1>3 DEF ToSet
<1>6. AreRecordings(g)
  BY <1>1, <1>3, <1>4 DEF AreRecordings, ArePlayed, IsList
<1> QED BY <1>4, <1>5, <1>6 DEF g, n

\* A dump turned round is a dump of the same recordings.
LEMMA ReversedFacts ==
  ASSUME NEW records, ArePlayed(records)
  PROVE  ArePlayed(Reverse(records)) /\ ToSet(Reverse(records)) = ToSet(records) /\ Len(Reverse(records)) = Len(records)
<1> DEFINE r == Reverse(records)
           n == Len(records)
<1>1. /\ IsList(r) /\ ToSet(r) = ToSet(records) /\ Len(r) = n
      /\ n \in Nat /\ DOMAIN records = 1..n /\ DOMAIN r = 1..n
      /\ \A i \in 1..n : n - i + 1 \in 1..n /\ r[i] = records[n - i + 1]
  BY ReverseFacts DEF ArePlayed
<1> HIDE DEF r, n
<1>2. \A k \in 1..n : IsRecording(r[k].game)
  BY <1>1 DEF ArePlayed
<1>3. \A j, k \in 1..n : j # k => r[j].game.id # r[k].game.id
  <2> TAKE j, k \in 1..n
  <2>1. j # k => n - j + 1 # n - k + 1
    BY <1>1
  <2> QED BY <1>1, <2>1 DEF ArePlayed
<1> QED BY <1>1, <1>2, <1>3 DEF ArePlayed, r, n

\* What was mined, if anything was, is what its dump gives.
MInv ==
  /\ IsDump(dump)
  /\ dump.kind = "games" =>
       \/ mined \in {NotMined, Rejected}
       \/ mined = MineGames(DumpGames(dump.records), dump.config)

\* What a dump gives is the extremes of it.
LEMMA MinedIsExtreme == MInv => ProbesAreTheExtremes
<1> SUFFICES ASSUME MInv, dump.kind = "games", mined \notin {NotMined, Rejected}
             PROVE  ProbesAreTheExtremes
  BY DEF ProbesAreTheExtremes
<1> DEFINE records == dump.records
           config == dump.config
           games == DumpGames(records)
           back == DumpGames(Reverse(records))
           m == MinedFrom(games, config)
           o == Ordered(m.candidates)
           S == Harvest(config, ToSet(games))
           R == Chosen(o, config)
           d == Suspects(o, config).duplicates + Controls(o, config).duplicates
<1>1. mined = MineGames(games, config) /\ ArePlayed(records)
      /\ config.maxSuspect \in Nat /\ config.maxControl \in Nat
  BY DEF MInv, IsDump, IsGameDump, ArePlayed
<1>2. AreRecordings(games) /\ Len(games) = Len(records) /\ ToSet(games) = {x.game : x \in ToSet(records)}
  BY <1>1, GamesOfFacts
<1>3. AreRecordings(back) /\ Len(back) = Len(games) /\ ToSet(back) = ToSet(games)
  BY <1>1, <1>2, ReversedFacts, GamesOfFacts
<1>4. MineGames(back, config) = mined
  BY <1>1, <1>2, <1>3, SameMine
<1>5. mined = Selected(m, config, o)
  BY <1>1, MiningSelects
<1>6. IsTally(m, config, games, Len(games)) /\ ToSet(m.candidates) = S /\ IsPool(S) /\ Ascends(o, S)
  BY <1>2, MinedFacts
<1> HIDE DEF games, back, m, o, S
<1>7. IsSelection(R, o, config) /\ d \in Int
  <2>1. /\ IsSelection(R, o, config)
        /\ Suspects(o, config).duplicates \in Int /\ Controls(o, config).duplicates \in Int
    BY <1>1, <1>6, SelectionFacts
  <2> QED BY <2>1
<1>8. mined = [records |-> R, stats |-> CountUp(m.stats, "duplicate", d), candidates |-> o]
  BY <1>5 DEF Selected, Chosen, Suspects, Controls
<1> HIDE DEF R, d, config, records
<1>9. mined.records = R /\ mined.stats = CountUp(m.stats, "duplicate", d) /\ mined.candidates = o
  BY <1>8
<1>10. \A class : KeptOf(class) = OfClass(R, class) /\ LimitOf(class) = RoomFor(config, class)
  BY <1>9 DEF KeptOf, OfClass, LimitOf, RoomFor, config
<1>11. m.stats \in [Counters -> Int] /\ \A c \in Counters \ {"duplicate"} : mined.stats[c] = m.stats[c]
  <2>1. m.stats \in [Counters -> Int]
    BY <1>6 DEF IsTally, IsMine
  <2> QED BY <1>9, <2>1 DEF CountUp
<1>12. Len(o) = Len(m.candidates)
  <2>1. ToSet(o) = S /\ o \in Seq(S)
    BY <1>6 DEF Ascends
  <2>2. \A i \in DOMAIN o : o[i] \in S /\ i \in Nat
    BY <2>1
  <2>3. \A i, j \in DOMAIN o : i < j => o[i] # o[j]
    BY <1>6, <2>2, BeforeIsStrict DEF Ascends
  <2>4. \A i, j \in DOMAIN o : o[i] = o[j] => i = j
    BY <2>2, <2>3
  <2>5. IsInjective(o)
    BY <2>4 DEF IsInjective
  <2>6. Cardinality(S) = Len(o)
    BY <2>1, <2>5, LengthCounts
  <2>7. m.candidates \in Seq(S) /\ IsInjective(m.candidates)
    BY <1>6 DEF IsTally, IsMine
  <2>8. Cardinality(S) = Len(m.candidates)
    BY <1>6, <2>7, LengthCounts
  <2> QED BY <2>6, <2>8
<1>13. m.stats["games"] = Len(games)
  <2> DEFINE f == Added(config, games, "games")
  <2>1. \A g \in ToSet(games) : f[g] = 0
    BY <1>2, AllRead, AddsFacts DEF Added
  <2> HIDE DEF f
  <2>2. SumOn(f, ToSet(games)) = 0
    BY <1>2, <2>1, AllRead, SumOfZeros
  <2>3. m.stats["games"] = Len(games) + SumOn(f, Read(games, Len(games)))
    BY <1>6 DEF IsTally, Counters, f
  <2>4. Read(games, Len(games)) = ToSet(games) /\ Len(games) \in Nat
    BY <1>2, AllRead
  <2> QED BY <2>2, <2>3, <2>4
<1>14. /\ mined.stats["games"] = mined.stats["replayed"] + mined.stats["multiplayer"]
                                   + mined.stats["illegal_move"] + mined.stats["board_size"]
       /\ mined.stats["neutral_turns"] = mined.stats["short_horizon"] + mined.stats["flat"]
                                           + mined.stats["no_winner"] + Len(mined.candidates)
  <2>1. /\ m.stats["replayed"] + m.stats["multiplayer"] + m.stats["illegal_move"] + m.stats["board_size"] = Len(games)
        /\ m.stats["neutral_turns"] = m.stats["short_horizon"] + m.stats["flat"] + m.stats["no_winner"] + Len(m.candidates)
    BY <1>6 DEF IsTally
  <2>2. /\ mined.stats["games"] = m.stats["games"] /\ mined.stats["replayed"] = m.stats["replayed"]
        /\ mined.stats["multiplayer"] = m.stats["multiplayer"] /\ mined.stats["illegal_move"] = m.stats["illegal_move"]
        /\ mined.stats["board_size"] = m.stats["board_size"] /\ mined.stats["neutral_turns"] = m.stats["neutral_turns"]
        /\ mined.stats["short_horizon"] = m.stats["short_horizon"] /\ mined.stats["flat"] = m.stats["flat"]
        /\ mined.stats["no_winner"] = m.stats["no_winner"]
    BY <1>11 DEF Counters
  <2> QED BY <1>9, <1>12, <1>13, <2>1, <2>2
<1>15. \A j, k \in DOMAIN mined.records : j # k => mined.records[j].snapshot # mined.records[k].snapshot
  BY <1>7, <1>9 DEF IsSelection
<1>16. \A class \in ProbeClass : Cardinality(KeptOf(class)) <= LimitOf(class)
  BY <1>7, <1>10 DEF IsSelection
<1>17. ASSUME NEW i \in DOMAIN mined.candidates
       PROVE  LET c == mined.candidates[i].record
              IN \/ \E k \in DOMAIN mined.records : mined.records[k].snapshot = c.snapshot
                 \/ /\ Cardinality(KeptOf(c.class)) = LimitOf(c.class)
                    /\ \A k \in KeptOf(c.class) : Extremity(mined.records[k]) >= Extremity(c)
  BY <1>7, <1>9, <1>10, <1>17 DEF IsSelection
<1>18. MineGames(DumpGames(Reverse(dump.records)), dump.config) = mined
  BY <1>4 DEF back, records, config
<1> QED BY <1>14, <1>15, <1>16, <1>17, <1>18 DEF ProbesAreTheExtremes

\* Whatever recordings the miner is given, replayable or not: no position is kept twice, none
\* that was passed over is more extreme than one that was kept, nor was passed over while there
\* was room, every game and placement is counted, and the order of the dump does not matter.
THEOREM ProbesExtreme == MiningSpec => []ProbesAreTheExtremes
<1>1. MiningInit => MInv
  BY DEF MiningInit, MInv
<1>2. MInv /\ [MiningNext]_<<dump, mined>> => MInv'
  <2> SUFFICES ASSUME MInv, [MiningNext]_<<dump, mined>> PROVE MInv'
    OBVIOUS
  <2>1. CASE MineDb
    BY <2>1 DEF MineDb, MInv
  <2>2. CASE MinePlay
    BY <2>2 DEF MinePlay, MInv
  <2>3. CASE UNCHANGED <<dump, mined>>
    BY <2>3 DEF MInv
  <2> QED BY <2>1, <2>2, <2>3 DEF MiningNext
<1> QED BY <1>1, <1>2, MinedIsExtreme, PTL DEF MiningSpec

=============================================================================
