---------------------------- MODULE SearchPosition ----------------------------
(***************************************************************************)
(* The view of a position the searchers hold: its actions in the order they *)
(* are tried, with the neutral placements cut down to a bounded, defensive  *)
(* sample where there are too many of them.                                 *)
(*                                                                         *)
(* A position caches what was worked out when it was built. One made by a   *)
(* search's own step has nothing cached and works the same things out when  *)
(* it is asked.                                                             *)
(***************************************************************************)
EXTENDS VirusRules, SequencesExt

CONSTANTS ExactBranchLimit,  \* most actions for which every placement is tried: 32
          MaxDefensive,      \* cells worth defending: 12
          FillerLimit,       \* cells that may be given up with one of them: 2
          MaxStrategicPairs, \* placements in the sample: 48
          Absent             \* no cell; nothing cached

ASSUME SampleAssumption == /\ ExactBranchLimit \in Nat
                           /\ MaxDefensive \in Nat \ {0}
                           /\ FillerLimit \in Nat \ {0}
                           /\ MaxStrategicPairs \in Nat /\ MaxStrategicPairs > MaxDefensive

\* A set itself, its members worked out once.
Listed(set) == {c : c \in set}

\* The board in index order, and a set of cells in that order.
Board == [i \in 1..Rows * Cols |-> <<(i - 1) \div Cols, (i - 1) % Cols>>]
InOrder(cells) == FlattenSeq([i \in 1..Rows * Cols |-> IF Board[i] \in cells THEN <<Board[i]>> ELSE <<>>])

\* The element at i, if there is one.
At(seq, i) == IF i \in DOMAIN seq THEN <<seq[i]>> ELSE <<>>
NearInOrder == [c \in Pos |-> InOrder(Near[c])]

(***************************************************************************)
(* Articulation: a depth-first visit with low-links                        *)
(***************************************************************************)
Rooted(root) ==
  LET none == [c \in Pos |-> 0]
      one == [none EXCEPT ![root] = 1]
  IN [time |-> 1, discovery |-> one, low |-> one, subtree |-> one, children |-> none,
      parent |-> [c \in Pos |-> Absent], cuts |-> {}, loss |-> none]

Entered(t, from, c) ==
  [t EXCEPT !.time = @ + 1, !.discovery[c] = t.time + 1, !.low[c] = t.time + 1,
            !.subtree[c] = 1, !.parent[c] = from, !.children[from] = @ + 1]

\* Mutant: a child that reaches its parent's own level does not make it a cut.
SeparatesStrictly(t, p, c) ==
  IF t.parent[p] = Absent THEN t.children[p] > 1 ELSE t.low[c] > t.discovery[p]

Separates(t, p, c) ==
  IF t.parent[p] = Absent THEN t.children[p] > 1 ELSE t.low[c] >= t.discovery[p]

\* What a child's return folds into its parent p.
Returned(t, p, c) ==
  LET cut == Separates(t, p, c)
  IN [t EXCEPT !.subtree[p] = @ + t.subtree[c],
               !.low[p] = IF t.low[c] < @ THEN t.low[c] ELSE @,
               !.cuts = IF cut THEN @ \cup {p} ELSE @,
               !.loss[p] = IF cut THEN @ + t.subtree[c] ELSE @]

\* What a visit knows of a tree as far as it has been walked.
Trees == [time : Nat, discovery : [Pos -> Nat], low : [Pos -> Nat], subtree : [Pos -> Nat],
          children : [Pos -> Nat], parent : [Pos -> Pos \cup {Absent}], cuts : SUBSET Pos,
          loss : [Pos -> Nat]]

Visit(tree, root, graph) ==
  LET visit[t \in Trees, c \in Pos] ==
        LET scan(u, d) ==
              IF d \notin graph THEN u
              ELSE IF u.discovery[d] = 0 THEN Returned(visit[Entered(u, c, d), d], c, d)
              ELSE IF u.parent[c] # d /\ u.discovery[d] < u.low[c]
                   THEN [u EXCEPT !.low[c] = u.discovery[d]]
              ELSE u
        IN FoldLeft(scan, t, NearInOrder[c])
  IN visit[tree, root]

\* The cells of a component, less those excluded, whose loss would split it further.
ArticulationCells(component, base, excluded) ==
  IF base \in excluded \/ base \notin component THEN {}
  ELSE Visit(Rooted(base), base, Listed(component \ excluded)).cuts

(***************************************************************************)
(* The sample of neutral placements                                        *)
(***************************************************************************)
UsesStrategicPairs(moves, owned) ==
  moves + (owned * (owned - 1)) \div 2 > ExactBranchLimit

\* Own plain cells an active opponent can capture right now.
Threatened(s) ==
  {c \in OwnedNormals(s.cells, s.current) :
     \E q \in s.active \ {s.current} : c \in MoveTargets(s.cells, q)}

Pairing(c, d) == IF Index(c) < Index(d) THEN <<c, d>> ELSE <<d, c>>
Pairings(left, right) ==
  FlattenSeq([i \in DOMAIN left |-> FlattenSeq([j \in DOMAIN right |->
    IF left[i] = right[j] THEN <<>> ELSE <<Pairing(left[i], right[j])>>])])

\* Mutant: a cell of two classes is listed twice.
AddDefensiveAgain(defensive, c) ==
  IF Len(defensive) >= MaxDefensive THEN defensive ELSE Append(defensive, c)

AddDefensive(defensive, c) ==
  IF Contains(defensive, c) \/ Len(defensive) >= MaxDefensive THEN defensive
  ELSE Append(defensive, c)

AppendUnique(pairs, pair) ==
  IF Contains(pairs, pair) \/ Len(pairs) >= MaxStrategicPairs THEN pairs
  ELSE Append(pairs, pair)

\* Cells beside the base, under threat, and cuts, one of each class first.
Defensive(base, owned, threatened, cuts) ==
  LET classes == <<InOrder(owned \cap Near[base]), InOrder(threatened), InOrder(owned \cap cuts)>>
      firsts == FlattenSeq([i \in 1..3 |-> At(classes[i], 1)])
  IN FoldLeft(AddDefensive, <<>>, firsts \o FlattenSeq(classes))

Gap(i, j) == IF i < j THEN j - i ELSE i - j
Distance(c, d) == Gap(c[1], d[1]) + Gap(c[2], d[2])

\* The first in board order of the cells furthest from the base.
Furthest(cells, base) ==
  Head(InOrder({c \in cells : \A d \in cells : Distance(d, base) <= Distance(c, base)}))

\* Safe cells, furthest from the base, that are not shortlisted for defence.
RobustFillers(base, safe, defensive) ==
  FoldLeft(LAMBDA chosen, i : LET left == (safe \ ToSet(defensive)) \ ToSet(chosen)
                              IN IF left = {} THEN chosen ELSE Append(chosen, Furthest(left, base)),
           <<>>, [i \in 1..FillerLimit |-> i])

\* For each defensive cell that is no cut itself, the cells that would split what its
\* loss leaves.
Separators(component, base, owned, cuts, defensive) ==
  FlattenSeq([i \in DOMAIN defensive |->
    IF defensive[i] \in cuts THEN <<>>
    ELSE Pairings(<<defensive[i]>>,
                  InOrder(owned \cap ArticulationCells(component, base, {defensive[i]})))])

\* One separator, and a pair for each defensive cell, come before all others.
Reserved(separators, defensive, fillers) ==
  LET partner(i) == IF fillers # <<>> THEN <<fillers[((i - 1) % Len(fillers)) + 1]>>
                    ELSE IF Len(defensive) > 1 THEN <<defensive[(i % Len(defensive)) + 1]>>
                    ELSE <<>>
  IN At(separators, 1) \o
     FlattenSeq([i \in DOMAIN defensive |-> Pairings(<<defensive[i]>>, partner(i))])

Unique(pairs) == FoldLeft(AppendUnique, <<>>, pairs)

\* The classes share what is left, one of each in turn.
Distributed(classes) ==
  LET longest == CHOOSE n \in {Len(classes[i]) : i \in DOMAIN classes} :
                   \A i \in DOMAIN classes : Len(classes[i]) <= n
  IN FlattenSeq([n \in 1..longest |-> FlattenSeq([i \in DOMAIN classes |-> At(classes[i], n)])])

\* Every pair of a sequence's cells, the earlier first.
PairsWithin(seq) ==
  FlattenSeq([i \in DOMAIN seq |-> Pairings(<<seq[i]>>, SubSeq(seq, i + 1, Len(seq)))])

Sampled(separators, defensive, fillers) ==
  Unique(Reserved(separators, defensive, fillers) \o
         Distributed(<<separators, Unique(Pairings(defensive, fillers)),
                       Unique(PairsWithin(defensive))>>))

SampleWith(component, base, owned, cuts, threatened, defensive) ==
  Sampled(Unique(Separators(component, base, owned, cuts, defensive)), defensive,
          RobustFillers(base, (owned \ cuts) \ threatened, defensive))

SampleAround(component, base, owned, cuts, threatened) ==
  SampleWith(component, base, owned, cuts, threatened,
             Defensive(base, owned, threatened, cuts))

SampleOf(s, component, base) ==
  SampleAround(component, base, OwnedNormals(s.cells, s.current),
               ArticulationCells(component, base, {}), Listed(Threatened(s)))

StrategicNeutralPairs(s) ==
  IF ~CanPlaceNeutrals(s) THEN <<>>
  ELSE SampleOf(s, Listed(Connected(s.cells, s.current)), Base[s.current])

(***************************************************************************)
(* Positions                                                               *)
(***************************************************************************)
Unanalyzed(s) == [state |-> s, moves |-> Absent, owned |-> Absent, pairs |-> Absent, analyzed |-> FALSE]

FrontierInOrder(s) == InOrder(MoveTargets(s.cells, s.current))
OwnedInOrder(s) == InOrder(OwnedNormals(s.cells, s.current))

WithPlacements(position, owned) ==
  [position EXCEPT !.owned = owned,
                   !.pairs = IF UsesStrategicPairs(Len(position.moves), Len(owned))
                             THEN StrategicNeutralPairs(position.state) ELSE Absent]

\* A position analysed as it is built.
PositionOf(s) ==
  LET position == [Unanalyzed(s) EXCEPT !.moves = IF CanAct(s) THEN FrontierInOrder(s) ELSE <<>>,
                                        !.analyzed = TRUE]
  IN IF CanAct(s) /\ CanPlaceNeutrals(s) THEN WithPlacements(position, OwnedInOrder(s)) ELSE position

ApplySearch(position, a) == Unanalyzed(Apply(position.state, a))

MoveList(position) == IF position.moves # Absent THEN position.moves ELSE FrontierInOrder(position.state)
OwnedList(position) == IF position.owned # Absent THEN position.owned ELSE OwnedInOrder(position.state)

Moves(targets) == [i \in DOMAIN targets |-> Move(targets[i])]
Placements(pairs) == [i \in DOMAIN pairs |-> PlaceNeutrals(pairs[i][1], pairs[i][2])]

ExactActions(position) ==
  IF ~CanAct(position.state) THEN <<>>
  ELSE Moves(MoveList(position)) \o
       IF CanPlaceNeutrals(position.state) THEN Placements(PairsWithin(OwnedList(position))) ELSE <<>>

SearchPairs(position, moves, owned) ==
  IF ~UsesStrategicPairs(Len(moves), Len(owned)) THEN PairsWithin(owned)
  ELSE IF position.pairs # Absent THEN position.pairs
  ELSE StrategicNeutralPairs(position.state)

SearchActions(position) ==
  IF ~CanAct(position.state) THEN <<>>
  ELSE LET moves == MoveList(position)
       IN Moves(moves) \o
          IF CanPlaceNeutrals(position.state)
          THEN Placements(SearchPairs(position, moves, OwnedList(position))) ELSE <<>>

-----------------------------------------------------------------------------
(***************************************************************************)
(* Properties                                                              *)
(***************************************************************************)

\* The pairs of a list of actions, and the cells of its mover worth defending.
PlacedPairs(actions) ==
  {ToSet(a.cells) : a \in {b \in ToSet(actions) : b.kind = "PlaceNeutrals"}}
Worth(s) ==
  LET owned == OwnedNormals(s.cells, s.current)
      component == Listed(Connected(s.cells, s.current))
  IN owned \cap (Near[Base[s.current]] \cup Threatened(s)
                   \cup ArticulationCells(component, Base[s.current], {}))

\* What a sample of placements promises: each gives up a cell worth defending, none
\* two safe cells; no cell worth defending that has a partner is starved of a pair while
\* all of them fit; and the sample keeps its size.
IsSample(s, pairs) ==
  LET worth == Listed(Worth(s))
  IN /\ \A pair \in pairs : pair \cap worth # {}
     /\ Cardinality(pairs) <= MaxStrategicPairs
     /\ Cardinality(worth) \in 2..MaxDefensive => worth \subseteq UNION pairs

\* The search tries every move and no action twice, only legal ones, all of them where
\* they are few and a fair sample of the placements where they are many; and what was
\* cached when the position was built is what is worked out later.
SearchTriesAFairSample ==
  LET found == SearchActions(PositionOf(state))
      exact == ExactActions(PositionOf(state))
  IN /\ SearchActions(Unanalyzed(state)) = found
     /\ IsInjective(found)
     /\ ToSet(exact) = LegalActions(state)
     /\ \A a \in ToSet(found) : LegalAction(state, a)
     /\ {a \in ToSet(exact) : a.kind = "Move"} \subseteq ToSet(found)
     /\ found = exact \/ IsSample(state, PlacedPairs(found))

=============================================================================
