------------------------------ MODULE Evaluation ------------------------------
(***************************************************************************)
(* The static evaluation of a position, in integers: what each seat holds,  *)
(* what it stands to lose, which open cells it reaches first, and its score *)
(* against the other seats'.                                                *)
(***************************************************************************)
EXTENDS SearchPosition

MateScore == 1000000000
Nobody == -1     \* the owner of a cell no seat reaches
Contested == -2  \* the owner of a cell two seats reach at once

AtLeast(x, least) == IF x < least THEN least ELSE x

\* Division towards zero, by a positive number.
Truncated(x, n) == IF x < 0 THEN -((-x) \div n) ELSE x \div n

Ratio(value, denominator) ==
  IF value <= 0 \/ denominator <= 0 THEN 0 ELSE (value * 1000) \div denominator
Normalized(value, denominator, weight) ==
  IF value <= 0 \/ denominator <= 0 \/ weight <= 0 THEN 0
  ELSE (value * weight * 1000) \div denominator

EvalParams ==
  [connected |-> 10, normal |-> 30, fortified |-> 6, mobility |-> 1, captures |-> 1,
   disconnected |-> 1, baseExits |-> 180, baseOpenings |-> 80, baseAnchors |-> 240,
   baseThreat |-> 650, threatenedLossMult |-> 1, threatenedMult |-> 1, spaceRace |-> 32,
   sealedBasePenalty |-> 5000, neutralUnusedBonus |-> 20, movesLeftTempo |-> 12,
   predatoryCutBase |-> 150, predatoryCutLossDiv |-> 2]

\* A function itself, worked out once for all of its domain.
Tabulated(f) == f @@ <<>>

\* Each active seat's component.
Components(s) ==
  Tabulated([p \in Seat |-> Listed(IF p \in s.active THEN Connected(s.cells, p) ELSE {})])

AdjacentConnected(c, component) == Near[c] \cap component # {}

(***************************************************************************)
(* Who reaches the open cells first                                        *)
(***************************************************************************)
\* Mutant: a cell belongs to the seat that was scanned first.
MetByTheFirst(r, c, d, o) ==
  IF r.dist[c] = -1
  THEN [r EXCEPT !.queue = Append(@, c), !.dist[c] = d + 1, !.owner[c] = o]
  ELSE r

\* A cell met from one of distance d and owner o.
Met(r, c, d, o) ==
  IF r.dist[c] = -1
  THEN [r EXCEPT !.queue = Append(@, c), !.dist[c] = d + 1, !.owner[c] = o]
  ELSE IF r.dist[c] = d + 1 /\ r.owner[c] # o THEN [r EXCEPT !.owner[c] = Contested]
  ELSE r

RECURSIVE Race(_, _)
Race(r, cells) ==
  IF r.queue = <<>> THEN r
  ELSE LET c == Head(r.queue)
           meet(q, d) == IF cells[d].kind = "Empty" THEN Met(q, d, r.dist[c], r.owner[c]) ELSE q
       IN Race(FoldLeft(meet, [r EXCEPT !.queue = Tail(@)], NearInOrder[c]), cells)

\* The race starts from every component at once, seat by seat.
Sources(components) ==
  LET held == UNION {components[p] : p \in Seat}
  IN [queue |-> FlattenSeq([p \in Seat |-> InOrder(components[p])]),
      dist |-> Tabulated([c \in Pos |-> IF c \in held THEN 0 ELSE -1]),
      owner |-> Tabulated([c \in Pos |-> IF c \in held
                                         THEN CHOOSE p \in Seat : c \in components[p]
                                         ELSE Nobody])]

RaceOf(s, components) == Race(Sources(components), s.cells).owner

\* The open cells each seat reaches strictly first.
SpaceRace(cells, owner) ==
  [p \in Seat |-> Cardinality({c \in Pos : cells[c].kind = "Empty" /\ owner[c] = p})]

(***************************************************************************)
(* One seat's structure                                                    *)
(***************************************************************************)
ThreatenedByConnected(s, c, p, components) ==
  \E q \in s.active \ {p} : AdjacentConnected(c, components[q])

ThreatTempo(s, p) == AtLeast(IF s.current = p THEN 4 - s.movesLeft ELSE s.movesLeft, 1)

\* The base's tree first, then any cell of the component it did not reach.
Swept(component, base) ==
  LET sweep(t, c) ==
        IF c \in component /\ t.discovery[c] = 0
        THEN Visit([t EXCEPT !.time = @ + 1, !.discovery[c] = t.time + 1, !.low[c] = t.time + 1,
                             !.subtree[c] = 1], c, component)
        ELSE t
  IN FoldLeft(sweep, Visit(Rooted(base), base, component), Board)

CutsOf(swept, normals) ==
  Tabulated([c \in swept.cuts \cap normals |-> swept.loss[c] + 1])

\* The seat's cells whose capture severs more than themselves, and what each costs:
\* only plain cells can be captured.
Articulation(s, p, component) ==
  IF Base[p] \notin component THEN [c \in {} |-> 0]
  ELSE CutsOf(Swept(component, Base[p]), OwnedNormals(s.cells, p))

SumOver(set, f) == FoldSet(LAMBDA c, sum : sum + f[c], 0, set)

\* cuts is Articulation's; own the seat's component.
Analyze(s, p, components, own, cuts) ==
  LET normals == OwnedNormals(s.cells, p)
      threatened == {c \in own \cap normals : ThreatenedByConnected(s, c, p, components)}
      targets == {d \in UNION {Near[c] : c \in own} : CapturableBy(s.cells[d], p)}
      exits == Near[Base[p]] \cap own
      openings == {c \in Near[Base[p]] \ exits : CapturableBy(s.cells[c], p)}
      taken == {c \in openings : s.cells[c].kind = "Normal"}
      isFortified(c) == s.cells[c].kind = "Fortified"
  IN [connected |-> Cardinality(own),
      disconnected |-> Cardinality(Own(s.cells, p) \ own),
      normal |-> Cardinality(normals),
      fortified |-> Cardinality({c \in Own(s.cells, p) : isFortified(c)}),
      mobility |-> Cardinality(targets),
      captures |-> Cardinality({c \in targets : s.cells[c].kind = "Normal"}),
      baseExits |-> Cardinality(exits),
      baseOpenings |-> Cardinality(openings),
      baseAnchors |-> Cardinality({c \in exits : isFortified(c)}),
      baseThreat |-> IF ThreatenedByConnected(s, Base[p], p, components) THEN Cardinality(taken)
                     ELSE 0,
      threatened |-> Cardinality(threatened),
      threatenedLoss |-> SumOver(threatened \cap DOMAIN cuts, cuts),
      threatTempo |-> ThreatTempo(s, p),
      cuts |-> cuts]

(***************************************************************************)
(* Scores                                                                  *)
(***************************************************************************)
\* What a seat's own structure m and open space are worth.
Structure(m, space) ==
  LET area == Rows * Cols
      w == EvalParams
  IN Normalized(m.connected, area, w.connected)
     + Normalized(m.normal, area, w.normal)
     + Normalized(m.fortified, area, w.fortified)
     + Normalized(m.mobility, area, w.mobility)
     + Normalized(m.captures, area, w.captures)
     - Normalized(m.disconnected, m.normal + m.fortified + 1, w.disconnected)
     + w.baseExits * m.baseExits
     + w.baseOpenings * m.baseOpenings
     + w.baseAnchors * m.baseAnchors
     - w.baseThreat * m.baseThreat * m.threatTempo
     - m.threatTempo * w.threatenedLossMult * Ratio(m.threatenedLoss, AtLeast(m.connected, 1))
     - m.threatTempo * w.threatenedMult * Ratio(m.threatened, AtLeast(m.connected, 1))
     + Normalized(space, area, w.spaceRace)

\* What a seat's bare exits, its placement and its turn add.
Standing(s, p, m) ==
  (IF m.baseExits + m.baseOpenings = 0 THEN -EvalParams.sealedBasePenalty ELSE 0)
  + (IF p \notin s.neutralUsed THEN EvalParams.neutralUnusedBonus ELSE 0)
  + (IF s.current = p THEN s.movesLeft * EvalParams.movesLeftTempo ELSE 0)

\* What standing beside the cuts of another seat, with metrics m, is worth.
PredatoryCut(m, component) ==
  LET worth == [c \in DOMAIN m.cuts |->
                  EvalParams.predatoryCutBase
                  + Ratio(m.cuts[c], AtLeast(m.connected, 1)) \div EvalParams.predatoryCutLossDiv]
  IN SumOver({c \in DOMAIN m.cuts : AdjacentConnected(c, component)}, worth)

Raw(s, metrics, components, space) ==
  Tabulated(
    [p \in Seat |->
       IF p \notin s.active THEN -(MateScore \div 2)
       ELSE Structure(metrics[p], space[p]) + Standing(s, p, metrics[p])
            + SumOver(s.active \ {p}, [q \in s.active |-> PredatoryCut(metrics[q], components[p])])])

\* Mutant: the mean is taken over every seat of the table.
UtilityOverTheTable(s, raw) ==
  [p \in Seat |-> IF p \notin s.active THEN raw[p]
                  ELSE raw[p] - Truncated(SumOver(s.active \ {p}, raw), Players - 1)]

\* A seat's own score less the mean of its active opponents'.
Utility(s, raw) ==
  [p \in Seat |-> IF p \notin s.active \/ Cardinality(s.active) = 1 THEN raw[p]
                  ELSE raw[p] - Truncated(SumOver(s.active \ {p}, raw), Cardinality(s.active) - 1)]

MetricsOf(s, components) ==
  Tabulated([p \in s.active |-> Analyze(s, p, components, components[p],
                                        Articulation(s, p, components[p]))])

ScoredWith(s, components) ==
  Utility(s, Raw(s, MetricsOf(s, components), components,
                 SpaceRace(s.cells, RaceOf(s, components))))

EvaluateAll(s) ==
  IF s.over THEN [p \in Seat |-> IF s.winner = p THEN MateScore ELSE -MateScore]
  ELSE ScoredWith(s, Components(s))

-----------------------------------------------------------------------------
(***************************************************************************)
(* Properties                                                              *)
(***************************************************************************)

\* The cells of a graph held to some of them.
RECURSIVE Held(_, _)
Held(reached, graph) ==
  LET more == {d \in graph : Near[d] \cap reached # {}}
  IN IF more \subseteq reached THEN reached ELSE Held(Listed(reached \cup more), graph)

\* What a component loses with one of its cells: the cell, and all it alone held to the base.
Severed(component, base, c) == component \ Held({base}, Listed(component \ {c}))

\* One component's cuts and their costs, and the cuts of what the loss of one of its
\* other plain cells leaves, against that definition.
CutsAre(component, base, plain, cuts) ==
  /\ DOMAIN cuts = {c \in plain : Cardinality(Severed(component, base, c)) > 1}
  /\ \A c \in DOMAIN cuts : cuts[c] = Cardinality(Severed(component, base, c))
  /\ \A c \in plain \ DOMAIN cuts :
       ArticulationCells(component, base, {c}) \cap plain =
         {d \in plain \ {c} : Cardinality(Severed(Listed(component \ {c}), base, d)) > 1}

\* The cut cells and their cost, told by the low-links of one visit whatever the order in
\* which it scans, are the plain cells whose capture severs more than themselves, and
\* exactly as much as it severs; and so are the partners found for a cell that is no cut.
CutsSeverTheirCost ==
  \A p \in state.active :
    LET component == Listed(Connected(state.cells, p))
    IN CutsAre(component, Base[p], component \cap OwnedNormals(state.cells, p),
               Articulation(state, p, component))

\* The position seen in the mirror: left and right exchanged, and the seats with them.
MirrorCell(c) == <<c[1], Cols - 1 - c[2]>>
MirrorSeat(p) == CASE p = 1 -> 3 [] p = 3 -> 1 [] p = 2 -> 4 [] p = 4 -> 2 [] OTHER -> 0
MirrorSeats(seats) == {MirrorSeat(p) : p \in seats}
Mirrored(s) ==
  [s EXCEPT !.cells = Tabulated([c \in Pos |-> LET cell == s.cells[MirrorCell(c)]
                                               IN Piece(MirrorSeat(cell.owner), cell.kind)]),
            !.active = MirrorSeats(@), !.neutralUsed = MirrorSeats(@),
            !.current = MirrorSeat(@), !.winner = MirrorSeat(@)]

\* The scores do not know left from right: a position and its mirror image, which every
\* scan meets in another order, are worth the same to the seats they exchange. Between two
\* seats what one gains the other loses; and a running game's score is never taken for a
\* win or a loss.
ScoresAreFair ==
  LET scores == EvaluateAll(state)
      mirrored == EvaluateAll(Mirrored(state))
  IN /\ \A p \in Seat : mirrored[MirrorSeat(p)] = scores[p]
     /\ ~state.over =>
          /\ \A p \in state.active : scores[p] \in -(MateScore \div 4)..(MateScore \div 4)
          /\ Cardinality(state.active) = 2 =>
               \A p, q \in state.active : p # q => scores[p] = -scores[q]

=============================================================================
