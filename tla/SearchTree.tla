----------------------------- MODULE SearchTree -----------------------------
(***************************************************************************)
(* The single-threaded PUCT searcher (search.rs) and its sequential        *)
(* halving at the root (gumbel.rs).                                        *)
(*                                                                         *)
(* The game is a finite graph of positions: Moves[p] lists the positions   *)
(* the legal actions of p lead to, in enumeration order, and an action is  *)
(* its index there.  Key is the Zobrist key, on which positions may        *)
(* collide; Value is the leaf evaluation for the player to move.           *)
(*                                                                         *)
(* Priors and PUCT scores are floating point and decide nothing else than  *)
(* which edge a descent takes and which candidates a halving keeps: select *)
(* may take any edge, and a Gumbel score ranks the candidates in any order.*)
(*                                                                         *)
(* Node numbers start at 1, the root; 0 is NO_NODE.                        *)
(***************************************************************************)
EXTENDS Integers, Sequences, FiniteSets, SequencesExt

CONSTANTS
  Position,
  Moves,      \* Position -> the positions its legal actions lead to
  Mover,      \* Position -> the player to move, 1 or 2
  Over,       \* the positions with game_over
  Winner,     \* Position -> outcome_winner: 1, 2 or 0
  Value,      \* Position -> the leaf value for the player to move
  Key,        \* Position -> its hash
  Depth,      \* Position -> how many actions were played
  Configs,    \* the configurations: [dag, batch, m, sims, sampling]; m = 0: no Gumbel
  MaxSims     \* bound: no further round once a searcher has run this many

ASSUME GraphAssumption ==
  /\ Moves \in [Position -> Seq(Position)]
  /\ Mover \in [Position -> {1, 2}] /\ Winner \in [Position -> 0..2]
  /\ Value \in [Position -> Int] /\ Depth \in [Position -> Nat]
  /\ Over \subseteq Position
\* "The DAG is acyclic by the rules": an action is one action deeper.
ASSUME DepthAssumption ==
  \A p \in Position : \A a \in DOMAIN Moves[p] : Depth[Moves[p][a]] = Depth[p] + 1
ASSUME ConfigAssumption ==
  /\ Configs \subseteq [dag : BOOLEAN, batch : Nat \ {0}, m : Nat, sims : Nat \ {0}, sampling : BOOLEAN]
  /\ MaxSims \in Nat

VARIABLES
  config,
  nodes,       \* the arena
  index,       \* transpositions: key -> node, for the keys it holds
  collisions,  \* key_collisions
  sims,        \* simulations run
  plan,        \* the GumbelPlan, or NoPlan
  round        \* the round under way: [stage, due, at, path, descents, leaves]

tree == <<config, nodes, index, collisions, sims, plan, round>>

NoNode == 0
NoPlan == [alive |-> <<>>]
Gumbel == plan # NoPlan
Dag == config.dag
Smaller(a, b) == IF a < b THEN a ELSE b
Larger(a, b) == IF a > b THEN a ELSE b
Total(counts) == MapThenSumSet(LAMBDA x : counts[x], DOMAIN counts)
-----------------------------------------------------------------------------
(* Nodes *)

Frame(p) == IF Mover[p] = 1 THEN 1 ELSE -1
TerminalValue(p) == CASE Winner[p] = 1 -> 1 [] Winner[p] = 2 -> -1 [] OTHER -> 0
LeafValueOfMover(p) == Value[p]
LeafValue(p) == Frame(p) * Value[p]

NewNode(p) ==
  [pos |-> p, terminal |-> p \in Over, expanded |-> FALSE, pending |-> FALSE,
   leaf |-> IF p \in Over THEN TerminalValue(p) ELSE 0,
   child |-> <<>>, n |-> <<>>, w |-> <<>>, vl |-> <<>>, visits |-> 0, vlVisits |-> 0]

\* begin_expand: a position without actions is terminal though the game is not over.
BeginExpand(x) ==
  LET zeros == [a \in DOMAIN Moves[x.pos] |-> 0]
  IN  IF zeros = <<>>
      THEN [x EXCEPT !.terminal = TRUE, !.leaf = TerminalValue(x.pos)]
      ELSE [x EXCEPT !.child = zeros, !.n = zeros, !.w = zeros, !.vl = zeros]

FinishExpand(x) == [x EXCEPT !.expanded = TRUE, !.leaf = LeafValue(x.pos)]

Expand(x) == LET y == BeginExpand(x) IN IF y.terminal THEN y ELSE FinishExpand(y)

RootNode(p) == IF p \in Over THEN NewNode(p) ELSE Expand(NewNode(p))
-----------------------------------------------------------------------------
(* The schedule of a root *)

\* rounds_for: ceil(log2(m)), at least 1.
Rounds(m) == CHOOSE r \in 1..m : 2^r >= m /\ (r = 1 \/ 2^(r - 1) < m)

PhaseShare(alive, scheduled, phase, rounds) ==
  LET left == Larger(config.sims - scheduled, 0)
      phases == Larger(rounds - phase, 1)
  IN  Larger(left \div (phases * Len(alive)), 1)

Lists(S, k) == {s \in [1..k -> S] : \A i, j \in 1..k : i # j => s[i] # s[j]}

\* plan_gumbel: the top m of the root's edges by a draw, in any order.
Plans(root) ==
  IF config.m = 0 \/ root.terminal THEN {NoPlan}
  ELSE LET edges == DOMAIN root.child
           m == Smaller(config.m, Len(root.child))
       IN  {[alive |-> alive, perAction |-> PhaseShare(alive, 0, 0, Rounds(m)), given |-> 0,
             scheduled |-> 0, phase |-> 0, rounds |-> Rounds(m)] : alive \in Lists(edges, m)}

PhaseSize(p) == p.perAction * Len(p.alive)
NeedsHalving(p) == Len(p.alive) > 1 /\ p.given >= PhaseSize(p)
PhaseRemaining(p, target) ==
  IF Len(p.alive) <= 1 THEN target ELSE Larger(PhaseSize(p) - p.given, 0)

\* halve: the better half, in the order of the scores.
Halvings(p) ==
  LET alive == {p.alive[i] : i \in DOMAIN p.alive}
      After(kept) == [p EXCEPT !.alive = kept, !.phase = @ + 1, !.given = 0,
        !.perAction = PhaseShare(kept, p.scheduled, p.phase + 1, p.rounds)]
  IN  {After(kept) : kept \in Lists(alive, (Len(p.alive) + 1) \div 2)}

\* take: round robin over the candidates.
Taken(p) == p.alive[(p.given % Len(p.alive)) + 1]
Take(p) == [p EXCEPT !.given = @ + 1, !.scheduled = @ + 1]
-----------------------------------------------------------------------------
(* A round: descents, one batched evaluation, the backup *)

AtRest == [stage |-> "rest", due |-> 0, at |-> 1, path |-> <<>>, descents |-> <<>>, leaves |-> <<>>]
Resting == round.stage = "rest"

\* MctsSearcher::new
NewSearcher(p) ==
  /\ nodes' = <<RootNode(p)>>
  /\ index' = <<>>
  /\ collisions' = 0
  /\ sims' = 0
  /\ plan' \in Plans(RootNode(p))
  /\ round' = AtRest

\* gumbel_prepare: a due halving, and a target that stays inside the phase.
Prepared == IF Gumbel /\ NeedsHalving(plan) THEN Halvings(plan) ELSE {plan}
ClampedNever(p, target) == target
Clamped(p, target) ==
  IF p = NoPlan THEN target ELSE Larger(Smaller(target, PhaseRemaining(p, target)), 1)

SimulateRound(target) ==
  /\ Resting /\ ~nodes[1].terminal
  /\ \E p \in Prepared :
       /\ plan' = p
       /\ round' = [AtRest EXCEPT !.stage = "descend", !.due = Clamped(p, target)]
  /\ UNCHANGED <<config, nodes, index, collisions, sims>>

Here == nodes[round.at]

\* The edges select may answer with; under a plan the root's edge is dictated.
Selectable == IF round.at = 1 /\ Gumbel THEN {Taken(plan)} ELSE DOMAIN Here.child

\* link_child: the node to merge onto, if the index holds this very position.
Known(p) == Dag /\ Key[p] \in DOMAIN index
Merges(p) == Known(p) /\ nodes[index[Key[p]]].pos = p

Entered(p, i) ==
  IF ~Dag \/ Key[p] \in DOMAIN index THEN index
  ELSE [k \in DOMAIN index \cup {Key[p]} |-> IF k = Key[p] THEN i ELSE index[k]]

\* One edge of a descent: its child is linked if it has none, and it carries a virtual loss.
Walk(a) ==
  LET p == Moves[Here.pos][a]
      fresh == Here.child[a] = NoNode /\ ~Merges(p)
      to == IF Here.child[a] # NoNode THEN Here.child[a]
            ELSE IF fresh THEN Len(nodes) + 1 ELSE index[Key[p]]
      walked == [nodes EXCEPT ![round.at].child[a] = to, ![round.at].vl[a] = @ + 1,
                              ![round.at].vlVisits = @ + 1]
  IN  /\ nodes' = IF fresh THEN Append(walked, NewNode(p)) ELSE walked
      /\ index' = IF fresh THEN Entered(p, to) ELSE index
      /\ collisions' = IF fresh /\ Known(p) THEN collisions + 1 ELSE collisions
      /\ plan' = IF round.at = 1 /\ Gumbel THEN Take(plan) ELSE plan
      /\ round' = [round EXCEPT !.at = to, !.path = Append(@, <<round.at, a>>)]

Step ==
  /\ round.stage = "descend"
  /\ Here.expanded /\ ~Here.terminal /\ ~Here.pending
  /\ \E a \in Selectable : Walk(a)
  /\ UNCHANGED <<config, sims>>

\* The descent ends at leaf number l of the batch, which now holds these leaves.
Recorded(leaves, l) ==
  round' = [round EXCEPT !.leaves = leaves, !.at = 1, !.path = <<>>, !.due = @ - 1,
    !.stage = IF round.due = 1 THEN "evaluate" ELSE "descend",
    !.descents = Append(@, [path |-> round.path, leaf |-> l])]
RecordLeaf(valued, value) ==
  Recorded(Append(round.leaves, [node |-> round.at, valued |-> valued, value |-> value]),
           Len(round.leaves) + 1)

Waiting == {l \in DOMAIN round.leaves :
              round.leaves[l].node = round.at /\ ~round.leaves[l].valued}

ArriveTerminal ==
  /\ round.stage = "descend"
  /\ Here.terminal
  /\ RecordLeaf(TRUE, Here.leaf)
  /\ UNCHANGED <<config, nodes, index, collisions, sims, plan>>

\* reuse_leaf: the first slot that holds this node's evaluation.
ArrivePending ==
  /\ round.stage = "descend"
  /\ ~Here.terminal /\ Here.pending
  /\ Recorded(round.leaves, CHOOSE l \in Waiting : \A o \in Waiting : l <= o)
  /\ UNCHANGED <<config, nodes, index, collisions, sims, plan>>

ArriveNew ==
  /\ round.stage = "descend"
  /\ ~Here.terminal /\ ~Here.pending /\ ~Here.expanded
  /\ LET x == BeginExpand(Here)
     IN  /\ nodes' = [nodes EXCEPT ![round.at] = [x EXCEPT !.pending = ~x.terminal]]
         /\ RecordLeaf(x.terminal, x.leaf)
  /\ UNCHANGED <<config, index, collisions, sims, plan>>

\* evaluate_leaves: one forward for all leaves that wait, each expansion finished.
EvaluateLeaves ==
  /\ round.stage = "evaluate"
  /\ LET Waits(i) == \E l \in DOMAIN round.leaves :
                       round.leaves[l].node = i /\ ~round.leaves[l].valued
         Filled(leaf) == IF leaf.valued THEN leaf
                         ELSE [leaf EXCEPT !.valued = TRUE,
                                           !.value = LeafValue(nodes[leaf.node].pos)]
     IN  /\ nodes' = [i \in DOMAIN nodes |->
                        IF Waits(i) THEN [FinishExpand(nodes[i]) EXCEPT !.pending = FALSE]
                        ELSE nodes[i]]
         /\ round' = [round EXCEPT !.stage = "backup",
                        !.leaves = [l \in DOMAIN @ |-> Filled(@[l])]]
  /\ UNCHANGED <<config, index, collisions, sims, plan>>

\* The descents that took an edge, and what their leaves are worth together.
Through(i, a) ==
  {d \in DOMAIN round.descents :
     \E k \in DOMAIN round.descents[d].path : round.descents[d].path[k] = <<i, a>>}
Worth(S) == Total([d \in S |-> round.leaves[round.descents[d].leaf].value])

\* backup: every edge of every descent is credited with the leaf value as it is, and freed.
Credited(i) ==
  LET x == nodes[i]
      hits == [a \in DOMAIN x.child |-> Through(i, a)]
      count == [a \in DOMAIN x.child |-> Cardinality(hits[a])]
      total == Cardinality(UNION {hits[a] : a \in DOMAIN hits})
  IN  [x EXCEPT !.visits = @ + total, !.vlVisits = @ - total,
                !.n = [a \in DOMAIN @ |-> @[a] + count[a]],
                !.vl = [a \in DOMAIN @ |-> @[a] - count[a]],
                !.w = [a \in DOMAIN @ |-> @[a] + Worth(hits[a])]]

Backup ==
  /\ round.stage = "backup"
  /\ nodes' = [i \in DOMAIN nodes |-> Credited(i)]
  /\ sims' = sims + Len(round.descents)
  /\ round' = AtRest
  /\ UNCHANGED <<config, index, collisions, plan>>
-----------------------------------------------------------------------------
(* Re-rooting *)

Kids(i) == {nodes[i].child[a] : a \in DOMAIN nodes[i].child} \ {NoNode}

\* What is reachable from a node: what every set has that has the node and its nodes' children.
Below(i) ==
  LET closed == {S \in SUBSET DOMAIN nodes : i \in S /\ \A j \in S : Kids(j) \subseteq S}
  IN  {j \in DOMAIN nodes : \A S \in closed : j \in S}

\* The survivors, the new root first: then in any one order, where the code takes them
\* breadth-first.
Survivors(i) == <<i>> \o SetToSeq(Below(i) \ {i})

RenumberedUnderAFreshRoot(order) ==
  LET number(i) == IF i = NoNode THEN NoNode ELSE CHOOSE k \in DOMAIN order : order[k] = i
      Numbered(x) == [x EXCEPT !.child = [a \in DOMAIN @ |-> number(@[a])]]
  IN  [k \in DOMAIN order |->
         Numbered(IF k = 1 THEN RootNode(nodes[order[1]].pos) ELSE nodes[order[k]])]

Renumbered(order) ==
  LET number(i) == IF i = NoNode THEN NoNode ELSE CHOOSE k \in DOMAIN order : order[k] = i
  IN  [k \in DOMAIN order |->
         [nodes[order[k]] EXCEPT !.child = [a \in DOMAIN @ |-> number(@[a])]]]

RebuiltWithTheRoot(arena) ==
  LET keys == {Key[arena[i].pos] : i \in DOMAIN arena}
  IN  IF ~Dag THEN {<<>>}
      ELSE {f \in [keys -> DOMAIN arena] : \A k \in keys : Key[arena[f[k]].pos] = k}

\* rebuild_transpositions: every node but the root; of those that share a key the first in the
\* arena keeps it, so which one that is depends on the order and is left open.
Rebuilt(arena) ==
  LET keys == {Key[arena[i].pos] : i \in 2..Len(arena)}
  IN  IF ~Dag THEN {<<>>}
      ELSE {f \in [keys -> 2..Len(arena)] : \A k \in keys : Key[arena[f[k]].pos] = k}

CanRebase(a) ==
  /\ ~nodes[1].terminal
  /\ a \in DOMAIN nodes[1].child
  /\ nodes[1].child[a] # NoNode

\* rebase: the tree of the child, everything else dropped.
Kept(a) == Renumbered(Survivors(nodes[1].child[a]))

Rebase(a) ==
  /\ Resting /\ CanRebase(a)
  /\ nodes' = Kept(a)
  /\ index' \in Rebuilt(nodes')
  /\ plan' \in Plans(nodes'[1])
  /\ UNCHANGED <<config, collisions, sims, round>>
-----------------------------------------------------------------------------
(* Answers *)

Leader(counts) ==
  CHOOSE a \in DOMAIN counts :
    \A b \in DOMAIN counts : counts[b] < counts[a] \/ (counts[b] = counts[a] /\ a <= b)

\* best_action: the most visited edge, or any candidate the schedule left.
BestActions ==
  IF nodes[1].terminal THEN {}
  ELSE IF Gumbel THEN {plan.alive[i] : i \in DOMAIN plan.alive}
  ELSE {Leader(nodes[1].n)}

\* chosen_action: with visit_sampling a draw in proportion to the visits.
ChosenActions ==
  LET visited == {a \in DOMAIN nodes[1].n : nodes[1].n[a] > 0}
  IN  IF ~config.sampling \/ Gumbel \/ nodes[1].terminal THEN BestActions
      ELSE IF visited = {} THEN {1} ELSE visited

Round == Step \/ ArriveTerminal \/ ArrivePending \/ ArriveNew \/ EvaluateLeaves \/ Backup
-----------------------------------------------------------------------------
TypeOK ==
  LET Count == 0..(MaxSims + config.batch)
      Edges(x) == IF x.expanded \/ x.pending THEN DOMAIN Moves[x.pos] ELSE {}
  IN  /\ config \in Configs
      /\ sims \in Nat /\ collisions \in Nat
      /\ \A i \in DOMAIN nodes :
           /\ nodes[i].pos \in Position
           /\ nodes[i].child \in [Edges(nodes[i]) -> 0..Len(nodes)]
           /\ nodes[i].n \in [Edges(nodes[i]) -> Nat]
           /\ nodes[i].vl \in [Edges(nodes[i]) -> Nat]
           /\ nodes[i].w \in [Edges(nodes[i]) -> Int]
           /\ nodes[i].visits \in Nat /\ nodes[i].vlVisits \in Nat
      /\ \A k \in DOMAIN index : index[k] \in DOMAIN nodes
      /\ nodes # <<>> => round.at \in DOMAIN nodes
      /\ Gumbel => /\ \A i \in DOMAIN plan.alive : plan.alive[i] \in DOMAIN Moves[nodes[1].pos]
                   /\ plan.perAction \in Nat \ {0}
=============================================================================
