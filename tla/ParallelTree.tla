---------------------------- MODULE ParallelTree ----------------------------
(***************************************************************************)
(* Tree-parallel search: the workers of ParallelMcts (parallel.rs) on one  *)
(* shared tree.                                                            *)
(*                                                                         *)
(* A step is what one worker does to shared memory between two points at   *)
(* which another may look: a OnceLock read or set, the compare-exchange of *)
(* an expanding flag, the two halves of add_f64's loop.  fetch_adds in a   *)
(* row are one step: counters only steer select, which here may take any   *)
(* edge.  The reads of outcome and edges are one step too: no node ever    *)
(* gets both, and neither is taken back.  Every edge has a node of its own *)
(* (there is no DAG), so an edge is named by the node it leads to; whether *)
(* that node has been created yet makes no difference and is left out, as  *)
(* are priors and noise.                                                   *)
(***************************************************************************)
EXTENDS Integers, Sequences, FiniteSets, FiniteSetsExt

CONSTANTS
  Node,      \* the positions below the root, and the root
  Root,
  Kids,      \* Node -> the nodes its legal actions lead to
  Over,      \* the nodes whose position says game_over
  Value,     \* Node -> its leaf value, in the absolute frame
  Worker,    \* the worker threads
  Batch,     \* config.batch_size
  Count,     \* what run_sims is asked for
  MaxRuns,   \* bound: calls of run_sims or run_until_deadline
  MaxRounds, \* bound: rounds a timed run's workers add to their first
  NoNode

ASSUME TreeAssumption ==
  /\ Root \in Node /\ NoNode \notin Node
  /\ Kids \in [Node -> SUBSET Node]
  /\ Over \subseteq Node
  /\ Value \in [Node -> Int]
\* Every edge makes the node it leads to (children: Vec<OnceLock<Arc<SharedNode>>>),
\* so no two share one and none leads to the root.
ASSUME ShapeAssumption ==
  /\ \A x, y \in Node : x # y => Kids[x] \cap Kids[y] = {}
  /\ \A x \in Node : Root \notin Kids[x] /\ IsFiniteSet(Kids[x])
  /\ IsFiniteSet(Worker)
\* A root without an action, or of a finished game, runs nothing.
ASSUME RootAssumption == Root \notin Over /\ Kids[Root] # {}
ASSUME SizeAssumption ==
  /\ Batch \in Nat \ {0} /\ Count \in Nat /\ MaxRuns \in Nat /\ MaxRounds \in Nat

VARIABLES
  tree,    \* [outcome, edges, expanding : nodes with that slot set]
  visits,  \* Node -> node.visits
  flights, \* Node -> node.vl_visits
  n, vl,   \* Node -> the n and vl of the edge to it
  w,       \* Node -> the w of the edge to it
  budget,  \* the simulations run_sims has not handed out; or rounds, see MaxRounds
  worker,  \* Worker -> the state of its thread
  main,    \* the caller: "idle", inside "sims" or "timed", or "raised"
  runs,    \* the calls made
  due      \* history: what the root's visits should be after run_sims

vars == <<tree, visits, flights, n, vl, w, budget, worker, main, runs, due>>
stats == <<visits, flights, n, vl, w>>
caller == <<main, runs, due>>

Descent == [path : Seq(Node), leaf : Node]
Stage == {"claim", "descend", "cas", "evaluate", "release",
          "count", "add", "return", "done", "panicked"}
Thread == [pc : Stage,
           claim : 0..Batch,         \* the descents of this round
           left : 0..Batch,          \* those still to be made
           ran : 0..Batch,           \* those that did not collide
           node : Node \cup {NoNode},
           path : Seq(Node),         \* the edges of the descent in progress
           descents : Seq(Descent),  \* those not yet backed up
           pending : SUBSET Node,    \* the leaves it claimed and has not valued
           seen : Int]               \* what add_f64 loaded

TypeOK ==
  /\ tree \in [outcome : SUBSET Node, edges : SUBSET Node, expanding : SUBSET Node]
  /\ visits \in [Node -> Int] /\ flights \in [Node -> Int]
  /\ n \in [Node -> Int] /\ vl \in [Node -> Int] /\ w \in [Node -> Int]
  /\ budget \in Nat
  /\ worker \in [Worker -> Thread]
  /\ main \in {"idle", "sims", "timed", "raised"}
  /\ runs \in 0..MaxRuns
  /\ due \in Int

Zero == [x \in Node |-> 0]

\* A thread with nothing in hand; one at the start of a round of take descents.
EmptyHanded(pc, take, node) ==
  [pc |-> pc, claim |-> take, left |-> take, ran |-> 0, node |-> node,
   path |-> <<>>, descents |-> <<>>, pending |-> {}, seen |-> 0]
Done == EmptyHanded("done", 0, NoNode)
Claiming == EmptyHanded("claim", 0, NoNode)
Round(take) == EmptyHanded("descend", take, Root)

\* ParallelMcts::new: the root is expanded before there is a worker.
Init ==
  /\ tree = [outcome |-> Over, edges |-> {Root}, expanding |-> {}]
  /\ visits = Zero /\ flights = Zero
  /\ n = Zero /\ vl = Zero /\ w = Zero
  /\ budget = 0
  /\ worker = [t \in Worker |-> Done]
  /\ main = "idle" /\ runs = 0 /\ due = 0

-----------------------------------------------------------------------------
Becomes(t, thread) == worker' = [worker EXCEPT ![t] = thread]
At(t, pc) == worker[t].pc = pc

\* run_sims and run_until_deadline, until drive has spawned its workers.
Starts(mode) ==
  /\ main = "idle" /\ runs < MaxRuns
  /\ main' = mode /\ runs' = runs + 1
  /\ budget' = IF mode = "sims" THEN Count ELSE MaxRounds
  /\ due' = visits[Root] + Count
  /\ worker' = [t \in Worker |->
       IF mode = "sims" THEN Claiming ELSE Round(Batch)]
  /\ UNCHANGED <<tree, stats>>

\* Mutant: the last claim is not cut to what is left.
TakeBlindly == Batch

Take == IF budget < Batch THEN budget ELSE Batch

\* claim_from.
Claims(t) ==
  /\ At(t, "claim")
  /\ IF budget = 0 THEN Becomes(t, Done)
     ELSE Becomes(t, Round(Take))
  /\ budget' = IF budget = 0 THEN 0 ELSE budget - Take
  /\ UNCHANGED <<tree, stats, caller>>

-----------------------------------------------------------------------------
\* descend.

\* The next descent of the round, or its end.
NextDescent(thread) ==
  IF thread.left > 1
  THEN [thread EXCEPT !.pc = "descend", !.left = @ - 1, !.node = Root, !.path = <<>>]
  ELSE [thread EXCEPT !.pc = "evaluate", !.left = 0, !.node = NoNode, !.path = <<>>]

\* The descent ended in its node, claimed afresh if claimed holds it.
RecordLeaf(thread, claimed) ==
  NextDescent([thread EXCEPT
    !.descents = Append(@, [path |-> thread.path, leaf |-> thread.node]),
    !.ran = @ + 1,
    !.pending = @ \cup claimed])

\* node.outcome is set: a leaf.
FindsOutcome(t) ==
  /\ At(t, "descend") /\ worker[t].node \in tree.outcome
  /\ Becomes(t, RecordLeaf(worker[t], {}))
  /\ UNCHANGED <<tree, stats, budget, caller>>

\* node.edges is set, and one of them is walked.
Walks(t) ==
  /\ At(t, "descend") /\ worker[t].node \in tree.edges
  /\ \E kid \in Kids[worker[t].node] :
       /\ vl' = [vl EXCEPT ![kid] = @ + 1]
       /\ Becomes(t, [worker[t] EXCEPT !.pc = "descend", !.node = kid,
                                       !.path = Append(@, kid)])
  /\ flights' = [flights EXCEPT ![worker[t].node] = @ + 1]
  /\ UNCHANGED <<tree, visits, n, w, budget, caller>>

\* Mutant: pending_slot finds nothing.
OwnClaimNever(t) == FALSE

\* pending_slot
OwnClaim(t) == worker[t].node \in worker[t].pending

\* Neither is: a leaf of its own batch, or one to claim.
FindsNothing(t) ==
  /\ At(t, "descend") /\ worker[t].node \notin tree.outcome \cup tree.edges
  /\ IF OwnClaim(t)
     THEN Becomes(t, RecordLeaf(worker[t], {}))
     ELSE Becomes(t, [worker[t] EXCEPT !.pc = "cas"])
  /\ UNCHANGED <<tree, stats, budget, caller>>

\* Mutants: the flag is stored without a look; its exchange is read the wrong way.
MayClaimAlways(t) == TRUE
MayClaimInverted(t) == worker[t].node \in tree.expanding

MayClaim(t) == worker[t].node \notin tree.expanding

ClaimsLeaf(t) ==
  /\ At(t, "cas") /\ MayClaim(t)
  /\ tree' = [tree EXCEPT !.expanding = @ \cup {worker[t].node}]
  /\ Becomes(t, RecordLeaf(worker[t], {worker[t].node}))
  /\ UNCHANGED <<stats, budget, caller>>

\* Mutant: the abandoned descent keeps its virtual loss.
UndoneNothing(f, path) == f

\* One less for every occurrence on the path.
Undone(f, path) ==
  [x \in Node |-> f[x] - Cardinality({i \in 1..Len(path) : path[i] = x})]

\* The nodes the path left: the root and all but the last it entered.
Parents(path) ==
  [i \in 1..Len(path) |-> IF i = 1 THEN Root ELSE path[i - 1]]

Collides(t) ==
  /\ At(t, "cas") /\ ~MayClaim(t)
  /\ vl' = Undone(vl, worker[t].path)
  /\ flights' = Undone(flights, Parents(worker[t].path))
  /\ Becomes(t, NextDescent(worker[t]))
  /\ UNCHANGED <<tree, visits, n, w, budget, caller>>

-----------------------------------------------------------------------------
\* evaluate_leaves.

Stuck(leaf) == Kids[leaf] = {}

\* mark_stuck or publish_edges for one leaf.  Those without actions come first.
Publishes(t) ==
  /\ At(t, "evaluate")
  /\ \E leaf \in worker[t].pending :
       /\ Stuck(leaf) \/ \A other \in worker[t].pending : ~Stuck(other)
       /\ tree' = IF Stuck(leaf) THEN [tree EXCEPT !.outcome = @ \cup {leaf}]
                  ELSE [tree EXCEPT !.edges = @ \cup {leaf}]
       /\ Becomes(t, [worker[t] EXCEPT !.pc = "release", !.node = leaf])
  /\ UNCHANGED <<stats, budget, caller>>

\* expanding.store(false)
Releases(t) ==
  /\ At(t, "release")
  /\ tree' = [tree EXCEPT !.expanding = @ \ {worker[t].node}]
  /\ Becomes(t, [worker[t] EXCEPT !.pc = "evaluate", !.node = NoNode,
                                  !.pending = @ \ {worker[t].node}])
  /\ UNCHANGED <<stats, budget, caller>>

\* The forward pass panics.
Panics(t) ==
  /\ At(t, "evaluate") /\ \E leaf \in worker[t].pending : ~Stuck(leaf)
  /\ Becomes(t, [worker[t] EXCEPT !.pc = "panicked"])
  /\ UNCHANGED <<tree, stats, budget, caller>>

-----------------------------------------------------------------------------
\* backup.

\* The backup goes on with the next edge, the next descent, or ends.  No
\* descent ends at the root, so each has an edge to begin with.
BackedUp(thread) ==
  LET rest == IF thread.descents # <<>> /\ Head(thread.descents).path = <<>>
              THEN Tail(thread.descents) ELSE thread.descents
  IN [thread EXCEPT !.descents = rest,
                    !.pc = IF rest = <<>> THEN "return" ELSE "count"]

Evaluated(t) ==
  /\ At(t, "evaluate") /\ worker[t].pending = {}
  /\ Becomes(t, BackedUp(worker[t]))
  /\ UNCHANGED <<tree, stats, budget, caller>>

Edge(t) == Head(Head(worker[t].descents).path)
Leaf(t) == Head(worker[t].descents).leaf

\* The node an edge leaves.
Parent(kid) == CHOOSE x \in Node : kid \in Kids[x]

\* add_f64 has read the sum.
Loaded(t) == [worker[t] EXCEPT !.pc = "add", !.seen = w[Edge(t)]]

\* The fetch_adds of the visits, and the load of add_f64.
Counts(t) ==
  /\ At(t, "count")
  /\ visits' = [visits EXCEPT ![Parent(Edge(t))] = @ + 1]
  /\ n' = [n EXCEPT ![Edge(t)] = @ + 1]
  /\ Becomes(t, Loaded(t))
  /\ UNCHANGED <<tree, flights, vl, w, budget, caller>>

\* The first descent has one edge less to back up.
Advanced(descent) == [descent EXCEPT !.path = Tail(@)]
Shortened(descents) == [descents EXCEPT ![1] = Advanced(@)]

\* Mutant: a plain store.
UnchangedSinceAlways(t) == TRUE

UnchangedSince(t) == w[Edge(t)] = worker[t].seen

\* Its compare-exchange, which starts over with what it found if that is not
\* what was loaded.  The virtual loss is taken back after it.
Adds(t) ==
  /\ At(t, "add") /\ UnchangedSince(t)
  /\ w' = [w EXCEPT ![Edge(t)] = worker[t].seen + Value[Leaf(t)]]
  /\ vl' = [vl EXCEPT ![Edge(t)] = @ - 1]
  /\ flights' = [flights EXCEPT ![Parent(Edge(t))] = @ - 1]
  /\ Becomes(t, BackedUp([worker[t] EXCEPT !.descents = Shortened(@), !.seen = 0]))
  /\ UNCHANGED <<tree, visits, n, budget, caller>>

AddsAgain(t) ==
  /\ At(t, "add") /\ ~UnchangedSince(t)
  /\ Becomes(t, Loaded(t))
  /\ UNCHANGED <<tree, stats, budget, caller>>

-----------------------------------------------------------------------------
\* The end of a round, and of a run.

\* Mutant: what collided is not handed back.
HandedBackNothing(thread) == 0

HandedBack(thread) == thread.claim - thread.ran

ReturnsSims(t) ==
  /\ At(t, "return") /\ main = "sims"
  /\ budget' = budget + HandedBack(worker[t])
  /\ Becomes(t, Claiming)
  /\ UNCHANGED <<tree, stats, caller>>

\* The deadline has passed, or not; the bound counts rounds.
ReturnsTimed(t) ==
  /\ At(t, "return") /\ main = "timed"
  /\ \/ Becomes(t, Done) /\ UNCHANGED budget
     \/ budget > 0 /\ Becomes(t, Round(Batch)) /\ budget' = budget - 1
  /\ UNCHANGED <<tree, stats, caller>>

\* drive joins every worker, then raises a panic or refreshes the root.
Joins ==
  /\ main \in {"sims", "timed"}
  /\ \A t \in Worker : worker[t].pc \in {"done", "panicked"}
  /\ main' = IF \E t \in Worker : At(t, "panicked") THEN "raised" ELSE "idle"
  /\ UNCHANGED <<tree, stats, budget, worker, runs, due>>

Descends(t) == FindsOutcome(t) \/ Walks(t) \/ FindsNothing(t) \/ ClaimsLeaf(t) \/ Collides(t)
Evaluates(t) == Publishes(t) \/ Releases(t) \/ Evaluated(t)
BacksUp(t) == Counts(t) \/ Adds(t) \/ AddsAgain(t)
Runs(t) ==
  Claims(t) \/ Descends(t) \/ Evaluates(t) \/ BacksUp(t) \/ ReturnsSims(t) \/ ReturnsTimed(t)

Next ==
  \/ Starts("sims") \/ Starts("timed") \/ Joins
  \/ \E t \in Worker : Runs(t) \/ Panics(t)

\* Threads are scheduled, and the caller joins them.
Fairness == WF_vars(Joins) /\ \A t \in Worker : WF_vars(Runs(t))

Spec == Init /\ [][Next]_vars /\ Fairness

-----------------------------------------------------------------------------
(***************************************************************************)
(* A raised expanding flag is the pending claim of exactly one worker: the *)
(* compare-exchange leaves one to evaluate a leaf, also when its owner has *)
(* published and a second worker, a step late, claims the leaf again.      *)
(***************************************************************************)
ClaimsAreExclusive ==
  /\ tree.expanding = UNION {worker[t].pending : t \in Worker}
  /\ \A t, u \in Worker : t # u => worker[t].pending \cap worker[u].pending = {}

(***************************************************************************)
(* A descent is only abandoned to another worker: "one worker cannot       *)
(* collide with itself" (the tests), whatever its batch claimed before.    *)
(***************************************************************************)
CollisionIsWithAnother ==
  [][\A t \in Worker : Collides(t) =>
       \E u \in Worker \ {t} : worker[t].node \in worker[u].pending]_vars

\* The edges t is descending or has not backed up, one path each.
PathsOf(t) ==
  <<worker[t].path>> \o [i \in 1..Len(worker[t].descents) |-> worker[t].descents[i].path]
Through(kid, t) ==
  Cardinality({i \in 1..Len(PathsOf(t)) :
                 \E j \in 1..Len(PathsOf(t)[i]) : PathsOf(t)[i][j] = kid})

(***************************************************************************)
(* The virtual loss of an edge is the number of descents in flight through *)
(* it, of all workers and at every moment: an unbalanced one would wrap    *)
(* below zero or steer every later search away from the edge.              *)
(***************************************************************************)
VirtualLossIsInFlight ==
  \A kid \in Node : vl[kid] = MapThenSumSet(LAMBDA t : Through(kid, t), Worker)

(***************************************************************************)
(* Between runs nothing is in flight, every visit of a node went on to one *)
(* of its children, and the w of an edge is what its children add up to    *)
(* plus one leaf value for every descent that ended there: no backup is    *)
(* lost, doubled or credited to another edge.                              *)
(***************************************************************************)
BackupsAddUp ==
  main = "idle" =>
    /\ tree.expanding = {} /\ vl = Zero /\ flights = Zero
    /\ \A x \in Node : visits[x] = MapThenSumSet(LAMBDA kid : n[kid], Kids[x])
    /\ \A x \in Node \ {Root} :
         w[x] = MapThenSumSet(LAMBDA kid : w[kid], Kids[x]) + Value[x] * (n[x] - visits[x])

(***************************************************************************)
(* run_sims runs as many simulations as it is asked for, however many      *)
(* descents collide ("hand the collided descents back", run_sims).         *)
(***************************************************************************)
BudgetIsSpent ==
  [][main = "sims" /\ main' = "idle" => visits[Root] = due]_vars

(***************************************************************************)
(* While no worker panics, every call returns: workers never collide with  *)
(* one another for ever.                                                   *)
(***************************************************************************)
EveryRunEnds ==
  main \in {"sims", "timed"} ~> main = "idle" \/ \E t \in Worker : At(t, "panicked")

(***************************************************************************)
(* "Propagates any worker panic, after every worker has been joined"       *)
(* (drive): a run in which a worker panicked raises it.                    *)
(***************************************************************************)
PanicIsRaised == (\E t \in Worker : At(t, "panicked")) ~> main = "raised"
=============================================================================
