----------------------------- MODULE MctsEngine -----------------------------
(***************************************************************************)
(* The MCTS engine adapter (vsbot/mcts.rs) around one searcher: drive and  *)
(* its stop rules (clock.rs), the tree a pondering session carries from    *)
(* one position to the next, and the two callers without a session: a cold *)
(* choose and one ply of self-play.                                        *)
(*                                                                         *)
(* Time is ticks since the step was taken up.  A slice runs rounds until   *)
(* its deadline, so when it ends the clock has advanced by the slice, or   *)
(* by what was left to the ceiling, and by up to Overshoot more.           *)
(*                                                                         *)
(* A snapshot may be any position: of the game at hand, of another game,   *)
(* outside the searcher's domain, or not to be acted on.                   *)
(***************************************************************************)
EXTENDS SearchTree

CONSTANTS
  Domain,      \* in_domain: two players on the net's board
  Frozen,      \* positions with no action left in the turn: not can_act
  Budgets,     \* the allocations and policies: [target, ceiling, early, extension]
  Slice,       \* CANCEL_POLL_SLICE
  Overshoot,   \* a slice may end this much after its deadline
  Cap,         \* PONDER_SIM_CAP
  MaxPlies,    \* MAX_REROOT_PLIES
  MaxApplies,  \* REROOT_APPLY_BUDGET
  Snapshots,   \* the positions an engine is asked about
  MaxSteps,    \* bound: the steps of a session; the other callers keep nothing and ask once
  NoPosition, NoAction

ASSUME BudgetAssumption ==
  /\ \A b \in Budgets : b.target \in Nat /\ b.ceiling \in Nat /\ b.target <= b.ceiling
  /\ Slice \in Nat \ {0} /\ Overshoot \in Nat
  /\ Cap \in Nat /\ MaxPlies \in Nat /\ MaxApplies \in Nat /\ MaxSteps \in Nat
ASSUME DomainAssumption ==
  /\ Domain \subseteq Position /\ Snapshots \subseteq Position /\ Frozen \subseteq Position
  /\ NoPosition \notin Position
  /\ \A p \in Frozen : Moves[p] = <<>>

VARIABLES
  caller,   \* who uses the engine: "session", "choose" or "play"
  root,     \* the position kept beside the session's tree, NoPosition without one
  step,     \* the position asked for: [kind, pos, stage, budget]
  drive,    \* the drive call under way, and its report
  reply,    \* the last outcome
  steps

vars == <<config, nodes, index, collisions, sims, plan, round,
          caller, root, step, drive, reply, steps>>

CanAct(p) == p \notin Over /\ p \notin Frozen

Uncapped == -1  \* u64::MAX
NoStep == [kind |-> "none", pos |-> NoPosition, stage |-> "idle", path |-> <<>>,
           budget |-> [target |-> 0, ceiling |-> 0, early |-> FALSE, extension |-> FALSE]]
NoDrive == [before |-> 0, cap |-> 0, inherited |-> 0, elapsed |-> 0, ran |-> FALSE,
            half |-> 0, late |-> FALSE, stop |-> "none"]
NoReply == [action |-> NoAction, pos |-> NoPosition, kind |-> "none"]
-----------------------------------------------------------------------------
(* The stop rules *)

\* from_visits: the two largest counts.
Top(visits) == IF visits = <<>> THEN 0 ELSE visits[Leader(visits)]
RunnerUp(visits) ==
  LET rest == {visits[a] : a \in DOMAIN visits \ {Leader(visits)}}
  IN  IF visits = <<>> \/ rest = {} THEN 0 ELSE CHOOSE x \in rest : \A y \in rest : y <= x

\* What the stop rules read; ran is what this search has simulated, not the tree's total.
RootProgress(visits, ran, late) ==
  [leader |-> Top(visits), runnerUp |-> RunnerUp(visits), sims |-> ran, late |-> late]

\* The gap between the two is less than a fifth of the leader's visits.
Unstable(progress) ==
  \/ progress.late
  \/ progress.leader = 0
  \/ (progress.leader - progress.runnerUp) * 5 < progress.leader

UncatchableByInheritance(lead, ran, elapsed, ceiling) ==
  ran > 0 /\ elapsed > 0 /\ lead * elapsed > ran * (ceiling - elapsed)
\* More than the simulations left at this search's rate, and no more than it ran.
Uncatchable(lead, ran, elapsed, ceiling) ==
  /\ ran > 0 /\ elapsed > 0
  /\ lead * elapsed > ran * (ceiling - elapsed)
  /\ lead <= ran

Verdict(progress, elapsed, budget) ==
  LET lead == progress.leader - progress.runnerUp
  IN  CASE elapsed >= budget.ceiling -> "ceiling"
        [] elapsed < budget.ceiling
           /\ budget.early /\ Uncatchable(lead, progress.sims, elapsed, budget.ceiling) -> "uncatchable"
        [] OTHER ->
             IF elapsed < budget.target \/ (budget.extension /\ Unstable(progress))
             THEN "continue" ELSE "target"
-----------------------------------------------------------------------------
(* drive *)

Driving == step.stage = "drive"
Added == sims - drive.before

StageOfAWarmTree(tip) == IF tip.child = <<>> \/ tip.visits > 0 THEN "harvest" ELSE "drive"
StageAlways(tip) == "drive"
\* A position that offers no action is not searched.
Stage(tip) == IF tip.child = <<>> THEN "harvest" ELSE "drive"
Drive(tip, cap, inherited, before) ==
  drive' = [NoDrive EXCEPT !.before = before, !.cap = cap, !.inherited = inherited,
                           !.stop = IF tip.child = <<>> THEN "noActions" ELSE "none"]

\* run_until_deadline: one round always, then more until the deadline; none of a terminal root.
SliceRound ==
  /\ Driving
  /\ ~(drive.ran /\ (sims >= MaxSims \/ nodes[1].terminal))
  /\ IF nodes[1].terminal THEN UNCHANGED tree ELSE SimulateRound(config.batch)
  /\ drive' = [drive EXCEPT !.ran = TRUE]
  /\ UNCHANGED <<caller, root, step, reply, steps>>

\* leader_index: the first where there is none.
LeaderIndex(visits) == IF visits = <<>> THEN 1 ELSE Leader(visits)

\* The end of a slice: what is polled, in the order it is polled in.
SliceEnds(over, cancelled, interrupted) ==
  LET budget == step.budget
      now == drive.elapsed + Smaller(Slice, Larger(budget.ceiling - drive.elapsed, 0)) + over
      leader == LeaderIndex(nodes[1].n)
      sampled == 2 * now >= budget.target
      late == drive.late \/ (sampled /\ drive.half \notin {0, leader})
      ruling == Verdict(RootProgress(nodes[1].n, Added, late), now, budget)
      stop == CASE cancelled -> "cancelled"
                [] ~cancelled /\ interrupted -> "interrupted"
                [] ~cancelled /\ ~interrupted /\ drive.cap # Uncapped /\ sims >= drive.cap -> "simCap"
                [] OTHER -> ruling
  IN  /\ Driving /\ Resting /\ drive.ran
      /\ interrupted => caller = "session"
      /\ drive' = [drive EXCEPT !.elapsed = now, !.ran = FALSE, !.late = late,
                     !.half = IF sampled /\ @ = 0 THEN leader ELSE @,
                     !.stop = IF stop = "continue" THEN "none" ELSE stop]
      /\ step' = [step EXCEPT !.stage = IF stop = "continue" THEN "drive" ELSE "harvest"]
      /\ UNCHANGED <<tree, caller, root, reply, steps>>
-----------------------------------------------------------------------------
(* Re-rooting *)

\* path_at_depth: the first path of this many actions in enumeration order, with the
\* applies spent so far; nothing more is found once the budget is spent.
PathTo(from, target) ==
  LET PathAt[d \in 1..MaxPlies] ==
        [p \in Position, spent \in 0..MaxApplies |->
           LET Try(r, a) ==
                 IF r.path # <<>> \/ r.spent >= MaxApplies THEN r
                 ELSE IF d = 1
                 THEN [spent |-> r.spent + 1,
                       path |-> IF Moves[p][a] = target THEN <<a>> ELSE <<>>]
                 ELSE LET deeper == PathAt[d - 1][Moves[p][a], r.spent + 1]
                      IN  [spent |-> deeper.spent,
                           path |-> IF deeper.path = <<>> THEN <<>> ELSE <<a>> \o deeper.path]
           IN  FoldLeft(Try, [spent |-> spent, path |-> <<>>], [a \in DOMAIN Moves[p] |-> a])]
      Deepen(r, d) == IF r.path # <<>> THEN r ELSE PathAt[d][from, r.spent]
  IN  FoldLeft(Deepen, [spent |-> 0, path |-> <<>>], [d \in 1..MaxPlies |-> d]).path

Along(p, path) == FoldLeft(LAMBDA q, a : Moves[q][a], p, path)

Asked(p, kind, budget, stage) ==
  /\ step.stage = "idle" /\ steps < (IF caller = "session" THEN MaxSteps ELSE 1)
  /\ step' = [kind |-> kind, pos |-> p, budget |-> budget, stage |-> stage, path |-> <<>>]
  /\ steps' = steps + 1

\* The session takes up a Think or an Answer.
Receive(p, kind, budget) ==
  /\ caller = "session"
  /\ Asked(p, kind, budget, "locate")
  /\ drive' = NoDrive /\ reply' = NoReply
  /\ UNCHANGED <<tree, caller, root>>

Drop ==
  /\ nodes' = <<>> /\ index' = <<>> /\ collisions' = 0 /\ sims' = 0
  /\ plan' = NoPlan /\ round' = AtRest

\* A fresh tree for the position, and the drive that follows.
Rebuild ==
  /\ NewSearcher(step.pos)
  /\ root' = step.pos
  /\ Drive(nodes'[1], Cap, 0, 0)
  /\ step' = [step EXCEPT !.stage = Stage(nodes'[1]), !.path = <<>>]

ReuseWithAFullAllowance ==
  /\ Drive(nodes[1], sims + Cap, nodes[1].visits, sims)
  /\ step' = [step EXCEPT !.stage = Stage(nodes[1])]
  /\ UNCHANGED <<nodes, index, collisions, sims, plan, round, root>>

\* The tree as it stands is driven; the allowance is based on what it holds.
Reuse ==
  LET inherited == nodes[1].visits
  IN  /\ Drive(nodes[1], Larger(sims - inherited, 0) + Cap, inherited, sims)
      /\ step' = [step EXCEPT !.stage = Stage(nodes[1])]
      /\ UNCHANGED <<nodes, index, collisions, sims, plan, round, root>>

\* in_domain: two players on the board the net knows.
InDomain(p) == p \in Domain

\* The state check before and after a re-root.
TreeIsRootedAt(p) == nodes[1].pos = p

\* reroot up to its search for a path.
Locate ==
  /\ step.stage = "locate"
  /\ LET searchable == CanAct(step.pos) /\ InDomain(step.pos)
         rooted == root # NoPosition /\ TreeIsRootedAt(root)
         path == PathTo(root, step.pos)
     IN  \/ /\ ~searchable
            /\ Drop
            /\ root' = NoPosition
            /\ step' = [step EXCEPT !.stage = "harvest"]
            /\ UNCHANGED drive
         \/ /\ searchable /\ rooted /\ root = step.pos
            /\ Reuse
         \/ /\ searchable /\ rooted /\ root # step.pos /\ path # <<>>
            /\ step' = [step EXCEPT !.stage = "rebase", !.path = path]
            /\ UNCHANGED <<nodes, index, collisions, sims, plan, round, root, drive>>
         \/ /\ searchable /\ ~(rooted /\ (root = step.pos \/ path # <<>>))
            /\ Rebuild
  /\ UNCHANGED <<config, caller, reply, steps>>

\* reroot's loop over the path: one rebase, or the end of this tree.
FollowPath ==
  /\ step.stage = "rebase"
  /\ IF step.path = <<>>
     THEN IF TreeIsRootedAt(step.pos) THEN Reuse ELSE Rebuild
     ELSE IF CanRebase(Head(step.path))
     THEN /\ Rebase(Head(step.path))
          /\ root' = Moves[root][Head(step.path)]
          /\ step' = [step EXCEPT !.path = Tail(@)]
          /\ UNCHANGED drive
     ELSE Rebuild
  /\ UNCHANGED <<config, caller, reply, steps>>
-----------------------------------------------------------------------------
(* Callers without a session, and the answer *)

\* choose: a fresh searcher without a cap; off the domain the fallback engine answers.
Choose(p, budget) ==
  /\ caller = "choose"
  /\ reply' = NoReply
  /\ \/ /\ InDomain(p)
        /\ step.stage = "idle" /\ steps = 0 /\ steps' = 1
        /\ NewSearcher(p)
        /\ Drive(nodes'[1], Uncapped, 0, 0)
        /\ step' = [kind |-> "choose", pos |-> p, budget |-> budget, stage |-> Stage(nodes'[1]), path |-> <<>>]
     \/ /\ ~InDomain(p)
        /\ Asked(p, "choose", budget, "harvest")
        /\ Drop /\ drive' = NoDrive
  /\ UNCHANGED <<config, caller, root>>

\* A budget that is cancelled when choose is called: None, before the root is expanded.
ChooseCancelled(p) ==
  /\ caller = "choose" /\ step.stage = "idle" /\ steps = 0 /\ steps' = 1
  /\ reply' = [action |-> NoAction, pos |-> p, kind |-> "choose"]
  /\ UNCHANGED <<tree, caller, root, step, drive>>

\* One ply of self-play, in a game that is not over: a fresh searcher runs exactly its budget.
Play(p, budget) ==
  /\ caller = "play" /\ p \in Domain \ Over
  /\ step.stage = "idle" /\ steps = 0 /\ steps' = 1
  /\ NewSearcher(p)
  /\ step' = [kind |-> "play", pos |-> p, budget |-> budget, path |-> <<>>,
              stage |-> IF nodes'[1].terminal THEN "harvest" ELSE "sims"]
  /\ drive' = NoDrive /\ reply' = NoReply
  /\ UNCHANGED <<config, caller, root>>

\* run_sims: rounds until the count is reached.
RunSims ==
  /\ step.stage = "sims" /\ Resting
  /\ IF Added < config.sims
     THEN SimulateRound(Smaller(config.batch, config.sims - Added)) /\ UNCHANGED step
     ELSE step' = [step EXCEPT !.stage = "harvest"] /\ UNCHANGED tree
  /\ UNCHANGED <<caller, root, drive, reply, steps>>

\* harvest: the tree's answer, or that of the engine that stands in for it; self-play, which
\* may sample, asks the tree alone.
Answers ==
  LET legal == DOMAIN Moves[step.pos]
      best == IF step.kind = "play" THEN ChosenActions ELSE BestActions
  IN  IF nodes = <<>> THEN legal \cup {NoAction}
      ELSE IF best # {} THEN best
      ELSE IF legal # {} /\ step.kind # "play" THEN legal ELSE {NoAction}

Harvest ==
  /\ step.stage = "harvest"
  /\ IF step.kind = "think" THEN UNCHANGED reply
     ELSE \E a \in Answers : reply' = [action |-> a, pos |-> step.pos, kind |-> step.kind]
  /\ IF caller = "session" THEN UNCHANGED <<nodes, index, collisions, sims, plan, round>> ELSE Drop
  /\ step' = NoStep
  /\ UNCHANGED <<config, caller, root, drive, steps>>
-----------------------------------------------------------------------------
\* Config::play: no exploration.
PlayConfig(c) == c.m = 0 /\ ~c.sampling

\* Config::self_play samples the first plies of a game, self_play_gumbel none.
SelfPlayConfig(c) == c.m # 0 => ~c.sampling

Init ==
  /\ config \in Configs
  /\ caller \in {"session", "choose", "play"}
  /\ IF caller = "play" THEN SelfPlayConfig(config) ELSE PlayConfig(config)
  /\ nodes = <<>> /\ index = <<>> /\ collisions = 0 /\ sims = 0
  /\ plan = NoPlan /\ round = AtRest
  /\ root = NoPosition /\ step = NoStep /\ drive = NoDrive /\ reply = NoReply /\ steps = 0

Environment ==
  \E p \in Snapshots, budget \in Budgets :
    \/ \E kind \in {"think", "answer"} : Receive(p, kind, budget)
    \/ Choose(p, budget)
    \/ ChooseCancelled(p)
    \/ Play(p, budget)

Work ==
  \/ Locate \/ FollowPath \/ SliceRound \/ RunSims \/ Harvest
  \/ \E over \in 0..Overshoot, cancelled, interrupted \in BOOLEAN :
       SliceEnds(over, cancelled, interrupted)
  \/ /\ Round
     /\ UNCHANGED <<caller, root, step, drive, reply, steps>>

Next == Environment \/ Work

\* The search runs on a thread of its own and never waits within a step.
Spec == Init /\ [][Next]_vars /\ WF_vars(Work)
-----------------------------------------------------------------------------
(* Properties *)

\* What a position is worth to player 1, read off the game.
WorthToOne(p) ==
  IF p \in Over \/ Moves[p] = <<>>
  THEN CASE Winner[p] = 1 -> 1 [] Winner[p] = 2 -> -1 [] OTHER -> 0
  ELSE IF Mover[p] = 1 THEN Value[p] ELSE -Value[p]

EdgesInto(i) == UNION {{<<j, a>> : a \in {a \in DOMAIN nodes[j].child : nodes[j].child[a] = i}} :
                        j \in DOMAIN nodes}

\* Backup is in one frame: until the tree is re-rooted, what the edges into a node have been
\* credited is what its own edges have been credited and its own worth to player 1 for every
\* descent that ended there, whoever moves on the way and however many parents it has.
ValueIsConserved ==
  (Resting /\ nodes # <<>> /\ sims = nodes[1].visits) =>
    \A i \in DOMAIN nodes \ {1} :
      LET arrived == Total([e \in EdgesInto(i) |-> nodes[e[1]].n[e[2]]])
          ended == arrived - nodes[i].visits
      IN  /\ ended >= 1
          /\ Total([e \in EdgesInto(i) |-> nodes[e[1]].w[e[2]]])
               = Total(nodes[i].w) + ended * WorthToOne(nodes[i].pos)

\* The index leads every key of a node that is not the root to such a node, never to the root,
\* also after a re-root; and until two positions collide on a key no position has two nodes.
DagIsDuplicateFree ==
  /\ \A k \in DOMAIN index : index[k] \in DOMAIN nodes \ {1} /\ Key[nodes[index[k]].pos] = k
  /\ Dag => \A i \in DOMAIN nodes \ {1} : Key[nodes[i].pos] \in DOMAIN index
  /\ (Dag /\ collisions = 0) => \A i, j \in DOMAIN nodes : nodes[i].pos = nodes[j].pos => i = j
  /\ \A i \in DOMAIN nodes : \A a \in DOMAIN nodes[i].child : nodes[i].child[a] # 1

\* Sequential halving is kept to: no descent is dictated when a halving is due, the candidates
\* still in contention have had the same number of descents but for one, and a budget that
\* covers a visit per candidate and phase reaches the last phase and is spent exactly.
ScheduleIsKept ==
  Gumbel =>
    /\ (round.stage = "descend" /\ round.at = 1) => ~NeedsHalving(plan)
    /\ Len(plan.alive) > 1 =>
         \A i, j \in DOMAIN plan.alive :
           LET given(k) == nodes[1].n[plan.alive[k]] + nodes[1].vl[plan.alive[k]]
           IN  given(i) <= given(j) + 1
    /\ step.stage = "harvest" =>
         /\ sims = config.sims
         /\ config.sims >= Len(Moves[step.pos]) * plan.rounds => plan.phase >= plan.rounds - 1

\* Nothing is answered from a tree of another position, and nothing from a tree that was not
\* searched for this very question, whatever it inherited; and but for the draw of a Gumbel
\* root, no action is answered that the search never tried.
AnswerIsSearchedThere ==
  (step.stage = "harvest" /\ nodes # <<>>) =>
    /\ nodes[1].pos = step.pos
    /\ (step.kind # "play" /\ nodes[1].child # <<>>) => Added >= 1
    /\ (~Gumbel /\ nodes[1].child # <<>>) => \A a \in Answers : nodes[1].n[a] > 0

\* A lead inherited from the opponent's turn ends no search early: the early stop comes in the
\* second half of the ceiling.
EarlyStopIsLate == drive.stop = "uncatchable" => 2 * drive.elapsed > step.budget.ceiling

\* A session's drive goes on for another slice only while the tree it holds is below the cap,
\* whatever earlier steps simulated.
CapEndsTheDrive ==
  (caller = "session" /\ Driving /\ ~drive.ran /\ Added > 0) => nodes[1].visits < Cap

\* PONDER_SIM_CAP "bounds the tree in memory": a tree holds no more nodes than its root's
\* visits and the root itself.
VisitsBoundTheTree == (Resting /\ nodes # <<>>) => Len(nodes) <= nodes[1].visits + 1

\* A node as its parents and children see it.
View(arena, i) ==
  [arena[i] EXCEPT !.child = [a \in DOMAIN @ |-> IF @[a] = NoNode THEN NoPosition
                                                  ELSE arena[@[a]].pos]]
\* A re-root keeps the subtree as it is: its nodes, their statistics, and the positions their
\* edges lead to; and its root is where the action leads.
RebaseKeepsTheSubtree ==
  [][(step.stage = "rebase" /\ step'.stage = "rebase") =>
       LET below == Below(nodes[1].child[Head(step.path)])
       IN  /\ nodes'[1].pos = Moves[nodes[1].pos][Head(step.path)]
           /\ Len(nodes') = Cardinality(below)
           /\ {View(nodes', i) : i \in DOMAIN nodes'} = {View(nodes, i) : i \in below}]_vars

\* Every position asked about gets its answer, terminal, stuck or off the domain; and one that
\* offers no action gets it at once, where a drive "would spin hot for the whole budget doing
\* nothing" (mcts.rs:538).
EveryQuestionIsAnswered ==
  (step.stage # "idle" /\ step.kind # "think") ~>
    (/\ step.stage = "idle" /\ reply # NoReply
     /\ Moves[reply.pos] = <<>> => drive.elapsed = 0)
=============================================================================
