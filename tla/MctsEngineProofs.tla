-------------------------- MODULE MctsEngineProofs --------------------------
(***************************************************************************)
(* Proofs about MctsEngine and its SearchTree, for every game graph, set   *)
(* of keys, configuration and clock.                                       *)
(*                                                                         *)
(* Lemmas about one round take the arena before and after it as parameters *)
(* (ns, ms), with the index ix, the collisions met and the round r, q.     *)
(***************************************************************************)
EXTENDS MctsEngine, FiniteSetTheorems, SequenceTheorems, SumLemmas, TLAPS

-----------------------------------------------------------------------------
(* Numbers and sets *)

\* A bounded set of naturals has a greatest member.
LEMMA Greatest ==
  ASSUME NEW T, T \subseteq Nat, T # {}, NEW bound \in Nat, \A x \in T : x <= bound
  PROVE  \E x \in T : \A y \in T : y <= x
<1> DEFINE U == {bound - x : x \in T}
<1>1. U \subseteq Nat /\ U # {}
  <2>1. \A x \in T : bound - x \in Nat
    OBVIOUS
  <2>2. PICK x \in T : TRUE
    BY Zenon
  <2>3. bound - x \in U
    OBVIOUS
  <2> QED BY <2>1, <2>3
<1> HIDE DEF U
<1>2. PICK u \in U : \A v \in U : u <= v
  BY Zenon, <1>1, LeastNumber
<1>3. PICK x \in T : u = bound - x
  BY DEF U
<1>4. ASSUME NEW y \in T PROVE y <= x
  <2>1. bound - y \in U
    BY DEF U
  <2>2. bound - x <= bound - y
    BY <1>2, <1>3, <2>1
  <2> QED BY <2>2
<1> QED BY <1>4

\* Every list of counts has a leader: the first of the greatest.
Leads(f, a) == \A b \in DOMAIN f : f[b] < f[a] \/ (f[b] = f[a] /\ a <= b)

\* Every list of counts has a leader: one more count takes the lead or leaves it where it was.
LEMMA LeaderExists ==
  ASSUME NEW k \in Nat, k # 0, NEW f \in [1..k -> Nat]
  PROVE  \E a \in 1..k : Leads(f, a)
<1> DEFINE Without == {m \in Nat : m # 0 /\ \E h \in [1..m -> Nat] : ~(\E a \in 1..m : Leads(h, a))}
<1> SUFFICES ASSUME Without # {} PROVE FALSE
  OBVIOUS
<1>1. PICK m \in Without : \A l \in Without : m <= l
  <2>1. Without \subseteq Nat
    OBVIOUS
  <2> HIDE DEF Without
  <2> QED BY Zenon, <2>1, LeastNumber
<1>2. PICK h \in [1..m -> Nat] : ~(\E a \in 1..m : Leads(h, a))
  BY Zenon
<1>3. m \in Nat /\ m # 0
  OBVIOUS
<1>4. CASE m = 1
  <2>1. Leads(h, 1)
    BY <1>4 DEF Leads
  <2> QED BY <1>2, <1>4, <2>1
<1>5. CASE m # 1
  <2> DEFINE shorter == [a \in 1..(m - 1) |-> h[a]]
  <2>1. m - 1 \in Nat /\ m - 1 # 0 /\ ~(m <= m - 1)
    BY <1>3, <1>5
  <2>2. shorter \in [1..(m - 1) -> Nat]
    BY <1>3
  <2>3. m - 1 \notin Without
    <3> HIDE DEF Without
    <3> QED BY <1>1, <2>1
  <2> DEFINE j == m - 1
  <2>9. j \in Nat /\ j # 0 /\ j \notin Without /\ shorter \in [1..j -> Nat]
    BY Zenon, <2>1, <2>2, <2>3
  <2>7. \E a \in 1..j : Leads(shorter, a)
    <3> HIDE DEF j, shorter
    <3> QED BY Zenon, <2>9
  <2>8. PICK a \in 1..(m - 1) : Leads(shorter, a)
    BY Zenon, <2>7
  <2>4. \A b \in 1..(m - 1) : h[b] < h[a] \/ (h[b] = h[a] /\ a <= b)
    BY <2>8 DEF Leads
  <2>5. CASE h[m] > h[a]
    <3>1. Leads(h, m)
      <4> SUFFICES ASSUME NEW b \in 1..m PROVE h[b] < h[m] \/ (h[b] = h[m] /\ m <= b)
        BY DEF Leads
      <4>1. CASE b = m
        BY <4>1
      <4>2. CASE b # m
        <5>1. b \in 1..(m - 1) /\ h[b] \in Nat /\ h[a] \in Nat /\ h[m] \in Nat
          BY <1>3, <4>2
        <5>4. h[b] < h[a] \/ h[b] = h[a]
          BY Zenon, <2>4, <5>1
        <5>2. h[b] <= h[a]
          BY <5>1, <5>4
        <5>3. h[b] < h[m]
          BY <2>5, <5>1, <5>2
        <5> QED BY <5>3
      <4> QED BY <4>1, <4>2
    <3> QED BY <1>2, <1>3, <3>1
  <2>6. CASE ~(h[m] > h[a])
    <3>1. Leads(h, a)
      <4> SUFFICES ASSUME NEW b \in 1..m PROVE h[b] < h[a] \/ (h[b] = h[a] /\ a <= b)
        BY DEF Leads
      <4>1. CASE b = m
        BY <1>3, <2>6, <4>1
      <4>2. CASE b # m
        BY <1>3, <2>4, <4>2
      <4> QED BY <4>1, <4>2
    <3> QED BY <1>2, <1>3, <3>1
  <2> QED BY <2>5, <2>6
<1> QED BY <1>4, <1>5

\* What Leader, Top and RunnerUp return.
LEMMA LeaderLeads ==
  ASSUME NEW k \in Nat, k # 0, NEW f \in [1..k -> Nat]
  PROVE  Leader(f) \in 1..k /\ \A b \in 1..k : f[b] <= f[Leader(f)]
<1>1. \E a \in DOMAIN f : Leads(f, a)
  BY LeaderExists
<1>2. Leader(f) \in DOMAIN f /\ Leads(f, Leader(f))
  BY Zenon, <1>1 DEF Leader, Leads
<1> QED BY <1>2 DEF Leads

\* The two largest counts, with none or one as with many.
LEMMA TopTwo ==
  ASSUME NEW k \in Nat, NEW f \in [1..k -> Nat]
  PROVE  Top(f) \in Nat /\ RunnerUp(f) \in Nat
<1>1. CASE k = 0
  <2>1. f = <<>>
    BY <1>1
  <2> QED BY <2>1 DEF Top, RunnerUp
<1>2. CASE k # 0
  <2>1. f # <<>>
    BY <1>2
  <2>2. Leader(f) \in 1..k /\ \A b \in 1..k : f[b] <= f[Leader(f)]
    BY Zenon, <1>2, LeaderLeads
  <2> DEFINE rest == {f[a] : a \in DOMAIN f \ {Leader(f)}}
  <2>3. rest \subseteq Nat /\ (\A x \in rest : x <= f[Leader(f)]) /\ f[Leader(f)] \in Nat
    BY <2>2
  <2>4. RunnerUp(f) = IF rest = {} THEN 0 ELSE CHOOSE x \in rest : \A y \in rest : y <= x
    BY <2>1 DEF RunnerUp
  <2> HIDE DEF rest
  <2>5. CASE rest = {}
    BY <2>1, <2>2, <2>4, <2>5 DEF Top
  <2>6. CASE rest # {}
    <3>1. \E x \in rest : \A y \in rest : y <= x
      BY Zenon, <2>3, <2>6, Greatest
    <3>2. (CHOOSE x \in rest : \A y \in rest : y <= x) \in rest
      BY <3>1
    <3>3. RunnerUp(f) \in rest
      BY <2>4, <2>6, <3>2
    <3> QED BY Zenon, <2>1, <2>2, <2>3, <3>3 DEF Top
  <2> QED BY <2>5, <2>6
<1> QED BY <1>1, <1>2

\* A lead that was not inherited cannot be out of reach in the first half of the ceiling.
LEMMA LateLead ==
  ASSUME NEW lead \in Int, NEW ran \in Nat, NEW now \in Nat, NEW ceiling \in Nat,
         Uncatchable(lead, ran, now, ceiling)
  PROVE  2 * now > ceiling
<1>1. ran > 0 /\ now > 0 /\ lead * now > ran * (ceiling - now) /\ lead <= ran
  BY DEF Uncatchable
<1>2. lead * now <= ran * now
  BY <1>1
<1>3. ran * now > ran * (ceiling - now)
  BY <1>1, <1>2
<1>4. now > ceiling - now
  BY <1>1, <1>3
<1> QED BY <1>4

\* SetToSeq lists a finite set, each element once.
LEMMA Listed ==
  ASSUME NEW S, IsFiniteSet(S)
  PROVE  /\ Cardinality(S) \in Nat /\ SetToSeq(S) \in [1..Cardinality(S) -> S]
         /\ \A i, j \in 1..Cardinality(S) : SetToSeq(S)[i] = SetToSeq(S)[j] => i = j
         /\ \A x \in S : \E i \in 1..Cardinality(S) : SetToSeq(S)[i] = x
<1> DEFINE k == Cardinality(S)
           f == SetToSeq(S)
<1>1. k \in Nat /\ ExistsBijection(1..k, S)
  BY FS_CardinalityType
<1>2. \E h \in [1..k -> S] : IsInjective(h)
  BY <1>1 DEF ExistsBijection, Bijection, Injection
<1>3. f \in [1..k -> S] /\ IsInjective(f)
  BY <1>2 DEF SetToSeq
<1> HIDE DEF f
<1>4. f \in Injection(1..k, S)
  BY <1>3 DEF Injection
<1>5. Cardinality(1..k) = Cardinality(S)
  BY <1>1, FS_Interval
<1>6. f \in Surjection(1..k, S)
  BY <1>4, <1>5, FS_Injection
<1>7. \A x \in S : \E i \in 1..k : f[i] = x
  BY <1>6 DEF Surjection
<1>8. \A i, j \in 1..k : f[i] = f[j] => i = j
  BY <1>3 DEF IsInjective
<1> QED BY <1>1, <1>3, <1>7, <1>8 DEF f

-----------------------------------------------------------------------------
(* The tree *)

\* The fields of a node.
Fields == {"pos", "terminal", "expanded", "pending", "leaf", "child", "n", "w", "vl", "visits", "vlVisits"}
\* The edges a node has.
EdgesOf(x) == IF x.expanded \/ x.pending THEN DOMAIN Moves[x.pos] ELSE {}

\* A node has its edges from when its expansion begins; a terminal one is never expanded.
Shaped(x) ==
  /\ DOMAIN x = Fields /\ x.pos \in Position
  /\ x.terminal \in BOOLEAN /\ x.expanded \in BOOLEAN /\ x.pending \in BOOLEAN
  /\ x.child \in [EdgesOf(x) -> Nat] /\ x.n \in [EdgesOf(x) -> Nat]
  /\ x.terminal => ~x.expanded /\ ~x.pending
  /\ (x.expanded \/ x.pending) => Moves[x.pos] # <<>>

\* A finite sequence, of whatever it holds.
IsList(f) == f \in Seq({f[c] : c \in DOMAIN f})

\* An arena holds nodes only.
Arena(ns) == ns \in Seq({ns[i] : i \in DOMAIN ns}) /\ \A i \in DOMAIN ns : Shaped(ns[i])

\* An edge that has a child has one at the position the action leads to.
EdgesLead(ns) ==
  \A i \in DOMAIN ns : \A a \in DOMAIN ns[i].child :
    ns[i].child[a] # NoNode => /\ ns[i].child[a] \in DOMAIN ns
                               /\ ns[ns[i].child[a]].pos = Moves[ns[i].pos][a]

\* Every other node is a later position than the root.
RootIsShallowest(ns) == \A i \in DOMAIN ns \ {1} : Depth[ns[i].pos] > Depth[ns[1].pos]

\* The first three parts of DagIsDuplicateFree.
Indexed(ns, ix) == \A k \in DOMAIN ix : ix[k] \in DOMAIN ns \ {1} /\ Key[ns[ix[k]].pos] = k
\* The index has the key of every node but the root.
Covered(ns, ix) == \A i \in DOMAIN ns \ {1} : Key[ns[i].pos] \in DOMAIN ix
\* No position has two nodes.
Distinct(ns) == \A i, j \in DOMAIN ns : ns[i].pos = ns[j].pos => i = j

\* A descent that is not at the root has left it by one of its edges.
LeavesTheRoot(ns, path) ==
  path \in Seq({path[k] : k \in DOMAIN path}) /\ path # <<>> /\ \E a \in DOMAIN ns[1].child : path[1] = <<1, a>>

\* What the round has in hand: a node is pending exactly while a leaf of it waits.
RoundOK(ns, r) ==
  /\ DOMAIN r = {"stage", "due", "at", "path", "descents", "leaves"}
  /\ r.stage \in {"rest", "descend", "evaluate", "backup"}
  /\ r.stage # "descend" => r.at = 1
  /\ ns # <<>> => /\ r.at \in DOMAIN ns
                  /\ ns[1].terminal \/ ns[1].expanded
                  /\ ~ns[1].pending
  /\ r.stage # "rest" => ns # <<>> /\ ~ns[1].terminal
  /\ IF r.at = 1 THEN r.path = <<>> ELSE LeavesTheRoot(ns, r.path)
  /\ r.descents \in Seq({r.descents[d] : d \in DOMAIN r.descents})
  /\ r.leaves \in Seq({r.leaves[l] : l \in DOMAIN r.leaves})
  /\ \A d \in DOMAIN r.descents : LeavesTheRoot(ns, r.descents[d].path)
  /\ r.stage \in {"evaluate", "backup"} => r.descents # <<>>
  /\ r.stage = "rest" => r.descents = <<>>
  /\ \A i \in DOMAIN ns : i # r.at => ns[i].terminal \/ ns[i].expanded \/ ns[i].pending
  /\ r.stage \in {"rest", "backup"} => \A i \in DOMAIN ns : ~ns[i].pending
  /\ r.stage \in {"descend", "evaluate"} =>
       /\ \A i \in DOMAIN ns : ns[i].pending => \E l \in DOMAIN r.leaves : r.leaves[l].node = i /\ ~r.leaves[l].valued
       /\ \A l \in DOMAIN r.leaves : ~r.leaves[l].valued => r.leaves[l].node \in DOMAIN ns /\ ns[r.leaves[l].node].pending
  
\* A schedule dictates edges of the root.
PlanOK(ns, p) ==
  p # NoPlan => /\ DOMAIN p = {"alive", "perAction", "given", "scheduled", "phase", "rounds"}
                /\ p.given \in Nat
                /\ p.alive # <<>> /\ p.alive \in Seq(DOMAIN ns[1].child)

\* What the edges, the index and the depths say of each other.
Structure(ns, ix, dag, met) ==
  /\ EdgesLead(ns) /\ RootIsShallowest(ns) /\ Indexed(ns, ix)
  /\ dag => Covered(ns, ix)
  /\ (dag /\ met = 0) => Distinct(ns)

\* The searcher between its steps.
TreeInv ==
  /\ config \in Configs /\ sims \in Nat /\ collisions \in Nat
  /\ Arena(nodes) /\ Structure(nodes, index, Dag, collisions)
  /\ RoundOK(nodes, round) /\ PlanOK(nodes, plan)

-----------------------------------------------------------------------------
(* The adapter *)

\* An edge of the root was visited.
Visited(ns) == \E a \in DOMAIN ns[1].n : ns[1].n[a] > 0

\* The step, and when a round may be under way.
StepOK ==
  /\ DOMAIN step = {"kind", "pos", "stage", "budget", "path"}
  /\ step.stage \in {"idle", "locate", "rebase", "drive", "sims", "harvest"}
  /\ step.stage # "idle" => step.pos \in Position /\ step.budget \in Budgets
  /\ step.stage = "idle" => step.budget.ceiling = 0
  /\ step.stage \in {"locate", "rebase", "drive"} => step.kind # "play"
  /\ step.stage \notin {"drive", "sims"} => Resting

\* The bookkeeping of the drive.
DriveOK ==
  /\ DOMAIN drive = {"before", "cap", "inherited", "elapsed", "ran", "half", "late", "stop"}
  /\ drive.before \in Nat /\ drive.elapsed \in Nat /\ drive.ran \in BOOLEAN

\* The tree is there when it is searched, of the position asked about, and searched when it is asked.
Searched ==
  /\ root # NoPosition => caller = "session" /\ nodes # <<>>
  /\ step.stage \in {"rebase", "drive", "sims"} => nodes # <<>>
  /\ step.stage \in {"locate", "rebase"} => caller = "session"
  /\ (step.stage \in {"drive", "sims", "harvest"} /\ nodes # <<>>) =>
       /\ nodes[1].pos = step.pos
       /\ sims >= drive.before /\ (sims > drive.before => Visited(nodes))
  /\ step.stage = "drive" => ~nodes[1].terminal
  /\ (step.stage = "drive" /\ drive.ran /\ Resting) => sims > drive.before
  /\ (step.stage = "harvest" /\ nodes # <<>> /\ nodes[1].child # <<>>) => sims > drive.before

\* The inductive invariant.
EngineInv == TreeInv /\ StepOK /\ DriveOK /\ Searched /\ EarlyStopIsLate

-----------------------------------------------------------------------------
(* Arenas *)

\* A sequence is one over its own range.
LEMMA OwnRange ==
  ASSUME NEW T, NEW f \in Seq(T)
  PROVE  f \in Seq({f[c] : c \in DOMAIN f})
<1>1. Len(f) \in Nat /\ DOMAIN f = 1..Len(f) /\ f \in [1..Len(f) -> T]
  BY LenProperties
<1> DEFINE R == {f[c] : c \in DOMAIN f}
<1>2. f \in [1..Len(f) -> R]
  BY <1>1
<1> QED BY <1>1, <1>2, SeqDef

\* What Append does to a list.
LEMMA OneMore ==
  ASSUME NEW f, f \in Seq({f[c] : c \in DOMAIN f}), NEW x
  PROVE  /\ Len(f) \in Nat /\ DOMAIN f = 1..Len(f)
         /\ Append(f, x) \in Seq({Append(f, x)[c] : c \in DOMAIN Append(f, x)})
         /\ Len(Append(f, x)) = Len(f) + 1 /\ DOMAIN Append(f, x) = 1..(Len(f) + 1)
         /\ \A c \in 1..Len(f) : Append(f, x)[c] = f[c]
         /\ Append(f, x)[Len(f) + 1] = x
<1> DEFINE T == {f[c] : c \in DOMAIN f} \cup {x}
<1>1. f \in Seq(T) /\ x \in T
  BY SeqMonotonic
<1> HIDE DEF T
<1>2. Append(f, x) \in Seq(T)
  BY <1>1, AppendProperties
<1>3. Append(f, x) \in Seq({Append(f, x)[c] : c \in DOMAIN Append(f, x)})
  BY Zenon, <1>2, OwnRange
<1>4. Len(f) \in Nat /\ DOMAIN f = 1..Len(f)
  BY <1>1, LenProperties
<1>5. /\ Len(Append(f, x)) = Len(f) + 1
      /\ \A c \in 1..Len(f) : Append(f, x)[c] = f[c]
      /\ Append(f, x)[Len(f) + 1] = x
  BY <1>1, AppendProperties
<1>6. DOMAIN Append(f, x) = 1..Len(Append(f, x))
  BY <1>2, LenProperties
<1> QED BY Zenon, <1>3, <1>4, <1>5, <1>6

\* A function on 1..k is a list of length k.
LEMMA Listing ==
  ASSUME NEW k \in Nat, NEW f, f = [i \in 1..k |-> f[i]]
  PROVE  f \in Seq({f[c] : c \in DOMAIN f}) /\ Len(f) = k /\ DOMAIN f = 1..k
<1> DEFINE R == {f[c] : c \in DOMAIN f}
<1>1. DOMAIN f = 1..k /\ f \in [1..k -> R]
  OBVIOUS
<1>2. f \in Seq(R)
  BY <1>1, SeqDef
<1>3. Len(f) \in Nat /\ 1..Len(f) = 1..k
  BY <1>1, <1>2, LenProperties
<1> QED BY <1>1, <1>2, <1>3

\* The nodes are where they were, each with the edges it had or with edges that lead nowhere yet.
SameNodes(ns, ms) ==
  /\ DOMAIN ms = DOMAIN ns
  /\ \A i \in DOMAIN ns : /\ ms[i].pos = ns[i].pos
                          /\ ms[i].child = ns[i].child \/ \A a \in DOMAIN ms[i].child : ms[i].child[a] = NoNode

\* Such a change leaves the structure as it is.
LEMMA SameKeeps ==
  ASSUME NEW ns, NEW ms, NEW ix, NEW dag, NEW met, Structure(ns, ix, dag, met), SameNodes(ns, ms), 1 \in DOMAIN ns
  PROVE  Structure(ms, ix, dag, met)
<1>1. EdgesLead(ms)
  BY DEF Structure, SameNodes, EdgesLead
<1>2. RootIsShallowest(ms)
  <2>1. \A i \in DOMAIN ms : ms[i].pos = ns[i].pos /\ i \in DOMAIN ns
    BY DEF SameNodes
  <2>2. ms[1].pos = ns[1].pos
    BY DEF SameNodes
  <2> QED BY <2>1, <2>2 DEF Structure, RootIsShallowest
<1>3. Indexed(ms, ix) /\ (dag => Covered(ms, ix)) /\ ((dag /\ met = 0) => Distinct(ms))
  BY DEF Structure, SameNodes, Indexed, Covered, Distinct
<1> QED BY <1>1, <1>2, <1>3 DEF Structure

\* A position is shallower than where its actions lead.
LEMMA Deeper ==
  ASSUME NEW p \in Position, NEW a \in DOMAIN Moves[p]
  PROVE  /\ Moves[p][a] \in Position /\ Depth[Moves[p][a]] = Depth[p] + 1
         /\ Depth[p] \in Nat /\ Depth[Moves[p][a]] \in Nat
<1>1. Moves[p] \in Seq(Position) /\ Depth \in [Position -> Nat]
  BY GraphAssumption
<1>2. Moves[p][a] \in Position
  BY <1>1, ElementOfSeq, LenProperties
<1> QED BY <1>1, <1>2, DepthAssumption

\* No edge leads to the root.
LEMMA RootHasNoParent ==
  ASSUME NEW ns, Arena(ns), EdgesLead(ns), RootIsShallowest(ns), NEW i \in DOMAIN ns, NEW a \in DOMAIN ns[i].child
  PROVE  ns[i].child[a] # 1
<1> SUFFICES ASSUME ns[i].child[a] = 1 PROVE FALSE
  OBVIOUS
<1>1. ns[i].child[a] # NoNode
  BY DEF NoNode
<1>2. 1 \in DOMAIN ns /\ ns[1].pos = Moves[ns[i].pos][a]
  BY <1>1 DEF EdgesLead
<1>3. ns[i].pos \in Position /\ a \in DOMAIN Moves[ns[i].pos]
  BY DEF Arena, Shaped, EdgesOf
<1>4. Depth[ns[1].pos] = Depth[ns[i].pos] + 1 /\ Depth[ns[i].pos] \in Nat
  BY <1>2, <1>3, Deeper
<1>5. i # 1 => Depth[ns[i].pos] > Depth[ns[1].pos]
  BY DEF RootIsShallowest
<1>6. ~(Depth[ns[i].pos] > Depth[ns[1].pos])
  BY <1>4
<1> QED BY <1>4, <1>5, <1>6

-----------------------------------------------------------------------------
(* A round *)

\* A halving keeps some of the candidates, and at least one.
LEMMA Halves ==
  ASSUME NEW ns, NEW p, PlanOK(ns, p), p # NoPlan, NEW h \in Halvings(p)
  PROVE  PlanOK(ns, h)
<1> DEFINE edges == DOMAIN ns[1].child
<1>1. /\ DOMAIN p = {"alive", "perAction", "given", "scheduled", "phase", "rounds"}
      /\ p.alive # <<>> /\ p.alive \in Seq(edges)
  BY DEF PlanOK
<1> HIDE DEF edges
<1>2. Len(p.alive) \in Nat /\ Len(p.alive) # 0 /\ DOMAIN p.alive = 1..Len(p.alive)
  BY <1>1, EmptySeq, LenProperties
<1> DEFINE alive == {p.alive[i] : i \in DOMAIN p.alive}
           k == (Len(p.alive) + 1) \div 2
<1>3. k \in Nat /\ k # 0
  <2>1. \A m \in Nat \ {0} : (m + 1) \div 2 \in Nat /\ (m + 1) \div 2 # 0
    BY Z3
  <2> QED BY Zenon, <1>2, <2>1
<1>4. alive \subseteq edges
  BY <1>1, <1>2, ElementOfSeq
<1>5. PICK kept \in Lists(alive, k) :
        h = [p EXCEPT !.alive = kept, !.phase = @ + 1, !.given = 0,
                      !.perAction = PhaseShare(kept, p.scheduled, p.phase + 1, p.rounds)]
  BY Zenon DEF Halvings
<1> HIDE DEF alive, k
<1>6. kept \in [1..k -> alive]
  BY <1>5 DEF Lists
<1>7. kept \in Seq(edges) /\ kept # <<>>
  <2>1. kept \in [1..k -> edges]
    BY <1>4, <1>6
  <2>2. DOMAIN kept # {}
    BY <1>3, <1>6
  <2> QED BY <1>3, <2>1, <2>2, SeqDef
<1>8. h.alive = kept /\ h.given = 0 /\ DOMAIN h = DOMAIN p
  BY <1>1, <1>5
<1> QED BY <1>1, <1>7, <1>8 DEF PlanOK, edges

\* A round that begins has nothing in hand.
LEMMA RoundBegins ==
  ASSUME TreeInv, NEW target, SimulateRound(target), nodes # <<>>
  PROVE  TreeInv' /\ UNCHANGED <<nodes, sims>> /\ round'.stage # "rest"
<1>1. PICK p \in Prepared : plan' = p /\ round' = [AtRest EXCEPT !.stage = "descend", !.due = Clamped(p, target)]
  BY Zenon DEF SimulateRound
<1>2. /\ Resting /\ ~nodes[1].terminal /\ UNCHANGED <<config, nodes, index, collisions, sims>>
  BY DEF SimulateRound
<1>3. PlanOK(nodes, p)
  <2>1. CASE Gumbel /\ NeedsHalving(plan)
    BY <2>1, Halves DEF Prepared, Gumbel, TreeInv
  <2>2. CASE ~(Gumbel /\ NeedsHalving(plan))
    BY <2>2 DEF Prepared, TreeInv
  <2> QED BY <2>1, <2>2
<1>4. /\ DOMAIN round' = {"stage", "due", "at", "path", "descents", "leaves"}
      /\ round'.stage = "descend" /\ round'.at = 1 /\ round'.path = <<>>
      /\ round'.descents = <<>> /\ round'.leaves = <<>>
  BY <1>1 DEF AtRest
<1>5. RoundOK(nodes, round) /\ round.stage = "rest"
  BY <1>2 DEF TreeInv, Resting
<1>6. <<>> \in Seq({<<>>[c] : c \in DOMAIN <<>>})
  BY EmptySeq, OwnRange
<1> DEFINE r == round'
<1>7. RoundOK(nodes, r)
  <2> HIDE DEF r
  <2>1. /\ DOMAIN r = {"stage", "due", "at", "path", "descents", "leaves"}
        /\ r.stage = "descend" /\ r.at = 1 /\ r.path = <<>> /\ r.descents = <<>> /\ r.leaves = <<>>
    BY <1>4 DEF r
  <2> QED BY <1>2, <1>5, <1>6, <2>1 DEF RoundOK
<1> QED BY <1>1, <1>2, <1>3, <1>4, <1>7 DEF TreeInv, Dag

\* An edge of a node now leads to `to`; nothing else of the tree's shape is different.
Linked(ns, ms, i, a, to) ==
  /\ DOMAIN ms = DOMAIN ns /\ \A j \in DOMAIN ns \ {i} : ms[j] = ns[j]
  /\ ms[i].pos = ns[i].pos /\ ms[i].n = ns[i].n /\ DOMAIN ms[i] = DOMAIN ns[i]
  /\ ms[i].terminal = ns[i].terminal /\ ms[i].expanded = ns[i].expanded /\ ms[i].pending = ns[i].pending
  /\ ms[i].child = [ns[i].child EXCEPT ![a] = to]

\* A node is where it was, with the flags and edges it had.
Still(ns, ms, i) ==
  /\ ms[i].pos = ns[i].pos /\ ms[i].terminal = ns[i].terminal /\ ms[i].expanded = ns[i].expanded
  /\ ms[i].pending = ns[i].pending /\ DOMAIN ms[i].child = DOMAIN ns[i].child

\* A link leaves every node a node.
LEMMA LinkedIs ==
  ASSUME NEW ns, NEW ms, NEW i \in DOMAIN ns, NEW a \in DOMAIN ns[i].child, NEW to \in Nat,
         Arena(ns), Linked(ns, ms, i, a, to)
  PROVE  \A j \in DOMAIN ns : Shaped(ms[j]) /\ Still(ns, ms, j)
<1>1. \A j \in DOMAIN ns \ {i} : Shaped(ms[j]) /\ Still(ns, ms, j)
  BY DEF Arena, Linked, Still
<1>2. Shaped(ns[i]) /\ ns[i].child \in [EdgesOf(ns[i]) -> Nat]
  BY DEF Arena, Shaped
<1>3. EdgesOf(ms[i]) = EdgesOf(ns[i]) /\ DOMAIN ms[i].child = DOMAIN ns[i].child
  BY <1>2 DEF Linked, EdgesOf
<1>4. ms[i].child \in [EdgesOf(ns[i]) -> Nat]
  BY <1>2 DEF Linked
<1>5. Shaped(ms[i])
  BY <1>2, <1>3, <1>4 DEF Linked, Shaped
<1> QED BY <1>1, <1>3, <1>5 DEF Linked, Still

\* The edge leads to a node of the tree that has the position the action leads to.
LEMMA LinkKeeps ==
  ASSUME NEW ns, NEW ms, NEW i \in DOMAIN ns, NEW a \in DOMAIN ns[i].child, NEW to \in DOMAIN ns,
         NEW ix, NEW dag, NEW met,
         Arena(ns), Structure(ns, ix, dag, met), Linked(ns, ms, i, a, to), to # 0, ns[to].pos = Moves[ns[i].pos][a]
  PROVE  Structure(ms, ix, dag, met)
<1>1. \A j \in DOMAIN ns : ms[j].pos = ns[j].pos
  BY DEF Linked
<1>2. EdgesLead(ms)
  <2> SUFFICES ASSUME NEW j \in DOMAIN ms, NEW b \in DOMAIN ms[j].child, ms[j].child[b] # NoNode
               PROVE  ms[j].child[b] \in DOMAIN ms /\ ms[ms[j].child[b]].pos = Moves[ms[j].pos][b]
    BY DEF EdgesLead
  <2>1. CASE j = i /\ b = a
    <3>1. ms[j].child[b] = to
      BY <2>1 DEF Linked
    <3> QED BY <1>1, <2>1, <3>1 DEF Linked
  <2>2. CASE ~(j = i /\ b = a)
    <3>1. j \in DOMAIN ns /\ b \in DOMAIN ns[j].child /\ ms[j].child[b] = ns[j].child[b]
      BY <2>2 DEF Linked
    <3>2. ns[j].child[b] \in DOMAIN ns /\ ns[ns[j].child[b]].pos = Moves[ns[j].pos][b]
      BY <3>1 DEF Structure, EdgesLead
    <3> QED BY <1>1, <3>1, <3>2 DEF Linked
  <2> QED BY <2>1, <2>2
<1>3. 1 \in DOMAIN ns
  BY LenProperties DEF Arena
<1>4. RootIsShallowest(ms) /\ Indexed(ms, ix) /\ (dag => Covered(ms, ix)) /\ ((dag /\ met = 0) => Distinct(ms))
  BY <1>1, <1>3 DEF Structure, RootIsShallowest, Indexed, Covered, Distinct, Linked
<1> QED BY <1>2, <1>4 DEF Structure

\* A new node has no edges.
LEMMA NewNodeIs ==
  ASSUME NEW p \in Position
  PROVE  /\ Shaped(NewNode(p)) /\ NewNode(p).pos = p /\ NewNode(p).child = <<>> /\ NewNode(p).n = <<>>
         /\ ~NewNode(p).expanded /\ ~NewNode(p).pending /\ NewNode(p).terminal = (p \in Over)
<1> DEFINE x == NewNode(p)
<1>1. /\ DOMAIN x = Fields /\ x.pos = p /\ x.child = <<>> /\ x.n = <<>>
      /\ x.expanded = FALSE /\ x.pending = FALSE /\ x.terminal = (p \in Over)
  BY DEF NewNode, Fields
<1> HIDE DEF x
<1>2. EdgesOf(x) = {}
  BY <1>1 DEF EdgesOf
<1>3. <<>> \in [{} -> Nat]
  OBVIOUS
<1>4. x.child \in [EdgesOf(x) -> Nat] /\ x.n \in [EdgesOf(x) -> Nat]
  BY <1>1, <1>2, <1>3
<1>5. x.terminal \in BOOLEAN /\ x.expanded \in BOOLEAN /\ x.pending \in BOOLEAN /\ ~x.expanded /\ ~x.pending
  <2>1. x.terminal \in BOOLEAN
    <3>1. CASE p \in Over
      BY <3>1 DEF x, NewNode
    <3>2. CASE p \notin Over
      BY <3>2 DEF x, NewNode
    <3> QED BY <3>1, <3>2
  <2> QED BY Zenon, <1>1, <2>1
<1>6. Shaped(x)
  BY <1>1, <1>4, <1>5 DEF Shaped
<1> QED BY <1>1, <1>5, <1>6 DEF x

\* The edge leads to a node that did not exist: what the index and the collisions then say.
Fresh(i, a, to, walked, p, ms, ix, met) ==
  /\ Arena(nodes) /\ Structure(nodes, index, Dag, collisions) /\ collisions \in Nat
  /\ i \in DOMAIN nodes /\ a \in DOMAIN nodes[i].child /\ to = Len(nodes) + 1
  /\ IsList(walked) /\ Linked(nodes, walked, i, a, to)
  /\ p = Moves[nodes[i].pos][a] /\ ~Merges(p) /\ ms = Append(walked, NewNode(p)) /\ ix = Entered(p, to)
  /\ met = IF Known(p) THEN collisions + 1 ELSE collisions

\* The structure holds of the larger arena.
LEMMA FreshKeeps ==
  ASSUME NEW i, NEW a, NEW to, NEW walked, NEW p, NEW ms, NEW ix, NEW met, Fresh(i, a, to, walked, p, ms, ix, met)
  PROVE  /\ Arena(ms) /\ Structure(ms, ix, Dag, met) /\ DOMAIN ms = 1..to
         /\ ms[to] = NewNode(p) /\ \A j \in DOMAIN nodes : ms[j] = walked[j]
<1> USE DEF Fresh
<1>1. /\ Len(nodes) \in Nat /\ DOMAIN nodes = 1..Len(nodes) /\ DOMAIN walked = 1..Len(nodes)
      /\ to \in Nat /\ 1 \in DOMAIN nodes /\ to # 1 /\ to \notin DOMAIN nodes
  BY LenProperties DEF Arena, Linked, IsList
<1>2. nodes[i].pos \in Position /\ a \in DOMAIN Moves[nodes[i].pos]
  BY DEF Arena, Shaped, EdgesOf
<1>3. p \in Position /\ Depth[p] = Depth[nodes[i].pos] + 1 /\ Depth[p] \in Nat /\ Depth[nodes[i].pos] \in Nat
  BY <1>2, Deeper
<1>4. Len(walked) = Len(nodes)
  <2>1. Len(walked) \in Nat /\ 1..Len(walked) = 1..Len(nodes)
    BY <1>1, LenProperties DEF IsList
  <2> QED BY <1>1, <2>1
<1>5. /\ ms \in Seq({ms[c] : c \in DOMAIN ms}) /\ DOMAIN ms = 1..to
      /\ ms[to] = NewNode(p) /\ \A j \in DOMAIN nodes : ms[j] = walked[j]
  BY <1>1, <1>4, OneMore DEF IsList
<1> DEFINE x == NewNode(p)
<1>6. Shaped(x) /\ x.pos = p /\ x.child = <<>>
  BY <1>3, NewNodeIs
<1> HIDE DEF x
<1>7. \A j \in DOMAIN nodes : Shaped(ms[j]) /\ ms[j].pos = nodes[j].pos
  <2>1. \A j \in DOMAIN nodes : Shaped(walked[j]) /\ Still(nodes, walked, j)
    BY Zenon, <1>1, LinkedIs
  <2> QED BY <1>5, <2>1 DEF Still
<1>8. \A j \in DOMAIN ms : j \in DOMAIN nodes \/ (j = to /\ ms[j] = x)
  BY <1>1, <1>5 DEF x
<1>9. Arena(ms)
  BY <1>5, <1>6, <1>7, <1>8 DEF Arena
<1>10. EdgesLead(ms)
  <2> SUFFICES ASSUME NEW j \in DOMAIN ms, NEW b \in DOMAIN ms[j].child, ms[j].child[b] # NoNode
               PROVE  ms[j].child[b] \in DOMAIN ms /\ ms[ms[j].child[b]].pos = Moves[ms[j].pos][b]
    BY Zenon DEF EdgesLead
  <2>1. j \in DOMAIN nodes
    BY <1>6, <1>8
  <2>2. CASE j = i /\ b = a
    <3>1. ms[j].child[b] = to
      BY <1>5, <2>1, <2>2 DEF Linked
    <3> QED BY <1>1, <1>5, <1>6, <1>7, <2>1, <2>2, <3>1 DEF x
  <2>3. CASE ~(j = i /\ b = a)
    <3>1. b \in DOMAIN nodes[j].child /\ ms[j].child[b] = nodes[j].child[b]
      BY <1>5, <2>1, <2>3 DEF Linked
    <3>2. nodes[j].child[b] \in DOMAIN nodes /\ nodes[nodes[j].child[b]].pos = Moves[nodes[j].pos][b]
      BY <2>1, <3>1 DEF Structure, EdgesLead
    <3>3. nodes[j].child[b] \in DOMAIN ms
      BY <1>1, <1>5, <3>2
    <3> QED BY Zenon, <1>7, <2>1, <3>1, <3>2, <3>3
  <2> QED BY Zenon, <2>2, <2>3
<1>11. Depth[p] > Depth[nodes[1].pos]
  <2>1. i # 1 => Depth[nodes[i].pos] > Depth[nodes[1].pos]
    BY DEF Structure, RootIsShallowest
  <2>2. Depth[nodes[1].pos] \in Nat
    BY <1>1, GraphAssumption DEF Arena, Shaped
  <2> QED BY <1>3, <2>1, <2>2
<1>12. RootIsShallowest(ms)
  BY <1>1, <1>6, <1>7, <1>8, <1>11 DEF Structure, RootIsShallowest
<1>13. \A k \in DOMAIN index : /\ ix[k] = index[k] /\ k \in DOMAIN ix
                               /\ index[k] \in DOMAIN nodes \ {1} /\ Key[nodes[index[k]].pos] = k
  BY DEF Structure, Indexed, Entered
<1>14. \A k \in DOMAIN ix : k \notin DOMAIN index => k = Key[p] /\ ix[k] = to
  BY DEF Entered
<1>15. Indexed(ms, ix)
  <2> SUFFICES ASSUME NEW k \in DOMAIN ix PROVE ix[k] \in DOMAIN ms \ {1} /\ Key[ms[ix[k]].pos] = k
    BY DEF Indexed
  <2>1. CASE k \in DOMAIN index
    <3>1. ix[k] = index[k] /\ index[k] \in DOMAIN nodes \ {1} /\ Key[nodes[index[k]].pos] = k
      BY <1>13, <2>1
    <3>2. ms[index[k]].pos = nodes[index[k]].pos /\ index[k] \in DOMAIN ms
      BY <1>1, <1>5, <1>7, <3>1
    <3> QED BY <3>1, <3>2
  <2>2. CASE k \notin DOMAIN index
    BY <1>1, <1>5, <1>6, <1>14, <2>2 DEF x
  <2> QED BY <2>1, <2>2
<1>16. Dag => Covered(ms, ix)
  <2> SUFFICES ASSUME Dag, NEW j \in DOMAIN ms \ {1} PROVE Key[ms[j].pos] \in DOMAIN ix
    BY DEF Covered
  <2>1. CASE j \in DOMAIN nodes
    BY <1>7, <1>13, <2>1 DEF Structure, Covered
  <2>2. CASE j \notin DOMAIN nodes
    <3>1. ms[j].pos = p
      BY <1>6, <1>8, <2>2
    <3>2. Key[p] \in DOMAIN ix
      BY <1>13 DEF Entered
    <3> QED BY <3>1, <3>2
  <2> QED BY <2>1, <2>2
<1>17. (Dag /\ met = 0) => Distinct(ms)
  <2> SUFFICES ASSUME Dag, met = 0 PROVE Distinct(ms)
    OBVIOUS
  <2>1. ~Known(p) /\ collisions = 0
    OBVIOUS
  <2>2. Key[p] \notin DOMAIN index
    BY <2>1 DEF Known
  <2>3. \A j \in DOMAIN nodes : nodes[j].pos # p
    <3>1. \A j \in DOMAIN nodes \ {1} : Key[nodes[j].pos] \in DOMAIN index
      BY DEF Structure, Covered
    <3>2. nodes[1].pos # p
      BY <1>3, <1>11
    <3> QED BY <2>2, <3>1, <3>2
  <2>4. Distinct(nodes)
    BY <2>1 DEF Structure
  <2> QED BY <1>6, <1>7, <1>8, <2>3, <2>4 DEF Distinct
<1> QED BY <1>5, <1>9, <1>10, <1>12, <1>15, <1>16, <1>17 DEF Structure

\* The first edge of a descent is one of the root.
LEMMA LeavesFirst ==
  ASSUME NEW ns, NEW a \in DOMAIN ns[1].child
  PROVE  LeavesTheRoot(ns, Append(<<>>, <<1, a>>))
<1> DEFINE path == Append(<<>>, <<1, a>>)
<1>1. path = << <<1, a>> >>
  OBVIOUS
<1> HIDE DEF path
<1>2. path \in Seq({<<1, a>>}) /\ path # <<>> /\ path[1] = <<1, a>>
  BY <1>1
<1>3. path \in Seq({path[c] : c \in DOMAIN path})
  BY <1>2, OwnRange
<1> QED BY <1>2, <1>3 DEF LeavesTheRoot, path

\* It stays the first when the descent goes on.
LEMMA LeavesAgain ==
  ASSUME NEW ns, NEW path, LeavesTheRoot(ns, path), NEW edge, NEW now, now = Append(path, edge)
  PROVE  LeavesTheRoot(ns, now)
<1>1. path \in Seq({path[c] : c \in DOMAIN path}) /\ path # <<>>
  BY DEF LeavesTheRoot
<1>2. /\ Len(path) \in Nat /\ now \in Seq({now[c] : c \in DOMAIN now})
      /\ DOMAIN now = 1..(Len(path) + 1) /\ \A c \in 1..Len(path) : now[c] = path[c]
  BY <1>1, OneMore
<1>3. Len(path) # 0
  BY <1>1, EmptySeq
<1>4. now # <<>> /\ now[1] = path[1]
  BY <1>2, <1>3
<1> QED BY Zenon, <1>2, <1>4 DEF LeavesTheRoot

\* It stays an edge of the root while the root keeps its edges.
LEMMA LeavesStill ==
  ASSUME NEW ns, NEW ms, DOMAIN ms[1].child = DOMAIN ns[1].child, NEW path, LeavesTheRoot(ns, path)
  PROVE  LeavesTheRoot(ms, path)
BY DEF LeavesTheRoot

\* A descent takes one edge.
LEMMA RoundWalks ==
  ASSUME NEW ns, NEW ms, NEW r, NEW q, RoundOK(ns, r), r.stage = "descend", ns # <<>>,
         ns[r.at].expanded, NEW a \in DOMAIN ns[r.at].child, NEW to \in DOMAIN ms, to # 1,
         \A j \in DOMAIN ns : j \in DOMAIN ms /\ Still(ns, ms, j),
         \A j \in DOMAIN ms : j \notin DOMAIN ns => j = to /\ ~ms[j].pending,
         1 \in DOMAIN ns, q = [r EXCEPT !.at = to, !.path = Append(@, <<r.at, a>>)]
  PROVE  RoundOK(ms, q)
<1>1. /\ DOMAIN r = {"stage", "due", "at", "path", "descents", "leaves"}
      /\ r.at \in DOMAIN ns /\ ~ns[1].terminal /\ ns[1].expanded /\ ~ns[1].pending
      /\ IF r.at = 1 THEN r.path = <<>> ELSE LeavesTheRoot(ns, r.path)
  BY DEF RoundOK
<1>2. /\ DOMAIN q = DOMAIN r /\ q.at = to /\ q.path = Append(r.path, <<r.at, a>>)
      /\ q.stage = r.stage /\ q.due = r.due /\ q.descents = r.descents /\ q.leaves = r.leaves
  BY <1>1
<1>10. DOMAIN ms[1].child = DOMAIN ns[1].child
  BY DEF Still
<1>3. LeavesTheRoot(ms, q.path)
  <2>1. CASE r.at = 1
    <3>1. q.path = Append(<<>>, <<1, a>>) /\ a \in DOMAIN ms[1].child
      BY Zenon, <1>1, <1>2, <1>10, <2>1
    <3> QED BY Zenon, <3>1, LeavesFirst
  <2>2. CASE r.at # 1
    <3>1. LeavesTheRoot(ms, r.path)
      BY <1>1, <1>10, <2>2, LeavesStill
    <3>2. LeavesTheRoot(ms, Append(r.path, <<r.at, a>>))
      BY Zenon, <3>1, LeavesAgain
    <3> QED BY <1>2, <3>2
  <2> QED BY <2>1, <2>2
<1>4. \A d \in DOMAIN q.descents : LeavesTheRoot(ms, q.descents[d].path)
  <2> SUFFICES ASSUME NEW d \in DOMAIN r.descents PROVE LeavesTheRoot(ms, r.descents[d].path)
    BY <1>2
  <2>1. LeavesTheRoot(ns, r.descents[d].path)
    BY DEF RoundOK
  <2> QED BY <1>10, <2>1, LeavesStill
<1>5. q.at \in DOMAIN ms /\ ms # <<>> /\ ~ms[1].terminal /\ ms[1].expanded /\ ~ms[1].pending
  BY <1>1, <1>2 DEF Still
<1>6. \A j \in DOMAIN ms : j # q.at => ms[j].terminal \/ ms[j].expanded \/ ms[j].pending
  BY <1>2 DEF RoundOK, Still
<1>7. /\ \A j \in DOMAIN ms : ms[j].pending => \E l \in DOMAIN q.leaves : q.leaves[l].node = j /\ ~q.leaves[l].valued
      /\ \A l \in DOMAIN q.leaves : ~q.leaves[l].valued => q.leaves[l].node \in DOMAIN ms /\ ms[q.leaves[l].node].pending
  <2>1. /\ \A j \in DOMAIN ns : ns[j].pending => \E l \in DOMAIN r.leaves : r.leaves[l].node = j /\ ~r.leaves[l].valued
        /\ \A l \in DOMAIN r.leaves : ~r.leaves[l].valued => r.leaves[l].node \in DOMAIN ns /\ ns[r.leaves[l].node].pending
    BY DEF RoundOK
  <2> QED BY <1>2, <2>1 DEF Still
<1>8. /\ q.descents \in Seq({q.descents[d] : d \in DOMAIN q.descents})
      /\ q.leaves \in Seq({q.leaves[l] : l \in DOMAIN q.leaves})
  BY <1>2 DEF RoundOK
<1>9. q.stage = "descend" /\ q.at # 1 /\ DOMAIN q = {"stage", "due", "at", "path", "descents", "leaves"}
  BY <1>1, <1>2
<1> HIDE DEF Still
<1> QED BY <1>3, <1>4, <1>5, <1>6, <1>7, <1>8, <1>9 DEF RoundOK

\* What a step within a round leaves as it is.
SameRoot == /\ nodes' # <<>> /\ nodes'[1].pos = nodes[1].pos /\ nodes'[1].n = nodes[1].n
            /\ sims' = sims /\ round'.stage # "rest"

\* With an edge of one node changed, the arena has the nodes it had.
WalkedFrom(f, i, a, to, w) ==
  w = [f EXCEPT ![i].child[a] = to, ![i].vl[a] = @ + 1, ![i].vlVisits = @ + 1]
LEMMA WalkedAlong ==
  ASSUME NEW f, NEW i, NEW a, NEW to, NEW w, WalkedFrom(f, i, a, to, w), NEW S, DOMAIN f = S
  PROVE  w = [j \in S |-> w[j]]
BY DEF WalkedFrom

\* One edge of a descent: an edge linked before, a node merged onto, or a fresh one.
LEMMA Walks ==
  ASSUME TreeInv, Step, nodes # <<>>
  PROVE  TreeInv' /\ SameRoot
<1>1. PICK a \in Selectable : Walk(a)
  BY DEF Step
<1>2. /\ round.stage = "descend" /\ Here.expanded /\ ~Here.terminal /\ ~Here.pending
      /\ UNCHANGED <<config, sims>>
  BY DEF Step
<1>3. /\ config \in Configs /\ sims \in Nat /\ collisions \in Nat /\ Arena(nodes)
      /\ Structure(nodes, index, Dag, collisions) /\ RoundOK(nodes, round) /\ PlanOK(nodes, plan)
  BY DEF TreeInv
<1>4. Len(nodes) \in Nat /\ DOMAIN nodes = 1..Len(nodes)
  BY <1>3, LenProperties DEF Arena
<1> DEFINE i == round.at
<1>5. i \in DOMAIN nodes /\ 1 \in DOMAIN nodes /\ Here = nodes[i]
  BY <1>3, <1>4 DEF RoundOK, Here
<1>6. a \in DOMAIN nodes[i].child
  <2>1. CASE i = 1 /\ Gumbel
    <3>1. /\ plan.given \in Nat /\ plan.alive # <<>> /\ plan.alive \in Seq(DOMAIN nodes[1].child)
      BY <1>3, <2>1 DEF PlanOK, Gumbel
    <3>2. Len(plan.alive) \in Nat /\ Len(plan.alive) # 0 /\ DOMAIN plan.alive = 1..Len(plan.alive)
      BY <3>1, EmptySeq, LenProperties
    <3>3. (plan.given % Len(plan.alive)) + 1 \in 1..Len(plan.alive)
      <4>1. \A g \in Nat, m \in Nat \ {0} : (g % m) + 1 \in 1..m
        OBVIOUS
      <4> QED BY <3>1, <3>2, <4>1
    <3>4. a = Taken(plan)
      BY <2>1 DEF Selectable
    <3> QED BY <2>1, <3>1, <3>3, <3>4, ElementOfSeq DEF Taken
  <2>2. CASE ~(i = 1 /\ Gumbel)
    BY <1>5, <2>2 DEF Selectable
  <2> QED BY <2>1, <2>2
<1> DEFINE x == nodes[i]
           p == Moves[x.pos][a]
           fresh == x.child[a] = NoNode /\ ~Merges(p)
           to == IF x.child[a] # NoNode THEN x.child[a] ELSE IF fresh THEN Len(nodes) + 1 ELSE index[Key[p]]
           walked == [nodes EXCEPT ![i].child[a] = to, ![i].vl[a] = @ + 1, ![i].vlVisits = @ + 1]
           ms == IF fresh THEN Append(walked, NewNode(p)) ELSE walked
           ix == IF fresh THEN Entered(p, to) ELSE index
           met == IF fresh /\ Known(p) THEN collisions + 1 ELSE collisions
           pl == IF i = 1 /\ Gumbel THEN Take(plan) ELSE plan
           q == [round EXCEPT !.at = to, !.path = Append(@, <<i, a>>)]
<1>7. nodes' = ms /\ index' = ix /\ collisions' = met /\ plan' = pl /\ round' = q
  BY Zenon, <1>1 DEF Walk, Here
<1>8. walked = [j \in 1..Len(nodes) |-> walked[j]]
  <2> HIDE DEF to
  <2>1. DOMAIN nodes = 1..Len(nodes)
    BY <1>4
  <2>2. WalkedFrom(nodes, i, a, to, walked)
    BY DEF WalkedFrom
  <2> HIDE DEF walked
  <2> QED BY <2>1, <2>2, WalkedAlong
<1>9. Shaped(x) /\ DOMAIN x = Fields /\ x.child \in [EdgesOf(x) -> Nat]
  BY Zenon, <1>3, <1>5 DEF Arena, Shaped
<1>10. Linked(nodes, walked, i, a, to)
  BY Zenon, <1>4, <1>5, <1>6, <1>9 DEF Linked, Fields
<1> HIDE DEF walked
<1>11. walked \in Seq({walked[c] : c \in DOMAIN walked}) /\ DOMAIN walked = 1..Len(nodes)
  BY <1>4, <1>8, Listing
<1>12. /\ Arena(ms) /\ Structure(ms, ix, Dag, met) /\ to \in DOMAIN ms /\ to # 1
       /\ \A j \in DOMAIN nodes : j \in DOMAIN ms /\ ms[j] = walked[j]
       /\ \A j \in DOMAIN ms : j \notin DOMAIN nodes => j = to /\ ~ms[j].pending
       /\ to \in Nat
  <2>1. CASE fresh
    <3>1. to = Len(nodes) + 1 /\ to \in Nat /\ to # 1
      BY <1>4, <1>5, <2>1
    <3>2. ms = Append(walked, NewNode(p)) /\ ix = Entered(p, to)
          /\ met = (IF Known(p) THEN collisions + 1 ELSE collisions) /\ ~Merges(p)
      BY <2>1
    <3>3. p \in Position
      BY <1>6, <1>9, Deeper DEF EdgesOf, Shaped
    <3>4. ~NewNode(p).pending
      BY <3>3, NewNodeIs
    <3> HIDE DEF to, ms, ix, met
    <3>5. /\ Arena(ms) /\ Structure(ms, ix, Dag, met) /\ DOMAIN ms = 1..to
          /\ ms[to] = NewNode(p) /\ \A j \in DOMAIN nodes : ms[j] = walked[j]
      <4>1. p = Moves[nodes[i].pos][a]
        OBVIOUS
      <4> HIDE DEF p, i, x, fresh, pl, q
      <4>2. Fresh(i, a, to, walked, p, ms, ix, met)
        BY <1>3, <1>5, <1>6, <1>10, <1>11, <3>1, <3>2, <4>1 DEF IsList, Fresh
      <4> QED BY <4>2, FreshKeeps
    <3> HIDE DEF p, i
    <3> QED BY <1>4, <3>1, <3>4, <3>5
  <2>2. CASE ~fresh
    <3>1. ms = walked /\ ix = index /\ met = collisions
      BY Zenon, <2>2
    <3>2. to \in DOMAIN nodes /\ to # 1 /\ nodes[to].pos = p
      <4>1. CASE x.child[a] # NoNode
        <5>1. x.child[a] \in DOMAIN nodes /\ nodes[x.child[a]].pos = p
          BY <1>3, <1>5, <1>6, <4>1 DEF Structure, EdgesLead
        <5>2. x.child[a] # 1
          BY <1>3, <1>5, <1>6, RootHasNoParent DEF Structure
        <5> QED BY <4>1, <5>1, <5>2
      <4>2. CASE x.child[a] = NoNode
        <5>1. Merges(p) /\ to = index[Key[p]]
          BY <2>2, <4>2
        <5>2. Key[p] \in DOMAIN index /\ nodes[index[Key[p]]].pos = p
          BY Zenon, <5>1 DEF Merges, Known
        <5>3. index[Key[p]] \in DOMAIN nodes \ {1}
          BY Zenon, <1>3, <5>2 DEF Structure, Indexed
        <5> HIDE DEF p, to
        <5> QED BY <5>1, <5>2, <5>3
      <4> QED BY Zenon, <4>1, <4>2
    <3> HIDE DEF to, ms, ix, met
    <3>3. to \in Nat /\ to # 0
      BY <1>4, <3>2
    <3>4. \A j \in DOMAIN nodes : Shaped(walked[j])
      BY Zenon, <1>3, <1>5, <1>6, <1>10, <3>3, LinkedIs
    <3>5. Arena(ms)
      BY <1>4, <1>11, <3>1, <3>4 DEF Arena
    <3>6. Structure(walked, index, Dag, collisions)
      <4> HIDE DEF i
      <4> QED BY <1>3, <1>5, <1>6, <1>10, <3>2, <3>3, LinkKeeps
    <3> QED BY <1>4, <1>11, <3>1, <3>2, <3>3, <3>5, <3>6
  <2> QED BY Zenon, <2>1, <2>2
<1> HIDE DEF to, ms, ix, met
<1>13. \A j \in DOMAIN nodes : j \in DOMAIN ms /\ Still(nodes, ms, j)
  <2>1. \A j \in DOMAIN nodes : Still(nodes, walked, j)
    <3> HIDE DEF i
    <3> QED BY Zenon, <1>3, <1>5, <1>6, <1>10, <1>12, LinkedIs
  <2> QED BY <1>12, <2>1 DEF Still
<1>14. RoundOK(ms, q)
  <2>1. nodes[round.at].expanded
    BY <1>2, <1>5
  <2> HIDE DEF q
  <2>2. q = [round EXCEPT !.at = to, !.path = Append(@, <<round.at, a>>)]
    BY DEF q
  <2> QED BY Zenon, <1>2, <1>3, <1>5, <1>6, <1>12, <1>13, <2>1, <2>2, RoundWalks
<1>15. PlanOK(ms, pl)
  <2>1. DOMAIN ms[1].child = DOMAIN nodes[1].child
    BY <1>5, <1>13 DEF Still
  <2>2. PlanOK(ms, plan)
    BY <1>3, <2>1 DEF PlanOK
  <2>3. CASE i = 1 /\ Gumbel
    <3>1. /\ DOMAIN plan = {"alive", "perAction", "given", "scheduled", "phase", "rounds"}
          /\ plan.given \in Nat
      BY <1>3, <2>3 DEF PlanOK, Gumbel
    <3>2. DOMAIN pl = DOMAIN plan /\ pl.given = plan.given + 1 /\ pl.alive = plan.alive
      BY <2>3, <3>1 DEF Take
    <3> QED BY <2>2, <2>3, <3>1, <3>2 DEF PlanOK, Gumbel
  <2> QED BY <2>2, <2>3
<1>16. met \in Nat
  BY <1>3 DEF met
<1>17. round'.stage # "rest" /\ nodes' # <<>> /\ nodes'[1].pos = nodes[1].pos /\ nodes'[1].n = nodes[1].n
  <2>1. q.stage = "descend"
    BY <1>2, <1>3 DEF RoundOK
  <2>2. ms[1].pos = nodes[1].pos /\ ms[1].n = nodes[1].n
    <3> HIDE DEF i
    <3> QED BY <1>5, <1>10, <1>12 DEF Linked
  <2>3. ms # <<>>
    BY <1>12
  <2> HIDE DEF q, pl
  <2> QED BY <1>7, <2>1, <2>2, <2>3
<1> HIDE DEF q, pl
<1> QED BY <1>2, <1>3, <1>7, <1>12, <1>14, <1>15, <1>16, <1>17 DEF TreeInv, Dag, SameRoot

\* A descent that left the root ends: its node is in the batch, waiting or valued.
Recording(ns, ms, r, q, leaves, l) ==
  /\ RoundOK(ns, r) /\ r.stage = "descend" /\ 1 \in DOMAIN ns /\ r.at # 1 /\ IsList(leaves)
  /\ DOMAIN ms = DOMAIN ns /\ \A i \in DOMAIN ns \ {r.at} : ms[i] = ns[i]
  /\ ms[r.at].terminal \/ ms[r.at].expanded \/ ms[r.at].pending
  /\ \A i \in DOMAIN ms : ms[i].pending => \E c \in DOMAIN leaves : leaves[c].node = i /\ ~leaves[c].valued
  /\ \A c \in DOMAIN leaves : ~leaves[c].valued => leaves[c].node \in DOMAIN ms /\ ms[leaves[c].node].pending
  /\ q = [r EXCEPT !.leaves = leaves, !.at = 1, !.path = <<>>, !.due = @ - 1,
            !.stage = IF r.due = 1 THEN "evaluate" ELSE "descend",
            !.descents = Append(@, [path |-> r.path, leaf |-> l])]

\* The round holds one descent more and starts the next at the root.
LEMMA RoundRecords ==
  ASSUME NEW ns, NEW ms, NEW r, NEW q, NEW leaves, NEW l, Recording(ns, ms, r, q, leaves, l)
  PROVE  RoundOK(ms, q)
<1> USE DEF Recording
<1>1. /\ DOMAIN r = {"stage", "due", "at", "path", "descents", "leaves"} /\ ns # <<>>
      /\ r.at \in DOMAIN ns /\ ~ns[1].terminal /\ ns[1].expanded /\ ~ns[1].pending
      /\ LeavesTheRoot(ns, r.path) /\ IsList(r.descents)
  BY DEF RoundOK, IsList
<1> DEFINE last == [path |-> r.path, leaf |-> l]
           ds == Append(r.descents, last)
<1>2. /\ DOMAIN q = DOMAIN r /\ q.at = 1 /\ q.path = <<>> /\ q.stage \in {"descend", "evaluate"}
      /\ q.leaves = leaves /\ q.descents = ds
  BY <1>1
<1>3. last.path = r.path
  OBVIOUS
<1> HIDE DEF last
<1>4. /\ Len(r.descents) \in Nat /\ DOMAIN r.descents = 1..Len(r.descents)
      /\ ds \in Seq({ds[c] : c \in DOMAIN ds}) /\ DOMAIN ds = 1..(Len(r.descents) + 1)
      /\ (\A c \in 1..Len(r.descents) : ds[c] = r.descents[c]) /\ ds[Len(r.descents) + 1] = last
  <2> DEFINE old == r.descents
  <2>1. old \in Seq({old[c] : c \in DOMAIN old})
    BY <1>1 DEF IsList
  <2> HIDE DEF old
  <2>2. ds = Append(old, last)
    BY DEF old
  <2> HIDE DEF ds
  <2>3. /\ Len(old) \in Nat /\ DOMAIN old = 1..Len(old)
        /\ ds \in Seq({ds[c] : c \in DOMAIN ds}) /\ DOMAIN ds = 1..(Len(old) + 1)
        /\ (\A c \in 1..Len(old) : ds[c] = old[c]) /\ ds[Len(old) + 1] = last
    BY <2>1, <2>2, OneMore
  <2> QED BY <2>3 DEF old
<1> HIDE DEF ds
<1>5. ds # <<>>
  BY <1>4
<1>6. ms[1] = ns[1] /\ ms # <<>>
  BY <1>1
<1>7. \A d \in DOMAIN ds : LeavesTheRoot(ms, ds[d].path)
  <2> SUFFICES ASSUME NEW d \in DOMAIN ds PROVE LeavesTheRoot(ns, ds[d].path)
    BY <1>6, LeavesStill
  <2>1. CASE d \in DOMAIN r.descents
    BY Zenon, <1>4, <2>1 DEF RoundOK
  <2>2. CASE d \notin DOMAIN r.descents
    <3>1. d = Len(r.descents) + 1
      BY <1>4, <2>2
    <3> QED BY <1>1, <1>3, <1>4, <3>1
  <2> QED BY <2>1, <2>2
<1>8. \A i \in DOMAIN ms : ms[i].terminal \/ ms[i].expanded \/ ms[i].pending
  BY <1>1 DEF RoundOK
<1>9. IsList(q.leaves) /\ IsList(q.descents)
  <2>1. IsList(ds)
    BY <1>4 DEF IsList
  <2> QED BY Zenon, <1>2, <2>1
<1> HIDE DEF Recording
<1>10. /\ \A i \in DOMAIN ms : ms[i].pending => \E c \in DOMAIN leaves : leaves[c].node = i /\ ~leaves[c].valued
       /\ \A c \in DOMAIN leaves : ~leaves[c].valued => leaves[c].node \in DOMAIN ms /\ ms[leaves[c].node].pending
       /\ 1 \in DOMAIN ms
  BY DEF Recording
<1> QED BY <1>1, <1>2, <1>5, <1>6, <1>7, <1>8, <1>9, <1>10 DEF RoundOK, IsList

\* In a round there is a tree, and its root was expanded before.
LEMMA InRound ==
  ASSUME TreeInv, ~Resting
  PROVE  /\ nodes # <<>> /\ Len(nodes) \in Nat /\ DOMAIN nodes = 1..Len(nodes) /\ 1 \in DOMAIN nodes
         /\ round.at \in DOMAIN nodes /\ Here = nodes[round.at]
         /\ ~nodes[1].terminal /\ nodes[1].expanded /\ ~nodes[1].pending
<1>1. Arena(nodes) /\ RoundOK(nodes, round)
  BY DEF TreeInv
<1>2. round.stage # "rest"
  BY DEF Resting
<1>3. Len(nodes) \in Nat /\ DOMAIN nodes = 1..Len(nodes)
  BY <1>1, LenProperties DEF Arena
<1>4. nodes # <<>> /\ ~nodes[1].terminal
  BY <1>1, <1>2 DEF RoundOK
<1>5. Len(nodes) # 0
  BY <1>1, <1>4, EmptySeq DEF Arena
<1>6. 1 \in DOMAIN nodes
  BY <1>3, <1>5
<1>7. round.at \in DOMAIN nodes /\ nodes[1].expanded /\ ~nodes[1].pending
  BY <1>1, <1>4 DEF RoundOK
<1> QED BY <1>3, <1>4, <1>6, <1>7 DEF Here

\* A descent ends at a terminal node.
LEMMA ArrivesTerminal ==
  ASSUME TreeInv, ArriveTerminal
  PROVE  TreeInv' /\ SameRoot
<1> DEFINE leaf == [node |-> round.at, valued |-> TRUE, value |-> Here.leaf]
           old == round.leaves
           leaves == Append(old, leaf)
           l == Len(old) + 1
<1>1. /\ round.stage = "descend" /\ Here.terminal /\ Recorded(leaves, l)
      /\ UNCHANGED <<config, nodes, index, collisions, sims, plan>>
  BY DEF ArriveTerminal, RecordLeaf
<1>2. /\ 1 \in DOMAIN nodes /\ round.at \in DOMAIN nodes /\ Here = nodes[round.at]
      /\ ~nodes[1].terminal /\ RoundOK(nodes, round)
  BY <1>1, InRound DEF Resting, TreeInv
<1>3. round.at # 1
  BY <1>1, <1>2
<1>4. leaf.node = round.at /\ leaf.valued
  OBVIOUS
<1>5. old \in Seq({old[c] : c \in DOMAIN old})
  BY <1>2 DEF RoundOK
<1>6. /\ \A i \in DOMAIN nodes : nodes[i].pending => \E c \in DOMAIN old : old[c].node = i /\ ~old[c].valued
      /\ \A c \in DOMAIN old : ~old[c].valued => old[c].node \in DOMAIN nodes /\ nodes[old[c].node].pending
  BY <1>1, <1>2 DEF RoundOK
<1> HIDE DEF leaf, old
<1>7. /\ IsList(leaves) /\ Len(old) \in Nat /\ DOMAIN old = 1..Len(old) /\ DOMAIN leaves = 1..(Len(old) + 1)
      /\ (\A c \in 1..Len(old) : leaves[c] = old[c]) /\ leaves[Len(old) + 1] = leaf
  BY <1>5, OneMore DEF IsList
<1> HIDE DEF leaves, l
<1>8. /\ \A i \in DOMAIN nodes : nodes[i].pending => \E c \in DOMAIN leaves : leaves[c].node = i /\ ~leaves[c].valued
      /\ \A c \in DOMAIN leaves : ~leaves[c].valued => leaves[c].node \in DOMAIN nodes /\ nodes[leaves[c].node].pending
  <2>1. \A c \in DOMAIN old : c \in DOMAIN leaves /\ leaves[c] = old[c]
    BY <1>7
  <2>2. \A c \in DOMAIN leaves : c \in DOMAIN old \/ leaves[c] = leaf
    BY <1>7
  <2> QED BY <1>4, <1>6, <2>1, <2>2
<1> DEFINE q == round'
<1>9. Recording(nodes, nodes, round, q, leaves, l)
  BY <1>1, <1>2, <1>3, <1>7, <1>8 DEF Recording, Recorded
<1> HIDE DEF q
<1>10. RoundOK(nodes, q)
  BY <1>9, RoundRecords
<1>11. q.stage # "rest" /\ nodes # <<>>
  BY <1>1, <1>2 DEF Recorded, RoundOK, q
<1> QED BY <1>1, <1>10, <1>11 DEF TreeInv, Dag, q, SameRoot

\* A descent ends at a node another descent of the batch has reached before it.
LEMMA ArrivesPending ==
  ASSUME TreeInv, ArrivePending
  PROVE  TreeInv' /\ SameRoot
<1> DEFINE l == CHOOSE c \in Waiting : \A o \in Waiting : c <= o
           q == round'
<1>1. /\ round.stage = "descend" /\ Here.pending /\ Recorded(round.leaves, l)
      /\ UNCHANGED <<config, nodes, index, collisions, sims, plan>>
  BY DEF ArrivePending
<1> HIDE DEF l
<1>2. /\ 1 \in DOMAIN nodes /\ round.at \in DOMAIN nodes /\ Here = nodes[round.at]
      /\ ~nodes[1].pending /\ RoundOK(nodes, round)
  BY <1>1, InRound DEF Resting, TreeInv
<1>3. Recording(nodes, nodes, round, q, round.leaves, l)
  BY <1>1, <1>2 DEF Recording, Recorded, RoundOK, IsList
<1> HIDE DEF q
<1>4. RoundOK(nodes, q)
  BY <1>3, RoundRecords
<1>5. q.stage # "rest" /\ nodes # <<>>
  BY <1>1, <1>2 DEF Recorded, RoundOK, q
<1> QED BY <1>1, <1>4, <1>5 DEF TreeInv, Dag, q, SameRoot

\* The expansion of a node begins: it has no edge that leads anywhere, or it is terminal.
LEMMA BeginIs ==
  ASSUME NEW x, Shaped(x), ~x.terminal, ~x.expanded, ~x.pending, NEW z, z = BeginExpand(x)
  PROVE  /\ DOMAIN z = Fields /\ z.pos = x.pos /\ ~z.expanded /\ ~z.pending
         /\ z.expanded \in BOOLEAN /\ z.pending \in BOOLEAN /\ z.terminal \in BOOLEAN
         /\ z.terminal <=> Moves[x.pos] = <<>>
         /\ z.child \in [DOMAIN Moves[x.pos] -> Nat] /\ z.n \in [DOMAIN Moves[x.pos] -> Nat]
         /\ \A a \in DOMAIN z.child : z.child[a] = NoNode
<1>1. /\ DOMAIN x = Fields /\ x.pos \in Position /\ x.expanded = FALSE /\ x.pending = FALSE /\ x.terminal = FALSE
      /\ x.child \in [{} -> Nat] /\ x.n \in [{} -> Nat]
  <2>1. EdgesOf(x) = {}
    BY DEF EdgesOf
  <2> QED BY <2>1 DEF Shaped
<1>2. Moves[x.pos] \in Seq(Position)
  BY <1>1, GraphAssumption
<1>3. CASE Moves[x.pos] = <<>>
  <2>1. [a \in DOMAIN Moves[x.pos] |-> 0] = <<>> /\ DOMAIN Moves[x.pos] = {}
    BY <1>3
  <2>2. z = [x EXCEPT !.terminal = TRUE, !.leaf = TerminalValue(x.pos)]
    BY <2>1 DEF BeginExpand
  <2>3. DOMAIN z = Fields /\ z.pos = x.pos /\ z.expanded = FALSE /\ z.pending = FALSE /\ z.terminal = TRUE
        /\ z.child = x.child /\ z.n = x.n
    BY <1>1, <2>2 DEF Fields
  <2> QED BY Zenon, <1>1, <1>3, <2>1, <2>3
<1>4. CASE Moves[x.pos] # <<>>
  <2>1. DOMAIN Moves[x.pos] # {}
    <3>1. Len(Moves[x.pos]) \in Nat /\ Len(Moves[x.pos]) # 0 /\ DOMAIN Moves[x.pos] = 1..Len(Moves[x.pos])
      BY <1>2, <1>4, EmptySeq, LenProperties
    <3>2. 1 \in 1..Len(Moves[x.pos])
      BY <3>1
    <3> QED BY <3>1, <3>2
  <2> DEFINE zeros == [a \in DOMAIN Moves[x.pos] |-> 0]
  <2>2. zeros # <<>>
    BY <2>1
  <2>3. zeros \in [DOMAIN Moves[x.pos] -> Nat] /\ \A a \in DOMAIN zeros : zeros[a] = 0
    OBVIOUS
  <2>4. z = [x EXCEPT !.child = zeros, !.n = zeros, !.w = zeros, !.vl = zeros]
    BY <2>2 DEF BeginExpand
  <2> HIDE DEF zeros
  <2>5. DOMAIN z = Fields /\ z.pos = x.pos /\ z.expanded = FALSE /\ z.pending = FALSE /\ z.terminal = FALSE
        /\ z.child = zeros /\ z.n = zeros
    BY <1>1, <2>4 DEF Fields
  <2> QED BY Zenon, <1>1, <1>4, <2>3, <2>5 DEF NoNode
<1> QED BY <1>3, <1>4

\* A descent ends at a node that has not been expanded.
LEMMA ArrivesNew ==
  ASSUME TreeInv, ArriveNew
  PROVE  TreeInv' /\ SameRoot
<1> DEFINE i == round.at
           x == nodes[i]
           z == BeginExpand(x)
           y == [z EXCEPT !.pending = ~z.terminal]
           ms == [nodes EXCEPT ![i] = y]
           leaf == [node |-> i, valued |-> z.terminal, value |-> z.leaf]
           old == round.leaves
           leaves == Append(old, leaf)
           l == Len(old) + 1
           q == round'
<1>1. round.stage = "descend" /\ UNCHANGED <<config, index, collisions, sims, plan>>
  BY DEF ArriveNew
<1>2. /\ 1 \in DOMAIN nodes /\ i \in DOMAIN nodes /\ Here = x /\ Len(nodes) \in Nat
      /\ DOMAIN nodes = 1..Len(nodes) /\ nodes[1].expanded
      /\ RoundOK(nodes, round) /\ Arena(nodes) /\ Structure(nodes, index, Dag, collisions) /\ PlanOK(nodes, plan)
  BY <1>1, InRound DEF Resting, TreeInv
<1>3. ~x.terminal /\ ~x.pending /\ ~x.expanded /\ nodes' = ms /\ Recorded(leaves, l)
  BY <1>2 DEF ArriveNew, RecordLeaf
<1>4. i # 1
  BY <1>2, <1>3
<1>5. leaf.node = i /\ leaf.valued = z.terminal
  OBVIOUS
<1>6. Shaped(x)
  BY <1>2 DEF Arena
<1>7. /\ DOMAIN z = Fields /\ z.pos = x.pos /\ ~z.expanded /\ ~z.pending
      /\ z.expanded \in BOOLEAN /\ z.pending \in BOOLEAN /\ z.terminal \in BOOLEAN
      /\ z.terminal <=> Moves[x.pos] = <<>>
      /\ z.child \in [DOMAIN Moves[x.pos] -> Nat] /\ z.n \in [DOMAIN Moves[x.pos] -> Nat]
      /\ \A a \in DOMAIN z.child : z.child[a] = NoNode
  <2> HIDE DEF x
  <2> QED BY <1>3, <1>6, BeginIs
<1> HIDE DEF leaf, z
<1>8. /\ DOMAIN y = Fields /\ y.pos = x.pos /\ ~y.expanded /\ y.expanded \in BOOLEAN
      /\ y.pending \in BOOLEAN /\ y.terminal \in BOOLEAN /\ (y.pending <=> ~z.terminal) /\ (y.terminal <=> z.terminal)
      /\ y.child = z.child /\ y.n = z.n
  BY Zenon, <1>7 DEF Fields
<1> HIDE DEF y
<1>9. Shaped(y)
  <2>1. CASE y.pending
    <3>1. EdgesOf(y) = DOMAIN Moves[x.pos]
      BY <1>8, <2>1 DEF EdgesOf
    <3> QED BY <1>6, <1>7, <1>8, <2>1, <3>1 DEF Shaped
  <2>2. CASE ~y.pending
    <3>1. EdgesOf(y) = {} /\ DOMAIN Moves[x.pos] = {}
      BY <1>7, <1>8, <2>2 DEF EdgesOf
    <3> QED BY <1>6, <1>7, <1>8, <2>2, <3>1 DEF Shaped
  <2> QED BY <2>1, <2>2
<1>10. ms = [j \in 1..Len(nodes) |-> ms[j]] /\ DOMAIN ms = DOMAIN nodes
       /\ ms[i] = y /\ \A j \in DOMAIN nodes \ {i} : ms[j] = nodes[j]
  BY Zenon, <1>2
<1> HIDE DEF ms
<1>11. Arena(ms)
  <2>1. ms \in Seq({ms[c] : c \in DOMAIN ms})
    BY <1>2, <1>10, Listing
  <2> QED BY Zenon, <1>2, <1>9, <1>10, <2>1 DEF Arena
<1>12. SameNodes(nodes, ms)
  BY <1>2, <1>7, <1>8, <1>10 DEF SameNodes
<1>13. Structure(ms, index, Dag, collisions)
  BY <1>2, <1>12, SameKeeps
<1>14. PlanOK(ms, plan)
  BY Zenon, <1>2, <1>4, <1>10 DEF PlanOK
<1>15. old \in Seq({old[c] : c \in DOMAIN old})
  BY <1>2 DEF RoundOK
<1>16. /\ \A j \in DOMAIN nodes : nodes[j].pending => \E c \in DOMAIN old : old[c].node = j /\ ~old[c].valued
       /\ \A c \in DOMAIN old : ~old[c].valued => old[c].node \in DOMAIN nodes /\ nodes[old[c].node].pending
  BY <1>1, <1>2 DEF RoundOK
<1> HIDE DEF old
<1>17. /\ IsList(leaves) /\ Len(old) \in Nat /\ DOMAIN old = 1..Len(old) /\ DOMAIN leaves = 1..(Len(old) + 1)
       /\ (\A c \in 1..Len(old) : leaves[c] = old[c]) /\ leaves[Len(old) + 1] = leaf
  BY <1>15, OneMore DEF IsList
<1> HIDE DEF leaves, l
<1>18. /\ \A j \in DOMAIN ms : ms[j].pending => \E c \in DOMAIN leaves : leaves[c].node = j /\ ~leaves[c].valued
       /\ \A c \in DOMAIN leaves : ~leaves[c].valued => leaves[c].node \in DOMAIN ms /\ ms[leaves[c].node].pending
  <2>1. \A c \in DOMAIN old : c \in DOMAIN leaves /\ leaves[c] = old[c]
    BY <1>17
  <2>2. \A c \in DOMAIN leaves : c \in DOMAIN old \/ leaves[c] = leaf
    BY <1>17
  <2>3. \E c \in DOMAIN leaves : leaves[c] = leaf
    BY <1>17
  <2> HIDE DEF i
  <2>4. ASSUME NEW j \in DOMAIN ms, ms[j].pending PROVE \E c \in DOMAIN leaves : leaves[c].node = j /\ ~leaves[c].valued
    <3>1. CASE j = i
      <4>1. y.pending
        BY <1>10, <2>4, <3>1
      <4>2. leaf.node = j /\ ~leaf.valued
        BY <1>5, <1>8, <3>1, <4>1
      <4> QED BY <2>3, <4>2
    <3>2. CASE j # i
      <4>1. j \in DOMAIN nodes /\ nodes[j].pending
        BY <1>10, <2>4, <3>2
      <4>2. PICK c \in DOMAIN old : old[c].node = j /\ ~old[c].valued
        BY <1>16, <4>1
      <4> QED BY <2>1, <4>2
    <3> QED BY <3>1, <3>2
  <2>5. ASSUME NEW c \in DOMAIN leaves, ~leaves[c].valued
        PROVE  leaves[c].node \in DOMAIN ms /\ ms[leaves[c].node].pending
    <3>1. CASE c \in DOMAIN old
      <4>1. old[c].node \in DOMAIN nodes /\ nodes[old[c].node].pending /\ leaves[c] = old[c]
        BY <1>16, <2>1, <2>5, <3>1
      <4>2. old[c].node # i
        BY <1>3, <4>1 DEF i
      <4> QED BY Zenon, <1>10, <4>1, <4>2
    <3>2. CASE leaves[c] = leaf
      BY <1>2, <1>5, <1>8, <1>10, <2>5, <3>2
    <3> QED BY <2>2, <3>1, <3>2
  <2> QED BY <2>4, <2>5
<1>19. Recording(nodes, ms, round, q, leaves, l)
  <2>1. ms[i].terminal \/ ms[i].pending
    BY <1>8, <1>10
  <2> HIDE DEF x
  <2> QED BY <1>1, <1>2, <1>3, <1>4, <1>10, <1>17, <1>18, <2>1 DEF Recording, Recorded
<1> HIDE DEF q
<1>20. RoundOK(ms, q)
  BY <1>19, RoundRecords
<1>21. q.stage # "rest" /\ ms # <<>> /\ ms[1] = nodes[1]
  BY <1>1, <1>2, <1>3, <1>4, <1>10 DEF Recorded, RoundOK, q
<1> QED BY <1>1, <1>3, <1>11, <1>13, <1>14, <1>20, <1>21 DEF TreeInv, Dag, q, SameRoot

\* Every pending node is evaluated, and no other.
LEMMA Evaluates ==
  ASSUME TreeInv, EvaluateLeaves
  PROVE  TreeInv' /\ SameRoot
<1> DEFINE Waits(i) == \E l \in DOMAIN round.leaves : round.leaves[l].node = i /\ ~round.leaves[l].valued
           Done(x) == [FinishExpand(x) EXCEPT !.pending = FALSE]
           ms == [i \in DOMAIN nodes |-> IF Waits(i) THEN Done(nodes[i]) ELSE nodes[i]]
           Filled(leaf) == IF leaf.valued THEN leaf
                           ELSE [leaf EXCEPT !.valued = TRUE, !.value = LeafValue(nodes[leaf.node].pos)]
           old == round.leaves
           leaves == [l \in DOMAIN old |-> Filled(old[l])]
           q == round'
<1>1. /\ round.stage = "evaluate" /\ UNCHANGED <<config, index, collisions, sims, plan>> /\ nodes' = ms
      /\ q = [round EXCEPT !.stage = "backup", !.leaves = leaves]
  BY DEF EvaluateLeaves
<1>2. /\ 1 \in DOMAIN nodes /\ nodes # <<>> /\ Len(nodes) \in Nat /\ DOMAIN nodes = 1..Len(nodes)
      /\ nodes[1].expanded /\ ~nodes[1].pending /\ ~nodes[1].terminal
      /\ RoundOK(nodes, round) /\ Arena(nodes) /\ Structure(nodes, index, Dag, collisions) /\ PlanOK(nodes, plan)
  BY <1>1, InRound DEF Resting, TreeInv
<1>3. /\ round.at = 1 /\ round.path = <<>> /\ round.descents # <<>>
      /\ DOMAIN round = {"stage", "due", "at", "path", "descents", "leaves"}
      /\ IsList(round.descents) /\ IsList(old)
      /\ \A d \in DOMAIN round.descents : LeavesTheRoot(nodes, round.descents[d].path)
      /\ \A i \in DOMAIN nodes : i # 1 => nodes[i].terminal \/ nodes[i].expanded \/ nodes[i].pending
  BY <1>1, <1>2 DEF RoundOK, IsList
<1>4. \A i \in DOMAIN nodes : Waits(i) <=> nodes[i].pending
  BY <1>1, <1>2 DEF RoundOK
<1> HIDE DEF Waits
<1>5. ASSUME NEW i \in DOMAIN nodes
      PROVE  /\ Shaped(ms[i]) /\ ms[i].pos = nodes[i].pos /\ ms[i].child = nodes[i].child
             /\ ~ms[i].pending /\ (ms[i].terminal \/ ms[i].expanded) /\ (ms[i].terminal = nodes[i].terminal)
  <2> DEFINE x == nodes[i]
             y == ms[i]
  <2>1. Shaped(x)
    BY <1>2 DEF Arena
  <2>2. CASE ~x.pending
    <3>1. y = x
      BY <1>4, <2>2
    <3>2. x.terminal \/ x.expanded
      BY <1>2, <1>3, <2>2
    <3> HIDE DEF ms, x, y
    <3> QED BY <2>1, <2>2, <3>1, <3>2 DEF x, y
  <2>3. CASE x.pending
    <3>1. y = Done(x)
      BY <1>4, <2>3
    <3> HIDE DEF ms, x, y
    <3>2. y = [[x EXCEPT !.expanded = TRUE, !.leaf = LeafValue(x.pos)] EXCEPT !.pending = FALSE]
      BY <3>1 DEF FinishExpand
    <3>3. DOMAIN x = Fields
      BY <2>1 DEF Shaped
    <3>4. /\ DOMAIN y = Fields /\ y.pos = x.pos /\ y.child = x.child /\ y.n = x.n /\ y.terminal = x.terminal
          /\ y.expanded = TRUE /\ y.pending = FALSE
      BY <3>2, <3>3 DEF Fields
    <3>5. EdgesOf(y) = EdgesOf(x)
      BY <2>3, <3>4 DEF EdgesOf
    <3>6. ~x.terminal /\ Moves[x.pos] # <<>>
      BY <2>1, <2>3 DEF Shaped
    <3>7. Shaped(y)
      BY Zenon, <2>1, <3>4, <3>5, <3>6 DEF Shaped
    <3> QED BY <3>4, <3>7 DEF x, y
  <2> QED BY <2>2, <2>3
<1>6. ms = [j \in 1..Len(nodes) |-> ms[j]] /\ DOMAIN ms = DOMAIN nodes
  BY <1>2
<1>13. ms[1] = nodes[1] /\ ms # <<>>
  <2>1. DOMAIN ms # {}
    BY <1>2
  <2>2. ms[1] = nodes[1]
    BY <1>2, <1>4
  <2> HIDE DEF ms
  <2> QED BY <2>1, <2>2
<1> HIDE DEF ms
<1>7. Arena(ms)
  <2>1. ms \in Seq({ms[c] : c \in DOMAIN ms})
    BY <1>2, <1>6, Listing
  <2> QED BY Zenon, <1>5, <1>6, <2>1 DEF Arena
<1>8. Structure(ms, index, Dag, collisions)
  <2>1. SameNodes(nodes, ms)
    BY Zenon, <1>5, <1>6 DEF SameNodes
  <2> QED BY <1>2, <2>1, SameKeeps
<1>9. PlanOK(ms, plan)
  BY <1>2, <1>5 DEF PlanOK
<1>10. IsList(leaves)
  <2>1. Len(old) \in Nat /\ DOMAIN old = 1..Len(old)
    BY <1>3, LenProperties DEF IsList
  <2>2. leaves = [c \in 1..Len(old) |-> leaves[c]]
    BY Zenon, <2>1
  <2> HIDE DEF leaves, old
  <2> QED BY <2>1, <2>2, Listing DEF IsList
<1> HIDE DEF leaves, old
<1>11. /\ DOMAIN q = DOMAIN round /\ q.stage = "backup" /\ q.at = 1 /\ q.path = <<>> /\ q.descents = round.descents
       /\ q.leaves = leaves
  BY <1>1, <1>3
<1> HIDE DEF q
<1>12. RoundOK(ms, q)
  <2>1. IsList(q.leaves) /\ IsList(q.descents)
    BY <1>3, <1>10, <1>11
  <2>2. \A d \in DOMAIN q.descents : LeavesTheRoot(ms, q.descents[d].path)
    <3> SUFFICES ASSUME NEW d \in DOMAIN round.descents PROVE LeavesTheRoot(ms, round.descents[d].path)
      BY <1>11
    <3> QED BY <1>2, <1>3, <1>5, LeavesStill
  <2>3. 1 \in DOMAIN ms /\ ms # <<>> /\ ~ms[1].terminal
    BY <1>2, <1>5, <1>6
  <2> QED BY Zenon, <1>3, <1>5, <1>6, <1>11, <2>1, <2>2, <2>3 DEF RoundOK, IsList
<1> QED BY <1>1, <1>7, <1>8, <1>9, <1>11, <1>12, <1>13 DEF TreeInv, Dag, q, SameRoot

\* A set of descents is counted.
LEMMA DescentsCount ==
  ASSUME NEW k \in Nat, NEW S, S \subseteq 1..k
  PROVE  Cardinality(S) \in Nat /\ (S # {} => Cardinality(S) > 0)
<1>1. IsFiniteSet(1..k)
  BY FS_Interval
<1>2. IsFiniteSet(S)
  BY Zenon, <1>1, FS_Subset
<1>3. Cardinality(S) \in Nat /\ (Cardinality(S) = 0 <=> S = {})
  BY Zenon, <1>2, FS_CardinalityType, FS_EmptySet
<1>4. \A c \in Nat : c # 0 => c > 0
  OBVIOUS
<1>5. S # {} => Cardinality(S) # 0
  BY Zenon, <1>3
<1> QED BY <1>3, <1>4, <1>5

\* The backup changes statistics alone, and the root has a visited edge after it.
LEMMA Credits ==
  ASSUME TreeInv, Backup
  PROVE  /\ TreeInv' /\ Visited(nodes') /\ sims' > sims /\ nodes'[1].child = nodes[1].child
         /\ nodes'[1].pos = nodes[1].pos
<1> DEFINE ms == [i \in DOMAIN nodes |-> Credited(i)]
           k == Len(round.descents)
<1>1. /\ round.stage = "backup" /\ UNCHANGED <<config, index, collisions, plan>> /\ nodes' = ms
      /\ sims' = sims + k /\ round' = AtRest
  BY DEF Backup
<1>2. /\ 1 \in DOMAIN nodes /\ nodes # <<>> /\ Len(nodes) \in Nat /\ DOMAIN nodes = 1..Len(nodes)
      /\ nodes[1].expanded /\ ~nodes[1].pending /\ ~nodes[1].terminal
      /\ RoundOK(nodes, round) /\ Arena(nodes) /\ Structure(nodes, index, Dag, collisions) /\ PlanOK(nodes, plan)
      /\ config \in Configs /\ sims \in Nat /\ collisions \in Nat
  BY <1>1, InRound DEF Resting, TreeInv
<1>3. /\ round.at = 1 /\ round.path = <<>> /\ round.descents # <<>> /\ IsList(round.descents)
      /\ \A d \in DOMAIN round.descents : LeavesTheRoot(nodes, round.descents[d].path)
      /\ \A i \in DOMAIN nodes : ~nodes[i].pending
      /\ \A i \in DOMAIN nodes : i # 1 => nodes[i].terminal \/ nodes[i].expanded \/ nodes[i].pending
  BY <1>1, <1>2 DEF RoundOK, IsList
<1>4. k \in Nat /\ k # 0 /\ DOMAIN round.descents = 1..k
  BY <1>3, EmptySeq, LenProperties DEF IsList
<1>5. ASSUME NEW i, NEW a
      PROVE  Through(i, a) \subseteq 1..k /\ Cardinality(Through(i, a)) \in Nat
             /\ (Through(i, a) # {} => Cardinality(Through(i, a)) > 0)
  <2>1. Through(i, a) \subseteq 1..k
    BY <1>4 DEF Through
  <2> HIDE DEF k
  <2> QED BY <1>4, <2>1, DescentsCount
<1> HIDE DEF k
<1>6. ASSUME NEW i \in DOMAIN nodes
      PROVE  /\ Shaped(ms[i]) /\ ms[i].pos = nodes[i].pos /\ ms[i].child = nodes[i].child
             /\ ~ms[i].pending /\ (ms[i].terminal \/ ms[i].expanded) /\ ms[i].terminal = nodes[i].terminal
             /\ ms[i].n = [a \in DOMAIN nodes[i].n |-> nodes[i].n[a] + Cardinality(Through(i, a))]
             /\ DOMAIN nodes[i].n = DOMAIN nodes[i].child
             /\ \A a \in DOMAIN nodes[i].n : nodes[i].n[a] \in Nat
  <2> DEFINE x == nodes[i]
             y == Credited(i)
             n == [a \in DOMAIN x.n |-> x.n[a] + Cardinality(Through(i, a))]
             hits == [a \in DOMAIN x.child |-> Through(i, a)]
             count == [a \in DOMAIN x.child |-> Cardinality(hits[a])]
             total == Cardinality(UNION {hits[a] : a \in DOMAIN hits})
  <2>1. Shaped(x)
    BY <1>2 DEF Arena
  <2>2. /\ DOMAIN x = Fields /\ x.child \in [EdgesOf(x) -> Nat] /\ x.n \in [EdgesOf(x) -> Nat]
        /\ DOMAIN x.n = DOMAIN x.child
    BY <2>1 DEF Shaped
  <2>3. y = [x EXCEPT !.visits = @ + total, !.vlVisits = @ - total,
                !.n = [a \in DOMAIN @ |-> @[a] + count[a]],
                !.vl = [a \in DOMAIN @ |-> @[a] - count[a]],
                !.w = [a \in DOMAIN @ |-> @[a] + Worth(hits[a])]]
    BY DEF Credited
  <2>4. /\ DOMAIN y = Fields /\ y.pos = x.pos /\ y.child = x.child /\ y.terminal = x.terminal
        /\ y.expanded = x.expanded /\ y.pending = x.pending /\ y.n = [a \in DOMAIN x.n |-> x.n[a] + count[a]]
    <3> HIDE DEF y, count, hits, total
    <3> QED BY Zenon, <2>2, <2>3 DEF Fields
  <2>5. y.n = n
    <3>1. \A a \in DOMAIN x.n : count[a] = Cardinality(Through(i, a))
      BY <2>2
    <3> HIDE DEF count, y
    <3> QED BY <2>4, <3>1
  <2>6. \A a \in DOMAIN x.n : x.n[a] \in Nat
    BY <2>2
  <2>7. n \in [EdgesOf(x) -> Nat]
    BY <1>5, <2>2, <2>6
  <2>8. EdgesOf(y) = EdgesOf(x)
    BY <2>4 DEF EdgesOf
  <2> HIDE DEF y, n
  <2>9. Shaped(y)
    BY Zenon, <2>1, <2>4, <2>5, <2>7, <2>8 DEF Shaped
  <2>10. ms[i] = y
    BY DEF y
  <2>11. ~x.pending /\ (x.terminal \/ x.expanded)
    BY <1>2, <1>3
  <2> HIDE DEF ms
  <2> QED BY <2>2, <2>4, <2>5, <2>6, <2>9, <2>10, <2>11 DEF n
<1>7. ms = [j \in 1..Len(nodes) |-> ms[j]] /\ DOMAIN ms = DOMAIN nodes
  BY <1>2
<1> HIDE DEF ms
<1>8. Arena(ms)
  <2>1. ms \in Seq({ms[c] : c \in DOMAIN ms})
    BY <1>2, <1>7, Listing
  <2> QED BY Zenon, <1>6, <1>7, <2>1 DEF Arena
<1>9. Structure(ms, index, Dag, collisions)
  <2>1. SameNodes(nodes, ms)
    BY Zenon, <1>6, <1>7 DEF SameNodes
  <2> QED BY <1>2, <2>1, SameKeeps
<1>10. PlanOK(ms, plan)
  BY Zenon, <1>2, <1>6 DEF PlanOK
<1>11. RoundOK(ms, AtRest)
  <2> DEFINE r == AtRest
  <2>1. <<>> \in Seq({<<>>[c] : c \in DOMAIN <<>>})
    BY EmptySeq, OwnRange
  <2>2. /\ DOMAIN r = {"stage", "due", "at", "path", "descents", "leaves"} /\ r.stage = "rest" /\ r.at = 1
        /\ r.path = <<>> /\ r.descents = <<>> /\ r.leaves = <<>>
    BY DEF AtRest
  <2>3. IsList(r.descents) /\ IsList(r.leaves) /\ DOMAIN r.descents = {}
    BY <2>1, <2>2 DEF IsList
  <2>4. 1 \in DOMAIN ms /\ \A i \in DOMAIN ms : ~ms[i].pending /\ (ms[i].terminal \/ ms[i].expanded)
    BY Zenon, <1>2, <1>6, <1>7
  <2> HIDE DEF r
  <2>5. RoundOK(ms, r)
    BY <2>2, <2>3, <2>4 DEF RoundOK, IsList
  <2> QED BY <2>5 DEF r
<1>12. Visited(ms)
  <2>1. 1 \in DOMAIN round.descents
    BY <1>4
  <2>2. PICK a \in DOMAIN nodes[1].child : round.descents[1].path[1] = <<1, a>>
    BY Zenon, <1>3, <2>1 DEF LeavesTheRoot
  <2>3. 1 \in DOMAIN round.descents[1].path
    <3> DEFINE path == round.descents[1].path
    <3>1. IsList(path) /\ path # <<>>
      BY <1>3, <2>1 DEF LeavesTheRoot, IsList
    <3> HIDE DEF path
    <3>2. Len(path) \in Nat /\ Len(path) # 0 /\ DOMAIN path = 1..Len(path)
      BY <3>1, EmptySeq, LenProperties DEF IsList
    <3>3. 1 \in DOMAIN path
      BY <3>2
    <3> QED BY <3>3 DEF path
  <2>4. 1 \in Through(1, a)
    BY <2>1, <2>2, <2>3 DEF Through
  <2>5. Cardinality(Through(1, a)) \in Nat /\ Cardinality(Through(1, a)) > 0
    BY <1>5, <2>4
  <2>8. /\ ms[1].n = [b \in DOMAIN nodes[1].n |-> nodes[1].n[b] + Cardinality(Through(1, b))]
        /\ DOMAIN nodes[1].n = DOMAIN nodes[1].child
        /\ \A b \in DOMAIN nodes[1].n : nodes[1].n[b] \in Nat
    BY <1>2, <1>6
  <2>6. a \in DOMAIN ms[1].n /\ ms[1].n[a] = nodes[1].n[a] + Cardinality(Through(1, a)) /\ nodes[1].n[a] \in Nat
    BY <2>2, <2>8
  <2>7. ms[1].n[a] > 0
    BY <2>5, <2>6
  <2> QED BY <2>6, <2>7 DEF Visited
<1>13. sims' \in Nat /\ sims' > sims
  BY <1>1, <1>2, <1>4
<1> QED BY Zenon, <1>1, <1>2, <1>6, <1>8, <1>9, <1>10, <1>11, <1>12, <1>13 DEF TreeInv, Dag

-----------------------------------------------------------------------------
(* A fresh tree, no tree, and the tree of a child *)

\* A root is evaluated before the first round.
LEMMA RootIs ==
  ASSUME NEW p \in Position, NEW y, y = RootNode(p)
  PROVE  /\ Shaped(y) /\ y.pos = p /\ ~y.pending /\ (y.terminal \/ y.expanded)
         /\ \A a \in DOMAIN y.child : y.child[a] = NoNode
<1> DEFINE x == NewNode(p)
<1>1. /\ Shaped(x) /\ x.pos = p /\ x.child = <<>> /\ ~x.expanded /\ ~x.pending /\ x.terminal = (p \in Over)
  BY NewNodeIs
<1>2. CASE p \in Over
  <2>1. y = x
    BY <1>2 DEF RootNode
  <2>2. x.terminal
    BY Zenon, <1>1, <1>2
  <2>3. DOMAIN <<>> = {}
    OBVIOUS
  <2> HIDE DEF x
  <2> QED BY <1>1, <2>1, <2>2, <2>3
<1>3. CASE p \notin Over
  <2> DEFINE z == BeginExpand(x)
  <2>1. ~x.terminal
    BY Zenon, <1>1, <1>3
  <2>2. y = IF z.terminal THEN z ELSE FinishExpand(z)
    BY <1>3 DEF RootNode, Expand
  <2> HIDE DEF x
  <2>3. /\ DOMAIN z = Fields /\ z.pos = p /\ z.expanded = FALSE /\ z.pending = FALSE
        /\ z.terminal \in BOOLEAN
        /\ z.terminal <=> Moves[p] = <<>>
        /\ z.child \in [DOMAIN Moves[p] -> Nat] /\ z.n \in [DOMAIN Moves[p] -> Nat]
        /\ \A a \in DOMAIN z.child : z.child[a] = NoNode
    BY <1>1, <2>1, BeginIs
  <2> HIDE DEF z
  <2>4. CASE z.terminal
    <3>1. y = z /\ EdgesOf(y) = {} /\ DOMAIN Moves[p] = {}
      BY <2>2, <2>3, <2>4 DEF EdgesOf
    <3> QED BY Zenon, <2>3, <2>4, <3>1 DEF Shaped
  <2>5. CASE ~z.terminal
    <3>1. y = [z EXCEPT !.expanded = TRUE, !.leaf = LeafValue(z.pos)]
      BY <2>2, <2>5 DEF FinishExpand
    <3>2. /\ DOMAIN y = Fields /\ y.pos = p /\ y.expanded = TRUE /\ y.pending = FALSE /\ y.terminal = z.terminal
          /\ y.child = z.child /\ y.n = z.n
      BY <2>3, <3>1 DEF Fields
    <3>3. EdgesOf(y) = DOMAIN Moves[p]
      BY <3>2 DEF EdgesOf
    <3> QED BY Zenon, <2>3, <2>5, <3>2, <3>3 DEF Shaped
  <2> QED BY <2>4, <2>5
<1> QED BY <1>2, <1>3

\* A plan that is drawn dictates edges of the root.
LEMMA PlansAre ==
  ASSUME config \in Configs, NEW ns, Shaped(ns[1]), ns[1].terminal \/ ns[1].expanded, NEW pl \in Plans(ns[1])
  PROVE  PlanOK(ns, pl)
<1> SUFFICES ASSUME pl # NoPlan PROVE PlanOK(ns, pl)
  BY DEF PlanOK
<1> DEFINE x == ns[1]
           edges == DOMAIN x.child
           m == Smaller(config.m, Len(x.child))
<1>1. config.m # 0 /\ ~x.terminal
  BY DEF Plans
<1>2. PICK alive \in Lists(edges, m) :
        pl = [alive |-> alive, perAction |-> PhaseShare(alive, 0, 0, Rounds(m)), given |-> 0,
              scheduled |-> 0, phase |-> 0, rounds |-> Rounds(m)]
  BY <1>1 DEF Plans
<1>3. config.m \in Nat
  BY ConfigAssumption
<1>4. x.expanded /\ x.pos \in Position /\ x.child \in [DOMAIN Moves[x.pos] -> Nat] /\ Moves[x.pos] # <<>>
  BY <1>1 DEF Shaped, EdgesOf
<1>5. m \in Nat /\ m # 0
  <2> DEFINE k == Len(Moves[x.pos])
  <2>1. Moves[x.pos] \in Seq(Position)
    BY <1>4, GraphAssumption
  <2>2. k \in Nat /\ k # 0 /\ DOMAIN Moves[x.pos] = 1..k
    BY <1>4, <2>1, EmptySeq, LenProperties
  <2> HIDE DEF k
  <2>3. x.child \in [1..k -> Nat]
    BY <1>4, <2>2
  <2>4. x.child = [e \in 1..k |-> x.child[e]]
    BY Zenon, <2>3
  <2>5. Len(x.child) = k
    BY <2>2, <2>4, Listing
  <2> QED BY <1>1, <1>3, <2>2, <2>5 DEF Smaller
<1> HIDE DEF m
<1>6. alive \in [1..m -> edges]
  BY <1>2 DEF Lists
<1>7. alive \in Seq(edges) /\ alive # <<>>
  <2>1. 1 \in DOMAIN alive
    BY <1>5, <1>6
  <2> HIDE DEF edges
  <2> QED BY <1>5, <1>6, <2>1, SeqDef
<1>8. pl.alive = alive /\ pl.given = 0 /\ DOMAIN pl = {"alive", "perAction", "given", "scheduled", "phase", "rounds"}
  BY <1>2
<1> QED BY <1>7, <1>8 DEF PlanOK

\* At rest there is nothing in hand.
LEMMA RestIs ==
  ASSUME NEW ns, ns # <<>> => /\ 1 \in DOMAIN ns /\ (ns[1].terminal \/ ns[1].expanded) /\ ~ns[1].pending,
         \A i \in DOMAIN ns : ~ns[i].pending /\ (ns[i].terminal \/ ns[i].expanded)
  PROVE  RoundOK(ns, AtRest)
<1> DEFINE r == AtRest
<1>1. <<>> \in Seq({<<>>[c] : c \in DOMAIN <<>>})
  BY EmptySeq, OwnRange
<1>2. /\ DOMAIN r = {"stage", "due", "at", "path", "descents", "leaves"} /\ r.stage = "rest" /\ r.at = 1
      /\ r.path = <<>> /\ r.descents = <<>> /\ r.leaves = <<>>
  BY DEF AtRest
<1>3. IsList(r.descents) /\ IsList(r.leaves) /\ DOMAIN r.descents = {}
  BY <1>1, <1>2 DEF IsList
<1> HIDE DEF r
<1>4. RoundOK(ns, r)
  BY <1>2, <1>3 DEF RoundOK, IsList
<1> QED BY <1>4 DEF r

\* A searcher is made for a position.
LEMMA Begins ==
  ASSUME NEW p \in Position, config \in Configs, config' = config, NewSearcher(p)
  PROVE  /\ TreeInv' /\ nodes' # <<>> /\ nodes'[1] = RootNode(p) /\ nodes'[1].pos = p /\ sims' = 0
         /\ nodes'[1].terminal \/ nodes'[1].expanded
         /\ round' = AtRest
<1> DEFINE x == RootNode(p)
           ms == <<x>>
<1>1. nodes' = ms /\ index' = <<>> /\ collisions' = 0 /\ sims' = 0 /\ plan' \in Plans(x) /\ round' = AtRest
  BY DEF NewSearcher
<1>2. Shaped(x) /\ x.pos = p /\ ~x.pending /\ (x.terminal \/ x.expanded) /\ \A a \in DOMAIN x.child : x.child[a] = NoNode
  BY RootIs
<1> HIDE DEF x
<1>3. DOMAIN ms = {1} /\ ms[1] = x /\ ms # <<>> /\ ms \in Seq({x})
  OBVIOUS
<1> HIDE DEF ms
<1>4. ms \in Seq({ms[c] : c \in DOMAIN ms})
  BY <1>3, OwnRange
<1>5. Arena(ms)
  BY <1>2, <1>3, <1>4 DEF Arena
<1>6. Structure(ms, <<>>, Dag, 0)
  <2>1. DOMAIN <<>> = {}
    OBVIOUS
  <2> QED BY <1>2, <1>3, <2>1 DEF Structure, EdgesLead, RootIsShallowest, Indexed, Covered, Distinct
<1>7. RoundOK(ms, AtRest)
  BY <1>2, <1>3, RestIs
<1>8. PlanOK(ms, plan')
  BY <1>1, <1>2, <1>3, PlansAre
<1> QED BY <1>1, <1>2, <1>3, <1>5, <1>6, <1>7, <1>8 DEF TreeInv, Dag, x

\* The tree is given up.
LEMMA Drops ==
  ASSUME config \in Configs, config' = config, Drop
  PROVE  TreeInv' /\ nodes' = <<>> /\ sims' = 0 /\ round' = AtRest
<1>1. nodes' = <<>> /\ index' = <<>> /\ collisions' = 0 /\ sims' = 0 /\ plan' = NoPlan /\ round' = AtRest
  BY DEF Drop
<1>2. DOMAIN <<>> = {} /\ <<>> \in Seq({<<>>[c] : c \in DOMAIN <<>>})
  BY EmptySeq, OwnRange
<1>3. Arena(<<>>)
  BY <1>2 DEF Arena
<1>4. Structure(<<>>, <<>>, Dag, 0)
  BY <1>2 DEF Structure, EdgesLead, RootIsShallowest, Indexed, Covered, Distinct
<1>5. RoundOK(<<>>, AtRest)
  BY <1>2, RestIs
<1>6. PlanOK(<<>>, NoPlan)
  BY DEF PlanOK
<1> QED BY <1>1, <1>3, <1>4, <1>5, <1>6 DEF TreeInv, Dag

\* What is below a node: the node, and with a node its children, all of them deeper than it.
LEMMA BelowIs ==
  ASSUME Arena(nodes), EdgesLead(nodes), NEW c \in DOMAIN nodes
  PROVE  /\ c \in Below(c) /\ Below(c) \subseteq DOMAIN nodes
         /\ \A j \in Below(c) : Kids(j) \subseteq Below(c)
         /\ \A j \in Below(c) \ {c} : Depth[nodes[j].pos] > Depth[nodes[c].pos]
<1> DEFINE closed == {S \in SUBSET DOMAIN nodes : c \in S /\ \A j \in S : Kids(j) \subseteq S}
<1>1. Below(c) = {j \in DOMAIN nodes : \A S \in closed : j \in S}
  BY DEF Below
<1>2. \A j \in DOMAIN nodes : Kids(j) \subseteq DOMAIN nodes
  BY DEF Kids, EdgesLead
<1>3. \A S \in closed : S \subseteq DOMAIN nodes /\ c \in S /\ \A j \in S : Kids(j) \subseteq S
  OBVIOUS
<1>4. \A j \in DOMAIN nodes : nodes[j].pos \in Position /\ Depth[nodes[j].pos] \in Nat
  BY GraphAssumption DEF Arena, Shaped
<1> DEFINE T == {c} \cup {j \in DOMAIN nodes : Depth[nodes[j].pos] > Depth[nodes[c].pos]}
<1>5. T \in closed
  <2> SUFFICES ASSUME NEW j \in T, NEW k \in Kids(j) PROVE k \in T
    OBVIOUS
  <2>1. j \in DOMAIN nodes /\ Depth[nodes[j].pos] >= Depth[nodes[c].pos]
    BY <1>4
  <2>2. PICK a \in DOMAIN nodes[j].child : k = nodes[j].child[a] /\ k # NoNode
    BY DEF Kids
  <2>3. k \in DOMAIN nodes /\ nodes[k].pos = Moves[nodes[j].pos][a]
    BY <2>1, <2>2 DEF EdgesLead
  <2>4. nodes[j].pos \in Position /\ a \in DOMAIN Moves[nodes[j].pos]
    BY <2>1, <2>2 DEF Arena, Shaped, EdgesOf
  <2>5. Depth[nodes[k].pos] = Depth[nodes[j].pos] + 1
    BY <2>3, <2>4, Deeper
  <2>6. Depth[nodes[k].pos] > Depth[nodes[c].pos]
    BY <1>4, <2>1, <2>5
  <2> QED BY <2>3, <2>6
<1> HIDE DEF closed
<1>6. Below(c) \subseteq T
  BY <1>1, <1>5
<1>7. \A j \in Below(c) : Kids(j) \subseteq Below(c)
  BY <1>1, <1>2, <1>3
<1> QED BY <1>1, <1>3, <1>6, <1>7

\* The survivors: the new root, then the others, each once.
LEMMA SurvivorsAre ==
  ASSUME Arena(nodes), EdgesLead(nodes), NEW c \in DOMAIN nodes, NEW order, order = Survivors(c)
  PROVE  /\ Len(order) \in Nat /\ DOMAIN order = 1..Len(order) /\ 1 \in DOMAIN order /\ order[1] = c
         /\ \A k \in DOMAIN order : order[k] \in Below(c)
         /\ \A k, l \in DOMAIN order : order[k] = order[l] => k = l
         /\ \A j \in Below(c) : \E k \in DOMAIN order : order[k] = j
<1> DEFINE B == Below(c)
           T == B \ {c}
           rest == SetToSeq(T)
           n == Cardinality(T)
<1>1. c \in B /\ B \subseteq DOMAIN nodes
  BY BelowIs
<1>2. IsFiniteSet(T)
  <2>1. Len(nodes) \in Nat /\ DOMAIN nodes = 1..Len(nodes)
    BY LenProperties DEF Arena
  <2>2. IsFiniteSet(1..Len(nodes))
    BY <2>1, FS_Interval
  <2>3. T \subseteq 1..Len(nodes)
    BY <1>1, <2>1
  <2> HIDE DEF T
  <2> QED BY Zenon, <2>2, <2>3, FS_Subset
<1> HIDE DEF B
<1>3. order = <<c>> \o rest
  BY DEF Survivors, B
<1> HIDE DEF T
<1>4. /\ n \in Nat /\ rest \in [1..n -> T]
      /\ \A i, j \in 1..n : rest[i] = rest[j] => i = j
      /\ \A x \in T : \E i \in 1..n : rest[i] = x
  BY <1>2, Listed
<1> HIDE DEF rest, n
<1>5. T \subseteq B /\ c \notin T /\ B = T \cup {c}
  BY <1>1 DEF T
<1>6. rest \in Seq(B) /\ Len(rest) = n
  <2>1. rest \in [1..n -> B]
    BY <1>4, <1>5
  <2>2. rest \in Seq(B)
    BY <1>4, <2>1, SeqDef
  <2>3. rest = [i \in 1..n |-> rest[i]]
    BY <1>4
  <2> QED BY <1>4, <2>2, <2>3, Listing
<1>7. <<c>> \in Seq(B) /\ Len(<<c>>) = 1 /\ <<c>>[1] = c
  BY <1>1
<1>8. /\ order \in Seq(B) /\ Len(order) = 1 + n
      /\ \A i \in 1..(1 + n) : order[i] = IF i <= 1 THEN c ELSE rest[i - 1]
  <2> DEFINE one == <<c>>
  <2>1. one \in Seq(B) /\ Len(one) = 1 /\ one[1] = c /\ order = one \o rest
    BY <1>3, <1>7
  <2> HIDE DEF one
  <2>2. /\ order \in Seq(B) /\ Len(order) = 1 + n
        /\ \A i \in 1..(1 + n) : order[i] = IF i <= 1 THEN one[i] ELSE rest[i - 1]
    <3> DEFINE whole == one \o rest
    <3>1. /\ whole \in Seq(B) /\ Len(whole) = Len(one) + Len(rest)
          /\ \A i \in 1..(Len(one) + Len(rest)) : whole[i] = IF i <= Len(one) THEN one[i] ELSE rest[i - Len(one)]
      BY Zenon, <1>6, <2>1, ConcatProperties
    <3>2. whole = order
      BY <2>1
    <3> HIDE DEF whole
    <3> QED BY <1>6, <2>1, <3>1, <3>2
  <2>3. \A i \in 1..(1 + n) : i <= 1 => one[i] = c
    BY <1>4, <2>1
  <2> QED BY <2>2, <2>3
<1>9. Len(order) \in Nat /\ DOMAIN order = 1..(1 + n)
  BY <1>8, LenProperties
<1>10. order[1] = c /\ 1 \in DOMAIN order
  BY <1>4, <1>8, <1>9
<1>11. \A k \in DOMAIN order : k # 1 => k - 1 \in 1..n /\ order[k] = rest[k - 1]
  BY <1>4, <1>8, <1>9
<1>12. \A k \in DOMAIN order : order[k] \in B
  BY <1>4, <1>5, <1>10, <1>11
<1>13. ASSUME NEW k \in DOMAIN order, NEW l \in DOMAIN order, order[k] = order[l] PROVE k = l
  <2>1. CASE k = 1 \/ l = 1
    <3>1. \A m \in DOMAIN order : m # 1 => order[m] # c
      BY <1>4, <1>5, <1>11
    <3> QED BY <1>10, <1>13, <2>1, <3>1
  <2>2. CASE k # 1 /\ l # 1
    <3>1. k - 1 \in 1..n /\ l - 1 \in 1..n /\ rest[k - 1] = rest[l - 1]
      BY <1>11, <1>13, <2>2
    <3>2. k - 1 = l - 1
      BY <1>4, <3>1
    <3>3. k \in Int /\ l \in Int
      BY <1>4, <1>9
    <3> QED BY <3>2, <3>3
  <2> QED BY <2>1, <2>2
<1>14. ASSUME NEW j \in B PROVE \E k \in DOMAIN order : order[k] = j
  <2>1. CASE j = c
    BY <1>10, <2>1
  <2>2. CASE j # c
    <3>1. PICK i \in 1..n : rest[i] = j
      BY <1>4, <1>5, <2>2
    <3>2. i + 1 \in DOMAIN order /\ i + 1 # 1 /\ (i + 1) - 1 = i
      BY <1>4, <1>9
    <3>3. order[i + 1] = rest[(i + 1) - 1]
      BY <1>11, <3>2
    <3> QED BY <3>1, <3>2, <3>3
  <2> QED BY <2>1, <2>2
<1> QED BY <1>8, <1>9, <1>10, <1>12, <1>13, <1>14 DEF B

\* The number a survivor has in the new arena.
Number(order, i) == IF i = NoNode THEN NoNode ELSE CHOOSE k \in DOMAIN order : order[k] = i

\* The tree of a child: nothing below it is lost, doubled or led elsewhere.
LEMMA Rebases ==
  ASSUME TreeInv, Resting, NEW a, Rebase(a), nodes # <<>>
  PROVE  TreeInv' /\ nodes' # <<>> /\ UNCHANGED <<sims, round>>
<1> DEFINE c == nodes[1].child[a]
           order == Survivors(c)
           Moved(k) == [nodes[order[k]] EXCEPT
                          !.child = [e \in DOMAIN nodes[order[k]].child |-> Number(order, nodes[order[k]].child[e])]]
           ms == [k \in DOMAIN order |-> Moved(k)]
           ix == index'
<1>1. /\ a \in DOMAIN nodes[1].child /\ c # NoNode /\ nodes' = Kept(a) /\ index' \in Rebuilt(nodes')
      /\ plan' \in Plans(nodes'[1]) /\ UNCHANGED <<config, collisions, sims, round>>
  BY DEF Rebase, CanRebase
<1>2. nodes' = ms
  BY Zenon, <1>1 DEF Kept, Renumbered, Number
<1>3. /\ config \in Configs /\ sims \in Nat /\ collisions \in Nat /\ Arena(nodes)
      /\ Structure(nodes, index, Dag, collisions) /\ RoundOK(nodes, round)
      /\ EdgesLead(nodes)
  BY DEF TreeInv, Structure
<1>4. 1 \in DOMAIN nodes
  <2>1. Len(nodes) \in Nat /\ Len(nodes) # 0 /\ DOMAIN nodes = 1..Len(nodes)
    BY <1>3, EmptySeq, LenProperties DEF Arena
  <2> QED BY <2>1
<1>5. c \in DOMAIN nodes
  BY <1>1, <1>3, <1>4 DEF EdgesLead
<1>6. /\ \A i \in DOMAIN nodes : ~nodes[i].pending /\ (nodes[i].terminal \/ nodes[i].expanded)
      /\ round.at = 1 /\ round.path = <<>> /\ round.descents = <<>> /\ round.stage = "rest"
      /\ DOMAIN round = {"stage", "due", "at", "path", "descents", "leaves"} /\ IsList(round.leaves)
  BY <1>3, <1>4 DEF Resting, RoundOK, IsList
<1> HIDE DEF c
<1>7. /\ c \in Below(c) /\ Below(c) \subseteq DOMAIN nodes
      /\ \A j \in Below(c) : Kids(j) \subseteq Below(c)
      /\ \A j \in Below(c) \ {c} : Depth[nodes[j].pos] > Depth[nodes[c].pos]
  BY <1>3, <1>5, BelowIs
<1>8. /\ Len(order) \in Nat /\ DOMAIN order = 1..Len(order) /\ 1 \in DOMAIN order /\ order[1] = c
      /\ \A k \in DOMAIN order : order[k] \in Below(c)
      /\ \A k, l \in DOMAIN order : order[k] = order[l] => k = l
      /\ \A j \in Below(c) : \E k \in DOMAIN order : order[k] = j
  BY <1>3, <1>5, SurvivorsAre
<1> HIDE DEF order
<1>9. ASSUME NEW j \in Below(c)
      PROVE  Number(order, j) \in DOMAIN order /\ order[Number(order, j)] = j /\ Number(order, j) # NoNode
  <2>1. j # NoNode
    BY <1>3, <1>7, LenProperties DEF Arena, NoNode
  <2>2. \E k \in DOMAIN order : order[k] = j
    BY <1>8
  <2>3. Number(order, j) = CHOOSE k \in DOMAIN order : order[k] = j
    BY <2>1 DEF Number
  <2>4. Number(order, j) \in DOMAIN order /\ order[Number(order, j)] = j
    BY <2>2, <2>3
  <2> QED BY <1>8, <2>4 DEF NoNode
<1>10. ASSUME NEW k \in DOMAIN order, NEW e \in DOMAIN nodes[order[k]].child
       PROVE  /\ nodes[order[k]].child[e] = NoNode \/ nodes[order[k]].child[e] \in Below(c)
              /\ Number(order, nodes[order[k]].child[e]) \in Nat
              /\ nodes[order[k]].child[e] = NoNode => Number(order, nodes[order[k]].child[e]) = NoNode
  <2>1. order[k] \in Below(c)
    BY <1>8
  <2>2. nodes[order[k]].child[e] # NoNode => nodes[order[k]].child[e] \in Kids(order[k])
    BY DEF Kids
  <2>3. nodes[order[k]].child[e] # NoNode => nodes[order[k]].child[e] \in Below(c)
    BY <1>7, <2>1, <2>2
  <2>4. Number(order, NoNode) = NoNode
    BY DEF Number
  <2> QED BY <1>8, <1>9, <2>3, <2>4 DEF NoNode
<1>11. ASSUME NEW k \in DOMAIN order
       PROVE  /\ Shaped(ms[k]) /\ ms[k].pos = nodes[order[k]].pos
              /\ ~ms[k].pending /\ (ms[k].terminal \/ ms[k].expanded)
              /\ DOMAIN ms[k].child = DOMAIN nodes[order[k]].child
              /\ \A e \in DOMAIN nodes[order[k]].child : ms[k].child[e] = Number(order, nodes[order[k]].child[e])
  <2> DEFINE x == nodes[order[k]]
             y == ms[k]
             child == [e \in DOMAIN x.child |-> Number(order, x.child[e])]
  <2>1. order[k] \in DOMAIN nodes
    BY <1>7, <1>8
  <2>2. Shaped(x) /\ ~x.pending /\ (x.terminal \/ x.expanded)
    BY <1>3, <1>6, <2>1 DEF Arena
  <2>3. y = [x EXCEPT !.child = child]
    OBVIOUS
  <2>4. \A e \in DOMAIN x.child : child[e] \in Nat
    BY <1>10
  <2>5. DOMAIN child = DOMAIN x.child /\ \A e \in DOMAIN x.child : child[e] = Number(order, x.child[e])
    OBVIOUS
  <2>6. child = [e \in DOMAIN x.child |-> child[e]]
    OBVIOUS
  <2> HIDE DEF child, y, ms
  <2>7. DOMAIN x = Fields
    BY <2>2 DEF Shaped
  <2>8. /\ DOMAIN y = Fields /\ y.pos = x.pos /\ y.child = child /\ y.n = x.n /\ y.terminal = x.terminal
        /\ y.expanded = x.expanded /\ y.pending = x.pending
    BY <2>3, <2>7 DEF Fields
  <2>9. EdgesOf(y) = EdgesOf(x)
    BY <2>8 DEF EdgesOf
  <2>10. child \in [EdgesOf(x) -> Nat]
    BY Zenon, <2>2, <2>4, <2>6 DEF Shaped
  <2>11. Shaped(y)
    BY <2>2, <2>8, <2>9, <2>10 DEF Shaped
  <2> HIDE DEF x
  <2> QED BY <2>2, <2>5, <2>8, <2>11 DEF x, y
<1>12. DOMAIN ms = DOMAIN order /\ ms = [k \in 1..Len(order) |-> ms[k]]
  BY <1>8
<1> HIDE DEF ms
<1>13. ms \in Seq({ms[k] : k \in DOMAIN ms}) /\ Len(ms) = Len(order) /\ 1 \in DOMAIN ms /\ ms # <<>>
  BY <1>8, <1>12, Listing
<1>14. Arena(ms)
  BY Zenon, <1>11, <1>12, <1>13 DEF Arena
<1>15. EdgesLead(ms)
  <2> SUFFICES ASSUME NEW k \in DOMAIN order, NEW e \in DOMAIN ms[k].child, ms[k].child[e] # NoNode
               PROVE  ms[k].child[e] \in DOMAIN order /\ ms[ms[k].child[e]].pos = Moves[ms[k].pos][e]
    BY <1>12 DEF EdgesLead
  <2> DEFINE j == nodes[order[k]].child[e]
             l == ms[k].child[e]
  <2>1. e \in DOMAIN nodes[order[k]].child /\ l = Number(order, j)
    BY <1>11
  <2>2. j # NoNode /\ j \in Below(c)
    BY <1>10, <2>1
  <2>3. l \in DOMAIN order /\ order[l] = j
    BY <1>9, <2>1, <2>2
  <2>4. order[k] \in DOMAIN nodes
    BY <1>7, <1>8
  <2>5. nodes[j].pos = Moves[nodes[order[k]].pos][e]
    BY <1>3, <2>1, <2>2, <2>4 DEF EdgesLead
  <2>6. ms[l].pos = nodes[order[l]].pos /\ ms[k].pos = nodes[order[k]].pos
    BY <1>11, <2>3
  <2> QED BY <2>3, <2>5, <2>6
<1>16. RootIsShallowest(ms)
  <2> SUFFICES ASSUME NEW k \in DOMAIN order, k # 1 PROVE Depth[ms[k].pos] > Depth[ms[1].pos]
    BY Zenon, <1>12 DEF RootIsShallowest
  <2>1. order[k] \in Below(c) \ {c}
    BY <1>8
  <2> QED BY <1>7, <1>8, <1>11, <2>1
<1>17. Indexed(ms, ix) /\ (Dag => Covered(ms, ix))
  <2> DEFINE keys == {Key[ms[i].pos] : i \in 2..Len(ms)}
  <2>1. ix \in Rebuilt(ms)
    BY <1>1, <1>2
  <2>2. 2..Len(ms) = DOMAIN ms \ {1}
    BY <1>8, <1>12, <1>13
  <2>3. CASE ~Dag
    <3>1. ix = <<>> /\ DOMAIN <<>> = {}
      BY <2>1, <2>3 DEF Rebuilt
    <3> QED BY <2>3, <3>1 DEF Indexed
  <2>4. CASE Dag
    <3>1. ix \in [keys -> 2..Len(ms)] /\ \A k \in keys : Key[ms[ix[k]].pos] = k
      BY <2>1, <2>4 DEF Rebuilt
    <3>2. \A i \in DOMAIN ms \ {1} : Key[ms[i].pos] \in keys
      BY <2>2
    <3> HIDE DEF keys, ix
    <3> QED BY <2>2, <3>1, <3>2 DEF Indexed, Covered
  <2> QED BY <2>3, <2>4
<1>18. (Dag /\ collisions = 0) => Distinct(ms)
  <2> SUFFICES ASSUME Distinct(nodes), NEW k \in DOMAIN order, NEW l \in DOMAIN order, ms[k].pos = ms[l].pos
               PROVE  k = l
    BY Zenon, <1>3, <1>12 DEF Structure, Distinct
  <2>1. nodes[order[k]].pos = nodes[order[l]].pos /\ order[k] \in DOMAIN nodes /\ order[l] \in DOMAIN nodes
    BY <1>7, <1>8, <1>11
  <2>2. order[k] = order[l]
    BY <2>1 DEF Distinct
  <2> QED BY <1>8, <2>2
<1>19. Structure(ms, ix, Dag, collisions)
  BY <1>15, <1>16, <1>17, <1>18 DEF Structure
<1>20. RoundOK(ms, round)
  <2>1. DOMAIN round.descents = {} /\ IsList(round.descents)
    BY <1>6, EmptySeq, OwnRange DEF IsList
  <2>2. \A i \in DOMAIN ms : ~ms[i].pending /\ (ms[i].terminal \/ ms[i].expanded)
    BY Zenon, <1>11, <1>12
  <2> QED BY <1>6, <1>13, <2>1, <2>2 DEF RoundOK, IsList
<1>21. PlanOK(ms, plan')
  <2>1. Shaped(ms[1]) /\ (ms[1].terminal \/ ms[1].expanded)
    BY <1>8, <1>11
  <2>2. plan' \in Plans(ms[1])
    BY <1>1, <1>2
  <2> QED BY <1>3, <2>1, <2>2, PlansAre
<1> QED BY <1>1, <1>2, <1>3, <1>13, <1>14, <1>19, <1>20, <1>21 DEF TreeInv, Dag

-----------------------------------------------------------------------------
(* The adapter's actions *)

\* What leaves the tree alone leaves its invariant alone.
LEMMA SameTree ==
  ASSUME TreeInv, UNCHANGED tree
  PROVE  TreeInv'
BY DEF TreeInv, tree, Dag

\* A tree that is driven: what a search of it starts from.
LEMMA Drives ==
  ASSUME NEW tip, Shaped(tip), tip.terminal \/ tip.expanded, NEW cap, NEW inherited, NEW before \in Nat,
         Drive(tip, cap, inherited, before)
  PROVE  /\ DOMAIN drive' = {"before", "cap", "inherited", "elapsed", "ran", "half", "late", "stop"}
         /\ drive'.before = before /\ drive'.elapsed = 0 /\ drive'.ran = FALSE /\ drive'.stop \in {"none", "noActions"}
         /\ Stage(tip) \in {"drive", "harvest"} /\ (Stage(tip) = "harvest" => tip.child = <<>>)
         /\ Stage(tip) = "drive" => ~tip.terminal
<1>1. ASSUME tip.terminal PROVE tip.child = <<>>
  <2>1. EdgesOf(tip) = {}
    BY <1>1 DEF Shaped, EdgesOf
  <2>2. tip.child \in [{} -> Nat]
    BY <2>1 DEF Shaped
  <2> QED BY <2>2
<1>2. Stage(tip) = "drive" => ~tip.terminal
  BY <1>1 DEF Stage
<1> QED BY <1>2 DEF Drive, NoDrive, Stage

\* The session takes up a step.
LEMMA Asks ==
  ASSUME EngineInv, NEW p \in Snapshots, NEW kind \in {"think", "answer"},
         NEW budget \in Budgets, Receive(p, kind, budget)
  PROVE  EngineInv'
<1>1. /\ caller = "session" /\ step.stage = "idle" /\ drive' = NoDrive
      /\ step' = [kind |-> kind, pos |-> p, budget |-> budget, stage |-> "locate", path |-> <<>>]
      /\ UNCHANGED <<tree, caller, root>>
  BY DEF Receive, Asked
<1>2. TreeInv'
  BY <1>1, SameTree DEF EngineInv
<1>3. /\ DOMAIN step' = {"kind", "pos", "stage", "budget", "path"} /\ step'.stage = "locate"
      /\ step'.pos \in Position /\ step'.budget \in Budgets /\ step'.kind # "play"
  BY <1>1, DomainAssumption
<1>4. StepOK'
  <2>1. Resting /\ round' = round
    BY <1>1 DEF EngineInv, StepOK, tree
  <2> QED BY <1>3, <2>1 DEF StepOK, Resting
<1>5. DriveOK' /\ drive'.stop = "none"
  BY <1>1 DEF DriveOK, NoDrive
<1>6. Searched'
  <2>1. nodes' = nodes
    BY <1>1 DEF tree
  <2> QED BY <1>1, <1>3, <2>1 DEF EngineInv, Searched
<1> QED BY <1>2, <1>4, <1>5, <1>6 DEF EngineInv, EarlyStopIsLate

\* A fresh tree for the position asked about, to be driven.
LEMMA Afresh ==
  ASSUME EngineInv, config' = config, NEW p \in Position, NEW cap,
         NewSearcher(p), Drive(nodes'[1], cap, 0, 0), root' # NoPosition => caller' = "session",
         DOMAIN step' = {"kind", "pos", "stage", "budget", "path"}, step'.pos = p, step'.kind # "play",
         step'.budget \in Budgets, step'.stage = Stage(nodes'[1])
  PROVE  EngineInv'
<1>1. /\ TreeInv' /\ nodes' # <<>> /\ nodes'[1].pos = p /\ sims' = 0 /\ round' = AtRest
      /\ nodes'[1].terminal \/ nodes'[1].expanded
  BY Begins DEF EngineInv, TreeInv
<1>2. Shaped(nodes'[1])
  BY RootIs, Begins DEF EngineInv, TreeInv
<1>3. /\ DOMAIN drive' = {"before", "cap", "inherited", "elapsed", "ran", "half", "late", "stop"}
      /\ drive'.before = 0 /\ drive'.elapsed = 0 /\ drive'.ran = FALSE /\ drive'.stop \in {"none", "noActions"}
      /\ step'.stage \in {"drive", "harvest"} /\ (step'.stage = "harvest" => nodes'[1].child = <<>>)
      /\ step'.stage = "drive" => ~nodes'[1].terminal
  BY Zenon, <1>1, <1>2, Drives
<1>4. StepOK'
  BY <1>1, <1>3 DEF StepOK, Resting, AtRest
<1>7. DriveOK'
  <2>1. drive'.before \in Nat /\ drive'.elapsed \in Nat
    BY <1>3
  <2>2. drive'.ran \in BOOLEAN
    BY Zenon, <1>3
  <2> QED BY <1>3, <2>1, <2>2 DEF DriveOK
<1>5. EarlyStopIsLate'
  BY <1>3 DEF EarlyStopIsLate
<1>6. Searched'
  BY <1>1, <1>3 DEF Searched
<1> QED BY <1>1, <1>4, <1>5, <1>6, <1>7 DEF EngineInv

\* No tree: what asks for one gets another engine's answer.
LEMMA Treeless ==
  ASSUME EngineInv, config' = config, Drop, root' = NoPosition,
         DOMAIN step' = {"kind", "pos", "stage", "budget", "path"},
         step'.stage = "harvest" /\ step'.pos \in Position /\ step'.budget \in Budgets,
         drive' = NoDrive \/ (drive' = drive /\ step'.budget = step.budget)
  PROVE  EngineInv'
<1>1. TreeInv' /\ nodes' = <<>> /\ round' = AtRest
  BY Drops DEF EngineInv, TreeInv
<1>2. StepOK' /\ Searched'
  BY <1>1 DEF StepOK, Searched, Resting, AtRest
<1>3. DriveOK'
  <2>1. CASE drive' = NoDrive
    BY <2>1 DEF DriveOK, NoDrive
  <2>2. CASE drive' = drive
    BY <2>2 DEF DriveOK, EngineInv
  <2> QED BY <2>1, <2>2
<1>4. EarlyStopIsLate'
  BY DEF EarlyStopIsLate, NoDrive, EngineInv
<1> QED BY <1>1, <1>2, <1>3, <1>4 DEF EngineInv

\* A cold choose.
LEMMA Chooses ==
  ASSUME EngineInv, NEW p \in Snapshots, NEW budget \in Budgets, Choose(p, budget)
  PROVE  EngineInv'
<1>1. caller = "choose" /\ UNCHANGED <<config, caller, root>> /\ p \in Position /\ root = NoPosition
  BY DomainAssumption DEF Choose, EngineInv, Searched
<1>2. CASE InDomain(p)
  <2>1. /\ NewSearcher(p) /\ Drive(nodes'[1], Uncapped, 0, 0)
        /\ step' = [kind |-> "choose", pos |-> p, budget |-> budget, stage |-> Stage(nodes'[1]), path |-> <<>>]
    BY <1>2 DEF Choose
  <2>2. /\ DOMAIN step' = {"kind", "pos", "stage", "budget", "path"} /\ step'.pos = p /\ step'.kind # "play"
        /\ step'.budget \in Budgets /\ step'.stage = Stage(nodes'[1])
    BY <2>1
  <2> QED BY <1>1, <2>1, <2>2, Afresh
<1>3. CASE ~InDomain(p)
  <2>1. /\ Drop /\ drive' = NoDrive
        /\ step' = [kind |-> "choose", pos |-> p, budget |-> budget, stage |-> "harvest", path |-> <<>>]
    BY <1>3 DEF Choose, Asked
  <2>2. /\ DOMAIN step' = {"kind", "pos", "stage", "budget", "path"} /\ step'.pos = p
        /\ step'.budget \in Budgets /\ step'.stage = "harvest"
    BY <2>1
  <2> QED BY <1>1, <2>1, <2>2, Treeless
<1> QED BY <1>2, <1>3

\* A search that is cancelled before it starts.
LEMMA Refuses ==
  ASSUME EngineInv, NEW p \in Snapshots, ChooseCancelled(p)
  PROVE  EngineInv'
<1>1. UNCHANGED tree /\ UNCHANGED <<caller, root, step, drive>> /\ UNCHANGED <<nodes, sims, round>>
  BY DEF ChooseCancelled, tree
<1>2. TreeInv'
  BY <1>1, SameTree DEF EngineInv
<1>3. StepOK' /\ DriveOK' /\ Searched' /\ EarlyStopIsLate'
  BY <1>1 DEF EngineInv, StepOK, DriveOK, Searched, EarlyStopIsLate, Resting
<1> QED BY <1>2, <1>3 DEF EngineInv

\* One ply of self-play.
LEMMA Plays ==
  ASSUME EngineInv, NEW p \in Snapshots, NEW budget \in Budgets, Play(p, budget)
  PROVE  EngineInv'
<1>1. /\ caller = "play" /\ UNCHANGED <<config, caller, root>> /\ p \in Position /\ root = NoPosition
      /\ NewSearcher(p) /\ drive' = NoDrive
      /\ step' = [kind |-> "play", pos |-> p, budget |-> budget, path |-> <<>>,
                  stage |-> IF nodes'[1].terminal THEN "harvest" ELSE "sims"]
  BY DomainAssumption DEF Play, EngineInv, Searched
<1>2. /\ DOMAIN step' = {"kind", "pos", "stage", "budget", "path"} /\ step'.pos = p /\ step'.kind = "play"
      /\ step'.budget \in Budgets /\ step'.stage = IF nodes'[1].terminal THEN "harvest" ELSE "sims"
  BY <1>1
<1>3. /\ TreeInv' /\ nodes' # <<>> /\ nodes'[1] = RootNode(p) /\ nodes'[1].pos = p /\ sims' = 0 /\ round' = AtRest
  BY <1>1, Begins DEF EngineInv, TreeInv
<1>4. nodes'[1].terminal => nodes'[1].child = <<>>
  <2> DEFINE x == nodes'[1]
  <2>1. Shaped(x)
    BY <1>1, <1>3, RootIs
  <2> HIDE DEF x
  <2>2. ASSUME x.terminal PROVE x.child = <<>>
    <3>1. EdgesOf(x) = {}
      BY <2>1, <2>2 DEF Shaped, EdgesOf
    <3>2. x.child \in [{} -> Nat]
      BY <2>1, <3>1 DEF Shaped
    <3> QED BY <3>2
  <2> QED BY <2>2 DEF x
<1>5. StepOK'
  BY <1>1, <1>2, <1>3 DEF StepOK, Resting, AtRest
<1>6. drive'.before = 0 /\ drive'.ran = FALSE /\ drive'.stop = "none" /\ DriveOK'
  BY <1>1 DEF NoDrive, DriveOK
<1>7. Searched'
  BY <1>1, <1>2, <1>3, <1>4, <1>6 DEF Searched
<1> QED BY <1>3, <1>5, <1>6, <1>7 DEF EngineInv, EarlyStopIsLate

\* At rest a tree has a root that is terminal or expanded.
LEMMA AtTheRoot ==
  ASSUME EngineInv, nodes # <<>>
  PROVE  /\ Shaped(nodes[1]) /\ (nodes[1].terminal \/ nodes[1].expanded)
         /\ 1 \in DOMAIN nodes /\ (nodes[1].terminal => nodes[1].child = <<>>)
<1>1. Arena(nodes) /\ RoundOK(nodes, round)
  BY DEF EngineInv, TreeInv
<1>2. 1 \in DOMAIN nodes
  <2>1. Len(nodes) \in Nat /\ Len(nodes) # 0 /\ DOMAIN nodes = 1..Len(nodes)
    BY <1>1, EmptySeq, LenProperties DEF Arena
  <2> QED BY <2>1
<1> DEFINE x == nodes[1]
<1>3. Shaped(x) /\ (x.terminal \/ x.expanded)
  BY <1>1, <1>2 DEF Arena, RoundOK
<1> HIDE DEF x
<1>4. ASSUME x.terminal PROVE x.child = <<>>
  <2>1. EdgesOf(x) = {}
    BY <1>3, <1>4 DEF Shaped, EdgesOf
  <2>2. x.child \in [{} -> Nat]
    BY <1>3, <2>1 DEF Shaped
  <2> QED BY <2>2
<1> QED BY <1>2, <1>3, <1>4 DEF x

\* The tree as it stands is driven.
LEMMA Reuses ==
  ASSUME EngineInv, step.stage \in {"locate", "rebase"}, nodes # <<>>, nodes[1].pos = step.pos, Reuse,
         UNCHANGED <<config, caller>>
  PROVE  EngineInv'
<1> DEFINE tip == nodes[1]
           cap == Larger(sims - tip.visits, 0) + Cap
           inherited == tip.visits
<1>1. /\ Drive(tip, cap, inherited, sims) /\ step' = [step EXCEPT !.stage = Stage(tip)]
      /\ UNCHANGED <<nodes, index, collisions, sims, plan, round, root>>
  BY DEF Reuse
<1>2. Shaped(tip) /\ (tip.terminal \/ tip.expanded) /\ sims \in Nat
  BY AtTheRoot DEF EngineInv, TreeInv
<1> HIDE DEF cap, inherited
<1>3. /\ DOMAIN drive' = {"before", "cap", "inherited", "elapsed", "ran", "half", "late", "stop"}
      /\ drive'.before = sims /\ drive'.elapsed = 0 /\ drive'.ran = FALSE /\ drive'.stop \in {"none", "noActions"}
      /\ Stage(tip) \in {"drive", "harvest"} /\ (Stage(tip) = "harvest" => tip.child = <<>>)
      /\ Stage(tip) = "drive" => ~tip.terminal
  <2> HIDE DEF tip
  <2> QED BY Zenon, <1>1, <1>2, Drives
<1>4. /\ DOMAIN step' = {"kind", "pos", "stage", "budget", "path"} /\ step'.stage = Stage(tip)
      /\ step'.pos = step.pos /\ step'.budget = step.budget /\ step'.kind = step.kind
      /\ step.pos \in Position /\ step.budget \in Budgets /\ step.kind # "play" /\ Resting
  BY <1>1 DEF EngineInv, StepOK
<1>5. TreeInv'
  BY <1>1, SameTree DEF EngineInv, tree
<1>6. StepOK'
  BY <1>1, <1>3, <1>4 DEF StepOK, Resting
<1>7. DriveOK'
  <2>1. drive'.before \in Nat /\ drive'.elapsed \in Nat
    BY <1>2, <1>3
  <2>2. drive'.ran \in BOOLEAN
    BY Zenon, <1>3
  <2> QED BY <1>3, <2>1, <2>2 DEF DriveOK
<1>8. Searched'
  <2>1. sims' = drive'.before /\ ~(sims' > drive'.before) /\ sims' >= drive'.before
    BY <1>1, <1>2, <1>3
  <2>2. root' = root /\ nodes' = nodes /\ caller' = caller /\ (root # NoPosition => caller = "session")
    BY <1>1 DEF EngineInv, Searched
  <2> QED BY <1>3, <1>4, <2>1, <2>2 DEF Searched
<1>9. EarlyStopIsLate'
  BY <1>3 DEF EarlyStopIsLate
<1> QED BY <1>5, <1>6, <1>7, <1>8, <1>9 DEF EngineInv

\* A fresh tree is driven.
LEMMA Rebuilds ==
  ASSUME EngineInv, step.stage \in {"locate", "rebase"}, Rebuild, UNCHANGED <<config, caller>>
  PROVE  EngineInv'
<1>1. /\ NewSearcher(step.pos) /\ Drive(nodes'[1], Cap, 0, 0)
      /\ step' = [step EXCEPT !.stage = Stage(nodes'[1]), !.path = <<>>]
  BY DEF Rebuild
<1>2. /\ DOMAIN step' = {"kind", "pos", "stage", "budget", "path"} /\ step'.stage = Stage(nodes'[1])
      /\ step'.pos = step.pos /\ step'.budget = step.budget /\ step'.kind = step.kind
      /\ step.pos \in Position /\ step.budget \in Budgets /\ step.kind # "play"
  BY <1>1 DEF EngineInv, StepOK
<1>3. caller' = "session"
  BY DEF EngineInv, Searched
<1> DEFINE p == step.pos
<1>4. p \in Position /\ NewSearcher(p) /\ step'.pos = p
  BY <1>1, <1>2
<1> HIDE DEF p
<1> QED BY <1>1, <1>2, <1>3, <1>4, Afresh

\* What becomes of the tree a step finds.
LEMMA Locates ==
  ASSUME EngineInv, Locate
  PROVE  EngineInv'
<1>1. step.stage = "locate" /\ UNCHANGED <<config, caller, reply, steps>>
  BY DEF Locate
<1> DEFINE searchable == CanAct(step.pos) /\ InDomain(step.pos)
           rooted == root # NoPosition /\ TreeIsRootedAt(root)
           path == PathTo(root, step.pos)
<1>2. /\ DOMAIN step = {"kind", "pos", "stage", "budget", "path"} /\ Resting
      /\ step.pos \in Position /\ step.budget \in Budgets /\ step.kind # "play" /\ caller = "session"
      /\ root # NoPosition => nodes # <<>>
  BY <1>1 DEF EngineInv, StepOK, Searched
<1>3. CASE ~searchable /\ Drop /\ root' = NoPosition /\ step' = [step EXCEPT !.stage = "harvest"] /\ UNCHANGED drive
  <2>1. /\ DOMAIN step' = {"kind", "pos", "stage", "budget", "path"} /\ step'.stage = "harvest"
        /\ step'.pos = step.pos /\ step'.budget = step.budget
    BY <1>2, <1>3
  <2> QED BY <1>1, <1>2, <1>3, <2>1, Treeless
<1>4. CASE searchable /\ rooted /\ root = step.pos /\ Reuse
  BY <1>1, <1>2, <1>4, Reuses DEF TreeIsRootedAt
<1>5. CASE /\ searchable /\ rooted /\ root # step.pos /\ path # <<>>
           /\ step' = [step EXCEPT !.stage = "rebase", !.path = path]
           /\ UNCHANGED <<nodes, index, collisions, sims, plan, round, root, drive>>
  <2> HIDE DEF path
  <2>1. /\ DOMAIN step' = {"kind", "pos", "stage", "budget", "path"} /\ step'.stage = "rebase"
        /\ step'.pos = step.pos /\ step'.budget = step.budget /\ step'.kind = step.kind
    BY <1>2, <1>5
  <2>2. TreeInv'
    BY <1>1, <1>5, SameTree DEF EngineInv, tree
  <2>3. StepOK' /\ DriveOK' /\ EarlyStopIsLate'
    BY <1>2, <1>5, <2>1 DEF EngineInv, StepOK, DriveOK, EarlyStopIsLate, Resting
  <2>4. Searched'
    BY <1>1, <1>2, <1>5, <2>1 DEF Searched
  <2> QED BY <2>2, <2>3, <2>4 DEF EngineInv
<1>6. CASE Rebuild
  BY <1>1, <1>6, Rebuilds
<1> QED BY <1>3, <1>4, <1>5, <1>6 DEF Locate

\* One rebase along the path, or its end.
LEMMA Follows ==
  ASSUME EngineInv, FollowPath
  PROVE  EngineInv'
<1>1. step.stage = "rebase" /\ UNCHANGED <<config, caller, reply, steps>>
  BY DEF FollowPath
<1>2. /\ DOMAIN step = {"kind", "pos", "stage", "budget", "path"} /\ Resting
      /\ step.pos \in Position /\ step.budget \in Budgets /\ step.kind # "play" /\ caller = "session"
      /\ nodes # <<>>
  BY <1>1 DEF EngineInv, StepOK, Searched
<1>3. CASE TreeIsRootedAt(step.pos) /\ Reuse
  BY <1>1, <1>2, <1>3, Reuses DEF TreeIsRootedAt
<1>4. CASE Rebuild
  BY <1>1, <1>4, Rebuilds
<1>5. CASE Rebase(Head(step.path)) /\ step' = [step EXCEPT !.path = Tail(@)] /\ UNCHANGED drive
  <2> DEFINE a == Head(step.path)
             path == Tail(step.path)
  <2>1. TreeInv' /\ nodes' # <<>> /\ UNCHANGED <<sims, round>>
    <3>1. Rebase(a)
      BY <1>5
    <3> HIDE DEF a
    <3> QED BY <1>2, <3>1, Rebases DEF EngineInv
  <2>2. step' = [step EXCEPT !.path = path]
    BY <1>5
  <2> HIDE DEF path
  <2>3. /\ DOMAIN step' = {"kind", "pos", "stage", "budget", "path"} /\ step'.stage = "rebase"
        /\ step'.pos = step.pos /\ step'.budget = step.budget /\ step'.kind = step.kind
    BY <1>1, <1>2, <2>2
  <2>4. StepOK' /\ DriveOK' /\ EarlyStopIsLate'
    BY <1>2, <1>5, <2>1, <2>3 DEF EngineInv, StepOK, DriveOK, EarlyStopIsLate, Resting
  <2>5. Searched'
    BY <1>1, <1>2, <2>1, <2>3 DEF Searched
  <2> QED BY <2>1, <2>4, <2>5 DEF EngineInv
<1> QED BY <1>3, <1>4, <1>5 DEF FollowPath

\* The search goes on: the step and the tree's root are as they were, the round is not at rest.
LEMMA GoesOn ==
  ASSUME EngineInv, TreeInv', nodes' # <<>>, nodes'[1].pos = nodes[1].pos, nodes'[1].n = nodes[1].n, sims' = sims,
         round'.stage # "rest", step.stage \in {"drive", "sims"}, UNCHANGED <<caller, root, step>>,
         DriveOK', drive'.before = drive.before, drive'.elapsed = drive.elapsed, drive'.stop = drive.stop
  PROVE  EngineInv'
<1>1. nodes # <<>> /\ step' = step
  BY DEF EngineInv, Searched
<1>2. StepOK'
  BY <1>1 DEF EngineInv, StepOK
<1>3. Visited(nodes) => Visited(nodes')
  BY DEF Visited
<1>4. Searched'
  <2>1. nodes[1].pos = step.pos /\ sims >= drive.before /\ (sims > drive.before => Visited(nodes))
    BY <1>1 DEF EngineInv, Searched
  <2>2. ~Resting' /\ ~nodes'[1].terminal
    BY DEF Resting, TreeInv, RoundOK
  <2>3. root # NoPosition => caller = "session"
    BY DEF EngineInv, Searched
  <2> QED BY <1>1, <1>3, <2>1, <2>2, <2>3 DEF Searched
<1>5. EarlyStopIsLate'
  BY <1>1 DEF EngineInv, EarlyStopIsLate
<1> QED BY <1>2, <1>4, <1>5 DEF EngineInv

\* A round of a slice.
LEMMA RoundIsRun ==
  ASSUME EngineInv, SliceRound
  PROVE  EngineInv'
<1>1. /\ step.stage = "drive" /\ drive' = [drive EXCEPT !.ran = TRUE] /\ UNCHANGED <<caller, root, step>>
      /\ nodes # <<>> /\ ~nodes[1].terminal
  BY DEF SliceRound, Driving, EngineInv, Searched
<1>2. SimulateRound(config.batch)
  BY <1>1 DEF SliceRound
<1>3. TreeInv' /\ UNCHANGED <<nodes, sims>> /\ round'.stage # "rest"
  BY <1>1, <1>2, RoundBegins DEF EngineInv
<1>4. DriveOK' /\ drive'.before = drive.before /\ drive'.elapsed = drive.elapsed /\ drive'.stop = drive.stop
  BY <1>1 DEF EngineInv, DriveOK
<1> QED BY <1>1, <1>2, <1>3, <1>4, GoesOn

\* A round of self-play, or the end of its simulations.
LEMMA SimsAreRun ==
  ASSUME EngineInv, RunSims
  PROVE  EngineInv'
<1> DEFINE target == Smaller(config.batch, config.sims - Added)
<1>1. step.stage = "sims" /\ Resting /\ UNCHANGED <<caller, root, drive>>
  BY DEF RunSims
<1>2. nodes # <<>> /\ nodes[1].pos = step.pos /\ sims >= drive.before /\ (sims > drive.before => Visited(nodes))
      /\ (root # NoPosition => caller = "session")
  BY <1>1 DEF EngineInv, Searched
<1>3. CASE SimulateRound(target) /\ UNCHANGED step
  <2> HIDE DEF target
  <2>1. TreeInv' /\ UNCHANGED <<nodes, sims>> /\ round'.stage # "rest"
    BY <1>2, <1>3, RoundBegins DEF EngineInv
  <2>2. DriveOK'
    BY <1>1 DEF EngineInv, DriveOK
  <2> QED BY <1>1, <1>2, <1>3, <2>1, <2>2, GoesOn
<1>4. CASE ~(Added < config.sims) /\ step' = [step EXCEPT !.stage = "harvest"] /\ UNCHANGED tree
  <2>1. TreeInv'
    BY <1>4, SameTree DEF EngineInv
  <2>2. /\ DOMAIN step' = {"kind", "pos", "stage", "budget", "path"} /\ step'.stage = "harvest"
        /\ step'.pos = step.pos /\ step'.budget = step.budget
        /\ step.pos \in Position /\ step.budget \in Budgets
    BY <1>1, <1>4 DEF EngineInv, StepOK
  <2>3. UNCHANGED <<nodes, sims, round>>
    BY <1>4 DEF tree
  <2>4. StepOK' /\ DriveOK' /\ EarlyStopIsLate'
    BY <1>1, <2>2, <2>3 DEF EngineInv, StepOK, DriveOK, EarlyStopIsLate, Resting
  <2>5. sims > drive.before
    <3>1. config.sims \in Nat \ {0} /\ sims \in Nat /\ drive.before \in Nat
      BY ConfigAssumption DEF EngineInv, TreeInv, DriveOK
    <3> QED BY <1>4, <3>1 DEF Added
  <2>6. Searched'
    BY <1>1, <1>2, <2>2, <2>3, <2>5 DEF Searched
  <2> QED BY <2>1, <2>4, <2>6 DEF EngineInv
<1> QED BY <1>3, <1>4 DEF RunSims

\* The early stop is a verdict on a lead that this search ran itself.
LEMMA StopsLate ==
  ASSUME NEW k \in Nat, NEW f \in [1..k -> Nat], NEW ran \in Nat, NEW late, NEW now \in Nat, NEW budget \in Budgets,
         Verdict(RootProgress(f, ran, late), now, budget) = "uncatchable"
  PROVE  2 * now > budget.ceiling
<1> DEFINE progress == RootProgress(f, ran, late)
           lead == progress.leader - progress.runnerUp
<1>1. budget.ceiling \in Nat
  BY BudgetAssumption
<1>2. Top(f) \in Nat /\ RunnerUp(f) \in Nat
  BY TopTwo
<1>3. progress.leader = Top(f) /\ progress.runnerUp = RunnerUp(f) /\ progress.sims = ran
  BY DEF RootProgress
<1>4. lead \in Int
  BY <1>2, <1>3
<1> HIDE DEF progress
<1>5. Verdict(progress, now, budget) = "uncatchable"
  BY DEF progress
<1>6. Uncatchable(lead, ran, now, budget.ceiling)
  <2> HIDE DEF lead
  <2>1. Verdict(progress, now, budget) =
          CASE now >= budget.ceiling -> "ceiling"
            [] now < budget.ceiling /\ budget.early /\ Uncatchable(lead, ran, now, budget.ceiling) -> "uncatchable"
            [] OTHER -> IF now < budget.target \/ (budget.extension /\ Unstable(progress)) THEN "continue" ELSE "target"
    BY <1>3 DEF Verdict, lead
  <2> SUFFICES ASSUME ~Uncatchable(lead, ran, now, budget.ceiling) PROVE FALSE
    OBVIOUS
  <2>2. CASE now >= budget.ceiling
    <3>1. ~(now < budget.ceiling)
      BY <1>1, <2>2
    <3> QED BY <1>5, <2>1, <2>2, <3>1
  <2>3. CASE ~(now >= budget.ceiling)
    BY <1>5, <2>1, <2>3
  <2> QED BY <2>2, <2>3
<1> HIDE DEF lead
<1> QED BY <1>1, <1>4, <1>6, LateLead

\* What a slice that ends decides.
LEMMA SliceIsOver ==
  ASSUME EngineInv, NEW over \in 0..Overshoot, NEW cancelled \in BOOLEAN, NEW interrupted \in BOOLEAN,
         SliceEnds(over, cancelled, interrupted)
  PROVE  EngineInv'
<1> DEFINE budget == step.budget
           now == drive.elapsed + Smaller(Slice, Larger(budget.ceiling - drive.elapsed, 0)) + over
           leader == LeaderIndex(nodes[1].n)
           sampled == 2 * now >= budget.target
           late == drive.late \/ (sampled /\ drive.half \notin {0, leader})
           ruling == Verdict(RootProgress(nodes[1].n, Added, late), now, budget)
           stop == CASE cancelled -> "cancelled"
                     [] ~cancelled /\ interrupted -> "interrupted"
                     [] ~cancelled /\ ~interrupted /\ drive.cap # Uncapped /\ sims >= drive.cap -> "simCap"
                     [] OTHER -> ruling
           half == IF sampled /\ drive.half = 0 THEN leader ELSE drive.half
<1>1. /\ step.stage = "drive" /\ Resting /\ drive.ran /\ UNCHANGED <<tree, caller, root>>
      /\ drive' = [drive EXCEPT !.elapsed = now, !.ran = FALSE, !.late = late, !.half = half,
                     !.stop = IF stop = "continue" THEN "none" ELSE stop]
      /\ step' = [step EXCEPT !.stage = IF stop = "continue" THEN "drive" ELSE "harvest"]
  BY DEF SliceEnds, Driving
<1>2. stop = "uncatchable" => ruling = "uncatchable"
  <2> HIDE DEF ruling
  <2> QED BY Zenon
<1> HIDE DEF stop, half
<1>3. /\ nodes # <<>> /\ nodes[1].pos = step.pos /\ sims > drive.before /\ Visited(nodes)
      /\ (root # NoPosition => caller = "session") /\ ~nodes[1].terminal
  BY <1>1 DEF EngineInv, Searched
<1>4. /\ DOMAIN drive = {"before", "cap", "inherited", "elapsed", "ran", "half", "late", "stop"}
      /\ drive.before \in Nat /\ drive.elapsed \in Nat /\ sims \in Nat
      /\ DOMAIN step = {"kind", "pos", "stage", "budget", "path"}
      /\ step.pos \in Position /\ step.budget \in Budgets /\ step.kind # "play"
  BY <1>1 DEF EngineInv, TreeInv, StepOK, DriveOK
<1>5. now \in Nat /\ budget.ceiling \in Nat
  <2>1. budget.ceiling \in Nat /\ Slice \in Nat /\ Overshoot \in Nat
    BY <1>4, BudgetAssumption
  <2>2. over \in Nat
    BY <2>1
  <2>3. Smaller(Slice, Larger(budget.ceiling - drive.elapsed, 0)) \in Nat
    BY <1>4, <2>1 DEF Smaller, Larger
  <2> QED BY <1>4, <2>1, <2>2, <2>3
<1>6. ruling = "uncatchable" => 2 * now > budget.ceiling
  <2> DEFINE f == nodes[1].n
             k == Len(Moves[nodes[1].pos])
  <2>1. Shaped(nodes[1]) /\ (nodes[1].terminal \/ nodes[1].expanded)
    BY <1>3, AtTheRoot
  <2>2. Added \in Nat
    BY <1>3, <1>4 DEF Added
  <2>3. \E m \in Nat : f \in [1..m -> Nat]
    <3>1. CASE EdgesOf(nodes[1]) = {}
      <4>1. f \in [1..0 -> Nat]
        BY <2>1, <3>1 DEF Shaped
      <4> QED BY <4>1
    <3>2. CASE EdgesOf(nodes[1]) = DOMAIN Moves[nodes[1].pos]
      <4>1. k \in Nat /\ DOMAIN Moves[nodes[1].pos] = 1..k
        BY <2>1, GraphAssumption, LenProperties DEF Shaped
      <4>2. f \in [1..k -> Nat]
        BY <2>1, <3>2, <4>1 DEF Shaped
      <4> QED BY Zenon, <4>1, <4>2
    <3> QED BY Zenon, <3>1, <3>2 DEF EdgesOf
  <2> HIDE DEF now, late
  <2>4. PICK m \in Nat : f \in [1..m -> Nat]
    BY Zenon, <2>3
  <2> HIDE DEF f
  <2>5. ruling = Verdict(RootProgress(f, Added, late), now, budget)
    BY DEF f
  <2> HIDE DEF ruling
  <2> QED BY Zenon, <1>4, <1>5, <2>2, <2>4, <2>5, StopsLate
<1> HIDE DEF now, late, ruling
<1>7. TreeInv'
  BY <1>1, SameTree DEF EngineInv
<1>8. UNCHANGED <<nodes, sims, round>>
  BY <1>1 DEF tree
<1>9. /\ DOMAIN step' = {"kind", "pos", "stage", "budget", "path"}
      /\ step'.stage \in {"drive", "harvest"}
      /\ step'.pos = step.pos /\ step'.budget = step.budget /\ step'.kind = step.kind
  BY <1>1, <1>4
<1>10. /\ DOMAIN drive' = DOMAIN drive /\ drive'.before = drive.before /\ drive'.elapsed = now /\ drive'.ran = FALSE
       /\ drive'.stop = IF stop = "continue" THEN "none" ELSE stop
  BY <1>1, <1>4
<1>11. StepOK'
  BY <1>1, <1>4, <1>8, <1>9 DEF StepOK, Resting
<1>12. DriveOK'
  <2>1. drive'.ran \in BOOLEAN
    BY Zenon, <1>10
  <2> QED BY <1>4, <1>5, <1>10, <2>1 DEF DriveOK
<1>13. Searched'
  <2>1. sims >= drive.before
    BY <1>3, <1>4
  <2> QED BY <1>1, <1>3, <1>8, <1>9, <1>10, <2>1 DEF Searched
<1>14. EarlyStopIsLate'
  <2>1. drive'.stop = "uncatchable" => 2 * now > budget.ceiling
    BY <1>2, <1>6, <1>10
  <2> QED BY <1>9, <1>10, <2>1 DEF EarlyStopIsLate
<1> QED BY <1>7, <1>11, <1>12, <1>13, <1>14 DEF EngineInv

\* The answer is given, and the tree kept or dropped.
LEMMA Harvests ==
  ASSUME EngineInv, Harvest
  PROVE  EngineInv'
<1>1. /\ step.stage = "harvest" /\ step' = NoStep /\ UNCHANGED <<config, caller, root, drive>>
      /\ IF caller = "session" THEN UNCHANGED <<nodes, index, collisions, sims, plan, round>> ELSE Drop
  BY DEF Harvest
<1>2. TreeInv' /\ Resting'
  <2>1. CASE caller = "session"
    <3>1. UNCHANGED tree
      BY <1>1, <2>1 DEF tree
    <3>2. TreeInv'
      BY <3>1, SameTree DEF EngineInv
    <3> QED BY <1>1, <3>1, <3>2 DEF EngineInv, StepOK, Resting, tree
  <2>2. CASE caller # "session"
    BY <1>1, <2>2, Drops DEF EngineInv, TreeInv, Resting, AtRest
  <2> QED BY <2>1, <2>2
<1>3. DOMAIN step' = {"kind", "pos", "stage", "budget", "path"} /\ step'.stage = "idle" /\ step'.budget.ceiling = 0
  BY <1>1 DEF NoStep
<1>4. StepOK'
  BY <1>2, <1>3 DEF StepOK
<1>5. DriveOK'
  BY <1>1 DEF EngineInv, DriveOK
<1>6. Searched'
  BY <1>1, <1>3 DEF EngineInv, Searched
<1>7. EarlyStopIsLate'
  <2>1. step.budget.ceiling \in Nat /\ drive.elapsed \in Nat
    BY <1>1, BudgetAssumption DEF EngineInv, StepOK, DriveOK
  <2>2. drive.stop = "uncatchable" => 2 * drive.elapsed > step.budget.ceiling
    BY DEF EngineInv, EarlyStopIsLate
  <2>3. drive.stop = "uncatchable" => 2 * drive.elapsed > 0
    BY <2>1, <2>2
  <2> QED BY <1>1, <1>3, <2>3 DEF EarlyStopIsLate
<1> QED BY <1>2, <1>4, <1>5, <1>6, <1>7 DEF EngineInv

\* A step of the round under way.
LEMMA Rounding ==
  ASSUME EngineInv, Round, UNCHANGED <<caller, root, step, drive, reply, steps>>
  PROVE  EngineInv'
<1>1. ~Resting
  BY Zenon DEF Round, Step, ArriveTerminal, ArrivePending, ArriveNew, EvaluateLeaves, Backup, Resting
<1>2. nodes # <<>> /\ TreeInv
  BY <1>1, InRound DEF EngineInv
<1>3. step.stage \in {"drive", "sims"}
  BY <1>1 DEF EngineInv, StepOK
<1>4. DriveOK'
  BY DEF EngineInv, DriveOK
<1>5. CASE Step \/ ArriveTerminal \/ ArrivePending \/ ArriveNew \/ EvaluateLeaves
  <2>1. TreeInv' /\ SameRoot
    BY <1>2, <1>5, Walks, ArrivesTerminal, ArrivesPending, ArrivesNew, Evaluates
  <2> QED BY <1>2, <1>3, <1>4, <2>1, GoesOn DEF SameRoot
<1>6. CASE Backup
  <2>1. /\ TreeInv' /\ Visited(nodes') /\ sims' > sims /\ nodes'[1].pos = nodes[1].pos
        /\ nodes' # <<>> /\ ~nodes'[1].terminal
    <3>1. TreeInv' /\ Visited(nodes') /\ sims' > sims /\ nodes'[1].pos = nodes[1].pos
      BY <1>2, <1>6, Credits
    <3>2. nodes' # <<>> /\ ~nodes'[1].terminal
      <4>1. 1 \in DOMAIN nodes
        BY <1>1, <1>2, InRound
      <4>2. nodes' = [i \in DOMAIN nodes |-> Credited(i)]
        BY <1>6 DEF Backup
      <4>3. 1 \in DOMAIN nodes' /\ nodes'[1] = Credited(1)
        BY <4>1, <4>2
      <4>4. Shaped(nodes[1]) /\ ~nodes[1].terminal
        BY <1>1, <1>2, <4>1 DEF TreeInv, Arena, RoundOK, Resting
      <4>5. Credited(1).terminal = nodes[1].terminal
        BY <4>4 DEF Credited, Shaped
      <4> QED BY <4>3, <4>4, <4>5
    <3> QED BY <3>1, <3>2
  <2>2. /\ nodes[1].pos = step.pos /\ sims >= drive.before /\ (root # NoPosition => caller = "session")
        /\ sims \in Nat /\ sims' \in Nat /\ drive.before \in Nat
    BY <1>2, <1>3, <2>1 DEF EngineInv, Searched, TreeInv, DriveOK
  <2>3. sims' > drive.before /\ sims' >= drive.before
    BY <2>1, <2>2
  <2>4. Searched'
    BY <1>3, <2>1, <2>2, <2>3 DEF Searched
  <2>5. StepOK'
    BY <1>3 DEF EngineInv, StepOK
  <2>6. EarlyStopIsLate'
    BY DEF EngineInv, EarlyStopIsLate
  <2> QED BY <1>4, <2>1, <2>4, <2>5, <2>6 DEF EngineInv
<1> QED BY <1>5, <1>6 DEF Round

\* Nothing is there at first.
LEMMA Starts ==
  ASSUME Init
  PROVE  EngineInv
<1>1. /\ config \in Configs /\ nodes = <<>> /\ index = <<>> /\ collisions = 0 /\ sims = 0
      /\ plan = NoPlan /\ round = AtRest
      /\ root = NoPosition /\ step = NoStep /\ drive = NoDrive
  BY DEF Init
<1>2. DOMAIN <<>> = {} /\ <<>> \in Seq({<<>>[c] : c \in DOMAIN <<>>})
  BY EmptySeq, OwnRange
<1>3. Arena(<<>>)
  BY <1>2 DEF Arena
<1>4. Structure(<<>>, <<>>, Dag, 0)
  BY <1>2 DEF Structure, EdgesLead, RootIsShallowest, Indexed, Covered, Distinct
<1>5. RoundOK(<<>>, AtRest)
  BY <1>2, RestIs
<1>6. PlanOK(<<>>, NoPlan)
  BY DEF PlanOK
<1>7. TreeInv
  BY <1>1, <1>3, <1>4, <1>5, <1>6 DEF TreeInv
<1>8. StepOK
  BY <1>1 DEF StepOK, NoStep, Resting, AtRest
<1>9. DriveOK /\ Searched /\ EarlyStopIsLate
  BY <1>1 DEF DriveOK, Searched, EarlyStopIsLate, NoDrive, NoStep
<1> QED BY <1>7, <1>8, <1>9 DEF EngineInv

\* Every step keeps the invariant.
LEMMA EngineStep ==
  ASSUME EngineInv, [Next]_vars
  PROVE  EngineInv'
<1>1. CASE Environment
  BY <1>1, Asks, Chooses, Refuses, Plays DEF Environment
<1>2. CASE Locate
  BY <1>2, Locates
<1>3. CASE FollowPath
  BY <1>3, Follows
<1>4. CASE SliceRound
  BY <1>4, RoundIsRun
<1>5. CASE RunSims
  BY <1>5, SimsAreRun
<1>6. CASE Harvest
  BY <1>6, Harvests
<1>7. CASE \E over \in 0..Overshoot, cancelled, interrupted \in BOOLEAN : SliceEnds(over, cancelled, interrupted)
  BY <1>7, SliceIsOver
<1>8. CASE Round /\ UNCHANGED <<caller, root, step, drive, reply, steps>>
  BY <1>8, Rounding
<1>9. CASE UNCHANGED vars
  <2>1. UNCHANGED tree /\ UNCHANGED <<caller, root, step, drive>> /\ UNCHANGED <<nodes, sims, round>>
    BY <1>9 DEF vars, tree
  <2>2. TreeInv'
    BY <2>1, SameTree DEF EngineInv
  <2>3. StepOK' /\ DriveOK' /\ Searched' /\ EarlyStopIsLate'
    BY <2>1 DEF EngineInv, StepOK, DriveOK, Searched, EarlyStopIsLate, Resting
  <2> QED BY <2>2, <2>3 DEF EngineInv
<1> QED BY <1>1, <1>2, <1>3, <1>4, <1>5, <1>6, <1>7, <1>8, <1>9 DEF Next, Work

-----------------------------------------------------------------------------
(***************************************************************************)
(* The statistics.  A first tree is one that has not been re-rooted: its   *)
(* root has a visit for every simulation.  In it every other node has been *)
(* credited from above with what it passed on and what ended at it, once   *)
(* its round is backed up.  A tree that was re-rooted has lost visits.     *)
(***************************************************************************)

\* The edges into a node, and what they were credited.
Into(ns, i) == UNION {{<<j, a>> : a \in {b \in DOMAIN ns[j].child : ns[j].child[b] = i}} : j \in DOMAIN ns}
Arrivals(ns, i) == Total([e \in Into(ns, i) |-> ns[e[1]].n[e[2]]])
Brought(ns, i) == Total([e \in Into(ns, i) |-> ns[e[1]].w[e[2]]])

\* An edge without a child has no credit; a terminal node has what its position is worth.
Booked(x) ==
  /\ x.visits \in Nat /\ x.w \in [EdgesOf(x) -> Int]
  /\ \A a \in DOMAIN x.child : x.child[a] = NoNode => x.n[a] = 0 /\ x.w[a] = 0
  /\ x.terminal => (x.pos \in Over \/ Moves[x.pos] = <<>>) /\ x.leaf = TerminalValue(x.pos)
  /\ x.terminal \/ x.pos \notin Over

\* The nodes a path stops at: it follows edges from the root to its end.
Stop(path, k, end) == IF k \in DOMAIN path THEN path[k][1] ELSE end
Chain(ns, path, end) ==
  /\ IsList(path) /\ end \in DOMAIN ns /\ Stop(path, 1, end) = 1
  /\ \A k \in DOMAIN path : \E i \in DOMAIN ns : \E a \in DOMAIN ns[i].child :
       path[k] = <<i, a>> /\ ns[i].child[a] = Stop(path, k + 1, end)

\* Descents are paths of the tree, and a value is the worth of its leaf.
HandOK(ns, r) ==
  /\ Chain(ns, r.path, r.at)
  /\ \A d \in DOMAIN r.descents :
       /\ r.descents[d].leaf \in DOMAIN r.leaves
       /\ Chain(ns, r.descents[d].path, r.leaves[r.descents[d].leaf].node)
  /\ \A l \in DOMAIN r.leaves :
       /\ DOMAIN r.leaves[l] = {"node", "valued", "value"} /\ r.leaves[l].node \in DOMAIN ns
       /\ r.leaves[l].valued => r.leaves[l].value = WorthToOne(ns[r.leaves[l].node].pos)
       /\ r.stage = "backup" => r.leaves[l].valued
  /\ r.stage = "rest" => r.leaves = <<>>

\* What came to a node went on from it or ended there.
Conserved(ns, i, ran) ==
  /\ ns[i].visits <= Arrivals(ns, i) /\ Arrivals(ns, i) <= ran
  /\ Brought(ns, i) = Total(ns[i].w) + (Arrivals(ns, i) - ns[i].visits) * WorthToOne(ns[i].pos)

\* A descent ended at the node, or does in this round.
EndsAt(r, i) == {d \in DOMAIN r.descents : r.leaves[r.descents[d].leaf].node = i}
Reached(ns, r, i) ==
  /\ ns[i].visits < Arrivals(ns, i) \/ r.at = i \/ EndsAt(r, i) # {}
  /\ (r.stage = "descend" /\ ns[i].expanded) => ns[i].visits < Arrivals(ns, i)

FirstTree(ns, r, ran) ==
  /\ ns[1].visits = ran
  /\ \A i \in DOMAIN ns \ {1} : Conserved(ns, i, ran) /\ Reached(ns, r, i)
CarriedTree(ns, ran) == \A i \in DOMAIN ns : ns[i].visits < ran

Books(ns, r, ran) ==
  ns # <<>> => /\ \A i \in DOMAIN ns : Booked(ns[i])
               /\ HandOK(ns, r)
               /\ FirstTree(ns, r, ran) \/ CarriedTree(ns, ran)

\* What select answers with is an edge of the node, also when the schedule dictates it.
LEMMA DirectedIsAnEdge ==
  ASSUME TreeInv, nodes # <<>>, NEW a \in Selectable
  PROVE  a \in DOMAIN nodes[round.at].child
<1>1. PlanOK(nodes, plan)
  BY DEF TreeInv
<1>2. CASE round.at = 1 /\ Gumbel
  <2>1. /\ plan.given \in Nat /\ plan.alive # <<>> /\ plan.alive \in Seq(DOMAIN nodes[1].child)
    BY <1>1, <1>2 DEF PlanOK, Gumbel
  <2>2. Len(plan.alive) \in Nat /\ Len(plan.alive) # 0 /\ DOMAIN plan.alive = 1..Len(plan.alive)
    BY <2>1, EmptySeq, LenProperties
  <2>3. (plan.given % Len(plan.alive)) + 1 \in 1..Len(plan.alive)
    <3>1. \A g \in Nat, m \in Nat \ {0} : (g % m) + 1 \in 1..m
      OBVIOUS
    <3> QED BY <2>1, <2>2, <3>1
  <2>4. a = Taken(plan)
    BY <1>2 DEF Selectable
  <2> QED BY <1>2, <2>1, <2>3, <2>4, ElementOfSeq DEF Taken
<1>3. CASE ~(round.at = 1 /\ Gumbel)
  BY <1>3 DEF Selectable, Here
<1> QED BY <1>2, <1>3

\* What a function has on a finite set is finite.
LEMMA FiniteImage ==
  ASSUME NEW S, IsFiniteSet(S), NEW f
  PROVE  IsFiniteSet({f[x] : x \in S})
<1> DEFINE T == {f[x] : x \in S}
           g == [x \in S |-> f[x]]
<1>1. g \in Surjection(S, T)
  BY DEF Surjection
<1> HIDE DEF g, T
<1>2. IsFiniteSet(T)
  BY <1>1, FS_Surjection
<1> QED BY <1>2 DEF T

\* The edges into a node are finitely many.
LEMMA IntoIs ==
  ASSUME NEW ns, Arena(ns), NEW i
  PROVE  /\ IsFiniteSet(Into(ns, i))
         /\ \A e \in Into(ns, i) : /\ e[1] \in DOMAIN ns /\ e[2] \in DOMAIN ns[e[1]].child
                                   /\ e = <<e[1], e[2]>> /\ ns[e[1]].child[e[2]] = i
         /\ \A j \in DOMAIN ns : \A a \in DOMAIN ns[j].child : ns[j].child[a] = i => <<j, a>> \in Into(ns, i)
<1> DEFINE row == [j \in DOMAIN ns |-> {j} \X DOMAIN ns[j].child]
           rows == {row[j] : j \in DOMAIN ns}
<1>1. Len(ns) \in Nat /\ DOMAIN ns = 1..Len(ns)
  BY LenProperties DEF Arena
<1>2. IsFiniteSet(DOMAIN ns)
  BY <1>1, FS_Interval
<1>3. ASSUME NEW j \in DOMAIN ns PROVE IsFiniteSet(row[j])
  <2>1. IsFiniteSet(DOMAIN ns[j].child)
    <3>1. Shaped(ns[j])
      BY DEF Arena
    <3>2. CASE ns[j].expanded \/ ns[j].pending
      <4> DEFINE k == Len(Moves[ns[j].pos])
      <4>1. k \in Nat /\ DOMAIN Moves[ns[j].pos] = 1..k
        BY <3>1, GraphAssumption, LenProperties DEF Shaped
      <4>2. DOMAIN ns[j].child = 1..k
        BY <3>1, <3>2, <4>1 DEF Shaped, EdgesOf
      <4> QED BY <4>1, <4>2, FS_Interval
    <3>3. CASE ~(ns[j].expanded \/ ns[j].pending)
      <4>1. DOMAIN ns[j].child = {}
        BY <3>1, <3>3 DEF Shaped, EdgesOf
      <4> QED BY <4>1, FS_EmptySet
    <3> QED BY <3>2, <3>3
  <2>2. IsFiniteSet({j} \X DOMAIN ns[j].child)
    BY Zenon, <2>1, FS_Singleton, FS_Product
  <2> QED BY <2>2
<1>4. IsFiniteSet(rows)
  <2> HIDE DEF row
  <2> QED BY <1>2, FiniteImage
<1>5. IsFiniteSet(UNION rows)
  <2>1. \A T \in rows : IsFiniteSet(T)
    BY <1>3
  <2> HIDE DEF rows
  <2> QED BY <1>4, <2>1, FS_UNION
<1>6. \A e : e \in Into(ns, i) <=> \E j \in DOMAIN ns : \E a \in DOMAIN ns[j].child : ns[j].child[a] = i /\ e = <<j, a>>
  BY DEF Into
<1>7. Into(ns, i) \subseteq UNION rows
  <2> SUFFICES ASSUME NEW e \in Into(ns, i) PROVE e \in UNION rows
    OBVIOUS
  <2>1. PICK j \in DOMAIN ns : \E a \in DOMAIN ns[j].child : ns[j].child[a] = i /\ e = <<j, a>>
    BY <1>6
  <2>2. e \in row[j]
    BY <2>1
  <2>3. row[j] \in rows
    OBVIOUS
  <2> HIDE DEF rows, row
  <2> QED BY <2>2, <2>3
<1>8. IsFiniteSet(Into(ns, i))
  <2> HIDE DEF rows
  <2> QED BY <1>5, <1>7, FS_Subset
<1>9. ASSUME NEW e \in Into(ns, i)
      PROVE  /\ e[1] \in DOMAIN ns /\ e[2] \in DOMAIN ns[e[1]].child
             /\ e = <<e[1], e[2]>> /\ ns[e[1]].child[e[2]] = i
  <2>3. PICK j \in DOMAIN ns : \E a \in DOMAIN ns[j].child : ns[j].child[a] = i /\ e = <<j, a>>
    BY <1>6
  <2>1. PICK a \in DOMAIN ns[j].child : ns[j].child[a] = i /\ e = <<j, a>>
    BY <2>3
  <2>2. e[1] = j /\ e[2] = a
    BY <2>1
  <2> QED BY <2>1, <2>2
<1> QED BY <1>6, <1>8, <1>9

\* A total is a sum over a domain.
LEMMA TotalIs ==
  ASSUME NEW f
  PROVE  Total(f) = SumOn(f, DOMAIN f)
BY DEF Total, SumOn

\* The arrivals are numbers.
LEMMA CreditsAreInts ==
  ASSUME NEW ns, Arena(ns), \A j \in DOMAIN ns : Booked(ns[j]), NEW i
  PROVE  /\ \A e \in Into(ns, i) : ns[e[1]].n[e[2]] \in Nat /\ ns[e[1]].w[e[2]] \in Int
         /\ Arrivals(ns, i) \in Int /\ Brought(ns, i) \in Int
<1>1. ASSUME NEW e \in Into(ns, i) PROVE ns[e[1]].n[e[2]] \in Nat /\ ns[e[1]].w[e[2]] \in Int
  <2>1. e[1] \in DOMAIN ns /\ e[2] \in DOMAIN ns[e[1]].child
    BY IntoIs
  <2>2. Shaped(ns[e[1]]) /\ Booked(ns[e[1]])
    BY <2>1 DEF Arena
  <2> QED BY <2>1, <2>2 DEF Shaped, Booked
<1> DEFINE E == Into(ns, i)
           f == [e \in E |-> ns[e[1]].n[e[2]]]
           g == [e \in E |-> ns[e[1]].w[e[2]]]
<1>2. IsFiniteSet(E)
  BY IntoIs
<1>3. Arrivals(ns, i) = SumOn(f, E) /\ Brought(ns, i) = SumOn(g, E)
  BY TotalIs DEF Arrivals, Brought
<1>4. \A e \in E : f[e] \in Int /\ g[e] \in Int
  BY <1>1
<1> HIDE DEF E, f, g
<1>5. SumOn(f, E) \in Int /\ SumOn(g, E) \in Int
  BY <1>2, <1>4, SumIsInt
<1> QED BY <1>1, <1>3, <1>5 DEF E

-----------------------------------------------------------------------------
(* Paths *)

\* What a chain's steps are.
LEMMA ChainIs ==
  ASSUME NEW ns, Arena(ns), EdgesLead(ns), NEW path, NEW end, Chain(ns, path, end)
  PROVE  /\ Len(path) \in Nat /\ DOMAIN path = 1..Len(path)
         /\ Stop(path, Len(path) + 1, end) = end
         /\ \A k \in 1..(Len(path) + 1) : Stop(path, k, end) \in DOMAIN ns
         /\ \A k \in DOMAIN path :
              \E a \in DOMAIN ns[Stop(path, k, end)].child :
                 /\ path[k] = <<Stop(path, k, end), a>>
                 /\ ns[Stop(path, k, end)].child[a] = Stop(path, k + 1, end)
<1>1. Len(path) \in Nat /\ DOMAIN path = 1..Len(path)
  BY LenProperties DEF Chain, IsList
<1>2. Stop(path, Len(path) + 1, end) = end
  BY <1>1 DEF Stop
<1>3. ASSUME NEW k \in DOMAIN path
      PROVE  /\ Stop(path, k, end) \in DOMAIN ns
             /\ \E a \in DOMAIN ns[Stop(path, k, end)].child :
                  /\ path[k] = <<Stop(path, k, end), a>>
                  /\ ns[Stop(path, k, end)].child[a] = Stop(path, k + 1, end)
  <2>1. PICK i \in DOMAIN ns : \E a \in DOMAIN ns[i].child : path[k] = <<i, a>> /\ ns[i].child[a] = Stop(path, k + 1, end)
    BY DEF Chain
  <2>2. Stop(path, k, end) = i
    BY <2>1 DEF Stop
  <2> QED BY <2>1, <2>2
<1>4. ASSUME NEW k \in 1..(Len(path) + 1) PROVE Stop(path, k, end) \in DOMAIN ns
  <2>1. CASE k \in DOMAIN path
    BY <1>3, <2>1
  <2>2. CASE k \notin DOMAIN path
    <3>1. Stop(path, k, end) = end
      BY <2>2 DEF Stop
    <3> QED BY <3>1 DEF Chain
  <2> QED BY <2>1, <2>2
<1> QED BY <1>1, <1>2, <1>3, <1>4

\* Each stop is one action deeper than the one before.
LEMMA StopsDeepen ==
  ASSUME NEW ns, Arena(ns), EdgesLead(ns), NEW path, NEW end, Chain(ns, path, end)
  PROVE  \A k \in 1..(Len(path) + 1) : Depth[ns[Stop(path, k, end)].pos] = Depth[ns[1].pos] + k - 1
<1> DEFINE D(k) == Depth[ns[Stop(path, k, end)].pos]
           Wrong == {k \in 1..(Len(path) + 1) : D(k) # Depth[ns[1].pos] + k - 1}
<1> SUFFICES ASSUME Wrong # {} PROVE FALSE
  OBVIOUS
<1>1. Len(path) \in Nat /\ DOMAIN path = 1..Len(path)
  BY ChainIs
<1>2. PICK k \in Wrong : \A l \in Wrong : k <= l
  <2>1. Wrong \subseteq Nat
    BY <1>1
  <2> HIDE DEF Wrong
  <2> QED BY Zenon, <2>1, LeastNumber
<1>3. k \in 1..(Len(path) + 1) /\ D(k) # Depth[ns[1].pos] + k - 1
  OBVIOUS
<1>4. 1 \in DOMAIN ns /\ Depth[ns[1].pos] \in Nat
  <2>1. Stop(path, 1, end) = 1
    BY DEF Chain
  <2>2. 1 \in 1..(Len(path) + 1)
    BY <1>1
  <2>3. 1 \in DOMAIN ns
    BY <2>1, <2>2, ChainIs
  <2> QED BY <2>3, GraphAssumption DEF Arena, Shaped
<1>5. k # 1
  BY <1>3, <1>4 DEF Chain
<1> DEFINE l == k - 1
<1>6. l \in DOMAIN path /\ l \in 1..(Len(path) + 1) /\ l + 1 = k /\ ~(k <= l)
  BY <1>1, <1>3, <1>5
<1>7. D(l) = Depth[ns[1].pos] + l - 1
  <2>1. l \notin Wrong
    <3> HIDE DEF Wrong, l
    <3> QED BY <1>2, <1>6
  <2> HIDE DEF l, D
  <2> QED BY <1>6, <2>1
<1> HIDE DEF Wrong
<1>8. D(k) = D(l) + 1
  <2> DEFINE i == Stop(path, l, end)
             j == Stop(path, k, end)
  <2>1. i \in DOMAIN ns /\ j \in DOMAIN ns
    <3> HIDE DEF l
    <3> QED BY <1>3, <1>6, ChainIs
  <2>2. PICK a \in DOMAIN ns[i].child : ns[i].child[a] = j
    <3>1. \E a \in DOMAIN ns[i].child : ns[i].child[a] = Stop(path, l + 1, end)
      <4> HIDE DEF l
      <4> QED BY <1>6, ChainIs
    <3> QED BY <1>6, <3>1
  <2>3. j # NoNode
    BY <2>1, LenProperties DEF Arena, NoNode
  <2>4. ns[j].pos = Moves[ns[i].pos][a] /\ a \in DOMAIN Moves[ns[i].pos] /\ ns[i].pos \in Position
    <3>1. Shaped(ns[i])
      BY <2>1 DEF Arena
    <3>2. ns[j].pos = Moves[ns[i].pos][a]
      <4> HIDE DEF i, j
      <4> QED BY <2>1, <2>2, <2>3 DEF EdgesLead
    <3> HIDE DEF i, j
    <3> QED BY <3>1, <3>2 DEF Shaped, EdgesOf
  <2> HIDE DEF i, j
  <2>5. Depth[ns[j].pos] = Depth[ns[i].pos] + 1
    BY <2>4, Deeper
  <2> QED BY <2>5 DEF i, j
<1> DEFINE d == Depth[ns[1].pos]
<1>9. D(k) # d + k - 1 /\ D(l) = d + l - 1 /\ D(k) = D(l) + 1
  BY <1>3, <1>7, <1>8
<1>10. d \in Nat /\ l \in Nat /\ l + 1 = k
  BY <1>1, <1>4, <1>6
<1> HIDE DEF D, d, l
<1> QED BY <1>9, <1>10

\* A path does not come back.
LEMMA StopsDiffer ==
  ASSUME NEW ns, Arena(ns), EdgesLead(ns), NEW path, NEW end, Chain(ns, path, end)
  PROVE  \A k, l \in 1..(Len(path) + 1) : Stop(path, k, end) = Stop(path, l, end) => k = l
<1> TAKE k \in 1..(Len(path) + 1), l \in 1..(Len(path) + 1)
<1> HAVE Stop(path, k, end) = Stop(path, l, end)
<1>1. Depth[ns[1].pos] + k - 1 = Depth[ns[1].pos] + l - 1
  BY StopsDeepen
<1>2. Depth[ns[1].pos] \in Nat
  <2>1. Stop(path, 1, end) = 1 /\ Len(path) \in Nat
    BY ChainIs DEF Chain
  <2>2. 1 \in DOMAIN ns
    BY <2>1, ChainIs
  <2> QED BY <2>2, GraphAssumption DEF Arena, Shaped
<1> QED BY <1>1, <1>2

\* The path takes this edge.
Takes(path, e) == \E k \in DOMAIN path : path[k] = e

\* A path arrives at a node, but for the root, exactly when it goes on from there or ends there,
\* and by one edge each.
LEMMA PathsPass ==
  ASSUME NEW ns, Arena(ns), EdgesLead(ns), NEW path, NEW end, Chain(ns, path, end), NEW i \in DOMAIN ns, i # 1
  PROVE  /\ \A e, u \in Into(ns, i) : Takes(path, e) /\ Takes(path, u) => e = u
         /\ \A a, b \in DOMAIN ns[i].child : Takes(path, <<i, a>>) /\ Takes(path, <<i, b>>) => a = b
         /\ (\E e \in Into(ns, i) : Takes(path, e)) <=> ((\E a \in DOMAIN ns[i].child : Takes(path, <<i, a>>)) \/ end = i)
         /\ ~((\E a \in DOMAIN ns[i].child : Takes(path, <<i, a>>)) /\ end = i)
<1> DEFINE S(k) == Stop(path, k, end)
<1>1. /\ Len(path) \in Nat /\ DOMAIN path = 1..Len(path) /\ S(Len(path) + 1) = end /\ S(1) = 1
      /\ \A k \in DOMAIN path : \E a \in DOMAIN ns[S(k)].child : path[k] = <<S(k), a>> /\ ns[S(k)].child[a] = S(k + 1)
  BY ChainIs DEF Chain
<1>2. \A k, l \in 1..(Len(path) + 1) : S(k) = S(l) => k = l
  BY StopsDiffer
<1>3. \A k \in 1..(Len(path) + 1) : S(k) \in DOMAIN ns
  BY ChainIs
<1> HIDE DEF S
<1>4. ASSUME NEW k \in DOMAIN path PROVE path[k][1] = S(k) /\ path[k] \in Into(ns, S(k + 1))
  <2>1. k \in 1..(Len(path) + 1)
    BY <1>1
  <2>2. PICK a \in DOMAIN ns[S(k)].child : path[k] = <<S(k), a>> /\ ns[S(k)].child[a] = S(k + 1)
    BY <1>1
  <2>3. S(k) \in DOMAIN ns
    BY <1>3, <2>1
  <2> QED BY <2>2, <2>3, IntoIs
<1>5. ASSUME NEW k \in DOMAIN path, NEW j, path[k] \in Into(ns, j) PROVE S(k + 1) = j
  <2>1. ns[path[k][1]].child[path[k][2]] = j /\ ns[path[k][1]].child[path[k][2]] = S(k + 1)
    <3>1. path[k] \in Into(ns, j) /\ path[k] \in Into(ns, S(k + 1))
      BY <1>4, <1>5
    <3> QED BY <3>1, IntoIs
  <2> QED BY <2>1
<1>6. ASSUME NEW e \in Into(ns, i), NEW u \in Into(ns, i), Takes(path, e), Takes(path, u) PROVE e = u
  <2>1. PICK k \in DOMAIN path : path[k] = e
    BY <1>6 DEF Takes
  <2>2. PICK l \in DOMAIN path : path[l] = u
    BY <1>6 DEF Takes
  <2>3. S(k + 1) = i /\ S(l + 1) = i
    BY <1>5, <1>6, <2>1, <2>2
  <2>4. k + 1 \in 1..(Len(path) + 1) /\ l + 1 \in 1..(Len(path) + 1)
    BY <1>1
  <2>5. k + 1 = l + 1
    BY <1>2, <2>3, <2>4
  <2>6. k = l
    BY <1>1, <2>5
  <2> QED BY <2>1, <2>2, <2>6
<1>7. ASSUME NEW a \in DOMAIN ns[i].child, NEW b \in DOMAIN ns[i].child, Takes(path, <<i, a>>), Takes(path, <<i, b>>) PROVE a = b
  <2>1. PICK k \in DOMAIN path : path[k] = <<i, a>>
    BY <1>7 DEF Takes
  <2>2. PICK l \in DOMAIN path : path[l] = <<i, b>>
    BY <1>7 DEF Takes
  <2>3. S(k) = i /\ S(l) = i
    BY <1>4, <2>1, <2>2
  <2>4. k \in 1..(Len(path) + 1) /\ l \in 1..(Len(path) + 1)
    BY <1>1
  <2>5. k = l
    BY <1>2, <2>3, <2>4
  <2> QED BY <2>1, <2>2, <2>5
<1>8. ASSUME NEW e \in Into(ns, i), Takes(path, e) PROVE (\E a \in DOMAIN ns[i].child : Takes(path, <<i, a>>)) \/ end = i
  <2>1. PICK k \in DOMAIN path : path[k] = e
    BY <1>8 DEF Takes
  <2>2. S(k + 1) = i
    BY <1>5, <2>1
  <2>3. CASE k = Len(path)
    BY <1>1, <2>2, <2>3
  <2>4. CASE k # Len(path)
    <3> DEFINE l == k + 1
    <3>1. l \in DOMAIN path
      BY <1>1, <2>4
    <3>2. S(l) = i
      BY <2>2
    <3> HIDE DEF l
    <3>3. PICK a \in DOMAIN ns[S(l)].child : path[l] = <<S(l), a>>
      BY <1>1, <3>1
    <3> QED BY <3>1, <3>2, <3>3 DEF Takes
  <2> QED BY Zenon, <2>3, <2>4
<1>9. ASSUME NEW l \in 1..(Len(path) + 1), S(l) = i PROVE \E e \in Into(ns, i) : Takes(path, e)
  <2>1. l # 1
    BY <1>1, <1>9
  <2> DEFINE k == l - 1
  <2>2. k \in DOMAIN path /\ k + 1 = l
    BY <1>1, <2>1
  <2> HIDE DEF k
  <2>3. path[k] \in Into(ns, S(k + 1))
    BY <1>4, <2>2
  <2> QED BY <1>9, <2>2, <2>3 DEF Takes
<1>10. ASSUME NEW a \in DOMAIN ns[i].child, Takes(path, <<i, a>>) PROVE (\E e \in Into(ns, i) : Takes(path, e)) /\ end # i
  <2>1. PICK k \in DOMAIN path : path[k] = <<i, a>>
    BY <1>10 DEF Takes
  <2>2. S(k) = i /\ k \in 1..(Len(path) + 1)
    BY <1>1, <1>4, <2>1
  <2> DEFINE last == Len(path) + 1
  <2>3. last \in 1..last /\ k # last /\ S(last) = end
    BY <1>1
  <2> HIDE DEF last
  <2>4. end # i
    BY <1>2, <2>2, <2>3 DEF last
  <2> QED BY <1>9, <2>2, <2>4
<1>11. end = i => \E e \in Into(ns, i) : Takes(path, e)
  <2> DEFINE last == Len(path) + 1
  <2>1. last \in 1..last /\ S(last) = end
    BY <1>1
  <2> HIDE DEF last
  <2> QED BY <1>9, <2>1 DEF last
<1> QED BY Zenon, <1>6, <1>7, <1>8, <1>10, <1>11

-----------------------------------------------------------------------------
(* A tree that grows *)

\* Nodes and edges are added without credit, edges get a child; nothing else changes.
Grows(ns, ms) ==
  /\ \A i \in DOMAIN ns :
       /\ i \in DOMAIN ms /\ ms[i].pos = ns[i].pos /\ ms[i].visits = ns[i].visits
       /\ \A a \in DOMAIN ns[i].child :
            /\ a \in DOMAIN ms[i].child /\ ms[i].n[a] = ns[i].n[a] /\ ms[i].w[a] = ns[i].w[a]
            /\ ms[i].child[a] = ns[i].child[a] \/ ns[i].child[a] = NoNode
       /\ \A a \in DOMAIN ms[i].child : a \notin DOMAIN ns[i].child => ms[i].n[a] = 0 /\ ms[i].w[a] = 0
  /\ \A i \in DOMAIN ms : i \notin DOMAIN ns => ms[i].child = <<>> /\ ms[i].w = <<>> /\ ms[i].visits = 0

\* Both are arenas whose nodes are booked.
Ledger(ns) == Arena(ns) /\ EdgesLead(ns) /\ \A i \in DOMAIN ns : Booked(ns[i])

\* An arena numbers its nodes from 1.
LEMMA NoNodeIsNone ==
  ASSUME NEW ns, Arena(ns)
  PROVE  NoNode \notin DOMAIN ns
BY LenProperties DEF Arena, NoNode

\* The edges of a node are finitely many, with a count and a sum each.
LEMMA RowIs ==
  ASSUME NEW x, Shaped(x), Booked(x)
  PROVE  /\ IsFiniteSet(DOMAIN x.child) /\ DOMAIN x.n = DOMAIN x.child /\ DOMAIN x.w = DOMAIN x.child
         /\ \A a \in DOMAIN x.child : x.n[a] \in Nat /\ x.w[a] \in Int
<1>1. DOMAIN x.child = EdgesOf(x) /\ DOMAIN x.n = EdgesOf(x) /\ DOMAIN x.w = EdgesOf(x)
  BY DEF Shaped, Booked
<1>2. \A a \in EdgesOf(x) : x.n[a] \in Nat /\ x.w[a] \in Int
  BY DEF Shaped, Booked
<1>3. IsFiniteSet(EdgesOf(x))
  <2>1. CASE x.expanded \/ x.pending
    <3> DEFINE k == Len(Moves[x.pos])
    <3>1. k \in Nat /\ DOMAIN Moves[x.pos] = 1..k
      BY GraphAssumption, LenProperties DEF Shaped
    <3>2. EdgesOf(x) = 1..k
      BY <2>1, <3>1 DEF EdgesOf
    <3> QED BY <3>1, <3>2, FS_Interval
  <2>2. CASE ~(x.expanded \/ x.pending)
    <3>1. EdgesOf(x) = {}
      BY <2>2 DEF EdgesOf
    <3> QED BY <3>1, FS_EmptySet
  <2> QED BY <2>1, <2>2
<1> QED BY <1>1, <1>2, <1>3

\* What is added brings nothing.
LEMMA GrowthKeeps ==
  ASSUME NEW ns, NEW ms, Ledger(ns), Ledger(ms), Grows(ns, ms), NEW i, i # NoNode
  PROVE  /\ Arrivals(ms, i) = Arrivals(ns, i) /\ Brought(ms, i) = Brought(ns, i)
         /\ i \in DOMAIN ns => Total(ms[i].w) = Total(ns[i].w)
         /\ i \notin DOMAIN ns => Arrivals(ns, i) = 0 /\ Brought(ns, i) = 0
<1> DEFINE E == Into(ns, i)
           F == Into(ms, i)
           f == [e \in E |-> ns[e[1]].n[e[2]]]
           g == [e \in E |-> ns[e[1]].w[e[2]]]
           p == [e \in F |-> ms[e[1]].n[e[2]]]
           q == [e \in F |-> ms[e[1]].w[e[2]]]
<1>1. /\ Arena(ns) /\ Arena(ms) /\ EdgesLead(ns)
      /\ (\A j \in DOMAIN ns : Shaped(ns[j]) /\ Booked(ns[j])) /\ (\A j \in DOMAIN ms : Shaped(ms[j]) /\ Booked(ms[j]))
  BY DEF Ledger, Arena
<1>2. IsFiniteSet(E) /\ IsFiniteSet(F)
  BY <1>1, IntoIs
<1>3. /\ Arrivals(ns, i) = SumOn(f, E) /\ Brought(ns, i) = SumOn(g, E)
      /\ Arrivals(ms, i) = SumOn(p, F) /\ Brought(ms, i) = SumOn(q, F)
  BY TotalIs DEF Arrivals, Brought
<1>4. ASSUME NEW e \in E PROVE e \in F /\ p[e] = f[e] /\ q[e] = g[e] /\ f[e] \in Int /\ g[e] \in Int
  <2>1. e[1] \in DOMAIN ns /\ e[2] \in DOMAIN ns[e[1]].child /\ e = <<e[1], e[2]>> /\ ns[e[1]].child[e[2]] = i
    BY <1>1, IntoIs
  <2>2. /\ e[1] \in DOMAIN ms /\ e[2] \in DOMAIN ms[e[1]].child
        /\ ms[e[1]].n[e[2]] = ns[e[1]].n[e[2]] /\ ms[e[1]].w[e[2]] = ns[e[1]].w[e[2]]
        /\ ms[e[1]].child[e[2]] = i
    BY <2>1 DEF Grows
  <2>3. e \in F
    <3>1. <<e[1], e[2]>> \in Into(ms, i)
      BY <1>1, <2>2, IntoIs
    <3> QED BY <2>1, <3>1
  <2>4. ns[e[1]].n[e[2]] \in Nat /\ ns[e[1]].w[e[2]] \in Int
    BY <1>1, <2>1, RowIs
  <2> HIDE DEF E, F
  <2> QED BY <2>2, <2>3, <2>4
<1>5. ASSUME NEW e \in F, e \notin E PROVE p[e] = 0 /\ q[e] = 0
  <2>1. e[1] \in DOMAIN ms /\ e[2] \in DOMAIN ms[e[1]].child /\ e = <<e[1], e[2]>> /\ ms[e[1]].child[e[2]] = i
    BY <1>1, IntoIs
  <2>2. CASE e[1] \notin DOMAIN ns
    <3>1. ms[e[1]].child = <<>>
      BY <2>1, <2>2 DEF Grows
    <3> QED BY <2>1, <3>1
  <2>3. CASE e[1] \in DOMAIN ns /\ e[2] \notin DOMAIN ns[e[1]].child
    BY <2>1, <2>3 DEF Grows
  <2>4. CASE e[1] \in DOMAIN ns /\ e[2] \in DOMAIN ns[e[1]].child
    <3>1. ns[e[1]].child[e[2]] # i
      <4> SUFFICES ASSUME ns[e[1]].child[e[2]] = i PROVE FALSE
        OBVIOUS
      <4>1. <<e[1], e[2]>> \in Into(ns, i)
        BY <1>1, <2>4, IntoIs
      <4> QED BY <1>5, <2>1, <4>1
    <3>2. ns[e[1]].child[e[2]] = NoNode /\ ms[e[1]].n[e[2]] = ns[e[1]].n[e[2]] /\ ms[e[1]].w[e[2]] = ns[e[1]].w[e[2]]
      BY <2>1, <2>4, <3>1 DEF Grows
    <3>3. ns[e[1]].n[e[2]] = 0 /\ ns[e[1]].w[e[2]] = 0
      BY <1>1, <2>4, <3>2 DEF Booked
    <3> QED BY <3>2, <3>3
  <2> QED BY <2>2, <2>3, <2>4
<1>6. SumOn(p, F) = SumOn(f, E) /\ SumOn(q, F) = SumOn(g, E)
  <2> HIDE DEF E, F, f, g, p, q
  <2>1. Widens(f, E, p, F) /\ Widens(g, E, q, F)
    BY <1>2, <1>4, <1>5 DEF Widens
  <2> QED BY <2>1, SumWidens
<1>7. i \in DOMAIN ns => Total(ms[i].w) = Total(ns[i].w)
  <2> SUFFICES ASSUME i \in DOMAIN ns PROVE Total(ms[i].w) = Total(ns[i].w)
    OBVIOUS
  <2> DEFINE u == ns[i].w
             v == ms[i].w
  <2>1. i \in DOMAIN ms
    BY DEF Grows
  <2>2. /\ DOMAIN u = DOMAIN ns[i].child /\ DOMAIN v = DOMAIN ms[i].child /\ IsFiniteSet(DOMAIN v)
        /\ \A a \in DOMAIN u : u[a] \in Int
    BY <1>1, <2>1, RowIs
  <2>3. Widens(u, DOMAIN u, v, DOMAIN v)
    BY <2>2 DEF Grows, Widens
  <2>4. SumOn(v, DOMAIN v) = SumOn(u, DOMAIN u)
    <3> HIDE DEF u, v
    <3> QED BY <2>3, SumWidens
  <2> QED BY <2>4, TotalIs
<1>8. i \notin DOMAIN ns => Arrivals(ns, i) = 0 /\ Brought(ns, i) = 0
  <2> SUFFICES ASSUME i \notin DOMAIN ns PROVE Arrivals(ns, i) = 0 /\ Brought(ns, i) = 0
    OBVIOUS
  <2>1. ASSUME NEW e \in E PROVE FALSE
    <3>1. e[1] \in DOMAIN ns /\ e[2] \in DOMAIN ns[e[1]].child /\ ns[e[1]].child[e[2]] = i
      BY <1>1, IntoIs
    <3> QED BY <1>1, <3>1 DEF EdgesLead
  <2> HIDE DEF E, f, g
  <2>2. E = {}
    BY <2>1
  <2> QED BY <1>3, <2>2, SumOfNone
<1> HIDE DEF E, F, f, g, p, q
<1> QED BY <1>3, <1>6, <1>7, <1>8

\* A path of the tree stays one.
LEMMA ChainGrows ==
  ASSUME NEW ns, NEW ms, Ledger(ns), Grows(ns, ms), NEW path, NEW end, Chain(ns, path, end)
  PROVE  Chain(ms, path, end)
<1>1. Arena(ns) /\ EdgesLead(ns) /\ NoNode \notin DOMAIN ns
  BY NoNodeIsNone DEF Ledger
<1>2. IsList(path) /\ end \in DOMAIN ms /\ Stop(path, 1, end) = 1
  BY DEF Chain, Grows
<1>3. ASSUME NEW k \in DOMAIN path
      PROVE  \E i \in DOMAIN ms : \E a \in DOMAIN ms[i].child : path[k] = <<i, a>> /\ ms[i].child[a] = Stop(path, k + 1, end)
  <2>1. k \in 1..(Len(path) + 1) /\ k + 1 \in 1..(Len(path) + 1)
    BY <1>1, ChainIs
  <2> DEFINE i == Stop(path, k, end)
             j == Stop(path, k + 1, end)
  <2>2. i \in DOMAIN ns /\ j \in DOMAIN ns
    BY <1>1, <2>1, ChainIs
  <2>3. PICK a \in DOMAIN ns[i].child : path[k] = <<i, a>> /\ ns[i].child[a] = j
    BY <1>1, ChainIs
  <2> HIDE DEF i, j
  <2>4. i \in DOMAIN ms /\ a \in DOMAIN ms[i].child /\ ms[i].child[a] = j
    BY <1>1, <2>2, <2>3 DEF Grows
  <2> QED BY <2>3, <2>4 DEF j
<1> QED BY <1>2, <1>3 DEF Chain

\* The value a position has for player 1 is a number.
LEMMA WorthIs ==
  ASSUME NEW p \in Position
  PROVE  /\ WorthToOne(p) \in Int
         /\ (p \in Over \/ Moves[p] = <<>>) => WorthToOne(p) = TerminalValue(p)
         /\ ~(p \in Over \/ Moves[p] = <<>>) => WorthToOne(p) = LeafValue(p)
<1>1. Value[p] \in Int /\ Mover[p] \in {1, 2}
  BY GraphAssumption
<1>2. TerminalValue(p) \in Int
  BY DEF TerminalValue
<1>3. (p \in Over \/ Moves[p] = <<>>) => WorthToOne(p) = TerminalValue(p)
  BY DEF WorthToOne, TerminalValue
<1>4. ~(p \in Over \/ Moves[p] = <<>>) => WorthToOne(p) = LeafValue(p) /\ LeafValue(p) \in Int
  BY <1>1 DEF WorthToOne, LeafValue, Frame
<1> QED BY <1>2, <1>3, <1>4

\* A tree that has grown is in balance as it was, once the paths in hand and what is reached are seen to.
LEMMA BooksGrow ==
  ASSUME NEW ns, NEW ms, NEW r, NEW q, NEW ran \in Nat, ns # <<>>, 1 \in DOMAIN ns,
         Ledger(ns), Ledger(ms), Grows(ns, ms), Books(ns, r, ran), HandOK(ms, q),
         FirstTree(ns, r, ran) => \A i \in DOMAIN ms \ {1} : Reached(ms, q, i)
  PROVE  Books(ms, q, ran)
<1>1. \A i \in DOMAIN ms : Booked(ms[i])
  BY DEF Ledger
<1>2. CASE FirstTree(ns, r, ran)
  <2>1. ms[1].visits = ran
    BY <1>2 DEF FirstTree, Grows
  <2>2. ASSUME NEW i \in DOMAIN ms, i # 1 PROVE Conserved(ms, i, ran)
    <3>0. i # NoNode
      BY NoNodeIsNone DEF Ledger
    <3>1. CASE i \in DOMAIN ns
      <4>1. Conserved(ns, i, ran)
        BY <1>2, <2>2, <3>1 DEF FirstTree
      <4>2. ms[i].visits = ns[i].visits /\ ms[i].pos = ns[i].pos
        BY <3>1 DEF Grows
      <4>3. Arrivals(ms, i) = Arrivals(ns, i) /\ Brought(ms, i) = Brought(ns, i) /\ Total(ms[i].w) = Total(ns[i].w)
        BY <3>0, <3>1, GrowthKeeps
      <4> QED BY <4>1, <4>2, <4>3 DEF Conserved
    <3>2. CASE i \notin DOMAIN ns
      <4>1. ms[i].visits = 0 /\ ms[i].w = <<>>
        BY <3>2 DEF Grows
      <4>2. Arrivals(ms, i) = 0 /\ Brought(ms, i) = 0
        BY <3>0, <3>2, GrowthKeeps
      <4>3. Total(ms[i].w) = 0
        <5>1. Total(ms[i].w) = SumOn(ms[i].w, DOMAIN ms[i].w)
          BY TotalIs
        <5>2. DOMAIN ms[i].w = {}
          BY <4>1
        <5> QED BY <5>1, <5>2, SumOfNone
      <4>4. WorthToOne(ms[i].pos) \in Int
        BY WorthIs DEF Ledger, Arena, Shaped
      <4> QED BY <4>1, <4>2, <4>3, <4>4 DEF Conserved
    <3> QED BY <3>1, <3>2
  <2> QED BY <1>1, <1>2, <2>1, <2>2 DEF Books, FirstTree
<1>3. CASE CarriedTree(ns, ran)
  <2>1. ASSUME NEW i \in DOMAIN ms PROVE ms[i].visits < ran
    <3>1. CASE i \in DOMAIN ns
      BY <1>3, <3>1 DEF CarriedTree, Grows
    <3>2. CASE i \notin DOMAIN ns
      <4>1. ms[i].visits = 0 /\ ns[1].visits \in Nat /\ ns[1].visits < ran
        BY <1>3, <3>2 DEF CarriedTree, Grows, Ledger, Booked
      <4> QED BY <4>1
    <3> QED BY <3>1, <3>2
  <2> QED BY <1>1, <2>1 DEF Books, CarriedTree
<1> QED BY <1>2, <1>3 DEF Books

-----------------------------------------------------------------------------
(* The steps of a round *)

\* What is in hand at an edge of a descent.
LEMMA WalkIs ==
  ASSUME TreeInv, Step, NEW a \in Selectable, Walk(a), nodes # <<>>
  PROVE  LET i == round.at
         IN  /\ i \in DOMAIN nodes /\ i \in DOMAIN nodes' /\ a \in DOMAIN nodes[i].child /\ nodes[i].expanded
             /\ \A j \in DOMAIN nodes : j # i => j \in DOMAIN nodes' /\ nodes'[j] = nodes[j]
             /\ nodes'[i] = [nodes[i] EXCEPT !.child[a] = round'.at, !.vl[a] = @ + 1, !.vlVisits = @ + 1]
             /\ nodes[i].child[a] # NoNode => round'.at = nodes[i].child[a]
             /\ \A j \in DOMAIN nodes' : j \notin DOMAIN nodes => \E p \in Position : nodes'[j] = NewNode(p) /\ j = round'.at
             /\ round' = [round EXCEPT !.at = round'.at, !.path = Append(@, <<i, a>>)]
<1> DEFINE i == round.at
           x == nodes[i]
           p == Moves[x.pos][a]
           fresh == x.child[a] = NoNode /\ ~Merges(p)
           to == IF x.child[a] # NoNode THEN x.child[a] ELSE IF fresh THEN Len(nodes) + 1 ELSE index[Key[p]]
           walked == [nodes EXCEPT ![i].child[a] = to, ![i].vl[a] = @ + 1, ![i].vlVisits = @ + 1]
           y == [x EXCEPT !.child[a] = to, !.vl[a] = @ + 1, !.vlVisits = @ + 1]
<1>1. /\ nodes' = IF fresh THEN Append(walked, NewNode(p)) ELSE walked
      /\ round' = [round EXCEPT !.at = to, !.path = Append(@, <<i, a>>)]
  BY Zenon DEF Walk, Here
<1>2. /\ Arena(nodes) /\ RoundOK(nodes, round) /\ nodes[i].expanded
      /\ Len(nodes) \in Nat /\ DOMAIN nodes = 1..Len(nodes)
  BY LenProperties DEF TreeInv, Step, Arena, Here
<1>3. i \in DOMAIN nodes /\ DOMAIN round = {"stage", "due", "at", "path", "descents", "leaves"}
  BY <1>2 DEF RoundOK
<1>4. a \in DOMAIN x.child
  BY DirectedIsAnEdge
<1>5. round'.at = to
  BY Zenon, <1>1, <1>3
<1>6. DOMAIN walked = DOMAIN nodes /\ walked[i] = y /\ \A j \in DOMAIN nodes : j # i => walked[j] = nodes[j]
  BY Zenon, <1>3
<1>7. IsList(walked) /\ Len(walked) = Len(nodes)
  <2>1. walked = [j \in 1..Len(nodes) |-> walked[j]]
    <3> HIDE DEF to
    <3>1. DOMAIN nodes = 1..Len(nodes)
      BY <1>2
    <3>2. WalkedFrom(nodes, i, a, to, walked)
      BY DEF WalkedFrom
    <3> HIDE DEF walked
    <3> QED BY <3>1, <3>2, WalkedAlong
  <2> HIDE DEF walked
  <2> QED BY <1>2, <2>1, Listing DEF IsList
<1>8. p \in Position
  <2>1. Shaped(x)
    BY <1>2, <1>3 DEF Arena
  <2> QED BY <1>4, <2>1, Deeper DEF EdgesOf, Shaped
<1> HIDE DEF walked, y
<1>9. /\ \A j \in DOMAIN nodes : j \in DOMAIN nodes' /\ nodes'[j] = walked[j]
      /\ \A j \in DOMAIN nodes' : j \notin DOMAIN nodes => nodes'[j] = NewNode(p) /\ j = to
  <2>1. CASE fresh
    <3>1. nodes' = Append(walked, NewNode(p)) /\ to = Len(nodes) + 1
      BY <1>1, <2>1
    <3> HIDE DEF to, p
    <3>2. /\ DOMAIN nodes' = 1..(Len(nodes) + 1) /\ nodes'[Len(nodes) + 1] = NewNode(p)
          /\ \A j \in 1..Len(nodes) : nodes'[j] = walked[j]
      BY <1>7, <3>1, OneMore DEF IsList
    <3> QED BY <1>2, <3>1, <3>2
  <2>2. CASE ~fresh
    BY Zenon, <1>1, <1>6, <2>2
  <2> QED BY <2>1, <2>2
<1>10. x.child[a] # NoNode => to = x.child[a]
  OBVIOUS
<1> HIDE DEF to, p
<1>11. nodes'[i] = [x EXCEPT !.child[a] = round'.at, !.vl[a] = @ + 1, !.vlVisits = @ + 1]
  BY <1>3, <1>5, <1>6, <1>9 DEF y
<1> QED BY <1>1, <1>2, <1>3, <1>4, <1>5, <1>6, <1>8, <1>9, <1>10, <1>11

\* A node with only its child of an edge and its virtual losses changed.
WalkedOn(x, a, to, y) == y = [x EXCEPT !.child[a] = to, !.vl[a] = @ + 1, !.vlVisits = @ + 1]
\* It is booked as before.
LEMMA WalkedIsBooked ==
  ASSUME NEW x, Shaped(x), Booked(x), NEW a \in DOMAIN x.child, NEW to, to # NoNode,
         NEW y, WalkedOn(x, a, to, y)
  PROVE  /\ Booked(y) /\ y.pos = x.pos /\ y.visits = x.visits /\ y.n = x.n /\ y.w = x.w
         /\ y.expanded = x.expanded
         /\ DOMAIN y.child = DOMAIN x.child /\ y.child[a] = to /\ \A b \in DOMAIN x.child : b # a => y.child[b] = x.child[b]
<1> USE DEF WalkedOn
<1>1. DOMAIN x = Fields /\ x.child \in [EdgesOf(x) -> Nat]
  BY DEF Shaped
<1>2. /\ DOMAIN y.child = DOMAIN x.child /\ y.child[a] = to /\ (\A b \in DOMAIN x.child : b # a => y.child[b] = x.child[b])
      /\ y.pos = x.pos /\ y.terminal = x.terminal /\ y.expanded = x.expanded /\ y.pending = x.pending /\ y.leaf = x.leaf
      /\ y.n = x.n /\ y.w = x.w /\ y.visits = x.visits
  BY <1>1 DEF Fields
<1>3. EdgesOf(y) = EdgesOf(x)
  BY <1>2 DEF EdgesOf
<1>4. Booked(y)
  <2>1. \A b \in DOMAIN y.child : y.child[b] = NoNode => y.n[b] = 0 /\ y.w[b] = 0
    BY <1>2 DEF Booked
  <2> QED BY <1>2, <1>3, <2>1 DEF Booked
<1> QED BY <1>2, <1>4

\* A new node has nothing to account for.
LEMMA NewNodeIsBooked ==
  ASSUME NEW p \in Position
  PROVE  /\ Booked(NewNode(p)) /\ NewNode(p).child = <<>> /\ NewNode(p).w = <<>> /\ NewNode(p).visits = 0
         /\ NewNode(p).expanded = FALSE
<1> DEFINE x == NewNode(p)
<1>1. /\ x.pos = p /\ x.terminal = (p \in Over) /\ x.expanded = FALSE /\ x.pending = FALSE
      /\ x.leaf = (IF p \in Over THEN TerminalValue(p) ELSE 0)
      /\ x.child = <<>> /\ x.n = <<>> /\ x.w = <<>> /\ x.visits = 0
  BY DEF NewNode
<1> HIDE DEF x
<1>2. EdgesOf(x) = {}
  BY <1>1 DEF EdgesOf
<1>3. x.w \in [EdgesOf(x) -> Int] /\ DOMAIN x.child = {}
  BY <1>1, <1>2
<1>4. Booked(x)
  <2>1. x.terminal => (x.pos \in Over \/ Moves[x.pos] = <<>>) /\ x.leaf = TerminalValue(x.pos)
    BY Zenon, <1>1
  <2>2. x.terminal \/ x.pos \notin Over
    BY Zenon, <1>1
  <2> QED BY <1>1, <1>3, <2>1, <2>2 DEF Booked
<1> QED BY <1>1, <1>4 DEF x

\* A descent goes on: the tree grows, and the path is one edge longer.
LEMMA StepBooks ==
  ASSUME TreeInv, Step, nodes # <<>>, Books(nodes, round, sims)
  PROVE  Books(nodes', round', sims')
<1>1. PICK a \in Selectable : Walk(a)
  BY DEF Step
<1>2. TreeInv' /\ round.stage = "descend" /\ sims' = sims
  BY Walks DEF Step
<1>3. /\ Arena(nodes) /\ EdgesLead(nodes) /\ Arena(nodes') /\ EdgesLead(nodes') /\ RoundOK(nodes, round)
      /\ RoundOK(nodes', round') /\ (\A j \in DOMAIN nodes : Booked(nodes[j]) /\ Shaped(nodes[j])) /\ HandOK(nodes, round)
      /\ sims \in Nat
  BY <1>2 DEF TreeInv, Structure, Books, Arena
<1> DEFINE i == round.at
           to == round'.at
           path == round.path
<1>4. /\ i \in DOMAIN nodes /\ i \in DOMAIN nodes' /\ a \in DOMAIN nodes[i].child /\ nodes[i].expanded
      /\ \A j \in DOMAIN nodes : j # i => j \in DOMAIN nodes' /\ nodes'[j] = nodes[j]
      /\ nodes'[i] = [nodes[i] EXCEPT !.child[a] = to, !.vl[a] = @ + 1, !.vlVisits = @ + 1]
      /\ nodes[i].child[a] # NoNode => to = nodes[i].child[a]
      /\ \A j \in DOMAIN nodes' : j \notin DOMAIN nodes => \E p \in Position : nodes'[j] = NewNode(p) /\ j = to
      /\ round' = [round EXCEPT !.at = to, !.path = Append(@, <<i, a>>)]
  BY Zenon, <1>1, WalkIs
<1>5. /\ DOMAIN round = {"stage", "due", "at", "path", "descents", "leaves"}
      /\ round'.stage = "descend" /\ round'.path = Append(path, <<i, a>>)
      /\ round'.descents = round.descents /\ round'.leaves = round.leaves
  BY Zenon, <1>2, <1>3, <1>4 DEF RoundOK
<1>6. to \in DOMAIN nodes' /\ to # NoNode /\ 1 \in DOMAIN nodes
  <2>1. nodes' # <<>>
    BY <1>4, <1>3, EmptySeq
  <2>2. to \in DOMAIN nodes'
    BY <1>3, <2>1 DEF RoundOK
  <2>3. 1 \in DOMAIN nodes
    BY <1>3, LenProperties, EmptySeq DEF Arena
  <2> QED BY <1>3, <2>2, <2>3, NoNodeIsNone
<1> HIDE DEF i, to, path
<1>7. /\ Booked(nodes'[i]) /\ nodes'[i].pos = nodes[i].pos /\ nodes'[i].visits = nodes[i].visits
      /\ nodes'[i].n = nodes[i].n /\ nodes'[i].w = nodes[i].w /\ nodes'[i].expanded = nodes[i].expanded
      /\ DOMAIN nodes'[i].child = DOMAIN nodes[i].child /\ nodes'[i].child[a] = to
      /\ \A b \in DOMAIN nodes[i].child : b # a => nodes'[i].child[b] = nodes[i].child[b]
  <2> DEFINE x == nodes[i]
             y == nodes'[i]
  <2>1. Shaped(x) /\ Booked(x) /\ a \in DOMAIN x.child /\ WalkedOn(x, a, to, y)
    BY <1>3, <1>4 DEF WalkedOn
  <2> HIDE DEF x, y
  <2>2. /\ Booked(y) /\ y.pos = x.pos /\ y.visits = x.visits /\ y.n = x.n /\ y.w = x.w
        /\ y.expanded = x.expanded
        /\ DOMAIN y.child = DOMAIN x.child /\ y.child[a] = to /\ \A b \in DOMAIN x.child : b # a => y.child[b] = x.child[b]
    BY <1>6, <2>1, WalkedIsBooked
  <2> QED BY <2>2 DEF x, y
<1>8. \A j \in DOMAIN nodes' : j \notin DOMAIN nodes =>
        /\ Booked(nodes'[j]) /\ nodes'[j].child = <<>> /\ nodes'[j].w = <<>> /\ nodes'[j].visits = 0
        /\ ~nodes'[j].expanded /\ j = to
  <2> TAKE j \in DOMAIN nodes'
  <2> HAVE j \notin DOMAIN nodes
  <2>1. PICK p \in Position : nodes'[j] = NewNode(p) /\ j = to
    BY <1>4
  <2> QED BY Zenon, <2>1, NewNodeIsBooked
<1>9. Ledger(nodes) /\ Ledger(nodes')
  <2>1. \A j \in DOMAIN nodes' : Booked(nodes'[j])
    BY <1>3, <1>4, <1>7, <1>8
  <2> QED BY <1>3, <2>1 DEF Ledger
<1>10. Grows(nodes, nodes')
  <2>1. ASSUME NEW j \in DOMAIN nodes
        PROVE  /\ j \in DOMAIN nodes' /\ nodes'[j].pos = nodes[j].pos /\ nodes'[j].visits = nodes[j].visits
               /\ \A b \in DOMAIN nodes[j].child :
                    /\ b \in DOMAIN nodes'[j].child /\ nodes'[j].n[b] = nodes[j].n[b] /\ nodes'[j].w[b] = nodes[j].w[b]
                    /\ nodes'[j].child[b] = nodes[j].child[b] \/ nodes[j].child[b] = NoNode
               /\ \A b \in DOMAIN nodes'[j].child : b \notin DOMAIN nodes[j].child => nodes'[j].n[b] = 0 /\ nodes'[j].w[b] = 0
    <3>1. CASE j = i
      BY Zenon, <1>4, <1>7, <3>1
    <3>2. CASE j # i
      BY <1>4, <3>2
    <3> QED BY <3>1, <3>2
  <2> QED BY <1>8, <2>1 DEF Grows
<1>11. HandOK(nodes', round')
  <2>1. Chain(nodes', round'.path, to)
    <3>1. Chain(nodes, path, i)
      BY <1>3 DEF HandOK, i, path
    <3>2. Chain(nodes', path, i)
      BY <1>9, <1>10, <3>1, ChainGrows
    <3> DEFINE edge == <<i, a>>
               new == Append(path, edge)
               m == Len(path)
    <3>3. /\ m \in Nat /\ DOMAIN path = 1..m /\ IsList(new) /\ DOMAIN new = 1..(m + 1)
          /\ (\A c \in 1..m : new[c] = path[c]) /\ new[m + 1] = <<i, a>>
      <4>1. IsList(path)
        BY <3>1 DEF Chain
      <4>2. /\ m \in Nat /\ DOMAIN path = 1..m /\ IsList(new) /\ DOMAIN new = 1..(m + 1)
            /\ (\A c \in 1..m : new[c] = path[c]) /\ new[m + 1] = edge
        <5> HIDE DEF edge
        <5> QED BY <4>1, OneMore DEF IsList
      <4> QED BY <4>2
    <3> HIDE DEF new, m
    <3>4. \A k \in 1..(m + 1) : Stop(new, k, to) = Stop(path, k, i)
      <4> TAKE k \in 1..(m + 1)
      <4>1. CASE k \in 1..m
        BY <3>3, <4>1 DEF Stop
      <4>2. CASE k = m + 1
        <5>1. k \notin DOMAIN path /\ k \in DOMAIN new /\ new[k][1] = i
          BY <3>3, <4>2
        <5> QED BY <5>1 DEF Stop
      <4> QED BY <3>3, <4>1, <4>2
    <3>5. Stop(new, (m + 1) + 1, to) = to
      <4>1. (m + 1) + 1 \notin DOMAIN new
        BY <3>3
      <4> QED BY <4>1 DEF Stop
    <3>6. ASSUME NEW k \in DOMAIN new
          PROVE  \E j \in DOMAIN nodes' : \E b \in DOMAIN nodes'[j].child :
                   new[k] = <<j, b>> /\ nodes'[j].child[b] = Stop(new, k + 1, to)
      <4>1. CASE k \in 1..m
        <5>1. k \in DOMAIN path /\ new[k] = path[k] /\ k + 1 \in 1..(m + 1)
          BY <3>3, <4>1
        <5>2. Stop(new, k + 1, to) = Stop(path, k + 1, i)
          BY <3>4, <5>1
        <5> QED BY <3>2, <5>1, <5>2 DEF Chain
      <4>2. CASE k = m + 1
        <5>1. new[k] = <<i, a>> /\ Stop(new, k + 1, to) = to
          BY <3>3, <3>5, <4>2
        <5>2. i \in DOMAIN nodes' /\ a \in DOMAIN nodes'[i].child /\ nodes'[i].child[a] = to
          BY <1>4, <1>7
        <5> QED BY <5>1, <5>2
      <4> QED BY <3>3, <4>1, <4>2
    <3>7. Stop(new, 1, to) = 1
      <4>1. 1 \in 1..(m + 1)
        BY <3>3
      <4>2. Stop(new, 1, to) = Stop(path, 1, i)
        BY <3>4, <4>1
      <4> QED BY <3>1, <4>2 DEF Chain
    <3>8. Chain(nodes', new, to)
      BY <1>6, <3>3, <3>6, <3>7 DEF Chain
    <3> QED BY <1>5, <3>8 DEF new, edge
  <2>2. \A d \in DOMAIN round.descents :
          /\ round.descents[d].leaf \in DOMAIN round.leaves
          /\ Chain(nodes', round.descents[d].path, round.leaves[round.descents[d].leaf].node)
    BY <1>3, <1>9, <1>10, ChainGrows DEF HandOK
  <2>3. \A l \in DOMAIN round.leaves :
          /\ DOMAIN round.leaves[l] = {"node", "valued", "value"} /\ round.leaves[l].node \in DOMAIN nodes'
          /\ round.leaves[l].valued => round.leaves[l].value = WorthToOne(nodes'[round.leaves[l].node].pos)
    BY <1>3, <1>10 DEF HandOK, Grows
  <2> QED BY <1>5, <2>1, <2>2, <2>3 DEF HandOK, to
<1>12. ASSUME FirstTree(nodes, round, sims), NEW j \in DOMAIN nodes' \ {1} PROVE Reached(nodes', round', j)
  <2>0. j # NoNode
    BY <1>3, NoNodeIsNone
  <2>1. CASE j \in DOMAIN nodes
    <3>1. Reached(nodes, round, j)
      BY <1>12, <2>1 DEF FirstTree
    <3>2. nodes'[j].visits = nodes[j].visits /\ nodes'[j].expanded = nodes[j].expanded
      BY Zenon, <1>4, <1>7, <2>1
    <3>3. Arrivals(nodes', j) = Arrivals(nodes, j)
      BY <1>9, <1>10, <2>0, GrowthKeeps
    <3>4. EndsAt(round', j) = EndsAt(round, j)
      BY <1>5 DEF EndsAt
    <3>5. j = i => nodes[j].visits < Arrivals(nodes, j)
      BY <1>2, <1>4, <3>1 DEF Reached
    <3> QED BY <1>2, <3>1, <3>2, <3>3, <3>4, <3>5 DEF Reached, i
  <2>2. CASE j \notin DOMAIN nodes
    BY <1>8, <2>2 DEF Reached, to
  <2> QED BY <2>1, <2>2
<1>13. Books(nodes', round', sims)
  BY <1>3, <1>6, <1>9, <1>10, <1>11, <1>12, BooksGrow
<1> QED BY <1>2, <1>13

\* A descent is recorded: the path goes to the descents, and its leaf is in the batch.
Noted(ns, ms, r, q, leaves, l) ==
  /\ Ledger(ns) /\ Ledger(ms) /\ Grows(ns, ms) /\ DOMAIN ms = DOMAIN ns /\ 1 \in DOMAIN ns
  /\ HandOK(ns, r) /\ r.stage = "descend" /\ IsList(r.descents)
  /\ \A c \in DOMAIN r.leaves : c \in DOMAIN leaves /\ leaves[c] = r.leaves[c]
  /\ \A c \in DOMAIN leaves : c \in DOMAIN r.leaves \/ c = l
  /\ l \in DOMAIN leaves /\ leaves[l].node = r.at /\ DOMAIN leaves[l] = {"node", "valued", "value"}
  /\ leaves[l].valued => leaves[l].value = WorthToOne(ms[r.at].pos)
  /\ \A i \in DOMAIN ms : ms[i].expanded => ns[i].expanded
  /\ q.stage \in {"evaluate", "descend"} /\ q.at = 1 /\ q.path = <<>> /\ q.leaves = leaves
  /\ q.descents = Append(r.descents, [path |-> r.path, leaf |-> l])

\* The books are as they were, with one descent more in hand.
LEMMA RecordBooks ==
  ASSUME NEW ns, NEW ms, NEW r, NEW q, NEW leaves, NEW l, Noted(ns, ms, r, q, leaves, l),
         NEW ran \in Nat, Books(ns, r, ran), ns # <<>>
  PROVE  Books(ms, q, ran)
<1> DEFINE new == [path |-> r.path, leaf |-> l]
           m == Len(r.descents)
<1>1. /\ m \in Nat /\ DOMAIN r.descents = 1..m /\ DOMAIN q.descents = 1..(m + 1)
      /\ (\A d \in 1..m : q.descents[d] = r.descents[d]) /\ q.descents[m + 1] = new
  <2>1. q.descents = Append(r.descents, new) /\ IsList(r.descents)
    BY DEF Noted
  <2> HIDE DEF new
  <2> QED BY <2>1, OneMore DEF IsList
<1>2. new.path = r.path /\ new.leaf = l
  OBVIOUS
<1> HIDE DEF new, m
<1>3. Ledger(ns) /\ Ledger(ms) /\ Grows(ns, ms) /\ HandOK(ns, r) /\ DOMAIN ms = DOMAIN ns /\ 1 \in DOMAIN ns
  BY DEF Noted
<1>4. HandOK(ms, q)
  <2>1. Chain(ms, q.path, q.at)
    <3>1. q.path = <<>> /\ q.at = 1
      BY DEF Noted
    <3>2. IsList(<<>>) /\ DOMAIN <<>> = {}
      BY OwnRange, EmptySeq DEF IsList
    <3>3. 1 \in DOMAIN ms
      BY <1>3
    <3>4. Stop(<<>>, 1, 1) = 1
      BY <3>2 DEF Stop
    <3> QED BY <3>1, <3>2, <3>3, <3>4 DEF Chain
  <2>2. ASSUME NEW d \in DOMAIN q.descents
        PROVE  /\ q.descents[d].leaf \in DOMAIN leaves
               /\ Chain(ms, q.descents[d].path, leaves[q.descents[d].leaf].node)
    <3>1. CASE d \in 1..m
      <4>1. /\ r.descents[d].leaf \in DOMAIN r.leaves
            /\ Chain(ns, r.descents[d].path, r.leaves[r.descents[d].leaf].node)
        BY <1>1, <1>3, <3>1 DEF HandOK
      <4>2. Chain(ms, r.descents[d].path, r.leaves[r.descents[d].leaf].node)
        BY <1>3, <4>1, ChainGrows
      <4> QED BY <1>1, <3>1, <4>1, <4>2 DEF Noted
    <3>2. CASE d = m + 1
      <4>1. Chain(ns, r.path, r.at)
        BY <1>3 DEF HandOK
      <4>2. Chain(ms, r.path, r.at)
        BY <1>3, <4>1, ChainGrows
      <4> QED BY <1>1, <1>2, <3>2, <4>2 DEF Noted
    <3> QED BY <1>1, <3>1, <3>2
  <2>3. ASSUME NEW c \in DOMAIN leaves
        PROVE  /\ DOMAIN leaves[c] = {"node", "valued", "value"} /\ leaves[c].node \in DOMAIN ms
               /\ leaves[c].valued => leaves[c].value = WorthToOne(ms[leaves[c].node].pos)
    <3>1. CASE c \in DOMAIN r.leaves
      <4>1. leaves[c] = r.leaves[c]
        BY <3>1 DEF Noted
      <4>2. /\ DOMAIN r.leaves[c] = {"node", "valued", "value"} /\ r.leaves[c].node \in DOMAIN ns
            /\ r.leaves[c].valued => r.leaves[c].value = WorthToOne(ns[r.leaves[c].node].pos)
        BY <1>3, <3>1 DEF HandOK
      <4> QED BY <1>3, <4>1, <4>2 DEF Grows
    <3>2. CASE c = l
      <4>1. r.at \in DOMAIN ms
        BY <1>3 DEF HandOK, Chain
      <4> QED BY <3>2, <4>1 DEF Noted
    <3> QED BY <3>1, <3>2 DEF Noted
  <2> QED BY <2>1, <2>2, <2>3 DEF HandOK, Noted
<1>5. ASSUME FirstTree(ns, r, ran), NEW i \in DOMAIN ms \ {1} PROVE Reached(ms, q, i)
  <2>1. Reached(ns, r, i) /\ i # NoNode
    BY <1>3, <1>5, NoNodeIsNone DEF FirstTree, Ledger
  <2>2. Arrivals(ms, i) = Arrivals(ns, i)
    BY <1>3, <2>1, GrowthKeeps
  <2>3. ms[i].visits = ns[i].visits
    BY <1>3 DEF Grows
  <2>4. r.at = i => EndsAt(q, i) # {}
    <3> SUFFICES ASSUME r.at = i PROVE EndsAt(q, i) # {}
      OBVIOUS
    <3>1. leaves[l].node = i /\ q.leaves = leaves
      BY DEF Noted
    <3>2. m + 1 \in DOMAIN q.descents /\ q.descents[m + 1].leaf = l
      BY <1>1, <1>2
    <3> QED BY <3>1, <3>2 DEF EndsAt
  <2>5. EndsAt(r, i) # {} => EndsAt(q, i) # {}
    <3> SUFFICES ASSUME NEW d \in EndsAt(r, i) PROVE d \in EndsAt(q, i)
      OBVIOUS
    <3>1. d \in DOMAIN r.descents /\ r.leaves[r.descents[d].leaf].node = i
      BY DEF EndsAt
    <3>2. r.descents[d].leaf \in DOMAIN r.leaves
      BY <1>3, <3>1 DEF HandOK
    <3>3. leaves[r.descents[d].leaf] = r.leaves[r.descents[d].leaf] /\ q.leaves = leaves
      BY <3>2 DEF Noted
    <3>4. d \in DOMAIN q.descents /\ q.descents[d] = r.descents[d]
      BY <1>1, <3>1
    <3> QED BY <3>1, <3>3, <3>4 DEF EndsAt
  <2>6. ms[i].expanded => ns[i].visits < Arrivals(ns, i)
    BY <2>1 DEF Noted, Reached
  <2> QED BY <2>1, <2>2, <2>3, <2>4, <2>5, <2>6 DEF Reached
<1> QED BY <1>3, <1>4, <1>5, BooksGrow

\* What a descent that ends leaves in hand.
LEMMA RecordedIs ==
  ASSUME TreeInv, round.stage = "descend", NEW leaves, NEW l, Recorded(leaves, l)
  PROVE  /\ round'.stage \in {"evaluate", "descend"} /\ round'.at = 1 /\ round'.path = <<>> /\ round'.leaves = leaves
         /\ round'.descents = Append(round.descents, [path |-> round.path, leaf |-> l])
<1>1. DOMAIN round = {"stage", "due", "at", "path", "descents", "leaves"}
  BY DEF TreeInv, RoundOK
<1> QED BY <1>1 DEF Recorded

\* A tree stands as it grew.
LEMMA SameGrows ==
  ASSUME NEW ns
  PROVE  Grows(ns, ns)
BY DEF Grows

\* What the invariants say of a descent under way.
LEMMA InHand ==
  ASSUME TreeInv, ~Resting, Books(nodes, round, sims)
  PROVE  /\ Ledger(nodes) /\ HandOK(nodes, round) /\ 1 \in DOMAIN nodes /\ nodes # <<>> /\ sims \in Nat
         /\ round.at \in DOMAIN nodes /\ Here = nodes[round.at] /\ Shaped(Here) /\ Booked(Here)
         /\ IsList(round.descents) /\ IsList(round.leaves)
<1>1. nodes # <<>> /\ 1 \in DOMAIN nodes /\ round.at \in DOMAIN nodes /\ Here = nodes[round.at]
  BY InRound
<1>2. Arena(nodes) /\ EdgesLead(nodes) /\ RoundOK(nodes, round) /\ sims \in Nat
  BY DEF TreeInv, Structure
<1>3. HandOK(nodes, round) /\ \A i \in DOMAIN nodes : Booked(nodes[i])
  BY <1>1 DEF Books
<1> QED BY <1>1, <1>2, <1>3 DEF Ledger, Arena, RoundOK, IsList

\* One more leaf in the batch.
LEMMA LeafIsIn ==
  ASSUME NEW old, IsList(old), NEW leaf, NEW leaves, leaves = Append(old, leaf), NEW l, l = Len(old) + 1
  PROVE  /\ \A c \in DOMAIN old : c \in DOMAIN leaves /\ leaves[c] = old[c]
         /\ \A c \in DOMAIN leaves : c \in DOMAIN old \/ c = l
         /\ l \in DOMAIN leaves /\ leaves[l] = leaf
BY OneMore DEF IsList

\* A descent ends at a terminal node.
LEMMA TerminalBooks ==
  ASSUME TreeInv, ArriveTerminal, Books(nodes, round, sims)
  PROVE  Books(nodes', round', sims')
<1> DEFINE old == round.leaves
           leaf == [node |-> round.at, valued |-> TRUE, value |-> Here.leaf]
           leaves == Append(old, leaf)
           l == Len(old) + 1
<1>1. /\ round.stage = "descend" /\ Here.terminal /\ Recorded(leaves, l)
      /\ UNCHANGED <<config, nodes, index, collisions, sims, plan>>
  BY DEF ArriveTerminal, RecordLeaf
<1>2. /\ Ledger(nodes) /\ HandOK(nodes, round) /\ 1 \in DOMAIN nodes /\ nodes # <<>> /\ sims \in Nat
      /\ round.at \in DOMAIN nodes /\ Here = nodes[round.at] /\ Shaped(Here) /\ Booked(Here)
      /\ IsList(round.descents) /\ IsList(old)
  BY <1>1, InHand DEF Resting
<1>3. leaf.node = round.at /\ DOMAIN leaf = {"node", "valued", "value"} /\ leaf.value = WorthToOne(Here.pos)
  <2>1. Here.leaf = WorthToOne(Here.pos)
    BY <1>1, <1>2, WorthIs DEF Booked, Shaped
  <2> QED BY <2>1
<1> HIDE DEF leaf, old
<1>4. /\ \A c \in DOMAIN old : c \in DOMAIN leaves /\ leaves[c] = old[c]
      /\ \A c \in DOMAIN leaves : c \in DOMAIN old \/ c = l
      /\ l \in DOMAIN leaves /\ leaves[l] = leaf
  BY <1>2, LeafIsIn
<1> HIDE DEF leaves, l
<1> DEFINE q == round'
<1>5. /\ q.stage \in {"evaluate", "descend"} /\ q.at = 1 /\ q.path = <<>> /\ q.leaves = leaves
      /\ q.descents = Append(round.descents, [path |-> round.path, leaf |-> l])
  BY <1>1, RecordedIs
<1> HIDE DEF q
<1>6. Noted(nodes, nodes, round, q, leaves, l)
  BY <1>1, <1>2, <1>3, <1>4, <1>5, SameGrows DEF Noted, old
<1>7. Books(nodes, q, sims)
  BY <1>2, <1>6, RecordBooks
<1> QED BY <1>1, <1>7 DEF q

\* A descent ends at a node that waits for its evaluation.
LEMMA PendingBooks ==
  ASSUME TreeInv, ArrivePending, Books(nodes, round, sims)
  PROVE  Books(nodes', round', sims')
<1> DEFINE old == round.leaves
           l == CHOOSE c \in Waiting : \A o \in Waiting : c <= o
<1>1. /\ round.stage = "descend" /\ Here.pending /\ Recorded(old, l)
      /\ UNCHANGED <<config, nodes, index, collisions, sims, plan>>
  BY DEF ArrivePending
<1>2. /\ Ledger(nodes) /\ HandOK(nodes, round) /\ 1 \in DOMAIN nodes /\ nodes # <<>> /\ sims \in Nat
      /\ round.at \in DOMAIN nodes /\ Here = nodes[round.at] /\ Shaped(Here) /\ Booked(Here)
      /\ IsList(round.descents) /\ IsList(old)
  BY <1>1, InHand DEF Resting
<1>3. l \in DOMAIN old /\ old[l].node = round.at /\ ~old[l].valued
  <2>1. Waiting \subseteq Nat
    BY <1>2, LenProperties DEF Waiting, IsList
  <2>2. Waiting # {}
    <3>1. \E c \in DOMAIN old : old[c].node = round.at /\ ~old[c].valued
      BY <1>1, <1>2 DEF TreeInv, RoundOK
    <3> QED BY <3>1 DEF Waiting
  <2>3. \E c \in Waiting : \A o \in Waiting : c <= o
    BY Zenon, <2>1, <2>2, LeastNumber
  <2>4. l \in Waiting
    BY <2>3
  <2> QED BY <2>4 DEF Waiting
<1>4. DOMAIN old[l] = {"node", "valued", "value"}
  BY Zenon, <1>2, <1>3 DEF HandOK
<1> HIDE DEF old, l
<1> DEFINE q == round'
<1>5. /\ q.stage \in {"evaluate", "descend"} /\ q.at = 1 /\ q.path = <<>> /\ q.leaves = old
      /\ q.descents = Append(round.descents, [path |-> round.path, leaf |-> l])
  BY <1>1, RecordedIs
<1> HIDE DEF q
<1>6. Noted(nodes, nodes, round, q, old, l)
  BY <1>1, <1>2, <1>3, <1>4, <1>5, SameGrows DEF Noted, old
<1>7. Books(nodes, q, sims)
  BY <1>2, <1>6, RecordBooks
<1> QED BY <1>1, <1>7 DEF q

\* A node not expanded yet, and what begin_expand makes of it: its edges have no credit.
Bare(x) == Shaped(x) /\ Booked(x) /\ ~x.terminal /\ ~x.expanded /\ ~x.pending
Rowed(x, z) ==
  /\ DOMAIN z = Fields /\ z.pos = x.pos /\ z.visits = x.visits /\ z.expanded = FALSE /\ z.pending = FALSE
  /\ z.terminal \in BOOLEAN /\ (z.terminal <=> Moves[x.pos] = <<>>)
  /\ z.terminal => z.leaf = TerminalValue(x.pos)
  /\ z.w \in [DOMAIN Moves[x.pos] -> Int] /\ DOMAIN z.child = DOMAIN Moves[x.pos] /\ DOMAIN x.child = {}
  /\ \A a \in DOMAIN z.child : z.n[a] = 0 /\ z.w[a] = 0

\* begin_expand fills the row.
LEMMA BeginHas ==
  ASSUME NEW x, Bare(x), NEW z, z = BeginExpand(x)
  PROVE  Rowed(x, z)
<1> DEFINE zeros == [a \in DOMAIN Moves[x.pos] |-> 0]
<1>1. DOMAIN x = Fields /\ x.pos \in Position /\ x.expanded = FALSE /\ x.pending = FALSE /\ x.terminal = FALSE /\ Shaped(x) /\ Booked(x)
  BY DEF Bare, Shaped
<1>2. Moves[x.pos] \in Seq(Position)
  BY <1>1, GraphAssumption
<1>3. DOMAIN x.child = {} /\ x.w \in [{} -> Int]
  <2>1. EdgesOf(x) = {}
    BY <1>1 DEF EdgesOf
  <2> QED BY <1>1, <2>1 DEF Shaped, Booked
<1>4. CASE zeros = <<>>
  <2>1. DOMAIN Moves[x.pos] = {}
    <3>1. DOMAIN zeros = {}
      BY <1>4
    <3> QED BY <3>1
  <2>2. Moves[x.pos] = <<>>
    <3>1. Len(Moves[x.pos]) \in Nat /\ DOMAIN Moves[x.pos] = 1..Len(Moves[x.pos])
      BY <1>2, LenProperties
    <3>2. Len(Moves[x.pos]) = 0
      <4>1. \A k \in Nat : 1..k = {} => k = 0
        OBVIOUS
      <4> QED BY Zenon, <2>1, <3>1, <4>1
    <3> QED BY <1>2, <3>2, EmptySeq
  <2>3. z = [x EXCEPT !.terminal = TRUE, !.leaf = TerminalValue(x.pos)]
    BY <1>4 DEF BeginExpand
  <2>4. /\ DOMAIN z = Fields /\ z.pos = x.pos /\ z.visits = x.visits /\ z.expanded = FALSE /\ z.pending = FALSE
        /\ z.terminal = TRUE /\ z.leaf = TerminalValue(x.pos) /\ z.w = x.w /\ z.child = x.child
    BY <1>1, <2>3 DEF Fields
  <2> QED BY Zenon, <1>3, <2>1, <2>2, <2>4 DEF Rowed
<1>5. CASE zeros # <<>>
  <2>1. Moves[x.pos] # <<>>
    <3> SUFFICES ASSUME Moves[x.pos] = <<>> PROVE FALSE
      OBVIOUS
    <3>1. DOMAIN Moves[x.pos] = {}
      BY EmptySeq
    <3>2. DOMAIN zeros = {} /\ zeros = [a \in {} |-> 0]
      BY <3>1
    <3>3. zeros = <<>>
      BY <3>2
    <3> QED BY <1>5, <3>3
  <2>2. z = [x EXCEPT !.child = zeros, !.n = zeros, !.w = zeros, !.vl = zeros]
    BY <1>5 DEF BeginExpand
  <2>3. zeros \in [DOMAIN Moves[x.pos] -> Int] /\ \A a \in DOMAIN zeros : zeros[a] = 0
    OBVIOUS
  <2> HIDE DEF zeros
  <2>4. /\ z.terminal = FALSE /\ DOMAIN z = Fields /\ z.expanded = FALSE /\ z.pending = FALSE
        /\ z.pos = x.pos /\ z.visits = x.visits /\ z.child = zeros /\ z.n = zeros /\ z.w = zeros
    BY <1>1, <2>2 DEF Fields
  <2> QED BY Zenon, <1>3, <2>1, <2>3, <2>4 DEF Rowed
<1> QED BY <1>4, <1>5

\* The node that waits then, or is terminal.
BegunOn(x, y) == y = [BeginExpand(x) EXCEPT !.pending = ~BeginExpand(x).terminal]
\* It is booked as before.
LEMMA BegunIsBooked ==
  ASSUME NEW x, Bare(x), NEW y, BegunOn(x, y)
  PROVE  /\ Booked(y) /\ y.pos = x.pos /\ y.visits = x.visits /\ ~y.expanded
         /\ DOMAIN x.child = {} /\ \A a \in DOMAIN y.child : y.n[a] = 0 /\ y.w[a] = 0
         /\ y.terminal = BeginExpand(x).terminal /\ y.leaf = BeginExpand(x).leaf
         /\ y.terminal => y.leaf = WorthToOne(x.pos)
<1> DEFINE z == BeginExpand(x)
<1>1. y = [z EXCEPT !.pending = ~z.terminal]
  BY DEF BegunOn
<1>2. Bare(x) /\ Shaped(x) /\ Booked(x) /\ x.pos \in Position /\ x.visits \in Nat /\ x.pos \notin Over
  BY DEF Bare, Shaped, Booked
<1>3. z = BeginExpand(x)
  OBVIOUS
<1> HIDE DEF z
<1>4. /\ DOMAIN z = Fields /\ z.pos = x.pos /\ z.visits = x.visits /\ z.expanded = FALSE /\ z.pending = FALSE
      /\ z.terminal \in BOOLEAN /\ (z.terminal <=> Moves[x.pos] = <<>>)
      /\ z.terminal => z.leaf = TerminalValue(x.pos)
      /\ z.w \in [DOMAIN Moves[x.pos] -> Int] /\ DOMAIN z.child = DOMAIN Moves[x.pos] /\ DOMAIN x.child = {}
      /\ \A a \in DOMAIN z.child : z.n[a] = 0 /\ z.w[a] = 0
  <2>1. Rowed(x, z)
    BY <1>2, <1>3, BeginHas
  <2> QED BY <2>1 DEF Rowed
<1>5. /\ y.pos = x.pos /\ y.visits = x.visits /\ y.expanded = FALSE /\ y.terminal = z.terminal /\ y.leaf = z.leaf
      /\ y.w = z.w /\ y.n = z.n /\ y.child = z.child /\ (y.pending <=> ~z.terminal)
  BY Zenon, <1>1, <1>4 DEF Fields
<1>6. EdgesOf(y) = DOMAIN Moves[x.pos]
  <2>1. z.terminal => DOMAIN Moves[x.pos] = {}
    BY <1>4, EmptySeq
  <2> QED BY <1>5, <2>1 DEF EdgesOf
<1>7. Booked(y)
  BY <1>2, <1>4, <1>5, <1>6 DEF Booked
<1> QED BY <1>2, <1>3, <1>4, <1>5, <1>7, WorthIs

\* A descent ends at a node nobody has been at: its expansion begins.
LEMMA NewBooks ==
  ASSUME TreeInv, ArriveNew, Books(nodes, round, sims)
  PROVE  Books(nodes', round', sims')
<1> DEFINE i == round.at
           old == round.leaves
           z == BeginExpand(Here)
           y == [z EXCEPT !.pending = ~z.terminal]
           leaf == [node |-> i, valued |-> z.terminal, value |-> z.leaf]
           leaves == Append(old, leaf)
           l == Len(old) + 1
<1>1. /\ round.stage = "descend" /\ ~Here.terminal /\ ~Here.pending /\ ~Here.expanded
      /\ nodes' = [nodes EXCEPT ![i] = y] /\ Recorded(leaves, l)
      /\ UNCHANGED <<config, index, collisions, sims, plan>>
  BY DEF ArriveNew, RecordLeaf
<1>2. /\ Ledger(nodes) /\ HandOK(nodes, round) /\ 1 \in DOMAIN nodes /\ nodes # <<>> /\ sims \in Nat
      /\ i \in DOMAIN nodes /\ Here = nodes[i] /\ Shaped(Here) /\ Booked(Here)
      /\ IsList(round.descents) /\ IsList(old)
  BY <1>1, InHand DEF Resting
<1>3. /\ Booked(y) /\ y.pos = Here.pos /\ y.visits = Here.visits /\ ~y.expanded
      /\ DOMAIN Here.child = {} /\ (\A a \in DOMAIN y.child : y.n[a] = 0 /\ y.w[a] = 0)
      /\ y.terminal = z.terminal /\ y.leaf = z.leaf /\ (y.terminal => y.leaf = WorthToOne(Here.pos))
  <2>1. BegunOn(Here, y)
    BY DEF BegunOn
  <2>2. Bare(Here)
    BY <1>1, <1>2 DEF Bare
  <2> HIDE DEF y
  <2> QED BY <2>1, <2>2, BegunIsBooked
<1>4. leaf.node = i /\ DOMAIN leaf = {"node", "valued", "value"} /\ (leaf.valued => leaf.value = WorthToOne(Here.pos))
  <2> HIDE DEF z, y
  <2> QED BY <1>3
<1> HIDE DEF leaf, old, y, z
<1>5. /\ \A c \in DOMAIN old : c \in DOMAIN leaves /\ leaves[c] = old[c]
      /\ \A c \in DOMAIN leaves : c \in DOMAIN old \/ c = l
      /\ l \in DOMAIN leaves /\ leaves[l] = leaf
  BY <1>2, LeafIsIn
<1> HIDE DEF leaves, l
<1> DEFINE q == round'
           ms == nodes'
<1>6. /\ q.stage \in {"evaluate", "descend"} /\ q.at = 1 /\ q.path = <<>> /\ q.leaves = leaves
      /\ q.descents = Append(round.descents, [path |-> round.path, leaf |-> l])
  BY <1>1, RecordedIs
<1>7. DOMAIN ms = DOMAIN nodes /\ ms[i] = y /\ \A j \in DOMAIN nodes : j # i => ms[j] = nodes[j]
  BY <1>1, <1>2
<1>8. Arena(ms) /\ EdgesLead(ms)
  BY ArrivesNew DEF TreeInv, Structure
<1> HIDE DEF q, ms, i
<1>9. Ledger(ms)
  <2>1. \A j \in DOMAIN ms : Booked(ms[j])
    BY <1>2, <1>3, <1>7 DEF Ledger
  <2> QED BY <1>8, <2>1 DEF Ledger
<1>10. Grows(nodes, ms)
  <2>1. ASSUME NEW j \in DOMAIN nodes
        PROVE  /\ j \in DOMAIN ms /\ ms[j].pos = nodes[j].pos /\ ms[j].visits = nodes[j].visits
               /\ \A b \in DOMAIN nodes[j].child :
                    /\ b \in DOMAIN ms[j].child /\ ms[j].n[b] = nodes[j].n[b] /\ ms[j].w[b] = nodes[j].w[b]
                    /\ ms[j].child[b] = nodes[j].child[b] \/ nodes[j].child[b] = NoNode
               /\ \A b \in DOMAIN ms[j].child : b \notin DOMAIN nodes[j].child => ms[j].n[b] = 0 /\ ms[j].w[b] = 0
    <3>1. CASE j = i
      BY <1>2, <1>3, <1>7, <3>1
    <3>2. CASE j # i
      BY <1>7, <3>2
    <3> QED BY <3>1, <3>2
  <2> QED BY <1>7, <2>1 DEF Grows
<1>11. \A j \in DOMAIN ms : ms[j].expanded => nodes[j].expanded
  BY <1>3, <1>7
<1>12. Noted(nodes, ms, round, q, leaves, l)
  <2>1. leaves[l].node = round.at /\ (leaves[l].valued => leaves[l].value = WorthToOne(ms[round.at].pos))
    BY <1>2, <1>3, <1>4, <1>5, <1>7 DEF i
  <2> QED BY <1>1, <1>2, <1>4, <1>5, <1>6, <1>7, <1>9, <1>10, <1>11, <2>1 DEF Noted, old
<1>13. Books(ms, q, sims)
  BY <1>2, <1>12, RecordBooks
<1> QED BY <1>1, <1>13 DEF q, ms

\* A round of nothing in hand.
LEMMA NothingInHand ==
  ASSUME NEW ns, 1 \in DOMAIN ns, NEW q, q.at = 1, q.path = <<>>, q.descents = <<>>, q.leaves = <<>>
  PROVE  HandOK(ns, q)
<1>1. IsList(<<>>) /\ DOMAIN <<>> = {}
  BY OwnRange, EmptySeq DEF IsList
<1>2. Stop(<<>>, 1, 1) = 1
  BY <1>1 DEF Stop
<1>3. Chain(ns, <<>>, 1)
  BY <1>1, <1>2 DEF Chain
<1> QED BY <1>1, <1>3 DEF HandOK

\* What is evaluated is worth what the game says.
LEMMA EvaluationBooks ==
  ASSUME TreeInv, EvaluateLeaves, Books(nodes, round, sims)
  PROVE  Books(nodes', round', sims')
<1> DEFINE Waits(i) == \E l \in DOMAIN round.leaves : round.leaves[l].node = i /\ ~round.leaves[l].valued
           Done(x) == [FinishExpand(x) EXCEPT !.pending = FALSE]
           ms == nodes'
           Filled(leaf) == IF leaf.valued THEN leaf
                           ELSE [leaf EXCEPT !.valued = TRUE, !.value = LeafValue(nodes[leaf.node].pos)]
           old == round.leaves
           leaves == [l \in DOMAIN old |-> Filled(old[l])]
           q == round'
<1>1. /\ round.stage = "evaluate" /\ UNCHANGED <<config, index, collisions, sims, plan>>
      /\ ms = [i \in DOMAIN nodes |-> IF Waits(i) THEN Done(nodes[i]) ELSE nodes[i]]
      /\ q = [round EXCEPT !.stage = "backup", !.leaves = leaves]
  BY DEF EvaluateLeaves
<1>2. /\ Ledger(nodes) /\ HandOK(nodes, round) /\ 1 \in DOMAIN nodes /\ nodes # <<>> /\ sims \in Nat
      /\ RoundOK(nodes, round) /\ (\A i \in DOMAIN nodes : Shaped(nodes[i]) /\ Booked(nodes[i]))
  BY <1>1, InHand DEF Resting, TreeInv, Ledger, Arena
<1>3. Arena(ms) /\ EdgesLead(ms)
  BY Evaluates DEF TreeInv, Structure
<1>4. /\ \A i \in DOMAIN nodes : Waits(i) <=> nodes[i].pending
      /\ \A l \in DOMAIN old : ~old[l].valued => old[l].node \in DOMAIN nodes /\ nodes[old[l].node].pending
      /\ DOMAIN round = {"stage", "due", "at", "path", "descents", "leaves"} /\ round.at = 1
  BY Zenon, <1>1, <1>2 DEF RoundOK
<1> HIDE DEF Waits
<1>5. DOMAIN ms = DOMAIN nodes /\ \A i \in DOMAIN nodes : ms[i] = IF Waits(i) THEN Done(nodes[i]) ELSE nodes[i]
  BY <1>1
<1> HIDE DEF ms
<1>6. ASSUME NEW i \in DOMAIN nodes
      PROVE  /\ Booked(ms[i]) /\ ms[i].pos = nodes[i].pos /\ ms[i].visits = nodes[i].visits
             /\ ms[i].child = nodes[i].child /\ ms[i].n = nodes[i].n /\ ms[i].w = nodes[i].w
  <2> DEFINE x == nodes[i]
             y == ms[i]
  <2>1. Shaped(x) /\ Booked(x)
    BY <1>2
  <2>2. CASE ~x.pending
    <3>1. y = x
      BY <1>4, <1>5, <2>2
    <3> HIDE DEF x, y
    <3> QED BY <2>1, <3>1 DEF x, y
  <2>3. CASE x.pending
    <3>1. y = Done(x)
      BY <1>4, <1>5, <2>3
    <3> HIDE DEF x, y
    <3>2. y = [[x EXCEPT !.expanded = TRUE, !.leaf = LeafValue(x.pos)] EXCEPT !.pending = FALSE]
      BY <3>1 DEF FinishExpand
    <3>3. DOMAIN x = Fields /\ x.terminal = FALSE
      BY <2>1, <2>3 DEF Shaped
    <3>4. /\ y.pos = x.pos /\ y.child = x.child /\ y.n = x.n /\ y.w = x.w /\ y.visits = x.visits
          /\ y.terminal = FALSE /\ y.expanded = TRUE
      BY <3>2, <3>3 DEF Fields
    <3>5. EdgesOf(y) = EdgesOf(x)
      BY <2>3, <3>4 DEF EdgesOf
    <3>6. Booked(y)
      BY <2>1, <3>3, <3>4, <3>5 DEF Booked
    <3> QED BY <3>4, <3>6 DEF x, y
  <2> QED BY <2>2, <2>3
<1>7. Ledger(ms)
  BY <1>3, <1>5, <1>6 DEF Ledger
<1>8. Grows(nodes, ms)
  BY <1>5, <1>6 DEF Grows
<1>9. ASSUME NEW l \in DOMAIN old
      PROVE  /\ l \in DOMAIN leaves /\ leaves[l].node = old[l].node /\ DOMAIN leaves[l] = {"node", "valued", "value"}
             /\ leaves[l].valued /\ leaves[l].value = WorthToOne(nodes[old[l].node].pos) /\ old[l].node \in DOMAIN nodes
  <2> DEFINE leaf == old[l]
             filled == leaves[l]
             p == nodes[leaf.node].pos
  <2>1. /\ DOMAIN leaf = {"node", "valued", "value"} /\ leaf.node \in DOMAIN nodes
        /\ leaf.valued => leaf.value = WorthToOne(p)
    BY <1>2 DEF HandOK
  <2>2. filled = Filled(leaf) /\ l \in DOMAIN leaves
    BY Zenon
  <2>3. CASE leaf.valued
    <3>1. filled = leaf
      BY Zenon, <2>2, <2>3
    <3> HIDE DEF leaves, old, leaf, filled, p
    <3> QED BY <2>1, <2>2, <2>3, <3>1 DEF leaf, filled, p
  <2>4. CASE ~leaf.valued
    <3>1. filled = [leaf EXCEPT !.valued = TRUE, !.value = LeafValue(p)]
      BY Zenon, <2>2, <2>4
    <3>2. nodes[leaf.node].pending
      BY <1>4, <2>4
    <3>3. LeafValue(p) = WorthToOne(p)
      <4> DEFINE x == nodes[leaf.node]
      <4>1. Shaped(x) /\ Booked(x) /\ x.pending
        BY <1>2, <2>1, <3>2
      <4> HIDE DEF x
      <4>2. x.pos \in Position /\ x.pos \notin Over /\ Moves[x.pos] # <<>>
        BY <4>1 DEF Shaped, Booked
      <4>3. LeafValue(x.pos) = WorthToOne(x.pos)
        BY <4>2, WorthIs
      <4> QED BY <4>3 DEF x
    <3> HIDE DEF leaves, old, leaf, filled, p
    <3>4. DOMAIN filled = DOMAIN leaf /\ filled.node = leaf.node /\ filled.valued = TRUE /\ filled.value = LeafValue(p)
      BY <2>1, <3>1
    <3> QED BY <2>1, <2>2, <3>3, <3>4 DEF leaf, filled, p
  <2> QED BY Zenon, <2>3, <2>4
<1>10. DOMAIN leaves = DOMAIN old
  OBVIOUS
<1> HIDE DEF leaves, old
<1>11. /\ q.stage = "backup" /\ q.at = 1 /\ q.path = round.path /\ q.descents = round.descents
       /\ q.leaves = leaves
  BY <1>1, <1>4
<1> HIDE DEF q
<1>12. HandOK(ms, q)
  <2>1. Chain(ms, q.path, q.at)
    BY <1>2, <1>4, <1>8, <1>11, ChainGrows DEF HandOK
  <2>2. ASSUME NEW d \in DOMAIN round.descents
        PROVE  /\ round.descents[d].leaf \in DOMAIN leaves
               /\ Chain(ms, round.descents[d].path, leaves[round.descents[d].leaf].node)
    <3>1. /\ round.descents[d].leaf \in DOMAIN old
          /\ Chain(nodes, round.descents[d].path, old[round.descents[d].leaf].node)
      BY <1>2 DEF HandOK, old
    <3>2. leaves[round.descents[d].leaf].node = old[round.descents[d].leaf].node
      BY <1>9, <3>1
    <3> QED BY <1>2, <1>8, <1>10, <3>1, <3>2, ChainGrows
  <2>3. ASSUME NEW l \in DOMAIN leaves
        PROVE  /\ DOMAIN leaves[l] = {"node", "valued", "value"} /\ leaves[l].node \in DOMAIN ms
               /\ leaves[l].valued /\ leaves[l].value = WorthToOne(ms[leaves[l].node].pos)
    BY <1>5, <1>6, <1>9, <1>10
  <2> QED BY <1>11, <2>1, <2>2, <2>3 DEF HandOK
<1>13. ASSUME FirstTree(nodes, round, sims), NEW i \in DOMAIN ms \ {1} PROVE Reached(ms, q, i)
  <2>1. Reached(nodes, round, i) /\ i # NoNode
    BY <1>2, <1>5, <1>13, NoNodeIsNone DEF FirstTree, Ledger
  <2>2. Arrivals(ms, i) = Arrivals(nodes, i) /\ ms[i].visits = nodes[i].visits
    BY <1>2, <1>5, <1>6, <1>7, <1>8, <2>1, GrowthKeeps
  <2>3. EndsAt(round, i) # {} => EndsAt(q, i) # {}
    <3> SUFFICES ASSUME NEW d \in EndsAt(round, i) PROVE d \in EndsAt(q, i)
      OBVIOUS
    <3>1. d \in DOMAIN round.descents /\ old[round.descents[d].leaf].node = i
      BY DEF EndsAt, old
    <3>2. round.descents[d].leaf \in DOMAIN old
      BY <1>2, <3>1 DEF HandOK, old
    <3>3. leaves[round.descents[d].leaf].node = i
      BY <1>9, <3>1, <3>2
    <3> QED BY <1>11, <3>1, <3>3 DEF EndsAt
  <2> QED BY <1>4, <1>11, <2>1, <2>2, <2>3 DEF Reached
<1>14. Books(ms, q, sims)
  BY <1>2, <1>7, <1>8, <1>12, <1>13, BooksGrow
<1> QED BY <1>1, <1>14 DEF ms, q

\* A round begins with nothing in hand.
LEMMA RoundBooks ==
  ASSUME TreeInv, NEW target, SimulateRound(target), nodes # <<>>, Books(nodes, round, sims)
  PROVE  Books(nodes', round', sims')
<1> DEFINE q == round'
<1>1. Resting /\ UNCHANGED <<config, nodes, index, collisions, sims>>
  BY DEF SimulateRound
<1>2. PICK p \in Prepared : q = [AtRest EXCEPT !.stage = "descend", !.due = Clamped(p, target)]
  BY Zenon DEF SimulateRound
<1>3. q.stage = "descend" /\ q.at = 1 /\ q.path = <<>> /\ q.descents = <<>> /\ q.leaves = <<>>
  BY <1>2 DEF AtRest
<1> HIDE DEF q
<1>4. /\ Ledger(nodes) /\ HandOK(nodes, round) /\ 1 \in DOMAIN nodes /\ sims \in Nat
      /\ round.at = 1 /\ round.descents = <<>>
  BY <1>1, EmptySeq, LenProperties DEF TreeInv, Structure, Arena, RoundOK, Ledger, Books, Resting
<1>5. HandOK(nodes, q)
  BY <1>3, <1>4, NothingInHand
<1>6. ASSUME FirstTree(nodes, round, sims), NEW i \in DOMAIN nodes \ {1} PROVE Reached(nodes, q, i)
  <2>1. Reached(nodes, round, i) /\ EndsAt(round, i) = {}
    BY <1>4, <1>6, EmptySeq DEF FirstTree, EndsAt
  <2> QED BY <1>4, <2>1 DEF Reached
<1>7. Books(nodes, q, sims)
  BY <1>4, <1>5, <1>6, SameGrows, BooksGrow
<1> QED BY <1>1, <1>7 DEF q

\* A fresh root is booked, without a visit.
LEMMA RootIsBooked ==
  ASSUME NEW p \in Position, NEW y, y = RootNode(p)
  PROVE  Booked(y) /\ y.visits = 0
<1> DEFINE x == NewNode(p)
<1>1. Shaped(x) /\ x.pos = p /\ ~x.expanded /\ ~x.pending /\ x.terminal = (p \in Over) /\ Booked(x) /\ x.visits = 0
  BY Zenon, NewNodeIs, NewNodeIsBooked
<1>2. CASE p \in Over
  BY <1>1, <1>2 DEF RootNode
<1>3. CASE p \notin Over
  <2> DEFINE z == BeginExpand(x)
  <2>1. y = IF z.terminal THEN z ELSE FinishExpand(z)
    BY <1>3 DEF RootNode, Expand
  <2>2. z = BeginExpand(x) /\ ~x.terminal
    BY Zenon, <1>1, <1>3
  <2> HIDE DEF x, z
  <2>3. /\ DOMAIN z = Fields /\ z.pos = x.pos /\ z.visits = x.visits /\ z.expanded = FALSE /\ z.pending = FALSE
        /\ z.terminal \in BOOLEAN /\ (z.terminal <=> Moves[x.pos] = <<>>)
        /\ z.terminal => z.leaf = TerminalValue(x.pos)
        /\ z.w \in [DOMAIN Moves[x.pos] -> Int] /\ DOMAIN z.child = DOMAIN Moves[x.pos] /\ DOMAIN x.child = {}
        /\ \A a \in DOMAIN z.child : z.n[a] = 0 /\ z.w[a] = 0
    <3>1. Bare(x)
      BY <1>1, <2>2 DEF Bare
    <3>2. Rowed(x, z)
      BY <2>2, <3>1, BeginHas
    <3> QED BY <3>2 DEF Rowed
  <2>4. CASE z.terminal
    <3>1. y = z
      BY <2>1, <2>4
    <3>2. EdgesOf(z) = {} /\ DOMAIN Moves[x.pos] = {}
      BY <2>3, <2>4, EmptySeq DEF EdgesOf
    <3>3. Booked(z)
      BY <1>1, <2>3, <2>4, <3>2 DEF Booked
    <3> QED BY <1>1, <2>3, <3>1, <3>3
  <2>5. CASE ~z.terminal
    <3>1. y = [z EXCEPT !.expanded = TRUE, !.leaf = LeafValue(z.pos)]
      BY <2>1, <2>5 DEF FinishExpand
    <3>2. /\ y.pos = p /\ y.expanded = TRUE /\ y.terminal = FALSE /\ y.visits = 0
          /\ y.child = z.child /\ y.n = z.n /\ y.w = z.w
      BY <1>1, <2>3, <2>5, <3>1 DEF Fields
    <3>3. EdgesOf(y) = DOMAIN Moves[p]
      BY <3>2 DEF EdgesOf
    <3>4. Booked(y)
      BY <1>1, <1>3, <2>3, <3>2, <3>3 DEF Booked
    <3> QED BY <3>2, <3>4
  <2> QED BY <2>4, <2>5
<1> QED BY <1>2, <1>3

\* A new searcher starts a first tree.
LEMMA FreshBooks ==
  ASSUME NEW p \in Position, NewSearcher(p)
  PROVE  Books(nodes', round', sims')
<1> DEFINE ms == nodes'
           q == round'
<1>1. ms = <<RootNode(p)>> /\ q = AtRest /\ sims' = 0
  BY DEF NewSearcher
<1>2. DOMAIN ms = {1} /\ ms[1] = RootNode(p)
  BY <1>1
<1>3. q.stage = "rest" /\ q.at = 1 /\ q.path = <<>> /\ q.descents = <<>> /\ q.leaves = <<>>
  BY <1>1 DEF AtRest
<1> HIDE DEF ms, q
<1>4. Booked(ms[1]) /\ ms[1].visits = 0
  BY <1>2, RootIsBooked
<1>5. HandOK(ms, q)
  BY <1>2, <1>3, NothingInHand
<1>6. FirstTree(ms, q, 0)
  BY <1>2, <1>4 DEF FirstTree
<1>7. Books(ms, q, 0)
  BY <1>2, <1>4, <1>5, <1>6 DEF Books
<1> QED BY <1>1, <1>7 DEF ms, q

\* Without a tree there are no books.
LEMMA DroppedBooks ==
  ASSUME Drop
  PROVE  Books(nodes', round', sims')
BY DEF Drop, Books

\* A re-rooted tree has lost visits.
LEMMA RebasedBooks ==
  ASSUME TreeInv, Resting, NEW a, Rebase(a), nodes # <<>>, Books(nodes, round, sims)
  PROVE  Books(nodes', round', sims')
<1> DEFINE c == nodes[1].child[a]
           order == Survivors(c)
           Moved(k) == [nodes[order[k]] EXCEPT
                          !.child = [e \in DOMAIN nodes[order[k]].child |-> Number(order, nodes[order[k]].child[e])]]
           ms == nodes'
<1>1. /\ a \in DOMAIN nodes[1].child /\ c # NoNode /\ UNCHANGED <<sims, round>>
      /\ ms = [k \in DOMAIN order |-> Moved(k)]
  BY Zenon DEF Rebase, CanRebase, Kept, Renumbered, Number
<1>2. /\ Arena(nodes) /\ EdgesLead(nodes) /\ RootIsShallowest(nodes) /\ RoundOK(nodes, round) /\ sims \in Nat
      /\ 1 \in DOMAIN nodes /\ (\A i \in DOMAIN nodes : Shaped(nodes[i]) /\ Booked(nodes[i])) /\ HandOK(nodes, round)
      /\ FirstTree(nodes, round, sims) \/ CarriedTree(nodes, sims)
  BY EmptySeq, LenProperties DEF TreeInv, Structure, Arena, Books
<1>3. c \in DOMAIN nodes /\ c # 1
  <2>1. c \in DOMAIN nodes
    BY <1>1, <1>2 DEF EdgesLead
  <2>2. c # 1
    BY <1>1, <1>2, RootHasNoParent
  <2> QED BY <2>1, <2>2
<1>4. /\ round.at = 1 /\ round.path = <<>> /\ round.descents = <<>> /\ round.leaves = <<>> /\ round.stage = "rest"
  BY <1>2 DEF Resting, RoundOK, HandOK
<1> HIDE DEF c
<1>5. \A j \in Below(c) : j \in DOMAIN nodes /\ j # 1
  <2>1. /\ Below(c) \subseteq DOMAIN nodes
        /\ \A j \in Below(c) \ {c} : Depth[nodes[j].pos] > Depth[nodes[c].pos]
    BY <1>2, <1>3, BelowIs
  <2> SUFFICES ASSUME 1 \in Below(c) PROVE FALSE
    BY <2>1
  <2>2. Depth[nodes[1].pos] > Depth[nodes[c].pos]
    BY <1>3, <2>1
  <2>3. Depth[nodes[c].pos] > Depth[nodes[1].pos]
    BY <1>2, <1>3 DEF RootIsShallowest
  <2>4. Depth[nodes[1].pos] \in Nat /\ Depth[nodes[c].pos] \in Nat
    BY <1>2, <1>3, GraphAssumption DEF Shaped
  <2> QED BY <2>2, <2>3, <2>4
<1>6. /\ Len(order) \in Nat /\ DOMAIN order = 1..Len(order) /\ 1 \in DOMAIN order
      /\ \A k \in DOMAIN order : order[k] \in Below(c)
      /\ \A j \in Below(c) : \E k \in DOMAIN order : order[k] = j
  BY <1>2, <1>3, SurvivorsAre
<1>7. \A k \in DOMAIN order : \A e \in DOMAIN nodes[order[k]].child :
        Number(order, nodes[order[k]].child[e]) = NoNode => nodes[order[k]].child[e] = NoNode
  <2> TAKE k \in DOMAIN order
  <2> TAKE e \in DOMAIN nodes[order[k]].child
  <2> DEFINE j == nodes[order[k]].child[e]
  <2> HAVE Number(order, j) = NoNode
  <2> SUFFICES ASSUME j # NoNode PROVE FALSE
    OBVIOUS
  <2>1. j \in Below(c)
    <3>1. order[k] \in Below(c) /\ order[k] \in DOMAIN nodes
      BY <1>5, <1>6
    <3>2. j \in Kids(order[k])
      BY DEF Kids
    <3>3. Kids(order[k]) \subseteq Below(c)
      BY <1>2, <1>3, <3>1, BelowIs
    <3> QED BY <3>2, <3>3
  <2> HIDE DEF j, order
  <2>2. Number(order, j) \in DOMAIN order
    BY <1>6, <2>1 DEF Number
  <2> QED BY <1>6, <2>2 DEF NoNode
<1>8. ASSUME FirstTree(nodes, round, sims), NEW j \in DOMAIN nodes, j # 1 PROVE nodes[j].visits < sims
  <2>1. Conserved(nodes, j, sims) /\ Reached(nodes, round, j)
    BY <1>8 DEF FirstTree
  <2>2. EndsAt(round, j) = {}
    BY <1>4, EmptySeq DEF EndsAt
  <2>3. nodes[j].visits < Arrivals(nodes, j)
    BY <1>4, <1>8, <2>1, <2>2 DEF Reached
  <2>4. nodes[j].visits \in Nat /\ Arrivals(nodes, j) \in Int
    BY <1>2, CreditsAreInts DEF Booked
  <2> QED BY <1>2, <2>1, <2>3, <2>4 DEF Conserved
<1>9. DOMAIN ms = DOMAIN order /\ \A k \in DOMAIN order : ms[k] = Moved(k)
  BY <1>1
<1> HIDE DEF ms, order
<1>10. ASSUME NEW k \in DOMAIN ms PROVE Booked(ms[k]) /\ ms[k].visits < sims
  <2> DEFINE x == nodes[order[k]]
             y == ms[k]
             child == [e \in DOMAIN x.child |-> Number(order, x.child[e])]
  <2>1. order[k] \in DOMAIN nodes /\ order[k] # 1
    BY <1>5, <1>6, <1>9
  <2>2. Shaped(x) /\ Booked(x) /\ x.visits < sims
    BY <1>2, <1>8, <2>1 DEF CarriedTree
  <2>3. y = [x EXCEPT !.child = child]
    BY <1>9
  <2>4. DOMAIN child = DOMAIN x.child /\ \A e \in DOMAIN child : child[e] = NoNode => x.child[e] = NoNode
    BY <1>7, <1>9
  <2> HIDE DEF child, x, y
  <2>5. DOMAIN x = Fields
    BY <2>2 DEF Shaped
  <2>6. /\ y.pos = x.pos /\ y.child = child /\ y.n = x.n /\ y.w = x.w /\ y.terminal = x.terminal /\ y.leaf = x.leaf
        /\ y.expanded = x.expanded /\ y.pending = x.pending /\ y.visits = x.visits
    BY <2>3, <2>5 DEF Fields
  <2>7. EdgesOf(y) = EdgesOf(x)
    BY <2>6 DEF EdgesOf
  <2>8. Booked(y)
    BY <2>2, <2>4, <2>6, <2>7 DEF Booked
  <2> QED BY <2>2, <2>6, <2>8 DEF y
<1>11. HandOK(ms, round)
  BY <1>4, <1>6, <1>9, NothingInHand
<1>12. Books(ms, round, sims)
  BY <1>10, <1>11 DEF Books, CarriedTree
<1> QED BY <1>1, <1>12 DEF ms

-----------------------------------------------------------------------------
(* The backup *)

\* What the descents of the round end with, and those that go on from a node.
ValueOf == [d \in DOMAIN round.descents |-> round.leaves[round.descents[d].leaf].value]
EndOf(d) == round.leaves[round.descents[d].leaf].node
Passed(i) == UNION {Through(i, a) : a \in DOMAIN nodes[i].child}

\* The books as a backup finds them.
InBackup ==
  /\ Ledger(nodes) /\ 1 \in DOMAIN nodes /\ nodes # <<>> /\ sims \in Nat /\ round.at = 1
  /\ \A i \in DOMAIN nodes : Shaped(nodes[i]) /\ Booked(nodes[i])
  /\ Len(round.descents) \in Nat \ {0} /\ DOMAIN round.descents = 1..Len(round.descents)
  /\ IsFiniteSet(DOMAIN round.descents) /\ Cardinality(DOMAIN round.descents) = Len(round.descents)
  /\ \A d \in DOMAIN round.descents :
       /\ Chain(nodes, round.descents[d].path, EndOf(d)) /\ EndOf(d) \in DOMAIN nodes
       /\ ValueOf[d] = WorthToOne(nodes[EndOf(d)].pos) /\ ValueOf[d] \in Int
       /\ \E a \in DOMAIN nodes[1].child : Takes(round.descents[d].path, <<1, a>>)

\* A backup finds the books so.
LEMMA BackupFinds ==
  ASSUME TreeInv, round.stage = "backup", Books(nodes, round, sims)
  PROVE  InBackup
<1> DEFINE K == Len(round.descents)
           D == DOMAIN round.descents
<1>1. /\ Ledger(nodes) /\ HandOK(nodes, round) /\ 1 \in DOMAIN nodes /\ nodes # <<>> /\ sims \in Nat
      /\ IsList(round.descents) /\ RoundOK(nodes, round) /\ Arena(nodes)
  BY InHand DEF Resting, TreeInv
<1>2. \A i \in DOMAIN nodes : Shaped(nodes[i]) /\ Booked(nodes[i])
  BY <1>1 DEF Arena, Books
<1>3. round.at = 1 /\ round.descents # <<>> /\ \A d \in D : LeavesTheRoot(nodes, round.descents[d].path)
  BY <1>1 DEF RoundOK
<1>4. K \in Nat /\ K # 0 /\ D = 1..K
  BY <1>1, <1>3, EmptySeq, LenProperties DEF IsList
<1>5. IsFiniteSet(D) /\ Cardinality(D) = K
  <2> HIDE DEF K
  <2>1. IsFiniteSet(1..K) /\ Cardinality(1..K) = K
    <3> DEFINE one == 1
    <3>1. one \in Int /\ K \in Int /\ one <= K /\ K - one + 1 = K
      BY <1>4
    <3>2. IsFiniteSet(one..K) /\ Cardinality(one..K) = IF one > K THEN 0 ELSE K - one + 1
      <4> HIDE DEF one
      <4> QED BY <3>1, FS_Interval
    <3> QED BY <1>4, <3>1, <3>2
  <2> QED BY <1>4, <2>1
<1>6. ASSUME NEW d \in D
      PROVE  /\ Chain(nodes, round.descents[d].path, EndOf(d)) /\ EndOf(d) \in DOMAIN nodes
             /\ ValueOf[d] = WorthToOne(nodes[EndOf(d)].pos) /\ ValueOf[d] \in Int
             /\ \E a \in DOMAIN nodes[1].child : Takes(round.descents[d].path, <<1, a>>)
  <2> DEFINE path == round.descents[d].path
             l == round.descents[d].leaf
  <2>1. l \in DOMAIN round.leaves /\ Chain(nodes, path, round.leaves[l].node)
    BY <1>1 DEF HandOK
  <2>2. round.leaves[l].node \in DOMAIN nodes /\ round.leaves[l].value = WorthToOne(nodes[round.leaves[l].node].pos)
    BY <1>1, <2>1 DEF HandOK
  <2>3. nodes[round.leaves[l].node].pos \in Position
    BY <1>2, <2>2 DEF Shaped
  <2>4. ValueOf[d] = round.leaves[l].value
    BY DEF ValueOf
  <2>5. WorthToOne(nodes[round.leaves[l].node].pos) \in Int
    BY <2>3, WorthIs
  <2>6. \E a \in DOMAIN nodes[1].child : Takes(path, <<1, a>>)
    <3>1. path # <<>> /\ \E a \in DOMAIN nodes[1].child : path[1] = <<1, a>>
      BY Zenon, <1>3 DEF LeavesTheRoot
    <3>2. 1 \in DOMAIN path
      BY <2>1, <3>1, EmptySeq, LenProperties DEF Chain, IsList
    <3> QED BY <3>1, <3>2 DEF Takes
  <2> HIDE DEF path, l
  <2>7. Chain(nodes, path, EndOf(d)) /\ EndOf(d) = round.leaves[l].node
    BY <2>1 DEF EndOf, l
  <2> QED BY <2>2, <2>4, <2>5, <2>6, <2>7 DEF path
<1> HIDE DEF D, K
<1> QED BY <1>1, <1>2, <1>3, <1>4, <1>5, <1>6 DEF InBackup, D, K

\* What the backup makes of a node.
CreditedOn(i, x, y) ==
  /\ y.pos = x.pos /\ y.child = x.child /\ y.terminal = x.terminal /\ y.expanded = x.expanded
  /\ y.pending = x.pending /\ y.leaf = x.leaf
  /\ y.visits = x.visits + Cardinality(Passed(i))
  /\ DOMAIN y.n = DOMAIN x.child /\ \A a \in DOMAIN x.child : y.n[a] = x.n[a] + Cardinality(Through(i, a))
  /\ y.w = [a \in DOMAIN x.child |-> x.w[a] + SumOn(ValueOf, Through(i, a))]

\* Every node is credited so.
LEMMA CreditedIs ==
  ASSUME InBackup, NEW i \in DOMAIN nodes, NEW y, y = Credited(i)
  PROVE  CreditedOn(i, nodes[i], y)
<1> DEFINE x == nodes[i]
           hits == [a \in DOMAIN x.child |-> Through(i, a)]
           count == [a \in DOMAIN x.child |-> Cardinality(hits[a])]
           total == Cardinality(UNION {hits[a] : a \in DOMAIN hits})
           worth == [a \in DOMAIN x.child |-> Worth(hits[a])]
           n == [a \in DOMAIN x.n |-> x.n[a] + count[a]]
           w == [a \in DOMAIN x.w |-> x.w[a] + Worth(hits[a])]
<1>1. DOMAIN x = Fields /\ DOMAIN x.n = DOMAIN x.child /\ DOMAIN x.w = DOMAIN x.child
  <2>1. Shaped(x) /\ Booked(x)
    BY DEF InBackup
  <2> QED BY <2>1, RowIs DEF Shaped
<1>2. y = [x EXCEPT !.visits = @ + total, !.vlVisits = @ - total,
                    !.n = [a \in DOMAIN @ |-> @[a] + count[a]],
                    !.vl = [a \in DOMAIN @ |-> @[a] - count[a]],
                    !.w = [a \in DOMAIN @ |-> @[a] + Worth(hits[a])]]
  BY DEF Credited
<1>3. /\ y.pos = x.pos /\ y.child = x.child /\ y.terminal = x.terminal /\ y.expanded = x.expanded
      /\ y.pending = x.pending /\ y.leaf = x.leaf /\ y.visits = x.visits + total /\ y.n = n /\ y.w = w
  <2> HIDE DEF x, hits, count, total
  <2> QED BY <1>1, <1>2 DEF Fields
<1>4. total = Cardinality(Passed(i))
  <2>1. UNION {hits[a] : a \in DOMAIN hits} = Passed(i)
    BY Zenon DEF Passed
  <2> QED BY Zenon, <2>1
<1>5. \A a \in DOMAIN x.child : count[a] = Cardinality(Through(i, a)) /\ hits[a] = Through(i, a)
  OBVIOUS
<1>6. ASSUME NEW a \in DOMAIN x.child PROVE Worth(Through(i, a)) = SumOn(ValueOf, Through(i, a))
  <2> DEFINE S == Through(i, a)
             v == [d \in S |-> round.leaves[round.descents[d].leaf].value]
  <2>1. S \subseteq DOMAIN round.descents /\ IsFiniteSet(S)
    <3>1. S \subseteq DOMAIN round.descents
      BY DEF Through
    <3> QED BY <3>1, FS_Subset DEF InBackup
  <2>2. Worth(S) = SumOn(v, DOMAIN v) /\ DOMAIN v = S
    BY TotalIs DEF Worth
  <2>3. \A d \in S : v[d] = ValueOf[d]
    BY <2>1 DEF ValueOf
  <2> HIDE DEF S, v
  <2>4. SumOn(v, S) = SumOn(ValueOf, S)
    BY <2>1, <2>3, SameSum
  <2> QED BY <2>2, <2>4 DEF S
<1>7. /\ DOMAIN n = DOMAIN x.child /\ \A a \in DOMAIN x.child : n[a] = x.n[a] + Cardinality(Through(i, a))
  BY <1>1, <1>5
<1>8. w = [a \in DOMAIN x.child |-> x.w[a] + SumOn(ValueOf, Through(i, a))]
  BY <1>1, <1>5, <1>6
<1> HIDE DEF n, w, total, x
<1> QED BY <1>3, <1>4, <1>7, <1>8 DEF CreditedOn, x

\* A descent takes an edge when its path does.
LEMMA ThroughIs ==
  ASSUME NEW d \in DOMAIN round.descents, NEW i, NEW a
  PROVE  d \in Through(i, a) <=> Takes(round.descents[d].path, <<i, a>>)
BY DEF Through, Takes

\* The descents that take an edge into a node, edge by edge, and those that take an edge of it.
PartsInto(i) == [e \in Into(nodes, i) |-> Through(e[1], e[2])]
PartsOf(i) == [a \in DOMAIN nodes[i].child |-> Through(i, a)]

\* The descents that come to a node are those that go on and those that end, and each comes by one edge.
LEMMA DescentsPass ==
  ASSUME InBackup, NEW i \in DOMAIN nodes, i # 1
  PROVE  /\ Parts(PartsInto(i), Into(nodes, i), DOMAIN round.descents)
         /\ Parts(PartsOf(i), DOMAIN nodes[i].child, DOMAIN round.descents)
         /\ AllOf(PartsInto(i), Into(nodes, i)) = Passed(i) \cup EndsAt(round, i)
         /\ AllOf(PartsOf(i), DOMAIN nodes[i].child) = Passed(i)
         /\ Passed(i) \cap EndsAt(round, i) = {}
         /\ Passed(i) \subseteq DOMAIN round.descents /\ EndsAt(round, i) \subseteq DOMAIN round.descents
<1> DEFINE D == DOMAIN round.descents
           E == Into(nodes, i)
           C == DOMAIN nodes[i].child
           path(d) == round.descents[d].path
<1>1. /\ Arena(nodes) /\ EdgesLead(nodes) /\ IsFiniteSet(D) /\ Shaped(nodes[i]) /\ Booked(nodes[i])
      /\ \A d \in D : Chain(nodes, path(d), EndOf(d))
  BY DEF InBackup, Ledger
<1>2. IsFiniteSet(E) /\ IsFiniteSet(C) /\ \A e \in E : e = <<e[1], e[2]>>
  BY <1>1, IntoIs, RowIs
<1>3. ASSUME NEW d \in D
      PROVE  /\ \A e, u \in E : Takes(path(d), e) /\ Takes(path(d), u) => e = u
             /\ \A a, b \in C : Takes(path(d), <<i, a>>) /\ Takes(path(d), <<i, b>>) => a = b
             /\ (\E e \in E : Takes(path(d), e)) <=> ((\E a \in C : Takes(path(d), <<i, a>>)) \/ EndOf(d) = i)
             /\ ~((\E a \in C : Takes(path(d), <<i, a>>)) /\ EndOf(d) = i)
  <2> DEFINE p == path(d)
             end == EndOf(d)
  <2>1. Chain(nodes, p, end)
    BY <1>1
  <2> HIDE DEF p, end
  <2>2. /\ \A e, u \in E : Takes(p, e) /\ Takes(p, u) => e = u
        /\ \A a, b \in C : Takes(p, <<i, a>>) /\ Takes(p, <<i, b>>) => a = b
        /\ (\E e \in E : Takes(p, e)) <=> ((\E a \in C : Takes(p, <<i, a>>)) \/ end = i)
        /\ ~((\E a \in C : Takes(p, <<i, a>>)) /\ end = i)
    BY Zenon, <1>1, <2>1, PathsPass
  <2> QED BY Zenon, <2>2 DEF p, end
<1>4. \A e \in E : \A d : d \in PartsInto(i)[e] <=> d \in D /\ Takes(path(d), e)
  <2> SUFFICES ASSUME NEW e \in E, NEW d PROVE d \in PartsInto(i)[e] <=> d \in D /\ Takes(path(d), e)
    OBVIOUS
  <2>1. PartsInto(i)[e] = Through(e[1], e[2]) /\ e = <<e[1], e[2]>>
    BY <1>2 DEF PartsInto
  <2>2. Through(e[1], e[2]) \subseteq D
    BY DEF Through
  <2> QED BY <2>1, <2>2, ThroughIs
<1>5. \A a \in C : \A d : d \in PartsOf(i)[a] <=> d \in D /\ Takes(path(d), <<i, a>>)
  <2> SUFFICES ASSUME NEW a \in C, NEW d PROVE d \in PartsOf(i)[a] <=> d \in D /\ Takes(path(d), <<i, a>>)
    OBVIOUS
  <2>1. PartsOf(i)[a] = Through(i, a)
    BY DEF PartsOf
  <2>2. Through(i, a) \subseteq D
    BY DEF Through
  <2> QED BY <2>1, <2>2, ThroughIs
<1>6. \A d : d \in EndsAt(round, i) <=> d \in D /\ EndOf(d) = i
  BY DEF EndsAt, EndOf
<1>7. \A d : d \in Passed(i) <=> d \in D /\ \E a \in C : Takes(path(d), <<i, a>>)
  <2>1. \A d : d \in Passed(i) <=> \E a \in C : d \in PartsOf(i)[a]
    BY Zenon DEF Passed, PartsOf
  <2> QED BY Zenon, <1>5, <2>1
<1> HIDE DEF D, E, C, path
<1>8. Parts(PartsInto(i), E, D)
  <2>1. \A e \in E : PartsInto(i)[e] \subseteq D
    BY <1>4
  <2>2. \A e, u \in E : e # u => PartsInto(i)[e] \cap PartsInto(i)[u] = {}
    BY <1>3, <1>4
  <2> QED BY <1>1, <1>2, <2>1, <2>2 DEF Parts
<1>9. Parts(PartsOf(i), C, D)
  <2>1. \A a \in C : PartsOf(i)[a] \subseteq D
    BY Zenon, <1>5
  <2>2. \A a, b \in C : a # b => PartsOf(i)[a] \cap PartsOf(i)[b] = {}
    BY Zenon, <1>3, <1>5
  <2> QED BY <1>1, <1>2, <2>1, <2>2 DEF Parts
<1>10. AllOf(PartsOf(i), C) = Passed(i)
  <2>1. \A d : d \in AllOf(PartsOf(i), C) <=> \E a \in C : d \in PartsOf(i)[a]
    BY DEF AllOf
  <2> QED BY Zenon, <1>5, <1>7, <2>1
<1>11. AllOf(PartsInto(i), E) = Passed(i) \cup EndsAt(round, i)
  <2>1. \A d : d \in AllOf(PartsInto(i), E) <=> \E e \in E : d \in PartsInto(i)[e]
    BY DEF AllOf
  <2>2. \A d : d \in AllOf(PartsInto(i), E) <=> d \in D /\ \E e \in E : Takes(path(d), e)
    BY <1>4, <2>1
  <2>3. \A d : d \in AllOf(PartsInto(i), E) <=> d \in Passed(i) \cup EndsAt(round, i)
    BY <1>3, <1>6, <1>7, <2>2
  <2> QED BY <2>3
<1>12. Passed(i) \cap EndsAt(round, i) = {} /\ Passed(i) \subseteq D /\ EndsAt(round, i) \subseteq D
  BY <1>3, <1>6, <1>7
<1> QED BY <1>8, <1>9, <1>10, <1>11, <1>12 DEF D, E, C

\* All descents go on from the root.
LEMMA RootPasses ==
  ASSUME InBackup
  PROVE  Cardinality(Passed(1)) = Len(round.descents)
<1>1. Passed(1) = DOMAIN round.descents
  <2>1. Passed(1) \subseteq DOMAIN round.descents
    BY DEF Passed, Through
  <2>2. ASSUME NEW d \in DOMAIN round.descents PROVE d \in Passed(1)
    <3>1. PICK a \in DOMAIN nodes[1].child : Takes(round.descents[d].path, <<1, a>>)
      BY Zenon DEF InBackup
    <3>2. d \in Through(1, a)
      BY <3>1, ThroughIs
    <3> QED BY <3>2 DEF Passed
  <2> QED BY <2>1, <2>2
<1> QED BY <1>1 DEF InBackup

\* What a node's books say after the backup.
\* Its descents are counted, some going on and some ending, and they are worth what they bring.
Flows(i, y, on, ended, worth) ==
  /\ on \in Nat /\ ended \in Nat /\ worth \in Int
  /\ on + ended <= Len(round.descents) /\ (EndsAt(round, i) # {} => ended # 0)
  /\ y.visits = nodes[i].visits + on
  /\ Total(y.w) = Total(nodes[i].w) + worth
  /\ Total(nodes[i].w) \in Int
  /\ Arrivals(nodes, i) \in Int /\ Arrivals(nodes', i) = Arrivals(nodes, i) + on + ended
  /\ Brought(nodes, i) \in Int
  /\ Brought(nodes', i) = Brought(nodes, i) + worth + ended * WorthToOne(nodes[i].pos)

\* The backup keeps the node's balance.
LEMMA CreditsFlow ==
  ASSUME InBackup, DOMAIN nodes' = DOMAIN nodes,
         \A j \in DOMAIN nodes : CreditedOn(j, nodes[j], nodes'[j]),
         NEW i \in DOMAIN nodes, i # 1, NEW y, y = nodes'[i]
  PROVE  \E on, ended, worth : Flows(i, y, on, ended, worth)
<1> DEFINE D == DOMAIN round.descents
           E == Into(nodes, i)
           C == DOMAIN nodes[i].child
           on == Cardinality(Passed(i))
           ended == Cardinality(EndsAt(round, i))
           worth == SumOn(ValueOf, Passed(i))
           W == WorthToOne(nodes[i].pos)
           n0 == [e \in E |-> nodes[e[1]].n[e[2]]]
           n1 == [e \in E |-> nodes'[e[1]].n[e[2]]]
           w0 == [e \in E |-> nodes[e[1]].w[e[2]]]
           w1 == [e \in E |-> nodes'[e[1]].w[e[2]]]
           ones == [d \in D |-> 1]
           all == Passed(i) \cup EndsAt(round, i)
<1>1. /\ Parts(PartsInto(i), E, D) /\ Parts(PartsOf(i), C, D)
      /\ AllOf(PartsInto(i), E) = all /\ AllOf(PartsOf(i), C) = Passed(i)
      /\ Passed(i) \cap EndsAt(round, i) = {} /\ Passed(i) \subseteq D /\ EndsAt(round, i) \subseteq D
  BY DescentsPass
<1>2. /\ Arena(nodes) /\ IsFiniteSet(D) /\ Cardinality(D) = Len(round.descents) /\ Len(round.descents) \in Nat
      /\ Shaped(nodes[i]) /\ Booked(nodes[i]) /\ \A j \in DOMAIN nodes : Shaped(nodes[j]) /\ Booked(nodes[j])
      /\ \A d \in D : ValueOf[d] \in Int /\ ones[d] \in Int
  BY DEF InBackup, Ledger
<1>3. IsFiniteSet(Passed(i)) /\ IsFiniteSet(EndsAt(round, i)) /\ IsFiniteSet(all) /\ all \subseteq D
  BY <1>1, <1>2, FS_Subset
<1>4. /\ \A e \in E : e[1] \in DOMAIN nodes /\ e[2] \in DOMAIN nodes[e[1]].child /\ PartsInto(i)[e] = Through(e[1], e[2])
      /\ IsFiniteSet(E) /\ \A e \in E : IsFiniteSet(PartsInto(i)[e]) /\ PartsInto(i)[e] \subseteq D
  BY <1>1, <1>2, IntoIs, FS_Subset DEF PartsInto, Parts
<1>5. Into(nodes', i) = E
  <2>1. \A j \in DOMAIN nodes : nodes'[j].child = nodes[j].child
    BY Zenon DEF CreditedOn
  <2> QED BY <2>1 DEF Into
<1>6. Arrivals(nodes, i) = SumOn(n0, E) /\ Brought(nodes, i) = SumOn(w0, E)
  BY TotalIs DEF Arrivals, Brought
<1>7. Arrivals(nodes', i) = SumOn(n1, E) /\ Brought(nodes', i) = SumOn(w1, E)
  BY <1>5, TotalIs DEF Arrivals, Brought
<1>8. \A e \in E : n0[e] \in Int /\ w0[e] \in Int
  BY <1>2, CreditsAreInts
<1>9. \A S : S \subseteq D => Cardinality(S) \in Nat /\ SumOn(ones, S) = Cardinality(S)
  <2> SUFFICES ASSUME NEW S, S \subseteq D PROVE Cardinality(S) \in Nat /\ SumOn(ones, S) = Cardinality(S)
    OBVIOUS
  <2>1. IsFiniteSet(S) /\ \A d \in S : ones[d] = 1
    BY <1>2, FS_Subset
  <2> HIDE DEF ones, D
  <2> QED BY <2>1, SumOfOnes
<1>10. \A e \in E : n1[e] = n0[e] + SumOn(ones, PartsInto(i)[e]) /\ w1[e] = w0[e] + SumOn(ValueOf, PartsInto(i)[e])
  <2> SUFFICES ASSUME NEW e \in E
               PROVE  n1[e] = n0[e] + SumOn(ones, PartsInto(i)[e]) /\ w1[e] = w0[e] + SumOn(ValueOf, PartsInto(i)[e])
    OBVIOUS
  <2>1. CreditedOn(e[1], nodes[e[1]], nodes'[e[1]])
    BY <1>4
  <2>2. /\ nodes'[e[1]].n[e[2]] = nodes[e[1]].n[e[2]] + Cardinality(Through(e[1], e[2]))
        /\ nodes'[e[1]].w[e[2]] = nodes[e[1]].w[e[2]] + SumOn(ValueOf, Through(e[1], e[2]))
    BY <1>4, <2>1 DEF CreditedOn
  <2>3. SumOn(ones, PartsInto(i)[e]) = Cardinality(PartsInto(i)[e])
    <3> HIDE DEF ones
    <3> QED BY <1>4, <1>9
  <2>4. n1[e] = nodes'[e[1]].n[e[2]] /\ n0[e] = nodes[e[1]].n[e[2]] /\ w1[e] = nodes'[e[1]].w[e[2]] /\ w0[e] = nodes[e[1]].w[e[2]]
    OBVIOUS
  <2> HIDE DEF ones, n0, n1, w0, w1, E
  <2> QED BY <1>4, <2>2, <2>3, <2>4
<1> HIDE DEF n0, n1, w0, w1, ones, all, D, E, C
<1>11. SumOn(n1, E) = SumOn(n0, E) + SumOn(ones, all) /\ SumOn(n0, E) \in Int
  <2>1. Credit(n0, n1, E, PartsInto(i), ones, D)
    BY <1>1, <1>2, <1>8, <1>10 DEF Credit
  <2> QED BY <1>1, <2>1, SumIsCredited
<1>12. SumOn(w1, E) = SumOn(w0, E) + SumOn(ValueOf, all) /\ SumOn(w0, E) \in Int
  <2>1. Credit(w0, w1, E, PartsInto(i), ValueOf, D)
    BY <1>1, <1>2, <1>8, <1>10 DEF Credit
  <2> QED BY <1>1, <2>1, SumIsCredited
<1>13. /\ SumOn(ones, all) = on + ended /\ on \in Nat /\ ended \in Nat /\ on + ended <= Len(round.descents)
       /\ (EndsAt(round, i) # {} => ended # 0)
  <2>1. TwoHeaps(ones, Passed(i), EndsAt(round, i))
    BY <1>1, <1>2, <1>3 DEF TwoHeaps
  <2>2. SumOn(ones, all) = SumOn(ones, Passed(i)) + SumOn(ones, EndsAt(round, i))
    BY <2>1, SumOfUnion DEF all
  <2>3. SumOn(ones, all) = Cardinality(all) /\ SumOn(ones, Passed(i)) = on /\ SumOn(ones, EndsAt(round, i)) = ended
        /\ on \in Nat /\ ended \in Nat
    BY <1>1, <1>3, <1>9
  <2>4. Cardinality(all) <= Cardinality(D)
    BY <1>2, <1>3, FS_Subset
  <2>5. EndsAt(round, i) # {} => ended # 0
    BY <1>3, FS_EmptySet
  <2> HIDE DEF on, ended
  <2> QED BY <1>2, <2>2, <2>3, <2>4, <2>5
<1>14. SumOn(ValueOf, all) = worth + ended * W /\ worth \in Int
  <2>1. TwoHeaps(ValueOf, Passed(i), EndsAt(round, i))
    BY <1>1, <1>2, <1>3 DEF TwoHeaps
  <2>2. SumOn(ValueOf, all) = worth + SumOn(ValueOf, EndsAt(round, i))
    BY <2>1, SumOfUnion DEF all
  <2>3. \A d \in EndsAt(round, i) : ValueOf[d] = W
    <3>1. \A d \in EndsAt(round, i) : d \in DOMAIN round.descents /\ EndOf(d) = i
      BY DEF EndsAt, EndOf
    <3> QED BY <3>1 DEF InBackup
  <2>4. W \in Int
    <3>1. nodes[i].pos \in Position
      BY <1>2 DEF Shaped
    <3> QED BY <3>1, WorthIs
  <2>5. SumOn(ValueOf, EndsAt(round, i)) = ended * W
    <3> HIDE DEF W
    <3> QED BY <1>3, <2>3, <2>4, SumOfSame
  <2>6. worth \in Int
    BY <1>1, <1>2, <1>3, SumIsInt
  <2> QED BY <2>2, <2>5, <2>6
<1>15. Total(y.w) = Total(nodes[i].w) + worth /\ Total(nodes[i].w) \in Int /\ y.visits = nodes[i].visits + on
  <2> DEFINE f == nodes[i].w
             g == y.w
  <2>1. CreditedOn(i, nodes[i], y)
    OBVIOUS
  <2>2. DOMAIN f = C /\ DOMAIN g = C /\ \A a \in C : f[a] \in Int /\ g[a] = f[a] + SumOn(ValueOf, PartsOf(i)[a])
    <3>1. DOMAIN f = C /\ \A a \in C : f[a] \in Int
      BY <1>2, RowIs DEF C
    <3>2. DOMAIN g = C /\ \A a \in C : g[a] = f[a] + SumOn(ValueOf, Through(i, a))
      BY <2>1 DEF CreditedOn, C
    <3>3. \A a \in C : PartsOf(i)[a] = Through(i, a)
      BY DEF PartsOf, C
    <3> QED BY <3>1, <3>2, <3>3
  <2>3. Total(f) = SumOn(f, C) /\ Total(g) = SumOn(g, C)
    BY <2>2, TotalIs
  <2> HIDE DEF f, g
  <2>4. Credit(f, g, C, PartsOf(i), ValueOf, D)
    BY <1>1, <1>2, <2>2 DEF Credit
  <2>5. SumOn(g, C) = SumOn(f, C) + SumOn(ValueOf, AllOf(PartsOf(i), C)) /\ SumOn(f, C) \in Int
    BY <2>4, SumIsCredited
  <2>6. y.visits = nodes[i].visits + on
    BY <2>1 DEF CreditedOn
  <2> QED BY <1>1, <2>3, <2>5, <2>6 DEF f, g
<1> HIDE DEF on, ended, worth, W
<1>16. /\ Arrivals(nodes', i) = Arrivals(nodes, i) + on + ended
       /\ Brought(nodes', i) = Brought(nodes, i) + worth + ended * W
       /\ Arrivals(nodes, i) \in Int /\ Brought(nodes, i) \in Int
  <2> DEFINE more == ended * W
  <2>1. more \in Int
    <3>1. W \in Int
      <4>1. nodes[i].pos \in Position
        BY <1>2 DEF Shaped
      <4> QED BY <4>1, WorthIs DEF W
    <3> QED BY <1>13, <3>1
  <2>2. SumOn(ValueOf, all) = worth + more
    BY <1>14
  <2> HIDE DEF more
  <2>3. Brought(nodes', i) = Brought(nodes, i) + worth + more
    BY <1>6, <1>7, <1>12, <1>14, <2>1, <2>2
  <2> QED BY <1>6, <1>7, <1>11, <1>12, <1>13, <2>3 DEF more
<1>17. Flows(i, y, on, ended, worth)
  BY <1>13, <1>14, <1>15, <1>16 DEF Flows, W
<1> QED BY <1>17

\* An edge without a child has nothing to credit.
LEMMA NoCreditWithoutChild ==
  ASSUME InBackup, NEW i \in DOMAIN nodes, NEW a \in DOMAIN nodes[i].child, nodes[i].child[a] = NoNode
  PROVE  Through(i, a) = {}
<1> SUFFICES ASSUME NEW d \in Through(i, a) PROVE FALSE
  OBVIOUS
<1> DEFINE path == round.descents[d].path
           end == EndOf(d)
<1>1. d \in DOMAIN round.descents /\ \E k \in DOMAIN path : path[k] = <<i, a>>
  BY DEF Through
<1>2. Arena(nodes) /\ EdgesLead(nodes) /\ Chain(nodes, path, end) /\ NoNode \notin DOMAIN nodes
  BY <1>1, NoNodeIsNone DEF InBackup, Ledger
<1> HIDE DEF path, end
<1>3. PICK k \in DOMAIN path : path[k] = <<i, a>>
  BY <1>1
<1>4. PICK j \in DOMAIN nodes : \E b \in DOMAIN nodes[j].child : path[k] = <<j, b>> /\ nodes[j].child[b] = Stop(path, k + 1, end)
  BY <1>2, <1>3 DEF Chain
<1>5. PICK b \in DOMAIN nodes[j].child : path[k] = <<j, b>> /\ nodes[j].child[b] = Stop(path, k + 1, end)
  BY <1>4
<1>6. nodes[i].child[a] = Stop(path, k + 1, end)
  BY <1>3, <1>5
<1>7. Stop(path, k + 1, end) \in DOMAIN nodes
  <2> DEFINE l == k + 1
  <2>1. l \in 1..(Len(path) + 1)
    BY <1>2, <1>3, ChainIs
  <2> HIDE DEF l
  <2>2. Stop(path, l, end) \in DOMAIN nodes
    BY <1>2, <2>1, ChainIs
  <2> QED BY <2>2 DEF l
<1> QED BY <1>2, <1>6, <1>7

\* A credited node is booked.
LEMMA CreditedIsBooked ==
  ASSUME InBackup, NEW i \in DOMAIN nodes, NEW y, CreditedOn(i, nodes[i], y)
  PROVE  /\ Booked(y) /\ Cardinality(Passed(i)) \in Nat /\ Cardinality(Passed(i)) <= Len(round.descents)
<1> DEFINE x == nodes[i]
           D == DOMAIN round.descents
<1>1. /\ Shaped(x) /\ Booked(x) /\ IsFiniteSet(D) /\ Cardinality(D) = Len(round.descents)
      /\ \A d \in D : ValueOf[d] \in Int
  BY DEF InBackup
<1>2. Cardinality(Passed(i)) \in Nat /\ Cardinality(Passed(i)) <= Len(round.descents)
  <2>1. Passed(i) \subseteq D
    BY DEF Passed, Through
  <2> QED BY <1>1, <2>1, FS_Subset, FS_CardinalityType
<1>3. \A a \in DOMAIN x.child : SumOn(ValueOf, Through(i, a)) \in Int
  <2> TAKE a \in DOMAIN x.child
  <2>1. Through(i, a) \subseteq D
    BY DEF Through
  <2>2. IsFiniteSet(Through(i, a)) /\ \A d \in Through(i, a) : ValueOf[d] \in Int
    BY <1>1, <2>1, FS_Subset
  <2> QED BY <2>2, SumIsInt
<1>4. \A a \in DOMAIN x.child : x.child[a] = NoNode =>
        Cardinality(Through(i, a)) = 0 /\ SumOn(ValueOf, Through(i, a)) = 0
  BY NoCreditWithoutChild, FS_EmptySet, SumOfNone
<1>5. EdgesOf(y) = EdgesOf(x)
  BY DEF CreditedOn, EdgesOf
<1>6. \A a \in DOMAIN x.child : x.n[a] \in Nat /\ x.w[a] \in Int
  BY <1>1, RowIs
<1>7. DOMAIN x.child = EdgesOf(x) /\ x.visits \in Nat /\ x.w \in [EdgesOf(x) -> Int]
  BY <1>1 DEF Shaped, Booked
<1>8. /\ y.pos = x.pos /\ y.child = x.child /\ y.terminal = x.terminal /\ y.leaf = x.leaf
      /\ y.visits = x.visits + Cardinality(Passed(i))
      /\ \A a \in DOMAIN x.child : y.n[a] = x.n[a] + Cardinality(Through(i, a))
      /\ DOMAIN y.w = DOMAIN x.child /\ \A a \in DOMAIN x.child : y.w[a] = x.w[a] + SumOn(ValueOf, Through(i, a))
  BY DEF CreditedOn
<1>9. \A a \in DOMAIN y.child : y.child[a] = NoNode => y.n[a] = 0 /\ y.w[a] = 0
  <2> TAKE a \in DOMAIN y.child
  <2> HAVE y.child[a] = NoNode
  <2>1. a \in DOMAIN x.child /\ x.child[a] = NoNode /\ x.n[a] = 0 /\ x.w[a] = 0
    BY <1>1, <1>8 DEF Booked
  <2> HIDE DEF x
  <2> QED BY <1>4, <1>8, <2>1
<1>10. Booked(x) /\ y.visits \in Nat
  BY <1>1, <1>2, <1>7, <1>8
<1> HIDE DEF x
<1>11. y.w \in [EdgesOf(y) -> Int]
  <2> SUFFICES y.w \in [DOMAIN x.child -> Int]
    BY <1>5, <1>7
  <2>1. \A a \in DOMAIN x.child : y.w[a] \in Int
    BY <1>3, <1>6, <1>8
  <2>2. y.w = [a \in DOMAIN x.child |-> x.w[a] + SumOn(ValueOf, Through(i, a))]
    BY DEF CreditedOn, x
  <2> QED BY <1>8, <2>1, <2>2
<1> QED BY <1>2, <1>8, <1>9, <1>10, <1>11 DEF Booked

\* Balance, seen with numbers: a arrived, v went on, t was sent on, b was brought, each end is worth c.
LEMMA Balance ==
  ASSUME NEW a \in Int, NEW v \in Int, NEW t \in Int, NEW b \in Int, NEW c \in Int,
         NEW on \in Int, NEW ended \in Int, NEW worth \in Int, b = t + (a - v) * c
  PROVE  b + worth + ended * c = (t + worth) + ((a + on + ended) - (v + on)) * c
<1> DEFINE gap == a - v
<1>1. (a + on + ended) - (v + on) = gap + ended /\ gap \in Int
  OBVIOUS
<1>2. b = t + gap * c
  OBVIOUS
<1> HIDE DEF gap
<1>3. (gap + ended) * c = gap * c + ended * c
  BY <1>1, Z3
<1>4. gap * c \in Int /\ ended * c \in Int
  BY <1>1
<1> DEFINE p == gap * c
           q == ended * c
           s == (gap + ended) * c
<1>5. s = p + q /\ p \in Int /\ q \in Int /\ b = t + p
  BY Zenon, <1>2, <1>3, <1>4
<1> HIDE DEF p, q, s
<1>6. b + worth + q = (t + worth) + s
  BY <1>5
<1> QED BY <1>1, <1>6 DEF q, s

\* What is backed up is booked.
LEMMA BackupBooks ==
  ASSUME TreeInv, Backup, Books(nodes, round, sims)
  PROVE  Books(nodes', round', sims')
<1> DEFINE ms == nodes'
           q == round'
           K == Len(round.descents)
<1>1. /\ round.stage = "backup" /\ q = AtRest /\ sims' = sims + K
      /\ ms = [i \in DOMAIN nodes |-> Credited(i)]
  BY DEF Backup
<1>2. InBackup
  BY <1>1, BackupFinds
<1>3. /\ 1 \in DOMAIN nodes /\ sims \in Nat /\ K \in Nat /\ K # 0 /\ round.at = 1 /\ nodes # <<>>
      /\ \A i \in DOMAIN nodes : Shaped(nodes[i]) /\ Booked(nodes[i])
  BY <1>2 DEF InBackup
<1>4. DOMAIN ms = DOMAIN nodes
  BY <1>1
<1>5. \A i \in DOMAIN nodes : CreditedOn(i, nodes[i], ms[i])
  <2> TAKE i \in DOMAIN nodes
  <2> DEFINE y == ms[i]
  <2>1. y = Credited(i)
    BY <1>1
  <2> HIDE DEF y
  <2>2. CreditedOn(i, nodes[i], y)
    BY <1>2, <2>1, CreditedIs
  <2> QED BY <2>2 DEF y
<1>6. q.stage = "rest" /\ q.at = 1 /\ q.path = <<>> /\ q.descents = <<>> /\ q.leaves = <<>>
  BY <1>1 DEF AtRest
<1>7. DOMAIN nodes' = DOMAIN nodes /\ \A j \in DOMAIN nodes : CreditedOn(j, nodes[j], nodes'[j])
  BY <1>4, <1>5
<1>8. ASSUME NEW i \in DOMAIN nodes, i # 1
      PROVE  \E on, ended, worth : Flows(i, ms[i], on, ended, worth)
  <2> DEFINE y == ms[i]
  <2>1. y = nodes'[i]
    OBVIOUS
  <2> HIDE DEF y
  <2>2. \E on, ended, worth : Flows(i, y, on, ended, worth)
    BY <1>2, <1>7, <1>8, <2>1, CreditsFlow
  <2> QED BY <2>2 DEF y
<1> HIDE DEF ms, q, K
<1>9. \A i \in DOMAIN nodes : /\ Booked(ms[i]) /\ Cardinality(Passed(i)) \in Nat /\ Cardinality(Passed(i)) <= K
                              /\ ms[i].visits = nodes[i].visits + Cardinality(Passed(i))
  <2> TAKE i \in DOMAIN nodes
  <2> DEFINE y == ms[i]
  <2>1. CreditedOn(i, nodes[i], y)
    BY <1>5
  <2> HIDE DEF y
  <2>2. Booked(y) /\ Cardinality(Passed(i)) \in Nat /\ Cardinality(Passed(i)) <= K
    BY <1>2, <2>1, CreditedIsBooked DEF K
  <2>3. y.visits = nodes[i].visits + Cardinality(Passed(i))
    BY <2>1 DEF CreditedOn
  <2> QED BY <2>2, <2>3 DEF y
<1>10. HandOK(ms, q)
  BY <1>3, <1>4, <1>6, NothingInHand
<1>11. FirstTree(nodes, round, sims) => FirstTree(ms, q, sims')
  <2> HAVE FirstTree(nodes, round, sims)
  <2>1. ms[1].visits = sims'
    <3>1. nodes[1].visits = sims
      BY DEF FirstTree
    <3>2. Cardinality(Passed(1)) = K
      BY <1>2, RootPasses DEF K
    <3> QED BY Zenon, <1>1, <1>3, <1>9, <3>1, <3>2 DEF K
  <2>2. ASSUME NEW i \in DOMAIN ms \ {1} PROVE Conserved(ms, i, sims') /\ Reached(ms, q, i)
    <3>1. i \in DOMAIN nodes /\ i # 1
      BY <1>4
    <3>2. \E on, ended, worth : Flows(i, ms[i], on, ended, worth)
      BY <1>8, <3>1
    <3>3. PICK on : \E ended, worth : Flows(i, ms[i], on, ended, worth)
      BY <3>2
    <3>4. PICK ended : \E worth : Flows(i, ms[i], on, ended, worth)
      BY <3>3
    <3>5. PICK worth : Flows(i, ms[i], on, ended, worth)
      BY <3>4
    <3> DEFINE a == Arrivals(nodes, i)
               b == Brought(nodes, i)
               v == nodes[i].visits
               t == Total(nodes[i].w)
               c == WorthToOne(nodes[i].pos)
               a1 == Arrivals(ms, i)
               b1 == Brought(ms, i)
               v1 == ms[i].visits
               t1 == Total(ms[i].w)
    <3>6. /\ on \in Nat /\ ended \in Nat /\ worth \in Int /\ on + ended <= K /\ (EndsAt(round, i) # {} => ended # 0)
          /\ v1 = v + on /\ t1 = t + worth /\ t \in Int /\ a \in Int /\ a1 = a + on + ended
          /\ b \in Int /\ b1 = b + worth + ended * c
      BY <3>5 DEF Flows, K, ms
    <3>7. Conserved(nodes, i, sims) /\ Reached(nodes, round, i)
      BY <3>1 DEF FirstTree
    <3>8. v <= a /\ a <= sims /\ b = t + (a - v) * c /\ (v < a \/ EndsAt(round, i) # {})
      BY <1>3, <3>1, <3>7 DEF Conserved, Reached
    <3>9. v \in Nat /\ c \in Int
      <4>1. Booked(nodes[i]) /\ nodes[i].pos \in Position
        BY <1>3, <3>1 DEF Shaped
      <4> QED BY <4>1, WorthIs DEF Booked
    <3>10. ms[i].pos = nodes[i].pos
      BY Zenon, <1>5, <3>1 DEF CreditedOn
    <3> HIDE DEF a, b, v, t, c, a1, b1, v1, t1
    <3>11. v1 <= a1 /\ a1 <= sims + K /\ v1 < a1
      BY <1>3, <3>6, <3>8, <3>9
    <3>12. b1 = t1 + (a1 - v1) * c
      BY <3>6, <3>8, <3>9, Balance
    <3>13. Conserved(ms, i, sims')
      BY <1>1, <3>10, <3>11, <3>12 DEF Conserved, a1, b1, v1, t1, c, K
    <3>14. Reached(ms, q, i)
      BY <1>6, <3>11 DEF Reached, a1, v1
    <3> QED BY <3>13, <3>14
  <2> QED BY <2>1, <2>2 DEF FirstTree
<1>12. CarriedTree(nodes, sims) => CarriedTree(ms, sims')
  <2> HAVE CarriedTree(nodes, sims)
  <2>1. ASSUME NEW i \in DOMAIN ms PROVE ms[i].visits < sims + K
    <3> DEFINE v == nodes[i].visits
               p == Cardinality(Passed(i))
               v1 == ms[i].visits
    <3>1. v < sims /\ p \in Nat /\ p <= K /\ v1 = v + p
      BY <1>4, <1>9 DEF CarriedTree
    <3>2. v \in Nat
      BY <1>3, <1>4 DEF Booked
    <3> HIDE DEF v, p, v1
    <3>3. v1 < sims + K
      BY <1>3, <3>1, <3>2
    <3> QED BY <3>3 DEF v1
  <2> QED BY <1>1, <2>1 DEF CarriedTree, K
<1>13. Books(ms, q, sims')
  <2>1. FirstTree(nodes, round, sims) \/ CarriedTree(nodes, sims)
    BY <1>3 DEF Books
  <2> QED BY <1>4, <1>9, <1>10, <1>11, <1>12, <2>1 DEF Books
<1> QED BY <1>13 DEF ms, q

-----------------------------------------------------------------------------
(* The books along a behaviour *)

Booking == Books(nodes, round, sims)

\* A step that leaves the tree alone leaves the books alone.
LEMMA SameBooks ==
  ASSUME Booking, UNCHANGED <<nodes, round, sims>>
  PROVE  Booking'
BY DEF Booking

\* The round keeps the books.
LEMMA RoundKeepsBooks ==
  ASSUME EngineInv, Booking, Round
  PROVE  Booking'
<1>1. TreeInv /\ Books(nodes, round, sims)
  BY DEF EngineInv, Booking
<1>2. CASE Step
  <2>1. nodes # <<>>
    BY <1>1, <1>2, InRound DEF Step, Resting
  <2> QED BY <1>1, <1>2, <2>1, StepBooks DEF Booking
<1>3. CASE ArriveTerminal
  BY <1>1, <1>3, TerminalBooks DEF Booking
<1>4. CASE ArrivePending
  BY <1>1, <1>4, PendingBooks DEF Booking
<1>5. CASE ArriveNew
  BY <1>1, <1>5, NewBooks DEF Booking
<1>6. CASE EvaluateLeaves
  BY <1>1, <1>6, EvaluationBooks DEF Booking
<1>7. CASE Backup
  BY <1>1, <1>7, BackupBooks DEF Booking
<1> QED BY <1>2, <1>3, <1>4, <1>5, <1>6, <1>7 DEF Round

\* Every step keeps the books.
LEMMA BooksStep ==
  ASSUME EngineInv, Booking, [Next]_vars
  PROVE  Booking'
<1>1. TreeInv /\ StepOK /\ Searched /\ Books(nodes, round, sims)
  BY DEF EngineInv, Booking
<1>2. ASSUME NEW p \in Position, NewSearcher(p) PROVE Booking'
  BY <1>2, FreshBooks DEF Booking
<1>3. Drop => Booking'
  BY DroppedBooks DEF Booking
<1>4. CASE Environment
  <2>1. PICK p \in Snapshots, budget \in Budgets :
          \/ \E kind \in {"think", "answer"} : Receive(p, kind, budget)
          \/ Choose(p, budget) \/ ChooseCancelled(p) \/ Play(p, budget)
    BY <1>4 DEF Environment
  <2>2. p \in Position
    BY DomainAssumption
  <2>3. CASE \E kind \in {"think", "answer"} : Receive(p, kind, budget)
    BY <1>1, <2>3, SameBooks DEF Receive, tree, Booking
  <2>4. CASE Choose(p, budget)
    <3>1. NewSearcher(p) \/ Drop
      BY <2>4 DEF Choose
    <3> QED BY <1>2, <1>3, <2>2, <3>1
  <2>5. CASE Play(p, budget)
    <3>1. NewSearcher(p)
      BY <2>5 DEF Play
    <3> QED BY <1>2, <2>2, <3>1
  <2>6. CASE ChooseCancelled(p)
    BY <1>1, <2>6, SameBooks DEF ChooseCancelled, tree, Booking
  <2> QED BY <2>1, <2>3, <2>4, <2>5, <2>6
<1>5. ASSUME step.pos \in Position, Rebuild PROVE Booking'
  BY <1>2, <1>5 DEF Rebuild
<1>6. Reuse => Booking'
  BY SameBooks DEF Reuse
<1>7. CASE Locate
  <2>1. step.pos \in Position
    BY <1>1, <1>7 DEF Locate, StepOK
  <2>2. Drop \/ Reuse \/ UNCHANGED <<nodes, round, sims>> \/ Rebuild
    BY <1>7 DEF Locate
  <2> QED BY <1>3, <1>5, <1>6, <2>1, <2>2, SameBooks
<1>8. CASE FollowPath
  <2>1. step.pos \in Position /\ Resting /\ nodes # <<>>
    BY <1>1, <1>8 DEF FollowPath, StepOK, Searched
  <2>2. Reuse \/ Rebuild \/ Rebase(Head(step.path))
    BY <1>8 DEF FollowPath
  <2>3. CASE Rebase(Head(step.path))
    <3> DEFINE a == Head(step.path)
    <3>1. Rebase(a)
      BY <2>3
    <3> HIDE DEF a
    <3> QED BY <1>1, <2>1, <3>1, RebasedBooks DEF Booking
  <2> QED BY <1>5, <1>6, <2>1, <2>2, <2>3
<1>9. ASSUME NEW target, SimulateRound(target), nodes # <<>> PROVE Booking'
  BY <1>1, <1>9, RoundBooks DEF Booking
<1>10. CASE SliceRound
  <2>1. nodes # <<>> /\ SimulateRound(config.batch)
    BY <1>1, <1>10 DEF SliceRound, Driving, Searched
  <2> QED BY <1>9, <2>1
<1>11. CASE RunSims
  <2> DEFINE target == Smaller(config.batch, config.sims - Added)
  <2>1. nodes # <<>> /\ (SimulateRound(target) \/ UNCHANGED <<nodes, round, sims>>)
    BY <1>1, <1>11 DEF RunSims, Searched, tree
  <2> HIDE DEF target
  <2> QED BY <1>9, <2>1, SameBooks
<1>12. CASE Harvest
  <2>1. UNCHANGED <<nodes, round, sims>> \/ Drop
    BY <1>12 DEF Harvest
  <2> QED BY <1>3, <2>1, SameBooks
<1>13. CASE \E over \in 0..Overshoot, cancelled, interrupted \in BOOLEAN : SliceEnds(over, cancelled, interrupted)
  <2>1. UNCHANGED <<nodes, round, sims>>
    BY <1>13 DEF SliceEnds, tree
  <2> QED BY <2>1, SameBooks
<1>14. CASE Round
  BY <1>14, RoundKeepsBooks
<1>15. CASE UNCHANGED vars
  BY <1>15, SameBooks DEF vars, tree
<1> QED BY <1>4, <1>7, <1>8, <1>10, <1>11, <1>12, <1>13, <1>14, <1>15 DEF Next, Work

-----------------------------------------------------------------------------
(***************************************************************************)
(* The schedule of self-play's root.  The plan's numbers depend on nothing *)
(* else than themselves, so they are lemmas about a plan p; the round is   *)
(* charged for every descent that has left the root.  A budget that covers *)
(* the phases to come is what makes the halvings come in time: each phase  *)
(* takes its share of what is left, no more, and log2 of the candidates is *)
(* how many phases there are.                                              *)
(***************************************************************************)

\* A set of one more element has twice the subsets.
LEMMA Doubles ==
  ASSUME NEW k \in Nat
  PROVE  2^k \in Nat /\ 2^k # 0 /\ 2^(k + 1) = 2^k + 2^k
<1> DEFINE m == k + 1
           S == 1..k
           T == 1..m
           Old == SUBSET S
           new == [u \in Old |-> u \cup {m}]
           More == {u \in SUBSET T : m \in u}
<1>1. IsFiniteSet(S) /\ Cardinality(S) = k /\ IsFiniteSet(T) /\ Cardinality(T) = m
  <2> DEFINE one == 1
  <2>1. one \in Int /\ k \in Int /\ m \in Int /\ k - one + 1 = k /\ m - one + 1 = m /\ ~(one > m) /\ (one > k => k = 0)
    OBVIOUS
  <2> HIDE DEF one, m
  <2>2. /\ IsFiniteSet(one..k) /\ Cardinality(one..k) = IF one > k THEN 0 ELSE k - one + 1
        /\ IsFiniteSet(one..m) /\ Cardinality(one..m) = IF one > m THEN 0 ELSE m - one + 1
    BY <2>1, FS_Interval
  <2> QED BY <2>1, <2>2 DEF one
<1>2. IsFiniteSet(Old) /\ Cardinality(Old) = 2^k /\ IsFiniteSet(SUBSET T) /\ Cardinality(SUBSET T) = 2^m
  <2> HIDE DEF m, S, T
  <2> QED BY <1>1, FS_SUBSET
<1>3. ExistsBijection(Old, More)
  <2>1. \A u \in Old : new[u] \in More /\ m \notin u
    OBVIOUS
  <2>2. \A u, v \in Old : new[u] = new[v] => u = v
    <3> TAKE u \in Old, v \in Old
    <3> HAVE new[u] = new[v]
    <3>1. u = new[u] \ {m} /\ v = new[v] \ {m}
      BY <2>1
    <3> QED BY <3>1
  <2>3. \A w \in More : \E u \in Old : new[u] = w
    <3> TAKE w \in More
    <3>1. w \ {m} \in Old
      OBVIOUS
    <3>2. new[w \ {m}] = w
      BY <3>1
    <3> QED BY <3>1, <3>2
  <2>4. DOMAIN new = Old
    OBVIOUS
  <2>5. new = [u \in Old |-> new[u]]
    OBVIOUS
  <2> HIDE DEF new, Old, More
  <2>6. new \in [Old -> More]
    BY <2>1, <2>4, <2>5
  <2>7. new \in Bijection(Old, More)
    BY <2>2, <2>3, <2>6 DEF Bijection, Injection, Surjection, IsInjective
  <2> QED BY <2>7 DEF ExistsBijection
<1>4. IsFiniteSet(More) /\ Cardinality(More) = 2^k
  <2> HIDE DEF Old, More, m
  <2> QED BY <1>2, <1>3, FS_Bijection
<1>5. SUBSET T = Old \cup More /\ Old \cap More = {}
  OBVIOUS
<1>6. 2^k \in Nat /\ 2^k # 0
  <2>1. Old # {}
    OBVIOUS
  <2> HIDE DEF Old
  <2> QED BY <1>2, <2>1, FS_CardinalityType, FS_EmptySet
<1> HIDE DEF Old, More, m, T
<1>7. Cardinality(Old \cup More) = Cardinality(Old) + Cardinality(More) - Cardinality(Old \cap More)
  BY <1>2, <1>4, FS_Union
<1>8. 2^m = 2^k + 2^k
  <2> DEFINE two == 2^k
             all == 2^m
  <2>1. /\ Cardinality(Old) = two /\ Cardinality(More) = two /\ Cardinality(Old \cap More) = 0
        /\ Cardinality(Old \cup More) = all /\ two \in Nat
    <3>1. Old \cap More = {} /\ Old \cup More = SUBSET T
      BY <1>5
    <3>2. Cardinality(Old \cap More) = 0
      BY <3>1, FS_EmptySet
    <3>3. Cardinality(Old \cup More) = 2^m
      BY <1>2, <3>1
    <3> QED BY <1>2, <1>4, <1>6, <3>2, <3>3
  <2> HIDE DEF two, all
  <2>2. all = two + two
    BY <1>7, <2>1
  <2> QED BY <2>2 DEF two, all
<1> QED BY <1>6, <1>8 DEF m

\* Powers of two outgrow their exponents.
LEMMA PowersGrow ==
  ASSUME NEW m \in Nat
  PROVE  2^m >= m
<1> DEFINE T == {k \in Nat : 2^k < k}
<1> SUFFICES ASSUME T # {} PROVE FALSE
  <2>1. 2^m \in Nat
    BY Doubles
  <2> QED BY <2>1
<1>1. PICK x \in T : \A y \in T : x <= y
  BY LeastNumber
<1>2. x \in Nat /\ 2^x < x /\ 2^x \in Nat
  BY Doubles
<1>3. x # 0
  BY <1>2
<1> DEFINE y == x - 1
<1>4. y \in Nat /\ y + 1 = x /\ y < x
  BY <1>2, <1>3
<1>5. 2^y \in Nat /\ 2^y # 0 /\ 2^(y + 1) = 2^y + 2^y
  <2> HIDE DEF y
  <2> QED BY <1>4, Doubles
<1>6. ~(2^y < y)
  <2> HIDE DEF y
  <2> QED BY <1>1, <1>2, <1>4
<1>7. 2^x = 2^y + 2^y
  <2> HIDE DEF y
  <2> QED BY <1>4, <1>5
<1> HIDE DEF y, T
<1> DEFINE u == 2^x
           v == 2^y
<1>8. u \in Nat /\ v \in Nat /\ v # 0 /\ u = v + v /\ u < x /\ ~(v < y)
  BY <1>2, <1>5, <1>6, <1>7
<1> HIDE DEF u, v
<1> QED BY <1>2, <1>4, <1>8

\* rounds_for has an answer: the first power of two that covers the candidates.
LEMMA RoundsAre ==
  ASSUME NEW m \in Nat, m # 0
  PROVE  /\ Rounds(m) \in 1..m
         /\ Rounds(m) > 1 => m > 2^(Rounds(m) - 1)
<1> DEFINE T == {k \in Nat \ {0} : 2^k >= m}
<1>1. T \subseteq Nat /\ m \in T
  BY PowersGrow
<1>2. PICK r \in T : \A k \in T : r <= k
  <2> HIDE DEF T
  <2> QED BY <1>1, LeastNumber
<1>3. r \in 1..m /\ 2^r >= m
  BY <1>1, <1>2
<1>4. r = 1 \/ 2^(r - 1) < m
  <2> SUFFICES ASSUME r # 1 PROVE 2^(r - 1) < m
    OBVIOUS
  <2> DEFINE k == r - 1
  <2>1. k \in Nat \ {0} /\ k < r
    BY <1>3
  <2>2. 2^k \in Nat
    BY <2>1, Doubles
  <2>3. ~(2^k >= m)
    <3> HIDE DEF k
    <3> QED BY <1>2, <2>1
  <2> HIDE DEF k
  <2>4. 2^k < m
    <3> DEFINE v == 2^k
    <3>1. v \in Nat /\ ~(v >= m)
      BY <2>2, <2>3
    <3> HIDE DEF v
    <3>2. v < m
      BY <3>1
    <3> QED BY <3>2 DEF v
  <2> QED BY <2>4 DEF k
<1> DEFINE Fits(k) == 2^k >= m /\ (k = 1 \/ 2^(k - 1) < m)
<1>5. r \in 1..m /\ Fits(r)
  BY <1>3, <1>4
<1>6. Rounds(m) = CHOOSE k \in 1..m : Fits(k)
  BY DEF Rounds
<1> HIDE DEF Fits
<1>7. Rounds(m) \in 1..m /\ Fits(Rounds(m))
  BY <1>5, <1>6
<1>8. Rounds(m) > 1 => 2^(Rounds(m) - 1) < m
  BY <1>7 DEF Fits
<1>9. Rounds(m) - 1 \in Nat
  BY <1>7
<1> DEFINE k == Rounds(m) - 1
           v == 2^k
<1>10. k \in Nat
  BY <1>9
<1>11. v \in Nat
  <2> HIDE DEF k
  <2> QED BY <1>10, Doubles
<1>12. Rounds(m) > 1 => v < m
  BY <1>8
<1> HIDE DEF v
<1>13. Rounds(m) > 1 => m > v
  BY <1>11, <1>12
<1> QED BY <1>7, <1>13 DEF v

-----------------------------------------------------------------------------
\* A descent that has left the root, those the plan has been charged with, those still to start.
Going(r) == IF r.at = 1 THEN 0 ELSE 1
Charged(r) == Len(r.descents) + Going(r)
ToCome(r) == IF r.stage = "descend" THEN r.due - Going(r) ELSE 0

\* Candidates differ, and the numbers are what they should be.
PlanTyped(p) ==
  /\ \A i, j \in DOMAIN p.alive : i # j => p.alive[i] # p.alive[j]
  /\ p.perAction \in Nat \ {0} /\ p.rounds \in Nat \ {0} /\ p.phase \in Nat
  /\ p.given \in Nat /\ p.scheduled \in Nat /\ p.given <= p.scheduled

\* Descents through a root edge, finished and under way.
Had(x, edge) == x.n[edge] + x.vl[edge]
\* Round robin: the candidates up to the next one are one descent ahead of the last.
Even(x, p) ==
  \A k \in DOMAIN p.alive :
    Had(x, p.alive[k]) = Had(x, p.alive[Len(p.alive)]) + (IF k <= p.given % Len(p.alive) THEN 1 ELSE 0)

\* While halvings remain there is something to halve, and the budget for them.
Halvable(p) ==
  (p.rounds > 1 /\ p.phase < p.rounds) => Len(p.alive) > 2^(p.rounds - 1 - p.phase)
Affordable(p) ==
  p.phase < p.rounds =>
    PhaseSize(p) * (p.rounds - p.phase) <= config.sims - (p.scheduled - p.given)

Candidates(ns, p) ==
  /\ ns # <<>> /\ ~ns[1].terminal /\ ns[1].vl \in [EdgesOf(ns[1]) -> Int]
  /\ PlanTyped(p) /\ Halvable(p)
  /\ Len(p.alive) > 1 => Even(ns[1], p)
  /\ config.sims >= Len(Moves[ns[1].pos]) * p.rounds => Affordable(p)

\* Every descent is one of the budget's, and while there are rivals one of the phase's.
InBudget(p, r, ran) ==
  /\ r.stage = "descend" => r.due \in Nat \ {0}
  /\ p.scheduled = ran + Charged(r)
  /\ p.scheduled + ToCome(r) <= config.sims
  /\ Len(p.alive) > 1 => p.given + ToCome(r) <= PhaseSize(p)

OnSchedule(ns, p, r, ran) == Candidates(ns, p) /\ InBudget(p, r, ran)

\* Only self-play has a schedule.
Scheduling ==
  /\ caller # "play" => config.m = 0
  /\ Gumbel => /\ caller = "play" /\ config.m # 0 /\ step.stage \in {"sims", "harvest"}
               /\ drive.before = 0
               /\ OnSchedule(nodes, plan, round, sims)
               /\ step.stage = "harvest" => sims = config.sims

\* A share is at least one, and what is left covers it for the phases to come, if it
\* covers one for each.
LEMMA ShareIs ==
  ASSUME config \in Configs, NEW alive, NEW k \in Nat \ {0}, Len(alive) = k,
         NEW scheduled \in Nat, NEW phase \in Nat, NEW rounds \in Nat
  PROVE  /\ PhaseShare(alive, scheduled, phase, rounds) \in Nat \ {0}
         /\ (phase < rounds /\ k * (rounds - phase) <= config.sims - scheduled) =>
              (PhaseShare(alive, scheduled, phase, rounds) * k) * (rounds - phase) <= config.sims - scheduled
<1> DEFINE over == config.sims - scheduled
           left == Larger(over, 0)
           ahead == rounds - phase
           phases == Larger(ahead, 1)
           one == phases * k
           share == Larger(left \div one, 1)
<1>1. over \in Int /\ ahead \in Int
  BY ConfigAssumption
<1>2. left \in Nat /\ phases \in Nat \ {0} /\ (over >= 0 => left = over) /\ (ahead >= 1 => phases = ahead)
  <2> HIDE DEF over, ahead
  <2> QED BY <1>1 DEF Larger
<1>3. PhaseShare(alive, scheduled, phase, rounds) = share
  BY DEF PhaseShare
<1> HIDE DEF left, phases
<1>4. one \in Nat \ {0}
  <2>1. \A c \in Nat \ {0}, d \in Nat \ {0} : c * d \in Nat \ {0}
    BY Z3
  <2> QED BY <1>2, <2>1
<1> HIDE DEF one
<1>5. left \div one \in Nat /\ (left \div one) * one <= left /\ (one <= left => left \div one >= 1)
  <2>1. \A c \in Nat, d \in Nat \ {0} : c \div d \in Nat /\ (c \div d) * d <= c /\ (d <= c => c \div d >= 1)
    BY Z3
  <2> QED BY <1>2, <1>4, <2>1
<1> DEFINE exact == left \div one
<1>6. share = Larger(exact, 1)
  OBVIOUS
<1> HIDE DEF exact, share
<1>7. share \in Nat \ {0} /\ (exact >= 1 => share = exact)
  BY <1>5, <1>6 DEF Larger, exact
<1>8. ASSUME phase < rounds, k * ahead <= over PROVE (share * k) * ahead <= over
  <2>1. ahead \in Nat \ {0} /\ phases = ahead
    BY <1>2, <1>8
  <2>2. k * ahead \in Nat /\ one = k * ahead
    <3>1. \A c \in Nat, d \in Nat : c * d \in Nat /\ c * d = d * c
      BY Z3
    <3> HIDE DEF ahead
    <3> QED BY <2>1, <3>1 DEF one
  <2>3. over \in Nat /\ left = over /\ one <= left
    <3> HIDE DEF over, ahead
    <3> QED BY <1>1, <1>2, <1>8, <2>2
  <2>4. share = exact /\ exact * one <= left
    BY <1>5, <1>7, <2>3 DEF exact
  <2>5. share * (k * ahead) = (share * k) * ahead
    <3>1. \A c \in Nat, d \in Nat, e \in Nat : c * (d * e) = (c * d) * e
      BY Z3
    <3> HIDE DEF ahead
    <3> QED BY <1>7, <2>1, <3>1
  <2> HIDE DEF over, ahead
  <2> QED BY <2>2, <2>3, <2>4, <2>5
<1> QED BY <1>3, <1>7, <1>8

\* A plan that is drawn is on schedule before its first descent.
LEMMA PlansStart ==
  ASSUME config \in Configs, NEW x, Shaped(x), x.terminal \/ x.expanded, NEW p \in Plans(x), p # NoPlan
  PROVE  /\ ~x.terminal /\ config.m # 0 /\ PlanTyped(p) /\ p.given = 0 /\ p.scheduled = 0
         /\ Halvable(p)
         /\ config.sims >= Len(Moves[x.pos]) * p.rounds => Affordable(p)
<1> DEFINE edges == DOMAIN x.child
           k == Len(Moves[x.pos])
           m == Smaller(config.m, Len(x.child))
<1>1. config.m # 0 /\ ~x.terminal
  BY DEF Plans
<1>2. PICK alive \in Lists(edges, m) :
        p = [alive |-> alive, perAction |-> PhaseShare(alive, 0, 0, Rounds(m)), given |-> 0,
             scheduled |-> 0, phase |-> 0, rounds |-> Rounds(m)]
  BY <1>1 DEF Plans
<1>3. config.m \in Nat /\ config.sims \in Nat
  BY ConfigAssumption
<1>4. x.expanded /\ x.pos \in Position /\ x.child \in [DOMAIN Moves[x.pos] -> Nat] /\ Moves[x.pos] # <<>>
  BY <1>1 DEF Shaped, EdgesOf
<1>5. k \in Nat /\ m \in Nat /\ m # 0 /\ m <= k
  <2>1. Moves[x.pos] \in Seq(Position)
    BY <1>4, GraphAssumption
  <2>2. k \in Nat /\ k # 0 /\ DOMAIN Moves[x.pos] = 1..k
    BY <1>4, <2>1, EmptySeq, LenProperties
  <2> HIDE DEF k
  <2>3. x.child \in [1..k -> Nat]
    BY <1>4, <2>2
  <2>4. x.child = [e \in 1..k |-> x.child[e]]
    BY <2>3
  <2>5. Len(x.child) = k
    BY <2>2, <2>4, Listing
  <2> QED BY <1>1, <1>3, <2>2, <2>5 DEF Smaller
<1> HIDE DEF m, k
<1> DEFINE r == Rounds(m)
<1>6. r \in 1..m /\ (r > 1 => m > 2^(r - 1))
  BY <1>5, RoundsAre
<1> HIDE DEF r
<1>7. alive \in [1..m -> edges] /\ \A i, j \in 1..m : i # j => alive[i] # alive[j]
  BY <1>2 DEF Lists
<1>8. Len(alive) = m /\ DOMAIN alive = 1..m
  <2>1. alive = [i \in 1..m |-> alive[i]]
    BY <1>7
  <2> QED BY <1>5, <2>1, Listing
<1>9. /\ p.alive = alive /\ p.given = 0 /\ p.scheduled = 0 /\ p.phase = 0 /\ p.rounds = r
      /\ p.perAction = PhaseShare(alive, 0, 0, r)
  BY <1>2 DEF r
<1>10. r \in Nat \ {0}
  BY <1>5, <1>6
<1> DEFINE zero == 0
           share == PhaseShare(alive, zero, zero, r)
<1>11. zero \in Nat /\ r - zero = r /\ config.sims - zero = config.sims
  BY <1>3, <1>10
<1>12. /\ share \in Nat \ {0}
       /\ (zero < r /\ m * (r - zero) <= config.sims - zero) =>
            (share * m) * (r - zero) <= config.sims - zero
  <2> HIDE DEF zero
  <2> QED BY <1>5, <1>8, <1>10, <1>11, ShareIs
<1>13. PlanTyped(p)
  BY <1>7, <1>8, <1>9, <1>10, <1>12 DEF PlanTyped
<1>14. Halvable(p)
  <2>1. r - 1 - 0 = r - 1
    BY <1>10
  <2> QED BY <1>6, <1>8, <1>9, <2>1 DEF Halvable
<1>15. ASSUME config.sims >= k * r PROVE Affordable(p)
  <2>1. m * r <= config.sims
    <3>1. \A c \in Nat, d \in Nat, e \in Nat : c <= d => c * e <= d * e
      BY Z3
    <3>2. m * r <= k * r /\ m * r \in Nat /\ k * r \in Nat
      <4>1. \A c \in Nat, d \in Nat : c * d \in Nat
        BY Z3
      <4> QED BY <1>5, <1>10, <3>1, <4>1
    <3> DEFINE u == m * r
               v == k * r
    <3> HIDE DEF u, v
    <3>3. u <= config.sims
      <4>1. u <= v /\ u \in Nat /\ v \in Nat /\ v <= config.sims
        BY <1>15, <3>2, <1>3 DEF u, v
      <4> QED BY <1>3, <4>1
    <3> QED BY <3>3 DEF u
  <2>2. (share * m) * r <= config.sims
    BY <1>10, <1>11, <1>12, <2>1
  <2>3. PhaseSize(p) = share * m
    BY <1>8, <1>9 DEF PhaseSize
  <2>4. /\ p.phase = zero /\ p.scheduled - p.given = 0 /\ config.sims - 0 = config.sims
        /\ r - p.phase = r
    BY <1>3, <1>9, <1>10
  <2> HIDE DEF share
  <2> QED BY <1>9, <2>2, <2>3, <2>4 DEF Affordable
<1> QED BY <1>1, <1>9, <1>13, <1>14, <1>15 DEF k

\* Half of the candidates, rounded up.
LEMMA HalfIs ==
  ASSUME NEW m \in Nat, m > 1
  PROVE  /\ (m + 1) \div 2 \in Nat \ {0} /\ (m + 1) \div 2 <= m
         /\ \A v \in Nat : m > v + v => (m + 1) \div 2 > v
<1>1. \A c \in Nat : c > 1 => (c + 1) \div 2 \in Nat \ {0} /\ (c + 1) \div 2 <= c
  BY Z3
<1>2. \A c \in Nat, v \in Nat : c > v + v => (c + 1) \div 2 > v
  BY Z3
<1> QED BY <1>1, <1>2

\* The numbers of a plan that dictates edges of the root.
LEMMA PlanIs ==
  ASSUME NEW ns, NEW p, PlanOK(ns, p), p # NoPlan, PlanTyped(p)
  PROVE  /\ DOMAIN p = {"alive", "perAction", "given", "scheduled", "phase", "rounds"}
         /\ Len(p.alive) \in Nat \ {0} /\ DOMAIN p.alive = 1..Len(p.alive)
         /\ \A k \in DOMAIN p.alive : p.alive[k] \in DOMAIN ns[1].child
         /\ PhaseSize(p) \in Nat \ {0} /\ Len(p.alive) <= PhaseSize(p)
<1> DEFINE edges == DOMAIN ns[1].child
<1>1. /\ DOMAIN p = {"alive", "perAction", "given", "scheduled", "phase", "rounds"}
      /\ p.alive # <<>> /\ p.alive \in Seq(edges)
  BY DEF PlanOK
<1> HIDE DEF edges
<1>2. Len(p.alive) \in Nat \ {0} /\ DOMAIN p.alive = 1..Len(p.alive)
  BY <1>1, EmptySeq, LenProperties
<1>3. \A k \in DOMAIN p.alive : p.alive[k] \in edges
  BY <1>1, <1>2, ElementOfSeq
<1>4. PhaseSize(p) \in Nat \ {0} /\ Len(p.alive) <= PhaseSize(p)
  <2>1. \A c \in Nat \ {0}, d \in Nat \ {0} : c * d \in Nat \ {0} /\ d <= c * d
    BY Z3
  <2> QED BY <1>2, <2>1 DEF PhaseSize, PlanTyped
<1> QED BY <1>1, <1>2, <1>3, <1>4 DEF edges

\* Descents through the root's edges are counted in numbers.
Counted(x) == \A edge \in DOMAIN x.child : Had(x, edge) \in Int

\* A halving when the phase is used up: the better half starts the next phase level.
LEMMA HalvingKeeps ==
  ASSUME config \in Configs, NEW ns, Counted(ns[1]),
         NEW p, PlanOK(ns, p), p # NoPlan, PlanTyped(p), Halvable(p), Even(ns[1], p),
         Len(p.alive) > 1, p.given = PhaseSize(p), NEW h \in Halvings(p)
  PROVE  /\ PlanTyped(h) /\ h.given = 0 /\ h.scheduled = p.scheduled /\ h.rounds = p.rounds
         /\ Halvable(h) /\ Even(ns[1], h)
         /\ Affordable(p) => Affordable(h)
<1> DEFINE k == Len(p.alive)
           half == (k + 1) \div 2
           alive == {p.alive[i] : i \in DOMAIN p.alive}
           next == p.phase + 1
<1>1. /\ DOMAIN p = {"alive", "perAction", "given", "scheduled", "phase", "rounds"}
      /\ k \in Nat \ {0} /\ DOMAIN p.alive = 1..k
      /\ \A i \in DOMAIN p.alive : p.alive[i] \in DOMAIN ns[1].child
      /\ PhaseSize(p) \in Nat \ {0} /\ k <= PhaseSize(p)
  BY PlanIs
<1>2. /\ p.perAction \in Nat \ {0} /\ p.rounds \in Nat \ {0} /\ p.phase \in Nat
      /\ p.scheduled \in Nat /\ next \in Nat
  BY DEF PlanTyped
<1>3. PICK kept \in Lists(alive, half) :
        h = [p EXCEPT !.alive = kept, !.phase = @ + 1, !.given = 0,
                      !.perAction = PhaseShare(kept, p.scheduled, p.phase + 1, p.rounds)]
  BY DEF Halvings
<1>4. k > 1
  OBVIOUS
<1> HIDE DEF k
<1>5. half \in Nat \ {0} /\ half <= k /\ \A v \in Nat : k > v + v => half > v
  BY <1>1, <1>4, HalfIs
<1> HIDE DEF half, next
<1>6. kept \in [1..half -> alive] /\ \A i, j \in 1..half : i # j => kept[i] # kept[j]
  BY <1>3 DEF Lists
<1>7. Len(kept) = half /\ DOMAIN kept = 1..half
  <2>1. kept = [i \in 1..half |-> kept[i]]
    BY <1>6
  <2> QED BY <1>5, <2>1, Listing
<1>8. /\ h.alive = kept /\ h.phase = next /\ h.given = 0 /\ h.scheduled = p.scheduled /\ h.rounds = p.rounds
      /\ h.perAction = PhaseShare(kept, p.scheduled, next, p.rounds)
  BY <1>1, <1>3 DEF next
<1> DEFINE share == PhaseShare(kept, p.scheduled, next, p.rounds)
<1>9. /\ share \in Nat \ {0}
      /\ (next < p.rounds /\ half * (p.rounds - next) <= config.sims - p.scheduled) =>
           (share * half) * (p.rounds - next) <= config.sims - p.scheduled
  BY <1>2, <1>5, <1>7, ShareIs
<1> HIDE DEF share
<1>10. PlanTyped(h)
  BY <1>2, <1>6, <1>7, <1>8, <1>9 DEF PlanTyped, share
<1>11. Halvable(h)
  <2> SUFFICES ASSUME p.rounds > 1, next < p.rounds PROVE half > 2^(p.rounds - 1 - next)
    BY <1>7, <1>8 DEF Halvable
  <2> DEFINE e == p.rounds - 1 - next
             f == p.rounds - 1 - p.phase
  <2>1. e \in Nat /\ f = e + 1 /\ p.phase < p.rounds
    BY <1>2 DEF next
  <2>2. k > 2^f
    BY <2>1 DEF Halvable, k
  <2> HIDE DEF e, f
  <2>3. 2^e \in Nat /\ 2^f = 2^e + 2^e
    BY <2>1, Doubles
  <2> DEFINE v == 2^e
  <2>4. v \in Nat /\ k > v + v
    BY <2>2, <2>3
  <2> HIDE DEF v
  <2>5. half > v
    BY <1>5, <2>4
  <2> QED BY <2>5 DEF v, e
<1>12. Even(ns[1], h)
  <2> DEFINE x == ns[1]
             base == Had(x, p.alive[k])
  <2>1. p.given % k = 0
    <3>1. \A num \in Nat, by \in Nat \ {0}, times \in Nat : num = times * by => num % by = 0
      BY SMTT(30)
    <3>2. p.given = p.perAction * k /\ p.given \in Nat
      BY <1>1 DEF PhaseSize, k
    <3> QED BY <1>1, <1>2, <3>1, <3>2
  <2>2. base \in Int
    BY <1>1 DEF Counted
  <2>3. \A i \in DOMAIN p.alive : Had(x, p.alive[i]) = base
    <3> TAKE i \in DOMAIN p.alive
    <3>1. Had(x, p.alive[i]) = base + (IF i <= p.given % k THEN 1 ELSE 0)
      BY DEF Even, k
    <3>2. i \in Nat \ {0}
      BY <1>1
    <3>3. ~(i <= 0) /\ base + 0 = base
      BY <2>2, <3>2
    <3> HIDE DEF base
    <3> QED BY <2>1, <3>1, <3>3
  <2> HIDE DEF base
  <2>4. \A i \in 1..half : Had(x, kept[i]) = base
    <3> TAKE i \in 1..half
    <3>1. kept[i] \in alive
      BY <1>6
    <3> QED BY <2>3, <3>1
  <2>5. half \in 1..half /\ 0 % half = 0
    <3>1. \A c \in Nat \ {0} : 0 % c = 0
      BY Z3
    <3> QED BY <1>5, <3>1
  <2>6. \A i \in 1..half : Had(x, kept[i]) = Had(x, kept[half]) + (IF i <= 0 THEN 1 ELSE 0)
    <3> TAKE i \in 1..half
    <3>1. Had(x, kept[i]) = base /\ Had(x, kept[half]) = base
      BY <2>4, <2>5
    <3>2. ~(i <= 0)
      OBVIOUS
    <3>3. base + 0 = base
      BY <2>2
    <3> QED BY <3>1, <3>2, <3>3
  <2> QED BY <1>7, <1>8, <2>5, <2>6 DEF Even
<1>13. ASSUME Affordable(p) PROVE Affordable(h)
  <2> SUFFICES ASSUME next < p.rounds
               PROVE (share * half) * (p.rounds - next) <= config.sims - p.scheduled
    <3>1. p.scheduled - 0 = p.scheduled
      BY <1>2
    <3> QED BY <1>7, <1>8, <3>1 DEF Affordable, PhaseSize, share
  <2> DEFINE ahead == p.rounds - next
             size == PhaseSize(p)
  <2>1. ahead \in Nat \ {0} /\ p.rounds - p.phase = ahead + 1 /\ p.phase < p.rounds
    BY <1>2 DEF next
  <2>2. size * (ahead + 1) <= config.sims - (p.scheduled - size)
    BY <1>13, <2>1 DEF Affordable
  <2>3. size \in Nat \ {0} /\ half <= size /\ config.sims \in Nat
    BY <1>1, <1>5, ConfigAssumption
  <2> HIDE DEF ahead, size
  <2>4. /\ half * ahead <= size * ahead /\ size * (ahead + 1) = size * ahead + size
        /\ half * ahead \in Nat /\ size * ahead \in Nat
    <3>1. \A c \in Nat, d \in Nat, e \in Nat : c <= d => c * e <= d * e /\ d * (e + 1) = d * e + d /\ c * e \in Nat /\ d * e \in Nat
      BY Z3
    <3> QED BY <1>5, <2>1, <2>3, <3>1
  <2>5. half * ahead <= config.sims - p.scheduled
    <3> DEFINE u == half * ahead
               v == size * ahead
    <3>1. u <= v /\ v + size <= config.sims - (p.scheduled - size) /\ u \in Nat /\ v \in Nat
      BY <2>2, <2>4
    <3> HIDE DEF u, v
    <3>2. u <= config.sims - p.scheduled
      BY <1>2, <2>3, <3>1
    <3> QED BY <3>2 DEF u
  <2> QED BY <1>9, <2>5 DEF ahead
<1> QED BY <1>8, <1>10, <1>11, <1>12, <1>13

\* A root that differs in nothing the schedule reads.
Alike(x, y) ==
  /\ y.pos = x.pos /\ y.terminal = x.terminal /\ EdgesOf(y) = EdgesOf(x) /\ DOMAIN y.child = DOMAIN x.child
  /\ y.vl \in [EdgesOf(x) -> Int]

\* The root's descents are counted in numbers.
LEMMA RootIsCounted ==
  ASSUME NEW x, Shaped(x), x.vl \in [EdgesOf(x) -> Int]
  PROVE  Counted(x) /\ DOMAIN x.child = EdgesOf(x)
<1>1. x.n \in [EdgesOf(x) -> Nat] /\ x.child \in [EdgesOf(x) -> Nat]
  BY DEF Shaped
<1>2. \A edge \in EdgesOf(x) : x.n[edge] \in Nat /\ x.vl[edge] \in Int
  BY <1>1
<1> QED BY <1>1, <1>2 DEF Counted, Had

\* The candidates are as they were while no edge of the root is taken.
LEMMA CandidatesStay ==
  ASSUME NEW ns, NEW ms, NEW p, PlanOK(ns, p), p # NoPlan, Candidates(ns, p), ms # <<>>,
         Alike(ns[1], ms[1]), \A edge \in DOMAIN ns[1].child : Had(ms[1], edge) = Had(ns[1], edge)
  PROVE  Candidates(ms, p)
<1> DEFINE x == ns[1]
           y == ms[1]
<1>1. /\ Len(p.alive) \in Nat \ {0} /\ DOMAIN p.alive = 1..Len(p.alive)
      /\ \A k \in DOMAIN p.alive : p.alive[k] \in DOMAIN x.child
  BY PlanIs DEF Candidates
<1>2. ASSUME Even(x, p) PROVE Even(y, p)
  <2>1. \A k \in DOMAIN p.alive : Had(y, p.alive[k]) = Had(x, p.alive[k])
    BY <1>1
  <2>2. Len(p.alive) \in DOMAIN p.alive
    BY <1>1
  <2> HIDE DEF x, y
  <2> QED BY <1>2, <2>1, <2>2 DEF Even
<1> QED BY <1>2 DEF Candidates, Alike

\* The next remainder.
LEMMA NextRemainder ==
  ASSUME NEW g \in Nat, NEW m \in Nat \ {0}
  PROVE  /\ g % m \in Nat /\ g % m < m
         /\ IF (g % m) + 1 < m THEN (g + 1) % m = (g % m) + 1 ELSE (g + 1) % m = 0 /\ (g % m) + 1 = m
<1> DEFINE q == g \div m
           r == g % m
           next == g + 1
           on == r + 1
           over == q + 1
<1>1. \A x \in Nat, y \in Nat \ {0}, a \in Nat, b \in Nat : (x = a * y + b /\ b < y) => x % y = b
  BY SMTT(30)
<1>2. g = q * m + r /\ q \in Nat /\ r \in Nat /\ r < m
  BY SMTT(30)
<1> HIDE DEF q, r
<1>3. q * m \in Nat
  <2>1. \A x \in Nat, y \in Nat : x * y \in Nat
    BY Z3
  <2> QED BY <1>2, <2>1
<1>4. next \in Nat /\ on \in Nat /\ over \in Nat /\ next = q * m + on
  BY <1>2, <1>3
<1>5. over * m = q * m + m
  <2>1. \A x \in Nat, y \in Nat : (x + 1) * y = x * y + y
    BY Z3
  <2> QED BY <1>2, <2>1
<1>6. CASE on < m
  <2>1. next % m = on
    <3> HIDE DEF next, on
    <3> QED BY <1>1, <1>2, <1>4, <1>6
  <2> QED BY <1>2, <1>6, <2>1 DEF r
<1>7. CASE ~(on < m)
  <2>1. on = m /\ next = over * m
    BY <1>2, <1>3, <1>4, <1>5, <1>7
  <2>2. next % m = 0
    <3>1. \A x \in Nat, y \in Nat \ {0}, a \in Nat : x = a * y => x % y = 0
      BY SMTT(30)
    <3> HIDE DEF next, over
    <3> QED BY <1>4, <2>1, <3>1
  <2> QED BY <1>2, <1>7, <2>1, <2>2 DEF r
<1> QED BY <1>6, <1>7

\* The descent that is dictated goes to the first candidate that is behind.
LEMMA CandidatesTake ==
  ASSUME NEW ns, NEW ms, NEW p, PlanOK(ns, p), p # NoPlan, Candidates(ns, p), ms # <<>>, Counted(ns[1]),
         Alike(ns[1], ms[1]),
         \A edge \in DOMAIN ns[1].child :
           Had(ms[1], edge) = IF edge = Taken(p) THEN Had(ns[1], edge) + 1 ELSE Had(ns[1], edge)
  PROVE  /\ Candidates(ms, Take(p))
         /\ Take(p).given = p.given + 1 /\ Take(p).scheduled = p.scheduled + 1
         /\ Take(p).alive = p.alive /\ PhaseSize(Take(p)) = PhaseSize(p)
<1> DEFINE x == ns[1]
           y == ms[1]
           q == Take(p)
           k == Len(p.alive)
           g == p.given % k
           h == q.given % k
<1>1. /\ DOMAIN p = {"alive", "perAction", "given", "scheduled", "phase", "rounds"}
      /\ k \in Nat \ {0} /\ DOMAIN p.alive = 1..k
      /\ \A i \in DOMAIN p.alive : p.alive[i] \in DOMAIN x.child
  BY PlanIs DEF Candidates
<1>2. PlanTyped(p)
  BY DEF Candidates
<1>3. /\ q.given = p.given + 1 /\ q.scheduled = p.scheduled + 1 /\ q.alive = p.alive
      /\ q.perAction = p.perAction /\ q.rounds = p.rounds /\ q.phase = p.phase
  BY <1>1 DEF Take
<1>4. PhaseSize(q) = PhaseSize(p)
  BY <1>3 DEF PhaseSize
<1>5. p.given \in Nat /\ p.scheduled \in Nat /\ p.given <= p.scheduled
  BY <1>2 DEF PlanTyped
<1> HIDE DEF q
<1>6. PlanTyped(q)
  <2>1. q.given \in Nat /\ q.scheduled \in Nat /\ q.given <= q.scheduled
    BY <1>3, <1>5
  <2> QED BY <1>2, <1>3, <2>1 DEF PlanTyped
<1>7. Halvable(q)
  BY <1>3 DEF Candidates, Halvable
<1>8. Affordable(p) => Affordable(q)
  <2>1. q.scheduled - q.given = p.scheduled - p.given
    BY <1>3, <1>5
  <2> QED BY <1>3, <1>4, <2>1 DEF Affordable
<1>9. ASSUME Even(x, p) PROVE Even(y, q)
  <2> DEFINE had(i) == Had(x, p.alive[i])
             has(i) == Had(y, p.alive[i])
             base == had(k)
  <2>1. k \in 1..k /\ g \in Nat /\ g < k /\ g + 1 \in 1..k
        /\ IF g + 1 < k THEN h = g + 1 ELSE h = 0 /\ g + 1 = k
    <3>1. q.given = p.given + 1
      BY <1>3
    <3>2. k \in 1..k
      BY <1>1
    <3> HIDE DEF k
    <3>3. /\ g \in Nat /\ g < k
          /\ IF g + 1 < k THEN (p.given + 1) % k = g + 1 ELSE (p.given + 1) % k = 0 /\ g + 1 = k
      BY <1>1, <1>5, NextRemainder
    <3>4. g + 1 \in 1..k
      BY <1>1, <3>3
    <3> QED BY <3>1, <3>2, <3>3, <3>4
  <2> HIDE DEF g, h
  <2>2. base \in Int /\ \A i \in 1..k : had(i) = base + (IF i <= g THEN 1 ELSE 0)
    BY <1>1, <1>9, <2>1 DEF Even, Counted, g
  <2>3. \A i \in 1..k : has(i) = IF i = g + 1 THEN had(i) + 1 ELSE had(i)
    <3> TAKE i \in 1..k
    <3>1. Taken(p) = p.alive[g + 1]
      BY DEF Taken, g
    <3>2. i # g + 1 => p.alive[i] # p.alive[g + 1]
      BY <1>1, <1>2, <2>1 DEF PlanTyped
    <3> QED BY <1>1, <3>1, <3>2
  <2> HIDE DEF had, has
  <2>4. \A i \in 1..k : has(i) = has(k) + (IF i <= h THEN 1 ELSE 0)
    <3> TAKE i \in 1..k
    <3> HIDE DEF k
    <3>1. had(i) = base + (IF i <= g THEN 1 ELSE 0) /\ i \in Nat /\ 1 <= i /\ i <= k
      BY <1>1, <2>2
    <3>2. has(i) = (IF i = g + 1 THEN had(i) + 1 ELSE had(i)) /\ has(k) = (IF k = g + 1 THEN base + 1 ELSE base)
      BY <2>1, <2>3
    <3> HIDE DEF base
    <3>3. CASE g + 1 < k
      <4>1. h = g + 1 /\ has(k) = base
        BY <2>1, <3>2, <3>3
      <4> QED BY <2>1, <2>2, <3>1, <3>2, <4>1
    <3>4. CASE ~(g + 1 < k)
      <4>1. h = 0 /\ g + 1 = k /\ has(k) = base + 1
        BY <2>1, <3>2, <3>4
      <4>2. i <= g \/ i = g + 1
        BY <2>1, <3>1, <4>1
      <4> QED BY <2>1, <2>2, <3>1, <3>2, <4>1, <4>2
    <3> QED BY <3>3, <3>4
  <2> QED BY <1>1, <1>3, <2>4 DEF Even, has, h
<1>10. config.sims >= Len(Moves[y.pos]) * q.rounds => Affordable(q)
  <2>1. y.pos = x.pos
    BY DEF Alike
  <2> QED BY <1>3, <1>8, <2>1 DEF Candidates
<1>11. ~y.terminal /\ y.vl \in [EdgesOf(y) -> Int]
  BY DEF Alike, Candidates
<1>12. Len(q.alive) > 1 => Even(y, q)
  BY <1>3, <1>9 DEF Candidates
<1> QED BY <1>3, <1>4, <1>6, <1>7, <1>10, <1>11, <1>12 DEF Candidates, q

-----------------------------------------------------------------------------
(* The schedule in a round *)

\* What a round holds is counted in numbers.
LEMMA ChargeIs ==
  ASSUME NEW ns, NEW r, RoundOK(ns, r)
  PROVE  /\ Len(r.descents) \in Nat /\ IsList(r.descents)
         /\ Charged(r) = IF r.at = 1 THEN Len(r.descents) ELSE Len(r.descents) + 1
         /\ r.stage # "descend" => Charged(r) = Len(r.descents) /\ ToCome(r) = 0
         /\ r.stage = "descend" => ToCome(r) = IF r.at = 1 THEN r.due - 0 ELSE r.due - 1
<1>1. IsList(r.descents) /\ (r.stage # "descend" => r.at = 1)
  BY DEF RoundOK, IsList
<1>2. Len(r.descents) \in Nat
  BY <1>1, LenProperties DEF IsList
<1>3. Going(r) = IF r.at = 1 THEN 0 ELSE 1
  BY DEF Going
<1>4. ToCome(r) = IF r.stage = "descend" THEN r.due - Going(r) ELSE 0
  BY DEF ToCome
<1>5. Charged(r) = Len(r.descents) + Going(r)
  BY DEF Charged
<1> DEFINE k == Len(r.descents)
<1> HIDE DEF k
<1>6. k \in Nat /\ Charged(r) = k + Going(r) /\ k + 0 = k
  BY <1>2, <1>5 DEF k
<1>7. Charged(r) = IF r.at = 1 THEN k ELSE k + 1
  BY <1>3, <1>6
<1>8. r.stage = "descend" => ToCome(r) = IF r.at = 1 THEN r.due - 0 ELSE r.due - 1
  BY <1>3, <1>4
<1>9. r.stage # "descend" => Charged(r) = k /\ ToCome(r) = 0
  BY <1>1, <1>4, <1>7
<1> QED BY <1>1, <1>2, <1>7, <1>8, <1>9 DEF k

\* The next descent is dictated, within the budget and the phase.
LEMMA StepSchedules ==
  ASSUME TreeInv, Gumbel, OnSchedule(nodes, plan, round, sims), Step
  PROVE  OnSchedule(nodes', plan', round', sims')
<1> DEFINE i == round.at
           q == round'
           ms == nodes'
           pl == plan'
<1>1. round.stage = "descend" /\ UNCHANGED <<config, sims>>
  BY DEF Step
<1>2. /\ nodes # <<>> /\ 1 \in DOMAIN nodes /\ RoundOK(nodes, round) /\ PlanOK(nodes, plan) /\ plan # NoPlan
      /\ Arena(nodes) /\ sims \in Nat
  BY <1>1, InRound DEF Resting, TreeInv, Gumbel
<1>3. PICK a \in Selectable : Walk(a)
  BY DEF Step
<1>4. /\ i \in DOMAIN nodes /\ a \in DOMAIN nodes[i].child
      /\ \A j \in DOMAIN nodes : j # i => j \in DOMAIN ms /\ ms[j] = nodes[j]
      /\ ms[i] = [nodes[i] EXCEPT !.child[a] = q.at, !.vl[a] = @ + 1, !.vlVisits = @ + 1]
      /\ q = [round EXCEPT !.at = q.at, !.path = Append(@, <<i, a>>)]
  BY <1>2, <1>3, WalkIs
<1>5. TreeInv' /\ ms # <<>>
  BY <1>2, Walks DEF SameRoot
<1>6. RoundOK(ms, q)
  BY <1>5 DEF TreeInv
<1>7. /\ DOMAIN round = {"stage", "due", "at", "path", "descents", "leaves"}
      /\ round.path = <<>> \/ IsList(round.path)
  BY <1>2 DEF RoundOK, LeavesTheRoot, IsList
<1>8. pl = IF i = 1 THEN Take(plan) ELSE plan
  BY <1>2, <1>3 DEF Walk, Gumbel
<1>9. i = 1 => a = Taken(plan)
  BY <1>2 DEF Selectable, Gumbel
<1> HIDE DEF q, ms, pl
<1>10. q.at # 1 /\ q.stage = "descend" /\ q.due = round.due /\ q.descents = round.descents
  <2>1. q.path = Append(round.path, <<i, a>>)
    BY <1>4, <1>7
  <2>2. q.path # <<>>
    <3>1. IsList(round.path)
      <4>1. IsList(<<>>)
        BY EmptySeq, OwnRange DEF IsList
      <4> QED BY <1>7, <4>1
    <3>2. Len(round.path) \in Nat /\ Len(q.path) = Len(round.path) + 1
      BY <2>1, <3>1, OneMore DEF IsList
    <3> QED BY <3>2, EmptySeq
  <2> QED BY <1>1, <1>4, <1>6, <1>7, <2>2 DEF RoundOK
<1>11. Candidates(nodes, plan) /\ InBudget(plan, round, sims) /\ PlanTyped(plan)
  BY DEF OnSchedule, Candidates
<1>12. /\ Len(round.descents) \in Nat /\ round.due \in Nat \ {0}
       /\ Charged(round) = (IF i = 1 THEN Len(round.descents) ELSE Len(round.descents) + 1)
       /\ ToCome(round) = IF i = 1 THEN round.due - 0 ELSE round.due - 1
       /\ Charged(q) = Len(round.descents) + 1 /\ ToCome(q) = round.due - 1
  BY <1>1, <1>2, <1>6, <1>10, <1>11, ChargeIs DEF InBudget
<1>13. plan.given \in Nat /\ plan.scheduled \in Nat /\ config.sims \in Nat /\ PhaseSize(plan) \in Nat
  BY <1>2, <1>11, PlanIs, ConfigAssumption DEF PlanTyped, TreeInv
<1>14. CASE i = 1
  <2> DEFINE x == nodes[1]
             y == ms[1]
  <2>1. Shaped(x) /\ x.vl \in [EdgesOf(x) -> Int]
    BY <1>2, <1>11 DEF Arena, Candidates
  <2>2. Counted(x) /\ DOMAIN x.child = EdgesOf(x) /\ DOMAIN x = Fields
    BY <2>1, RootIsCounted DEF Shaped
  <2>3. y = [x EXCEPT !.child[a] = q.at, !.vl[a] = @ + 1, !.vlVisits = @ + 1] /\ a \in DOMAIN x.child
    BY <1>4, <1>14
  <2> HIDE DEF x, y
  <2>4. /\ y.pos = x.pos /\ y.terminal = x.terminal /\ y.expanded = x.expanded /\ y.pending = x.pending
        /\ DOMAIN y.child = DOMAIN x.child /\ y.n = x.n /\ y.vl = [x.vl EXCEPT ![a] = @ + 1]
    BY <2>2, <2>3 DEF Fields
  <2>5. EdgesOf(y) = EdgesOf(x)
    BY <2>4 DEF EdgesOf
  <2>6. y.vl \in [EdgesOf(x) -> Int] /\ y.vl[a] = x.vl[a] + 1 /\ \A e \in EdgesOf(x) : e # a => y.vl[e] = x.vl[e]
    BY <2>1, <2>2, <2>3, <2>4
  <2>7. \A e \in DOMAIN x.child : Had(y, e) = IF e = a THEN Had(x, e) + 1 ELSE Had(x, e)
    <3> TAKE e \in DOMAIN x.child
    <3>1. x.n[e] \in Nat /\ x.vl[e] \in Int
      BY <2>1, <2>2 DEF Shaped
    <3> QED BY <2>2, <2>4, <2>6, <3>1 DEF Had
  <2>8. Alike(x, y)
    BY <2>4, <2>5, <2>6 DEF Alike
  <2>9. a = Taken(plan)
    BY <1>9, <1>14
  <2>10. /\ Candidates(ms, pl) /\ pl.given = plan.given + 1 /\ pl.scheduled = plan.scheduled + 1
         /\ pl.alive = plan.alive /\ PhaseSize(pl) = PhaseSize(plan)
    <3>1. pl = Take(plan)
      BY <1>8, <1>14
    <3>2. /\ PlanOK(nodes, plan) /\ plan # NoPlan /\ Candidates(nodes, plan) /\ ms # <<>>
          /\ Counted(nodes[1]) /\ Alike(nodes[1], ms[1])
      BY <1>2, <1>5, <1>11, <2>2, <2>8 DEF x, y
    <3>3. \A edge \in DOMAIN nodes[1].child :
            Had(ms[1], edge) = IF edge = Taken(plan) THEN Had(nodes[1], edge) + 1 ELSE Had(nodes[1], edge)
      BY <2>7, <2>9 DEF x, y
    <3>4. /\ Candidates(ms, Take(plan))
          /\ Take(plan).given = plan.given + 1 /\ Take(plan).scheduled = plan.scheduled + 1
          /\ Take(plan).alive = plan.alive /\ PhaseSize(Take(plan)) = PhaseSize(plan)
      BY <3>2, <3>3, CandidatesTake
    <3> QED BY <3>1, <3>4
  <2>11. InBudget(pl, q, sims)
    <3> DEFINE k == Len(round.descents)
    <3>1. /\ k \in Nat /\ Charged(round) = k /\ ToCome(round) = round.due /\ Charged(q) = k + 1
          /\ ToCome(q) = round.due - 1 /\ round.due \in Nat \ {0}
      BY <1>12, <1>14
    <3> HIDE DEF k
    <3>2. /\ plan.scheduled = sims + Charged(round) /\ plan.scheduled + ToCome(round) <= config.sims
          /\ Len(plan.alive) > 1 => plan.given + ToCome(round) <= PhaseSize(plan)
      BY <1>11 DEF InBudget
    <3>3. pl.scheduled = sims + Charged(q) /\ pl.scheduled + ToCome(q) <= config.sims
      BY <1>2, <1>13, <2>10, <3>1, <3>2
    <3>4. Len(pl.alive) > 1 => pl.given + ToCome(q) <= PhaseSize(pl)
      <4>1. pl.given + ToCome(q) = plan.given + ToCome(round)
        BY <1>13, <2>10, <3>1
      <4> QED BY <2>10, <3>2, <4>1
    <3>5. q.stage = "descend" => q.due \in Nat \ {0}
      BY <1>10, <3>1
    <3> QED BY <3>3, <3>4, <3>5 DEF InBudget
  <2> QED BY <1>1, <2>10, <2>11 DEF OnSchedule, ms, q, pl
<1>15. CASE i # 1
  <2>1. ms[1] = nodes[1] /\ pl = plan
    BY <1>2, <1>4, <1>8, <1>15
  <2>2. Candidates(ms, pl)
    BY <1>5, <1>11, <2>1 DEF Candidates
  <2>3. InBudget(pl, q, sims)
    BY <1>1, <1>2, <1>10, <1>11, <1>12, <1>15, <2>1 DEF InBudget
  <2> QED BY <1>1, <2>2, <2>3 DEF OnSchedule, ms, q, pl
<1> QED BY <1>14, <1>15

\* A descent that ends was one of those to come.
LEMMA ArrivalSchedules ==
  ASSUME TreeInv, Gumbel, OnSchedule(nodes, plan, round, sims), NEW ms, ms # <<>>, ms[1] = nodes[1],
         round.stage = "descend", round.at # 1, NEW leaves, NEW l, Recorded(leaves, l)
  PROVE  OnSchedule(ms, plan, round', sims)
<1> DEFINE q == round'
           d == [path |-> round.path, leaf |-> l]
<1>1. RoundOK(nodes, round) /\ Candidates(nodes, plan) /\ InBudget(plan, round, sims) /\ sims \in Nat
  BY DEF TreeInv, OnSchedule
<1>2. DOMAIN round = {"stage", "due", "at", "path", "descents", "leaves"}
  BY <1>1 DEF RoundOK
<1>3. /\ q.at = 1 /\ q.due = round.due - 1 /\ q.stage = (IF round.due = 1 THEN "evaluate" ELSE "descend")
      /\ q.descents = Append(round.descents, d)
  BY <1>2 DEF Recorded
<1> HIDE DEF q, d
<1>4. /\ Len(round.descents) \in Nat /\ IsList(round.descents) /\ Charged(round) = Len(round.descents) + 1
      /\ round.due \in Nat \ {0} /\ ToCome(round) = round.due - 1
  BY <1>1, ChargeIs DEF InBudget
<1>5. Len(q.descents) = Len(round.descents) + 1
  BY <1>3, <1>4, OneMore DEF IsList
<1>6. Charged(q) = Charged(round) /\ ToCome(q) = ToCome(round) /\ (q.stage = "descend" => q.due \in Nat \ {0})
  BY <1>3, <1>4, <1>5 DEF Charged, ToCome, Going
<1>7. InBudget(plan, q, sims)
  BY <1>1, <1>6 DEF InBudget
<1>8. Candidates(ms, plan)
  BY <1>1 DEF Candidates
<1> QED BY <1>7, <1>8 DEF OnSchedule, q

\* Arrivals leave the root and the plan alone.
LEMMA ArrivalsSchedule ==
  ASSUME TreeInv, Gumbel, OnSchedule(nodes, plan, round, sims), ArriveTerminal \/ ArrivePending \/ ArriveNew
  PROVE  OnSchedule(nodes', plan', round', sims')
<1>1. round.stage = "descend" /\ UNCHANGED <<sims, plan>>
  BY DEF ArriveTerminal, ArrivePending, ArriveNew
<1>2. /\ nodes # <<>> /\ 1 \in DOMAIN nodes /\ Here = nodes[round.at] /\ round.at \in DOMAIN nodes
      /\ ~nodes[1].terminal /\ nodes[1].expanded /\ ~nodes[1].pending
  BY <1>1, InRound DEF Resting
<1>3. round.at # 1
  BY <1>2 DEF ArriveTerminal, ArrivePending, ArriveNew
<1>4. nodes' # <<>> /\ nodes'[1] = nodes[1]
  <2>1. CASE ArriveTerminal \/ ArrivePending
    BY <1>2, <2>1 DEF ArriveTerminal, ArrivePending
  <2>2. CASE ArriveNew
    <3>1. PICK y : nodes' = [nodes EXCEPT ![round.at] = y]
      BY <2>2 DEF ArriveNew
    <3>2. DOMAIN nodes' = DOMAIN nodes /\ nodes'[1] = nodes[1]
      BY <1>2, <1>3, <3>1
    <3> QED BY <1>2, <3>2
  <2> QED BY <2>1, <2>2
<1>5. \E leaves, l : Recorded(leaves, l)
  BY DEF ArriveTerminal, ArrivePending, ArriveNew, RecordLeaf
<1>6. PICK leaves : \E l : Recorded(leaves, l)
  BY <1>5
<1>7. PICK l : Recorded(leaves, l)
  BY <1>6
<1> DEFINE ms == nodes'
<1>8. ms # <<>> /\ ms[1] = nodes[1]
  BY <1>4
<1> HIDE DEF ms
<1>9. OnSchedule(ms, plan, round', sims)
  BY <1>1, <1>3, <1>7, <1>8, ArrivalSchedules
<1> QED BY <1>1, <1>9 DEF ms

\* The evaluation leaves the root alone.
LEMMA EvaluationSchedules ==
  ASSUME TreeInv, Gumbel, OnSchedule(nodes, plan, round, sims), EvaluateLeaves
  PROVE  OnSchedule(nodes', plan', round', sims')
<1> DEFINE Waits(i) == \E l \in DOMAIN round.leaves : round.leaves[l].node = i /\ ~round.leaves[l].valued
           q == round'
           ms == nodes'
<1>1. round.stage = "evaluate" /\ UNCHANGED <<sims, plan>>
  BY DEF EvaluateLeaves
<1>2. /\ nodes # <<>> /\ 1 \in DOMAIN nodes /\ ~nodes[1].pending /\ RoundOK(nodes, round)
      /\ Candidates(nodes, plan) /\ InBudget(plan, round, sims)
  BY <1>1, InRound DEF Resting, TreeInv, OnSchedule
<1>3. ~Waits(1)
  BY <1>1, <1>2 DEF RoundOK
<1>4. nodes' = [i \in DOMAIN nodes |->
                  IF Waits(i) THEN [FinishExpand(nodes[i]) EXCEPT !.pending = FALSE] ELSE nodes[i]]
  BY DEF EvaluateLeaves
<1>5. ms[1] = nodes[1] /\ ms # <<>>
  <2>1. DOMAIN ms = DOMAIN nodes /\ ms[1] = nodes[1]
    BY <1>2, <1>3, <1>4
  <2> HIDE DEF ms
  <2> QED BY <1>2, <2>1
<1>6. PICK leaves : q = [round EXCEPT !.stage = "backup", !.leaves = leaves]
  BY DEF EvaluateLeaves
<1>7. q.stage = "backup" /\ q.descents = round.descents
  <2>1. DOMAIN round = {"stage", "due", "at", "path", "descents", "leaves"}
    BY <1>2 DEF RoundOK
  <2> HIDE DEF q
  <2> QED BY <1>6, <2>1
<1>8. RoundOK(ms, q)
  BY Evaluates DEF TreeInv
<1> HIDE DEF ms, q
<1>9. Charged(q) = Charged(round) /\ ToCome(q) = 0 /\ ToCome(round) = 0
  BY <1>1, <1>2, <1>7, <1>8, ChargeIs
<1>10. InBudget(plan, q, sims)
  BY <1>2, <1>7, <1>9 DEF InBudget
<1>11. Candidates(ms, plan)
  BY <1>2, <1>5 DEF Candidates
<1> QED BY <1>1, <1>10, <1>11 DEF OnSchedule, ms, q

\* What the backup counts as visits it frees of virtual losses.
LEMMA BackupSchedules ==
  ASSUME TreeInv, Gumbel, OnSchedule(nodes, plan, round, sims), Backup
  PROVE  OnSchedule(nodes', plan', round', sims')
<1> DEFINE k == Len(round.descents)
           x == nodes[1]
           y == Credited(1)
           hits == [a \in DOMAIN x.child |-> Through(1, a)]
           count == [a \in DOMAIN x.child |-> Cardinality(hits[a])]
           total == Cardinality(UNION {hits[a] : a \in DOMAIN hits})
           ms == nodes'
           q == AtRest
           ran == sims'
<1>1. /\ round.stage = "backup" /\ UNCHANGED plan /\ nodes' = [i \in DOMAIN nodes |-> Credited(i)]
      /\ sims' = sims + k /\ round' = AtRest
  BY DEF Backup
<1>2. /\ nodes # <<>> /\ 1 \in DOMAIN nodes /\ RoundOK(nodes, round) /\ PlanOK(nodes, plan) /\ plan # NoPlan
      /\ Arena(nodes) /\ sims \in Nat /\ Candidates(nodes, plan) /\ InBudget(plan, round, sims)
  BY <1>1, InRound DEF Resting, TreeInv, Gumbel, OnSchedule
<1>3. IsList(round.descents) /\ k \in Nat /\ DOMAIN round.descents = 1..k /\ Charged(round) = k /\ ToCome(round) = 0
  <2>1. IsList(round.descents) /\ k \in Nat /\ Charged(round) = k /\ ToCome(round) = 0
    BY <1>1, <1>2, ChargeIs
  <2> QED BY <2>1, LenProperties DEF IsList
<1>4. ms # <<>> /\ ms[1] = y
  <2>1. DOMAIN ms = DOMAIN nodes /\ ms[1] = y
    BY <1>1, <1>2
  <2> HIDE DEF ms
  <2> QED BY <1>2, <2>1
<1>5. Shaped(x) /\ x.vl \in [EdgesOf(x) -> Int] /\ DOMAIN x = Fields
  BY <1>2 DEF Arena, Candidates, Shaped
<1>6. x.n \in [EdgesOf(x) -> Nat] /\ DOMAIN x.child = EdgesOf(x)
  BY <1>5 DEF Shaped
<1>7. \A a \in DOMAIN x.child : count[a] \in Nat
  <2> TAKE a \in DOMAIN x.child
  <2>1. Through(1, a) \subseteq 1..k
    BY <1>3 DEF Through
  <2> DEFINE S == Through(1, a)
  <2> HIDE DEF S, k
  <2>2. Cardinality(S) \in Nat
    BY <1>3, <2>1, DescentsCount DEF S
  <2> QED BY <2>2 DEF S
<1>8. y = [x EXCEPT !.visits = @ + total, !.vlVisits = @ - total,
                    !.n = [a \in DOMAIN @ |-> @[a] + count[a]],
                    !.vl = [a \in DOMAIN @ |-> @[a] - count[a]],
                    !.w = [a \in DOMAIN @ |-> @[a] + Worth(hits[a])]]
  BY DEF Credited
<1> HIDE DEF x, y, hits, count, total, ms, k, ran
<1>9. /\ y.pos = x.pos /\ y.terminal = x.terminal /\ y.expanded = x.expanded /\ y.pending = x.pending
      /\ y.child = x.child
      /\ y.n = [a \in DOMAIN x.n |-> x.n[a] + count[a]] /\ y.vl = [a \in DOMAIN x.vl |-> x.vl[a] - count[a]]
  BY <1>5, <1>8 DEF Fields
<1>10. EdgesOf(y) = EdgesOf(x)
  BY <1>9 DEF EdgesOf
<1>11. \A a \in EdgesOf(x) : y.vl[a] \in Int /\ y.n[a] + y.vl[a] = x.n[a] + x.vl[a]
  <2> TAKE a \in EdgesOf(x)
  <2>1. x.n[a] \in Nat /\ x.vl[a] \in Int /\ count[a] \in Nat
    BY <1>5, <1>6, <1>7
  <2>2. y.n[a] = x.n[a] + count[a] /\ y.vl[a] = x.vl[a] - count[a]
    BY <1>5, <1>6, <1>9
  <2> QED BY <2>1, <2>2
<1>12. y.vl \in [EdgesOf(x) -> Int]
  <2>1. y.vl = [a \in EdgesOf(x) |-> x.vl[a] - count[a]]
    BY <1>5, <1>9
  <2>2. DOMAIN y.vl = EdgesOf(x) /\ y.vl = [a \in EdgesOf(x) |-> y.vl[a]]
    BY <2>1
  <2> QED BY <1>11, <2>2
<1>13. Candidates(ms, plan)
  <2>1. Alike(x, y)
    BY <1>9, <1>10, <1>12 DEF Alike
  <2>2. \A a \in DOMAIN x.child : Had(y, a) = Had(x, a)
    BY <1>6, <1>11 DEF Had
  <2> QED BY <1>2, <1>4, <2>1, <2>2, CandidatesStay DEF x
<1>14. /\ q.stage = "rest" /\ Charged(q) = 0 /\ ToCome(q) = 0
  <2>1. q.stage = "rest" /\ q.at = 1 /\ q.descents = <<>>
    BY DEF AtRest
  <2>2. Len(<<>>) = 0
    BY EmptySeq
  <2> HIDE DEF q
  <2> QED BY <2>1, <2>2 DEF Charged, ToCome, Going
<1> HIDE DEF q
<1>15. InBudget(plan, q, ran)
  <2>1. plan.scheduled = sims + k /\ ran = sims + k /\ sims + k \in Nat
    BY <1>1, <1>2, <1>3 DEF InBudget, ran
  <2> QED BY <1>2, <1>3, <1>14, <2>1 DEF InBudget
<1> QED BY <1>1, <1>13, <1>15 DEF OnSchedule, ms, q, ran

\* A round that begins halves what is due, and takes no more than the phase and the budget have.
LEMMA BeginningSchedules ==
  ASSUME TreeInv, Gumbel, OnSchedule(nodes, plan, round, sims), NEW target \in Nat \ {0},
         sims + target <= config.sims, SimulateRound(target)
  PROVE  OnSchedule(nodes', plan', round', sims')
<1> DEFINE x == nodes[1]
           q == round'
           pl == plan'
<1>1. /\ Resting /\ UNCHANGED <<config, nodes, sims>> /\ pl \in Prepared
      /\ q = [AtRest EXCEPT !.stage = "descend", !.due = Clamped(pl, target)]
  BY DEF SimulateRound
<1>2. /\ nodes # <<>> /\ config \in Configs /\ RoundOK(nodes, round) /\ PlanOK(nodes, plan) /\ plan # NoPlan
      /\ Arena(nodes) /\ sims \in Nat /\ Candidates(nodes, plan) /\ InBudget(plan, round, sims)
      /\ PlanTyped(plan) /\ Halvable(plan)
  BY DEF TreeInv, Gumbel, OnSchedule, Candidates
<1>3. /\ q.stage = "descend" /\ q.due = Clamped(pl, target) /\ q.at = 1 /\ q.descents = <<>>
  BY <1>1 DEF AtRest
<1>4. plan.scheduled = sims /\ (Len(plan.alive) > 1 => plan.given <= PhaseSize(plan))
  <2>1. round.stage = "rest" /\ round.descents = <<>>
    BY <1>1, <1>2 DEF Resting, RoundOK
  <2>2. Charged(round) = 0 /\ ToCome(round) = 0
    BY <1>2, <2>1, ChargeIs, EmptySeq
  <2>3. plan.given + 0 = plan.given
    BY <1>2 DEF PlanTyped
  <2> QED BY <1>2, <2>2, <2>3 DEF InBudget
<1>5. Counted(x)
  <2>1. x.vl \in [EdgesOf(x) -> Int] /\ Shaped(x)
    <3>1. Len(nodes) \in Nat /\ DOMAIN nodes = 1..Len(nodes) /\ Len(nodes) # 0
      BY <1>2, EmptySeq, LenProperties DEF Arena
    <3>2. 1 \in DOMAIN nodes
      BY <3>1
    <3> QED BY <1>2, <3>2 DEF Candidates, Arena
  <2> HIDE DEF x
  <2> QED BY <2>1, RootIsCounted
<1> HIDE DEF q, pl
<1>6. /\ Candidates(nodes, pl) /\ PlanOK(nodes, pl) /\ pl # NoPlan /\ pl.scheduled = sims
      /\ Len(pl.alive) > 1 => pl.given < PhaseSize(pl)
  <2>1. CASE NeedsHalving(plan)
    <3>1. pl \in Halvings(plan)
      BY <1>1, <2>1 DEF Prepared, Gumbel
    <3>2. Len(plan.alive) > 1 /\ plan.given = PhaseSize(plan) /\ Even(x, plan)
      <4>1. Len(plan.alive) > 1 /\ plan.given >= PhaseSize(plan)
        BY <2>1 DEF NeedsHalving
      <4>2. plan.given \in Nat /\ PhaseSize(plan) \in Nat
        BY <1>2, PlanIs DEF PlanTyped
      <4> QED BY <1>2, <1>4, <4>1, <4>2 DEF Candidates
    <3>3. /\ PlanTyped(pl) /\ pl.given = 0 /\ pl.scheduled = plan.scheduled /\ pl.rounds = plan.rounds
          /\ Halvable(pl) /\ Even(x, pl)
          /\ Affordable(plan) => Affordable(pl)
      BY <1>2, <1>5, <3>1, <3>2, HalvingKeeps
    <3>4. PlanOK(nodes, pl)
      BY <1>2, <3>1, Halves
    <3>5. pl # NoPlan
      <4>1. pl.alive # <<>> \/ pl = NoPlan
        BY <3>4 DEF PlanOK
      <4>2. DOMAIN pl = DOMAIN plan
        BY <3>1 DEF Halvings
      <4>3. DOMAIN plan = {"alive", "perAction", "given", "scheduled", "phase", "rounds"}
        BY <1>2 DEF PlanOK
      <4>4. DOMAIN NoPlan = {"alive"}
        BY DEF NoPlan
      <4>5. "given" \in DOMAIN plan /\ "given" \notin {"alive"}
        BY <4>3
      <4> QED BY <4>2, <4>4, <4>5
    <3>6. PhaseSize(pl) \in Nat \ {0}
      BY <3>3, <3>4, <3>5, PlanIs
    <3>7. Candidates(nodes, pl)
      BY <1>2, <3>3 DEF Candidates
    <3>8. pl.given < PhaseSize(pl)
      BY <3>3, <3>6
    <3> QED BY <1>4, <3>3, <3>4, <3>5, <3>7, <3>8
  <2>2. CASE ~NeedsHalving(plan)
    <3>1. pl = plan
      BY <1>1, <2>2 DEF Prepared
    <3>2. Len(plan.alive) > 1 => plan.given < PhaseSize(plan)
      <4>1. plan.given \in Nat /\ PhaseSize(plan) \in Nat
        BY <1>2, PlanIs DEF PlanTyped
      <4>2. Len(plan.alive) > 1 => ~(plan.given >= PhaseSize(plan))
        BY <2>2 DEF NeedsHalving
      <4> QED BY <4>1, <4>2
    <3> QED BY <1>2, <1>4, <3>1, <3>2
  <2> QED BY <2>1, <2>2
<1> DEFINE due == Clamped(pl, target)
           room == PhaseRemaining(pl, target)
<1>7. pl.given \in Nat /\ PhaseSize(pl) \in Nat \ {0} /\ Len(pl.alive) \in Nat
  BY <1>6, PlanIs DEF Candidates, PlanTyped
<1>8. due = Larger(Smaller(target, room), 1)
  BY <1>6 DEF Clamped
<1>9. room \in Nat \ {0} /\ (Len(pl.alive) > 1 => room = PhaseSize(pl) - pl.given)
  BY <1>6, <1>7 DEF PhaseRemaining, Larger
<1> HIDE DEF due, room
<1>10. due \in Nat \ {0} /\ due <= target /\ due <= room
  BY <1>8, <1>9 DEF Larger, Smaller
<1>11. Charged(q) = 0 /\ ToCome(q) = due
  <2>1. Len(<<>>) = 0 /\ due - 0 = due
    BY <1>10, EmptySeq
  <2>2. Going(q) = 0
    BY <1>3 DEF Going
  <2>3. q.due = due
    BY <1>3 DEF due
  <2> QED BY <1>3, <2>1, <2>2, <2>3 DEF Charged, ToCome
<1>12. InBudget(pl, q, sims)
  <2>1. pl.scheduled = sims + 0 /\ sims + due <= config.sims
    <3>1. config.sims \in Nat
      BY <1>2, ConfigAssumption
    <3> QED BY <1>2, <1>6, <1>10, <3>1
  <2>2. Len(pl.alive) > 1 => pl.given + due <= PhaseSize(pl)
    BY <1>7, <1>9, <1>10
  <2>3. q.due = due
    BY <1>3 DEF due
  <2> QED BY <1>6, <1>10, <1>11, <2>1, <2>2, <2>3 DEF InBudget
<1> QED BY <1>1, <1>6, <1>12 DEF OnSchedule, q, pl

-----------------------------------------------------------------------------
(* The schedule of a search *)

\* No edge of a fresh root was taken.
LEMMA FreshRootIsEven ==
  ASSUME NEW p \in Position, NEW y, y = RootNode(p), ~y.terminal
  PROVE  y.vl \in [EdgesOf(y) -> Int] /\ \A edge \in DOMAIN y.child : Had(y, edge) = 0
<1> DEFINE x == NewNode(p)
           zeros == [a \in DOMAIN Moves[p] |-> 0]
           z == [x EXCEPT !.child = zeros, !.n = zeros, !.w = zeros, !.vl = zeros]
<1>1. DOMAIN x = Fields /\ x.pos = p /\ x.terminal = (p \in Over) /\ x.expanded = FALSE /\ x.pending = FALSE
  BY DEF NewNode, Fields
<1>2. p \notin Over
  <2>1. p \in Over => y = x
    BY DEF RootNode
  <2> HIDE DEF x
  <2> QED BY <1>1, <2>1
<1>3. y = Expand(x)
  BY <1>2 DEF RootNode
<1> HIDE DEF x
<1>4. BeginExpand(x) = IF zeros = <<>> THEN [x EXCEPT !.terminal = TRUE, !.leaf = TerminalValue(p)] ELSE z
  BY <1>1 DEF BeginExpand
<1>5. zeros # <<>>
  <2> SUFFICES ASSUME zeros = <<>> PROVE FALSE
    OBVIOUS
  <2> DEFINE u == BeginExpand(x)
  <2>1. u = [x EXCEPT !.terminal = TRUE, !.leaf = TerminalValue(p)]
    BY <1>4
  <2>2. y = IF u.terminal THEN u ELSE FinishExpand(u)
    BY <1>3 DEF Expand
  <2> HIDE DEF u
  <2>3. u.terminal = TRUE
    BY <1>1, <2>1 DEF Fields
  <2> QED BY <2>2, <2>3
<1>6. z = BeginExpand(x)
  BY <1>4, <1>5
<1>7. y = IF z.terminal THEN z ELSE FinishExpand(z)
  BY <1>3, <1>6 DEF Expand
<1>8. /\ DOMAIN z = Fields /\ z.pos = p /\ z.terminal = FALSE /\ z.pending = FALSE
      /\ z.child = zeros /\ z.n = zeros /\ z.vl = zeros
  <2> HIDE DEF zeros
  <2>1. x.terminal = FALSE
    <3>1. (p \in Over) = FALSE
      BY <1>2
    <3>2. x.terminal = (p \in Over)
      BY <1>1
    <3> HIDE DEF x
    <3> QED BY Zenon, <3>1, <3>2
  <2>2. DOMAIN z = DOMAIN x /\ z.pos = x.pos /\ z.terminal = x.terminal /\ z.pending = x.pending
    OBVIOUS
  <2>3. z.child = zeros /\ z.n = zeros /\ z.vl = zeros
    BY <1>1 DEF Fields
  <2> QED BY <1>1, <2>1, <2>2, <2>3
<1> HIDE DEF z
<1>9. y = [z EXCEPT !.expanded = TRUE, !.leaf = LeafValue(z.pos)]
  BY <1>7, <1>8 DEF FinishExpand
<1>10. y.expanded = TRUE /\ y.pos = p /\ y.child = zeros /\ y.n = zeros /\ y.vl = zeros
  <2> HIDE DEF zeros
  <2> QED BY <1>8, <1>9 DEF Fields
<1>11. EdgesOf(y) = DOMAIN Moves[p]
  BY <1>10 DEF EdgesOf
<1>12. \A edge \in DOMAIN y.child : Had(y, edge) = 0
  <2> TAKE edge \in DOMAIN y.child
  <2>1. y.n[edge] = 0 /\ y.vl[edge] = 0
    BY <1>10
  <2> QED BY <2>1 DEF Had
<1> QED BY <1>10, <1>11, <1>12

\* A fresh searcher with a plan is on schedule.
LEMMA FreshSchedules ==
  ASSUME NEW p \in Position, config \in Configs, config' = config, NewSearcher(p), plan' # NoPlan
  PROVE  OnSchedule(nodes', plan', round', sims') /\ config.m # 0 /\ ~nodes'[1].terminal
<1> DEFINE x == RootNode(p)
           ms == nodes'
           pl == plan'
           q == AtRest
<1>1. ms = <<x>> /\ sims' = 0 /\ pl \in Plans(x) /\ round' = AtRest
  BY DEF NewSearcher
<1>2. Shaped(x) /\ x.pos = p /\ (x.terminal \/ x.expanded)
  BY RootIs
<1>3. ms # <<>> /\ ms[1] = x
  <2>1. DOMAIN ms = {1} /\ ms[1] = x
    BY <1>1
  <2> HIDE DEF ms, x
  <2> QED BY <2>1
<1>4. PlanOK(ms, pl) /\ pl # NoPlan
  BY <1>1, <1>2, <1>3, PlansAre
<1> HIDE DEF ms, pl, x
<1>5. /\ ~x.terminal /\ config.m # 0 /\ PlanTyped(pl) /\ pl.given = 0 /\ pl.scheduled = 0
      /\ Halvable(pl)
      /\ config.sims >= Len(Moves[x.pos]) * pl.rounds => Affordable(pl)
  BY <1>1, <1>2, <1>4, PlansStart
<1>6. x.vl \in [EdgesOf(x) -> Int] /\ \A edge \in DOMAIN x.child : Had(x, edge) = 0
  BY <1>5, FreshRootIsEven DEF x
<1>7. Even(x, pl)
  <2>1. /\ Len(pl.alive) \in Nat \ {0} /\ DOMAIN pl.alive = 1..Len(pl.alive)
        /\ \A k \in DOMAIN pl.alive : pl.alive[k] \in DOMAIN x.child
    BY <1>3, <1>4, <1>5, PlanIs
  <2>2. pl.given % Len(pl.alive) = 0
    <3>1. \A m \in Nat \ {0} : 0 % m = 0
      BY Z3
    <3> QED BY <1>5, <2>1, <3>1
  <2>3. Len(pl.alive) \in DOMAIN pl.alive
    BY <2>1
  <2>4. \A k \in DOMAIN pl.alive : Had(x, pl.alive[k]) = 0 /\ ~(k <= 0)
    BY <1>6, <2>1
  <2> QED BY <2>2, <2>3, <2>4 DEF Even
<1>8. Candidates(ms, pl)
  BY <1>3, <1>5, <1>6, <1>7 DEF Candidates
<1>9. q.stage = "rest" /\ q.at = 1 /\ q.descents = <<>> /\ Len(<<>>) = 0
  BY EmptySeq DEF AtRest
<1> HIDE DEF q
<1>10. Charged(q) = 0 /\ ToCome(q) = 0
  BY <1>9 DEF Charged, ToCome, Going
<1>11. InBudget(pl, q, 0)
  <2>1. PhaseSize(pl) \in Nat /\ config.sims \in Nat
    BY <1>4, <1>5, PlanIs, ConfigAssumption
  <2> QED BY <1>5, <1>9, <1>10, <2>1 DEF InBudget
<1> QED BY <1>1, <1>3, <1>5, <1>8, <1>11 DEF OnSchedule, ms, pl, q

\* A step of the round keeps the schedule.
LEMMA RoundSchedules ==
  ASSUME TreeInv, Gumbel, OnSchedule(nodes, plan, round, sims), Round
  PROVE  OnSchedule(nodes', plan', round', sims')
BY StepSchedules, ArrivalsSchedule, EvaluationSchedules, BackupSchedules DEF Round

\* Every step keeps to the schedule, and only self-play has one.
LEMMA SchedulingStep ==
  ASSUME EngineInv, Scheduling, [Next]_vars
  PROVE  Scheduling'
<1>1. /\ TreeInv /\ StepOK /\ Searched /\ config \in Configs /\ sims \in Nat
      /\ caller # "play" => config.m = 0
      /\ Gumbel => caller = "play" /\ config.m # 0 /\ step.stage \in {"sims", "harvest"} /\ drive.before = 0
      /\ Gumbel => OnSchedule(nodes, plan, round, sims)
      /\ (Gumbel /\ step.stage = "harvest") => sims = config.sims
  BY DEF EngineInv, Scheduling, TreeInv
<1>2. ASSUME UNCHANGED <<caller, config>>, plan' = NoPlan PROVE Scheduling'
  BY <1>1, <1>2 DEF Scheduling, Gumbel
<1>3. ASSUME config.m = 0, NEW x, plan' \in Plans(x) PROVE plan' = NoPlan
  BY <1>3 DEF Plans
<1>4. ASSUME config.m = 0, NEW p, NewSearcher(p) PROVE plan' = NoPlan
  BY <1>3, <1>4 DEF NewSearcher
<1>5. Drop => plan' = NoPlan
  BY DEF Drop
<1>6. ~Gumbel => plan = NoPlan
  BY DEF Gumbel
<1>7. ASSUME UNCHANGED <<caller, config>>, OnSchedule(nodes', plan', round', sims'),
             caller = "play", config.m # 0, step'.stage \in {"sims", "harvest"}, drive'.before = 0,
             step'.stage = "harvest" => sims' = config.sims
      PROVE  Scheduling'
  BY <1>1, <1>7 DEF Scheduling, OnSchedule, Candidates, InBudget, Affordable
<1>8. CASE Environment
  <2>1. PICK p \in Snapshots, budget \in Budgets :
          \/ \E kind \in {"think", "answer"} : Receive(p, kind, budget)
          \/ Choose(p, budget) \/ ChooseCancelled(p) \/ Play(p, budget)
    BY <1>8 DEF Environment
  <2>2. p \in Position
    BY DomainAssumption
  <2>3. CASE \E kind \in {"think", "answer"} : Receive(p, kind, budget)
    <3>1. caller = "session" /\ UNCHANGED <<caller, config, plan>>
      BY <2>3 DEF Receive, tree
    <3> QED BY <1>1, <1>2, <1>6, <3>1
  <2>4. CASE Choose(p, budget)
    <3>1. caller = "choose" /\ UNCHANGED <<caller, config>> /\ (NewSearcher(p) \/ Drop)
      BY <2>4 DEF Choose
    <3> QED BY <1>1, <1>2, <1>4, <1>5, <3>1
  <2>5. CASE Play(p, budget)
    <3>1. /\ caller = "play" /\ UNCHANGED <<caller, config>> /\ NewSearcher(p) /\ drive' = NoDrive
          /\ step' = [kind |-> "play", pos |-> p, budget |-> budget, path |-> <<>>,
                      stage |-> IF nodes'[1].terminal THEN "harvest" ELSE "sims"]
      BY <2>5 DEF Play
    <3>2. CASE plan' = NoPlan
      BY <1>2, <3>1, <3>2
    <3>3. CASE plan' # NoPlan
      <4>1. OnSchedule(nodes', plan', round', sims') /\ config.m # 0 /\ ~nodes'[1].terminal
        BY <1>1, <2>2, <3>1, <3>3, FreshSchedules
      <4>2. step'.stage = "sims"
        BY <3>1, <4>1
      <4>3. drive'.before = 0
        BY <3>1 DEF NoDrive
      <4> QED BY <1>7, <3>1, <4>1, <4>2, <4>3
    <3> QED BY <3>2, <3>3
  <2>6. CASE ChooseCancelled(p)
    <3>1. caller = "choose" /\ UNCHANGED <<caller, config, plan>>
      BY <2>6 DEF ChooseCancelled, tree
    <3> QED BY <1>1, <1>2, <1>6, <3>1
  <2> QED BY <2>1, <2>3, <2>4, <2>5, <2>6
<1>9. CASE Locate
  <2>1. caller = "session" /\ UNCHANGED <<caller, config>>
    BY <1>1, <1>9 DEF Locate, Searched
  <2>2. Drop \/ Reuse \/ UNCHANGED plan \/ Rebuild
    BY <1>9 DEF Locate
  <2>3. config.m = 0 /\ plan = NoPlan
    BY <1>1, <1>6, <2>1
  <2>4. plan' = NoPlan
    BY <1>4, <1>5, <2>2, <2>3 DEF Reuse, Rebuild
  <2> QED BY <1>2, <2>1, <2>4
<1>10. CASE FollowPath
  <2>1. caller = "session" /\ UNCHANGED <<caller, config>>
    BY <1>1, <1>10 DEF FollowPath, Searched
  <2>2. Reuse \/ Rebuild \/ \E a : Rebase(a)
    BY <1>10 DEF FollowPath
  <2>3. config.m = 0 /\ plan = NoPlan
    BY <1>1, <1>6, <2>1
  <2>4. plan' = NoPlan
    BY <1>3, <1>4, <2>2, <2>3 DEF Reuse, Rebuild, Rebase
  <2> QED BY <1>2, <2>1, <2>4
<1>11. ASSUME ~Gumbel, NEW target, SimulateRound(target) PROVE UNCHANGED config /\ plan' = NoPlan
  BY <1>6, <1>11 DEF SimulateRound, Prepared
<1>12. CASE SliceRound
  <2>1. SimulateRound(config.batch) /\ UNCHANGED caller /\ step.stage = "drive"
    BY <1>1, <1>12 DEF SliceRound, Driving, Searched
  <2>2. ~Gumbel
    BY <1>1, <2>1
  <2> QED BY <1>2, <1>11, <2>1, <2>2
<1>13. CASE RunSims
  <2> DEFINE target == Smaller(config.batch, config.sims - Added)
  <2>1. /\ step.stage = "sims" /\ Resting /\ UNCHANGED <<caller, drive>>
        /\ IF Added < config.sims THEN SimulateRound(target) /\ UNCHANGED step
           ELSE step' = [step EXCEPT !.stage = "harvest"] /\ UNCHANGED tree
    BY <1>13 DEF RunSims
  <2>2. CASE ~Gumbel
    <3>1. UNCHANGED config /\ plan' = NoPlan
      <4> HIDE DEF target
      <4> QED BY <1>6, <1>11, <2>1, <2>2 DEF tree
    <3> QED BY <1>2, <2>1, <3>1
  <2>3. CASE Gumbel
    <3>1. /\ OnSchedule(nodes, plan, round, sims) /\ caller = "play" /\ config.m # 0 /\ drive.before = 0
          /\ Added = sims
      BY <1>1, <2>3 DEF Added
    <3>2. config.sims \in Nat /\ config.batch \in Nat \ {0}
      BY <1>1, ConfigAssumption
    <3>3. CASE sims < config.sims
      <4>1. target \in Nat \ {0} /\ sims + target <= config.sims
        BY <1>1, <3>1, <3>2, <3>3 DEF Smaller
      <4>2. SimulateRound(target) /\ UNCHANGED step
        BY <2>1, <3>1, <3>3
      <4> HIDE DEF target
      <4>3. OnSchedule(nodes', plan', round', sims') /\ UNCHANGED config
        BY <1>1, <2>3, <3>1, <4>1, <4>2, BeginningSchedules DEF SimulateRound
      <4> QED BY <1>7, <2>1, <3>1, <4>2, <4>3
    <3>4. CASE ~(sims < config.sims)
      <4>1. step' = [step EXCEPT !.stage = "harvest"] /\ UNCHANGED <<config, nodes, plan, round, sims>>
        BY <2>1, <3>1, <3>4 DEF tree
      <4>2. sims = config.sims
        <5>1. round.stage # "descend" /\ RoundOK(nodes, round)
          BY <1>1, <2>1 DEF Resting, TreeInv
        <5>2. ToCome(round) = 0 /\ Charged(round) \in Nat
          BY <5>1, ChargeIs
        <5>3. plan.scheduled = sims + Charged(round) /\ plan.scheduled + 0 <= config.sims
          BY <3>1, <5>2 DEF OnSchedule, InBudget
        <5> QED BY <1>1, <3>2, <3>4, <5>2, <5>3
      <4>3. step'.stage = "harvest"
        BY <1>1, <4>1 DEF StepOK
      <4> QED BY <1>7, <2>1, <3>1, <4>1, <4>2, <4>3
    <3> QED BY <3>3, <3>4
  <2> QED BY <2>2, <2>3
<1>14. CASE Harvest
  <2>1. UNCHANGED <<caller, config>> /\ IF caller = "session" THEN UNCHANGED plan ELSE Drop
    BY <1>14 DEF Harvest
  <2>2. plan' = NoPlan
    BY <1>1, <1>5, <1>6, <2>1
  <2> QED BY <1>2, <2>1, <2>2
<1>15. CASE \E over \in 0..Overshoot, cancelled, interrupted \in BOOLEAN : SliceEnds(over, cancelled, interrupted)
  <2>1. step.stage = "drive" /\ UNCHANGED <<caller, config, plan>>
    BY <1>15 DEF SliceEnds, Driving, tree
  <2> QED BY <1>1, <1>2, <1>6, <2>1
<1>16. CASE Round /\ UNCHANGED <<caller, root, step, drive, reply, steps>>
  <2>1. UNCHANGED <<config, caller, step, drive>> /\ ~Resting
    BY <1>16 DEF Round, Step, ArriveTerminal, ArrivePending, ArriveNew, EvaluateLeaves, Backup, Resting
  <2>2. CASE ~Gumbel
    <3>1. plan' = plan
      BY <1>16, <2>2 DEF Round, Step, Walk, ArriveTerminal, ArrivePending, ArriveNew, EvaluateLeaves, Backup
    <3> QED BY <1>2, <1>6, <2>1, <2>2, <3>1
  <2>3. CASE Gumbel
    <3>1. OnSchedule(nodes', plan', round', sims')
      BY <1>1, <1>16, <2>3, RoundSchedules
    <3>2. step.stage = "sims"
      BY <1>1, <2>1, <2>3 DEF StepOK
    <3> QED BY <1>1, <1>7, <2>1, <2>3, <3>1, <3>2
  <2> QED BY <2>2, <2>3
<1>17. CASE UNCHANGED vars
  BY <1>1, <1>17 DEF vars, tree, Scheduling, OnSchedule, Candidates, InBudget, Affordable, Gumbel
<1> QED BY <1>8, <1>9, <1>10, <1>12, <1>13, <1>14, <1>15, <1>16, <1>17 DEF Next, Work

-----------------------------------------------------------------------------
(* The theorems *)

\* The invariant of the engine: the shape of the tree, the round in hand, the step and its search.
THEOREM EngineInvariant == Spec => []EngineInv
<1>1. Init => EngineInv
  BY Starts
<1>2. EngineInv /\ [Next]_vars => EngineInv'
  BY EngineStep
<1> QED BY <1>1, <1>2, PTL DEF Spec

\* For every net, board, configuration and clock: no search is ended early in the first half of
\* its ceiling (clock.rs: the lead must be out of reach and run by this very search).
THEOREM EarlyStopsComeLate == Spec => []EarlyStopIsLate
<1>1. EngineInv => EarlyStopIsLate
  BY DEF EngineInv
<1> QED BY <1>1, EngineInvariant, PTL

\* For every game graph and whatever keys collide: the index leads to nodes that have the keys and
\* never to the root, also after a re-root; no edge leads to the root; and while no two positions
\* met under one key, no position has two nodes (search.rs link_child, rebase).
THEOREM NoPositionTwice == Spec => []DagIsDuplicateFree
<1>1. EngineInv => DagIsDuplicateFree
  <2> SUFFICES ASSUME EngineInv PROVE DagIsDuplicateFree
    OBVIOUS
  <2>1. Arena(nodes) /\ Structure(nodes, index, Dag, collisions)
    BY DEF EngineInv, TreeInv
  <2>2. \A i \in DOMAIN nodes : \A a \in DOMAIN nodes[i].child : nodes[i].child[a] # 1
    BY <2>1, RootHasNoParent DEF Structure
  <2> QED BY <2>1, <2>2 DEF DagIsDuplicateFree, Structure, Indexed, Covered, Distinct
<1> QED BY <1>1, EngineInvariant, PTL

\* For every net, board, configuration and clock: the tree an answer is taken from is that of the
\* position asked about, was searched for this question, and answers an edge the search has visited
\* unless a Gumbel schedule dictates it (mcts.rs harvest, search.rs best_action).
THEOREM AnswersAreSearched == Spec => []AnswerIsSearchedThere
<1>1. EngineInv => AnswerIsSearchedThere
  <2> SUFFICES ASSUME EngineInv, step.stage = "harvest", nodes # <<>>
               PROVE  /\ nodes[1].pos = step.pos
                      /\ (step.kind # "play" /\ nodes[1].child # <<>>) => Added >= 1
                      /\ (~Gumbel /\ nodes[1].child # <<>>) => \A a \in Answers : nodes[1].n[a] > 0
    BY DEF AnswerIsSearchedThere
  <2>1. nodes[1].pos = step.pos /\ (nodes[1].child # <<>> => sims > drive.before /\ Visited(nodes))
    BY DEF EngineInv, Searched
  <2>2. sims \in Nat /\ drive.before \in Nat
    BY DEF EngineInv, TreeInv, DriveOK
  <2>3. nodes[1].child # <<>> => Added >= 1
    BY <2>1, <2>2 DEF Added
  <2>4. ASSUME ~Gumbel, nodes[1].child # <<>>, NEW a \in Answers PROVE nodes[1].n[a] > 0
    <3> DEFINE f == nodes[1].n
               visited == {b \in DOMAIN f : f[b] > 0}
    <3>1. Shaped(nodes[1]) /\ ~nodes[1].terminal /\ nodes[1].expanded
      BY <2>4, AtTheRoot
    <3>2. PICK b \in DOMAIN f : f[b] > 0
      BY <2>1, <2>4 DEF Visited
    <3>3. f[Leader(f)] > 0
      <4> DEFINE k == Len(Moves[nodes[1].pos])
      <4>1. k \in Nat /\ DOMAIN Moves[nodes[1].pos] = 1..k
        BY <3>1, GraphAssumption, LenProperties DEF Shaped
      <4>2. f \in [1..k -> Nat]
        BY <3>1, <4>1 DEF Shaped, EdgesOf
      <4> HIDE DEF k, f
      <4>3. b \in 1..k /\ k # 0
        BY <3>2, <4>1, <4>2
      <4>4. Leader(f) \in 1..k /\ f[b] <= f[Leader(f)]
        BY Zenon, <4>1, <4>2, <4>3, LeaderLeads
      <4> QED BY <3>2, <4>2, <4>3, <4>4
    <3>4. BestActions = {Leader(f)}
      BY <2>4, <3>1 DEF BestActions
    <3>5. ChosenActions = BestActions \/ ChosenActions = visited
      BY <3>2, <2>4, <3>1 DEF ChosenActions
    <3>6. Answers = BestActions \/ Answers = ChosenActions
      BY Zenon, <3>2, <3>4, <3>5 DEF Answers
    <3> HIDE DEF f
    <3>7. a = Leader(f) \/ a \in visited
      BY <3>4, <3>5, <3>6
    <3> QED BY <3>3, <3>7 DEF f
  <2> QED BY <2>1, <2>3, <2>4
<1> QED BY <1>1, EngineInvariant, PTL

\* For every net, board and batch size, and however many parents a node has: in a tree not
\* re-rooted, what the edges into a node were credited is what its own edges were credited and its
\* own worth for every descent that ended there, and one did (search.rs backup, one frame for both).
THEOREM ValueConserved == Spec => []ValueIsConserved
<1>1. Init => Booking
  BY DEF Init, Booking, Books
<1>2. EngineInv /\ Booking /\ [Next]_vars => Booking'
  BY BooksStep
<1>3. EngineInv /\ Booking => ValueIsConserved
  <2> SUFFICES ASSUME EngineInv, Booking, Resting, nodes # <<>>, sims = nodes[1].visits,
                      NEW i \in DOMAIN nodes \ {1}
               PROVE  /\ Arrivals(nodes, i) - nodes[i].visits >= 1
                      /\ Brought(nodes, i)
                           = Total(nodes[i].w) + (Arrivals(nodes, i) - nodes[i].visits) * WorthToOne(nodes[i].pos)
    BY Zenon DEF ValueIsConserved, EdgesInto, Into, Arrivals, Brought
  <2>1. /\ \A j \in DOMAIN nodes : Booked(nodes[j])
        /\ FirstTree(nodes, round, sims) \/ CarriedTree(nodes, sims)
    BY DEF Booking, Books
  <2>2. Arena(nodes) /\ RoundOK(nodes, round) /\ 1 \in DOMAIN nodes
    BY EmptySeq, LenProperties DEF EngineInv, TreeInv, Arena
  <2>3. ~CarriedTree(nodes, sims)
    BY <2>1, <2>2 DEF CarriedTree, Booked
  <2>4. Conserved(nodes, i, sims) /\ Reached(nodes, round, i)
    BY <2>1, <2>3 DEF FirstTree
  <2>5. round.at = 1 /\ round.descents = <<>>
    BY <2>2 DEF RoundOK, Resting
  <2>6. EndsAt(round, i) = {}
    BY <2>5, EmptySeq DEF EndsAt
  <2>7. nodes[i].visits < Arrivals(nodes, i)
    BY <2>4, <2>5, <2>6 DEF Reached
  <2>8. nodes[i].visits \in Nat /\ Arrivals(nodes, i) \in Int
    BY <2>1, <2>2, CreditsAreInts DEF Booked
  <2>9. Arrivals(nodes, i) - nodes[i].visits >= 1
    BY <2>7, <2>8
  <2> QED BY <2>4, <2>9 DEF Conserved
<1> QED BY <1>1, <1>2, <1>3, EngineInvariant, PTL DEF Spec
\* For every number of candidates and every budget, self-play's sequential halving keeps to its
\* schedule: no descent is dictated when a halving is due, the candidates in contention have had as
\* many descents as each other but for one, and a budget that has a visit for each candidate and
\* phase reaches the last phase and is spent to the last simulation (gumbel.rs, run_sims).
THEOREM ScheduleKept == Spec => []ScheduleIsKept
<1>1. Init => Scheduling
  BY DEF Init, PlayConfig, Scheduling, Gumbel
<1>2. EngineInv /\ Scheduling /\ [Next]_vars => Scheduling'
  BY SchedulingStep
<1>3. EngineInv /\ Scheduling => ScheduleIsKept
  <2> SUFFICES ASSUME EngineInv, Scheduling, Gumbel PROVE ScheduleIsKept
    BY DEF ScheduleIsKept
  <2> DEFINE x == nodes[1]
             k == Len(plan.alive)
             size == PhaseSize(plan)
  <2>1. /\ Candidates(nodes, plan) /\ InBudget(plan, round, sims) /\ PlanTyped(plan) /\ Halvable(plan)
        /\ step.stage = "harvest" => sims = config.sims
    BY DEF Scheduling, OnSchedule, Candidates
  <2>2. /\ RoundOK(nodes, round) /\ PlanOK(nodes, plan) /\ plan # NoPlan /\ config \in Configs /\ sims \in Nat
        /\ Arena(nodes) /\ nodes # <<>>
    BY <2>1 DEF EngineInv, TreeInv, Gumbel, Candidates
  <2>3. /\ k \in Nat \ {0} /\ DOMAIN plan.alive = 1..k /\ size \in Nat \ {0}
        /\ \A i \in DOMAIN plan.alive : plan.alive[i] \in DOMAIN x.child
    BY <2>1, <2>2, PlanIs
  <2>4. /\ plan.given \in Nat /\ plan.phase \in Nat /\ plan.rounds \in Nat \ {0} /\ plan.scheduled \in Nat
    BY <2>1 DEF PlanTyped
  <2>5. ASSUME round.stage = "descend", round.at = 1 PROVE ~NeedsHalving(plan)
    <3>1. ToCome(round) = round.due - 0 /\ round.due \in Nat \ {0}
      BY <2>1, <2>2, <2>5, ChargeIs DEF InBudget
    <3>2. k > 1 => plan.given + ToCome(round) <= size
      BY <2>1 DEF InBudget
    <3> HIDE DEF k, size
    <3>3. k > 1 => ~(plan.given >= size)
      BY <2>3, <2>4, <3>1, <3>2
    <3> QED BY <3>3 DEF NeedsHalving, k, size
  <2>6. ASSUME k > 1, NEW i \in DOMAIN plan.alive, NEW j \in DOMAIN plan.alive
        PROVE  Had(x, plan.alive[i]) <= Had(x, plan.alive[j]) + 1
    <3> DEFINE base == Had(x, plan.alive[k])
    <3>1. Shaped(x)
      <4>1. Len(nodes) \in Nat /\ DOMAIN nodes = 1..Len(nodes) /\ Len(nodes) # 0
        BY <2>2, EmptySeq, LenProperties DEF Arena
      <4>2. 1 \in DOMAIN nodes
        BY <4>1
      <4> QED BY <2>2, <4>2 DEF Arena
    <3>2. Counted(x)
      BY <2>1, <3>1, RootIsCounted DEF Candidates
    <3>3. base \in Int
      BY <2>3, <3>2 DEF Counted
    <3>4. \A m \in DOMAIN plan.alive : Had(x, plan.alive[m]) = base \/ Had(x, plan.alive[m]) = base + 1
      <4> TAKE m \in DOMAIN plan.alive
      <4>1. Had(x, plan.alive[m]) = base + (IF m <= plan.given % k THEN 1 ELSE 0)
        BY <2>1, <2>6 DEF Candidates, Even
      <4> HIDE DEF base
      <4> QED BY <3>3, <4>1
    <3> HIDE DEF base
    <3> QED BY <3>3, <3>4
  <2>7. ASSUME step.stage = "harvest", config.sims >= Len(Moves[step.pos]) * plan.rounds, plan.phase < plan.rounds - 1
        PROVE  FALSE
    <3>1. step.pos = x.pos /\ round.stage = "rest"
      BY <2>2, <2>7 DEF EngineInv, Searched, StepOK, Resting
    <3>2. ToCome(round) = 0 /\ Charged(round) = 0
      BY <2>2, <3>1, ChargeIs, EmptySeq DEF RoundOK
    <3>3. plan.scheduled = config.sims
      BY <2>1, <2>2, <2>7, <3>2 DEF InBudget
    <3> DEFINE e == plan.rounds - 1 - plan.phase
               f == e - 1
    <3>4. /\ e \in Nat \ {0} /\ f \in Nat /\ e = f + 1 /\ plan.rounds > 1 /\ plan.phase < plan.rounds
          /\ plan.rounds - plan.phase = e + 1
      BY <2>4, <2>7
    <3>5. k > 2^e
      BY <2>1, <3>4 DEF Halvable
    <3> HIDE DEF e, f
    <3>6. k > 1
      <4>1. 2^f \in Nat /\ 2^f # 0 /\ 2^e = 2^f + 2^f
        BY <3>4, Doubles
      <4> DEFINE v == 2^f
      <4>2. v \in Nat /\ v # 0 /\ k > v + v
        BY <3>5, <4>1
      <4> HIDE DEF v, k
      <4> QED BY <2>3, <4>2
    <3>7. plan.given <= size
      <4>1. plan.given + 0 <= size
        BY <2>1, <3>2, <3>6 DEF InBudget
      <4> HIDE DEF size
      <4> QED BY <2>4, <4>1
    <3>8. size * (e + 1) <= plan.given
      <4>1. Affordable(plan)
        BY <2>1, <2>7, <3>1 DEF Candidates
      <4>2. size * (e + 1) <= config.sims - (plan.scheduled - plan.given)
        BY <3>4, <4>1 DEF Affordable
      <4>3. config.sims - (plan.scheduled - plan.given) = plan.given
        BY <2>4, <3>3
      <4> HIDE DEF size
      <4> QED BY <4>2, <4>3
    <3> HIDE DEF size
    <3>9. size * (e + 1) >= size + size
      <4>1. \A c \in Nat, d \in Nat \ {0} : c * (d + 1) = c * d + c /\ c * d >= c /\ c * d \in Nat
        BY Z3
      <4> QED BY <2>3, <3>4, <4>1
    <3> DEFINE u == size * (e + 1)
    <3>10. u <= plan.given /\ u >= size + size /\ u \in Nat
      <4>1. \A c \in Nat, d \in Nat : c * d \in Nat
        BY Z3
      <4>2. e + 1 \in Nat
        BY <3>4
      <4> QED BY <2>3, <3>8, <3>9, <4>1, <4>2
    <3> HIDE DEF u
    <3> QED BY <2>3, <2>4, <3>7, <3>10
  <2>8. ASSUME step.stage = "harvest", config.sims >= Len(Moves[step.pos]) * plan.rounds
        PROVE  plan.phase >= plan.rounds - 1
    BY <2>4, <2>7, <2>8
  <2>9. step.stage = "harvest" => sims = config.sims
    BY <2>1
  <2> QED BY <2>5, <2>6, <2>8, <2>9 DEF ScheduleIsKept, Had
<1> QED BY <1>1, <1>2, <1>3, EngineInvariant, PTL DEF Spec
=============================================================================
