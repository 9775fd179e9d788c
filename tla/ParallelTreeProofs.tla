------------------------- MODULE ParallelTreeProofs -------------------------
(***************************************************************************)
(* Proofs about ParallelTree, for every tree, batch and set of workers:    *)
(* types, the exclusive claims, and, from Balanced on, the statistics.     *)
(***************************************************************************)
EXTENDS ParallelTree, TLAPS, FiniteSetTheorems, SequenceTheorems, SumLemmas

\* What a thread's fields have to do with one another.
Sane(thread) ==
  /\ thread.ran + thread.left <= thread.claim
  /\ thread.pc \in {"descend", "cas"} =>
       thread.node \in Node /\ thread.left > 0 /\ (thread.path = <<>> => thread.node = Root)
  /\ thread.pc = "cas" => thread.path # <<>> /\ thread.node \notin thread.pending
  /\ thread.pc = "release" => thread.node \in thread.pending
  /\ thread.pc \in {"claim", "count", "add", "return", "done"} => thread.pending = {}
  /\ thread.pc \in {"count", "add"} => thread.descents # <<>>
  /\ \A i \in 1..Len(thread.descents) : thread.descents[i].path # <<>>

\* The root stays expanded, and only a finished or stuck node has an outcome.
RootStands ==
  /\ Root \in tree.edges
  /\ \A x \in tree.outcome : x \in Over \/ Stuck(x)

\* Outside a run there is no worker.
IdleMeansDone == main = "idle" => \A t \in Worker : At(t, "done")

Inv == /\ TypeOK
       /\ \A t \in Worker : Sane(worker[t])
       /\ RootStands
       /\ ClaimsAreExclusive
       /\ IdleMeansDone

Sound(thread) == thread \in Thread /\ Sane(thread)

-----------------------------------------------------------------------------
LEMMA EmptyHandsAreSound ==
  ASSUME NEW pc \in {"done", "claim", "descend"},
         NEW take \in 0..Batch, pc = "descend" => take > 0,
         NEW node \in Node \cup {NoNode}, pc = "descend" => node = Root
  PROVE  Sound(EmptyHanded(pc, take, node)) /\ EmptyHanded(pc, take, node).pending = {}
  <1> DEFINE thread == EmptyHanded(pc, take, node)
  <1>. Batch \in Nat /\ Root \in Node  BY SizeAssumption, TreeAssumption
  <1>1. <<>> \in Seq(Node) /\ <<>> \in Seq(Descent)  OBVIOUS
  <1>2. thread \in Thread  BY <1>1 DEF Thread, Stage, EmptyHanded
  <1>3. 1..Len(thread.descents) = {}
    <2>1. thread.descents = <<>>  BY DEF EmptyHanded
    <2>2. Len(<<>>) = 0  OBVIOUS
    <2>. QED  BY <2>1, <2>2
  <1>4. \A i \in 1..Len(thread.descents) : thread.descents[i].path # <<>>
    BY <1>3
  <1>5. /\ thread.pc = pc /\ thread.claim = take /\ thread.left = take /\ thread.ran = 0
        /\ thread.node = node /\ thread.path = <<>> /\ thread.pending = {}
    BY DEF EmptyHanded
  <1>. HIDE DEF thread
  <1>6. Sane(thread)  BY <1>4, <1>5 DEF Sane
  <1>. QED  BY <1>2, <1>5, <1>6 DEF Sound, thread

LEMMA StartsAreSound ==
  /\ Sound(Done) /\ Done.pending = {}
  /\ Sound(Claiming) /\ Claiming.pending = {}
  /\ \A take \in 1..Batch : Sound(Round(take)) /\ Round(take).pending = {}
  <1>. Batch \in Nat /\ Root \in Node  BY SizeAssumption, TreeAssumption
  <1>. QED  BY EmptyHandsAreSound DEF Done, Claiming, Round

\* NextDescent asks little of the thread it is given.
LEMMA NextDescentIsSound ==
  ASSUME NEW thread \in Thread,
         thread.left > 0,
         thread.ran + thread.left <= thread.claim + 1,
         thread.ran + thread.left - 1 <= thread.claim,
         thread.ran <= thread.claim,
         \A i \in 1..Len(thread.descents) : thread.descents[i].path # <<>>
  PROVE  /\ Sound(NextDescent(thread))
         /\ NextDescent(thread).pending = thread.pending
  <1>. Batch \in Nat /\ Root \in Node  BY SizeAssumption, TreeAssumption
  <1>0. <<>> \in Seq(Node)  OBVIOUS
  <1>1. /\ thread.claim \in 0..Batch /\ thread.left \in 0..Batch /\ thread.ran \in 0..Batch
        /\ thread.descents \in Seq(Descent) /\ thread.pending \in SUBSET Node
        /\ thread.seen \in Int
    BY DEF Thread
  <1>2. CASE thread.left > 1
    <2>1. NextDescent(thread) =
            [pc |-> "descend", claim |-> thread.claim, left |-> thread.left - 1,
             ran |-> thread.ran, node |-> Root, path |-> <<>>, descents |-> thread.descents,
             pending |-> thread.pending, seen |-> thread.seen]
      BY <1>2 DEF NextDescent, Thread
    <2>. QED  BY <1>0, <1>1, <1>2, <2>1 DEF Sound, Sane, Thread, Stage
  <1>3. CASE ~(thread.left > 1)
    <2>1. NextDescent(thread) =
            [pc |-> "evaluate", claim |-> thread.claim, left |-> 0,
             ran |-> thread.ran, node |-> NoNode, path |-> <<>>, descents |-> thread.descents,
             pending |-> thread.pending, seen |-> thread.seen]
      BY <1>3 DEF NextDescent, Thread
    <2>. QED  BY <1>0, <1>1, <1>3, <2>1 DEF Sound, Sane, Thread, Stage
  <1>. QED  BY <1>2, <1>3

\* RecordLeaf, for a descent that left the root.
LEMMA RecordLeafIsSound ==
  ASSUME NEW thread \in Thread, Sane(thread),
         thread.pc \in {"descend", "cas"}, thread.path # <<>>,
         NEW claimed \in SUBSET Node
  PROVE  /\ Sound(RecordLeaf(thread, claimed))
         /\ RecordLeaf(thread, claimed).pending = thread.pending \cup claimed
  <1> DEFINE d == [path |-> thread.path, leaf |-> thread.node]
             ds == Append(thread.descents, d)
             more == thread.ran + 1
             held == thread.pending \cup claimed
             next == [thread EXCEPT !.descents = ds, !.ran = more, !.pending = held]
  <1>. Batch \in Nat  BY SizeAssumption
  <1>1. /\ thread.claim \in 0..Batch /\ thread.left \in 0..Batch /\ thread.ran \in 0..Batch
        /\ thread.descents \in Seq(Descent) /\ thread.pending \in SUBSET Node
        /\ thread.seen \in Int /\ thread.path \in Seq(Node) /\ thread.pc \in Stage
        /\ thread.node \in Node /\ thread.left > 0
        /\ thread.ran + thread.left <= thread.claim
        /\ \A i \in 1..Len(thread.descents) : thread.descents[i].path # <<>>
    BY DEF Thread, Sane
  <1>2. d \in Descent  BY <1>1 DEF Descent
  <1>3. /\ ds \in Seq(Descent)
        /\ Len(ds) = Len(thread.descents) + 1
        /\ \A i \in 1..Len(thread.descents) : ds[i] = thread.descents[i]
        /\ ds[Len(thread.descents) + 1] = d
    <2>. HIDE DEF d
    <2>. QED  BY <1>1, <1>2, AppendProperties
  <1>4. \A i \in 1..Len(ds) : ds[i].path # <<>>
    <2>1. d.path # <<>>  OBVIOUS
    <2>2. Len(thread.descents) \in Nat  BY <1>1
    <2>. HIDE DEF d, ds
    <2>. QED  BY <1>1, <1>3, <2>1, <2>2
  <1>8. RecordLeaf(thread, claimed) = NextDescent(next)
    BY DEF RecordLeaf
  <1>9. /\ more \in 0..Batch /\ more = thread.ran + 1
        /\ held \in SUBSET Node /\ held = thread.pending \cup claimed
    BY <1>1
  <1>. HIDE DEF d, ds, more, held
  <1>5. /\ next.claim = thread.claim /\ next.left = thread.left
        /\ next.ran = more /\ next.descents = ds /\ next.pending = held
    BY DEF Thread
  <1>6. next \in Thread  BY <1>1, <1>3, <1>9 DEF Thread
  <1>. HIDE DEF next
  <1>7. /\ next.left > 0 /\ next.ran + next.left - 1 <= next.claim
        /\ next.ran + next.left <= next.claim + 1
        /\ next.ran <= next.claim
        /\ \A i \in 1..Len(next.descents) : next.descents[i].path # <<>>
        /\ next.pending = thread.pending \cup claimed
    BY <1>1, <1>4, <1>5, <1>9
  <1>. QED  BY <1>6, <1>7, <1>8, NextDescentIsSound

\* BackedUp, for a thread whose first descent may have run out of edges.
LEMMA BackedUpIsSound ==
  ASSUME NEW thread \in Thread,
         thread.ran + thread.left <= thread.claim,
         thread.pending = {},
         \A i \in 2..Len(thread.descents) : thread.descents[i].path # <<>>
  PROVE  Sound(BackedUp(thread)) /\ BackedUp(thread).pending = {}
  <1> DEFINE ds == thread.descents
             spent == ds # <<>> /\ Head(ds).path = <<>>
             rest == IF spent THEN Tail(ds) ELSE ds
             stage == IF rest = <<>> THEN "return" ELSE "count"
  <1>. Batch \in Nat  BY SizeAssumption
  <1>1. /\ thread.claim \in 0..Batch /\ thread.left \in 0..Batch /\ thread.ran \in 0..Batch
        /\ ds \in Seq(Descent) /\ thread.pending = {} /\ thread.seen \in Int
        /\ thread.path \in Seq(Node) /\ thread.node \in Node \cup {NoNode}
    BY DEF Thread
  <1>2. rest \in Seq(Descent) /\ \A i \in 1..Len(rest) : rest[i].path # <<>>
    <2>1. CASE spent
      <3>1. rest = Tail(ds) /\ rest \in Seq(Descent) /\ Len(rest) = Len(ds) - 1
            /\ \A i \in 1..Len(rest) : rest[i] = ds[i + 1]
        BY <1>1, <2>1
      <3>2. Len(ds) \in Nat  BY <1>1
      <3>. HIDE DEF rest, ds
      <3>. QED  BY <3>1, <3>2 DEF ds
    <2>2. CASE ~spent
      <3>1. rest = ds  BY <2>2
      <3>2. ds # <<>> => ds[1].path # <<>>  BY <1>1, <2>2
      <3>3. Len(ds) \in Nat /\ (ds = <<>> => Len(ds) = 0)  BY <1>1
      <3>. QED  BY <1>1, <3>1, <3>2, <3>3
    <2>. QED  BY <2>1, <2>2
  <1>3. /\ BackedUp(thread) = [thread EXCEPT !.descents = rest, !.pc = stage]
        /\ stage \in {"return", "count"} /\ (stage = "count" => rest # <<>>)
    BY DEF BackedUp
  <1>. HIDE DEF rest, ds, spent, stage
  <1>4. BackedUp(thread) =
          [pc |-> stage, claim |-> thread.claim, left |-> thread.left,
           ran |-> thread.ran, node |-> thread.node, path |-> thread.path,
           descents |-> rest, pending |-> thread.pending, seen |-> thread.seen]
    BY <1>3 DEF Thread
  <1>. QED  BY <1>1, <1>2, <1>3, <1>4 DEF Sound, Sane, Thread, Stage

-----------------------------------------------------------------------------
\* One thread changes, and claims nothing and gives nothing up.
LEMMA WorkerKeeps ==
  ASSUME Inv, NEW t \in Worker, NEW thread, Becomes(t, thread), Sound(thread)
  PROVE  /\ worker' \in [Worker -> Thread]
         /\ \A u \in Worker : Sane(worker'[u])
         /\ worker'[t] = thread
         /\ \A u \in Worker \ {t} : worker'[u] = worker[u]
  <1>1. worker \in [Worker -> Thread] /\ \A u \in Worker : Sane(worker[u])
    BY DEF Inv, TypeOK
  <1>2. worker' = [worker EXCEPT ![t] = thread]  BY DEF Becomes
  <1>3. thread \in Thread /\ Sane(thread)  BY DEF Sound
  <1>. QED  BY <1>1, <1>2, <1>3

LEMMA ClaimsKept ==
  ASSUME Inv, NEW t \in Worker, NEW thread, Becomes(t, thread), Sound(thread),
         thread.pending = worker[t].pending, tree'.expanding = tree.expanding
  PROVE  ClaimsAreExclusive'
  <1>1. \A u \in Worker : worker'[u].pending = worker[u].pending
    BY WorkerKeeps
  <1>2. ClaimsAreExclusive  BY DEF Inv
  <1>. QED  BY <1>1, <1>2 DEF ClaimsAreExclusive

\* A thread that can be found, and its parts.
LEMMA ThreadParts ==
  ASSUME Inv, NEW t \in Worker
  PROVE  /\ worker[t] \in Thread /\ Sane(worker[t]) /\ Sound(worker[t])
         /\ worker[t].claim \in 0..Batch /\ worker[t].ran \in 0..Batch
         /\ worker[t].left \in 0..Batch
         /\ worker[t].path \in Seq(Node) /\ worker[t].descents \in Seq(Descent)
         /\ worker[t].pending \in SUBSET Node /\ worker[t].node \in Node \cup {NoNode}
         /\ worker[t].seen \in Int /\ worker[t].pc \in Stage
  <1>1. worker[t] \in Thread /\ Sane(worker[t])  BY DEF Inv, TypeOK
  <1>. QED  BY <1>1 DEF Thread, Sound

\* The tree, the statistics and the caller are left alone.
LEMMA OthersKept ==
  ASSUME Inv, UNCHANGED <<stats, caller>>
  PROVE  /\ visits' \in [Node -> Int] /\ flights' \in [Node -> Int]
         /\ n' \in [Node -> Int] /\ vl' \in [Node -> Int] /\ w' \in [Node -> Int]
         /\ main' \in {"idle", "sims", "timed", "raised"}
         /\ runs' \in 0..MaxRuns /\ due' \in Int
  BY DEF Inv, TypeOK, stats, caller

\* A step of one worker that leaves tree, stats and caller alone.
LEMMA QuietStep ==
  ASSUME Inv, NEW t \in Worker, NEW thread, Becomes(t, thread), Sound(thread),
         thread.pending = worker[t].pending, worker[t].pc # "done",
         UNCHANGED <<tree, stats, caller>>, budget' \in Nat
  PROVE  Inv'
  <1>1. ClaimsAreExclusive'  BY ClaimsKept
  <1>2. tree \in [outcome : SUBSET Node, edges : SUBSET Node, expanding : SUBSET Node]
    BY DEF Inv, TypeOK
  <1>3. TypeOK'  BY <1>2, OthersKept, WorkerKeeps DEF TypeOK
  <1>4. \A u \in Worker : Sane(worker[u])'  BY WorkerKeeps
  <1>5. RootStands'  BY DEF Inv, RootStands
  <1>6. IdleMeansDone'  BY DEF Inv, IdleMeansDone, At, caller
  <1>. QED  BY <1>1, <1>3, <1>4, <1>5, <1>6 DEF Inv

\* A step of one worker that moves statistics only.
LEMMA CountingStep ==
  ASSUME Inv, NEW t \in Worker, NEW thread, Becomes(t, thread), Sound(thread),
         thread.pending = worker[t].pending, worker[t].pc # "done",
         UNCHANGED <<tree, budget, caller>>,
         visits' \in [Node -> Int], flights' \in [Node -> Int],
         n' \in [Node -> Int], vl' \in [Node -> Int], w' \in [Node -> Int]
  PROVE  Inv'
  <1>1. ClaimsAreExclusive'  BY ClaimsKept
  <1>2. /\ tree \in [outcome : SUBSET Node, edges : SUBSET Node, expanding : SUBSET Node]
        /\ budget \in Nat
        /\ main \in {"idle", "sims", "timed", "raised"}
        /\ runs \in 0..MaxRuns /\ due \in Int
    BY DEF Inv, TypeOK
  <1>3. TypeOK'  BY <1>2, WorkerKeeps DEF TypeOK, caller
  <1>4. \A u \in Worker : Sane(worker[u])'  BY WorkerKeeps
  <1>5. RootStands'  BY DEF Inv, RootStands
  <1>6. IdleMeansDone'  BY DEF Inv, IdleMeansDone, At, caller
  <1>. QED  BY <1>1, <1>3, <1>4, <1>5, <1>6 DEF Inv

\* A step of one worker that changes the tree.
LEMMA TreeStep ==
  ASSUME Inv, NEW t \in Worker, NEW thread, Becomes(t, thread), Sound(thread),
         worker[t].pc # "done",
         UNCHANGED <<stats, budget, caller>>,
         tree' \in [outcome : SUBSET Node, edges : SUBSET Node, expanding : SUBSET Node],
         RootStands', ClaimsAreExclusive'
  PROVE  Inv'
  <1>1. budget' \in Nat  BY DEF Inv, TypeOK
  <1>2. TypeOK'  BY <1>1, OthersKept, WorkerKeeps DEF TypeOK
  <1>3. \A u \in Worker : Sane(worker[u])'  BY WorkerKeeps
  <1>4. IdleMeansDone'  BY DEF Inv, IdleMeansDone, At, caller
  <1>. QED  BY <1>2, <1>3, <1>4 DEF Inv

-----------------------------------------------------------------------------
LEMMA InitHolds == Init => Inv
  <1> SUFFICES ASSUME Init PROVE Inv  OBVIOUS
  <1>1. Root \in Node /\ Over \subseteq Node /\ Root \notin Over /\ MaxRuns \in Nat
    BY TreeAssumption, RootAssumption, SizeAssumption
  <1>2. worker = [t \in Worker |-> Done]  BY DEF Init
  <1>3. worker \in [Worker -> Thread] /\ \A t \in Worker : Sane(worker[t])
    BY <1>2, StartsAreSound DEF Sound
  <1>4. Zero \in [Node -> Int]  BY DEF Zero
  <1>5. TypeOK  BY <1>1, <1>3, <1>4 DEF TypeOK, Init
  <1>6. RootStands  BY DEF RootStands, Init
  <1>7. \A t \in Worker : worker[t].pending = {}  BY <1>2, StartsAreSound
  <1>8. tree.expanding = {}  BY DEF Init
  <1>9. ClaimsAreExclusive  BY <1>7, <1>8 DEF ClaimsAreExclusive
  <1>10. IdleMeansDone
    BY <1>2 DEF IdleMeansDone, At, Done, EmptyHanded
  <1>. QED  BY <1>3, <1>5, <1>6, <1>9, <1>10 DEF Inv

\* Whoever acts is in a run.
LEMMA ActorsAreAlive ==
  ASSUME NEW t \in Worker, Runs(t) \/ Panics(t)
  PROVE  worker[t].pc # "done"
  BY DEF Runs, Panics, Claims, Descends, FindsOutcome, Walks, FindsNothing, ClaimsLeaf,
         Collides, Evaluates, Publishes, Releases, Evaluated, BacksUp, Counts, Adds,
         AddsAgain, ReturnsSims, ReturnsTimed, At

LEMMA ClaimsStep ==
  ASSUME Inv, NEW t \in Worker, worker[t].pc # "done", Claims(t)
  PROVE  Inv'
  <1>. Batch \in Nat \ {0}  BY SizeAssumption
  <1>0. budget \in Nat  BY DEF Inv, TypeOK
  <1>1. worker[t].pending = {}
    BY ThreadParts DEF Claims, At, Sane
  <1>2. UNCHANGED <<tree, stats, caller>>  BY DEF Claims
  <1>3. CASE budget = 0
    <2>1. Becomes(t, Done) /\ budget' = 0  BY <1>3 DEF Claims
    <2>. QED  BY <1>1, <1>2, <2>1, StartsAreSound, QuietStep
  <1>4. CASE budget # 0
    <2>1. Take \in 1..Batch /\ Take <= budget  BY <1>0, <1>4 DEF Take
    <2>2. Becomes(t, Round(Take)) /\ budget' \in Nat
      <3>1. Becomes(t, Round(Take)) /\ budget' = budget - Take  BY <1>4 DEF Claims
      <3>. QED  BY <1>0, <2>1, <3>1
    <2>3. Sound(Round(Take)) /\ Round(Take).pending = {}  BY <2>1, StartsAreSound
    <2>. QED  BY <1>1, <1>2, <2>2, <2>3, QuietStep
  <1>. QED  BY <1>3, <1>4

\* Where a worker that looks for its leaf stands.
LEMMA AwayFromTheRoot ==
  ASSUME Inv, NEW t \in Worker, worker[t].pc \in {"descend", "cas"},
         worker[t].pc = "cas" \/ worker[t].node \in tree.outcome
           \/ worker[t].node \notin tree.edges
  PROVE  /\ worker[t].path # <<>> /\ worker[t].node \in Node
         /\ worker[t].left > 0 /\ worker[t].ran + worker[t].left <= worker[t].claim
  <1>1. Sane(worker[t]) /\ RootStands  BY ThreadParts DEF Inv
  <1>2. Root \notin tree.outcome  BY <1>1, RootAssumption DEF RootStands, Stuck
  <1>. QED  BY <1>1, <1>2 DEF Sane, RootStands

LEMMA FindsOutcomeStep ==
  ASSUME Inv, NEW t \in Worker, worker[t].pc # "done", FindsOutcome(t)
  PROVE  Inv'
  <1>1. worker[t].path # <<>> /\ worker[t].pc \in {"descend", "cas"}
    BY AwayFromTheRoot DEF FindsOutcome, At
  <1>2. /\ Sound(RecordLeaf(worker[t], {}))
        /\ RecordLeaf(worker[t], {}).pending = worker[t].pending \cup {}
    BY <1>1, ThreadParts, RecordLeafIsSound
  <1>3. budget' \in Nat  BY DEF Inv, TypeOK, FindsOutcome
  <1>. QED  BY <1>2, <1>3, QuietStep DEF FindsOutcome

LEMMA FindsNothingStep ==
  ASSUME Inv, NEW t \in Worker, worker[t].pc # "done", FindsNothing(t)
  PROVE  Inv'
  <1>0. worker[t].pc = "descend" /\ worker[t].node \notin tree.edges
    BY DEF FindsNothing, At
  <1>1. /\ worker[t].path # <<>> /\ worker[t].node \in Node
        /\ worker[t].left > 0 /\ worker[t].ran + worker[t].left <= worker[t].claim
    BY <1>0, AwayFromTheRoot
  <1>3. budget' \in Nat  BY DEF Inv, TypeOK, FindsNothing
  <1>4. CASE OwnClaim(t)
    <2>1. Becomes(t, RecordLeaf(worker[t], {}))  BY <1>4 DEF FindsNothing
    <2>2. /\ Sound(RecordLeaf(worker[t], {}))
          /\ RecordLeaf(worker[t], {}).pending = worker[t].pending \cup {}
      BY <1>0, <1>1, ThreadParts, RecordLeafIsSound
    <2>. QED  BY <1>3, <2>1, <2>2, QuietStep DEF FindsNothing
  <1>5. CASE ~OwnClaim(t)
    <2> DEFINE thread == [worker[t] EXCEPT !.pc = "cas"]
    <2>1. Becomes(t, thread)  BY <1>5 DEF FindsNothing
    <2>2. worker[t] \in Thread /\ Sane(worker[t])  BY ThreadParts
    <2>3. thread \in Thread  BY <2>2 DEF Thread, Stage
    <2>4. /\ thread.pc = "cas" /\ thread.claim = worker[t].claim
          /\ thread.left = worker[t].left /\ thread.ran = worker[t].ran
          /\ thread.node = worker[t].node /\ thread.path = worker[t].path
          /\ thread.descents = worker[t].descents /\ thread.pending = worker[t].pending
      BY <2>2 DEF Thread
    <2>. HIDE DEF thread
    <2>5. Sane(thread)
      BY <1>1, <1>5, <2>2, <2>4 DEF Sane, OwnClaim
    <2>6. Sound(thread)  BY <2>3, <2>5 DEF Sound
    <2>. QED  BY <1>3, <2>1, <2>4, <2>6, QuietStep DEF FindsNothing
  <1>. QED  BY <1>4, <1>5

LEMMA CountersAreTyped ==
  ASSUME NEW f \in [Node -> Int], NEW x
  PROVE  [f EXCEPT ![x] = @ + 1] \in [Node -> Int] /\ [f EXCEPT ![x] = @ - 1] \in [Node -> Int]
  <1>1. CASE x \in Node  BY <1>1
  <1>2. CASE x \notin Node
    <2>1. [f EXCEPT ![x] = @ + 1] = f /\ [f EXCEPT ![x] = @ - 1] = f  BY <1>2
    <2>. QED  BY <2>1
  <1>. QED  BY <1>1, <1>2

LEMMA WalksStep ==
  ASSUME Inv, NEW t \in Worker, worker[t].pc # "done", Walks(t)
  PROVE  Inv'
  <1>1. PICK kid \in Kids[worker[t].node] :
          /\ vl' = [vl EXCEPT ![kid] = @ + 1]
          /\ Becomes(t, [worker[t] EXCEPT !.pc = "descend", !.node = kid,
                                          !.path = Append(@, kid)])
    BY DEF Walks
  <1>2. /\ worker[t].pc = "descend" /\ worker[t] \in Thread /\ Sane(worker[t])
        /\ worker[t].node \in Node /\ worker[t].path \in Seq(Node)
    BY ThreadParts DEF Walks, At, Sane
  <1>3. kid \in Node  BY <1>1, <1>2, TreeAssumption
  <1> DEFINE path == Append(worker[t].path, kid)
             thread == [worker[t] EXCEPT !.pc = "descend", !.node = kid, !.path = path]
  <1>4. path \in Seq(Node) /\ path # <<>>  BY <1>2, <1>3
  <1>5. Becomes(t, thread)  BY <1>1
  <1>. HIDE DEF path
  <1>6. thread \in Thread  BY <1>2, <1>3, <1>4 DEF Thread, Stage
  <1>7. /\ thread.pc = "descend" /\ thread.claim = worker[t].claim
        /\ thread.left = worker[t].left /\ thread.ran = worker[t].ran
        /\ thread.node = kid /\ thread.path = path
        /\ thread.descents = worker[t].descents /\ thread.pending = worker[t].pending
    BY <1>2 DEF Thread
  <1>. HIDE DEF thread
  <1>8. Sane(thread)  BY <1>2, <1>3, <1>4, <1>7 DEF Sane
  <1>9. Sound(thread)  BY <1>6, <1>8 DEF Sound
  <1>10. /\ visits' \in [Node -> Int] /\ flights' \in [Node -> Int]
         /\ n' \in [Node -> Int] /\ vl' \in [Node -> Int] /\ w' \in [Node -> Int]
    <2>1. /\ visits \in [Node -> Int] /\ flights \in [Node -> Int]
          /\ n \in [Node -> Int] /\ vl \in [Node -> Int] /\ w \in [Node -> Int]
      BY DEF Inv, TypeOK
    <2>2. flights' = [flights EXCEPT ![worker[t].node] = @ + 1] /\ UNCHANGED <<visits, n, w>>
      BY DEF Walks
    <2>. QED  BY <1>1, <1>2, <1>3, <2>1, <2>2
  <1>. QED  BY <1>5, <1>7, <1>9, <1>10, CountingStep DEF Walks

LEMMA ClaimsLeafStep ==
  ASSUME Inv, NEW t \in Worker, worker[t].pc # "done", ClaimsLeaf(t)
  PROVE  Inv'
  <1> DEFINE leaf == worker[t].node
             thread == RecordLeaf(worker[t], {leaf})
  <1>1. worker[t].pc = "cas" /\ leaf \notin tree.expanding
    BY DEF ClaimsLeaf, At, MayClaim
  <1>2. worker[t].path # <<>> /\ leaf \in Node  BY <1>1, AwayFromTheRoot
  <1>3. Sound(thread) /\ thread.pending = worker[t].pending \cup {leaf}
    BY <1>1, <1>2, ThreadParts, RecordLeafIsSound
  <1>4. Becomes(t, thread)  BY DEF ClaimsLeaf
  <1>5. tree \in [outcome : SUBSET Node, edges : SUBSET Node, expanding : SUBSET Node]
    BY DEF Inv, TypeOK
  <1>6. /\ tree' \in [outcome : SUBSET Node, edges : SUBSET Node, expanding : SUBSET Node]
        /\ tree'.outcome = tree.outcome /\ tree'.edges = tree.edges
        /\ tree'.expanding = tree.expanding \cup {leaf}
    BY <1>2, <1>5 DEF ClaimsLeaf
  <1>. HIDE DEF thread, leaf
  <1>7. RootStands'  BY <1>6 DEF Inv, RootStands
  <1>8. ClaimsAreExclusive'
    <2>1. ClaimsAreExclusive  BY DEF Inv
    <2>2. /\ worker'[t].pending = worker[t].pending \cup {leaf}
          /\ \A u \in Worker \ {t} : worker'[u].pending = worker[u].pending
      BY <1>3, <1>4, WorkerKeeps
    <2>3. \A u \in Worker : leaf \notin worker[u].pending
      BY <1>1, <2>1 DEF ClaimsAreExclusive, leaf
    <2>4. tree'.expanding = UNION {worker'[u].pending : u \in Worker}
      BY <1>6, <2>1, <2>2 DEF ClaimsAreExclusive
    <2>5. ASSUME NEW u \in Worker, NEW v \in Worker, u # v
          PROVE  worker'[u].pending \cap worker'[v].pending = {}
      <3>1. worker[u].pending \cap worker[v].pending = {}
        BY <2>1, <2>5 DEF ClaimsAreExclusive
      <3>2. leaf \notin worker[u].pending /\ leaf \notin worker[v].pending  BY <2>3
      <3>3. CASE u = t
        <4>1. worker'[u].pending = worker[u].pending \cup {leaf}
              /\ worker'[v].pending = worker[v].pending
          BY <2>2, <2>5, <3>3
        <4>. QED  BY <3>1, <3>2, <4>1
      <3>4. CASE u # t
        <4>1. worker'[u].pending = worker[u].pending
              /\ worker'[v].pending \in {worker[v].pending, worker[v].pending \cup {leaf}}
          BY <2>2, <3>4
        <4>. QED  BY <3>1, <3>2, <4>1
      <3>. QED  BY <3>3, <3>4
    <2>. QED  BY <2>4, <2>5 DEF ClaimsAreExclusive
  <1>. QED  BY <1>3, <1>4, <1>6, <1>7, <1>8, TreeStep DEF ClaimsLeaf

LEMMA UndoneIsTyped ==
  ASSUME NEW f \in [Node -> Int], NEW path, Len(path) \in Nat
  PROVE  Undone(f, path) \in [Node -> Int]
  <1>1. ASSUME NEW x \in Node
        PROVE  Cardinality({i \in 1..Len(path) : path[i] = x}) \in Nat
    <2>1. IsFiniteSet(1..Len(path))  BY FS_Interval
    <2>2. IsFiniteSet({i \in 1..Len(path) : path[i] = x})
      BY <2>1, FS_Subset
    <2>. QED  BY <2>2, FS_CardinalityType
  <1>. QED  BY <1>1 DEF Undone

LEMMA CollidesStep ==
  ASSUME Inv, NEW t \in Worker, worker[t].pc # "done", Collides(t)
  PROVE  Inv'
  <1>1. worker[t].pc = "cas"  BY DEF Collides, At
  <1>2. worker[t].left > 0 /\ worker[t].ran + worker[t].left <= worker[t].claim
    BY <1>1, AwayFromTheRoot
  <1>3. /\ Sound(NextDescent(worker[t]))
        /\ NextDescent(worker[t]).pending = worker[t].pending
    <2>1. \A i \in 1..Len(worker[t].descents) : worker[t].descents[i].path # <<>>
      BY ThreadParts DEF Sane
    <2>2. /\ worker[t].ran + worker[t].left <= worker[t].claim + 1
          /\ worker[t].ran + worker[t].left - 1 <= worker[t].claim
          /\ worker[t].ran <= worker[t].claim
      BY <1>2, ThreadParts
    <2>. QED  BY <1>2, <2>1, <2>2, ThreadParts, NextDescentIsSound
  <1>4. /\ visits \in [Node -> Int] /\ flights \in [Node -> Int]
        /\ n \in [Node -> Int] /\ vl \in [Node -> Int] /\ w \in [Node -> Int]
    BY DEF Inv, TypeOK
  <1>5. Len(worker[t].path) \in Nat /\ Len(Parents(worker[t].path)) \in Nat
    <2>1. Len(worker[t].path) \in Nat  BY ThreadParts
    <2>. QED  BY <2>1 DEF Parents
  <1>6. vl' \in [Node -> Int] /\ flights' \in [Node -> Int]
    BY <1>4, <1>5, UndoneIsTyped DEF Collides
  <1>. QED  BY <1>3, <1>4, <1>6, CountingStep DEF Collides

LEMMA PublishesStep ==
  ASSUME Inv, NEW t \in Worker, worker[t].pc # "done", Publishes(t)
  PROVE  Inv'
  <1>1. PICK leaf \in worker[t].pending :
          /\ tree' = IF Stuck(leaf) THEN [tree EXCEPT !.outcome = @ \cup {leaf}]
                     ELSE [tree EXCEPT !.edges = @ \cup {leaf}]
          /\ Becomes(t, [worker[t] EXCEPT !.pc = "release", !.node = leaf])
    BY DEF Publishes
  <1> DEFINE thread == [worker[t] EXCEPT !.pc = "release", !.node = leaf]
  <1>2. worker[t] \in Thread /\ Sane(worker[t]) /\ leaf \in Node  BY ThreadParts
  <1>3. thread \in Thread  BY <1>2 DEF Thread, Stage
  <1>4. /\ thread.pc = "release" /\ thread.claim = worker[t].claim
        /\ thread.left = worker[t].left /\ thread.ran = worker[t].ran
        /\ thread.node = leaf /\ thread.descents = worker[t].descents
        /\ thread.pending = worker[t].pending
    BY <1>2 DEF Thread
  <1>5. Becomes(t, thread)  BY <1>1
  <1>. HIDE DEF thread
  <1>6. Sound(thread)  BY <1>2, <1>3, <1>4 DEF Sane, Sound
  <1>7. tree \in [outcome : SUBSET Node, edges : SUBSET Node, expanding : SUBSET Node]
    BY DEF Inv, TypeOK
  <1>8. /\ tree' \in [outcome : SUBSET Node, edges : SUBSET Node, expanding : SUBSET Node]
        /\ tree'.expanding = tree.expanding /\ tree.edges \subseteq tree'.edges
        /\ \A x \in tree'.outcome : x \in tree.outcome \/ Stuck(x)
    <2>1. CASE Stuck(leaf)
      <3>1. tree' = [tree EXCEPT !.outcome = @ \cup {leaf}]  BY <1>1, <2>1
      <3>2. /\ tree'.outcome = tree.outcome \cup {leaf} /\ tree'.edges = tree.edges
            /\ tree'.expanding = tree.expanding
            /\ tree' \in [outcome : SUBSET Node, edges : SUBSET Node, expanding : SUBSET Node]
        BY <1>2, <1>7, <3>1
      <3>. QED  BY <2>1, <3>2
    <2>2. CASE ~Stuck(leaf)
      <3>1. tree' = [tree EXCEPT !.edges = @ \cup {leaf}]  BY <1>1, <2>2
      <3>. QED  BY <1>2, <1>7, <3>1
    <2>. QED  BY <2>1, <2>2
  <1>9. RootStands'  BY <1>8 DEF Inv, RootStands
  <1>10. ClaimsAreExclusive'  BY <1>4, <1>5, <1>6, <1>8, ClaimsKept
  <1>. QED  BY <1>5, <1>6, <1>8, <1>9, <1>10, TreeStep DEF Publishes

LEMMA ReleasesStep ==
  ASSUME Inv, NEW t \in Worker, worker[t].pc # "done", Releases(t)
  PROVE  Inv'
  <1> DEFINE leaf == worker[t].node
             held == worker[t].pending \ {leaf}
             thread == [worker[t] EXCEPT !.pc = "evaluate", !.node = NoNode, !.pending = held]
  <1>1. worker[t].pc = "release"  BY DEF Releases, At
  <1>2. worker[t] \in Thread /\ Sane(worker[t]) /\ leaf \in worker[t].pending
        /\ held \in SUBSET Node
    BY <1>1, ThreadParts DEF Sane
  <1>3. Becomes(t, thread)  BY DEF Releases
  <1>4. /\ tree \in [outcome : SUBSET Node, edges : SUBSET Node, expanding : SUBSET Node]
        /\ tree' = [tree EXCEPT !.expanding = @ \ {leaf}]
    BY DEF Inv, TypeOK, Releases
  <1>. HIDE DEF held
  <1>5. thread \in Thread  BY <1>2 DEF Thread, Stage
  <1>6. /\ thread.pc = "evaluate" /\ thread.claim = worker[t].claim
        /\ thread.left = worker[t].left /\ thread.ran = worker[t].ran
        /\ thread.descents = worker[t].descents /\ thread.pending = held
    BY <1>2 DEF Thread
  <1>. HIDE DEF thread
  <1>7. Sound(thread)  BY <1>2, <1>5, <1>6 DEF Sane, Sound
  <1>. HIDE DEF leaf
  <1>8. /\ tree' \in [outcome : SUBSET Node, edges : SUBSET Node, expanding : SUBSET Node]
        /\ tree'.outcome = tree.outcome /\ tree'.edges = tree.edges
        /\ tree'.expanding = tree.expanding \ {leaf}
    BY <1>4
  <1>9. RootStands'  BY <1>8 DEF Inv, RootStands
  <1>10. ClaimsAreExclusive'
    <2>1. ClaimsAreExclusive  BY DEF Inv
    <2>2. /\ worker'[t].pending = worker[t].pending \ {leaf}
          /\ \A u \in Worker \ {t} : worker'[u].pending = worker[u].pending
      BY <1>3, <1>6, <1>7, WorkerKeeps DEF held
    <2>3. \A u \in Worker \ {t} : leaf \notin worker[u].pending
      BY <1>2, <2>1 DEF ClaimsAreExclusive
    <2>4. tree'.expanding = UNION {worker'[u].pending : u \in Worker}
      BY <1>8, <2>1, <2>2, <2>3 DEF ClaimsAreExclusive
    <2>5. \A u \in Worker : worker'[u].pending \subseteq worker[u].pending
      BY <2>2
    <2>6. \A u, v \in Worker : u # v => worker'[u].pending \cap worker'[v].pending = {}
      BY <2>1, <2>5 DEF ClaimsAreExclusive
    <2>. QED  BY <2>4, <2>6 DEF ClaimsAreExclusive
  <1>. QED  BY <1>3, <1>7, <1>8, <1>9, <1>10, TreeStep DEF Releases

LEMMA PanicsStep ==
  ASSUME Inv, NEW t \in Worker, worker[t].pc # "done", Panics(t)
  PROVE  Inv'
  <1> DEFINE thread == [worker[t] EXCEPT !.pc = "panicked"]
  <1>1. worker[t] \in Thread /\ Sane(worker[t])  BY ThreadParts
  <1>2. thread \in Thread  BY <1>1 DEF Thread, Stage
  <1>3. /\ thread.pc = "panicked" /\ thread.claim = worker[t].claim
        /\ thread.left = worker[t].left /\ thread.ran = worker[t].ran
        /\ thread.descents = worker[t].descents /\ thread.pending = worker[t].pending
    BY <1>1 DEF Thread
  <1>4. Becomes(t, thread) /\ budget' \in Nat  BY DEF Panics, Inv, TypeOK
  <1>. HIDE DEF thread
  <1>5. Sound(thread)  BY <1>1, <1>2, <1>3 DEF Sane, Sound
  <1>. QED  BY <1>3, <1>4, <1>5, QuietStep DEF Panics

LEMMA EvaluatedStep ==
  ASSUME Inv, NEW t \in Worker, worker[t].pc # "done", Evaluated(t)
  PROVE  Inv'
  <1>1. worker[t].pending = {} /\ Becomes(t, BackedUp(worker[t]))  BY DEF Evaluated
  <1>2. /\ worker[t].ran + worker[t].left <= worker[t].claim
        /\ \A i \in 1..Len(worker[t].descents) : worker[t].descents[i].path # <<>>
    BY ThreadParts DEF Sane
  <1>3. Sound(BackedUp(worker[t])) /\ BackedUp(worker[t]).pending = {}
    BY <1>1, <1>2, ThreadParts, BackedUpIsSound
  <1>4. budget' \in Nat  BY DEF Evaluated, Inv, TypeOK
  <1>. QED  BY <1>1, <1>3, <1>4, QuietStep DEF Evaluated

\* The edge being backed up, and the leaf its value comes from.
LEMMA EdgeIsANode ==
  ASSUME Inv, NEW t \in Worker, worker[t].pc \in {"count", "add"}
  PROVE  /\ worker[t].descents # <<>>
         /\ Head(worker[t].descents).path # <<>>
         /\ Edge(t) \in Node /\ Leaf(t) \in Node
         /\ worker[t].pending = {}
         /\ \A i \in 1..Len(worker[t].descents) : worker[t].descents[i].path # <<>>
  <1> DEFINE ds == worker[t].descents
  <1>1. /\ ds \in Seq(Descent) /\ ds # <<>> /\ worker[t].pending = {}
        /\ \A i \in 1..Len(ds) : ds[i].path # <<>>
    BY ThreadParts DEF Sane
  <1>2. Head(ds) \in Descent /\ Head(ds) = ds[1] /\ Len(ds) \in Nat /\ Len(ds) >= 1
    BY <1>1
  <1>3. Head(ds).path \in Seq(Node) /\ Head(ds).leaf \in Node  BY <1>2 DEF Descent
  <1>4. Head(ds).path # <<>>  BY <1>1, <1>2
  <1>5. Head(Head(ds).path) \in Node  BY <1>3, <1>4
  <1>. QED  BY <1>1, <1>3, <1>4, <1>5 DEF Edge, Leaf

LEMMA LoadedIsSound ==
  ASSUME Inv, NEW t \in Worker, worker[t].pc \in {"count", "add"}
  PROVE  Sound(Loaded(t)) /\ Loaded(t).pending = worker[t].pending
  <1> DEFINE seen == w[Edge(t)]
             thread == [worker[t] EXCEPT !.pc = "add", !.seen = seen]
  <1>1. worker[t] \in Thread /\ Sane(worker[t])  BY ThreadParts
  <1>2. seen \in Int  BY EdgeIsANode DEF Inv, TypeOK
  <1>. HIDE DEF seen
  <1>3. thread \in Thread  BY <1>1, <1>2 DEF Thread, Stage
  <1>4. /\ thread.pc = "add" /\ thread.claim = worker[t].claim
        /\ thread.left = worker[t].left /\ thread.ran = worker[t].ran
        /\ thread.descents = worker[t].descents /\ thread.pending = worker[t].pending
    BY <1>1 DEF Thread
  <1>. HIDE DEF thread
  <1>5. Sound(thread)  BY <1>1, <1>3, <1>4 DEF Sane, Sound
  <1>. QED  BY <1>4, <1>5 DEF thread, seen, Loaded

LEMMA CountsStep ==
  ASSUME Inv, NEW t \in Worker, worker[t].pc # "done", Counts(t)
  PROVE  Inv'
  <1>1. worker[t].pc = "count"  BY DEF Counts, At
  <1>2. /\ visits \in [Node -> Int] /\ flights \in [Node -> Int]
        /\ n \in [Node -> Int] /\ vl \in [Node -> Int] /\ w \in [Node -> Int]
    BY DEF Inv, TypeOK
  <1>4. visits' \in [Node -> Int] /\ n' \in [Node -> Int]
    <2>1. visits' = [visits EXCEPT ![Parent(Edge(t))] = @ + 1]
      BY DEF Counts
    <2>2. n' = [n EXCEPT ![Edge(t)] = @ + 1]
      BY DEF Counts
    <2>. QED  BY <1>2, <2>1, <2>2, CountersAreTyped
  <1>. QED  BY <1>1, <1>2, <1>4, LoadedIsSound, CountingStep DEF Counts

LEMMA AddsAgainStep ==
  ASSUME Inv, NEW t \in Worker, worker[t].pc # "done", AddsAgain(t)
  PROVE  Inv'
  <1>1. worker[t].pc = "add"  BY DEF AddsAgain, At
  <1>2. budget' \in Nat  BY DEF AddsAgain, Inv, TypeOK
  <1>. QED  BY <1>1, <1>2, LoadedIsSound, QuietStep DEF AddsAgain

LEMMA AddsStep ==
  ASSUME Inv, NEW t \in Worker, worker[t].pc # "done", Adds(t)
  PROVE  Inv'
  <1>1. worker[t].pc = "add"  BY DEF Adds, At
  <1> DEFINE ds == worker[t].descents
             less == Shortened(ds)
             thread == [worker[t] EXCEPT !.descents = less, !.seen = 0]
  <1>2. /\ worker[t] \in Thread /\ Sane(worker[t]) /\ ds \in Seq(Descent) /\ ds # <<>>
        /\ \A i \in 1..Len(ds) : ds[i].path # <<>>
        /\ worker[t].pending = {}
    BY <1>1, ThreadParts, EdgeIsANode
  <1>3. Becomes(t, BackedUp(thread))  BY DEF Adds
  <1>4. less \in Seq(Descent) /\ \A i \in 2..Len(less) : less[i].path # <<>>
    <2>1. Len(ds) \in Nat /\ Len(ds) >= 1 /\ ds[1] \in Descent  BY <1>2
    <2>2. Tail(ds[1].path) \in Seq(Node)
      <3>1. ds[1].path \in Seq(Node) /\ ds[1].path # <<>>  BY <1>2, <2>1 DEF Descent
      <3>. QED  BY <3>1
    <2> DEFINE first == Advanced(ds[1])
    <2>3. first \in Descent  BY <2>1, <2>2 DEF Descent, Advanced
    <2>4. less = [ds EXCEPT ![1] = first]  BY DEF Shortened
    <2>. HIDE DEF first, less
    <2>5. less \in Seq(Descent) /\ Len(less) = Len(ds)
      BY <1>2, <2>3, <2>4, ExceptSeq
    <2>6. \A i \in 2..Len(ds) : less[i] = ds[i]
      BY <1>2, <2>1, <2>4
    <2>7. \A i \in 2..Len(ds) : i \in 1..Len(ds)  BY <2>1
    <2>. QED  BY <1>2, <2>5, <2>6, <2>7
  <1>. HIDE DEF less, ds
  <1>5. /\ thread \in Thread
        /\ thread.claim = worker[t].claim /\ thread.left = worker[t].left
        /\ thread.ran = worker[t].ran /\ thread.descents = less
        /\ thread.pending = worker[t].pending
    <2>1. PICK th : th = worker[t]  OBVIOUS
    <2>2. PICK sum \in Int : sum = 0  OBVIOUS
    <2>3. th \in Thread /\ less \in Seq(Descent)  BY <1>2, <1>4, <2>1
    <2>4. thread = [th EXCEPT !.descents = less, !.seen = sum]  BY <2>1, <2>2
    <2>. HIDE DEF thread
    <2>5. PICK rest \in Seq(Descent) : rest = less  BY <2>3
    <2>6. thread = [th EXCEPT !.descents = rest, !.seen = sum]  BY <2>4, <2>5
    <2>. HIDE DEF thread
    <2>7. thread \in Thread  BY <2>3, <2>5, <2>6 DEF Thread
    <2>8. /\ thread.claim = th.claim /\ thread.left = th.left
          /\ thread.ran = th.ran /\ thread.descents = rest
          /\ thread.pending = th.pending
      BY <2>3, <2>5, <2>6 DEF Thread
    <2>. QED  BY <2>1, <2>5, <2>7, <2>8
  <1>. HIDE DEF thread
  <1>7. thread.ran + thread.left <= thread.claim  BY <1>2, <1>5 DEF Sane
  <1>8. Sound(BackedUp(thread)) /\ BackedUp(thread).pending = {}
    BY <1>2, <1>4, <1>5, <1>7, BackedUpIsSound
  <1>9. /\ visits \in [Node -> Int] /\ flights \in [Node -> Int]
        /\ n \in [Node -> Int] /\ vl \in [Node -> Int] /\ w \in [Node -> Int]
    BY DEF Inv, TypeOK
  <1>10. vl' \in [Node -> Int] /\ flights' \in [Node -> Int]
    <2>1. vl' = [vl EXCEPT ![Edge(t)] = @ - 1]
      BY DEF Adds
    <2>2. flights' = [flights EXCEPT ![Parent(Edge(t))] = @ - 1]
      BY DEF Adds
    <2>. QED  BY <1>9, <2>1, <2>2, CountersAreTyped
  <1>11. w' \in [Node -> Int]
    <2> DEFINE sum == worker[t].seen + Value[Leaf(t)]
    <2>1. worker[t].seen \in Int /\ Value[Leaf(t)] \in Int
      BY <1>1, EdgeIsANode, ThreadParts, TreeAssumption
    <2>2. sum \in Int  BY <2>1
    <2>3. w' = [w EXCEPT ![Edge(t)] = sum]  BY DEF Adds
    <2>. HIDE DEF sum
    <2>. QED  BY <1>9, <2>2, <2>3
  <1>. QED  BY <1>2, <1>3, <1>8, <1>9, <1>10, <1>11, CountingStep DEF Adds

LEMMA ReturnsSimsStep ==
  ASSUME Inv, NEW t \in Worker, worker[t].pc # "done", ReturnsSims(t)
  PROVE  Inv'
  <1>1. worker[t].pending = {}  BY ThreadParts DEF ReturnsSims, At, Sane
  <1>2. budget' \in Nat
    <2>1. budget \in Nat  BY DEF Inv, TypeOK
    <2>2. /\ worker[t].claim \in 0..Batch /\ worker[t].ran \in 0..Batch
          /\ worker[t].left \in 0..Batch
          /\ worker[t].ran + worker[t].left <= worker[t].claim
      BY ThreadParts DEF Sane
    <2>3. budget' = budget + (worker[t].claim - worker[t].ran)
      BY DEF ReturnsSims, HandedBack
    <2>. QED  BY <2>1, <2>2, <2>3, SizeAssumption
  <1>. QED  BY <1>1, <1>2, StartsAreSound, QuietStep DEF ReturnsSims

LEMMA ReturnsTimedStep ==
  ASSUME Inv, NEW t \in Worker, worker[t].pc # "done", ReturnsTimed(t)
  PROVE  Inv'
  <1>1. worker[t].pending = {}  BY ThreadParts DEF ReturnsTimed, At, Sane
  <1>2. budget \in Nat  BY DEF Inv, TypeOK
  <1>3. Batch \in 1..Batch  BY SizeAssumption
  <1>4. UNCHANGED <<tree, stats, caller>>  BY DEF ReturnsTimed
  <1>5. CASE Becomes(t, Done) /\ UNCHANGED budget
    BY <1>1, <1>2, <1>4, <1>5, StartsAreSound, QuietStep
  <1>6. CASE budget > 0 /\ Becomes(t, Round(Batch)) /\ budget' = budget - 1
    <2>1. budget' \in Nat  BY <1>2, <1>6
    <2>. QED  BY <1>1, <1>3, <1>4, <1>6, <2>1, StartsAreSound, QuietStep
  <1>. QED  BY <1>5, <1>6 DEF ReturnsTimed

LEMMA StartsStep ==
  ASSUME Inv, NEW mode \in {"sims", "timed"}, Starts(mode)
  PROVE  Inv'
  <1>. Batch \in 1..Batch /\ Count \in Nat /\ MaxRounds \in Nat /\ MaxRuns \in Nat
    BY SizeAssumption
  <1> DEFINE thread == IF mode = "sims" THEN Claiming ELSE Round(Batch)
  <1>1. Sound(thread) /\ thread.pending = {}  BY StartsAreSound
  <1>2. worker' = [t \in Worker |-> thread]  BY DEF Starts
  <1>. HIDE DEF thread
  <1>3. worker' \in [Worker -> Thread] /\ \A t \in Worker : Sane(worker'[t])
    BY <1>1, <1>2 DEF Sound
  <1>4. TypeOK'
    <2>1. TypeOK  BY DEF Inv
    <2>2. budget' \in Nat  BY DEF Starts
    <2>3. runs' \in 0..MaxRuns  BY <2>1 DEF Starts, TypeOK
    <2>4. due' \in Int
      <3>1. visits[Root] \in Int  BY <2>1, TreeAssumption DEF TypeOK
      <3>. QED  BY <3>1 DEF Starts
    <2>5. main' = mode /\ UNCHANGED <<tree, stats>>  BY DEF Starts
    <2>6. /\ tree \in [outcome : SUBSET Node, edges : SUBSET Node, expanding : SUBSET Node]
          /\ visits \in [Node -> Int] /\ flights \in [Node -> Int]
          /\ n \in [Node -> Int] /\ vl \in [Node -> Int] /\ w \in [Node -> Int]
      BY <2>1 DEF TypeOK
    <2>. QED  BY <1>3, <2>2, <2>3, <2>4, <2>5, <2>6 DEF TypeOK, stats
  <1>5. RootStands'  BY DEF Inv, RootStands, Starts
  <1>6. ClaimsAreExclusive'
    <2>1. \A t \in Worker : worker'[t].pending = {}  BY <1>1, <1>2
    <2>2. \A t \in Worker : worker[t].pending = {}
      BY ThreadParts DEF Inv, IdleMeansDone, Starts, At, Sane
    <2>3. tree.expanding = UNION {worker[t].pending : t \in Worker}
      BY DEF Inv, ClaimsAreExclusive
    <2>4. tree'.expanding = {}  BY <2>2, <2>3 DEF Starts
    <2>5. UNION {worker'[t].pending : t \in Worker} = {}  BY <2>1
    <2>. QED  BY <2>1, <2>4, <2>5 DEF ClaimsAreExclusive
  <1>7. IdleMeansDone'  BY DEF IdleMeansDone, Starts
  <1>. QED  BY <1>3, <1>4, <1>5, <1>6, <1>7 DEF Inv

LEMMA JoinsStep == ASSUME Inv, Joins PROVE Inv'
  <1>1. UNCHANGED <<tree, stats, budget, worker, runs, due>>  BY DEF Joins
  <1>2. main' \in {"idle", "raised"}
        /\ (main' = "idle" => \A t \in Worker : worker[t].pc = "done")
    BY DEF Joins, At
  <1>3. TypeOK'  BY <1>1, <1>2 DEF Inv, TypeOK, stats
  <1>4. \A t \in Worker : Sane(worker[t])'  BY <1>1 DEF Inv
  <1>5. RootStands' /\ ClaimsAreExclusive'
    BY <1>1 DEF Inv, RootStands, ClaimsAreExclusive
  <1>6. IdleMeansDone'  BY <1>1, <1>2 DEF IdleMeansDone, At
  <1>. QED  BY <1>3, <1>4, <1>5, <1>6 DEF Inv

LEMMA StepKeeps == Inv /\ [Next]_vars => Inv'
  <1> SUFFICES ASSUME Inv, [Next]_vars PROVE Inv'  OBVIOUS
  <1>1. CASE UNCHANGED vars
    <2>1. UNCHANGED <<tree, visits, flights, n, vl, w, budget, worker, main, runs, due>>
      BY <1>1 DEF vars
    <2>2. TypeOK'  BY <2>1 DEF Inv, TypeOK
    <2>3. \A t \in Worker : Sane(worker[t])'  BY <2>1 DEF Inv
    <2>4. RootStands' /\ ClaimsAreExclusive' /\ IdleMeansDone'
      BY <2>1 DEF Inv, RootStands, ClaimsAreExclusive, IdleMeansDone, At
    <2>. QED  BY <2>2, <2>3, <2>4 DEF Inv
  <1>2. CASE Starts("sims") \/ Starts("timed")
    BY <1>2, StartsStep
  <1>3. CASE Joins
    BY <1>3, JoinsStep
  <1>4. ASSUME NEW t \in Worker, Runs(t) \/ Panics(t) PROVE Inv'
    <2>1. worker[t].pc # "done"  BY <1>4, ActorsAreAlive
    <2>2. CASE Claims(t)  BY <2>1, <2>2, ClaimsStep
    <2>3. CASE Descends(t)
      BY <2>1, <2>3, FindsOutcomeStep, WalksStep, FindsNothingStep, ClaimsLeafStep,
         CollidesStep DEF Descends
    <2>4. CASE Evaluates(t)
      BY <2>1, <2>4, PublishesStep, ReleasesStep, EvaluatedStep DEF Evaluates
    <2>5. CASE BacksUp(t)
      BY <2>1, <2>5, CountsStep, AddsStep, AddsAgainStep DEF BacksUp
    <2>6. CASE ReturnsSims(t)  BY <2>1, <2>6, ReturnsSimsStep
    <2>7. CASE ReturnsTimed(t)  BY <2>1, <2>7, ReturnsTimedStep
    <2>8. CASE Panics(t)  BY <2>1, <2>8, PanicsStep
    <2>. QED  BY <1>4, <2>2, <2>3, <2>4, <2>5, <2>6, <2>7, <2>8 DEF Runs
  <1>. QED  BY <1>1, <1>2, <1>3, <1>4 DEF Next

\* The invariant holds.
LEMMA Invariance == Spec => []Inv
  BY InitHolds, StepKeeps, PTL DEF Spec

-----------------------------------------------------------------------------
\* The shared tree, the counters and every thread stay well typed; in
\* particular no more is claimed than is left, and the budget never wraps.
THEOREM TypeCorrect == Spec => []TypeOK
  <1>1. Inv => TypeOK  BY DEF Inv
  <1>. QED  BY <1>1, Invariance, PTL

\* For any number of workers one at most evaluates a leaf, and a raised flag
\* has an owner.
THEOREM OneOwner == Spec => []ClaimsAreExclusive
  <1>1. Inv => ClaimsAreExclusive  BY DEF Inv
  <1>. QED  BY <1>1, Invariance, PTL

\* A worker only ever gives way to another one.
THEOREM GivesWayToOthers == Spec => CollisionIsWithAnother
  <1>1. ASSUME Inv, NEW t \in Worker, Collides(t)
        PROVE  \E u \in Worker \ {t} : worker[t].node \in worker[u].pending
    <2>1. worker[t].pc = "cas" /\ worker[t].node \in tree.expanding
      BY <1>1 DEF Collides, At, MayClaim
    <2>2. worker[t].node \notin worker[t].pending
      BY <1>1, <2>1, ThreadParts DEF Sane
    <2>3. PICK u \in Worker : worker[t].node \in worker[u].pending
      BY <1>1, <2>1 DEF Inv, ClaimsAreExclusive
    <2>. QED  BY <2>2, <2>3
  <1>2. Inv => \A t \in Worker : Collides(t) =>
                 \E u \in Worker \ {t} : worker[t].node \in worker[u].pending
    BY <1>1
  <1>. QED  BY <1>2, Invariance, PTL DEF CollisionIsWithAnother

-----------------------------------------------------------------------------
(***************************************************************************)
(* The statistics.  While no round is over they are off by exactly what is *)
(* in flight: Balanced says by how much, for the descents in progress, the *)
(* ones waiting for their leaf's value, and the one being backed up.       *)
(***************************************************************************)
\* How often a path takes the edge to x.
Occ(path, x) == Cardinality({i \in 1..Len(path) : path[i] = x})

\* How often a thread's descents do: the one in progress and those not backed up.
Load(descents, x) == SumOn([i \in 1..Len(descents) |-> Occ(descents[i].path, x)], 1..Len(descents))
InHand(thread, x) == Occ(thread.path, x) + Load(thread.descents, x)

\* What a backup under way has done to the w and n of the edge to x and not yet
\* to those below it.
Owed(thread, x) ==
  LET first == Head(thread.descents)
      edge == Head(first.path)
      value == Value[first.leaf]
  IN  CASE thread.pc = "count" -> IF edge \in Kids[x] THEN value - Value[x] ELSE 0
        [] thread.pc = "add" -> (IF edge \in Kids[x] THEN value ELSE 0)
                                  - (IF edge = x THEN Value[x] ELSE 0)
        [] OTHER -> 0

Chained(path) == \A i \in 2..Len(path) : path[i] \in Kids[path[i - 1]]
FromRoot(path) == path # <<>> => path[1] \in Kids[Root]
HasParent(path) == path # <<>> => \E x \in Node : path[1] \in Kids[x]
End(path) == IF path = <<>> THEN Root ELSE path[Len(path)]

\* A path that is left to back up: down to its leaf.
LeadsDown(descent) ==
  /\ Chained(descent.path) /\ descent.leaf = End(descent.path)
  /\ HasParent(descent.path)

\* Paths are paths of the tree, from the root unless they are being backed up.
Linked(thread) ==
  /\ Chained(thread.path) /\ FromRoot(thread.path)
  /\ IF thread.pc \in {"descend", "cas"} THEN thread.node = End(thread.path)
     ELSE thread.path = <<>>
  /\ thread.pc \in {"claim", "return", "done"} => thread.descents = <<>>
  /\ \A i \in 1..Len(thread.descents) :
       /\ LeadsDown(thread.descents[i])
       /\ i > 1 \/ thread.pc \notin {"count", "add"} => FromRoot(thread.descents[i].path)

\* All threads together.
Flying(x) == SumOn([t \in Worker |-> InHand(worker[t], x)], Worker)
Owing(x) == SumOn([t \in Worker |-> Owed(worker[t], x)], Worker)

Balanced ==
  /\ \A t \in Worker : Linked(worker[t])
  /\ \A x \in Node : vl[x] = Flying(x)
  /\ \A x \in Node : flights[x] = SumOn(vl, Kids[x])
  /\ \A x \in Node : visits[x] = SumOn(n, Kids[x])
  /\ \A x \in Node \ {Root} :
       w[x] = SumOn(w, Kids[x]) + Value[x] * (n[x] - visits[x]) + Owing(x)
-----------------------------------------------------------------------------
(* What is in flight *)

LEMMA OccIsNat ==
  ASSUME NEW path \in Seq(Node), NEW x
  PROVE  Occ(path, x) \in Nat /\ IsFiniteSet({i \in 1..Len(path) : path[i] = x})
<1>1. IsFiniteSet(1..Len(path))
  BY FS_Interval
<1>2. IsFiniteSet({i \in 1..Len(path) : path[i] = x})
  BY <1>1, FS_Subset
<1> QED BY <1>2, FS_CardinalityType DEF Occ

LEMMA OccsAreInts == \A path \in Seq(Node) : \A x : Occ(path, x) \in Int
<1> TAKE path \in Seq(Node)
<1> TAKE x
<1>1. Occ(path, x) \in Nat
  BY OccIsNat
<1> QED BY <1>1

LEMMA OccOfNone ==
  ASSUME NEW x
  PROVE  Occ(<<>>, x) = 0
<1>1. {i \in 1..Len(<<>>) : <<>>[i] = x} = {}
  OBVIOUS
<1> QED BY <1>1, FS_EmptySet DEF Occ

LEMMA OccOfLonger ==
  ASSUME NEW path \in Seq(Node), NEW kid \in Node, NEW x
  PROVE  Occ(Append(path, kid), x) = Occ(path, x) + (IF kid = x THEN 1 ELSE 0)
<1> DEFINE longer == Append(path, kid)
           m == Len(path)
           before == {i \in 1..m : path[i] = x}
<1>1. m \in Nat /\ Len(longer) = m + 1 /\ longer[m + 1] = kid
      /\ \A i \in 1..m : longer[i] = path[i]
  OBVIOUS
<1>2. IsFiniteSet(before)
  BY OccIsNat
<1>3. {i \in 1..Len(longer) : longer[i] = x} = IF kid = x THEN before \cup {m + 1} ELSE before
  <2> HIDE DEF longer, m
  <2> QED BY <1>1
<1>4. m + 1 \notin before
  BY <1>1
<1> HIDE DEF before, m
<1>5. Cardinality(before \cup {m + 1}) = Cardinality(before) + 1
  BY <1>2, <1>4, FS_AddElement
<1>6. Cardinality(before) \in Nat
  BY <1>2, FS_CardinalityType
<1>7. Occ(path, x) = Cardinality(before)
  BY DEF Occ, before, m
<1>8. Occ(longer, x) = Cardinality(IF kid = x THEN before \cup {m + 1} ELSE before)
  BY <1>3 DEF Occ
<1> QED BY <1>5, <1>6, <1>7, <1>8

LEMMA OccOfTail ==
  ASSUME NEW path \in Seq(Node), path # <<>>, NEW x
  PROVE  Occ(Tail(path), x) = Occ(path, x) - (IF path[1] = x THEN 1 ELSE 0)
<1> DEFINE rest == Tail(path)
           m == Len(path)
           all == {i \in 1..m : path[i] = x}
           later == {i \in 2..m : path[i] = x}
           shifted == {i \in 1..Len(rest) : rest[i] = x}
<1>1. m \in Nat /\ m >= 1 /\ Len(rest) = m - 1 /\ rest \in Seq(Node)
      /\ \A i \in 1..(m - 1) : rest[i] = path[i + 1]
  OBVIOUS
<1>2. IsFiniteSet(all) /\ IsFiniteSet(shifted)
  BY <1>1, OccIsNat
<1>3. all = IF path[1] = x THEN later \cup {1} ELSE later
  <2> HIDE DEF rest
  <2> QED BY <1>1
<1>4. 1 \notin later /\ later \subseteq all
  OBVIOUS
<1>5. IsFiniteSet(later)
  BY <1>2, <1>4, FS_Subset
<1>6. Cardinality(shifted) = Cardinality(later)
  <2> DEFINE up == [i \in shifted |-> i + 1]
  <2>1. \A i \in shifted : i \in Nat /\ up[i] = i + 1 /\ i + 1 \in later
    BY <1>1
  <2>2. \A j \in later : j - 1 \in shifted /\ (j - 1) + 1 = j
    BY <1>1
  <2>3. up \in Bijection(shifted, later)
    <3>1. up \in [shifted -> later]
      BY <2>1
    <3>2. \A i, j \in shifted : up[i] = up[j] => i = j
      BY <2>1
    <3>3. \A j \in later : \E i \in shifted : up[i] = j
      BY <2>1, <2>2
    <3> HIDE DEF up, shifted, later
    <3>4. up \in Injection(shifted, later)
      <4>1. DOMAIN up = shifted
        BY <3>1
      <4> QED BY <3>1, <3>2, <4>1 DEF Injection, IsInjective
    <3>5. up \in Surjection(shifted, later)
      BY <3>1, <3>3 DEF Surjection
    <3> QED BY <3>4, <3>5 DEF Bijection
  <2>4. ExistsBijection(shifted, later)
    BY <2>3 DEF ExistsBijection
  <2> HIDE DEF shifted, later
  <2> QED BY <1>2, <2>4, FS_Bijection
<1> HIDE DEF all, later, shifted
<1>7. Cardinality(later \cup {1}) = Cardinality(later) + 1 /\ Cardinality(later) \in Nat
  BY <1>4, <1>5, FS_AddElement, FS_CardinalityType
<1>8. Occ(path, x) = Cardinality(all) /\ Occ(rest, x) = Cardinality(shifted)
  BY DEF Occ, all, shifted
<1> HIDE DEF rest
<1> QED BY <1>3, <1>6, <1>7, <1>8 DEF rest

LEMMA PathsOfDescents ==
  ASSUME NEW ds \in Seq(Descent), NEW x
  PROVE  /\ IsFiniteSet(1..Len(ds))
         /\ \A i \in 1..Len(ds) : ds[i].path \in Seq(Node) /\ ds[i].leaf \in Node
                                  /\ Occ(ds[i].path, x) \in Int
<1>1. IsFiniteSet(1..Len(ds))
  BY FS_Interval
<1>2. ASSUME NEW i \in 1..Len(ds) PROVE ds[i].path \in Seq(Node) /\ ds[i].leaf \in Node
  <2>1. ds[i] \in Descent
    OBVIOUS
  <2> QED BY <2>1 DEF Descent
<1>3. ASSUME NEW i \in 1..Len(ds) PROVE Occ(ds[i].path, x) \in Int
  BY <1>2, OccsAreInts
<1> QED BY <1>1, <1>2, <1>3

LEMMA LoadIsInt ==
  ASSUME NEW ds \in Seq(Descent), NEW x
  PROVE  Load(ds, x) \in Int
<1> DEFINE f == [i \in 1..Len(ds) |-> Occ(ds[i].path, x)]
<1>1. \A i \in 1..Len(ds) : f[i] \in Int
  BY PathsOfDescents
<1> HIDE DEF f
<1>2. SumOn(f, 1..Len(ds)) \in Int
  BY <1>1, PathsOfDescents, SumIsInt
<1> QED BY <1>2 DEF Load, f

LEMMA LoadOfNone ==
  ASSUME NEW x
  PROVE  Load(<<>>, x) = 0
<1>1. 1..Len(<<>>) = {}
  OBVIOUS
<1> QED BY <1>1, SumOfNone DEF Load

LEMMA LoadOfLonger ==
  ASSUME NEW ds \in Seq(Descent), NEW d \in Descent, NEW x
  PROVE  Load(Append(ds, d), x) = Load(ds, x) + Occ(d.path, x)
<1> DEFINE es == Append(ds, d)
           m == Len(ds)
           f == [i \in 1..m |-> Occ(ds[i].path, x)]
           g == [i \in 1..Len(es) |-> Occ(es[i].path, x)]
<1>1. /\ es \in Seq(Descent) /\ m \in Nat /\ Len(es) = m + 1 /\ es[m + 1] = d
      /\ \A i \in 1..m : es[i] = ds[i]
  OBVIOUS
<1>2. \A i \in 1..m : f[i] = g[i]
  <2> HIDE DEF es
  <2>1. \A i \in 1..m : i \in 1..Len(es)
    BY <1>1
  <2> QED BY <1>1, <2>1
<1>3. g[m + 1] = Occ(d.path, x)
  <2> HIDE DEF es
  <2>1. m + 1 \in 1..Len(es)
    BY <1>1
  <2> QED BY <1>1, <2>1
<1>4. \A i \in 1..(m + 1) : g[i] \in Int
  <2> HIDE DEF es
  <2>1. \A i \in 1..Len(es) : Occ(es[i].path, x) \in Int
    BY <1>1, PathsOfDescents
  <2> QED BY <1>1, <2>1
<1>5. Load(ds, x) = SumOn(f, 1..m) /\ Load(es, x) = SumOn(g, 1..(m + 1))
  <2>1. Load(es, x) = SumOn(g, 1..Len(es))
    BY DEF Load
  <2> QED BY <1>1, <2>1 DEF Load
<1>6. IsFiniteSet(1..m) /\ IsFiniteSet(1..(m + 1)) /\ m + 1 \in 1..(m + 1)
      /\ (1..(m + 1)) \ {m + 1} = 1..m
  <2>1. m + 1 \in Int /\ m \in Int
    BY <1>1
  <2>2. IsFiniteSet(1..m) /\ IsFiniteSet(1..(m + 1))
    BY <2>1, FS_Interval
  <2> HIDE DEF m
  <2> QED BY <1>1, <2>2
<1> HIDE DEF f, g
<1>7. SumOn(g, 1..(m + 1)) = g[m + 1] + SumOn(g, 1..m)
  <2> DEFINE r == 1..(m + 1)
             last == m + 1
  <2>1. last \in r /\ IsFiniteSet(r) /\ \A i \in r : g[i] \in Int
    BY <1>4, <1>6
  <2> HIDE DEF r, last
  <2>2. SumOn(g, r) = g[last] + SumOn(g, r \ {last})
    BY <2>1, SumTakesOut
  <2> QED BY <1>6, <2>2 DEF r, last
<1>8. SumOn(f, 1..m) = SumOn(g, 1..m)
  BY <1>2, <1>6, SameSum
<1>9. Load(ds, x) \in Int /\ Occ(d.path, x) \in Int
  <2>1. d.path \in Seq(Node)
    BY DEF Descent
  <2> QED BY <2>1, LoadIsInt, OccsAreInts
<1> HIDE DEF es, m
<1> QED BY <1>3, <1>5, <1>7, <1>8, <1>9 DEF es

LEMMA LoadOfTail ==
  ASSUME NEW ds \in Seq(Descent), ds # <<>>, NEW x
  PROVE  Load(ds, x) = Occ(ds[1].path, x) + Load(Tail(ds), x)
<1> DEFINE es == Tail(ds)
           m == Len(ds) - 1
           f == [i \in 1..Len(ds) |-> Occ(ds[i].path, x)]
           g == [i \in 1..Len(es) |-> Occ(es[i].path, x)]
<1>1. /\ es \in Seq(Descent) /\ m \in Nat /\ Len(es) = m /\ Len(ds) = m + 1
      /\ \A i \in 1..m : es[i] = ds[i + 1]
  OBVIOUS
<1>2. \A i \in 1..(m + 1) : f[i] = Occ(ds[i].path, x) /\ f[i] \in Int
  <2>1. \A i \in 1..Len(ds) : Occ(ds[i].path, x) \in Int
    BY PathsOfDescents
  <2> QED BY <1>1, <2>1
<1>3. \A i \in 1..m : f[i + 1] \in Int /\ g[i] = f[i + 1]
  <2> HIDE DEF es, m
  <2>1. \A i \in 1..m : i + 1 \in 1..(m + 1) /\ i \in 1..Len(es) /\ i + 1 \in 1..Len(ds)
    BY <1>1
  <2> QED BY <1>1, <1>2, <2>1
<1>4. Load(ds, x) = SumOn(f, 1..(m + 1)) /\ Load(es, x) = SumOn(g, 1..m)
  <2>1. Load(es, x) = SumOn(g, 1..Len(es)) /\ Load(ds, x) = SumOn(f, 1..Len(ds))
    BY DEF Load
  <2> HIDE DEF es, m, f, g
  <2> QED BY <1>1, <2>1
<1> HIDE DEF f, g, m, es
<1>5. SumOn(g, 1..m) = SumOn(f, 2..(m + 1))
  BY <1>1, <1>3, SumShifts
<1>6. IsFiniteSet(1..(m + 1)) /\ 1 \in 1..(m + 1) /\ (1..(m + 1)) \ {1} = 2..(m + 1)
  <2>1. m + 1 \in Int
    BY <1>1
  <2>2. IsFiniteSet(1..(m + 1))
    BY <2>1, FS_Interval
  <2> QED BY <1>1, <2>2
<1>7. SumOn(f, 1..(m + 1)) = f[1] + SumOn(f, 2..(m + 1))
  <2> DEFINE r == 1..(m + 1)
  <2>1. 1 \in r /\ IsFiniteSet(r) /\ \A i \in r : f[i] \in Int
    BY <1>2, <1>6
  <2> HIDE DEF r
  <2>2. SumOn(f, r) = f[1] + SumOn(f, r \ {1})
    BY <2>1, SumTakesOut
  <2> QED BY <1>6, <2>2 DEF r
<1>8. f[1] = Occ(ds[1].path, x)
  BY <1>2, <1>6
<1> QED BY <1>4, <1>5, <1>7, <1>8 DEF es

\* Shortened changes the path of the first descent only.
LEMMA ShortenedParts ==
  ASSUME NEW ds \in Seq(Descent), ds # <<>>, ds[1].path # <<>>
  PROVE  /\ Shortened(ds) \in Seq(Descent) /\ Len(Shortened(ds)) = Len(ds)
         /\ \A i \in 1..Len(ds) : i # 1 => Shortened(ds)[i] = ds[i]
         /\ Shortened(ds)[1].path = Tail(ds[1].path)
         /\ Shortened(ds)[1].leaf = ds[1].leaf
<1>1. Len(ds) \in Nat /\ Len(ds) >= 1 /\ 1 \in 1..Len(ds) /\ ds[1] \in Descent
  OBVIOUS
<1>2. ds[1].path \in Seq(Node) /\ ds[1].leaf \in Node
  BY <1>1 DEF Descent
<1>3. Tail(ds[1].path) \in Seq(Node)
  BY <1>2
<1> DEFINE first == Advanced(ds[1])
<1>4. first \in Descent /\ first.path = Tail(ds[1].path) /\ first.leaf = ds[1].leaf
  BY <1>1, <1>2, <1>3 DEF Descent, Advanced
<1>5. Shortened(ds) = [ds EXCEPT ![1] = first]
  BY DEF Shortened
<1> HIDE DEF first
<1>6. Shortened(ds) \in Seq(Descent) /\ Len(Shortened(ds)) = Len(ds)
  BY <1>1, <1>4, <1>5, ExceptSeq
<1>7. Shortened(ds)[1] = first /\ \A i \in 1..Len(ds) : i # 1 => Shortened(ds)[i] = ds[i]
  BY <1>1, <1>5
<1> QED BY <1>4, <1>6, <1>7

LEMMA LoadOfShortened ==
  ASSUME NEW ds \in Seq(Descent), ds # <<>>, ds[1].path # <<>>, NEW x
  PROVE  Load(Shortened(ds), x) = Load(ds, x) - (IF ds[1].path[1] = x THEN 1 ELSE 0)
<1> DEFINE es == Shortened(ds)
           f == [i \in 1..Len(ds) |-> Occ(ds[i].path, x)]
           g == [i \in 1..Len(es) |-> Occ(es[i].path, x)]
<1>1. Len(ds) \in Nat /\ 1 \in 1..Len(ds) /\ ds[1] \in Descent
  OBVIOUS
<1>2. ds[1].path \in Seq(Node)
  BY <1>1 DEF Descent
<1>3. /\ es \in Seq(Descent) /\ Len(es) = Len(ds)
      /\ \A i \in 1..Len(ds) : i # 1 => es[i] = ds[i]
      /\ es[1].path = Tail(ds[1].path)
  BY <1>1, <1>2, ShortenedParts
<1>4. \A i \in 1..Len(ds) : f[i] \in Int /\ g[i] \in Int
  <2>1. \A i \in 1..Len(ds) : Occ(ds[i].path, x) \in Int
    BY PathsOfDescents
  <2>2. \A i \in 1..Len(es) : Occ(es[i].path, x) \in Int
    <3> HIDE DEF es
    <3> QED BY <1>3, PathsOfDescents
  <2> QED BY <1>3, <2>1, <2>2
<1>5. \A i \in (1..Len(ds)) \ {1} : f[i] = g[i]
  <2> HIDE DEF es
  <2> QED BY <1>3
<1>6. f[1] = Occ(ds[1].path, x) /\ g[1] = Occ(Tail(ds[1].path), x)
  <2> HIDE DEF es
  <2> QED BY <1>1, <1>3
<1>7. Load(ds, x) = SumOn(f, 1..Len(ds)) /\ Load(es, x) = SumOn(g, 1..Len(ds))
  <2>1. Load(es, x) = SumOn(g, 1..Len(es)) /\ Load(ds, x) = SumOn(f, 1..Len(ds))
    BY DEF Load
  <2> HIDE DEF es, f, g
  <2> QED BY <1>3, <2>1
<1> HIDE DEF f, g, es
<1>8. IsFiniteSet(1..Len(ds))
  BY <1>1, FS_Interval
<1>9. SumOn(g, 1..Len(ds)) = SumOn(f, 1..Len(ds)) + g[1] - f[1]
  <2> DEFINE r == 1..Len(ds)
             one == 1
  <2>1. one \in r /\ IsFiniteSet(r) /\ \A i \in r : f[i] \in Int /\ g[i] \in Int
    BY <1>1, <1>4, <1>8
  <2>2. \A i \in r : i # one => f[i] = g[i]
    BY <1>5
  <2> HIDE DEF r, one
  <2>3. ApartAt(one, f, g, r)
    BY <2>1, <2>2 DEF ApartAt
  <2>4. SumOn(g, r) = SumOn(f, r) + g[one] - f[one]
    BY <2>3, SumWithOneChanged
  <2> QED BY <2>4 DEF r, one
<1>10. g[1] = f[1] - (IF ds[1].path[1] = x THEN 1 ELSE 0)
  BY <1>2, <1>6, OccOfTail
<1>11. SumOn(f, 1..Len(ds)) \in Int /\ f[1] \in Int
  BY <1>1, <1>4, <1>7, LoadIsInt
<1> QED BY <1>7, <1>9, <1>10, <1>11 DEF es

\* The visits of the nodes above x on a path, counted at x's edges.
LEMMA PathThroughKids ==
  ASSUME NEW path \in Seq(Node), Chained(path), FromRoot(path), NEW x \in Node
  PROVE  SumOn([kid \in Node |-> Occ(path, kid)], Kids[x]) = Occ(Parents(path), x)
<1> DEFINE OK(p) == \A y \in Node :
                      SumOn([kid \in Node |-> Occ(p, kid)], Kids[y]) = Occ(Parents(p), y)
           B == {m \in Nat : \E p \in Seq(Node) :
                   Len(p) = m /\ Chained(p) /\ FromRoot(p) /\ ~OK(p)}
<1> SUFFICES ASSUME B # {} PROVE FALSE
  <2> SUFFICES ASSUME B = {} PROVE OK(path)
    OBVIOUS
  <2>1. Len(path) \in Nat
    OBVIOUS
  <2> HIDE DEF OK
  <2> QED BY <2>1
<1>1. PICK m \in B : \A j \in B : m <= j
  <2>1. B \subseteq Nat
    OBVIOUS
  <2> HIDE DEF B
  <2> QED BY <2>1, LeastNumber
<1>2. PICK p \in Seq(Node) : Len(p) = m /\ Chained(p) /\ FromRoot(p) /\ ~OK(p)
  <2> HIDE DEF OK
  <2> QED BY <1>1
<1>3. m \in Nat
  OBVIOUS
<1>4. \A y \in Node : IsFiniteSet(Kids[y]) /\ Kids[y] \subseteq Node
  BY ShapeAssumption, TreeAssumption
<1>5. m # 0
  <2> SUFFICES ASSUME m = 0 PROVE OK(p)
    BY <1>2
  <2> TAKE y \in Node
  <2>1. p = <<>>
    BY <1>2
  <2>2. Parents(p) = <<>>
    BY <2>1 DEF Parents
  <2>3. \A kid \in Kids[y] : [kid_1 \in Node |-> Occ(p, kid_1)][kid] = 0
    BY <1>4, <2>1, OccOfNone
  <2> DEFINE f == [kid \in Node |-> Occ(p, kid)]
  <2>4. \A kid \in Kids[y] : f[kid] = 0
    BY <2>3
  <2> HIDE DEF f
  <2>5. SumOn(f, Kids[y]) = 0
    BY <1>4, <2>4, SumOfZeros
  <2>6. Occ(Parents(p), y) = 0
    BY <2>2, OccOfNone
  <2> QED BY <2>5, <2>6 DEF f
<1> DEFINE front == SubSeq(p, 1, m - 1)
           last == p[m]
           above == IF m = 1 THEN Root ELSE p[m - 1]
<1>6. /\ front \in Seq(Node) /\ Len(front) = m - 1 /\ last \in Node
      /\ \A i \in 1..(m - 1) : front[i] = p[i]
  BY <1>2, <1>3, <1>5
<1>7. p = Append(front, last)
  BY <1>2, <1>3, <1>5
<1>8. Chained(front) /\ FromRoot(front)
  <2> HIDE DEF front
  <2>1. \A i \in 2..(m - 1) : i \in 1..(m - 1) /\ i - 1 \in 1..(m - 1) /\ i \in 2..m
    BY <1>3
  <2>2. Chained(front)
    BY <1>2, <1>6, <2>1 DEF Chained
  <2>3. front # <<>> => 1 \in 1..(m - 1) /\ p # <<>>
    BY <1>2, <1>3, <1>6
  <2> QED BY <1>2, <1>6, <2>2, <2>3 DEF FromRoot
<1>9. above \in Node /\ last \in Kids[above]
  <2>1. CASE m = 1
    BY <1>2, <2>1, TreeAssumption DEF FromRoot
  <2>2. CASE m # 1
    <3>1. m \in 2..Len(p) /\ m - 1 \in 1..Len(p)
      BY <1>2, <1>3, <1>5, <2>2
    <3> QED BY <1>2, <2>2, <3>1 DEF Chained
  <2> QED BY <2>1, <2>2
<1>10. Parents(front) \in Seq(Node) /\ Parents(p) = Append(Parents(front), above)
  <2>1. \A i \in 1..(m - 1) : i = 1 \/ i - 1 \in 1..(m - 1)
    BY <1>3
  <2> HIDE DEF front
  <2>2. Parents(front) = [i \in 1..(m - 1) |-> IF i = 1 THEN Root ELSE front[i - 1]]
    BY <1>6 DEF Parents
  <2>3. \A i \in 1..(m - 1) : (IF i = 1 THEN Root ELSE front[i - 1]) \in Node
    BY <1>6, <2>1, TreeAssumption
  <2>4. Parents(front) \in Seq(Node) /\ Len(Parents(front)) = m - 1
    <3>1. PICK k \in Nat : k = m - 1
      BY <1>3, <1>5
    <3>2. Parents(front) \in [1..k -> Node]
      BY <2>2, <2>3, <3>1
    <3> QED BY <3>1, <3>2
  <2>5. Parents(p) = [i \in 1..m |-> IF i = 1 THEN Root ELSE p[i - 1]]
    BY <1>2 DEF Parents
  <2> DEFINE longer == Append(Parents(front), above)
  <2>6. longer \in Seq(Node) /\ Len(longer) = m /\ longer[m] = above
        /\ \A i \in 1..(m - 1) : longer[i] = Parents(front)[i]
    <3> HIDE DEF above
    <3> QED BY <1>3, <1>5, <1>9, <2>4
  <2>7. \A i \in 1..m : longer[i] = IF i = 1 THEN Root ELSE p[i - 1]
    <3> TAKE i \in 1..m
    <3>1. CASE i = m
      <4> HIDE DEF longer
      <4> QED BY <2>6, <3>1
    <3>2. CASE i # m
      <4>1. i \in 1..(m - 1) /\ (i # 1 => i - 1 \in 1..(m - 1))
        BY <1>3, <3>2
      <4>2. longer[i] = Parents(front)[i]
        BY <2>6, <4>1
      <4> HIDE DEF longer
      <4> QED BY <1>6, <2>2, <4>1, <4>2
    <3> QED BY <3>1, <3>2
  <2>8. longer = [i \in 1..m |-> IF i = 1 THEN Root ELSE p[i - 1]]
    <3>1. longer = [i \in 1..m |-> longer[i]]
      <4> HIDE DEF longer
      <4> QED BY <2>6
    <3> HIDE DEF longer
    <3> QED BY <2>7, <3>1
  <2> HIDE DEF longer
  <2> QED BY <2>4, <2>5, <2>8 DEF longer
<1>11. OK(front)
  <2>1. m - 1 \notin B /\ m - 1 \in Nat
    BY <1>1, <1>3, <1>5
  <2> HIDE DEF OK, front
  <2> QED BY <1>6, <1>8, <2>1
<1>12. OK(p)
  <2> TAKE y \in Node
  <2> DEFINE f == [kid \in Node |-> Occ(front, kid)]
             g == [kid \in Node |-> Occ(p, kid)]
  <2>1. SumOn(f, Kids[y]) = Occ(Parents(front), y)
    BY <1>11
  <2>2. Occ(Parents(p), y) = Occ(Parents(front), y) + (IF above = y THEN 1 ELSE 0)
    <3> HIDE DEF front, above
    <3> QED BY <1>9, <1>10, OccOfLonger
  <2>3. \A kid \in Node : g[kid] = f[kid] + (IF last = kid THEN 1 ELSE 0) /\ f[kid] \in Int
    <3> TAKE kid \in Node
    <3>1. g[kid] = Occ(p, kid) /\ f[kid] = Occ(front, kid)
      OBVIOUS
    <3> HIDE DEF front, last
    <3>2. Occ(Append(front, last), kid) = Occ(front, kid) + (IF last = kid THEN 1 ELSE 0)
      BY <1>6, OccOfLonger
    <3>3. Occ(front, kid) \in Int
      BY <1>6, OccsAreInts
    <3> QED BY <1>7, <3>1, <3>2, <3>3
  <2>4. \A kid \in Kids[y] : kid \in Node
    BY <1>4
  <2>5. last \in Kids[y] <=> above = y
    BY <1>9, ShapeAssumption
  <2>6. SumOn(f, Kids[y]) \in Int
    <3>1. \A kid \in Kids[y] : f[kid] \in Int
      BY <2>3, <2>4
    <3> HIDE DEF f
    <3> QED BY <1>4, <3>1, SumIsInt
  <2> HIDE DEF f, g, above, last, front
  <2>7. CASE above = y
    <3>1. \A kid \in Kids[y] : f[kid] \in Int /\ g[kid] \in Int
      BY <2>3, <2>4
    <3>2. \A kid \in Kids[y] : kid # last => f[kid] = g[kid]
      BY <2>3, <2>4
    <3>3. ApartAt(last, f, g, Kids[y])
      BY <1>4, <2>5, <2>7, <3>1, <3>2 DEF ApartAt
    <3>4. SumOn(g, Kids[y]) = SumOn(f, Kids[y]) + g[last] - f[last]
      BY <3>3, SumWithOneChanged
    <3>5. g[last] = f[last] + 1 /\ f[last] \in Int
      BY <1>6, <2>3
    <3>6. SumOn(g, Kids[y]) = Occ(Parents(p), y)
      BY <2>1, <2>2, <2>6, <2>7, <3>4, <3>5
    <3> QED BY <3>6 DEF g
  <2>8. CASE above # y
    <3>1. ASSUME NEW kid \in Kids[y] PROVE f[kid] = g[kid]
      <4>1. last # kid /\ kid \in Node
        BY <2>4, <2>5, <2>8
      <4> QED BY <2>3, <4>1
    <3>2. SumOn(f, Kids[y]) = SumOn(g, Kids[y])
      BY <1>4, <3>1, SameSum
    <3>3. SumOn(g, Kids[y]) = Occ(Parents(p), y)
      BY <2>1, <2>2, <2>6, <2>8, <3>2
    <3> QED BY <3>3 DEF g
  <2> QED BY <2>7, <2>8
<1> QED BY <1>2, <1>12

-----------------------------------------------------------------------------
(* One thread *)

LEMMA EmptyPath ==
  /\ Chained(<<>>) /\ FromRoot(<<>>) /\ HasParent(<<>>) /\ End(<<>>) = Root
  /\ <<>> \in Seq(Node) /\ Len(<<>>) = 0
BY DEF Chained, FromRoot, HasParent, End

LEMMA FromRootHasParent ==
  ASSUME NEW path, FromRoot(path)
  PROVE  HasParent(path)
BY TreeAssumption DEF FromRoot, HasParent

LEMMA InHandIsInt ==
  ASSUME NEW thread \in Thread, NEW x
  PROVE  InHand(thread, x) \in Int
<1>1. thread.path \in Seq(Node) /\ thread.descents \in Seq(Descent)
  BY DEF Thread
<1> QED BY <1>1, OccsAreInts, LoadIsInt DEF InHand

LEMMA OwedIsInt ==
  ASSUME NEW thread \in Thread, Sane(thread), NEW x \in Node
  PROVE  Owed(thread, x) \in Int
<1>1. Value[x] \in Int
  BY TreeAssumption
<1>2. CASE thread.pc \in {"count", "add"}
  <2>1. thread.descents \in Seq(Descent) /\ thread.descents # <<>>
    BY <1>2 DEF Thread, Sane
  <2>2. Head(thread.descents) \in Descent
    BY <2>1
  <2>3. Value[Head(thread.descents).leaf] \in Int
    BY <2>2, TreeAssumption DEF Descent
  <2> QED BY <1>1, <1>2, <2>3 DEF Owed
<1>3. CASE thread.pc \notin {"count", "add"}
  BY <1>3 DEF Owed
<1> QED BY <1>2, <1>3

\* The fields the balance is about.
LEMMA NextDescentParts ==
  ASSUME NEW thread \in Thread, NEW nd, nd = NextDescent(thread)
  PROVE  /\ (nd.pc = "descend" /\ nd.node = Root) \/ nd.pc = "evaluate"
         /\ nd.path = <<>> /\ nd.descents = thread.descents
<1>1. CASE thread.left > 1
  <2>1. nd = [thread EXCEPT !.pc = "descend", !.left = @ - 1, !.node = Root, !.path = <<>>]
    BY <1>1 DEF NextDescent
  <2> QED BY <2>1 DEF Thread
<1>2. CASE ~(thread.left > 1)
  <2>1. nd = [thread EXCEPT !.pc = "evaluate", !.left = 0, !.node = NoNode, !.path = <<>>]
    BY <1>2 DEF NextDescent
  <2> QED BY <2>1 DEF Thread
<1> QED BY <1>1, <1>2

LEMMA NextDescentKeeps ==
  ASSUME NEW thread \in Thread, NEW nd, nd = NextDescent(thread),
         \A i \in 1..Len(thread.descents) :
           LeadsDown(thread.descents[i]) /\ FromRoot(thread.descents[i].path)
  PROVE  /\ Linked(nd)
         /\ \A x \in Node : InHand(nd, x) = Load(thread.descents, x) /\ Owed(nd, x) = 0
<1>1. /\ (nd.pc = "descend" /\ nd.node = Root) \/ nd.pc = "evaluate"
      /\ nd.path = <<>> /\ nd.descents = thread.descents
  BY NextDescentParts
<1>2. Linked(nd)
  BY <1>1, EmptyPath DEF Linked
<1>3. ASSUME NEW x \in Node PROVE InHand(nd, x) = Load(thread.descents, x)
  <2>1. Load(thread.descents, x) \in Int
    BY LoadIsInt DEF Thread
  <2> QED BY <1>1, <2>1, OccOfNone DEF InHand
<1>4. \A x \in Node : Owed(nd, x) = 0
  BY <1>1 DEF Owed
<1> QED BY <1>2, <1>3, <1>4

\* The descents of a thread that is not backing up all start at the root.
LEMMA WholeDescents ==
  ASSUME NEW thread, Linked(thread), thread.pc \notin {"count", "add"}
  PROVE  \A i \in 1..Len(thread.descents) :
           LeadsDown(thread.descents[i]) /\ FromRoot(thread.descents[i].path)
BY DEF Linked

LEMMA RecordLeafKeeps ==
  ASSUME NEW thread \in Thread, Sane(thread), Linked(thread),
         thread.pc \in {"descend", "cas"}, thread.path # <<>>,
         NEW claimed \in SUBSET Node, NEW nd, nd = RecordLeaf(thread, claimed)
  PROVE  /\ Linked(nd)
         /\ \A x \in Node : InHand(nd, x) = InHand(thread, x) /\ Owed(nd, x) = Owed(thread, x)
<1> DEFINE d == [path |-> thread.path, leaf |-> thread.node]
           ds == Append(thread.descents, d)
           next == [thread EXCEPT !.descents = ds, !.ran = @ + 1, !.pending = @ \cup claimed]
<1>1. /\ thread.path \in Seq(Node) /\ thread.node \in Node
      /\ thread.descents \in Seq(Descent)
      /\ thread.claim \in 0..Batch /\ thread.ran \in 0..Batch /\ thread.left \in 0..Batch
      /\ thread.ran + thread.left <= thread.claim /\ thread.left > 0
      /\ thread.pending \in SUBSET Node
  BY DEF Thread, Sane
<1>2. d \in Descent
  BY <1>1 DEF Descent
<1>3. LeadsDown(d) /\ FromRoot(d.path)
  BY FromRootHasParent DEF Linked, LeadsDown
<1>4. nd = NextDescent(next)
  BY DEF RecordLeaf
<1>5. thread.ran + 1 \in 0..Batch
  BY <1>1, SizeAssumption
<1>6. d.path = thread.path
  OBVIOUS
<1> HIDE DEF d
<1>7. /\ ds \in Seq(Descent) /\ Len(ds) = Len(thread.descents) + 1
      /\ \A i \in 1..Len(thread.descents) : ds[i] = thread.descents[i]
      /\ ds[Len(thread.descents) + 1] = d
  BY <1>1, <1>2
<1>8. \A x \in Node : Load(ds, x) = Load(thread.descents, x) + Occ(thread.path, x)
  BY <1>1, <1>2, <1>6, LoadOfLonger
<1> HIDE DEF ds
<1>9. next \in Thread /\ next.descents = ds
  <2>1. PICK more \in 0..Batch : more = thread.ran + 1
    BY <1>5
  <2>2. PICK held \in SUBSET Node : held = thread.pending \cup claimed
    BY <1>1
  <2>3. next = [thread EXCEPT !.descents = ds, !.ran = more, !.pending = held]
    BY <2>1, <2>2
  <2> HIDE DEF next
  <2> QED BY <1>7, <2>1, <2>2, <2>3 DEF Thread
<1> HIDE DEF next
<1>10. \A i \in 1..Len(ds) : LeadsDown(ds[i]) /\ FromRoot(ds[i].path)
  <2>1. Len(thread.descents) \in Nat
    BY <1>1
  <2>2. \A i \in 1..Len(thread.descents) :
          LeadsDown(thread.descents[i]) /\ FromRoot(thread.descents[i].path)
    BY WholeDescents
  <2>3. ASSUME NEW i \in 1..Len(ds) PROVE LeadsDown(ds[i]) /\ FromRoot(ds[i].path)
    <3>1. CASE i \in 1..Len(thread.descents)
      BY <1>7, <2>2, <3>1
    <3>2. CASE i \notin 1..Len(thread.descents)
      <4>1. i = Len(thread.descents) + 1
        BY <1>7, <2>1, <3>2
      <4> QED BY <1>3, <1>7, <4>1
    <3> QED BY <3>1, <3>2
  <2> QED BY <2>3
<1>11. /\ Linked(nd)
       /\ \A x \in Node : InHand(nd, x) = Load(ds, x) /\ Owed(nd, x) = 0
  BY <1>4, <1>9, <1>10, NextDescentKeeps
<1>12. ASSUME NEW x \in Node PROVE InHand(nd, x) = InHand(thread, x)
  <2>1. Load(thread.descents, x) \in Int /\ Occ(thread.path, x) \in Int
    BY <1>1, LoadIsInt, OccsAreInts
  <2>2. InHand(nd, x) = Load(thread.descents, x) + Occ(thread.path, x)
    BY <1>8, <1>11
  <2> QED BY <2>1, <2>2 DEF InHand
<1>13. \A x \in Node : Owed(thread, x) = 0
  BY DEF Owed
<1> QED BY <1>11, <1>12, <1>13

\* After a backup of some edges: the next edge, the next descent or none.
LEMMA BackedUpParts ==
  ASSUME NEW thread \in Thread, NEW next, next = BackedUp(thread)
  PROVE  /\ next.path = thread.path
         /\ next.descents = IF thread.descents # <<>> /\ Head(thread.descents).path = <<>>
                            THEN Tail(thread.descents) ELSE thread.descents
         /\ next.pc = IF next.descents = <<>> THEN "return" ELSE "count"
<1> DEFINE rest == IF thread.descents # <<>> /\ Head(thread.descents).path = <<>>
                   THEN Tail(thread.descents) ELSE thread.descents
           stage == IF rest = <<>> THEN "return" ELSE "count"
<1>1. next = [thread EXCEPT !.descents = rest, !.pc = stage]
  BY DEF BackedUp
<1> HIDE DEF rest, stage
<1>2. next.path = thread.path /\ next.descents = rest /\ next.pc = stage
  BY <1>1 DEF Thread
<1> QED BY <1>2 DEF rest, stage

LEMMA BackedUpKeeps ==
  ASSUME NEW thread \in Thread, NEW next, next = BackedUp(thread), thread.path = <<>>,
         \A i \in 1..Len(thread.descents) :
           /\ LeadsDown(thread.descents[i]) \/ thread.descents[i].path = <<>>
           /\ i > 1 => FromRoot(thread.descents[i].path) /\ thread.descents[i].path # <<>>
  PROVE  /\ Linked(next)
         /\ \A x \in Node : InHand(next, x) = Load(thread.descents, x)
         /\ \A x \in Node \ {Root} :
              Owed(next, x) =
                IF thread.descents # <<>> /\ thread.descents[1].path # <<>>
                   /\ thread.descents[1].path[1] \in Kids[x]
                THEN Value[thread.descents[1].leaf] - Value[x] ELSE 0
<1> DEFINE ds == thread.descents
           es == next.descents
<1>1. ds \in Seq(Descent) /\ Len(ds) \in Nat /\ (ds # <<>> => Head(ds) = ds[1] /\ Len(ds) >= 1)
  BY DEF Thread
<1>2. /\ next.path = <<>>
      /\ es = IF ds # <<>> /\ ds[1].path = <<>> THEN Tail(ds) ELSE ds
      /\ next.pc = IF es = <<>> THEN "return" ELSE "count"
  BY <1>1, BackedUpParts
<1>3. \A x \in Node : Load(ds, x) \in Int
  BY <1>1, LoadIsInt
<1>4. CASE ds # <<>> /\ ds[1].path = <<>>
  <2>1. /\ es = Tail(ds) /\ es \in Seq(Descent) /\ Len(es) = Len(ds) - 1
        /\ \A i \in 1..Len(es) : es[i] = ds[i + 1]
    BY <1>1, <1>2, <1>4
  <2> HIDE DEF es
  <2>2. ASSUME NEW i \in 1..Len(es)
        PROVE  LeadsDown(es[i]) /\ FromRoot(es[i].path) /\ es[i].path # <<>>
    <3>1. i + 1 \in 1..Len(ds) /\ i + 1 > 1
      BY <1>1, <2>1
    <3> QED BY <2>1, <3>1
  <2>3. Linked(next)
    BY <1>2, <2>2, EmptyPath DEF Linked, es
  <2>4. ASSUME NEW x \in Node PROVE InHand(next, x) = Load(ds, x)
    <3>1. Load(ds, x) = Occ(ds[1].path, x) + Load(es, x)
      BY <1>1, <1>4, <2>1, LoadOfTail
    <3>2. Load(es, x) \in Int
      BY <2>1, LoadIsInt
    <3>3. InHand(next, x) = Occ(<<>>, x) + Load(es, x)
      BY <1>2 DEF InHand, es
    <3> QED BY <1>4, <3>1, <3>2, <3>3
  <2>5. ASSUME NEW x \in Node \ {Root} PROVE Owed(next, x) = 0
    <3>1. CASE es = <<>>
      BY <1>2, <3>1 DEF Owed
    <3>2. CASE es # <<>>
      <4>1. 1 \in 1..Len(es) /\ Head(es) = es[1] /\ es[1] \in Descent
        BY <2>1, <3>2
      <4>2. es[1].path \in Seq(Node) /\ es[1].path # <<>> /\ es[1].path[1] \in Kids[Root]
        BY <2>2, <4>1 DEF FromRoot, Descent
      <4>3. Head(es[1].path) = es[1].path[1]
        BY <4>2
      <4>4. es[1].path[1] \notin Kids[x]
        BY <4>2, ShapeAssumption, TreeAssumption
      <4> QED BY <1>2, <3>2, <4>1, <4>3, <4>4 DEF Owed, es
    <3> QED BY <3>1, <3>2
  <2> QED BY <1>4, <2>3, <2>4, <2>5
<1>5. CASE ~(ds # <<>> /\ ds[1].path = <<>>)
  <2>1. es = ds
    BY <1>2, <1>5
  <2>2. Linked(next)
    <3>1. \A i \in 1..Len(ds) : ds[i].path # <<>>
      BY <1>1, <1>5
    <3> QED BY <1>2, <2>1, <3>1, EmptyPath DEF Linked
  <2>3. ASSUME NEW x \in Node PROVE InHand(next, x) = Load(ds, x)
    <3>1. InHand(next, x) = Occ(<<>>, x) + Load(ds, x)
      BY <1>2, <2>1 DEF InHand
    <3> QED BY <1>3, <3>1, OccOfNone
  <2>4. ASSUME NEW x \in Node \ {Root}
        PROVE  Owed(next, x) =
                 IF ds # <<>> /\ ds[1].path # <<>> /\ ds[1].path[1] \in Kids[x]
                 THEN Value[ds[1].leaf] - Value[x] ELSE 0
    <3>1. CASE ds = <<>>
      BY <1>2, <2>1, <3>1 DEF Owed
    <3>2. CASE ds # <<>>
      <4>1. ds[1].path # <<>> /\ ds[1] \in Descent
        BY <1>1, <1>5, <3>2
      <4>2. Head(ds[1].path) = ds[1].path[1]
        BY <4>1 DEF Descent
      <4> QED BY <1>1, <1>2, <2>1, <3>2, <4>1, <4>2 DEF Owed
    <3> QED BY <3>1, <3>2
  <2> QED BY <2>2, <2>3, <2>4
<1> QED BY <1>4, <1>5

-----------------------------------------------------------------------------
(* All threads *)

\* A sum over the threads moves with the one that does.
LEMMA SumsMove ==
  ASSUME Inv, Inv', NEW t \in Worker,
         \A u \in Worker \ {t} : worker'[u] = worker[u], NEW x \in Node
  PROVE  /\ Flying(x) \in Int /\ Owing(x) \in Int
         /\ Flying(x)' = Flying(x) + InHand(worker'[t], x) - InHand(worker[t], x)
         /\ Owing(x)' = Owing(x) + Owed(worker'[t], x) - Owed(worker[t], x)
<1>1. \A u \in Worker : worker[u] \in Thread /\ Sane(worker[u])
  BY DEF Inv, TypeOK
<1>2. \A u \in Worker : worker'[u] \in Thread /\ Sane(worker'[u])
  BY DEF Inv, TypeOK
<1>3. IsFiniteSet(Worker)
  BY ShapeAssumption
<1>4. /\ Flying(x) \in Int
      /\ Flying(x)' = Flying(x) + InHand(worker'[t], x) - InHand(worker[t], x)
  <2> DEFINE f == [u \in Worker |-> InHand(worker[u], x)]
             g == [u \in Worker |-> InHand(worker'[u], x)]
  <2>1. \A u \in Worker : f[u] \in Int /\ g[u] \in Int
    BY <1>1, <1>2, InHandIsInt
  <2>2. \A u \in Worker : u # t => f[u] = g[u]
    OBVIOUS
  <2>3. Flying(x) = SumOn(f, Worker) /\ Flying(x)' = SumOn(g, Worker)
    BY DEF Flying
  <2>4. f[t] = InHand(worker[t], x) /\ g[t] = InHand(worker'[t], x)
    OBVIOUS
  <2> HIDE DEF f, g
  <2>5. ApartAt(t, f, g, Worker)
    BY <1>3, <2>1, <2>2 DEF ApartAt
  <2>6. SumOn(g, Worker) = SumOn(f, Worker) + g[t] - f[t]
    BY <2>5, SumWithOneChanged
  <2>7. SumOn(f, Worker) \in Int
    BY <1>3, <2>1, SumIsInt
  <2> QED BY <2>3, <2>4, <2>6, <2>7
<1>5. /\ Owing(x) \in Int
      /\ Owing(x)' = Owing(x) + Owed(worker'[t], x) - Owed(worker[t], x)
  <2> DEFINE f == [u \in Worker |-> Owed(worker[u], x)]
             g == [u \in Worker |-> Owed(worker'[u], x)]
  <2>1. \A u \in Worker : f[u] \in Int /\ g[u] \in Int
    BY <1>1, <1>2, OwedIsInt
  <2>2. \A u \in Worker : u # t => f[u] = g[u]
    OBVIOUS
  <2>3. Owing(x) = SumOn(f, Worker) /\ Owing(x)' = SumOn(g, Worker)
    BY DEF Owing
  <2>4. f[t] = Owed(worker[t], x) /\ g[t] = Owed(worker'[t], x)
    OBVIOUS
  <2> HIDE DEF f, g
  <2>5. ApartAt(t, f, g, Worker)
    BY <1>3, <2>1, <2>2 DEF ApartAt
  <2>6. SumOn(g, Worker) = SumOn(f, Worker) + g[t] - f[t]
    BY <2>5, SumWithOneChanged
  <2>7. SumOn(f, Worker) \in Int
    BY <1>3, <2>1, SumIsInt
  <2> QED BY <2>3, <2>4, <2>6, <2>7
<1> QED BY <1>4, <1>5

LEMMA BecomesParts ==
  ASSUME Inv, NEW t \in Worker, NEW thread, Becomes(t, thread)
  PROVE  worker'[t] = thread /\ \A u \in Worker \ {t} : worker'[u] = worker[u]
BY DEF Becomes, Inv, TypeOK

\* What a thread holds and owes is Int.
LEMMA ThreadSums ==
  ASSUME Inv, NEW t \in Worker, NEW x \in Node
  PROVE  InHand(worker[t], x) \in Int /\ Owed(worker[t], x) \in Int
BY ThreadParts, InHandIsInt, OwedIsInt

LEMMA CountersAreInts ==
  ASSUME Inv
  PROVE  /\ \A x \in Node : /\ vl[x] \in Int /\ flights[x] \in Int /\ visits[x] \in Int
                            /\ n[x] \in Int /\ w[x] \in Int /\ Value[x] \in Int
         /\ \A x \in Node : Kids[x] \subseteq Node /\ IsFiniteSet(Kids[x])
BY TreeAssumption, ShapeAssumption DEF Inv, TypeOK

LEMMA KidSumsAreInts ==
  ASSUME Inv, NEW x \in Node
  PROVE  /\ SumOn(vl, Kids[x]) \in Int /\ SumOn(n, Kids[x]) \in Int
         /\ SumOn(w, Kids[x]) \in Int
<1>1. /\ IsFiniteSet(Kids[x])
      /\ \A k \in Kids[x] : vl[k] \in Int /\ n[k] \in Int /\ w[k] \in Int
  BY CountersAreInts
<1> QED BY <1>1, SumIsInt

\* A thread moves on, and nothing is counted.
LEMMA NothingMoves ==
  ASSUME Inv, Inv', Balanced, NEW t \in Worker, NEW thread, Becomes(t, thread),
         UNCHANGED stats, Linked(thread),
         \A x \in Node : InHand(thread, x) = InHand(worker[t], x),
         \A x \in Node \ {Root} : Owed(thread, x) = Owed(worker[t], x)
  PROVE  Balanced'
<1>1. worker'[t] = thread /\ \A u \in Worker \ {t} : worker'[u] = worker[u]
  BY BecomesParts
<1>2. \A u \in Worker : Linked(worker'[u])
  BY <1>1 DEF Balanced
<1>3. ASSUME NEW x \in Node PROVE Flying(x)' = Flying(x)
  <2>1. Flying(x) \in Int /\ InHand(worker[t], x) \in Int
        /\ Flying(x)' = Flying(x) + InHand(worker'[t], x) - InHand(worker[t], x)
    BY <1>1, SumsMove, ThreadSums
  <2> QED BY <1>1, <2>1
<1>4. ASSUME NEW x \in Node \ {Root} PROVE Owing(x)' = Owing(x)
  <2>1. Owing(x) \in Int /\ Owed(worker[t], x) \in Int
        /\ Owing(x)' = Owing(x) + Owed(worker'[t], x) - Owed(worker[t], x)
    BY <1>1, SumsMove, ThreadSums
  <2> QED BY <1>1, <2>1
<1>5. vl' = vl /\ flights' = flights /\ visits' = visits /\ n' = n /\ w' = w
  BY DEF stats
<1>6. /\ \A x \in Node : vl'[x] = Flying(x)'
      /\ \A x \in Node : flights'[x] = SumOn(vl', Kids[x])
      /\ \A x \in Node : visits'[x] = SumOn(n', Kids[x])
      /\ \A x \in Node \ {Root} :
           w'[x] = SumOn(w', Kids[x]) + Value[x] * (n'[x] - visits'[x]) + Owing(x)'
  BY <1>3, <1>4, <1>5 DEF Balanced
<1> QED BY <1>2, <1>6 DEF Balanced

\* The same, for a thread that holds the same paths at another stage.
LEMMA StageMoves ==
  ASSUME Inv, Inv', Balanced, NEW t \in Worker, NEW thread, Becomes(t, thread),
         UNCHANGED stats,
         thread.path = worker[t].path, thread.descents = worker[t].descents,
         worker[t].pc \notin {"count", "add"},
         \/ thread.pc = "cas" /\ worker[t].pc = "descend" /\ thread.node = worker[t].node
         \/ thread.pc \in {"evaluate", "release", "panicked"} /\ worker[t].pc \in {"evaluate", "release"}
  PROVE  Balanced'
<1>1. Linked(worker[t])
  BY DEF Balanced
<1>2. Linked(thread)
  BY <1>1 DEF Linked
<1>3. \A x \in Node : InHand(thread, x) = InHand(worker[t], x)
  BY DEF InHand
<1>4. \A x \in Node \ {Root} : Owed(thread, x) = Owed(worker[t], x)
  BY DEF Owed
<1> QED BY <1>2, <1>3, <1>4, NothingMoves

\* The same, for a thread without paths before and after.
LEMMA EmptyHandedMoves ==
  ASSUME NEW thread, thread.pc \in {"claim", "done", "descend"},
         thread.pc = "descend" => thread.node = Root,
         thread.path = <<>>, thread.descents = <<>>
  PROVE  Linked(thread) /\ \A x \in Node : InHand(thread, x) = 0 /\ Owed(thread, x) = 0
<1>1. Linked(thread)
  BY EmptyPath DEF Linked
<1>2. ASSUME NEW x \in Node PROVE InHand(thread, x) = 0
  BY OccOfNone, LoadOfNone DEF InHand
<1>3. \A x \in Node : Owed(thread, x) = 0
  BY DEF Owed
<1> QED BY <1>1, <1>2, <1>3

LEMMA EmptyHands ==
  /\ \A take : Linked(Round(take)) /\ \A x \in Node : InHand(Round(take), x) = 0 /\ Owed(Round(take), x) = 0
  /\ Linked(Done) /\ \A x \in Node : InHand(Done, x) = 0 /\ Owed(Done, x) = 0
  /\ Linked(Claiming) /\ \A x \in Node : InHand(Claiming, x) = 0 /\ Owed(Claiming, x) = 0
<1>1. ASSUME NEW take PROVE Linked(Round(take)) /\ \A x \in Node : InHand(Round(take), x) = 0 /\ Owed(Round(take), x) = 0
  BY EmptyHandedMoves DEF Round, EmptyHanded
<1> QED BY <1>1, EmptyHandedMoves DEF Done, Claiming, EmptyHanded

\* A thread in one of these stages has nothing in hand.
LEMMA NothingInHand ==
  ASSUME Inv, Balanced, NEW t \in Worker, worker[t].pc \in {"claim", "return", "done"}
  PROVE  \A x \in Node : InHand(worker[t], x) = 0 /\ Owed(worker[t], x) = 0
<1>1. worker[t].path = <<>> /\ worker[t].descents = <<>>
  BY DEF Balanced, Linked
<1>2. ASSUME NEW x \in Node PROVE InHand(worker[t], x) = 0
  BY <1>1, OccOfNone, LoadOfNone DEF InHand
<1>3. \A x \in Node : Owed(worker[t], x) = 0
  BY DEF Owed
<1> QED BY <1>2, <1>3

-----------------------------------------------------------------------------
(* Steps that count nothing *)

LEMMA QuietStepsBalance ==
  ASSUME Inv, Inv', Balanced, NEW t \in Worker,
         \/ Claims(t) \/ ReturnsSims(t) \/ ReturnsTimed(t)
         \/ FindsOutcome(t) \/ FindsNothing(t) \/ ClaimsLeaf(t)
         \/ Publishes(t) \/ Releases(t) \/ Panics(t) \/ Evaluated(t) \/ AddsAgain(t)
  PROVE  Balanced'
<1> DEFINE th == worker[t]
<1>0. th \in Thread /\ Sane(th) /\ Linked(th)
  BY ThreadParts DEF Balanced
<1>1. CASE Claims(t) \/ ReturnsSims(t) \/ ReturnsTimed(t)
  <2>1. PICK thread : /\ Becomes(t, thread)
                      /\ thread \in {Done, Claiming, Round(Take), Round(Batch)}
    BY <1>1 DEF Claims, ReturnsSims, ReturnsTimed
  <2>2. UNCHANGED stats /\ th.pc \in {"claim", "return"}
    BY <1>1 DEF Claims, ReturnsSims, ReturnsTimed, At
  <2>3. \A x \in Node : InHand(th, x) = 0 /\ Owed(th, x) = 0
    BY <2>2, NothingInHand
  <2>4. Linked(thread) /\ \A x \in Node : InHand(thread, x) = 0 /\ Owed(thread, x) = 0
    BY <2>1, EmptyHands
  <2> QED BY <2>1, <2>2, <2>3, <2>4, NothingMoves
<1>2. ASSUME NEW claimed \in SUBSET Node, Becomes(t, RecordLeaf(th, claimed)),
             th.pc \in {"descend", "cas"}, th.path # <<>>, UNCHANGED stats
      PROVE  Balanced'
  <2>1. PICK nd : nd = RecordLeaf(th, claimed)
    OBVIOUS
  <2>2. /\ Linked(nd)
        /\ \A x \in Node : InHand(nd, x) = InHand(th, x) /\ Owed(nd, x) = Owed(th, x)
    BY <1>0, <1>2, <2>1, RecordLeafKeeps
  <2> QED BY <1>2, <2>1, <2>2, NothingMoves
<1>3. CASE FindsOutcome(t)
  <2>1. Root \notin tree.outcome
    BY RootAssumption, TreeAssumption DEF Inv, RootStands, Stuck
  <2>2. th.path # <<>>
    BY <1>0, <1>3, <2>1 DEF FindsOutcome, At, Linked, End
  <2> QED BY <1>2, <1>3, <2>2 DEF FindsOutcome, At
<1>4. CASE FindsNothing(t)
  <2>1. th.pc = "descend" /\ UNCHANGED stats /\ Root \in tree.edges
    BY <1>4 DEF FindsNothing, At, Inv, RootStands
  <2>2. CASE OwnClaim(t)
    <3>1. th.path # <<>>
      BY <1>0, <1>4, <2>1 DEF FindsNothing, Linked, End
    <3> QED BY <1>2, <1>4, <2>1, <2>2, <3>1 DEF FindsNothing
  <2>3. CASE ~OwnClaim(t)
    <3> DEFINE thread == [th EXCEPT !.pc = "cas"]
    <3>1. Becomes(t, thread)
      BY <1>4, <2>3 DEF FindsNothing
    <3>2. /\ thread.pc = "cas" /\ thread.path = th.path /\ thread.descents = th.descents
          /\ thread.node = th.node
      BY <1>0 DEF Thread
    <3> HIDE DEF thread
    <3> QED BY <2>1, <3>1, <3>2, StageMoves
  <2> QED BY <2>2, <2>3
<1>5. CASE ClaimsLeaf(t)
  <2>1. th.pc = "cas" /\ UNCHANGED stats /\ th.path # <<>> /\ {th.node} \in SUBSET Node
    BY <1>0, <1>5 DEF ClaimsLeaf, At, Sane
  <2> QED BY <1>2, <1>5, <2>1 DEF ClaimsLeaf
<1>6. CASE Publishes(t)
  <2>1. PICK leaf : Becomes(t, [th EXCEPT !.pc = "release", !.node = leaf])
    BY <1>6 DEF Publishes
  <2>2. th.pc = "evaluate" /\ UNCHANGED stats
    BY <1>6 DEF Publishes, At
  <2> DEFINE thread == [th EXCEPT !.pc = "release", !.node = leaf]
  <2>3. thread.pc = "release" /\ thread.path = th.path /\ thread.descents = th.descents
    BY <1>0 DEF Thread
  <2> HIDE DEF thread
  <2> QED BY <2>1, <2>2, <2>3, StageMoves DEF thread
<1>7. CASE Releases(t)
  <2> DEFINE thread == [th EXCEPT !.pc = "evaluate", !.node = NoNode, !.pending = @ \ {th.node}]
  <2>1. Becomes(t, thread) /\ th.pc = "release" /\ UNCHANGED stats
    BY <1>7 DEF Releases, At
  <2>2. thread.pc = "evaluate" /\ thread.path = th.path /\ thread.descents = th.descents
    BY <1>0 DEF Thread
  <2> HIDE DEF thread
  <2> QED BY <2>1, <2>2, StageMoves
<1>8. CASE Panics(t)
  <2> DEFINE thread == [th EXCEPT !.pc = "panicked"]
  <2>1. Becomes(t, thread) /\ th.pc = "evaluate" /\ UNCHANGED stats
    BY <1>8 DEF Panics, At
  <2>2. thread.pc = "panicked" /\ thread.path = th.path /\ thread.descents = th.descents
    BY <1>0 DEF Thread
  <2> HIDE DEF thread
  <2> QED BY <2>1, <2>2, StageMoves
<1>9. CASE Evaluated(t)
  <2>1. PICK next : next = BackedUp(th)
    OBVIOUS
  <2>2. Becomes(t, next) /\ th.pc = "evaluate" /\ UNCHANGED stats
    BY <1>9, <2>1 DEF Evaluated, At
  <2>3. /\ th.path = <<>> /\ th.descents \in Seq(Descent)
        /\ \A i \in 1..Len(th.descents) :
             /\ LeadsDown(th.descents[i]) /\ FromRoot(th.descents[i].path)
             /\ th.descents[i].path # <<>>
    BY <1>0, <2>2 DEF Linked, Sane, Thread
  <2>4. /\ Linked(next)
        /\ \A x \in Node : InHand(next, x) = Load(th.descents, x)
        /\ \A x \in Node \ {Root} :
             Owed(next, x) =
               IF th.descents # <<>> /\ th.descents[1].path # <<>>
                  /\ th.descents[1].path[1] \in Kids[x]
               THEN Value[th.descents[1].leaf] - Value[x] ELSE 0
    BY <1>0, <2>1, <2>3, BackedUpKeeps
  <2>5. \A x \in Node \ {Root} : Owed(next, x) = Owed(th, x)
    <3> TAKE x \in Node \ {Root}
    <3>1. th.descents # <<>> => 1 \in 1..Len(th.descents)
      BY <2>3
    <3>2. th.descents # <<>> => th.descents[1].path[1] \in Kids[Root]
      BY <2>3, <3>1 DEF FromRoot
    <3>3. th.descents # <<>> => th.descents[1].path[1] \notin Kids[x]
      BY <3>2, ShapeAssumption, TreeAssumption
    <3>4. Owed(th, x) = 0
      BY <2>2 DEF Owed
    <3> QED BY <2>4, <3>3, <3>4
  <2>6. \A x \in Node : InHand(next, x) = InHand(th, x)
    <3> TAKE x \in Node
    <3>1. Load(th.descents, x) \in Int
      BY <2>3, LoadIsInt
    <3>2. InHand(th, x) = Load(th.descents, x)
      BY <2>3, <3>1, OccOfNone DEF InHand
    <3> QED BY <2>4, <3>2
  <2> QED BY <2>2, <2>4, <2>5, <2>6, NothingMoves
<1>10. CASE AddsAgain(t)
  <2> DEFINE sum == w[Edge(t)]
             thread == [th EXCEPT !.pc = "add", !.seen = sum]
  <2>1. Becomes(t, thread) /\ th.pc = "add" /\ UNCHANGED stats
    BY <1>10 DEF AddsAgain, Loaded, At
  <2>2. thread.pc = "add" /\ thread.path = th.path /\ thread.descents = th.descents
    <3> HIDE DEF sum
    <3> QED BY <1>0 DEF Thread
  <2> HIDE DEF thread
  <2>3. Linked(thread)
    BY <1>0, <2>1, <2>2 DEF Linked
  <2>4. \A x \in Node : InHand(thread, x) = InHand(th, x) /\ Owed(thread, x) = Owed(th, x)
    BY <2>1, <2>2 DEF InHand, Owed
  <2> QED BY <2>1, <2>3, <2>4, NothingMoves
<1> QED BY <1>1, <1>3, <1>4, <1>5, <1>6, <1>7, <1>8, <1>9, <1>10

-----------------------------------------------------------------------------
(* Steps that count *)

LEMMA Distributes ==
  ASSUME NEW a \in Int, NEW b \in Int, NEW c \in Int
  PROVE  a * (b + c) = a * b + a * c
BY Z3

\* f and g are counters of the nodes, and d has been added to that of k.
MovesBy(f, g, k, d) ==
  /\ f \in [Node -> Int] /\ k \in Node /\ d \in Int
  /\ g = [f EXCEPT ![k] = f[k] + d]

LEMMA KidSumMoves ==
  ASSUME NEW f, NEW g, NEW k, NEW d, MovesBy(f, g, k, d), NEW x \in Node
  PROVE  /\ SumOn(g, Kids[x]) = SumOn(f, Kids[x]) + (IF k \in Kids[x] THEN d ELSE 0)
         /\ g[x] = f[x] + (IF x = k THEN d ELSE 0)
         /\ SumOn(f, Kids[x]) \in Int /\ f[x] \in Int
<1>1. Kids[x] \subseteq Node /\ IsFiniteSet(Kids[x])
  BY ShapeAssumption, TreeAssumption
<1>2. \A y \in Node : f[y] \in Int /\ g[y] \in Int /\ (y # k => g[y] = f[y])
  BY DEF MovesBy
<1>3. g[k] = f[k] + d /\ d \in Int /\ k \in Node
  BY DEF MovesBy
<1>4. SumOn(f, Kids[x]) \in Int
  BY <1>1, <1>2, SumIsInt
<1>5. CASE k \in Kids[x]
  <2>1. ApartAt(k, f, g, Kids[x])
    BY <1>1, <1>2, <1>5 DEF ApartAt
  <2>2. SumOn(g, Kids[x]) = SumOn(f, Kids[x]) + g[k] - f[k]
    BY <2>1, SumWithOneChanged
  <2> QED BY <1>2, <1>3, <1>4, <1>5, <2>2
<1>6. CASE k \notin Kids[x]
  <2>1. \A y \in Kids[x] : f[y] = g[y]
    BY <1>1, <1>2, <1>6
  <2>2. SumOn(f, Kids[x]) = SumOn(g, Kids[x])
    BY <1>1, <2>1, SameSum
  <2> QED BY <1>2, <1>3, <1>4, <1>6, <2>2
<1> QED BY <1>5, <1>6

LEMMA WalksBalances ==
  ASSUME Inv, Inv', Balanced, NEW t \in Worker, Walks(t)
  PROVE  Balanced'
<1> DEFINE th == worker[t]
           node == th.node
<1>1. PICK kid \in Kids[node] :
        /\ vl' = [vl EXCEPT ![kid] = @ + 1]
        /\ Becomes(t, [th EXCEPT !.pc = "descend", !.node = kid, !.path = Append(@, kid)])
  BY DEF Walks
<1>2. /\ th.pc = "descend" /\ flights' = [flights EXCEPT ![node] = @ + 1]
      /\ visits' = visits /\ n' = n /\ w' = w
  BY DEF Walks, At
<1>3. /\ th \in Thread /\ Sane(th) /\ Linked(th) /\ node \in Node
      /\ th.path \in Seq(Node) /\ th.descents \in Seq(Descent)
  BY <1>2, ThreadParts DEF Balanced, Sane
<1>4. kid \in Node
  BY <1>3, TreeAssumption
<1> DEFINE path == Append(th.path, kid)
           thread == [th EXCEPT !.pc = "descend", !.node = kid, !.path = path]
<1>5. path \in Seq(Node) /\ Len(path) = Len(th.path) + 1 /\ path[Len(path)] = kid
      /\ path # <<>> /\ \A i \in 1..Len(th.path) : path[i] = th.path[i]
  BY <1>3, <1>4
<1>6. \A x \in Node : Occ(path, x) = Occ(th.path, x) + (IF kid = x THEN 1 ELSE 0)
  BY <1>3, <1>4, OccOfLonger
<1>7. node = End(th.path)
  BY <1>2, <1>3 DEF Linked
<1>8. Chained(path) /\ FromRoot(path) /\ End(path) = kid
  <2>1. Chained(th.path) /\ FromRoot(th.path) /\ Len(th.path) \in Nat
    BY <1>3 DEF Linked
  <2> HIDE DEF path
  <2>2. ASSUME NEW i \in 2..Len(path) PROVE path[i] \in Kids[path[i - 1]]
    <3>1. CASE i = Len(path)
      <4>1. Len(th.path) >= 1 /\ i - 1 = Len(th.path) /\ th.path # <<>>
        BY <1>3, <1>5, <2>1, <3>1
      <4>2. path[i - 1] = node
        BY <1>5, <1>7, <4>1 DEF End
      <4> QED BY <1>5, <3>1, <4>2
    <3>2. CASE i # Len(path)
      <4>1. i \in 2..Len(th.path) /\ i \in 1..Len(th.path) /\ i - 1 \in 1..Len(th.path)
        BY <1>5, <2>1, <3>2
      <4> QED BY <1>5, <2>1, <4>1 DEF Chained
    <3> QED BY <3>1, <3>2
  <2>3. path[1] \in Kids[Root]
    <3>1. CASE th.path = <<>>
      BY <1>3, <1>5, <1>7, <3>1 DEF End
    <3>2. CASE th.path # <<>>
      <4>1. 1 \in 1..Len(th.path)
        BY <1>3, <3>2
      <4> QED BY <1>5, <2>1, <3>2, <4>1 DEF FromRoot
    <3> QED BY <3>1, <3>2
  <2> QED BY <1>5, <2>2, <2>3 DEF Chained, FromRoot, End
<1> HIDE DEF path
<1>9. thread.pc = "descend" /\ thread.node = kid /\ thread.path = path
      /\ thread.descents = th.descents
  BY <1>3 DEF Thread
<1>10. Becomes(t, thread)
  BY <1>1 DEF path
<1> HIDE DEF thread
<1>11. worker'[t] = thread /\ \A u \in Worker \ {t} : worker'[u] = worker[u]
  BY <1>10, BecomesParts
<1>12. Linked(thread)
  BY <1>2, <1>3, <1>8, <1>9 DEF Linked
<1>13. ASSUME NEW x \in Node
       PROVE  InHand(thread, x) = InHand(th, x) + (IF kid = x THEN 1 ELSE 0)
  <2>1. Load(th.descents, x) \in Int /\ Occ(th.path, x) \in Int
    BY <1>3, LoadIsInt, OccsAreInts
  <2> QED BY <1>6, <1>9, <2>1 DEF InHand
<1>14. \A x \in Node : Owed(thread, x) = 0 /\ Owed(th, x) = 0
  BY <1>2, <1>9 DEF Owed
<1>15. MovesBy(vl, vl', kid, 1) /\ MovesBy(flights, flights', node, 1)
  <2>1. vl \in [Node -> Int] /\ flights \in [Node -> Int] /\ 1 \in Int
    BY DEF Inv, TypeOK
  <2> HIDE DEF node
  <2>2. vl' = [vl EXCEPT ![kid] = vl[kid] + 1] /\ flights' = [flights EXCEPT ![node] = flights[node] + 1]
    BY <1>1, <1>2 DEF node
  <2> QED BY <1>3, <1>4, <2>1, <2>2 DEF MovesBy
<1>16. \A u \in Worker : Linked(worker'[u])
  BY <1>11, <1>12 DEF Balanced
<1>17. ASSUME NEW x \in Node PROVE vl'[x] = Flying(x)'
  <2>1. Flying(x) \in Int /\ Flying(x)' = Flying(x) + InHand(thread, x) - InHand(th, x)
    BY <1>11, SumsMove
  <2>2. InHand(th, x) \in Int
    BY ThreadSums
  <2>3. vl'[x] = vl[x] + (IF x = kid THEN 1 ELSE 0)
    BY <1>15, KidSumMoves
  <2>4. vl[x] = Flying(x)
    BY DEF Balanced
  <2> QED BY <1>13, <2>1, <2>2, <2>3, <2>4
<1>18. ASSUME NEW x \in Node PROVE flights'[x] = SumOn(vl', Kids[x])
  <2>1. /\ flights'[x] = flights[x] + (IF x = node THEN 1 ELSE 0)
        /\ SumOn(vl', Kids[x]) = SumOn(vl, Kids[x]) + (IF kid \in Kids[x] THEN 1 ELSE 0)
    BY <1>15, KidSumMoves
  <2>2. kid \in Kids[x] <=> x = node
    BY <1>3, ShapeAssumption
  <2>3. flights[x] = SumOn(vl, Kids[x])
    BY DEF Balanced
  <2> QED BY <2>1, <2>2, <2>3
<1>19. ASSUME NEW x \in Node \ {Root} PROVE Owing(x)' = Owing(x)
  <2>1. Owing(x) \in Int /\ Owing(x)' = Owing(x) + Owed(thread, x) - Owed(th, x)
    BY <1>11, SumsMove
  <2> QED BY <1>14, <2>1
<1>20. /\ \A x \in Node : visits'[x] = SumOn(n', Kids[x])
       /\ \A x \in Node \ {Root} :
            w'[x] = SumOn(w', Kids[x]) + Value[x] * (n'[x] - visits'[x]) + Owing(x)'
  BY <1>2, <1>19 DEF Balanced
<1> QED BY <1>16, <1>17, <1>18, <1>20 DEF Balanced

LEMMA CollidesBalances ==
  ASSUME Inv, Inv', Balanced, NEW t \in Worker, Collides(t)
  PROVE  Balanced'
<1> DEFINE th == worker[t]
           path == th.path
<1>1. /\ th.pc = "cas" /\ vl' = Undone(vl, path) /\ flights' = Undone(flights, Parents(path))
      /\ visits' = visits /\ n' = n /\ w' = w
      /\ Becomes(t, NextDescent(th))
  BY DEF Collides, At
<1>2. /\ th \in Thread /\ Sane(th) /\ Linked(th)
      /\ path \in Seq(Node) /\ th.descents \in Seq(Descent)
  BY ThreadParts DEF Balanced
<1>3. PICK nd : nd = NextDescent(th)
  OBVIOUS
<1>4. \A i \in 1..Len(th.descents) : LeadsDown(th.descents[i]) /\ FromRoot(th.descents[i].path)
  BY <1>1, <1>2, WholeDescents
<1>5. /\ Linked(nd)
      /\ \A x \in Node : InHand(nd, x) = Load(th.descents, x) /\ Owed(nd, x) = 0
  BY <1>2, <1>3, <1>4, NextDescentKeeps
<1>6. worker'[t] = nd /\ \A u \in Worker \ {t} : worker'[u] = worker[u]
  BY <1>1, <1>3, BecomesParts
<1>7. \A x \in Node : Owed(th, x) = 0
  BY <1>1 DEF Owed
<1>8. \A u \in Worker : Linked(worker'[u])
  BY <1>5, <1>6 DEF Balanced
<1>9. /\ \A x \in Node : vl'[x] = vl[x] - Occ(path, x)
      /\ \A x \in Node : flights'[x] = flights[x] - Occ(Parents(path), x)
  BY <1>1 DEF Undone, Occ
<1>10. \A x \in Node : Occ(path, x) \in Int
  BY <1>2, OccsAreInts
<1>11. ASSUME NEW x \in Node PROVE vl'[x] = Flying(x)'
  <2>1. Flying(x) \in Int /\ Flying(x)' = Flying(x) + InHand(nd, x) - InHand(th, x)
    BY <1>6, SumsMove
  <2>2. InHand(th, x) = Occ(path, x) + Load(th.descents, x) /\ Load(th.descents, x) \in Int
    BY <1>2, LoadIsInt DEF InHand
  <2>3. vl[x] = Flying(x)
    BY DEF Balanced
  <2> QED BY <1>5, <1>9, <1>10, <2>1, <2>2, <2>3
<1>12. ASSUME NEW x \in Node PROVE flights'[x] = SumOn(vl', Kids[x])
  <2> DEFINE o == [kid \in Node |-> Occ(path, kid)]
  <2>1. SumOn(o, Kids[x]) = Occ(Parents(path), x)
    BY <1>2, PathThroughKids DEF Linked
  <2>2. \A k \in Kids[x] : k \in Node
    BY CountersAreInts
  <2>3. \A k \in Kids[x] : vl[k] \in Int /\ o[k] \in Int /\ vl'[k] = vl[k] - o[k]
    BY <1>9, <1>10, <2>2, CountersAreInts
  <2>4. IsFiniteSet(Kids[x])
    BY CountersAreInts
  <2> HIDE DEF o
  <2>5. SumOn(vl', Kids[x]) = SumOn(vl, Kids[x]) - SumOn(o, Kids[x])
    BY <2>3, <2>4, SumOfDifference
  <2>6. flights[x] = SumOn(vl, Kids[x])
    BY DEF Balanced
  <2> QED BY <1>9, <2>1, <2>5, <2>6
<1>13. ASSUME NEW x \in Node \ {Root} PROVE Owing(x)' = Owing(x)
  <2>1. Owing(x) \in Int /\ Owing(x)' = Owing(x) + Owed(nd, x) - Owed(th, x)
    BY <1>6, SumsMove
  <2> QED BY <1>5, <1>7, <2>1
<1>14. /\ \A x \in Node : visits'[x] = SumOn(n', Kids[x])
       /\ \A x \in Node \ {Root} :
            w'[x] = SumOn(w', Kids[x]) + Value[x] * (n'[x] - visits'[x]) + Owing(x)'
  BY <1>1, <1>13 DEF Balanced
<1> QED BY <1>8, <1>11, <1>12, <1>14 DEF Balanced

\* The edge a thread is backing up, and the node it leaves.
LEMMA EdgeParts ==
  ASSUME Inv, Balanced, NEW t \in Worker, worker[t].pc \in {"count", "add"}
  PROVE  /\ worker[t].descents \in Seq(Descent) /\ worker[t].descents # <<>>
         /\ worker[t].descents[1].path \in Seq(Node) /\ worker[t].descents[1].path # <<>>
         /\ Edge(t) = worker[t].descents[1].path[1] /\ Edge(t) \in Node
         /\ Leaf(t) = worker[t].descents[1].leaf /\ Value[Leaf(t)] \in Int
         /\ Parent(Edge(t)) \in Node
         /\ \A x \in Node : Edge(t) \in Kids[x] <=> x = Parent(Edge(t))
<1> DEFINE ds == worker[t].descents
<1>1. ds \in Seq(Descent) /\ ds # <<>> /\ Linked(worker[t])
      /\ \A i \in 1..Len(ds) : ds[i].path # <<>>
  BY ThreadParts, EdgeIsANode DEF Balanced
<1>2. Head(ds) = ds[1] /\ ds[1] \in Descent /\ 1 \in 1..Len(ds)
  BY <1>1
<1>3. ds[1].path \in Seq(Node) /\ ds[1].path # <<>> /\ ds[1].leaf \in Node
  BY <1>1, <1>2 DEF Descent
<1>4. Head(ds[1].path) = ds[1].path[1] /\ ds[1].path[1] \in Node
  BY <1>3
<1>5. Edge(t) = ds[1].path[1] /\ Leaf(t) = ds[1].leaf
  BY <1>2, <1>4 DEF Edge, Leaf
<1>6. \E x \in Node : Edge(t) \in Kids[x]
  BY <1>1, <1>2, <1>3, <1>5 DEF Linked, LeadsDown, HasParent
<1>7. Parent(Edge(t)) \in Node /\ Edge(t) \in Kids[Parent(Edge(t))]
  BY <1>6 DEF Parent
<1>8. \A x \in Node : Edge(t) \in Kids[x] => x = Parent(Edge(t))
  BY <1>7, ShapeAssumption
<1> QED BY <1>1, <1>3, <1>4, <1>5, <1>7, <1>8, TreeAssumption

LEMMA CountsBalances ==
  ASSUME Inv, Inv', Balanced, NEW t \in Worker, Counts(t)
  PROVE  Balanced'
<1> DEFINE th == worker[t]
           k == Edge(t)
           p == Parent(k)
           v == Value[Leaf(t)]
           sum == w[k]
           thread == [th EXCEPT !.pc = "add", !.seen = sum]
<1>1. /\ th.pc = "count" /\ visits' = [visits EXCEPT ![p] = @ + 1]
      /\ n' = [n EXCEPT ![k] = @ + 1] /\ Becomes(t, thread)
      /\ flights' = flights /\ vl' = vl /\ w' = w
  BY DEF Counts, At, Loaded
<1>2. th \in Thread /\ Sane(th) /\ Linked(th)
  BY ThreadParts DEF Balanced
<1>3. /\ k \in Node /\ p \in Node /\ v \in Int
      /\ \A x \in Node : k \in Kids[x] <=> x = p
      /\ k = th.descents[1].path[1] /\ Leaf(t) = th.descents[1].leaf
  BY <1>1, EdgeParts
<1>4. Edge(t) = Head(Head(th.descents).path) /\ Leaf(t) = Head(th.descents).leaf
  BY DEF Edge, Leaf
<1>5. thread.pc = "add" /\ thread.path = th.path /\ thread.descents = th.descents
  <2> HIDE DEF sum
  <2> QED BY <1>2 DEF Thread
<1> HIDE DEF thread
<1>6. worker'[t] = thread /\ \A u \in Worker \ {t} : worker'[u] = worker[u]
  BY <1>1, BecomesParts
<1>7. Linked(thread)
  BY <1>1, <1>2, <1>5 DEF Linked
<1>8. \A x \in Node : InHand(thread, x) = InHand(th, x)
  BY <1>5 DEF InHand
<1>9. ASSUME NEW x \in Node
      PROVE  /\ Owed(th, x) = IF x = p THEN v - Value[x] ELSE 0
             /\ Owed(thread, x) = (IF x = p THEN v ELSE 0) - (IF x = k THEN Value[x] ELSE 0)
  BY <1>1, <1>3, <1>4, <1>5 DEF Owed
<1>10. MovesBy(visits, visits', p, 1) /\ MovesBy(n, n', k, 1)
  BY <1>1, <1>3 DEF MovesBy, Inv, TypeOK
<1> HIDE DEF k, p, v, sum
<1>11. \A u \in Worker : Linked(worker'[u])
  BY <1>6, <1>7 DEF Balanced
<1>12. ASSUME NEW x \in Node PROVE Flying(x)' = Flying(x)
  <2>1. Flying(x) \in Int /\ Flying(x)' = Flying(x) + InHand(thread, x) - InHand(th, x)
    BY <1>6, SumsMove
  <2>2. InHand(th, x) \in Int
    BY ThreadSums
  <2> QED BY <1>8, <2>1, <2>2
<1>13. /\ \A x \in Node : vl'[x] = Flying(x)'
       /\ \A x \in Node : flights'[x] = SumOn(vl', Kids[x])
  BY <1>1, <1>12 DEF Balanced
<1>14. ASSUME NEW x \in Node PROVE visits'[x] = SumOn(n', Kids[x])
  <2>1. /\ visits'[x] = visits[x] + (IF x = p THEN 1 ELSE 0)
        /\ SumOn(n', Kids[x]) = SumOn(n, Kids[x]) + (IF k \in Kids[x] THEN 1 ELSE 0)
    BY <1>10, KidSumMoves
  <2>2. visits[x] = SumOn(n, Kids[x])
    BY DEF Balanced
  <2> QED BY <1>3, <2>1, <2>2
<1>15. ASSUME NEW x \in Node \ {Root}
       PROVE  w'[x] = SumOn(w', Kids[x]) + Value[x] * (n'[x] - visits'[x]) + Owing(x)'
  <2>1. Owing(x) \in Int /\ Owing(x)' = Owing(x) + Owed(thread, x) - Owed(th, x)
    BY <1>6, SumsMove
  <2>2. /\ visits'[x] = visits[x] + (IF x = p THEN 1 ELSE 0)
        /\ n'[x] = n[x] + (IF x = k THEN 1 ELSE 0)
    BY <1>10, KidSumMoves
  <2>3. Value[x] \in Int /\ visits[x] \in Int /\ n[x] \in Int /\ SumOn(w, Kids[x]) \in Int
    BY CountersAreInts, KidSumsAreInts
  <2>4. w[x] = SumOn(w, Kids[x]) + Value[x] * (n[x] - visits[x]) + Owing(x)
    BY DEF Balanced
  <2>5. Owed(thread, x) - Owed(th, x)
          = (IF x = p THEN Value[x] ELSE 0) - (IF x = k THEN Value[x] ELSE 0)
    BY <1>3, <1>9, <2>3
  <2> DEFINE d == n[x] - visits[x]
             e == (IF x = k THEN 1 ELSE 0) - (IF x = p THEN 1 ELSE 0)
  <2>6. n'[x] - visits'[x] = d + e /\ d \in Int /\ e \in Int
    BY <2>2, <2>3
  <2>7. Value[x] * (d + e) = Value[x] * d + Value[x] * e
    BY <2>3, <2>6, Distributes
  <2>8. Value[x] * e = (IF x = k THEN Value[x] ELSE 0) - (IF x = p THEN Value[x] ELSE 0)
    BY <2>3
  <2>9. Owing(x)' = Owing(x) - Value[x] * e
    <3>1. Owed(thread, x) \in Int /\ Owed(th, x) \in Int
      BY <1>3, <1>9, <2>3
    <3>2. Value[x] * e \in Int /\ Owed(thread, x) - Owed(th, x) = 0 - Value[x] * e
      BY <2>3, <2>5, <2>8
    <3> HIDE DEF e
    <3> QED BY <2>1, <3>1, <3>2
  <2>10. Value[x] * d \in Int /\ Value[x] * e \in Int
    BY <2>3, <2>6
  <2>11. w[x] = SumOn(w, Kids[x]) + Value[x] * d + Owing(x)
    BY <2>4
  <2> HIDE DEF d, e
  <2>12. PICK a \in Int, b \in Int : a = Value[x] * d /\ b = Value[x] * e
    BY <2>10
  <2>13. Value[x] * (n'[x] - visits'[x]) = a + b
    BY <2>6, <2>7, <2>12
  <2> QED BY <1>1, <2>1, <2>3, <2>9, <2>11, <2>12, <2>13
<1> QED BY <1>11, <1>13, <1>14, <1>15 DEF Balanced

LEMMA AddsBalances ==
  ASSUME Inv, Inv', Balanced, NEW t \in Worker, Adds(t)
  PROVE  Balanced'
<1> DEFINE th == worker[t]
           ds == th.descents
           k == Edge(t)
           p == Parent(k)
           v == Value[Leaf(t)]
           less == Shortened(ds)
           thread == [th EXCEPT !.descents = less, !.seen = 0]
<1>1. /\ th.pc = "add" /\ w[k] = th.seen
      /\ w' = [w EXCEPT ![k] = th.seen + v]
      /\ vl' = [vl EXCEPT ![k] = @ - 1] /\ flights' = [flights EXCEPT ![p] = @ - 1]
      /\ Becomes(t, BackedUp(thread)) /\ visits' = visits /\ n' = n
  BY DEF Adds, At, UnchangedSince
<1>2. th \in Thread /\ Sane(th) /\ Linked(th) /\ \A i \in 1..Len(ds) : ds[i].path # <<>>
  BY ThreadParts DEF Balanced, Sane
<1>3. /\ k \in Node /\ p \in Node /\ v \in Int
      /\ \A x \in Node : k \in Kids[x] <=> x = p
      /\ k = ds[1].path[1] /\ Leaf(t) = ds[1].leaf
      /\ ds \in Seq(Descent) /\ ds # <<>>
      /\ ds[1].path \in Seq(Node) /\ ds[1].path # <<>>
  BY <1>1, EdgeParts
<1>4. Edge(t) = Head(Head(ds).path) /\ Leaf(t) = Head(ds).leaf
  BY DEF Edge, Leaf
<1>5. /\ less \in Seq(Descent) /\ Len(less) = Len(ds)
      /\ \A i \in 1..Len(ds) : i # 1 => less[i] = ds[i]
      /\ less[1].path = Tail(ds[1].path) /\ less[1].leaf = ds[1].leaf
  BY <1>3, ShortenedParts
<1>6. Len(ds) \in Nat /\ Len(ds) >= 1 /\ 1 \in 1..Len(ds) /\ less # <<>>
  <2>1. Len(ds) \in Nat /\ Len(ds) >= 1
    BY <1>3
  <2>2. less # <<>>
    <3> HIDE DEF less, ds
    <3> QED BY <1>5, <2>1
  <2> QED BY <2>1, <2>2
<1>7. \A x \in Node : Load(less, x) = Load(ds, x) - (IF k = x THEN 1 ELSE 0)
  BY <1>3, LoadOfShortened
<1> HIDE DEF less
<1>8. thread \in Thread /\ thread.descents = less /\ thread.path = th.path
  <2>1. PICK zero \in Int : zero = 0
    OBVIOUS
  <2>2. thread = [th EXCEPT !.descents = less, !.seen = zero]
    BY <2>1
  <2> HIDE DEF thread
  <2>3. PICK old : old = th
    OBVIOUS
  <2>4. thread = [old EXCEPT !.descents = less, !.seen = zero] /\ old \in Thread
    BY <1>2, <2>2, <2>3
  <2>5. thread \in Thread /\ thread.descents = less /\ thread.path = old.path
    BY <1>5, <2>1, <2>4 DEF Thread
  <2> QED BY <2>3, <2>5
<1> HIDE DEF thread
<1>9. PICK next : next = BackedUp(thread)
  OBVIOUS
<1>10. th.path = <<>> /\ LeadsDown(ds[1]) /\ \A i \in 1..Len(ds) :
         LeadsDown(ds[i]) /\ (i > 1 => FromRoot(ds[i].path))
  BY <1>1, <1>2, <1>6 DEF Linked
\* What is left of the first descent leads on from k, or k is its leaf.
<1>11. /\ LeadsDown(less[1]) \/ less[1].path = <<>>
       /\ less[1].path = <<>> => ds[1].leaf = k
       /\ less[1].path # <<>> => less[1].path[1] \in Kids[k]
  <2> DEFINE path == ds[1].path
             rest == Tail(path)
  <2>1. Chained(path) /\ ds[1].leaf = End(path)
    BY <1>10 DEF LeadsDown
  <2>2. /\ rest \in Seq(Node) /\ Len(rest) = Len(path) - 1 /\ Len(path) \in Nat /\ Len(path) >= 1
        /\ \A i \in 1..Len(rest) : rest[i] = path[i + 1]
    BY <1>3
  <2>3. less[1].path = rest /\ less[1].leaf = ds[1].leaf /\ path # <<>> /\ k = path[1]
    BY <1>3, <1>5
  <2> HIDE DEF rest, path
  <2>4. CASE rest = <<>>
    <3>1. Len(path) = 1
      BY <2>2, <2>4
    <3> QED BY <2>1, <2>3, <2>4, <3>1 DEF End
  <2>5. CASE rest # <<>>
    <3>1. Len(rest) >= 1 /\ 1 \in 1..Len(rest) /\ 2 \in 2..Len(path)
      BY <2>2, <2>5
    <3>2. rest[1] = path[2] /\ rest[1] \in Kids[k]
      <4>1. rest[1] = path[1 + 1]
        BY <2>2, <3>1
      <4>2. path[2] \in Kids[path[2 - 1]]
        BY <2>1, <3>1 DEF Chained
      <4> QED BY <2>3, <4>1, <4>2
    <3>3. ASSUME NEW i \in 2..Len(rest) PROVE rest[i] \in Kids[rest[i - 1]]
      <4>1. i \in 1..Len(rest) /\ i - 1 \in 1..Len(rest) /\ i + 1 \in 2..Len(path)
            /\ (i - 1) + 1 = (i + 1) - 1
        BY <2>2
      <4>2. rest[i] = path[i + 1] /\ rest[i - 1] = path[(i - 1) + 1]
        BY <2>2, <4>1
      <4>3. path[i + 1] \in Kids[path[(i + 1) - 1]]
        BY <2>1, <4>1 DEF Chained
      <4> QED BY <4>1, <4>2, <4>3
    <3>4. End(rest) = End(path)
      <4>1. Len(rest) \in 1..Len(rest) /\ Len(rest) + 1 = Len(path)
        BY <2>2, <3>1
      <4>2. rest[Len(rest)] = path[Len(path)]
        BY <2>2, <4>1
      <4> QED BY <2>3, <2>5, <4>2 DEF End
    <3>5. LeadsDown(less[1])
      BY <1>3, <2>1, <2>3, <3>2, <3>3, <3>4 DEF LeadsDown, Chained, HasParent
    <3> QED BY <2>3, <2>5, <3>2, <3>5
  <2> QED BY <2>4, <2>5
<1>12. \A i \in 1..Len(less) :
         /\ LeadsDown(less[i]) \/ less[i].path = <<>>
         /\ i > 1 => FromRoot(less[i].path) /\ less[i].path # <<>>
  <2> TAKE i \in 1..Len(less)
  <2>1. CASE i = 1
    BY <1>11, <2>1
  <2>2. CASE i # 1
    <3>1. i \in 1..Len(ds) /\ i > 1 /\ less[i] = ds[i]
      BY <1>5, <1>6, <2>2
    <3> QED BY <1>2, <1>10, <3>1
  <2> QED BY <2>1, <2>2
<1>13. /\ Linked(next)
       /\ \A x \in Node : InHand(next, x) = Load(less, x)
       /\ \A x \in Node \ {Root} :
            Owed(next, x) =
              IF less # <<>> /\ less[1].path # <<>> /\ less[1].path[1] \in Kids[x]
              THEN Value[less[1].leaf] - Value[x] ELSE 0
  BY <1>8, <1>9, <1>10, <1>12, BackedUpKeeps
<1>14. worker'[t] = next /\ \A u \in Worker \ {t} : worker'[u] = worker[u]
  BY <1>1, <1>9, BecomesParts
<1>15. ASSUME NEW x \in Node PROVE InHand(next, x) = InHand(th, x) - (IF k = x THEN 1 ELSE 0)
  <2>1. Load(ds, x) \in Int
    BY <1>3, LoadIsInt
  <2>2. InHand(th, x) = Occ(<<>>, x) + Load(ds, x)
    BY <1>10 DEF InHand
  <2> HIDE DEF k, ds
  <2> QED BY <1>7, <1>13, <2>1, <2>2, OccOfNone
<1>16. ASSUME NEW x \in Node \ {Root}
       PROVE  /\ Owed(th, x) = (IF x = p THEN v ELSE 0) - (IF x = k THEN Value[x] ELSE 0)
              /\ Owed(next, x) = IF x = k THEN v - Value[x] ELSE 0
  <2>1. Owed(th, x) = (IF x = p THEN v ELSE 0) - (IF x = k THEN Value[x] ELSE 0)
    BY <1>1, <1>3, <1>4 DEF Owed
  <2>2. v = Value[less[1].leaf]
    BY <1>3, <1>5
  <2>3. Value[x] \in Int
    BY TreeAssumption
  <2>4. CASE less[1].path = <<>>
    <3>1. v = Value[k]
      BY <1>3, <1>11, <2>4
    <3> HIDE DEF k, v
    <3> QED BY <1>13, <2>1, <2>3, <2>4, <3>1
  <2>5. CASE less[1].path # <<>>
    <3>1. less[1].path[1] \in Kids[x] <=> x = k
      <4>1. less[1].path[1] \in Kids[k] /\ k \in Node
        BY <1>3, <1>11, <2>5
      <4> HIDE DEF k
      <4> QED BY <4>1, ShapeAssumption
    <3> HIDE DEF k, v
    <3> QED BY <1>6, <1>13, <2>1, <2>2, <2>5, <3>1
  <2> QED BY <2>4, <2>5
<1>17. \A u \in Worker : Linked(worker'[u])
  BY <1>13, <1>14 DEF Balanced
<1>18. /\ MovesBy(vl, vl', k, -1) /\ MovesBy(flights, flights', p, -1) /\ MovesBy(w, w', k, v)
  <2>1. vl \in [Node -> Int] /\ flights \in [Node -> Int] /\ w \in [Node -> Int] /\ -1 \in Int
    BY DEF Inv, TypeOK
  <2> HIDE DEF k, p, v
  <2>2. vl' = [vl EXCEPT ![k] = vl[k] + (-1)] /\ flights' = [flights EXCEPT ![p] = flights[p] + (-1)]
    <3>1. vl[k] \in Int /\ flights[p] \in Int
      BY <1>3, <2>1
    <3>2. vl[k] - 1 = vl[k] + (-1) /\ flights[p] - 1 = flights[p] + (-1)
      BY <3>1
    <3> QED BY <1>1, <3>2
  <2>3. w' = [w EXCEPT ![k] = w[k] + v]
    BY <1>1
  <2>4. k \in Node /\ p \in Node /\ v \in Int
    BY <1>3
  <2> QED BY <2>1, <2>2, <2>3, <2>4 DEF MovesBy
<1> HIDE DEF k, p, v, ds
<1>19. ASSUME NEW x \in Node PROVE vl'[x] = Flying(x)'
  <2>1. Flying(x) \in Int /\ Flying(x)' = Flying(x) + InHand(next, x) - InHand(th, x)
    BY <1>14, SumsMove
  <2>2. InHand(th, x) \in Int
    BY ThreadSums
  <2>3. vl'[x] = vl[x] + (IF x = k THEN -1 ELSE 0)
    BY <1>18, KidSumMoves
  <2>4. vl[x] = Flying(x)
    BY DEF Balanced
  <2> QED BY <1>15, <2>1, <2>2, <2>3, <2>4
<1>20. ASSUME NEW x \in Node PROVE flights'[x] = SumOn(vl', Kids[x])
  <2>1. /\ flights'[x] = flights[x] + (IF x = p THEN -1 ELSE 0)
        /\ SumOn(vl', Kids[x]) = SumOn(vl, Kids[x]) + (IF k \in Kids[x] THEN -1 ELSE 0)
    BY <1>18, KidSumMoves
  <2>2. flights[x] = SumOn(vl, Kids[x])
    BY DEF Balanced
  <2> QED BY <1>3, <2>1, <2>2
<1>21. \A x \in Node : visits'[x] = SumOn(n', Kids[x])
  BY <1>1 DEF Balanced
<1>22. ASSUME NEW x \in Node \ {Root}
       PROVE  w'[x] = SumOn(w', Kids[x]) + Value[x] * (n'[x] - visits'[x]) + Owing(x)'
  <2>1. Owing(x) \in Int /\ Owing(x)' = Owing(x) + Owed(next, x) - Owed(th, x)
    BY <1>14, SumsMove
  <2>2. /\ w'[x] = w[x] + (IF x = k THEN v ELSE 0)
        /\ SumOn(w', Kids[x]) = SumOn(w, Kids[x]) + (IF k \in Kids[x] THEN v ELSE 0)
    BY <1>18, KidSumMoves
  <2>3. Value[x] \in Int /\ visits[x] \in Int /\ n[x] \in Int /\ SumOn(w, Kids[x]) \in Int
        /\ w[x] \in Int
    BY CountersAreInts, KidSumsAreInts
  <2>4. w[x] = SumOn(w, Kids[x]) + Value[x] * (n[x] - visits[x]) + Owing(x)
    BY DEF Balanced
  <2>5. PICK a \in Int : a = Value[x] * (n[x] - visits[x])
    BY <2>3
  <2>6. Value[x] * (n'[x] - visits'[x]) = a
    BY <1>1, <2>5
  <2>7. Owed(next, x) - Owed(th, x) = (IF x = k THEN v ELSE 0) - (IF x = p THEN v ELSE 0)
        /\ Owed(next, x) \in Int /\ Owed(th, x) \in Int
    BY <1>3, <1>16, <2>3
  <2>8. k \in Kids[x] <=> x = p
    BY <1>3
  <2>9. PICK o \in Int, o1 \in Int, o2 \in Int, s \in Int :
          /\ o = Owing(x) /\ o1 = Owed(next, x) /\ o2 = Owed(th, x) /\ s = SumOn(w, Kids[x])
    BY <2>1, <2>3, <2>7
  <2>10. /\ w[x] = s + a + o /\ Owing(x)' = o + o1 - o2
         /\ SumOn(w', Kids[x]) = s + (IF x = p THEN v ELSE 0)
    BY <2>1, <2>2, <2>4, <2>5, <2>8, <2>9
  <2>11. o1 - o2 = (IF x = k THEN v ELSE 0) - (IF x = p THEN v ELSE 0)
    BY <2>7, <2>9
  <2>12. w'[x] = s + a + o + (IF x = k THEN v ELSE 0)
    BY <2>2, <2>10
  <2>13. v \in Int
    BY <1>3
  <2> QED BY <2>6, <2>9, <2>10, <2>11, <2>12, <2>13
<1> QED BY <1>17, <1>19, <1>20, <1>21, <1>22 DEF Balanced

-----------------------------------------------------------------------------
LEMMA StartsBalances ==
  ASSUME Inv, Inv', Balanced, NEW mode \in {"sims", "timed"}, Starts(mode)
  PROVE  Balanced'
<1>1. UNCHANGED stats /\ \A t \in Worker : worker[t].pc = "done"
  BY DEF Starts, Inv, IdleMeansDone, At
<1>2. \A t \in Worker : \A x \in Node : InHand(worker[t], x) = 0 /\ Owed(worker[t], x) = 0
  BY <1>1, NothingInHand
<1>3. \A t \in Worker : worker'[t] \in {Claiming, Round(Batch)}
  BY DEF Starts
<1>4. /\ \A t \in Worker : Linked(worker'[t])
      /\ \A t \in Worker : \A x \in Node : InHand(worker'[t], x) = 0 /\ Owed(worker'[t], x) = 0
  BY <1>3, EmptyHands
<1>5. ASSUME NEW x \in Node PROVE Flying(x)' = Flying(x) /\ Owing(x)' = Owing(x)
  <2>1. /\ [t \in Worker |-> InHand(worker'[t], x)] = [t \in Worker |-> InHand(worker[t], x)]
        /\ [t \in Worker |-> Owed(worker'[t], x)] = [t \in Worker |-> Owed(worker[t], x)]
    BY <1>2, <1>4
  <2> QED BY <2>1 DEF Flying, Owing
<1>6. vl' = vl /\ flights' = flights /\ visits' = visits /\ n' = n /\ w' = w
  BY <1>1 DEF stats
<1>7. /\ \A x \in Node : vl'[x] = Flying(x)'
      /\ \A x \in Node : flights'[x] = SumOn(vl', Kids[x])
      /\ \A x \in Node : visits'[x] = SumOn(n', Kids[x])
      /\ \A x \in Node \ {Root} :
           w'[x] = SumOn(w', Kids[x]) + Value[x] * (n'[x] - visits'[x]) + Owing(x)'
  BY <1>5, <1>6 DEF Balanced
<1> QED BY <1>4, <1>7 DEF Balanced

LEMMA NothingChanges ==
  ASSUME Balanced, UNCHANGED <<stats, worker>>
  PROVE  Balanced'
<1>1. vl' = vl /\ flights' = flights /\ visits' = visits /\ n' = n /\ w' = w /\ worker' = worker
  BY DEF stats
<1>2. \A x : Flying(x)' = Flying(x) /\ Owing(x)' = Owing(x)
  BY <1>1 DEF Flying, Owing
<1>3. /\ \A t \in Worker : Linked(worker'[t])
      /\ \A x \in Node : vl'[x] = Flying(x)'
      /\ \A x \in Node : flights'[x] = SumOn(vl', Kids[x])
      /\ \A x \in Node : visits'[x] = SumOn(n', Kids[x])
      /\ \A x \in Node \ {Root} :
           w'[x] = SumOn(w', Kids[x]) + Value[x] * (n'[x] - visits'[x]) + Owing(x)'
  BY <1>1, <1>2 DEF Balanced
<1> QED BY <1>3 DEF Balanced

LEMMA InitBalances == Init => Balanced
<1> SUFFICES ASSUME Init PROVE Balanced
  OBVIOUS
<1>1. \A t \in Worker : worker[t] = Done
  BY DEF Init
<1>2. vl = Zero /\ flights = Zero /\ visits = Zero /\ n = Zero /\ w = Zero
  BY DEF Init
<1>3. \A x \in Node : Zero[x] = 0
  BY DEF Zero
<1>4. ASSUME NEW x \in Node PROVE SumOn(Zero, Kids[x]) = 0
  <2>1. IsFiniteSet(Kids[x]) /\ \A k \in Kids[x] : Zero[k] = 0
    BY <1>3, ShapeAssumption, TreeAssumption
  <2> QED BY <2>1, SumOfZeros
<1>5. ASSUME NEW x \in Node PROVE Flying(x) = 0 /\ Owing(x) = 0
  <2>1. IsFiniteSet(Worker)
    BY ShapeAssumption
  <2> DEFINE f == [t \in Worker |-> InHand(worker[t], x)]
             g == [t \in Worker |-> Owed(worker[t], x)]
  <2>2. \A t \in Worker : f[t] = 0 /\ g[t] = 0
    BY <1>1, EmptyHands
  <2>3. Flying(x) = SumOn(f, Worker) /\ Owing(x) = SumOn(g, Worker)
    BY DEF Flying, Owing
  <2> HIDE DEF f, g
  <2>4. SumOn(f, Worker) = 0 /\ SumOn(g, Worker) = 0
    BY <2>1, <2>2, SumOfZeros
  <2> QED BY <2>3, <2>4
<1>6. \A t \in Worker : Linked(worker[t])
  BY <1>1, EmptyHands
<1>7. \A x \in Node \ {Root} :
        w[x] = SumOn(w, Kids[x]) + Value[x] * (n[x] - visits[x]) + Owing(x)
  <2> TAKE x \in Node \ {Root}
  <2>1. Value[x] \in Int
    BY TreeAssumption
  <2>2. Value[x] * (0 - 0) = 0
    BY <2>1
  <2> QED BY <1>2, <1>3, <1>4, <1>5, <2>2
<1> QED BY <1>2, <1>3, <1>4, <1>5, <1>6, <1>7 DEF Balanced

LEMMA StepBalances == Inv /\ Inv' /\ Balanced /\ [Next]_vars => Balanced'
<1> SUFFICES ASSUME Inv, Inv', Balanced, [Next]_vars PROVE Balanced'
  OBVIOUS
<1>1. CASE UNCHANGED vars
  BY <1>1, NothingChanges DEF vars, stats
<1>2. CASE Starts("sims") \/ Starts("timed")
  BY <1>2, StartsBalances
<1>3. CASE Joins
  BY <1>3, NothingChanges DEF Joins
<1>4. ASSUME NEW t \in Worker, Runs(t) \/ Panics(t) PROVE Balanced'
  BY <1>4, QuietStepsBalance, WalksBalances, CollidesBalances, CountsBalances, AddsBalances
     DEF Runs, Descends, Evaluates, BacksUp
<1> QED BY <1>1, <1>2, <1>3, <1>4 DEF Next

(***************************************************************************)
(* Whatever the workers' steps interleave, between runs every statistic of *)
(* the shared tree adds up: nothing in flight, a node's visits those of    *)
(* the edges below it, and the w of an edge the sum below it and a leaf    *)
(* value for every descent that ended there (backup, add_f64).             *)
(***************************************************************************)
THEOREM StatisticsAddUp == Spec => []BackupsAddUp
<1>1. Inv /\ Balanced => BackupsAddUp
  <2> SUFFICES ASSUME Inv, Balanced, main = "idle" PROVE BackupsAddUp
    BY DEF BackupsAddUp
  <2>1. \A t \in Worker : worker[t].pc = "done"
    BY DEF Inv, IdleMeansDone, At
  <2>2. \A t \in Worker : \A x \in Node : InHand(worker[t], x) = 0 /\ Owed(worker[t], x) = 0
    BY <2>1, NothingInHand
  <2>3. ASSUME NEW x \in Node PROVE Flying(x) = 0 /\ Owing(x) = 0
    <3>1. IsFiniteSet(Worker)
      BY ShapeAssumption
    <3> DEFINE f == [t \in Worker |-> InHand(worker[t], x)]
               g == [t \in Worker |-> Owed(worker[t], x)]
    <3>2. \A t \in Worker : f[t] = 0 /\ g[t] = 0
      BY <2>2
    <3>3. Flying(x) = SumOn(f, Worker) /\ Owing(x) = SumOn(g, Worker)
      BY DEF Flying, Owing
    <3> HIDE DEF f, g
    <3>4. SumOn(f, Worker) = 0 /\ SumOn(g, Worker) = 0
      BY <3>1, <3>2, SumOfZeros
    <3> QED BY <3>3, <3>4
  <2>4. vl \in [Node -> Int] /\ flights \in [Node -> Int]
    BY DEF Inv, TypeOK
  <2>5. \A x \in Node : vl[x] = 0
    BY <2>3 DEF Balanced
  <2>6. ASSUME NEW x \in Node PROVE flights[x] = 0
    <3>1. IsFiniteSet(Kids[x]) /\ \A k \in Kids[x] : vl[k] = 0
      BY <2>5, CountersAreInts
    <3>2. SumOn(vl, Kids[x]) = 0
      BY <3>1, SumOfZeros
    <3> QED BY <3>2 DEF Balanced
  <2>7. vl = Zero /\ flights = Zero
    BY <2>4, <2>5, <2>6 DEF Zero
  <2>8. tree.expanding = {}
    <3>1. \A t \in Worker : worker[t].pending = {}
      BY <2>1, ThreadParts DEF Sane
    <3> QED BY <3>1 DEF Inv, ClaimsAreExclusive
  <2>9. \A x \in Node : visits[x] = MapThenSumSet(LAMBDA kid : n[kid], Kids[x])
    BY DEF Balanced, SumOn
  <2>10. \A x \in Node \ {Root} :
           w[x] = MapThenSumSet(LAMBDA kid : w[kid], Kids[x]) + Value[x] * (n[x] - visits[x])
    <3> TAKE x \in Node \ {Root}
    <3>1. w[x] = SumOn(w, Kids[x]) + Value[x] * (n[x] - visits[x]) + 0
      BY <2>3 DEF Balanced
    <3>2. SumOn(w, Kids[x]) \in Int /\ Value[x] * (n[x] - visits[x]) \in Int
      BY CountersAreInts, KidSumsAreInts
    <3>3. w[x] = SumOn(w, Kids[x]) + Value[x] * (n[x] - visits[x])
      BY <3>1, <3>2
    <3> QED BY <3>3 DEF SumOn
  <2> QED BY <2>7, <2>8, <2>9, <2>10 DEF BackupsAddUp
<1>2. Init => Inv /\ Balanced
  BY InitHolds, InitBalances
<1>3. Inv /\ Balanced /\ [Next]_vars => Inv' /\ Balanced'
  BY StepKeeps, StepBalances
<1> QED BY <1>1, <1>2, <1>3, PTL DEF Spec
=============================================================================
