-------------------------- MODULE GenerationProofs --------------------------
(***************************************************************************)
(* Proofs about Generation: the arena lock is the script's exactly from    *)
(* mkdir to rmdir of the run that took it and another's goes by its own    *)
(* hand, a report is about the candidate it names, and the rows of a       *)
(* stamped self-play are every game of the generation, once, whole, with   *)
(* counts that add up.                                                     *)
(*                                                                         *)
(* The first is not inductive: that an ending gives the lock back rests on *)
(* the trap being set wherever a run can exit with the lock, and that it   *)
(* gives nobody else's back on the trap being gone by then: that is what   *)
(* OnlyInTheGauntlet says.  The others rest on what every file of a        *)
(* directory holds at every point of a run: FilesInv and RowsInv.          *)
(***************************************************************************)
EXTENDS Generation, SumLemmas, FunctionTheorems, SequenceTheorems, TLAPS

\* A run that is over has its code, a live one the fields the stages use.
RunOK ==
  /\ run.live \in BOOLEAN
  /\ run.live => /\ DOMAIN run = {"live", "inv", "at", "stage", "took", "trap", "instances", "instance"}
                 /\ run.took \in BOOLEAN /\ run.trap \in BOOLEAN

\* Where a run may have taken the lock, and have the trap that gives it back.
OnlyInTheGauntlet ==
  run.live => /\ run.took => run.at \in {"mkdir", "purge", "instance", "playing", "untrap"}
              /\ run.trap <=> run.took /\ run.at # "mkdir"

HasLock == run.live /\ run.took /\ run.at # "untrap"
LockInv == RunOK /\ OnlyInTheGauntlet /\ (lock = "script" <=> HasLock)

-----------------------------------------------------------------------------
(* The three ways a step leaves the run *)

\* exit: the trap has given back what the run took, and nothing else.
LEMMA ExitKeeps ==
  ASSUME LockInv, NEW code, Exits(code), run.live, run.at # "mkdir"
  PROVE  LockInv'
<1>1. ~run'.live
  BY DEF Exits, Ended
<1>2. lock' # "script"
  BY DEF Exits, Released, LockInv, RunOK, OnlyInTheGauntlet, HasLock
<1>3. run'.live \in BOOLEAN
  BY DEF Exits, Ended
<1> QED BY <1>1, <1>2, <1>3 DEF LockInv, RunOK, OnlyInTheGauntlet, HasLock

\* The run goes on, and has the lock if it had it.
Continues == run'.live = TRUE /\ DOMAIN run' = DOMAIN run /\ UNCHANGED <<run.took, run.trap, lock>>

\* What Goto and the other updates of a live run's record leave alone.
Moves ==
  \/ \E point : run' = [run EXCEPT !.at = point]
  \/ \E point, s : run' = [run EXCEPT !.at = point, !.stage = s]
  \/ \E s : run' = [run EXCEPT !.stage = s]
  \/ \E point, i : run' = [run EXCEPT !.at = point, !.instance = i]
  \/ \E i : run' = [run EXCEPT !.instance = i]
  \/ \E point, i, n : run' = [run EXCEPT !.at = point, !.instance = i, !.instances = n]

LEMMA Goes ==
  ASSUME LockInv, run.live, Moves, lock' = lock
  PROVE  Continues
<1>1. run.live = TRUE /\ {"live", "took", "trap"} \subseteq DOMAIN run
  BY DEF LockInv, RunOK
<1> QED BY <1>1 DEF Moves, Continues

\* A run that does not have the lock goes on without it.
LEMMA OutsideKeeps ==
  ASSUME LockInv, run.live, run.took => run.at \notin {"mkdir", "purge", "instance", "playing", "untrap"}, Moves, lock' = lock
  PROVE  LockInv'
<1>1. run.took = FALSE /\ run.trap = FALSE /\ lock # "script"
  BY DEF LockInv, RunOK, OnlyInTheGauntlet, HasLock
<1> QED BY <1>1, Goes DEF Continues, LockInv, RunOK, OnlyInTheGauntlet, HasLock

\* The run stays in the gauntlet.
LEMMA InsideKeeps ==
  ASSUME LockInv, run.live, Moves, lock' = lock, {run.at, run'.at} \subseteq {"purge", "instance", "playing"}
  PROVE  LockInv'
BY Goes DEF Continues, LockInv, RunOK, OnlyInTheGauntlet, HasLock

\* A step of something else, which neither gives nor takes the script's lock.
LEMMA ElsewhereKeeps ==
  ASSUME LockInv, run' = run, (lock' = "script") <=> (lock = "script")
  PROVE  LockInv'
BY DEF LockInv, RunOK, OnlyInTheGauntlet, HasLock

-----------------------------------------------------------------------------
(* The steps of the script *)

LEMMA StartKeeps ==
  ASSUME LockInv, Invoke \/ SnapshotChampion \/ Copied \/ ClearStamp \/ Dispatch \/ Until
  PROVE  LockInv'
<1>1. CASE Invoke
  <2>1. /\ run'.live = TRUE /\ run'.took = FALSE /\ run'.trap = FALSE
        /\ DOMAIN run' = {"live", "inv", "at", "stage", "took", "trap", "instances", "instance"}
    BY <1>1 DEF Invoke
  <2>2. lock' = lock /\ lock # "script"
    BY <1>1 DEF Invoke, LockInv, HasLock
  <2> QED BY <2>1, <2>2 DEF LockInv, RunOK, OnlyInTheGauntlet, HasLock
<1>2. CASE SnapshotChampion
  BY <1>2, OutsideKeeps DEF Moves, SnapshotChampion, AtPoint, Goto
<1>3. CASE Copied
  BY <1>3, OutsideKeeps DEF Moves, Copied, AtPoint
<1>4. CASE ClearStamp
  BY <1>4, OutsideKeeps DEF Moves, ClearStamp, AtPoint
<1>5. CASE Dispatch
  BY <1>5, OutsideKeeps DEF Moves, Dispatch, AtPoint, Goto
<1>6. CASE Until
  BY <1>6, OutsideKeeps, ExitKeeps DEF Moves, Until, AtPoint
<1> QED BY <1>1, <1>2, <1>3, <1>4, <1>5, <1>6

LEMMA SelfPlayKeeps ==
  ASSUME LockInv, LaunchShards \/ Waited \/ Concatenate \/ Validate \/ \E i \in Shards : ShardPlays(i)
  PROVE  LockInv'
<1>1. CASE LaunchShards
  BY <1>1, OutsideKeeps DEF Moves, LaunchShards, AtPoint, Goto
<1>2. CASE Waited
  BY <1>2, OutsideKeeps, ExitKeeps DEF Moves, Waited, AtPoint
<1>3. CASE Concatenate
  BY <1>3, OutsideKeeps DEF Moves, Concatenate, AtPoint, Goto
<1>4. CASE Validate
  BY <1>4, OutsideKeeps, ExitKeeps DEF Moves, Validate, AtPoint, Goto
<1>5. ASSUME NEW i \in Shards, ShardPlays(i) PROVE LockInv'
  BY <1>5, ElsewhereKeeps DEF ShardPlays
<1> QED BY <1>1, <1>2, <1>3, <1>4, <1>5

LEMMA TrainingKeeps ==
  ASSUME LockInv, StartTraining \/ Trained \/ CheckCandidate
  PROVE  LockInv'
<1>1. CASE StartTraining
  BY <1>1, OutsideKeeps, ExitKeeps DEF Moves, StartTraining, AtPoint, Goto
<1>2. CASE Trained
  BY <1>2, OutsideKeeps DEF Moves, Trained, AtPoint, Goto
<1>3. CASE CheckCandidate
  BY <1>3, OutsideKeeps DEF Moves, CheckCandidate, AtPoint, Goto
<1> QED BY <1>1, <1>2, <1>3

\* The one stage that takes the lock, keeps it over its instances and gives it back.
LEMMA TakingKeeps ==
  ASSUME LockInv, Autoscale \/ TakeLock \/ SetTrap
  PROVE  LockInv'
<1>1. CASE Autoscale
  <2>1. run.live /\ run.at = "gauntlet"
    BY <1>1 DEF Autoscale, AtPoint
  <2>2. Exits("2") \/ (Moves /\ lock' = lock)
    BY <1>1 DEF Autoscale, Moves
  <2> QED BY <2>1, <2>2, ExitKeeps, OutsideKeeps
<1>2. CASE TakeLock
  <2>1. run.live /\ run.at = "mkdir" /\ run.took = FALSE /\ run.trap = FALSE
    BY <1>2 DEF TakeLock, AtPoint, LockInv, RunOK, OnlyInTheGauntlet
  <2>2. CASE lock = "free"
    <3>1. lock' = "script" /\ run' = [run EXCEPT !.took = TRUE]
      BY <1>2, <2>2 DEF TakeLock
    <3>2. /\ run'.live = TRUE /\ run'.took = TRUE /\ run'.trap = FALSE /\ run'.at = "mkdir"
          /\ DOMAIN run' = DOMAIN run
      BY <2>1, <3>1 DEF LockInv, RunOK
    <3> QED BY <2>1, <3>1, <3>2 DEF LockInv, RunOK, OnlyInTheGauntlet, HasLock
  <2>3. CASE lock # "free"
    BY <1>2, <2>1, <2>3, OutsideKeeps DEF TakeLock, Moves, Goto
  <2> QED BY <2>2, <2>3
<1>3. CASE SetTrap
  <2>1. run.live /\ run.at = "mkdir" /\ run.took = TRUE /\ lock' = lock
        /\ run' = [run EXCEPT !.at = "purge", !.trap = TRUE, !.instances = FullInstances]
    BY <1>3 DEF SetTrap, AtPoint, LockInv, RunOK
  <2>2. /\ run'.live = TRUE /\ run'.took = run.took /\ run'.trap = TRUE /\ run'.at = "purge"
        /\ DOMAIN run' = DOMAIN run
    BY <2>1 DEF LockInv, RunOK
  <2> QED BY <2>1, <2>2 DEF LockInv, RunOK, OnlyInTheGauntlet, HasLock
<1> QED BY <1>1, <1>2, <1>3

LEMMA GauntletKeeps ==
  ASSUME LockInv, PurgeLogs \/ StartInstance \/ EndInstance \/ GiveLockBack \/ GauntletDone \/ Report
  PROVE  LockInv'
<1>1. CASE PurgeLogs
  <2>1. run.live /\ run.at = "purge" /\ run' = [run EXCEPT !.at = "instance"] /\ lock' = lock
    BY <1>1 DEF PurgeLogs, AtPoint, Goto
  <2>2. run'.at = "instance"
    BY <2>1 DEF LockInv, RunOK
  <2> QED BY <2>1, <2>2, InsideKeeps DEF Moves
<1>2. CASE StartInstance
  <2>1. run.live /\ run.at = "instance" /\ ((lock' = lock /\ Goto("playing")) \/ Exits("2"))
    BY <1>2 DEF StartInstance, AtPoint
  <2>2. Goto("playing") => Moves /\ run'.at = "playing"
    BY <2>1 DEF Goto, Moves, LockInv, RunOK
  <2> QED BY <2>1, <2>2, InsideKeeps, ExitKeeps
<1>3. CASE EndInstance
  <2>1. \/ Exits("2")
        \/ run' = [run EXCEPT !.at = "instance", !.instance = run.instance + 1] /\ lock' = lock
    BY <1>3 DEF EndInstance
  <2>2. run.live /\ run.at = "playing"
    BY <1>3 DEF EndInstance, AtPoint
  <2>3. run' = [run EXCEPT !.at = "instance", !.instance = run.instance + 1] => Moves
    BY DEF Moves
  <2>4. run' = [run EXCEPT !.at = "instance", !.instance = run.instance + 1] => run'.at = "instance"
    BY <2>2 DEF LockInv, RunOK
  <2> QED BY <2>1, <2>2, <2>3, <2>4, InsideKeeps, ExitKeeps
<1>4. CASE GiveLockBack
  <2>1. run.live /\ run.at = "instance" /\ run' = [run EXCEPT !.at = "untrap"] /\ lock' = "free"
    BY <1>4 DEF GiveLockBack, AtPoint, Goto
  <2>2. /\ run'.live = TRUE /\ run'.took = run.took /\ run'.trap = run.trap /\ run'.at = "untrap"
        /\ DOMAIN run' = DOMAIN run
    BY <2>1 DEF LockInv, RunOK
  <2> QED BY <2>1, <2>2 DEF LockInv, RunOK, OnlyInTheGauntlet, HasLock
<1>5. CASE GauntletDone
  <2>1. run.live /\ lock' = lock /\ run' = [Untrapped(run) EXCEPT !.at = "until"]
    BY <1>5 DEF GauntletDone, AtPoint
  <2>2. run'.live = TRUE /\ run'.took = FALSE /\ run'.trap = FALSE /\ DOMAIN run' = DOMAIN run
    BY <2>1 DEF LockInv, RunOK, Untrapped
  <2>3. lock # "script"
    BY <1>5 DEF GauntletDone, AtPoint, LockInv, RunOK, HasLock
  <2> QED BY <2>1, <2>2, <2>3 DEF LockInv, RunOK, OnlyInTheGauntlet, HasLock
<1>6. CASE Report
  <2>1. run.live /\ run.at = "report" /\ (Exits("2") \/ Exits("0") \/ Exits("1"))
    BY <1>6 DEF Report, AtPoint
  <2> QED BY <2>1, ExitKeeps
<1> QED BY <1>1, <1>2, <1>3, <1>4, <1>5, <1>6

-----------------------------------------------------------------------------
(* What goes wrong, and what else happens on the box *)

LEMMA BoxKeeps ==
  ASSUME LockInv, BoxSteps
  PROVE  LockInv'
<1>1. CASE ToolFails
  BY <1>1, ExitKeeps DEF ToolFails
<1>2. CASE Killed \/ Terminated
  <2>1. run.live /\ run' = Ended("killed") /\ (lock' = LeftBehind \/ (lock' = Released /\ run.trap))
    <3>1. CASE Killed
      BY <3>1 DEF Killed, Interrupted
    <3>2. CASE Terminated
      <4>1. run.live /\ run' = Ended("killed") /\ lock' = IF run.trap THEN Released ELSE LeftBehind
        BY <3>2 DEF Terminated, Interrupted
      <4> QED BY <4>1
    <3> QED BY <1>2, <3>1, <3>2
  <2>2. ~run'.live /\ run'.live \in BOOLEAN
    BY <2>1 DEF Ended
  <2>3. lock' # "script"
    BY <2>1 DEF LeftBehind, Released
  <2> QED BY <2>2, <2>3 DEF LockInv, RunOK, OnlyInTheGauntlet, HasLock
<1>3. CASE ContainerEnds \/ Promote \/ ArenaStarts \/ ArenaEnds
  <2>1. run' = run /\ lock' = lock
    BY <1>3 DEF ContainerEnds, Promote, ArenaStarts, ArenaEnds
  <2> QED BY <2>1, ElsewhereKeeps
<1>4. CASE OtherTakes \/ OtherReleases
  <2>1. run' = run /\ lock # "script" /\ lock' # "script"
    BY <1>4 DEF OtherTakes, OtherReleases
  <2> QED BY <2>1, ElsewhereKeeps
<1>5. ASSUME NEW i \in Shards, ShardFails(i) PROVE LockInv'
  BY <1>5, ElsewhereKeeps DEF ShardFails
<1>6. ASSUME NEW who \in {"gate", "arena"}, NEW w \in 1..2, WorkerSteps(who, w) \/ WorkerPanics(who, w) PROVE LockInv'
  <2>1. run' = run /\ lock' = lock
    BY <1>6 DEF WorkerSteps, WorkerPanics
  <2> QED BY <2>1, ElsewhereKeeps
<1>7. CASE ConcatenateFails
  BY <1>7, OutsideKeeps DEF Moves, ConcatenateFails, AtPoint, Goto
<1> QED BY <1>1, <1>2, <1>3, <1>4, <1>5, <1>6, <1>7 DEF BoxSteps

LEMMA LockInvInductive == GenSpec => []LockInv
<1>1. GenInit => LockInv
  BY DEF GenInit, Ended, LockInv, RunOK, OnlyInTheGauntlet, HasLock
<1>2. LockInv /\ [GenNext]_genVars => LockInv'
  <2> SUFFICES ASSUME LockInv, [GenNext]_genVars PROVE LockInv'
    OBVIOUS
  <2>1. CASE ScriptSteps
    BY <2>1, StartKeeps, SelfPlayKeeps, TrainingKeeps, TakingKeeps, GauntletKeeps DEF ScriptSteps
  <2>2. CASE BoxSteps
    BY <2>2, BoxKeeps
  <2>3. CASE UNCHANGED genVars
    BY <2>3, ElsewhereKeeps DEF genVars
  <2> QED BY <2>1, <2>2, <2>3 DEF GenNext
<1> QED BY <1>1, <1>2, PTL DEF GenSpec

\* Whatever the box, the flags and the signals do: another user's lock is not given away, but by
\* a run that is ended in the window between rmdir and `trap - EXIT` (OthersKeepTheirLock;
\* generation.sh:414-417).
THEOREM OthersLockStays == GenSpec => OthersKeepTheirLock
<1>1. LockInv /\ [GenNext]_genVars =>
        [(lock = "other" /\ lock' # "other") => (run' = run \/ (AtPoint("untrap") /\ ~run'.live))]_genVars
  <2> SUFFICES ASSUME LockInv, GenNext, lock = "other", lock' # "other", run' # run
               PROVE  AtPoint("untrap") /\ ~run'.live
    BY DEF genVars
  <2>1. ~HasLock
    BY DEF LockInv
  <2>2. \/ \E code : run.live /\ Exits(code)
        \/ Killed \/ Terminated \/ TakeLock \/ GiveLockBack
    <3>1. CASE ScriptSteps
      <4>1. ASSUME NEW i \in Shards, ShardPlays(i) PROVE FALSE
        BY <4>1 DEF ShardPlays
      <4> QED BY <3>1, <4>1 DEF ScriptSteps, Invoke, SnapshotChampion, Copied, ClearStamp, Dispatch, Until,
              LaunchShards, Waited, Concatenate, Validate, StartTraining, Trained, CheckCandidate, Autoscale,
              SetTrap, PurgeLogs, StartInstance, EndInstance, GauntletDone, Report, AtPoint
    <3>2. CASE BoxSteps
      <4>1. ASSUME NEW i \in Shards, ShardFails(i) PROVE FALSE
        BY <4>1 DEF ShardFails
      <4>2. ASSUME NEW who \in {"gate", "arena"}, NEW w \in 1..2, WorkerSteps(who, w) \/ WorkerPanics(who, w)
            PROVE  FALSE
        BY <4>2 DEF WorkerSteps, WorkerPanics
      <4> QED BY <3>2, <4>1, <4>2 DEF BoxSteps, ToolFails, ConcatenateFails, ContainerEnds, Promote, OtherTakes,
              OtherReleases, ArenaStarts, ArenaEnds
    <3> QED BY <3>1, <3>2 DEF GenNext
  <2>3. CASE \E code : run.live /\ Exits(code)
    <3>1. run.live /\ run.trap /\ ~run'.live
      BY <2>3 DEF Exits, Released, Ended
    <3> QED BY <2>1, <3>1 DEF LockInv, OnlyInTheGauntlet, HasLock, AtPoint
  <2>4. CASE Killed \/ Terminated
    <3>1. run.live /\ run.trap /\ ~run'.live
      BY <2>4 DEF Killed, Terminated, Interrupted, LeftBehind, Ended
    <3> QED BY <2>1, <3>1 DEF LockInv, OnlyInTheGauntlet, HasLock, AtPoint
  <2>5. CASE TakeLock
    BY <2>5 DEF TakeLock
  <2>6. CASE GiveLockBack
    BY <2>1, <2>6 DEF GiveLockBack, AtPoint, HasLock
  <2> QED BY <2>2, <2>3, <2>4, <2>5, <2>6
<1> QED BY <1>1, LockInvInductive, PTL DEF GenSpec, OthersKeepTheirLock

-----------------------------------------------------------------------------
(***************************************************************************)
(* The files.  What a report says is true because of what every file of   *)
(* its generation is, at every point a run can be at: DirOK says it of one *)
(* directory, step by step, and FilesInv of all of them, with the run in   *)
(* one of them and nobody, or a killed run's container, in the others.     *)
(***************************************************************************)

\* A file of games, all of one net's.
OfNet(net, chunk) == "net" \in DOMAIN chunk /\ chunk.net = net
GamesBy(net, file) ==
  /\ file \in Seq({file[c] : c \in DOMAIN file})
  /\ \A c \in DOMAIN file : OfNet(net, file[c])

\* A shard that plays with this net.
ShardBy(net, shard) ==
  /\ {"net", "file"} \subseteq DOMAIN shard
  /\ shard.net = net /\ GamesBy(net, shard.file)

Stamps == {"selfplay", "train", "gauntlet"}
DirTyped(d) ==
  /\ DOMAIN d = {"champ", "shard", "rows", "short", "cand", "log", "done", "report"}
  /\ d.done \in SUBSET Stamps /\ DOMAIN d.shard = Shards

\* What was played was played with the champion's snapshot; count shards are being played.
PlayedByChampion(d, at, count) ==
  /\ \A i \in Shards : d.shard[i] # NoShard => ShardBy(d.champ, d.shard[i])
  /\ at = "wait" => \A i \in Shards : i < count => ShardBy(d.champ, d.shard[i])
  /\ d.rows # NoFile => GamesBy(d.champ, d.rows)

\* Nothing is there before the snapshot is.
SnapshotFirst(d, at) ==
  /\ at \notin {"none", "snapshot"} => d.champ # NoFile
  /\ (d.champ = NoFile \/ at = "copying") => /\ \A i \in Shards : d.shard[i] = NoShard
                                             /\ d.rows = NoFile /\ d.done = {}

\* The stamps a run has seen or set on its way to where it is.
StampsOnTheWay(d, at, stage) ==
  /\ at = "clear" => stage \in 1..5
  /\ at = "dispatch" => stage \in 1..4 /\ \A k \in 1..3 : k < stage => Stages[k] \in d.done
  /\ at = "until" => stage \in 1..3 /\ \A k \in 1..3 : k <= stage => Stages[k] \in d.done
  /\ at \in {"selfplay", "wait", "cat", "validate"} => stage = 1 /\ "selfplay" \notin d.done
  /\ at \in {"train", "training", "check"} =>
       stage = 2 /\ "selfplay" \in d.done /\ "train" \notin d.done
  /\ at \in {"gauntlet", "mkdir", "purge", "instance", "playing", "untrap"} =>
       stage = 3 /\ {"selfplay", "train"} \subseteq d.done /\ "gauntlet" \notin d.done
  /\ at = "report" => d.done = Stamps

\* The trainer runs on rows that are there.
HasGames(d) == d.rows # NoFile /\ \E c \in DOMAIN d.rows : d.rows[c].rows # <<>>
TrainsOnRows(d, at) == at = "training" => HasGames(d)

\* No stage is stamped without those before it, but while a run clears stamps.
StampsInOrder(d, at, stage) ==
  \A k \in 1..3 : \A j \in 1..3 : (j < k /\ Stages[k] \in d.done) =>
    Stages[j] \in d.done \/ (at = "clear" /\ stage <= k)

\* The candidate of a generation that is trained was trained on its rows.
LearnedFromRows(g, d, at) ==
  ("train" \in d.done \/ at = "check") =>
    d.rows # NoFile /\ g \in DOMAIN d.cand.from /\ d.cand.from[g] = d.rows

\* The tallies are of the candidate against the champion.
TalliesOf(d, at, job) ==
  /\ ("gauntlet" \in d.done \/ at \in {"instance", "playing", "untrap"}) =>
       \A i \in DOMAIN d.log : d.log[i] \notin {NoFile, Torn} => d.log[i].a = d.cand.net /\ d.log[i].b = d.champ
  /\ at = "playing" => job.netA = d.cand.net /\ job.netB = d.champ

ReportTrue(g, d) ==
  d.report # NoFile =>
    /\ \A log \in d.report.logs : log.a = d.report.cand.net /\ log.b = d.report.champ
    /\ \A c \in DOMAIN d.report.rows : d.report.rows[c].net = d.report.champ
    /\ g \in DOMAIN d.report.cand.from /\ d.report.cand.from[g] = d.report.rows

\* The files of generation g, where a run of `count` shards is at this point of this stage.
DirShape(d, at, stage, count) ==
  /\ DirTyped(d) /\ PlayedByChampion(d, at, count) /\ SnapshotFirst(d, at)
  /\ StampsOnTheWay(d, at, stage) /\ TrainsOnRows(d, at)
DirTrue(g, d, at, stage, job) ==
  /\ StampsInOrder(d, at, stage) /\ LearnedFromRows(g, d, at) /\ TalliesOf(d, at, job) /\ ReportTrue(g, d)
DirOK(g, d, at, stage, count, cuts, job) ==
  DirShape(d, at, stage, count) /\ (g \notin cuts => DirTrue(g, d, at, stage, job))

\* Where the run is, for a generation: "none" for those it is not about.
Here(g) == run.live /\ run.inv.gen = g
PointIn(g) == IF Here(g) THEN run.at ELSE "none"

FilesInv ==
  /\ artifact \in Champions /\ DOMAIN disk = 1..GenCount /\ DOMAIN pools = {"gate", "arena"}
  /\ run.live => run.inv \in Invocations
  /\ container # NoFile => container.gen \in cut /\ container.gen \in 1..GenCount
  /\ (run.live /\ run.at = "playing") => "job" \in DOMAIN pools["gate"]
  /\ \A g \in 1..GenCount : DirOK(g, disk[g], PointIn(g), run.stage, run.inv.shards, cut, pools["gate"].job)

-----------------------------------------------------------------------------
(* Files of games *)

LEMMA OwnRange ==
  ASSUME NEW T, NEW f \in Seq(T)
  PROVE  f \in Seq({f[c] : c \in DOMAIN f})
<1>1. Len(f) \in Nat /\ DOMAIN f = 1..Len(f) /\ f \in [1..Len(f) -> T]
  BY LenProperties
<1> DEFINE R == {f[c] : c \in DOMAIN f}
<1>2. f \in [1..Len(f) -> R]
  BY <1>1
<1> QED BY <1>1, <1>2, SeqDef

LEMMA FileOf ==
  ASSUME NEW net, NEW T, NEW f \in Seq(T), \A x \in T : OfNet(net, x), \A c \in DOMAIN f : f[c] \in T
  PROVE  GamesBy(net, f)
<1>1. f \in Seq({f[c] : c \in DOMAIN f})
  BY OwnRange
<1>2. \A c \in DOMAIN f : OfNet(net, f[c])
  OBVIOUS
<1> QED BY <1>1, <1>2 DEF GamesBy

\* A game of the same net at the end of the file, and one file after the other.
LEMMA AppendedGames ==
  ASSUME NEW net, NEW file, NEW chunk, GamesBy(net, file), OfNet(net, chunk)
  PROVE  GamesBy(net, Append(file, chunk))
<1> DEFINE T == {file[c] : c \in DOMAIN file} \cup {chunk}
<1>1. \A x \in T : OfNet(net, x)
  BY DEF GamesBy
<1>2. file \in Seq(T) /\ chunk \in T
  <2>1. file \in Seq({file[c] : c \in DOMAIN file})
    BY DEF GamesBy
  <2> QED BY <2>1, SeqMonotonic
<1> HIDE DEF T
<1>3. Append(file, chunk) \in Seq(T)
  BY <1>2, AppendProperties
<1>4. \A c \in DOMAIN Append(file, chunk) : Append(file, chunk)[c] \in T
  BY <1>3, ElementOfSeq, LenProperties
<1> QED BY <1>1, <1>3, <1>4, FileOf

LEMMA ConcatenatedGames ==
  ASSUME NEW net, NEW e, NEW f, GamesBy(net, e), GamesBy(net, f)
  PROVE  GamesBy(net, e \o f)
<1> DEFINE T == {e[c] : c \in DOMAIN e} \cup {f[c] : c \in DOMAIN f}
<1>1. \A x \in T : OfNet(net, x)
  BY DEF GamesBy
<1>2. e \in Seq(T) /\ f \in Seq(T)
  <2>1. e \in Seq({e[c] : c \in DOMAIN e}) /\ f \in Seq({f[c] : c \in DOMAIN f})
    BY DEF GamesBy
  <2> QED BY <2>1, SeqMonotonic
<1> HIDE DEF T
<1>3. e \o f \in Seq(T)
  BY <1>2, ConcatProperties
<1>4. \A c \in DOMAIN (e \o f) : (e \o f)[c] \in T
  BY <1>3, ElementOfSeq, LenProperties
<1> QED BY <1>1, <1>3, <1>4, FileOf

\* What cat may have copied of a file is of the file's net.
LEMMA FragmentsBy ==
  ASSUME NEW net, NEW file, GamesBy(net, file), NEW part \in Fragments(file)
  PROVE  GamesBy(net, part)
<1> DEFINE R == {file[c] : c \in DOMAIN file}
           T == R \cup {[x EXCEPT !.torn = TRUE] : x \in R}
<1>1. file \in Seq(R) /\ \A x \in R : OfNet(net, x)
  BY DEF GamesBy
<1>2. \A x \in T : OfNet(net, x)
  BY <1>1 DEF OfNet
<1>3. ASSUME NEW n \in 0..Len(file)
      PROVE  SubSeq(file, 1, n) \in [1..n -> R] /\ n \in Nat
  <2>1. Len(file) \in Nat
    BY <1>1, LenProperties
  <2>2. SubSeq(file, 1, n) \in Seq(R) /\ Len(SubSeq(file, 1, n)) = n
    BY <1>1, <2>1, SubSeqProperties
  <2> QED BY <2>1, <2>2, LenProperties
<1>4. part \in Seq(T)
  <2>1. CASE \E n \in 0..Len(file) : part = SubSeq(file, 1, n)
    <3>1. PICK n \in 0..Len(file) : part = SubSeq(file, 1, n)
      BY <2>1
    <3>2. part \in [1..n -> T] /\ n \in Nat
      BY <1>3, <3>1
    <3> QED BY <3>2, SeqDef
  <2>2. CASE \E n \in 1..Len(file) : part = [SubSeq(file, 1, n) EXCEPT ![n].torn = TRUE]
    <3>1. PICK n \in 1..Len(file) : part = [SubSeq(file, 1, n) EXCEPT ![n].torn = TRUE]
      BY <2>2
    <3> DEFINE q == SubSeq(file, 1, n)
    <3>2. Len(file) \in Nat
      BY <1>1, LenProperties
    <3>3. q \in [1..n -> R] /\ n \in Nat /\ n \in 1..n
      BY <1>3, <3>2
    <3>4. part = [q EXCEPT ![n] = [q[n] EXCEPT !.torn = TRUE]]
      BY <3>1
    <3> HIDE DEF q, R
    <3>5. part \in [1..n -> T]
      BY <3>3, <3>4
    <3> QED BY <3>3, <3>5, SeqDef
  <2> QED BY <2>1, <2>2 DEF Fragments
<1> HIDE DEF R, T
<1>5. \A c \in DOMAIN part : part[c] \in T
  BY <1>4, ElementOfSeq, LenProperties
<1> QED BY <1>2, <1>4, <1>5, FileOf

LEMMA NoGames == \A net : GamesBy(net, <<>>)
<1>1. <<>> \in Seq({<<>>[c] : c \in DOMAIN <<>>})
  BY EmptySeq, SeqDef
<1> QED BY <1>1 DEF GamesBy

-----------------------------------------------------------------------------
(* The files of one generation, a step at a time *)

LEMMA StagesAre ==
  Stages[1] = "selfplay" /\ Stages[2] = "train" /\ Stages[3] = "gauntlet" /\ Stages[4] = "report"
BY DEF Stages

\* The run is somewhere else, over, or killed; then it may leave the generation cut.
LEMMA Leaves ==
  ASSUME NEW g, NEW d, NEW at, NEW stage, NEW count, NEW cuts, NEW job,
         NEW stage2, NEW count2, NEW cuts2, NEW job2,
         DirOK(g, d, at, stage, count, cuts, job), cuts \subseteq cuts2,
         at = "clear" => g \in cuts2 \/ \A k \in 1..4 : stage <= k => Stages[k] \notin d.done
  PROVE  DirOK(g, d, "none", stage2, count2, cuts2, job2)
<1>1. DirShape(d, "none", stage2, count2)
  BY DEF DirOK, DirShape, PlayedByChampion, SnapshotFirst, StampsOnTheWay, TrainsOnRows
<1>2. ASSUME g \notin cuts2 PROVE DirTrue(g, d, "none", stage2, job2)
  <2>1. StampsInOrder(d, "none", stage2)
    BY <1>2 DEF DirOK, DirTrue, StampsInOrder
  <2> QED BY <1>2, <2>1 DEF DirOK, DirTrue, LearnedFromRows, TalliesOf
<1> QED BY <1>1, <1>2 DEF DirOK

\* Only a match in progress is about the job.
LEMMA AnyJob ==
  ASSUME NEW g, NEW d, NEW at, NEW stage, NEW count, NEW cuts, NEW job, NEW job2,
         DirOK(g, d, at, stage, count, cuts, job), at # "playing"
  PROVE  DirOK(g, d, at, stage, count, cuts, job2)
BY DEF DirOK, DirTrue, TalliesOf

LEMMA Starts ==
  ASSUME NEW g, NEW d, NEW stage, NEW stage2, NEW count, NEW count2, NEW cuts, NEW job,
         DirOK(g, d, "none", stage, count, cuts, job)
  PROVE  DirOK(g, d, "snapshot", stage2, count2, cuts, job)
BY DEF DirOK, DirShape, PlayedByChampion, SnapshotFirst, StampsOnTheWay, TrainsOnRows,
       DirTrue, StampsInOrder, LearnedFromRows, TalliesOf

LEMMA Creates ==
  ASSUME NEW g, NEW d, NEW stage, NEW count, NEW cuts, NEW job,
         DirOK(g, d, "snapshot", stage, count, cuts, job), d.champ = NoFile
  PROVE  DirOK(g, [d EXCEPT !.champ = Torn], "copying", stage, count, cuts, job)
<1> DEFINE e == [d EXCEPT !.champ = Torn]
<1>1. /\ DOMAIN e = DOMAIN d /\ e.champ = Torn /\ e.shard = d.shard /\ e.rows = d.rows
      /\ e.cand = d.cand /\ e.log = d.log /\ e.done = d.done /\ e.report = d.report
  BY DEF DirOK, DirShape, DirTyped
<1>2. Torn # NoFile /\ d.done = {} /\ d.rows = NoFile /\ \A i \in Shards : d.shard[i] = NoShard
  BY GenerationAssumption DEF DirOK, DirShape, SnapshotFirst
<1> HIDE DEF e
<1>3. DirShape(e, "copying", stage, count)
  BY <1>1, <1>2 DEF DirOK, DirShape, DirTyped, PlayedByChampion, SnapshotFirst, StampsOnTheWay, TrainsOnRows
<1>4. ASSUME g \notin cuts PROVE DirTrue(g, e, "copying", stage, job)
  BY <1>1, <1>2, <1>4 DEF DirOK, DirTrue, StampsInOrder, LearnedFromRows, TalliesOf, ReportTrue
<1> QED BY <1>3, <1>4 DEF DirOK, e

LEMMA Copies ==
  ASSUME NEW g, NEW d, NEW stage, NEW first \in 1..5, NEW net, NEW count, NEW cuts, NEW job,
         DirOK(g, d, "copying", stage, count, cuts, job), net # NoFile
  PROVE  DirOK(g, [d EXCEPT !.champ = net], "clear", first, count, cuts, job)
<1> DEFINE e == [d EXCEPT !.champ = net]
<1>1. /\ DOMAIN e = DOMAIN d /\ e.champ = net /\ e.shard = d.shard /\ e.rows = d.rows
      /\ e.cand = d.cand /\ e.log = d.log /\ e.done = d.done /\ e.report = d.report
  BY DEF DirOK, DirShape, DirTyped
<1>2. d.done = {} /\ d.rows = NoFile /\ \A i \in Shards : d.shard[i] = NoShard
  BY DEF DirOK, DirShape, SnapshotFirst
<1> HIDE DEF e
<1>3. DirShape(e, "clear", first, count)
  BY <1>1, <1>2 DEF DirOK, DirShape, DirTyped, PlayedByChampion, SnapshotFirst, StampsOnTheWay, TrainsOnRows
<1>4. ASSUME g \notin cuts PROVE DirTrue(g, e, "clear", first, job)
  BY <1>1, <1>2, <1>4 DEF DirOK, DirTrue, StampsInOrder, LearnedFromRows, TalliesOf, ReportTrue
<1> QED BY <1>3, <1>4 DEF DirOK, e

LEMMA KeepsSnapshot ==
  ASSUME NEW g, NEW d, NEW stage, NEW first \in 1..5, NEW count, NEW cuts, NEW job,
         DirOK(g, d, "snapshot", stage, count, cuts, job), d.champ # NoFile
  PROVE  DirOK(g, d, "clear", first, count, cuts, job)
BY DEF DirOK, DirShape, PlayedByChampion, SnapshotFirst, StampsOnTheWay, TrainsOnRows,
       DirTrue, StampsInOrder, LearnedFromRows, TalliesOf

LEMMA Clears ==
  ASSUME NEW g, NEW d, NEW stage, NEW count, NEW cuts, NEW job,
         DirOK(g, d, "clear", stage, count, cuts, job), ~(stage > 4)
  PROVE  DirOK(g, [d EXCEPT !.done = @ \ {Stages[stage]}], "clear", stage + 1, count, cuts, job)
<1> DEFINE e == [d EXCEPT !.done = @ \ {Stages[stage]}]
<1>1. /\ DOMAIN e = DOMAIN d /\ e.champ = d.champ /\ e.shard = d.shard /\ e.rows = d.rows
      /\ e.cand = d.cand /\ e.log = d.log /\ e.done = d.done \ {Stages[stage]} /\ e.report = d.report
  BY DEF DirOK, DirShape, DirTyped
<1>2. stage \in 1..4
  BY DEF DirOK, DirShape, StampsOnTheWay
<1> HIDE DEF e
<1>3. DirShape(e, "clear", stage + 1, count)
  BY <1>1, <1>2 DEF DirOK, DirShape, DirTyped, PlayedByChampion, SnapshotFirst, StampsOnTheWay, TrainsOnRows
<1>4. ASSUME g \notin cuts PROVE DirTrue(g, e, "clear", stage + 1, job)
  <2>1. StampsInOrder(e, "clear", stage + 1)
    <3> SUFFICES ASSUME NEW k \in 1..3, NEW j \in 1..3, j < k, Stages[k] \in e.done
                 PROVE  Stages[j] \in e.done \/ stage + 1 <= k
      BY DEF StampsInOrder
    <3>1. k # stage /\ Stages[k] \in d.done
      BY <1>1
    <3>2. Stages[j] \in d.done \/ stage <= k
      BY <1>4, <3>1 DEF DirOK, DirTrue, StampsInOrder
    <3>3. CASE stage <= k
      BY <3>1, <3>3, <1>2
    <3>4. CASE ~(stage <= k)
      BY <3>2, <3>4, <1>1, <1>2, StagesAre
    <3> QED BY <3>3, <3>4
  <2> QED BY <1>1, <1>4, <2>1 DEF DirOK, DirTrue, LearnedFromRows, TalliesOf, ReportTrue
<1> QED BY <1>3, <1>4 DEF DirOK, e

LEMMA Cleared ==
  ASSUME NEW g, NEW d, NEW stage, NEW count, NEW cuts, NEW job,
         DirOK(g, d, "clear", stage, count, cuts, job), stage > 4
  PROVE  DirOK(g, d, "dispatch", 1, count, cuts, job)
<1>1. stage = 5
  BY DEF DirOK, DirShape, StampsOnTheWay
<1>2. DirShape(d, "dispatch", 1, count)
  BY DEF DirOK, DirShape, PlayedByChampion, SnapshotFirst, StampsOnTheWay, TrainsOnRows
<1>3. ASSUME g \notin cuts PROVE DirTrue(g, d, "dispatch", 1, job)
  BY <1>1, <1>3 DEF DirOK, DirTrue, StampsInOrder, LearnedFromRows, TalliesOf
<1> QED BY <1>2, <1>3 DEF DirOK

LEMMA Skips ==
  ASSUME NEW g, NEW d, NEW stage, NEW count, NEW cuts, NEW job,
         DirOK(g, d, "dispatch", stage, count, cuts, job), Stages[stage] \in d.done
  PROVE  DirOK(g, d, "until", stage, count, cuts, job)
<1>1. stage \in 1..3
  BY StagesAre DEF DirOK, DirShape, DirTyped, Stamps, StampsOnTheWay
<1>2. DirShape(d, "until", stage, count)
  BY <1>1, StagesAre DEF DirOK, DirShape, PlayedByChampion, SnapshotFirst, StampsOnTheWay, TrainsOnRows
<1>3. ASSUME g \notin cuts PROVE DirTrue(g, d, "until", stage, job)
  BY <1>3 DEF DirOK, DirTrue, StampsInOrder, LearnedFromRows, TalliesOf
<1> QED BY <1>2, <1>3 DEF DirOK

LEMMA Enters ==
  ASSUME NEW g, NEW d, NEW stage, NEW count, NEW cuts, NEW job,
         DirOK(g, d, "dispatch", stage, count, cuts, job), Stages[stage] \notin d.done
  PROVE  DirOK(g, d, Stages[stage], stage, count, cuts, job)
<1>1. stage \in 1..4 /\ d.done \subseteq Stamps /\ \A k \in 1..3 : k < stage => Stages[k] \in d.done
  BY DEF DirOK, DirShape, DirTyped, StampsOnTheWay
<1>2. DirShape(d, Stages[stage], stage, count)
  <2>1. StampsOnTheWay(d, Stages[stage], stage)
    <3>1. CASE stage = 1
      BY <1>1, <3>1, StagesAre DEF StampsOnTheWay
    <3>2. CASE stage = 2
      BY <1>1, <3>2, StagesAre DEF StampsOnTheWay
    <3>3. CASE stage = 3
      BY <1>1, <3>3, StagesAre DEF StampsOnTheWay
    <3>4. CASE stage = 4
      <4>1. Stages[1] \in d.done /\ Stages[2] \in d.done /\ Stages[3] \in d.done
        BY <1>1, <3>4
      <4>2. d.done = Stamps
        BY <1>1, <4>1, StagesAre DEF Stamps
      <4> QED BY <3>4, <4>2, StagesAre DEF StampsOnTheWay
    <3> QED BY <1>1, <3>1, <3>2, <3>3, <3>4
  <2>2. Stages[stage] \in {"selfplay", "train", "gauntlet", "report"}
    BY <1>1, StagesAre
  <2> QED BY <2>1, <2>2 DEF DirOK, DirShape, PlayedByChampion, SnapshotFirst, TrainsOnRows
<1>3. ASSUME g \notin cuts PROVE DirTrue(g, d, Stages[stage], stage, job)
  <2>1. Stages[stage] \in {"selfplay", "train", "gauntlet", "report"}
    BY <1>1, StagesAre
  <2> QED BY <1>3, <2>1 DEF DirOK, DirTrue, StampsInOrder, LearnedFromRows, TalliesOf
<1> QED BY <1>2, <1>3 DEF DirOK

LEMMA GoesOn ==
  ASSUME NEW g, NEW d, NEW stage, NEW count, NEW cuts, NEW job,
         DirOK(g, d, "until", stage, count, cuts, job)
  PROVE  DirOK(g, d, "dispatch", stage + 1, count, cuts, job)
<1>1. DirShape(d, "dispatch", stage + 1, count)
  BY DEF DirOK, DirShape, PlayedByChampion, SnapshotFirst, StampsOnTheWay, TrainsOnRows
<1>2. ASSUME g \notin cuts PROVE DirTrue(g, d, "dispatch", stage + 1, job)
  BY <1>2 DEF DirOK, DirTrue, StampsInOrder, LearnedFromRows, TalliesOf
<1> QED BY <1>1, <1>2 DEF DirOK

\* Until self-play is stamped nothing after it is, and until training is the gauntlet is not.
LEMMA NothingAfter ==
  ASSUME NEW g, NEW d, NEW at, NEW stage, NEW job, DirTrue(g, d, at, stage, job), at # "clear"
  PROVE  /\ "selfplay" \notin d.done => "train" \notin d.done /\ "gauntlet" \notin d.done
         /\ "train" \notin d.done => "gauntlet" \notin d.done
<1>1. \A k \in 1..3 : \A j \in 1..3 : (j < k /\ Stages[k] \in d.done) => Stages[j] \in d.done
  BY DEF DirTrue, StampsInOrder
<1> QED BY <1>1, StagesAre

LEMMA Launches ==
  ASSUME NEW g, NEW d, NEW stage, NEW count, NEW cuts, NEW job, NEW shards,
         DirOK(g, d, "selfplay", stage, count, cuts, job), DOMAIN shards = Shards,
         \A i \in Shards : IF i < count THEN ShardBy(d.champ, shards[i]) ELSE shards[i] = NoShard
  PROVE  DirOK(g, [d EXCEPT !.rows = NoFile, !.short = FALSE, !.shard = shards], "wait", stage, count, cuts, job)
<1> DEFINE e == [d EXCEPT !.rows = NoFile, !.short = FALSE, !.shard = shards]
<1>1. /\ DOMAIN e = DOMAIN d /\ e.champ = d.champ /\ e.shard = shards /\ e.rows = NoFile
      /\ e.cand = d.cand /\ e.log = d.log /\ e.done = d.done /\ e.report = d.report
  BY DEF DirOK, DirShape, DirTyped
<1> HIDE DEF e
<1>2. \A i \in Shards : (i < count => ShardBy(e.champ, e.shard[i])) /\ (e.shard[i] # NoShard => ShardBy(e.champ, e.shard[i]))
  BY <1>1
<1>3. DirShape(e, "wait", stage, count)
  <2>1. PlayedByChampion(e, "wait", count)
    BY <1>1, <1>2 DEF PlayedByChampion
  <2>2. e.champ # NoFile
    BY <1>1 DEF DirOK, DirShape, SnapshotFirst
  <2> QED BY <1>1, <2>1, <2>2 DEF DirOK, DirShape, DirTyped, SnapshotFirst, StampsOnTheWay, TrainsOnRows
<1>4. ASSUME g \notin cuts PROVE DirTrue(g, e, "wait", stage, job)
  <2>1. d.done = e.done /\ "train" \notin d.done /\ "gauntlet" \notin d.done
    BY <1>1, <1>4, NothingAfter DEF DirOK, DirShape, StampsOnTheWay
  <2> QED BY <1>1, <1>4, <2>1 DEF DirOK, DirTrue, StampsInOrder, LearnedFromRows, TalliesOf, ReportTrue
<1> QED BY <1>3, <1>4 DEF DirOK, e

LEMMA Writes ==
  ASSUME NEW g, NEW d, NEW stage, NEW count, NEW cuts, NEW job, NEW i \in Shards, NEW shard,
         DirOK(g, d, "wait", stage, count, cuts, job), ShardBy(d.champ, shard)
  PROVE  DirOK(g, [d EXCEPT !.shard[i] = shard], "wait", stage, count, cuts, job)
<1> DEFINE e == [d EXCEPT !.shard[i] = shard]
<1>1. /\ DOMAIN e = DOMAIN d /\ e.champ = d.champ /\ e.rows = d.rows
      /\ e.cand = d.cand /\ e.log = d.log /\ e.done = d.done /\ e.report = d.report
      /\ DOMAIN e.shard = Shards /\ e.shard[i] = shard /\ \A k \in Shards : k # i => e.shard[k] = d.shard[k]
  BY DEF DirOK, DirShape, DirTyped
<1> HIDE DEF e
<1>3. DirShape(e, "wait", stage, count)
  <2>1. PlayedByChampion(e, "wait", count)
    BY <1>1 DEF DirOK, DirShape, PlayedByChampion
  <2>2. e.champ # NoFile
    BY <1>1 DEF DirOK, DirShape, SnapshotFirst
  <2> QED BY <1>1, <2>1, <2>2 DEF DirOK, DirShape, DirTyped, SnapshotFirst, StampsOnTheWay, TrainsOnRows
<1>4. ASSUME g \notin cuts PROVE DirTrue(g, e, "wait", stage, job)
  BY <1>1, <1>4 DEF DirOK, DirTrue, StampsInOrder, LearnedFromRows, TalliesOf, ReportTrue
<1> QED BY <1>3, <1>4 DEF DirOK, e

LEMMA AllWritten ==
  ASSUME NEW g, NEW d, NEW stage, NEW count, NEW cuts, NEW job, DirOK(g, d, "wait", stage, count, cuts, job)
  PROVE  DirOK(g, d, "cat", stage, count, cuts, job)
BY DEF DirOK, DirShape, PlayedByChampion, SnapshotFirst, StampsOnTheWay, TrainsOnRows,
       DirTrue, StampsInOrder, LearnedFromRows, TalliesOf

LEMMA Concatenates ==
  ASSUME NEW g, NEW d, NEW stage, NEW count, NEW cuts, NEW job, NEW rows, NEW short,
         DirOK(g, d, "cat", stage, count, cuts, job), GamesBy(d.champ, rows)
  PROVE  DirOK(g, [d EXCEPT !.rows = rows, !.short = short], "cat", stage, count, cuts, job)
<1> DEFINE e == [d EXCEPT !.rows = rows, !.short = short]
<1>1. /\ DOMAIN e = DOMAIN d /\ e.champ = d.champ /\ e.shard = d.shard /\ e.rows = rows
      /\ e.cand = d.cand /\ e.log = d.log /\ e.done = d.done /\ e.report = d.report
  BY DEF DirOK, DirShape, DirTyped
<1> HIDE DEF e
<1>3. DirShape(e, "cat", stage, count)
  <2>1. PlayedByChampion(e, "cat", count)
    BY <1>1 DEF DirOK, DirShape, PlayedByChampion
  <2>2. e.champ # NoFile
    BY <1>1 DEF DirOK, DirShape, SnapshotFirst
  <2> QED BY <1>1, <2>1, <2>2 DEF DirOK, DirShape, DirTyped, SnapshotFirst, StampsOnTheWay, TrainsOnRows
<1>4. ASSUME g \notin cuts PROVE DirTrue(g, e, "cat", stage, job)
  <2>1. d.done = e.done /\ "train" \notin d.done /\ "gauntlet" \notin d.done
    BY <1>1, <1>4, NothingAfter DEF DirOK, DirShape, StampsOnTheWay
  <2> QED BY <1>1, <1>4, <2>1 DEF DirOK, DirTrue, StampsInOrder, LearnedFromRows, TalliesOf, ReportTrue
<1> QED BY <1>3, <1>4 DEF DirOK, e

LEMMA AllConcatenated ==
  ASSUME NEW g, NEW d, NEW stage, NEW count, NEW cuts, NEW job, DirOK(g, d, "cat", stage, count, cuts, job)
  PROVE  DirOK(g, d, "validate", stage, count, cuts, job)
BY DEF DirOK, DirShape, PlayedByChampion, SnapshotFirst, StampsOnTheWay, TrainsOnRows,
       DirTrue, StampsInOrder, LearnedFromRows, TalliesOf

LEMMA StampsSelfPlay ==
  ASSUME NEW g, NEW d, NEW stage, NEW count, NEW cuts, NEW job,
         DirOK(g, d, "validate", stage, count, cuts, job)
  PROVE  DirOK(g, [d EXCEPT !.done = @ \cup {"selfplay"}], "until", stage, count, cuts, job)
<1> DEFINE e == [d EXCEPT !.done = @ \cup {"selfplay"}]
<1>1. /\ DOMAIN e = DOMAIN d /\ e.champ = d.champ /\ e.shard = d.shard /\ e.rows = d.rows
      /\ e.cand = d.cand /\ e.log = d.log /\ e.done = d.done \cup {"selfplay"} /\ e.report = d.report
  BY DEF DirOK, DirShape, DirTyped
<1> HIDE DEF e
<1>2. DirShape(e, "until", stage, count)
  <2>1. PlayedByChampion(e, "until", count)
    BY <1>1 DEF DirOK, DirShape, PlayedByChampion
  <2>2. e.champ # NoFile
    BY <1>1 DEF DirOK, DirShape, SnapshotFirst
  <2> QED BY <1>1, <2>1, <2>2, StagesAre DEF DirOK, DirShape, DirTyped, SnapshotFirst, StampsOnTheWay, TrainsOnRows, Stamps
<1>3. ASSUME g \notin cuts PROVE DirTrue(g, e, "until", stage, job)
  <2>1. /\ "selfplay" \notin d.done => "train" \notin d.done /\ "gauntlet" \notin d.done
        /\ "train" \notin d.done => "gauntlet" \notin d.done
    BY <1>3, NothingAfter DEF DirOK
  <2>2. StampsInOrder(e, "until", stage)
    BY <1>1, <1>3, <2>1, StagesAre DEF DirOK, DirShape, StampsOnTheWay, DirTrue, StampsInOrder
  <2>3. LearnedFromRows(g, e, "until")
    BY <1>1, <1>3, <2>1 DEF DirOK, DirShape, StampsOnTheWay, DirTrue, LearnedFromRows
  <2>4. TalliesOf(e, "until", job)
    BY <1>1, <1>3, <2>1 DEF DirOK, DirShape, StampsOnTheWay, DirTrue, TalliesOf
  <2>5. ReportTrue(g, e)
    BY <1>1, <1>3 DEF DirOK, DirTrue, ReportTrue
  <2> QED BY <2>2, <2>3, <2>4, <2>5 DEF DirTrue
<1> QED BY <1>2, <1>3 DEF DirOK, e

LEMMA StartsTrainer ==
  ASSUME NEW g, NEW d, NEW stage, NEW count, NEW cuts, NEW job,
         DirOK(g, d, "train", stage, count, cuts, job), HasGames(d)
  PROVE  DirOK(g, [d EXCEPT !.cand = NoFile], "training", stage, count, cuts, job)
<1> DEFINE e == [d EXCEPT !.cand = NoFile]
<1>1. /\ DOMAIN e = DOMAIN d /\ e.champ = d.champ /\ e.shard = d.shard /\ e.rows = d.rows
      /\ e.cand = NoFile /\ e.log = d.log /\ e.done = d.done /\ e.report = d.report
  BY DEF DirOK, DirShape, DirTyped
<1> HIDE DEF e
<1>2. DirShape(e, "training", stage, count)
  <2>1. PlayedByChampion(e, "training", count)
    BY <1>1 DEF DirOK, DirShape, PlayedByChampion
  <2>2. e.champ # NoFile
    BY <1>1 DEF DirOK, DirShape, SnapshotFirst
  <2> QED BY <1>1, <2>1, <2>2, StagesAre DEF DirOK, DirShape, DirTyped, SnapshotFirst, StampsOnTheWay,
                                                    TrainsOnRows, HasGames, Stamps
<1>3. ASSUME g \notin cuts PROVE DirTrue(g, e, "training", stage, job)
  <2>1. /\ "selfplay" \notin d.done => "train" \notin d.done /\ "gauntlet" \notin d.done
        /\ "train" \notin d.done => "gauntlet" \notin d.done
    BY <1>3, NothingAfter DEF DirOK
  <2>2. StampsInOrder(e, "training", stage)
    BY <1>1, <1>3, <2>1, StagesAre DEF DirOK, DirShape, StampsOnTheWay, DirTrue, StampsInOrder
  <2>3. LearnedFromRows(g, e, "training")
    BY <1>1, <1>3, <2>1 DEF DirOK, DirShape, StampsOnTheWay, DirTrue, LearnedFromRows
  <2>4. TalliesOf(e, "training", job)
    BY <1>1, <1>3, <2>1 DEF DirOK, DirShape, StampsOnTheWay, DirTrue, TalliesOf
  <2>5. ReportTrue(g, e)
    BY <1>1, <1>3 DEF DirOK, DirTrue, ReportTrue
  <2> QED BY <2>2, <2>3, <2>4, <2>5 DEF DirTrue
<1> QED BY <1>2, <1>3 DEF DirOK, e

LEMMA Trains ==
  ASSUME NEW g, NEW d, NEW stage, NEW count, NEW cuts, NEW job, NEW cand,
         DirOK(g, d, "training", stage, count, cuts, job),
         HasGames(d) => g \in DOMAIN cand.from /\ cand.from[g] = d.rows
  PROVE  DirOK(g, [d EXCEPT !.cand = cand], "check", stage, count, cuts, job)
<1> DEFINE e == [d EXCEPT !.cand = cand]
<1>1. /\ DOMAIN e = DOMAIN d /\ e.champ = d.champ /\ e.shard = d.shard /\ e.rows = d.rows
      /\ e.cand = cand /\ e.log = d.log /\ e.done = d.done /\ e.report = d.report
  BY DEF DirOK, DirShape, DirTyped
<1> HIDE DEF e
<1>2. DirShape(e, "check", stage, count)
  <2>1. PlayedByChampion(e, "check", count)
    BY <1>1 DEF DirOK, DirShape, PlayedByChampion
  <2>2. e.champ # NoFile
    BY <1>1 DEF DirOK, DirShape, SnapshotFirst
  <2> QED BY <1>1, <2>1, <2>2, StagesAre DEF DirOK, DirShape, DirTyped, SnapshotFirst, StampsOnTheWay, TrainsOnRows, Stamps
<1>3. ASSUME g \notin cuts PROVE DirTrue(g, e, "check", stage, job)
  <2>1. /\ "selfplay" \notin d.done => "train" \notin d.done /\ "gauntlet" \notin d.done
        /\ "train" \notin d.done => "gauntlet" \notin d.done
    BY <1>3, NothingAfter DEF DirOK
  <2>2. StampsInOrder(e, "check", stage)
    BY <1>1, <1>3, <2>1, StagesAre DEF DirOK, DirShape, StampsOnTheWay, DirTrue, StampsInOrder
  <2>3. LearnedFromRows(g, e, "check")
    BY <1>1 DEF DirOK, DirShape, TrainsOnRows, HasGames, LearnedFromRows
  <2>4. TalliesOf(e, "check", job)
    BY <1>1, <1>3, <2>1 DEF DirOK, DirShape, StampsOnTheWay, DirTrue, TalliesOf
  <2>5. ReportTrue(g, e)
    BY <1>1, <1>3 DEF DirOK, DirTrue, ReportTrue
  <2> QED BY <2>2, <2>3, <2>4, <2>5 DEF DirTrue
<1> QED BY <1>2, <1>3 DEF DirOK, e

LEMMA StampsTrain ==
  ASSUME NEW g, NEW d, NEW stage, NEW count, NEW cuts, NEW job,
         DirOK(g, d, "check", stage, count, cuts, job)
  PROVE  DirOK(g, [d EXCEPT !.done = @ \cup {"train"}], "until", stage, count, cuts, job)
<1> DEFINE e == [d EXCEPT !.done = @ \cup {"train"}]
<1>1. /\ DOMAIN e = DOMAIN d /\ e.champ = d.champ /\ e.shard = d.shard /\ e.rows = d.rows
      /\ e.cand = d.cand /\ e.log = d.log /\ e.done = d.done \cup {"train"} /\ e.report = d.report
  BY DEF DirOK, DirShape, DirTyped
<1> HIDE DEF e
<1>2. DirShape(e, "until", stage, count)
  <2>1. PlayedByChampion(e, "until", count)
    BY <1>1 DEF DirOK, DirShape, PlayedByChampion
  <2>2. e.champ # NoFile
    BY <1>1 DEF DirOK, DirShape, SnapshotFirst
  <2> QED BY <1>1, <2>1, <2>2, StagesAre DEF DirOK, DirShape, DirTyped, SnapshotFirst, StampsOnTheWay, TrainsOnRows, Stamps
<1>3. ASSUME g \notin cuts PROVE DirTrue(g, e, "until", stage, job)
  <2>1. /\ "selfplay" \notin d.done => "train" \notin d.done /\ "gauntlet" \notin d.done
        /\ "train" \notin d.done => "gauntlet" \notin d.done
    BY <1>3, NothingAfter DEF DirOK
  <2>2. StampsInOrder(e, "until", stage)
    BY <1>1, <1>3, <2>1, StagesAre DEF DirOK, DirShape, StampsOnTheWay, DirTrue, StampsInOrder
  <2>3. LearnedFromRows(g, e, "until")
    BY <1>1, <1>3, <2>1 DEF DirOK, DirShape, StampsOnTheWay, DirTrue, LearnedFromRows
  <2>4. TalliesOf(e, "until", job)
    BY <1>1, <1>3, <2>1 DEF DirOK, DirShape, StampsOnTheWay, DirTrue, TalliesOf
  <2>5. ReportTrue(g, e)
    BY <1>1, <1>3 DEF DirOK, DirTrue, ReportTrue
  <2> QED BY <2>2, <2>3, <2>4, <2>5 DEF DirTrue
<1> QED BY <1>2, <1>3 DEF DirOK, e

LEMMA Scales ==
  ASSUME NEW g, NEW d, NEW at \in {"gauntlet", "mkdir"}, NEW next \in {"mkdir", "purge"},
         NEW stage, NEW count, NEW cuts, NEW job, DirOK(g, d, at, stage, count, cuts, job)
  PROVE  DirOK(g, d, next, stage, count, cuts, job)
BY DEF DirOK, DirShape, PlayedByChampion, SnapshotFirst, StampsOnTheWay, TrainsOnRows,
       DirTrue, StampsInOrder, LearnedFromRows, TalliesOf

LEMMA Purges ==
  ASSUME NEW g, NEW d, NEW stage, NEW count, NEW cuts, NEW job,
         DirOK(g, d, "purge", stage, count, cuts, job)
  PROVE  DirOK(g, [d EXCEPT !.log = LogsPurged(@)], "instance", stage, count, cuts, job)
<1> DEFINE e == [d EXCEPT !.log = LogsPurged(@)]
<1>1. /\ DOMAIN e = DOMAIN d /\ e.champ = d.champ /\ e.shard = d.shard /\ e.rows = d.rows
      /\ e.cand = d.cand /\ e.log = [i \in DOMAIN d.log |-> NoFile] /\ e.done = d.done /\ e.report = d.report
  BY DEF DirOK, DirShape, DirTyped, LogsPurged
<1> HIDE DEF e
<1>2. DirShape(e, "instance", stage, count)
  <2>1. PlayedByChampion(e, "instance", count)
    BY <1>1 DEF DirOK, DirShape, PlayedByChampion
  <2>2. e.champ # NoFile
    BY <1>1 DEF DirOK, DirShape, SnapshotFirst
  <2> QED BY <1>1, <2>1, <2>2, StagesAre DEF DirOK, DirShape, DirTyped, SnapshotFirst, StampsOnTheWay, TrainsOnRows, Stamps
<1>3. ASSUME g \notin cuts PROVE DirTrue(g, e, "instance", stage, job)
  <2>1. /\ "selfplay" \notin d.done => "train" \notin d.done /\ "gauntlet" \notin d.done
        /\ "train" \notin d.done => "gauntlet" \notin d.done
    BY <1>3, NothingAfter DEF DirOK
  <2>2. StampsInOrder(e, "instance", stage)
    BY <1>1, <1>3, <2>1, StagesAre DEF DirOK, DirShape, StampsOnTheWay, DirTrue, StampsInOrder
  <2>3. LearnedFromRows(g, e, "instance")
    BY <1>1, <1>3, <2>1 DEF DirOK, DirShape, StampsOnTheWay, DirTrue, LearnedFromRows
  <2>4. TalliesOf(e, "instance", job)
    BY <1>1, <1>3, <2>1 DEF DirOK, DirShape, StampsOnTheWay, DirTrue, TalliesOf
  <2>5. ReportTrue(g, e)
    BY <1>1, <1>3 DEF DirOK, DirTrue, ReportTrue
  <2> QED BY <2>2, <2>3, <2>4, <2>5 DEF DirTrue
<1> QED BY <1>2, <1>3 DEF DirOK, e

\* A log is torn, or has a tally of the candidate against the champion.
LEMMA Logs ==
  ASSUME NEW g, NEW d, NEW at \in {"instance", "playing"}, NEW stage, NEW count, NEW cuts, NEW job, NEW i, NEW log,
         DirOK(g, d, at, stage, count, cuts, job), log = Torn \/ (at = "playing" /\ log.a = job.netA /\ log.b = job.netB)
  PROVE  DirOK(g, [d EXCEPT !.log[i] = log], "instance", stage, count, cuts, job)
<1> DEFINE e == [d EXCEPT !.log[i] = log]
<1>1. /\ DOMAIN e = DOMAIN d /\ e.champ = d.champ /\ e.shard = d.shard /\ e.rows = d.rows
      /\ e.cand = d.cand /\ e.done = d.done /\ e.report = d.report
      /\ DOMAIN e.log = DOMAIN d.log /\ \A k \in DOMAIN d.log : e.log[k] = d.log[k] \/ e.log[k] = log
  BY DEF DirOK, DirShape, DirTyped
<1> HIDE DEF e
<1>2. DirShape(e, "instance", stage, count)
  <2>1. PlayedByChampion(e, "instance", count)
    BY <1>1 DEF DirOK, DirShape, PlayedByChampion
  <2>2. e.champ # NoFile
    BY <1>1 DEF DirOK, DirShape, SnapshotFirst
  <2> QED BY <1>1, <2>1, <2>2 DEF DirOK, DirShape, DirTyped, SnapshotFirst, StampsOnTheWay, TrainsOnRows
<1>3. ASSUME g \notin cuts PROVE DirTrue(g, e, "instance", stage, job)
  <2>1. \A k \in DOMAIN e.log : e.log[k] \notin {NoFile, Torn} => e.log[k].a = e.cand.net /\ e.log[k].b = e.champ
    BY <1>1, <1>3 DEF DirOK, DirTrue, TalliesOf
  <2> QED BY <1>1, <1>3, <2>1 DEF DirOK, DirTrue, StampsInOrder, LearnedFromRows, TalliesOf, ReportTrue
<1> QED BY <1>2, <1>3 DEF DirOK, e

LEMMA Plays ==
  ASSUME NEW g, NEW d, NEW stage, NEW count, NEW cuts, NEW job, NEW job2,
         DirOK(g, d, "instance", stage, count, cuts, job), job2.netA = d.cand.net, job2.netB = d.champ
  PROVE  DirOK(g, d, "playing", stage, count, cuts, job2)
BY DEF DirOK, DirShape, PlayedByChampion, SnapshotFirst, StampsOnTheWay, TrainsOnRows,
       DirTrue, StampsInOrder, LearnedFromRows, TalliesOf

LEMMA LocksUp ==
  ASSUME NEW g, NEW d, NEW stage, NEW count, NEW cuts, NEW job, DirOK(g, d, "instance", stage, count, cuts, job)
  PROVE  DirOK(g, d, "untrap", stage, count, cuts, job)
BY DEF DirOK, DirShape, PlayedByChampion, SnapshotFirst, StampsOnTheWay, TrainsOnRows,
       DirTrue, StampsInOrder, LearnedFromRows, TalliesOf

LEMMA StampsGauntlet ==
  ASSUME NEW g, NEW d, NEW at \in {"instance", "untrap"}, NEW stage, NEW count, NEW cuts, NEW job,
         DirOK(g, d, at, stage, count, cuts, job)
  PROVE  DirOK(g, [d EXCEPT !.done = @ \cup {"gauntlet"}], "until", stage, count, cuts, job)
<1> DEFINE e == [d EXCEPT !.done = @ \cup {"gauntlet"}]
<1>1. /\ DOMAIN e = DOMAIN d /\ e.champ = d.champ /\ e.shard = d.shard /\ e.rows = d.rows
      /\ e.cand = d.cand /\ e.log = d.log /\ e.done = d.done \cup {"gauntlet"} /\ e.report = d.report
  BY DEF DirOK, DirShape, DirTyped
<1> HIDE DEF e
<1>2. DirShape(e, "until", stage, count)
  <2>1. PlayedByChampion(e, "until", count)
    BY <1>1 DEF DirOK, DirShape, PlayedByChampion
  <2>2. e.champ # NoFile
    BY <1>1 DEF DirOK, DirShape, SnapshotFirst
  <2> QED BY <1>1, <2>1, <2>2, StagesAre DEF DirOK, DirShape, DirTyped, SnapshotFirst, StampsOnTheWay, TrainsOnRows, Stamps
<1>3. ASSUME g \notin cuts PROVE DirTrue(g, e, "until", stage, job)
  <2>1. /\ "selfplay" \notin d.done => "train" \notin d.done /\ "gauntlet" \notin d.done
        /\ "train" \notin d.done => "gauntlet" \notin d.done
    BY <1>3, NothingAfter DEF DirOK
  <2>2. StampsInOrder(e, "until", stage)
    BY <1>1, <1>3, <2>1, StagesAre DEF DirOK, DirShape, StampsOnTheWay, DirTrue, StampsInOrder
  <2>3. LearnedFromRows(g, e, "until")
    BY <1>1, <1>3, <2>1 DEF DirOK, DirShape, StampsOnTheWay, DirTrue, LearnedFromRows
  <2>4. TalliesOf(e, "until", job)
    BY <1>1, <1>3, <2>1 DEF DirOK, DirShape, StampsOnTheWay, DirTrue, TalliesOf
  <2>5. ReportTrue(g, e)
    BY <1>1, <1>3 DEF DirOK, DirTrue, ReportTrue
  <2> QED BY <2>2, <2>3, <2>4, <2>5 DEF DirTrue
<1> QED BY <1>2, <1>3 DEF DirOK, e

LEMMA Reports ==
  ASSUME NEW g, NEW d, NEW stage, NEW count, NEW cuts, NEW job, NEW report,
         DirOK(g, d, "report", stage, count, cuts, job),
         report.logs = {d.log[i] : i \in {k \in DOMAIN d.log : d.log[k] \notin {NoFile, Torn}}},
         report.cand = d.cand, report.champ = d.champ, report.rows = d.rows
  PROVE  DirOK(g, [d EXCEPT !.report = report], "report", stage, count, cuts, job)
<1> DEFINE e == [d EXCEPT !.report = report]
<1>1. /\ DOMAIN e = DOMAIN d /\ e.champ = d.champ /\ e.shard = d.shard /\ e.rows = d.rows
      /\ e.cand = d.cand /\ e.log = d.log /\ e.done = d.done /\ e.report = report
  BY DEF DirOK, DirShape, DirTyped
<1> HIDE DEF e
<1>2. DirShape(e, "report", stage, count)
  <2>1. PlayedByChampion(e, "report", count)
    BY <1>1 DEF DirOK, DirShape, PlayedByChampion
  <2>2. e.champ # NoFile
    BY <1>1 DEF DirOK, DirShape, SnapshotFirst
  <2> QED BY <1>1, <2>1, <2>2 DEF DirOK, DirShape, DirTyped, SnapshotFirst, StampsOnTheWay, TrainsOnRows
<1>3. ASSUME g \notin cuts PROVE DirTrue(g, e, "report", stage, job)
  <2>1. d.done = Stamps
    BY DEF DirOK, DirShape, StampsOnTheWay
  <2>2. d.rows # NoFile /\ g \in DOMAIN d.cand.from /\ d.cand.from[g] = d.rows
    BY <1>3, <2>1 DEF DirOK, DirTrue, LearnedFromRows, Stamps
  <2>3. \A c \in DOMAIN d.rows : d.rows[c].net = d.champ
    BY <2>2 DEF DirOK, DirShape, PlayedByChampion, GamesBy, OfNet
  <2>4. \A log \in report.logs : log.a = d.cand.net /\ log.b = d.champ
    BY <1>3, <2>1 DEF DirOK, DirTrue, TalliesOf, Stamps
  <2>5. ReportTrue(g, e)
    BY <1>1, <2>2, <2>3, <2>4 DEF ReportTrue
  <2> QED BY <1>1, <1>3, <2>5 DEF DirOK, DirTrue, StampsInOrder, LearnedFromRows, TalliesOf
<1> QED BY <1>2, <1>3 DEF DirOK, e

\* The container of a killed run writes where the generation is cut.
LEMMA CutIsWritten ==
  ASSUME NEW g, NEW d, NEW at, NEW stage, NEW count, NEW cuts, NEW job, NEW cand,
         DirOK(g, d, at, stage, count, cuts, job), g \in cuts
  PROVE  DirOK(g, [d EXCEPT !.cand = cand], at, stage, count, cuts, job)
<1> DEFINE e == [d EXCEPT !.cand = cand]
<1>1. /\ DOMAIN e = DOMAIN d /\ e.champ = d.champ /\ e.shard = d.shard /\ e.rows = d.rows
      /\ e.cand = cand /\ e.log = d.log /\ e.done = d.done /\ e.report = d.report
  BY DEF DirOK, DirShape, DirTyped
<1> HIDE DEF e
<1>2. DirShape(e, at, stage, count)
  BY <1>1 DEF DirOK, DirShape, DirTyped, PlayedByChampion, SnapshotFirst, StampsOnTheWay, TrainsOnRows, HasGames
<1> QED BY <1>2 DEF DirOK, e


-----------------------------------------------------------------------------
(* The steps of the script *)

Gen == run.inv.gen
DirIs(e, at, stage, cuts, job) == DirOK(Gen, e, at, stage, run.inv.shards, cuts, job)
DirWas(at) == Gen \in 1..GenCount /\ DirIs(Dir, at, run.stage, cut, pools["gate"].job)

\* A step that writes no directory but the run's own.
Only(e) ==
  /\ DOMAIN disk' = DOMAIN disk /\ disk'[Gen] = e
  /\ \A h \in 1..GenCount : h # Gen => disk'[h] = disk[h]

LEMMA WritesOnlyIts ==
  ASSUME NEW e, FilesInv, run.live, \/ disk' = disk /\ e = Dir
                                    \/ Write(e)
  PROVE  Only(e)
<1>1. Gen \in 1..GenCount /\ DOMAIN disk = 1..GenCount
  BY GenerationAssumption DEF FilesInv, Gen
<1> QED BY <1>1 DEF Only, Write, Dir, Gen

LEMMA AtIs ==
  ASSUME FilesInv, NEW at, AtPoint(at)
  PROVE  DirWas(at)
<1>1. Gen \in 1..GenCount /\ run.live /\ run.at = at
  BY GenerationAssumption DEF FilesInv, Gen, AtPoint
<1>2. PointIn(Gen) = at
  BY <1>1 DEF PointIn, Here, Gen
<1> QED BY <1>1, <1>2 DEF FilesInv, DirWas, DirIs, Dir, Gen

\* The run goes on.
LEMMA Advances ==
  ASSUME FilesInv, run.live, NEW e, Only(e), run'.live, run'.inv = run.inv,
         artifact' = artifact, container' = container, cut' = cut,
         DOMAIN pools' = DOMAIN pools, run'.at = "playing" => "job" \in DOMAIN pools'["gate"],
         DirIs(e, run'.at, run'.stage, cut, pools'["gate"].job)
  PROVE  FilesInv'
<1>1. /\ artifact' \in Champions /\ DOMAIN disk' = 1..GenCount /\ DOMAIN pools' = {"gate", "arena"}
      /\ run'.inv \in Invocations
      /\ container' # NoFile => container'.gen \in cut' /\ container'.gen \in 1..GenCount
  BY DEF FilesInv, Only
<1>2. ASSUME NEW g \in 1..GenCount
      PROVE  DirOK(g, disk'[g], PointIn(g)', run'.stage, run'.inv.shards, cut', pools'["gate"].job)
  <2>1. CASE g = Gen
    <3>1. PointIn(g)' = run'.at
      BY <2>1 DEF PointIn, Here, Gen
    <3> QED BY <2>1, <3>1 DEF Only, DirIs
  <2>2. CASE g # Gen
    <3>1. PointIn(g)' = "none" /\ PointIn(g) = "none" /\ disk'[g] = disk[g]
      BY <2>2 DEF PointIn, Here, Gen, Only
    <3>2. DirOK(g, disk[g], "none", run.stage, run.inv.shards, cut, pools["gate"].job)
      BY <3>1 DEF FilesInv
    <3> QED BY <3>1, <3>2, Leaves
  <2> QED BY <2>1, <2>2
<1> QED BY <1>1, <1>2 DEF FilesInv

\* The run ends.
LEMMA Stops ==
  ASSUME FilesInv, run.live, NEW e, Only(e), ~run'.live, artifact' = artifact,
         cut \subseteq cut', container' # NoFile => container'.gen \in cut' /\ container'.gen \in 1..GenCount,
         DOMAIN pools' = DOMAIN pools, NEW stage, NEW job, DirIs(e, "none", stage, cut', job)
  PROVE  FilesInv'
<1>1. artifact' \in Champions /\ DOMAIN disk' = 1..GenCount /\ DOMAIN pools' = {"gate", "arena"}
  BY DEF FilesInv, Only
<1>2. ASSUME NEW g \in 1..GenCount
      PROVE  DirOK(g, disk'[g], PointIn(g)', run'.stage, run'.inv.shards, cut', pools'["gate"].job)
  <2>1. PointIn(g)' = "none"
    BY DEF PointIn, Here
  <2>2. CASE g = Gen
    BY <2>1, <2>2, Leaves DEF Only, DirIs
  <2>3. CASE g # Gen
    <3>1. PointIn(g) = "none" /\ disk'[g] = disk[g]
      BY <2>3 DEF PointIn, Here, Gen, Only
    <3>2. DirOK(g, disk[g], "none", run.stage, run.inv.shards, cut, pools["gate"].job)
      BY <3>1 DEF FilesInv
    <3> QED BY <2>1, <3>1, <3>2, Leaves
  <2> QED BY <2>2, <2>3
<1> QED BY <1>1, <1>2 DEF FilesInv

\* The script exits where no stamps are being cleared.
LEMMA Dies ==
  ASSUME FilesInv, NEW code, Exits(code), NEW at, NEW e, NEW job, run.live, Only(e), at # "clear",
         DirIs(e, at, run.stage, cut, job), UNCHANGED <<artifact, container, cut>>, DOMAIN pools' = DOMAIN pools
  PROVE  FilesInv'
<1>1. ~run'.live
  BY DEF Exits, Ended
<1>2. DirIs(e, "none", run.stage, cut', job)
  BY Leaves DEF DirIs
<1> QED BY <1>1, <1>2, Stops DEF FilesInv

\* A step that moves the run and writes its directory, and nothing else.
Frame == UNCHANGED <<artifact, container, cut, pools>>


\* What a step does to the point of the run.
GoesTo(point, stage) == run'.live /\ run'.inv = run.inv /\ run'.at = point /\ run'.stage = stage

LEMMA RunIs ==
  ASSUME LockInv, run.live
  PROVE  run.live = TRUE /\ DOMAIN run = {"live", "inv", "at", "stage", "took", "trap", "instances", "instance"}
BY DEF LockInv, RunOK

LEMMA InvokeFiles ==
  ASSUME FilesInv, LockInv, Invoke
  PROVE  FilesInv'
<1>1. PICK inv \in Invocations : run' = [live |-> TRUE, inv |-> inv, at |-> "snapshot", stage |-> 1, took |-> FALSE,
                                         trap |-> FALSE, instances |-> 0, instance |-> 0]
  BY DEF Invoke
<1>2. /\ run'.live /\ run'.inv = inv /\ run'.at = "snapshot" /\ run'.stage = 1 /\ ~run.live
      /\ UNCHANGED <<artifact, disk, container, cut, pools>>
  BY <1>1 DEF Invoke
<1>3. ASSUME NEW g \in 1..GenCount
      PROVE  DirOK(g, disk'[g], PointIn(g)', run'.stage, run'.inv.shards, cut', pools'["gate"].job)
  <2>1. DirOK(g, disk[g], "none", run.stage, run.inv.shards, cut, pools["gate"].job)
    BY <1>2 DEF FilesInv, PointIn, Here
  <2>2. DirOK(g, disk[g], "none", 1, inv.shards, cut, pools["gate"].job)
    BY <2>1, Leaves
  <2>3. DirOK(g, disk[g], "snapshot", 1, inv.shards, cut, pools["gate"].job)
    BY <2>1, Starts
  <2>4. PointIn(g)' = "none" \/ PointIn(g)' = "snapshot"
    BY <1>2 DEF PointIn
  <2> QED BY <1>2, <2>2, <2>3, <2>4
<1> QED BY <1>2, <1>3 DEF FilesInv

LEMMA FirstIs ==
  ASSUME run.inv \in Invocations
  PROVE  FirstCleared \in 1..5
<1>1. run.inv.from \in {"", "selfplay", "train", "gauntlet", "report"}
  BY GenerationAssumption
<1>2. \A name \in {"selfplay", "train", "gauntlet", "report"} : \E k \in 1..4 : Stages[k] = name
  BY StagesAre
<1>3. \A name \in {"selfplay", "train", "gauntlet", "report"} : StageNo(name) \in 1..4
  BY <1>2 DEF StageNo
<1>4. run.inv.from # "" => StageNo(run.inv.from) \in 1..4
  BY <1>1, <1>3, Zenon
<1>5. 5 \in 1..5 /\ 1..4 \subseteq 1..5
  OBVIOUS
<1> QED BY <1>4, <1>5 DEF FirstCleared

LEMMA StartFiles ==
  ASSUME FilesInv, LockInv, SnapshotChampion \/ Copied \/ ClearStamp \/ Dispatch \/ Until
  PROVE  FilesInv'
<1> USE DEF Frame, DirWas, DirIs
<1>1. CASE SnapshotChampion
  <2>1. AtPoint("snapshot") /\ run.live /\ Frame /\ DirWas("snapshot") /\ FirstCleared \in 1..5
    BY <1>1, AtIs, FirstIs DEF SnapshotChampion, AtPoint, FilesInv
  <2>2. CASE SnapshotIsDue
    <3>1. Write([Dir EXCEPT !.champ = Torn]) /\ GoesTo("copying", run.stage)
      BY <1>1, <2>1, <2>2, RunIs DEF SnapshotChampion, GoesTo, Goto
    <3>2. DirIs([Dir EXCEPT !.champ = Torn], "copying", run.stage, cut, pools["gate"].job)
      BY <2>1, <2>2, Creates DEF SnapshotIsDue
    <3> HIDE DEF DirIs
    <3> QED BY <2>1, <3>1, <3>2, WritesOnlyIts, Advances DEF GoesTo
  <2>3. CASE ~SnapshotIsDue
    <3>1. disk' = disk /\ GoesTo("clear", FirstCleared)
      BY <1>1, <2>1, <2>3, RunIs DEF SnapshotChampion, GoesTo, Goto
    <3>2. DirIs(Dir, "clear", FirstCleared, cut, pools["gate"].job)
      BY <2>1, <2>3, KeepsSnapshot DEF SnapshotIsDue
    <3> HIDE DEF DirIs
    <3> QED BY <2>1, <3>1, <3>2, WritesOnlyIts, Advances DEF GoesTo
  <2> QED BY <2>2, <2>3
<1>2. CASE Copied
  <2>1. AtPoint("copying") /\ run.live /\ Frame /\ DirWas("copying") /\ FirstCleared \in 1..5
    BY <1>2, AtIs, FirstIs DEF Copied, AtPoint, FilesInv
  <2>2. Write([Dir EXCEPT !.champ = artifact]) /\ GoesTo("clear", FirstCleared)
    BY <1>2, <2>1, RunIs DEF Copied, GoesTo, Goto
  <2>3. artifact # NoFile
    BY GenerationAssumption DEF FilesInv
  <2>4. DirIs([Dir EXCEPT !.champ = artifact], "clear", FirstCleared, cut, pools["gate"].job)
    BY <2>1, <2>3, Copies
  <2> HIDE DEF DirIs
  <2> QED BY <2>1, <2>2, <2>4, WritesOnlyIts, Advances DEF GoesTo
<1>3. CASE ClearStamp
  <2>1. AtPoint("clear") /\ run.live /\ Frame /\ DirWas("clear") /\ run.at = "clear"
    BY <1>3, AtIs DEF ClearStamp, AtPoint
  <2>2. CASE run.stage > 4
    <3>1. disk' = disk /\ GoesTo("dispatch", 1)
      BY <1>3, <2>1, <2>2, RunIs DEF ClearStamp, GoesTo, Goto
    <3>2. DirIs(Dir, "dispatch", 1, cut, pools["gate"].job)
      BY <2>1, <2>2, Cleared
    <3> HIDE DEF DirIs
    <3> QED BY <2>1, <3>1, <3>2, WritesOnlyIts, Advances DEF GoesTo
  <2>3. CASE ~(run.stage > 4)
    <3>1. Write([Dir EXCEPT !.done = @ \ {Stages[run.stage]}]) /\ GoesTo("clear", run.stage + 1)
      BY <1>3, <2>1, <2>3, RunIs DEF ClearStamp, GoesTo, Goto
    <3>2. DirIs([Dir EXCEPT !.done = @ \ {Stages[run.stage]}], "clear", run.stage + 1, cut, pools["gate"].job)
      BY <2>1, <2>3, Clears
    <3> HIDE DEF DirIs
    <3> QED BY <2>1, <3>1, <3>2, WritesOnlyIts, Advances DEF GoesTo
  <2> QED BY <2>2, <2>3
<1>4. CASE Dispatch
  <2>1. AtPoint("dispatch") /\ run.live /\ Frame /\ DirWas("dispatch") /\ disk' = disk
    BY <1>4, AtIs DEF Dispatch, AtPoint
  <2>2. CASE Stages[run.stage] \in Dir.done
    <3>1. GoesTo("until", run.stage)
      BY <1>4, <2>1, <2>2, RunIs DEF Dispatch, GoesTo, Goto
    <3>2. DirIs(Dir, "until", run.stage, cut, pools["gate"].job)
      BY <2>1, <2>2, Skips
    <3> HIDE DEF DirIs
    <3> QED BY <2>1, <3>1, <3>2, WritesOnlyIts, Advances DEF GoesTo
  <2>3. CASE Stages[run.stage] \notin Dir.done
    <3>1. GoesTo(Stages[run.stage], run.stage)
      BY <1>4, <2>1, <2>3, RunIs DEF Dispatch, GoesTo, Goto
    <3>2. DirIs(Dir, Stages[run.stage], run.stage, cut, pools["gate"].job)
      BY <2>1, <2>3, Enters
    <3>3. Stages[run.stage] # "playing"
      <4>1. run.stage \in 1..4
        BY <2>1 DEF DirOK, DirShape, StampsOnTheWay
      <4> QED BY <4>1, StagesAre
    <3> HIDE DEF DirIs
    <3> QED BY <2>1, <3>1, <3>2, <3>3, WritesOnlyIts, Advances DEF GoesTo
  <2> QED BY <2>2, <2>3
<1>5. CASE Until
  <2>1. AtPoint("until") /\ run.live /\ Frame /\ DirWas("until") /\ disk' = disk
    BY <1>5, AtIs DEF Until, AtPoint
  <2>2. CASE Stages[run.stage] = run.inv.until
    <3>1. Exits("0") /\ DirIs(Dir, "until", run.stage, cut, pools["gate"].job)
      BY <1>5, <2>1, <2>2 DEF Until
    <3> HIDE DEF DirIs
    <3> QED BY <2>1, <3>1, WritesOnlyIts, Dies
  <2>3. CASE Stages[run.stage] # run.inv.until
    <3>1. GoesTo("dispatch", run.stage + 1)
      BY <1>5, <2>1, <2>3, RunIs DEF Until, GoesTo, Goto
    <3>2. DirIs(Dir, "dispatch", run.stage + 1, cut, pools["gate"].job)
      BY <2>1, GoesOn
    <3> HIDE DEF DirIs
    <3> QED BY <2>1, <3>1, <3>2, WritesOnlyIts, Advances DEF GoesTo
  <2> QED BY <2>2, <2>3
<1> QED BY <1>1, <1>2, <1>3, <1>4, <1>5


LEMMA ShardWritten ==
  ASSUME NEW net, NEW shard, ShardBy(net, shard)
  PROVE  ShardBy(net, Generated(shard)) /\ ShardBy(net, GeneratedTorn(shard))
<1>1. ASSUME NEW g, NEW report PROVE ShardBy(net, Wrote(shard, g, report))
  <2>1. GamesBy(net, Append(shard.file, Chunk(shard.net, g, report)))
    BY AppendedGames DEF ShardBy, Chunk, OfNet
  <2>2. /\ {"net", "file"} \subseteq DOMAIN Wrote(shard, g, report)
        /\ Wrote(shard, g, report).net = net
        /\ Wrote(shard, g, report).file = Append(shard.file, Chunk(shard.net, g, report))
    BY DEF ShardBy, Wrote
  <2> QED BY <2>1, <2>2 DEF ShardBy
<1>2. ASSUME NEW g, NEW report PROVE ShardBy(net, Tore(shard, Chunk(shard.net, g, report)))
  <2> DEFINE chunk == [Chunk(shard.net, g, report) EXCEPT !.torn = TRUE]
  <2>1. OfNet(net, chunk)
    BY DEF ShardBy, Chunk, OfNet
  <2>2. /\ {"net", "file"} \subseteq DOMAIN Tore(shard, Chunk(shard.net, g, report))
        /\ Tore(shard, Chunk(shard.net, g, report)).net = net
        /\ Tore(shard, Chunk(shard.net, g, report)).file = Append(shard.file, chunk)
    BY DEF ShardBy, Tore
  <2> HIDE DEF chunk
  <2>3. GamesBy(net, Append(shard.file, chunk))
    BY <2>1, AppendedGames DEF ShardBy
  <2> QED BY <2>2, <2>3 DEF ShardBy
<1> QED BY <1>1, <1>2 DEF Generated, GeneratedTorn

LEMMA WriteFiles ==
  ASSUME FilesInv, LockInv, AtPoint("wait"), NEW i \in Shards, i < run.inv.shards, NEW shard, UNCHANGED run, Frame,
         ShardBy(Dir.champ, Dir.shard[i]) => ShardBy(Dir.champ, shard), Write([Dir EXCEPT !.shard[i] = shard])
  PROVE  FilesInv'
<1>1. DirWas("wait") /\ run.live /\ run.at = "wait" /\ Frame
  BY AtIs DEF AtPoint
<1>2. ShardBy(Dir.champ, Dir.shard[i])
  BY <1>1 DEF DirWas, DirIs, DirOK, DirShape, PlayedByChampion
<1>3. DirIs([Dir EXCEPT !.shard[i] = shard], "wait", run.stage, cut, pools["gate"].job)
  BY <1>1, <1>2, Writes DEF DirWas, DirIs
<1> QED BY <1>1, <1>3, WritesOnlyIts, Advances DEF Frame

\* What cat reads and what it has written are games of the champion.
LEMMA SourcesAre ==
  ASSUME DirWas("cat"), run.instance \in Shards
  PROVE  GamesBy(Dir.champ, RowsSoFar) /\ GamesBy(Dir.champ, Dir.shard[run.instance].file)
<1>1. PlayedByChampion(Dir, "cat", run.inv.shards)
  BY DEF DirWas, DirIs, DirOK, DirShape
<1>2. GamesBy(Dir.champ, RowsSoFar)
  BY <1>1, NoGames DEF PlayedByChampion, RowsSoFar
<1>3. CASE Dir.shard[run.instance] = NoShard
  BY <1>2, <1>3, NoGames DEF NoShard
<1>4. CASE Dir.shard[run.instance] # NoShard
  BY <1>1, <1>2, <1>4 DEF PlayedByChampion, ShardBy
<1> QED BY <1>3, <1>4

LEMMA SelfPlayFiles ==
  ASSUME FilesInv, LockInv,
         \/ LaunchShards \/ Waited \/ Concatenate \/ ConcatenateFails \/ Validate
         \/ \E i \in Shards : ShardPlays(i) \/ ShardFails(i)
  PROVE  FilesInv'
<1> USE DEF Frame, DirWas, DirIs
<1>1. CASE LaunchShards
  <2> DEFINE shards == [i \in Shards |->
                 IF i < run.inv.shards THEN Launched(Dir.champ, Dir.champ \in Loadable, i, run.inv.shards, run.inv.env)
                 ELSE Purged(Dir.shard)[i]]
  <2>1. AtPoint("selfplay") /\ run.live /\ Frame /\ DirWas("selfplay") /\ run.at = "selfplay"
    BY <1>1, AtIs DEF LaunchShards, AtPoint
  <2>2. \A i \in Shards : IF i < run.inv.shards THEN ShardBy(Dir.champ, shards[i]) ELSE shards[i] = NoShard
    BY NoGames DEF Launched, ShardBy, Purged
  <2>3. DOMAIN shards = Shards
    OBVIOUS
  <2>4. Write([Dir EXCEPT !.rows = NoFile, !.short = FALSE, !.shard = shards]) /\ GoesTo("wait", run.stage)
    BY <1>1, <2>1, RunIs DEF LaunchShards, GoesTo, Goto
  <2> HIDE DEF shards
  <2>5. DirIs([Dir EXCEPT !.rows = NoFile, !.short = FALSE, !.shard = shards], "wait", run.stage, cut, pools["gate"].job)
    BY <2>1, <2>2, <2>3, Launches
  <2> HIDE DEF DirIs
  <2> QED BY <2>1, <2>4, <2>5, WritesOnlyIts, Advances DEF GoesTo
<1>2. CASE Waited
  <2>1. AtPoint("wait") /\ run.live /\ Frame /\ DirWas("wait") /\ disk' = disk
    BY <1>2, AtIs DEF Waited, AtPoint
  <2>2. CASE Exits("2")
    <3>1. DirIs(Dir, "wait", run.stage, cut, pools["gate"].job)
      BY <2>1
    <3> HIDE DEF DirIs
    <3> QED BY <2>1, <2>2, <3>1, WritesOnlyIts, Dies
  <2>3. CASE run' = [run EXCEPT !.at = "cat", !.instance = 0]
    <3>1. GoesTo("cat", run.stage)
      BY <2>1, <2>3, RunIs DEF GoesTo
    <3>2. DirIs(Dir, "cat", run.stage, cut, pools["gate"].job)
      BY <2>1, AllWritten
    <3> HIDE DEF DirIs
    <3> QED BY <2>1, <3>1, <3>2, WritesOnlyIts, Advances DEF GoesTo
  <2> QED BY <1>2, <2>2, <2>3 DEF Waited
<1>3. CASE Concatenate
  <2>1. AtPoint("cat") /\ run.live /\ Frame /\ DirWas("cat") /\ run.at = "cat"
    BY <1>3, AtIs DEF Concatenate, AtPoint
  <2>2. CASE run.instance \notin Shards
    <3>1. disk' = disk /\ GoesTo("validate", run.stage)
      BY <1>3, <2>1, <2>2, RunIs DEF Concatenate, GoesTo, Goto
    <3>2. DirIs(Dir, "validate", run.stage, cut, pools["gate"].job)
      BY <2>1, AllConcatenated
    <3> HIDE DEF DirIs
    <3> QED BY <2>1, <3>1, <3>2, WritesOnlyIts, Advances DEF GoesTo
  <2>3. CASE run.instance \in Shards
    <3> DEFINE rows == RowsSoFar \o Dir.shard[run.instance].file
    <3>1. Write([Dir EXCEPT !.rows = rows]) /\ GoesTo("cat", run.stage)
      BY <1>3, <2>1, <2>3, RunIs DEF Concatenate, GoesTo
    <3>2. GamesBy(Dir.champ, RowsSoFar) /\ GamesBy(Dir.champ, Dir.shard[run.instance].file)
      BY <2>1, <2>3, SourcesAre
    <3>3. GamesBy(Dir.champ, rows)
      BY <3>2, ConcatenatedGames
    <3> HIDE DEF rows
    <3>4. DirIs([Dir EXCEPT !.rows = rows, !.short = Dir.short], "cat", run.stage, cut, pools["gate"].job)
      BY <2>1, <3>3, Concatenates
    <3>5. [Dir EXCEPT !.rows = rows, !.short = Dir.short] = [Dir EXCEPT !.rows = rows]
      BY <2>1 DEF DirOK, DirShape, DirTyped
    <3> HIDE DEF DirIs
    <3> QED BY <2>1, <3>1, <3>4, <3>5, WritesOnlyIts, Advances DEF GoesTo
  <2> QED BY <2>2, <2>3
<1>6. CASE ConcatenateFails
  <2>1. AtPoint("cat") /\ run.live /\ Frame /\ DirWas("cat") /\ run.at = "cat" /\ run.instance \in Shards
    BY <1>6, AtIs DEF ConcatenateFails, AtPoint
  <2>2. PICK part \in Fragments(Dir.shard[run.instance].file) : Write([Dir EXCEPT !.rows = RowsSoFar \o part, !.short = TRUE])
    BY <1>6 DEF ConcatenateFails
  <2> DEFINE rows == RowsSoFar \o part
             e == [Dir EXCEPT !.rows = rows, !.short = TRUE]
  <2>3. GamesBy(Dir.champ, RowsSoFar) /\ GamesBy(Dir.champ, part)
    BY <2>1, SourcesAre, FragmentsBy
  <2>4. GamesBy(Dir.champ, rows)
    BY <2>3, ConcatenatedGames
  <2> HIDE DEF rows
  <2>5. DirIs(e, "cat", run.stage, cut, pools["gate"].job)
    BY <2>1, <2>4, Concatenates
  <2>6. DirIs(e, "validate", run.stage, cut, pools["gate"].job)
    BY <2>5, AllConcatenated
  <2>7. Write(e) /\ (GoesTo("cat", run.stage) \/ GoesTo("validate", run.stage))
    BY <1>6, <2>1, <2>2, RunIs DEF ConcatenateFails, GoesTo, Goto, rows
  <2> HIDE DEF DirIs, e
  <2> QED BY <2>1, <2>5, <2>6, <2>7, WritesOnlyIts, Advances DEF GoesTo
<1>4. CASE Validate
  <2>1. AtPoint("validate") /\ run.live /\ Frame /\ DirWas("validate")
    BY <1>4, AtIs DEF Validate, AtPoint
  <2>2. CASE RowsAreValid(Dir.rows)
    <3>1. Write([Dir EXCEPT !.done = @ \cup {"selfplay"}]) /\ GoesTo("until", run.stage)
      BY <1>4, <2>1, <2>2, RunIs DEF Validate, GoesTo, Goto
    <3>2. DirIs([Dir EXCEPT !.done = @ \cup {"selfplay"}], "until", run.stage, cut, pools["gate"].job)
      BY <2>1, StampsSelfPlay
    <3> HIDE DEF DirIs
    <3> QED BY <2>1, <3>1, <3>2, WritesOnlyIts, Advances DEF GoesTo
  <2>3. CASE ~RowsAreValid(Dir.rows)
    <3>1. Exits("2") /\ disk' = disk /\ DirIs(Dir, "validate", run.stage, cut, pools["gate"].job)
      BY <1>4, <2>1, <2>3 DEF Validate
    <3> HIDE DEF DirIs
    <3> QED BY <2>1, <3>1, WritesOnlyIts, Dies
  <2> QED BY <2>2, <2>3
<1>5. ASSUME NEW i \in Shards, ShardPlays(i) \/ ShardFails(i) PROVE FilesInv'
  <2>1. AtPoint("wait") /\ i < run.inv.shards /\ UNCHANGED run /\ Frame
    BY <1>5 DEF ShardPlays, ShardFails, Playing
  <2>2. \/ Write([Dir EXCEPT !.shard[i] = Generated(Dir.shard[i])])
        \/ Write([Dir EXCEPT !.shard[i] = GeneratedTorn(Dir.shard[i])])
    BY <1>5 DEF ShardPlays, ShardFails
  <2> QED BY <2>1, <2>2, ShardWritten, WriteFiles
<1> QED BY <1>1, <1>2, <1>3, <1>4, <1>5, <1>6


\* A generation with rows is in its own window.
LEMMA LearnsFromItsRows ==
  ASSUME NEW net, Gen \in 1..GenCount, HasGames(Dir)
  PROVE  Gen \in DOMAIN Candidate(net).from /\ Candidate(net).from[Gen] = Dir.rows
<1>1. Gen \in TrainWindow
  <2>1. HasRows(Gen)
    BY DEF HasRows, HasGames, Dir, Gen
  <2>2. Gen \in (Gen - Window + 1)..Gen /\ Gen >= 1
    <3>1. Window \in Nat /\ Window # 0 /\ GenCount \in Nat
      BY GenerationAssumption
    <3> DEFINE n == Gen
    <3>2. n \in 1..GenCount
      OBVIOUS
    <3> HIDE DEF n
    <3>3. n \in (n - Window + 1)..n /\ n >= 1
      BY <3>1, <3>2
    <3> QED BY <3>3 DEF n
  <2> QED BY <2>1, <2>2 DEF TrainWindow, Gen
<1> QED BY <1>1 DEF Candidate, Dir, Gen

LEMMA TrainFiles ==
  ASSUME FilesInv, LockInv, StartTraining \/ Trained \/ CheckCandidate
  PROVE  FilesInv'
<1> USE DEF Frame, DirWas, DirIs
<1>1. CASE StartTraining
  <2>1. AtPoint("train") /\ run.live /\ Frame /\ DirWas("train")
    BY <1>1, AtIs DEF StartTraining, AtPoint
  <2>2. CASE HasRows(Gen)
    <3>1. Write([Dir EXCEPT !.cand = NoFile]) /\ GoesTo("training", run.stage)
      BY <1>1, <2>1, <2>2, RunIs DEF StartTraining, GoesTo, Goto, Gen
    <3>2. HasGames(Dir)
      BY <2>2 DEF HasRows, HasGames, Dir, Gen
    <3>3. DirIs([Dir EXCEPT !.cand = NoFile], "training", run.stage, cut, pools["gate"].job)
      BY <2>1, <3>2, StartsTrainer
    <3> HIDE DEF DirIs
    <3> QED BY <2>1, <3>1, <3>3, WritesOnlyIts, Advances DEF GoesTo
  <2>3. CASE ~HasRows(Gen)
    <3>1. Exits("2") /\ disk' = disk /\ DirIs(Dir, "train", run.stage, cut, pools["gate"].job)
      BY <1>1, <2>1, <2>3 DEF StartTraining, Gen
    <3> HIDE DEF DirIs
    <3> QED BY <2>1, <3>1, WritesOnlyIts, Dies
  <2> QED BY <2>2, <2>3
<1>2. CASE Trained
  <2>1. AtPoint("training") /\ run.live /\ Frame /\ DirWas("training")
    BY <1>2, AtIs DEF Trained, AtPoint
  <2>2. PICK net \in Candidates : Write([Dir EXCEPT !.cand = Candidate(net)])
    BY <1>2 DEF Trained
  <2>3. GoesTo("check", run.stage)
    BY <1>2, <2>1, RunIs DEF Trained, GoesTo, Goto
  <2>4. HasGames(Dir) => Gen \in DOMAIN Candidate(net).from /\ Candidate(net).from[Gen] = Dir.rows
    BY <2>1, LearnsFromItsRows
  <2>5. DirIs([Dir EXCEPT !.cand = Candidate(net)], "check", run.stage, cut, pools["gate"].job)
    BY <2>1, <2>4, Trains
  <2> HIDE DEF DirIs
  <2> QED BY <2>1, <2>2, <2>3, <2>5, WritesOnlyIts, Advances DEF GoesTo
<1>3. CASE CheckCandidate
  <2>1. AtPoint("check") /\ run.live /\ Frame /\ DirWas("check")
    BY <1>3, AtIs DEF CheckCandidate, AtPoint
  <2>2. Write([Dir EXCEPT !.done = @ \cup {"train"}]) /\ GoesTo("until", run.stage)
    BY <1>3, <2>1, RunIs DEF CheckCandidate, GoesTo, Goto
  <2>3. DirIs([Dir EXCEPT !.done = @ \cup {"train"}], "until", run.stage, cut, pools["gate"].job)
    BY <2>1, StampsTrain
  <2> HIDE DEF DirIs
  <2> QED BY <2>1, <2>2, <2>3, WritesOnlyIts, Advances DEF GoesTo
<1> QED BY <1>1, <1>2, <1>3

LEMMA GauntletFiles ==
  ASSUME FilesInv, LockInv, Autoscale \/ TakeLock \/ SetTrap \/ PurgeLogs \/ StartInstance \/ EndInstance
         \/ GiveLockBack \/ GauntletDone
  PROVE  FilesInv'
<1> USE DEF Frame, DirWas, DirIs
<1>1. CASE Autoscale
  <2>1. AtPoint("gauntlet") /\ run.live /\ Frame /\ DirWas("gauntlet") /\ disk' = disk
    BY <1>1, AtIs DEF Autoscale, AtPoint
  <2>2. CASE Dir.cand = NoFile
    <3>1. Exits("2") /\ DirIs(Dir, "gauntlet", run.stage, cut, pools["gate"].job)
      BY <1>1, <2>1, <2>2 DEF Autoscale
    <3> HIDE DEF DirIs
    <3> QED BY <2>1, <3>1, WritesOnlyIts, Dies
  <2>3. CASE Dir.cand # NoFile
    <3>1. \E point \in {"mkdir", "purge"} :
            run' = [run EXCEPT !.at = point, !.instance = 0, !.instances = run.inv.instances]
      BY <1>1, <2>3 DEF Autoscale
    <3>2. GoesTo("mkdir", run.stage) \/ GoesTo("purge", run.stage)
      BY <2>1, <3>1, RunIs DEF GoesTo
    <3>3. DirIs(Dir, "mkdir", run.stage, cut, pools["gate"].job) /\ DirIs(Dir, "purge", run.stage, cut, pools["gate"].job)
      BY <2>1, Scales
    <3> HIDE DEF DirIs
    <3> QED BY <2>1, <3>2, <3>3, WritesOnlyIts, Advances DEF GoesTo
  <2> QED BY <2>2, <2>3
<1>6. CASE TakeLock
  <2>1. AtPoint("mkdir") /\ run.live /\ Frame /\ DirWas("mkdir") /\ disk' = disk
    BY <1>6, AtIs DEF TakeLock, AtPoint
  <2>2. GoesTo("mkdir", run.stage) \/ GoesTo("purge", run.stage)
    <3>1. run' = [run EXCEPT !.took = TRUE] \/ run' = [run EXCEPT !.at = "purge"]
      BY <1>6 DEF TakeLock, Goto
    <3> QED BY <2>1, <3>1, RunIs DEF GoesTo, AtPoint
  <2>3. DirIs(Dir, "mkdir", run.stage, cut, pools["gate"].job) /\ DirIs(Dir, "purge", run.stage, cut, pools["gate"].job)
    BY <2>1, Scales
  <2> HIDE DEF DirIs
  <2> QED BY <2>1, <2>2, <2>3, WritesOnlyIts, Advances DEF GoesTo
<1>7. CASE SetTrap
  <2>1. AtPoint("mkdir") /\ run.live /\ Frame /\ DirWas("mkdir") /\ disk' = disk
    BY <1>7, AtIs DEF SetTrap, AtPoint
  <2>2. GoesTo("purge", run.stage)
    BY <1>7, <2>1, RunIs DEF SetTrap, GoesTo
  <2>3. DirIs(Dir, "purge", run.stage, cut, pools["gate"].job)
    BY <2>1, Scales
  <2> HIDE DEF DirIs
  <2> QED BY <2>1, <2>2, <2>3, WritesOnlyIts, Advances DEF GoesTo
<1>2. CASE PurgeLogs
  <2>1. AtPoint("purge") /\ run.live /\ Frame /\ DirWas("purge")
    BY <1>2, AtIs DEF PurgeLogs, AtPoint
  <2>2. Write([Dir EXCEPT !.log = LogsPurged(@)]) /\ GoesTo("instance", run.stage)
    BY <1>2, <2>1, RunIs DEF PurgeLogs, GoesTo, Goto
  <2>3. DirIs([Dir EXCEPT !.log = LogsPurged(@)], "instance", run.stage, cut, pools["gate"].job)
    BY <2>1, Purges
  <2> HIDE DEF DirIs
  <2> QED BY <2>1, <2>2, <2>3, WritesOnlyIts, Advances DEF GoesTo
<1>3. CASE StartInstance
  <2> DEFINE job == NetGauntletJob(Dir.cand.net, Dir.champ, EvenGames(run.inv.games), 1, run.instance + 1, Knobs.jobs, Knobs)
             e == [Dir EXCEPT !.log[run.instance] = Torn]
  <2>1. /\ AtPoint("instance") /\ run.live /\ DirWas("instance") /\ Write(e) /\ Only(e)
        /\ UNCHANGED <<artifact, container, cut>> /\ DOMAIN pools = {"gate", "arena"}
    BY <1>3, AtIs, WritesOnlyIts DEF StartInstance, AtPoint, FilesInv
  <2>2. job.netA = Dir.cand.net /\ job.netB = Dir.champ
    BY DEF NetGauntletJob, GauntletConfig
  <2>3. e.cand = Dir.cand /\ e.champ = Dir.champ
    BY <2>1 DEF DirOK, DirShape, DirTyped
  <2>4. DirIs(e, "instance", run.stage, cut, pools["gate"].job)
    BY <2>1, Logs
  <2>5. \/ Exits("2") /\ UNCHANGED pools
        \/ Goto("playing") /\ pools' = [pools EXCEPT !["gate"] = PoolFor(job)]
    BY <1>3 DEF StartInstance
  <2> HIDE DEF job, e
  <2>6. CASE Exits("2") /\ UNCHANGED pools
    <3> HIDE DEF DirIs
    <3> QED BY <2>1, <2>4, <2>6, Dies
  <2>7. CASE Goto("playing") /\ pools' = [pools EXCEPT !["gate"] = PoolFor(job)]
    <3>1. DOMAIN pools' = DOMAIN pools /\ pools'["gate"] = PoolFor(job)
      BY <2>1, <2>7
    <3>2. "job" \in DOMAIN PoolFor(job) /\ PoolFor(job).job = job
      BY DEF PoolFor
    <3>3. GoesTo("playing", run.stage)
      BY <2>1, <2>7, RunIs DEF GoesTo, Goto
    <3>4. DirIs(e, "playing", run.stage, cut, job)
      BY <2>2, <2>3, <2>4, Plays
    <3> HIDE DEF DirIs
    <3> QED BY <2>1, <3>1, <3>2, <3>3, <3>4, Advances DEF GoesTo
  <2> QED BY <2>5, <2>6, <2>7
<1>4. CASE EndInstance
  <2> DEFINE pool == pools["gate"]
             log == [a |-> pool.job.netA, b |-> pool.job.netB, tally |-> Tally(Collected(pool))]
             e == [Dir EXCEPT !.log[run.instance] = log]
  <2>1. /\ AtPoint("playing") /\ run.live /\ DirWas("playing") /\ UNCHANGED <<artifact, container, cut>>
        /\ pools' = [pools EXCEPT !["gate"] = Idle] /\ DOMAIN pools' = DOMAIN pools
    BY <1>4, AtIs DEF EndInstance, AtPoint
  <2>2. CASE RunFailed(pool)
    <3>1. Exits("2") /\ disk' = disk /\ DirIs(Dir, "playing", run.stage, cut, pools["gate"].job)
      BY <1>4, <2>1, <2>2 DEF EndInstance
    <3> HIDE DEF DirIs
    <3> QED BY <2>1, <3>1, WritesOnlyIts, Dies
  <2>3. CASE ~RunFailed(pool)
    <3>1. /\ Write(e)
          /\ Exits("2") \/ run' = [run EXCEPT !.at = "instance", !.instance = @ + 1]
      BY <1>4, <2>3 DEF EndInstance
    <3>2. log.a = pools["gate"].job.netA /\ log.b = pools["gate"].job.netB
      OBVIOUS
    <3> HIDE DEF log
    <3>3. DirIs(e, "instance", run.stage, cut, pools["gate"].job)
      BY <2>1, <3>2, Logs
    <3>4. DirIs(e, "instance", run.stage, cut, pools'["gate"].job)
      BY <3>3, AnyJob
    <3>5. run' = [run EXCEPT !.at = "instance", !.instance = @ + 1] => GoesTo("instance", run.stage)
      BY <2>1, RunIs DEF GoesTo
    <3>6. Only(e)
      BY <2>1, <3>1, WritesOnlyIts
    <3> HIDE DEF DirIs, e
    <3>7. CASE Exits("2")
      BY <2>1, <3>3, <3>6, <3>7, Dies
    <3>8. CASE run' = [run EXCEPT !.at = "instance", !.instance = @ + 1]
      BY <2>1, <3>4, <3>5, <3>6, <3>8, Advances DEF GoesTo
    <3> QED BY <3>1, <3>7, <3>8
  <2> QED BY <2>2, <2>3
<1>8. CASE GiveLockBack
  <2>1. AtPoint("instance") /\ run.live /\ Frame /\ DirWas("instance") /\ disk' = disk
    BY <1>8, AtIs DEF GiveLockBack, AtPoint
  <2>2. GoesTo("untrap", run.stage)
    BY <1>8, <2>1, RunIs DEF GiveLockBack, GoesTo, Goto
  <2>3. DirIs(Dir, "untrap", run.stage, cut, pools["gate"].job)
    BY <2>1, LocksUp
  <2> HIDE DEF DirIs
  <2> QED BY <2>1, <2>2, <2>3, WritesOnlyIts, Advances DEF GoesTo
<1>5. CASE GauntletDone
  <2>1. PICK at \in {"instance", "untrap"} : AtPoint(at)
    BY <1>5 DEF GauntletDone
  <2>2. run.live /\ Frame /\ DirWas(at)
    BY <1>5, <2>1, AtIs DEF GauntletDone, AtPoint
  <2>3. Write([Dir EXCEPT !.done = @ \cup {"gauntlet"}]) /\ GoesTo("until", run.stage)
    BY <1>5, <2>2, RunIs DEF GauntletDone, Untrapped, GoesTo
  <2>4. DirIs([Dir EXCEPT !.done = @ \cup {"gauntlet"}], "until", run.stage, cut, pools["gate"].job)
    BY <2>2, StampsGauntlet
  <2> HIDE DEF DirIs
  <2> QED BY <2>2, <2>3, <2>4, WritesOnlyIts, Advances DEF GoesTo
<1> QED BY <1>1, <1>2, <1>3, <1>4, <1>5, <1>6, <1>7, <1>8

LEMMA ReportFiles ==
  ASSUME FilesInv, LockInv, Report
  PROVE  FilesInv'
<1> USE DEF Frame, DirWas, DirIs
<1>1. AtPoint("report") /\ run.live /\ Frame /\ DirWas("report")
  BY AtIs DEF Report, AtPoint
<1>2. CASE disk' = disk /\ Exits("2")
  <2>1. DirIs(Dir, "report", run.stage, cut, pools["gate"].job)
    BY <1>1
  <2> HIDE DEF DirIs
  <2> QED BY <1>1, <1>2, <2>1, WritesOnlyIts, Dies
<1>3. CASE ~(disk' = disk /\ Exits("2"))
  <2> DEFINE report == [logs |-> {Dir.log[i] : i \in Results}, pooled |-> Pooled,
                        cand |-> Dir.cand, champ |-> Dir.champ, rows |-> Dir.rows,
                        gateable |-> VerdictOf(Pooled) = "Gateable"]
  <2>1. Write([Dir EXCEPT !.report = report]) /\ (Exits("0") \/ Exits("1"))
    BY <1>3 DEF Report
  <2>2. /\ report.logs = {Dir.log[i] : i \in {k \in DOMAIN Dir.log : Dir.log[k] \notin {NoFile, Torn}}}
        /\ report.cand = Dir.cand /\ report.champ = Dir.champ /\ report.rows = Dir.rows
    BY DEF Results
  <2> HIDE DEF report
  <2>3. DirIs([Dir EXCEPT !.report = report], "report", run.stage, cut, pools["gate"].job)
    BY <1>1, <2>2, Reports
  <2> HIDE DEF DirIs
  <2> QED BY <1>1, <2>1, <2>3, WritesOnlyIts, Dies
<1> QED BY <1>2, <1>3

-----------------------------------------------------------------------------
(* What goes wrong, and what else happens on the box *)

LEMMA KilledFiles ==
  ASSUME FilesInv, LockInv, NEW locked, Interrupted(locked)
  PROVE  FilesInv'
<1>1. DirWas(run.at) /\ run.live /\ ~run'.live /\ run' = Ended("killed")
  BY AtIs DEF Interrupted, AtPoint, Ended
<1>2. artifact' = artifact /\ disk' = disk /\ cut \subseteq cut' /\ DOMAIN pools' = DOMAIN pools
  BY DEF Interrupted
<1>3. container' # NoFile => container'.gen \in cut' /\ container'.gen \in 1..GenCount
  <2>1. CASE AtPoint("training")
    <3>1. \E net \in Candidates : container' = [gen |-> run.inv.gen, cand |-> Candidate(net)]
      BY <2>1 DEF Interrupted
    <3>2. container'.gen = Gen
      BY <3>1 DEF Gen
    <3>3. cut' = cut \cup {Gen}
      BY <2>1 DEF Interrupted, Gen
    <3> QED BY <1>1, <3>2, <3>3 DEF DirWas
  <2>2. CASE ~AtPoint("training")
    BY <1>2, <2>2 DEF Interrupted, FilesInv
  <2> QED BY <2>1, <2>2
<1>4. run.at = "clear" => Gen \in cut' \/ \A k \in 1..4 : run.stage <= k => Stages[k] \notin Dir.done
  <2>1. SUFFICES ASSUME run.at = "clear", ~HalfCleared PROVE \A k \in 1..4 : run.stage <= k => Stages[k] \notin Dir.done
    BY DEF Interrupted, Gen
  <2>2. run.stage \in 1..5
    BY <1>1, <2>1 DEF DirWas, DirIs, DirOK, DirShape, StampsOnTheWay
  <2> QED BY <1>1, <2>1, <2>2 DEF HalfCleared, AtPoint
<1>5. DirIs(Dir, "none", run.stage, cut', pools["gate"].job)
  BY <1>1, <1>2, <1>4, Leaves DEF DirWas, DirIs
<1> QED BY <1>1, <1>2, <1>3, <1>5, WritesOnlyIts, Stops

\* Where the run is and the script's match are as they were.
LEMMA OthersFiles ==
  ASSUME FilesInv, UNCHANGED <<disk, run, container, cut>>, artifact' \in Champions,
         DOMAIN pools' = DOMAIN pools,
         "job" \in DOMAIN pools["gate"] => "job" \in DOMAIN pools'["gate"] /\ pools'["gate"].job = pools["gate"].job
  PROVE  FilesInv'
<1>1. ASSUME NEW g \in 1..GenCount
      PROVE  DirOK(g, disk[g], PointIn(g), run.stage, run.inv.shards, cut, pools'["gate"].job)
  <2>1. DirOK(g, disk[g], PointIn(g), run.stage, run.inv.shards, cut, pools["gate"].job)
    BY DEF FilesInv
  <2>2. CASE PointIn(g) = "playing"
    BY <2>1, <2>2 DEF FilesInv, PointIn, Here
  <2>3. CASE PointIn(g) # "playing"
    BY <2>1, <2>3, AnyJob
  <2> QED BY <2>2, <2>3
<1>2. \A g \in 1..GenCount : PointIn(g)' = PointIn(g)
  BY DEF PointIn, Here
<1> QED BY <1>1, <1>2 DEF FilesInv

LEMMA WorkerKeepsJob ==
  ASSUME NEW who, NEW w, Fetch(who, w) \/ PlayGame(who, w) \/ Panics(who, w), DOMAIN pools = {"gate", "arena"}
  PROVE  /\ DOMAIN pools' = DOMAIN pools
         /\ "job" \in DOMAIN pools["gate"] => "job" \in DOMAIN pools'["gate"] /\ pools'["gate"].job = pools["gate"].job
<1>1. CASE Fetch(who, w)
  BY <1>1 DEF Fetch
<1>2. CASE PlayGame(who, w)
  <2>1. PICK clock \in Clocks : pools' = [pools EXCEPT ![who] = Finishes(pools[who], w, clock)]
    BY <1>2 DEF PlayGame
  <2>2. DOMAIN Finishes(pools[who], w, clock) = DOMAIN pools[who]
        /\ ("job" \in DOMAIN pools[who] => Finishes(pools[who], w, clock).job = pools[who].job)
    BY DEF Finishes
  <2> QED BY <2>1, <2>2
<1>3. CASE Panics(who, w)
  BY <1>3 DEF Panics
<1> QED BY <1>1, <1>2, <1>3

LEMMA BoxFiles ==
  ASSUME FilesInv, LockInv, BoxSteps
  PROVE  FilesInv'
<1>1. CASE ToolFails
  <2>1. /\ run.live /\ AtPoint(run.at) /\ run.at # "clear" /\ Exits("2") /\ disk' = disk
        /\ UNCHANGED <<artifact, container, cut, pools>>
    BY <1>1 DEF ToolFails, AtPoint
  <2>2. DirIs(Dir, run.at, run.stage, cut, pools["gate"].job)
    BY <2>1, AtIs DEF DirWas
  <2> QED BY <2>1, <2>2, WritesOnlyIts, Dies
<1>2. CASE Killed \/ Terminated
  BY <1>2, KilledFiles DEF Killed, Terminated
<1>3. CASE ContainerEnds
  <2>1. /\ container.gen \in cut /\ container.gen \in 1..GenCount /\ DOMAIN disk = 1..GenCount
        /\ disk' = [disk EXCEPT ![container.gen] = [disk[container.gen] EXCEPT !.cand = container.cand]]
        /\ container' = NoFile /\ UNCHANGED <<artifact, run, cut, pools>>
    BY <1>3 DEF ContainerEnds, FilesInv
  <2>2. ASSUME NEW g \in 1..GenCount
        PROVE  DirOK(g, disk'[g], PointIn(g), run.stage, run.inv.shards, cut, pools["gate"].job)
    <3>1. DirOK(g, disk[g], PointIn(g), run.stage, run.inv.shards, cut, pools["gate"].job)
      BY DEF FilesInv
    <3>2. CASE g = container.gen
      <4>1. disk'[g] = [disk[g] EXCEPT !.cand = container.cand]
        BY <2>1, <3>2
      <4> QED BY <2>1, <3>1, <3>2, <4>1, CutIsWritten
    <3>3. CASE g # container.gen
      BY <2>1, <3>1, <3>3
    <3> QED BY <3>2, <3>3
  <2>3. \A g \in 1..GenCount : PointIn(g)' = PointIn(g)
    BY <2>1 DEF PointIn, Here
  <2> QED BY <2>1, <2>2, <2>3 DEF FilesInv
<1>4. CASE Promote \/ OtherTakes \/ OtherReleases
  BY <1>4, OthersFiles DEF Promote, OtherTakes, OtherReleases, FilesInv
<1>5. CASE ArenaStarts \/ ArenaEnds
  <2>1. UNCHANGED <<artifact, disk, run, container, cut>> /\ \E pool : pools' = [pools EXCEPT !["arena"] = pool]
    BY <1>5 DEF ArenaStarts, ArenaEnds
  <2>2. DOMAIN pools' = DOMAIN pools /\ pools'["gate"] = pools["gate"]
    BY <2>1 DEF FilesInv
  <2> QED BY <2>1, <2>2, OthersFiles DEF FilesInv
<1>6. ASSUME NEW i \in Shards, ShardFails(i) PROVE FilesInv'
  BY <1>6, SelfPlayFiles
<1>8. CASE ConcatenateFails
  BY <1>8, SelfPlayFiles
<1>7. ASSUME NEW who \in {"gate", "arena"}, NEW w \in 1..2, WorkerSteps(who, w) \/ WorkerPanics(who, w) PROVE FilesInv'
  <2>1. UNCHANGED <<artifact, disk, run, container, cut>> /\ (Fetch(who, w) \/ PlayGame(who, w) \/ Panics(who, w))
    BY <1>7 DEF WorkerSteps, WorkerPanics
  <2> QED BY <2>1, WorkerKeepsJob, OthersFiles DEF FilesInv
<1> QED BY <1>1, <1>2, <1>3, <1>4, <1>5, <1>6, <1>7, <1>8 DEF BoxSteps

LEMMA FilesInit == GenInit => FilesInv
<1> SUFFICES ASSUME GenInit PROVE FilesInv
  OBVIOUS
<1>1. ASSUME NEW g \in 1..GenCount, NEW stage, NEW count, NEW job
      PROVE  DirOK(g, EmptyDir, "none", stage, count, {}, job)
  <2>1. DirShape(EmptyDir, "none", stage, count)
    BY DEF EmptyDir, DirShape, DirTyped, PlayedByChampion, SnapshotFirst, StampsOnTheWay, TrainsOnRows
  <2>2. DirTrue(g, EmptyDir, "none", stage, job)
    BY DEF EmptyDir, DirTrue, StampsInOrder, LearnedFromRows, TalliesOf, ReportTrue
  <2> QED BY <2>1, <2>2 DEF DirOK
<1>2. ~run.live /\ \A g \in 1..GenCount : PointIn(g) = "none"
  BY DEF GenInit, Ended, PointIn, Here
<1> QED BY <1>1, <1>2 DEF GenInit, FilesInv

LEMMA FilesInvInductive == GenSpec => []FilesInv
<1>1. LockInv /\ FilesInv /\ [GenNext]_genVars => FilesInv'
  <2> SUFFICES ASSUME LockInv, FilesInv, [GenNext]_genVars PROVE FilesInv'
    OBVIOUS
  <2>1. CASE ScriptSteps
    BY <2>1, InvokeFiles, StartFiles, SelfPlayFiles, TrainFiles, GauntletFiles, ReportFiles DEF ScriptSteps
  <2>2. CASE BoxSteps
    BY <2>2, BoxFiles
  <2>3. CASE UNCHANGED genVars
    BY <2>3, OthersFiles DEF genVars, FilesInv
  <2> QED BY <2>1, <2>2, <2>3 DEF GenNext
<1> QED BY <1>1, FilesInit, LockInvInductive, PTL DEF GenSpec

\* Whatever is promoted, started, stopped, killed, failed and restarted, in whatever order, over
\* any number of generations, shards, instances and flags: a report outside the generations a
\* run was killed in the middle of is about one candidate, its own rows' and its own snapshot's
\* (ReportIsOfTheCandidate; generation.sh's stamps, --from, and the snapshot of the champion).
THEOREM ReportsAreTrue == GenSpec => []ReportIsOfTheCandidate
<1>1. FilesInv => ReportIsOfTheCandidate
  BY DEF FilesInv, DirOK, DirTrue, ReportTrue, ReportIsOfTheCandidate
<1> QED BY <1>1, FilesInvInductive, PTL

-----------------------------------------------------------------------------
(* The instances of a gauntlet *)

\* A run that plays more instances than it was asked for has the lock.
InstancesInv ==
  (run.live /\ run.at \in {"mkdir", "purge", "instance", "playing"}) =>
    run.took \/ run.instances = run.inv.instances

\* Most of the script is not there, and does not go there.
LEMMA ExitedIs ==
  ASSUME NEW code, Exits(code)
  PROVE  ~run'.live
BY DEF Exits, Ended

LEMMA NotToTheGauntlet ==
  ASSUME LockInv, FilesInv,
         \/ Invoke \/ SnapshotChampion \/ Copied \/ ClearStamp \/ Dispatch \/ Until
         \/ LaunchShards \/ Waited \/ Concatenate \/ Validate \/ ConcatenateFails
         \/ StartTraining \/ Trained \/ CheckCandidate \/ GiveLockBack \/ GauntletDone \/ Report
         \/ ToolFails \/ Killed \/ Terminated
  PROVE  ~run'.live \/ run'.at \notin {"mkdir", "purge", "instance", "playing"}
<1>1. CASE Invoke
  BY <1>1 DEF Invoke
<1>2. CASE SnapshotChampion
  BY <1>2, RunIs DEF SnapshotChampion, AtPoint, Goto
<1>3. CASE Copied
  BY <1>3, RunIs DEF Copied, AtPoint
<1>4. CASE ClearStamp
  BY <1>4, RunIs DEF ClearStamp, AtPoint
<1>5. CASE Until
  <2>1. run.live /\ (Exits("0") \/ run' = [run EXCEPT !.at = "dispatch", !.stage = run.stage + 1])
    BY <1>5 DEF Until, AtPoint
  <2>2. CASE run' = [run EXCEPT !.at = "dispatch", !.stage = run.stage + 1]
    BY <2>1, <2>2, RunIs
  <2> QED BY <2>1, <2>2, ExitedIs
<1>6. CASE LaunchShards
  BY <1>6, RunIs DEF LaunchShards, AtPoint, Goto
<1>7. CASE Waited
  <2>1. run.live /\ (Exits("2") \/ run' = [run EXCEPT !.at = "cat", !.instance = 0])
    BY <1>7 DEF Waited, AtPoint
  <2>2. CASE run' = [run EXCEPT !.at = "cat", !.instance = 0]
    BY <2>1, <2>2, RunIs
  <2> QED BY <2>1, <2>2, ExitedIs
<1>8. CASE Concatenate
  BY <1>8, RunIs DEF Concatenate, AtPoint, Goto
<1>9. CASE Validate
  BY <1>9, RunIs DEF Validate, AtPoint, Goto, Exits, Ended
<1>10. CASE ConcatenateFails
  BY <1>10, RunIs DEF ConcatenateFails, AtPoint, Goto
<1>11. CASE StartTraining
  BY <1>11, RunIs DEF StartTraining, AtPoint, Goto, Exits, Ended
<1>12. CASE Trained
  BY <1>12, RunIs DEF Trained, AtPoint, Goto
<1>13. CASE CheckCandidate
  BY <1>13, RunIs DEF CheckCandidate, AtPoint, Goto
<1>14. CASE GiveLockBack
  BY <1>14, RunIs DEF GiveLockBack, AtPoint, Goto
<1>15. CASE GauntletDone
  BY <1>15, RunIs DEF GauntletDone, Untrapped, AtPoint
<1>16. CASE Report
  BY <1>16, RunIs DEF Report, AtPoint, Exits, Ended
<1>17. CASE Dispatch
  <2>1. AtPoint("dispatch") /\ run.live
    BY <1>17 DEF Dispatch, AtPoint
  <2>2. run.stage \in 1..4
    BY <2>1, AtIs DEF DirWas, DirIs, DirOK, DirShape, StampsOnTheWay
  <2>3. Stages[run.stage] \in {"selfplay", "train", "gauntlet", "report"}
    BY <2>2, StagesAre
  <2> QED BY <1>17, <2>1, <2>3, RunIs DEF Dispatch, Goto
<1>18. CASE ToolFails \/ Killed \/ Terminated
  BY <1>18 DEF ToolFails, Killed, Terminated, Interrupted, Exits, Ended
<1> QED BY <1>1, <1>2, <1>3, <1>4, <1>5, <1>6, <1>7, <1>8, <1>9, <1>10, <1>11, <1>12, <1>13, <1>14, <1>15, <1>16, <1>17, <1>18

LEMMA InstancesKept ==
  ASSUME LockInv, FilesInv, InstancesInv, GenNext
  PROVE  InstancesInv'
<1> DEFINE plays == {"mkdir", "purge", "instance", "playing"}
<1>1. CASE run' = run
  BY <1>1 DEF InstancesInv
<1>2. CASE ~run'.live \/ run'.at \notin plays
  BY <1>2 DEF InstancesInv
<1>3. CASE Autoscale
  <2>1. run.live /\ (Exits("2") \/ \E point : run' = [run EXCEPT !.at = point, !.instance = 0, !.instances = run.inv.instances])
    BY <1>3 DEF Autoscale, AtPoint
  <2>2. CASE Exits("2")
    BY <1>2, <2>2 DEF Exits, Ended
  <2>3. CASE \E point : run' = [run EXCEPT !.at = point, !.instance = 0, !.instances = run.inv.instances]
    BY <2>1, <2>3, RunIs DEF InstancesInv
  <2> QED BY <2>1, <2>2, <2>3
<1>4. CASE TakeLock
  BY <1>4, RunIs DEF TakeLock, AtPoint, Goto, InstancesInv
<1>5. CASE SetTrap
  BY <1>5, RunIs DEF SetTrap, AtPoint, LockInv, RunOK, OnlyInTheGauntlet, InstancesInv, HasLock
<1>6. CASE PurgeLogs \/ StartInstance \/ EndInstance
  <2>1. /\ run.live /\ run.at \in plays
        /\ \/ \E code : Exits(code)
           \/ run' = [run EXCEPT !.at = "instance"] \/ run' = [run EXCEPT !.at = "playing"]
           \/ run' = [run EXCEPT !.at = "instance", !.instance = run.instance + 1]
    <3>1. CASE PurgeLogs
      BY <3>1 DEF PurgeLogs, AtPoint, Goto
    <3>2. CASE StartInstance
      BY <3>2 DEF StartInstance, AtPoint, Goto
    <3>3. CASE EndInstance
      BY <3>3 DEF EndInstance, AtPoint
    <3> QED BY <1>6, <3>1, <3>2, <3>3
  <2>2. CASE \E code : Exits(code)
    BY <1>2, <2>2, ExitedIs
  <2>3. CASE run' = [run EXCEPT !.at = "instance"] \/ run' = [run EXCEPT !.at = "playing"]
    BY <2>1, <2>3, RunIs DEF InstancesInv
  <2>4. CASE run' = [run EXCEPT !.at = "instance", !.instance = run.instance + 1]
    BY <2>1, <2>4, RunIs DEF InstancesInv
  <2> QED BY <2>1, <2>2, <2>3, <2>4
<1>7. CASE \/ \E i \in Shards : ShardPlays(i) \/ ShardFails(i)
           \/ ContainerEnds \/ Promote \/ OtherTakes \/ OtherReleases \/ ArenaStarts \/ ArenaEnds
           \/ \E who \in {"gate", "arena"}, w \in 1..2 : WorkerSteps(who, w) \/ WorkerPanics(who, w)
  BY <1>1, <1>7 DEF ShardPlays, ShardFails, ContainerEnds, Promote, OtherTakes, OtherReleases, ArenaStarts, ArenaEnds,
                    WorkerSteps, WorkerPanics
<1> QED BY <1>2, <1>3, <1>4, <1>5, <1>6, <1>7, NotToTheGauntlet DEF GenNext, ScriptSteps, BoxSteps

LEMMA InstancesInvInductive == GenSpec => []InstancesInv
<1>1. GenInit => InstancesInv
  BY DEF GenInit, Ended, InstancesInv
<1>2. LockInv /\ FilesInv /\ InstancesInv /\ [GenNext]_genVars => InstancesInv'
  BY InstancesKept DEF InstancesInv, genVars
<1> QED BY <1>1, <1>2, LockInvInductive, FilesInvInductive, PTL DEF GenSpec

\* Whatever the box, the flags, the signals and the other users do, however many generations,
\* shards and instances: the arena lock is the script's exactly from mkdir to rmdir of a live
\* run, and more instances than asked for are played only under it (LockIsReleased;
\* generation.sh's EXIT trap and its autoscaling).
THEOREM LockAlwaysReleased == GenSpec => []LockIsReleased
<1>1. LockInv /\ FilesInv /\ InstancesInv => LockIsReleased
  <2> SUFFICES ASSUME LockInv, FilesInv, InstancesInv PROVE LockIsReleased
    OBVIOUS
  <2>1. lock = "script" <=> run.live /\ (run.live => run.took /\ run.at # "untrap")
    BY DEF LockInv, HasLock
  <2>2. ASSUME AtPoint("playing"), run.instances > run.inv.instances PROVE lock = "script"
    <3>1. run.inv.instances \in Nat
      BY <2>2, GenerationAssumption DEF AtPoint, FilesInv
    <3>2. run.instances # run.inv.instances
      BY <2>2, <3>1
    <3> QED BY <2>1, <2>2, <3>2 DEF AtPoint, InstancesInv
  <2> QED BY <2>1, <2>2 DEF LockIsReleased
<1> QED BY <1>1, LockInvInductive, FilesInvInductive, InstancesInvInductive, PTL

-----------------------------------------------------------------------------
(***************************************************************************)
(* The rows.  First what one game leaves: quantize adds up to what it is   *)
(* asked for (the shortfall is less than the length of the policy, and is  *)
(* dealt to as many ranks), and every row of a game was searched at the    *)
(* position it names, by an induction over the passes of the game's fold.  *)
(* Then what a file holds (Once), a shard at a time, through launching,    *)
(* playing, tearing, concatenating and validating.                         *)
(***************************************************************************)

\* What quantize adds up to.

\* Those dealt to before i: the larger remainder first, then the lower action.
Before(r, n, i) == {j \in 1..n : r[j] > r[i] \/ (r[j] = r[i] /\ j < i)}

\* Every rank is someone's, once.
LEMMA RanksAreAll ==
  ASSUME NEW n \in Nat, NEW r \in [1..n -> Int]
  PROVE  [i \in 1..n |-> Cardinality(Before(r, n, i))] \in Bijection(1..n, 0..(n - 1))
<1> DEFINE S == 1..n
           T == 0..(n - 1)
           rank == [i \in S |-> Cardinality(Before(r, n, i))]
<1>1. IsFiniteSet(S) /\ IsFiniteSet(T) /\ Cardinality(S) = n /\ Cardinality(T) = n
  BY FS_Interval
<1>2. ASSUME NEW i \in S
      PROVE  /\ IsFiniteSet(Before(r, n, i)) /\ Cardinality(Before(r, n, i)) \in Nat
             /\ Cardinality(Before(r, n, i)) <= n - 1
  <2>1. Before(r, n, i) \subseteq S \ {i}
    BY DEF Before
  <2>2. IsFiniteSet(S \ {i}) /\ Cardinality(S \ {i}) = n - 1
    BY <1>1, FS_RemoveElement
  <2> HIDE DEF S
  <2> QED BY <2>1, <2>2, FS_Subset, FS_CardinalityType
<1>3. ASSUME NEW i \in S, NEW j \in S, j \in Before(r, n, i)
      PROVE  Cardinality(Before(r, n, j)) < Cardinality(Before(r, n, i))
  <2>1. Before(r, n, j) \subseteq Before(r, n, i) \ {j}
    BY <1>3 DEF Before
  <2>2. IsFiniteSet(Before(r, n, i) \ {j}) /\ Cardinality(Before(r, n, i) \ {j}) = Cardinality(Before(r, n, i)) - 1
    BY <1>2, <1>3, FS_RemoveElement
  <2>3. Cardinality(Before(r, n, j)) <= Cardinality(Before(r, n, i) \ {j})
    BY <2>1, <2>2, FS_Subset
  <2> QED BY <1>2, <2>2, <2>3
<1>4. \A i, j \in S : i # j => j \in Before(r, n, i) \/ i \in Before(r, n, j)
  BY DEF Before
<1>5. rank \in [S -> T]
  <2> SUFFICES ASSUME NEW i \in S PROVE Cardinality(Before(r, n, i)) \in T
    OBVIOUS
  <2>1. Cardinality(Before(r, n, i)) \in Nat /\ Cardinality(Before(r, n, i)) <= n - 1
    BY <1>2
  <2> QED BY <2>1
<1>6. \A i, j \in S : i # j => rank[i] # rank[j]
  <2> SUFFICES ASSUME NEW i \in S, NEW j \in S, i # j
               PROVE  Cardinality(Before(r, n, i)) # Cardinality(Before(r, n, j))
    OBVIOUS
  <2> HIDE DEF S
  <2>1. Cardinality(Before(r, n, i)) \in Nat /\ Cardinality(Before(r, n, j)) \in Nat
    BY <1>2
  <2> QED BY <1>3, <1>4, <2>1
<1> HIDE DEF rank, S, T
<1>7. rank \in Injection(S, T)
  BY <1>5, <1>6 DEF Injection, IsInjective
<1>8. rank \in Surjection(S, T)
  BY <1>1, <1>7, FS_Injection
<1> QED BY <1>7, <1>8 DEF Bijection, rank, S, T

\* So k of them are below k.
LEMMA FirstRanks ==
  ASSUME NEW n \in Nat, NEW rank \in Bijection(1..n, 0..(n - 1)), NEW k \in 0..n
  PROVE  Cardinality({i \in 1..n : rank[i] < k}) = k
<1> DEFINE S == 1..n
           T == 0..(n - 1)
           low == {i \in S : rank[i] < k}
           K == 0..(k - 1)
           f == [i \in low |-> rank[i]]
<1>1. /\ rank \in [S -> T] /\ \A i, j \in S : rank[i] = rank[j] => i = j
      /\ \A t \in T : \E i \in S : rank[i] = t
  BY DEF Bijection, Injection, Surjection, IsInjective
<1>2. f \in [low -> K]
  <2> SUFFICES ASSUME NEW i \in low PROVE rank[i] \in K
    OBVIOUS
  <2> QED BY <1>1
<1>3. \A i, j \in low : f[i] = f[j] => i = j
  BY <1>1
<1>4. \A t \in K : \E i \in low : f[i] = t
  <2> SUFFICES ASSUME NEW t \in K PROVE \E i \in low : rank[i] = t
    OBVIOUS
  <2>1. t \in T /\ t < k
    OBVIOUS
  <2>2. PICK i \in S : rank[i] = t
    BY <1>1, <2>1
  <2> QED BY <2>1, <2>2
<1>5. IsFiniteSet(K) /\ Cardinality(K) = k
  <2> DEFINE top == k - 1
  <2>1. top \in Int /\ k = top + 1 /\ top >= -1 /\ 0 \in Int
    OBVIOUS
  <2> HIDE DEF top
  <2>2. IsFiniteSet(0..top) /\ Cardinality(0..top) = IF 0 > top THEN 0 ELSE top - 0 + 1
    BY <2>1, FS_Interval
  <2>3. Cardinality(0..top) = k
    BY <2>1, <2>2
  <2> QED BY <2>2, <2>3 DEF top
<1> HIDE DEF f, low, K
<1>6. f \in Injection(low, K) /\ f \in Surjection(low, K)
  BY <1>2, <1>3, <1>4 DEF Injection, Surjection, IsInjective
<1>7. Cardinality(low) = Cardinality(K)
  BY <1>5, <1>6, FS_Injection
<1> QED BY <1>5, <1>7 DEF low, S

\* What i is dealt of `short` in n hands: the rounds, and one of the last round if its turn came.
Share(short, n, rank) == IF short <= rank THEN 0 ELSE ((short - 1 - rank) \div n) + 1
\* What each is dealt of a shortfall.
LEMMA SharesAre ==
  ASSUME NEW n \in Nat \ {0}, NEW short \in Nat, NEW rank \in 0..(n - 1)
  PROVE  /\ short \div n \in Nat /\ short % n \in 0..(n - 1) /\ short = (short \div n) * n + (short % n)
         /\ Share(short, n, rank) = (short \div n) + (IF rank < short % n THEN 1 ELSE 0)
<1> DEFINE q == short \div n
           r == short % n
<1>1. q \in Nat /\ r \in Nat /\ r < n /\ short = q * n + r
  BY SMTT(30)
<1>2. \A x \in Nat, a \in Nat, b \in Nat : (x = a * n + b /\ b < n) => x \div n = a
  BY SMTT(30)
<1> HIDE DEF q, r
<1>3. q * n \in Nat
  BY <1>1, Z3
<1>4. CASE short <= rank
  <2>1. q = 0
    <3>1. q # 0 => q * n >= n
      BY <1>1, Z3
    <3> QED BY <1>1, <1>3, <1>4, <3>1
  <2>2. r = short
    BY <1>1, <2>1
  <2> QED BY <1>1, <1>4, <2>1, <2>2 DEF Share, q, r
<1>5. CASE ~(short <= rank) /\ rank < r
  <2>1. short - 1 - rank = q * n + (r - 1 - rank)
    BY <1>1, <1>3
  <2>2. short - 1 - rank \in Nat /\ r - 1 - rank \in Nat /\ r - 1 - rank < n
    BY <1>1, <1>5
  <2>3. (short - 1 - rank) \div n = q
    BY <1>1, <1>2, <2>1, <2>2
  <2> QED BY <1>1, <1>5, <2>3 DEF Share, q, r
<1>6. CASE ~(short <= rank) /\ ~(rank < r)
  <2>1. q # 0
    BY <1>1, <1>6
  <2>2. q - 1 \in Nat /\ (q - 1) * n = q * n - n
    <3>1. \A x \in Nat : (x - 1) * n = x * n - n
      BY Z3
    <3> QED BY <1>1, <2>1, <3>1
  <2>3. short - 1 - rank = (q - 1) * n + (n + r - 1 - rank)
    BY <1>1, <1>3, <2>2
  <2>4. short - 1 - rank \in Nat /\ n + r - 1 - rank \in Nat /\ n + r - 1 - rank < n
    BY <1>1, <1>6
  <2>5. (short - 1 - rank) \div n = q - 1
    BY <1>2, <2>2, <2>3, <2>4
  <2> QED BY <1>1, <1>6, <2>5 DEF Share, q, r
<1> QED BY <1>1, <1>4, <1>5, <1>6 DEF q, r

\* The sum of a row is the sum of SumLemmas.
LEMMA SumOfIs == \A f : SumOf(f) = SumOn(f, DOMAIN f)
BY DEF SumOf, SumOn

\* The shortfall is dealt to the last count.
LEMMA SharesAddUp ==
  ASSUME NEW n \in Nat \ {0}, NEW short \in Nat, NEW rank \in Bijection(1..n, 0..(n - 1)),
         NEW share, \A i \in 1..n : share[i] = Share(short, n, rank[i])
  PROVE  SumOn(share, 1..n) = short /\ \A i \in 1..n : share[i] \in Nat
<1> DEFINE S == 1..n
           q == short \div n
           r == short % n
           rounds == [i \in S |-> q]
           low == {i \in S : rank[i] < r}
           marks == [i \in S |-> IF i \in low THEN 1 ELSE 0]
<1>1. \A i \in S : rank[i] \in 0..(n - 1)
  BY DEF Bijection, Injection
<1>2. q \in Nat /\ r \in 0..(n - 1) /\ short = q * n + r
  <2>1. 0 \in 0..(n - 1)
    OBVIOUS
  <2> QED BY <2>1, SharesAre
<1> HIDE DEF q, r
<1>3. \A i \in S : rounds[i] = q /\ marks[i] \in Nat /\ share[i] = rounds[i] + marks[i] /\ share[i] \in Nat
  <2> SUFFICES ASSUME NEW i \in S PROVE share[i] = q + (IF i \in low THEN 1 ELSE 0) /\ share[i] \in Nat
    BY <1>2
  <2>1. /\ share[i] = Share(short, n, rank[i])
        /\ Share(short, n, rank[i]) = q + (IF rank[i] < r THEN 1 ELSE 0)
    BY <1>1, SharesAre DEF q, r
  <2>2. share[i] = q + (IF i \in low THEN 1 ELSE 0)
    BY <2>1
  <2> HIDE DEF low, S
  <2> QED BY <1>2, <2>2
<1>4. IsFiniteSet(S) /\ Cardinality(S) = n
  BY FS_Interval
<1>5. Cardinality(low) = r
  <2>1. r \in 0..n
    BY <1>2
  <2> QED BY <2>1, FirstRanks
<1>6. Marks(marks, low, S)
  BY <1>4 DEF Marks
<1> HIDE DEF rounds, marks, low, S
<1>7. SumOn(rounds, S) = n * q
  <2>1. q \in Int /\ \A i \in S : rounds[i] = q
    BY <1>2, <1>3
  <2>2. SumOn(rounds, S) = Cardinality(S) * q
    BY <1>4, <2>1, SumOfSame
  <2> QED BY <1>4, <2>2
<1>8. SumOn(marks, S) = r
  BY <1>5, <1>6, SumOfMarks
<1>9. SumOn(share, S) = SumOn(rounds, S) + SumOn(marks, S)
  <2>1. \A i \in S : rounds[i] \in Int /\ marks[i] \in Int /\ share[i] = rounds[i] + marks[i]
    BY <1>2, <1>3
  <2> QED BY <1>4, <2>1, SumOfBoth
<1>10. n * q = q * n
  BY <1>2, Z3
<1> QED BY <1>2, <1>3, <1>7, <1>8, <1>9, <1>10 DEF S

\* Floors that fall short by no more than is dealt add up to the total.
LEMMA DealtAddsUp ==
  ASSUME NEW policy \in Seq(Nat), policy # <<>>, NEW total \in Nat, NEW floors,
         DOMAIN floors = DOMAIN policy, \A i \in DOMAIN policy : floors[i] \in Nat, SumOf(floors) <= total
  PROVE  SumOf(Dealt(policy, total, floors)) = total
<1> DEFINE n == Len(policy)
           S == 1..n
           rem == [i \in S |-> (policy[i] * total) % PolicyUnit]
           rank == [i \in S |-> Cardinality(Before(rem, n, i))]
           short == total - SumOf(floors)
           share == [i \in S |-> Share(short, n, rank[i])]
           dealt == Dealt(policy, total, floors)
<1>1. DOMAIN policy = S /\ n \in Nat \ {0} /\ \A i \in S : policy[i] \in Nat
  BY LenProperties, EmptySeq
<1>2. SumOf(floors) \in Nat /\ short \in Nat /\ SumOf(floors) = SumOn(floors, S)
  <2>1. IsFiniteSet(S) /\ \A i \in S : floors[i] \in Nat
    <3>1. IsFiniteSet(1..n)
      <4> HIDE DEF n
      <4> QED BY <1>1, FS_Interval
    <3> QED BY <1>1, <3>1
  <2>2. SumOn(floors, S) \in Nat
    BY <2>1, SumIsNat
  <2>3. SumOf(floors) = SumOn(floors, S)
    BY <1>1, SumOfIs
  <2> QED BY <2>2, <2>3
<1>3. rem \in [S -> Int]
  <2>1. \A a \in Nat : a * total \in Nat
    BY Z3
  <2>2. \A a \in Nat : a % PolicyUnit \in Int
    BY SelfPlayAssumption, SMTT(30)
  <2> QED BY <1>1, <2>1, <2>2
<1>4. dealt = [i \in S |-> floors[i] + share[i]]
  <2>1. \A i \in S : Before(rem, n, i) =
          {j \in DOMAIN policy : \/ (policy[j] * total) % PolicyUnit > (policy[i] * total) % PolicyUnit
                                 \/ ((policy[j] * total) % PolicyUnit = (policy[i] * total) % PolicyUnit /\ j < i)}
    BY <1>1 DEF Before
  <2> DEFINE other(i) == {j \in DOMAIN policy : \/ (policy[j] * total) % PolicyUnit > (policy[i] * total) % PolicyUnit
                                 \/ ((policy[j] * total) % PolicyUnit = (policy[i] * total) % PolicyUnit /\ j < i)}
  <2>2. dealt = [i \in DOMAIN policy |->
                   floors[i] + IF short <= Cardinality(other(i)) THEN 0
                               ELSE (short - 1 - Cardinality(other(i))) \div Len(policy) + 1]
    BY DEF Dealt
  <2>3. \A i \in S : Before(rem, n, i) = other(i)
    BY <2>1
  <2> HIDE DEF other
  <2> QED BY <1>1, <2>2, <2>3 DEF Share
<1>5. rank \in Bijection(S, 0..(n - 1))
  <2> HIDE DEF rem
  <2> QED BY <1>1, <1>3, RanksAreAll
<1> HIDE DEF rem, rank, short
<1>6. SumOn(share, S) = short /\ \A i \in S : share[i] \in Nat
  <2>1. \A i \in S : share[i] = Share(short, n, rank[i])
    OBVIOUS
  <2> HIDE DEF share, n
  <2> QED BY <1>1, <1>2, <1>5, <2>1, SharesAddUp
<1>7. SumOf(dealt) = SumOn(dealt, S)
  BY <1>4, SumOfIs
<1>8. \A i \in S : floors[i] \in Int /\ share[i] \in Int /\ dealt[i] = floors[i] + share[i]
  BY <1>1, <1>4, <1>6
<1>9. SumOn(dealt, S) = SumOn(floors, S) + SumOn(share, S)
  <2>1. IsFiniteSet(S)
    <3> HIDE DEF n
    <3> QED BY <1>1, FS_Interval
  <2> HIDE DEF dealt, share, S
  <2> QED BY <1>8, <2>1, SumOfBoth
<1>10. SumOf(floors) + short = total
  BY <1>2 DEF short
<1> HIDE DEF dealt
<1> QED BY <1>2, <1>6, <1>7, <1>9, <1>10 DEF dealt

\* A policy written as counts has as many as were asked for.
LEMMA QuantizeAddsUp ==
  ASSUME NEW policy \in Seq(Nat), SumOf(policy) = PolicyUnit, NEW wanted \in Nat \ {0}
  PROVE  SumOf(Quantize(policy, wanted)) = wanted
<1> DEFINE S == DOMAIN policy
           scaled == [i \in S |-> policy[i] * wanted]
           floors == [i \in S |-> (policy[i] * wanted) \div PolicyUnit]
           whole == [i \in S |-> floors[i] * PolicyUnit]
           rest == [i \in S |-> scaled[i] - whole[i]]
<1>1. S = 1..Len(policy) /\ Len(policy) \in Nat /\ \A i \in S : policy[i] \in Nat
  BY LenProperties
<1>2. IsFiniteSet(S)
  BY <1>1, FS_Interval
<1>3. PolicyUnit \in Nat \ {0}
  BY SelfPlayAssumption
<1>4. policy # <<>>
  <2>1. policy = <<>> => S = {}
    OBVIOUS
  <2>2. SumOn(policy, S) = PolicyUnit
    BY SumOfIs
  <2> QED BY <1>3, <2>1, <2>2, SumOfNone
<1>5. \A i \in S : /\ floors[i] \in Nat /\ scaled[i] = policy[i] * wanted /\ scaled[i] \in Nat
                   /\ whole[i] = floors[i] * PolicyUnit /\ whole[i] \in Nat
                   /\ rest[i] = scaled[i] - whole[i] /\ rest[i] \in Nat
  <2> SUFFICES ASSUME NEW i \in S
               PROVE  LET x == policy[i] * wanted
                          f == x \div PolicyUnit
                      IN  f \in Nat /\ x \in Nat /\ f * PolicyUnit \in Nat /\ x - f * PolicyUnit \in Nat
    OBVIOUS
  <2>1. \A a \in Nat : a * wanted \in Nat
    BY Z3
  <2>2. \A x \in Nat : x \div PolicyUnit \in Nat /\ (x \div PolicyUnit) * PolicyUnit <= x
    BY <1>3, SMTT(30)
  <2>3. \A f \in Nat : f * PolicyUnit \in Nat
    BY <1>3, Z3
  <2> DEFINE x == policy[i] * wanted
             f == x \div PolicyUnit
  <2>4. x \in Nat
    BY <1>1, <2>1
  <2> HIDE DEF x
  <2>5. f \in Nat /\ f * PolicyUnit <= x
    BY <2>2, <2>4
  <2> HIDE DEF f
  <2>6. f * PolicyUnit \in Nat
    BY <2>3, <2>5
  <2> QED BY <2>4, <2>5, <2>6 DEF x, f
<1> HIDE DEF scaled, floors, whole, rest
<1>6. SumOn(scaled, S) = PolicyUnit * wanted
  <2>1. \A i \in S : policy[i] \in Int /\ scaled[i] = policy[i] * wanted
    BY <1>1, <1>5
  <2> QED BY <1>2, <2>1, SumOfMultiples, SumOfIs
<1>7. SumOn(whole, S) = SumOn(floors, S) * PolicyUnit
  <2>1. \A i \in S : floors[i] \in Int /\ whole[i] = floors[i] * PolicyUnit
    BY <1>5
  <2> DEFINE c == PolicyUnit
  <2>2. c \in Int /\ \A i \in S : floors[i] \in Int /\ whole[i] = floors[i] * c
    BY <1>3, <2>1
  <2> HIDE DEF c, S
  <2>3. SumOn(whole, S) = SumOn(floors, S) * c
    BY <1>2, <2>2, SumOfMultiples
  <2> QED BY <2>3 DEF c
<1>8. SumOn(rest, S) = SumOn(scaled, S) - SumOn(whole, S)
  <2>1. \A i \in S : scaled[i] \in Int /\ whole[i] \in Int /\ rest[i] = scaled[i] - whole[i]
    BY <1>5
  <2> QED BY <1>2, <2>1, SumOfDifference
<1>9. SumOn(rest, S) \in Nat /\ SumOn(floors, S) \in Nat
  BY <1>2, <1>5, SumIsNat
<1>10. SumOn(floors, S) <= wanted
  <2> DEFINE s == SumOn(floors, S)
  <2>1. s \in Nat /\ PolicyUnit * wanted - s * PolicyUnit \in Nat
    BY <1>6, <1>7, <1>8, <1>9
  <2> HIDE DEF s
  <2>2. \A a \in Nat, b \in Nat, u \in Nat \ {0} : a > b => a * u > u * b
    BY Z3
  <2>3. \A a \in Nat, u \in Nat : a * u \in Nat /\ u * a \in Nat
    BY Z3
  <2>4. s * PolicyUnit \in Nat /\ PolicyUnit * wanted \in Nat
    BY <1>3, <2>1, <2>3
  <2>5. ~(s > wanted)
    BY <1>3, <2>1, <2>2, <2>4
  <2> QED BY <2>1, <2>5 DEF s
<1>11. DOMAIN floors = S /\ SumOf(floors) <= wanted /\ \A i \in S : floors[i] \in Nat
  <2>1. DOMAIN floors = S
    BY DEF floors
  <2> QED BY <1>5, <1>10, <2>1, SumOfIs
<1>12. SumOf(Dealt(policy, wanted, floors)) = wanted
  BY <1>4, <1>11, DealtAddsUp
<1>13. Quantize(policy, wanted) = Dealt(policy, wanted, floors)
  BY DEF Quantize, floors
<1> QED BY <1>12, <1>13

-----------------------------------------------------------------------------
(* A game of self-play, a pass at a time *)

\* The fold over a game's positions.
AllPasses(seq, g, rules, gumbel, control) ==
  FoldLeft(LAMBDA s, position : Ply(s, g, position, rules, gumbel, control), GameStart, seq)

\* h passes over the positions of every set of plies, as the definition of a fold does.
PassesOver(h, seq, g, rules, gumbel, control, S) ==
  h = [s \in SUBSET S |-> IF s = {} THEN GameStart ELSE Ply(h[s \ {Max(s)}], g, seq[Max(s)], rules, gumbel, control)]

\* Where two folds are both defined they agree.
LEMMA PassesAgree ==
  ASSUME NEW n \in Nat, NEW seq, NEW g, NEW rules, NEW gumbel, NEW control, NEW S \in SUBSET Upto(n), NEW T, NEW e, NEW h,
         PassesOver(e, seq, g, rules, gumbel, control, S), PassesOver(h, seq, g, rules, gumbel, control, T)
  PROVE  \A s \in SUBSET S : s \in SUBSET T => e[s] = h[s]
<1> DEFINE B == {u \in SUBSET S : u \subseteq T /\ e[u] # h[u]}
<1> SUFFICES ASSUME B # {} PROVE FALSE
  OBVIOUS
<1>1. PICK u \in B : \A v \in B : v \subseteq u => v = u
  <2>1. PlaceSets(B, S, n)
    BY DEF PlaceSets
  <2> HIDE DEF B
  <2> QED BY <2>1, LeastPlaces
<1>2. u \in SUBSET S /\ u \in SUBSET T /\ e[u] # h[u]
  OBVIOUS
<1> DEFINE x == Max(u)
<1>3. /\ e[u] = IF u = {} THEN GameStart ELSE Ply(e[u \ {x}], g, seq[x], rules, gumbel, control)
      /\ h[u] = IF u = {} THEN GameStart ELSE Ply(h[u \ {x}], g, seq[x], rules, gumbel, control)
  BY <1>2 DEF PassesOver
<1>4. u # {}
  BY <1>2, <1>3
<1>5. x \in u
  BY <1>2, <1>4, MaxIsIn
<1> HIDE DEF x
<1>6. u \ {x} \notin B
  BY <1>1, <1>5
<1>7. e[u \ {x}] = h[u \ {x}]
  BY <1>2, <1>6
<1> HIDE DEF B
<1> QED BY <1>2, <1>3, <1>4, <1>7

\* Every set of plies has its fold.
LEMMA PassesExist ==
  ASSUME NEW n \in Nat, NEW seq, NEW g, NEW rules, NEW gumbel, NEW control, NEW S \in SUBSET Upto(n)
  PROVE  \E h : PassesOver(h, seq, g, rules, gumbel, control, S)
<1> DEFINE B == {u \in SUBSET S : ~\E h : PassesOver(h, seq, g, rules, gumbel, control, u)}
<1> SUFFICES ASSUME B # {} PROVE FALSE
  OBVIOUS
<1>1. PICK u \in B : \A v \in B : v \subseteq u => v = u
  <2>1. PlaceSets(B, S, n)
    BY DEF PlaceSets
  <2> HIDE DEF B
  <2> QED BY <2>1, LeastPlaces
<1>2. u \in SUBSET S /\ ~\E h : PassesOver(h, seq, g, rules, gumbel, control, u)
  OBVIOUS
<1>3. ASSUME NEW s \in SUBSET u, s # u PROVE \E h : PassesOver(h, seq, g, rules, gumbel, control, s)
  <2>1. s \in SUBSET S
    BY <1>2
  <2> QED BY <1>1, <1>3, <2>1
<1> DEFINE G(s) == CHOOSE h : PassesOver(h, seq, g, rules, gumbel, control, s)
<1>4. ASSUME NEW s \in SUBSET u, s # u PROVE PassesOver(G(s), seq, g, rules, gumbel, control, s)
  BY <1>3, <1>4
<1> HIDE DEF G, B
<1> DEFINE Less(s) == s \ {Max(s)}
           Of(s) == IF s = u THEN IF u = {} THEN GameStart ELSE Ply(G(Less(u))[Less(u)], g, seq[Max(u)], rules, gumbel, control)
                    ELSE G(s)[s]
           h == [s \in SUBSET u |-> Of(s)]
<1>5. ASSUME NEW s \in SUBSET u
      PROVE  Of(s) = IF s = {} THEN GameStart ELSE Ply(h[Less(s)], g, seq[Max(s)], rules, gumbel, control)
  <2>1. CASE s = {}
    <3>1. CASE s = u
      BY <2>1, <3>1
    <3>2. CASE s # u
      <4>1. PassesOver(G(s), seq, g, rules, gumbel, control, s)
        BY <1>4, <3>2
      <4>2. G(s)[s] = GameStart
        BY <2>1, <4>1 DEF PassesOver
      <4> QED BY <2>1, <3>2, <4>2
    <3> QED BY <3>1, <3>2
  <2>2. CASE s # {}
    <3> DEFINE r == Less(s)
    <3>1. Max(s) \in s
      BY <1>2, <2>2, MaxIsIn
    <3>2. r \in SUBSET u /\ r # u /\ r \in SUBSET s /\ r \in SUBSET r
      BY <3>1
    <3>3. h[r] = G(r)[r]
      BY <3>2
    <3>4. CASE s = u
      BY <2>2, <3>3, <3>4
    <3>5. CASE s # u
      <4>1. PassesOver(G(s), seq, g, rules, gumbel, control, s) /\ PassesOver(G(r), seq, g, rules, gumbel, control, r)
        <5> HIDE DEF r
        <5> QED BY <1>4, <3>2, <3>5
      <4>2. G(s)[s] = Ply(G(s)[r], g, seq[Max(s)], rules, gumbel, control)
        <5>1. s \in SUBSET s
          OBVIOUS
        <5> QED BY <2>2, <4>1, <5>1 DEF PassesOver
      <4>3. s \in SUBSET Upto(n) /\ r \in SUBSET s /\ r \in SUBSET r
        BY <1>2, <3>2
      <4> DEFINE a == G(s)
                 b == G(r)
      <4>4. PassesOver(a, seq, g, rules, gumbel, control, s) /\ PassesOver(b, seq, g, rules, gumbel, control, r)
        BY <4>1
      <4> HIDE DEF r, a, b
      <4>5. a[r] = b[r]
        BY <4>3, <4>4, PassesAgree
      <4> USE DEF a, b
      <4> HIDE DEF h, Less
      <4> QED BY <2>2, <3>3, <3>5, <4>2, <4>5 DEF r, a, b
    <3> QED BY <3>4, <3>5
  <2> QED BY <2>1, <2>2
<1>6. PassesOver(h, seq, g, rules, gumbel, control, u)
  <2> HIDE DEF Of
  <2>1. h = [s \in SUBSET u |-> Of(s)]
    OBVIOUS
  <2> HIDE DEF h
  <2>2. [s \in SUBSET u |-> Of(s)]
          = [s \in SUBSET u |-> IF s = {} THEN GameStart ELSE Ply(h[s \ {Max(s)}], g, seq[Max(s)], rules, gumbel, control)]
    BY <1>5
  <2> QED BY <2>1, <2>2 DEF PassesOver
<1> QED BY <1>2, <1>6

\* st is the game, position by position.
Passes(st, seq, g, rules, gumbel, control, n) ==
  /\ st[0] = GameStart
  /\ \A k \in 1..n : st[k] = Ply(st[k - 1], g, seq[k], rules, gumbel, control)

\* The fold over a game is its passes, one after the other.
LEMMA GameIsPassed ==
  ASSUME NEW n \in Nat, NEW seq, DOMAIN seq = 1..n, NEW g, NEW rules, NEW gumbel, NEW control
  PROVE  \E st : /\ Passes(st, seq, g, rules, gumbel, control, n)
                 /\ AllPasses(seq, g, rules, gumbel, control) = st[n]
<1> DEFINE S == Upto(n)
           it == CHOOSE h : h = [s \in SUBSET S |-> IF s = {} THEN GameStart
                   ELSE LET x == Max(s) IN Ply(h[s \ {x}], g, seq[x], rules, gumbel, control)]
           st == [k \in 0..n |-> it[1..k]]
<1>1. AllPasses(seq, g, rules, gumbel, control) = it[S]
  BY DEF AllPasses, FoldLeft, MapThenFoldSet, Upto
<1>2. it = CHOOSE h : PassesOver(h, seq, g, rules, gumbel, control, S)
  BY DEF PassesOver
<1> HIDE DEF it
<1>3. PassesOver(it, seq, g, rules, gumbel, control, S)
  <2>1. \E h : PassesOver(h, seq, g, rules, gumbel, control, S)
    BY PassesExist
  <2> QED BY <1>2, <2>1
<1>4. st[0] = GameStart /\ st[n] = it[S]
  <2>1. 1..0 = {} /\ {} \in SUBSET S
    OBVIOUS
  <2>2. it[{}] = GameStart
    BY <1>3, <2>1 DEF PassesOver
  <2> QED BY <2>1, <2>2 DEF Upto
<1>5. ASSUME NEW k \in 1..n PROVE st[k] = Ply(st[k - 1], g, seq[k], rules, gumbel, control)
  <2> DEFINE s == 1..k
  <2>1. s \in SUBSET S /\ s # {} /\ k \in s /\ \A x \in s : k >= x
    BY DEF Upto
  <2>2. Max(s) = k
    <3>1. Max(s) \in s /\ Max(s) >= k
      <4>1. \E x \in s : \A y \in s : x >= y
        BY <2>1
      <4> HIDE DEF s
      <4> QED BY <2>1, <4>1 DEF Max
    <3>2. \A x \in 1..k : x >= k => x = k
      OBVIOUS
    <3> QED BY <3>1, <3>2
  <2>3. s \ {k} = 1..(k - 1)
    OBVIOUS
  <2>4. it[s] = Ply(it[s \ {k}], g, seq[k], rules, gumbel, control)
    <3> HIDE DEF s
    <3> QED BY <1>3, <2>1, <2>2 DEF PassesOver
  <2>5. st[k] = it[s] /\ st[k - 1] = it[1..(k - 1)]
    OBVIOUS
  <2> HIDE DEF s, st
  <2> QED BY <2>3, <2>4, <2>5
<1> HIDE DEF st
<1>6. Passes(st, seq, g, rules, gumbel, control, n)
  BY <1>4, <1>5 DEF Passes
<1> QED BY <1>1, <1>4, <1>6

\* The rows a game may leave: one for each position that was searched.
Searchable(script) == {k \in 0..(Len(script) - 1) : ~script[k + 1].over /\ script[k + 1].visits # <<>>}
RowsOf(script, g, gumbel) == {Row(g, script[k + 1], k, gumbel) : k \in Searchable(script)}

\* After k positions.
PassOK(s, k, script, g, gumbel) ==
  /\ DOMAIN s = DOMAIN GameStart /\ s.rows \in Seq(RowsOf(script, g, gumbel))
  /\ s.stopped \/ s.ply = k

\* A pass leaves rows of positions that were searched, and counts its plies.
LEMMA PassKeepsRows ==
  ASSUME NEW script, NEW g, NEW rules, NEW gumbel, NEW control, NEW k \in Nat,
         NEW s, PassOK(s, k, script, g, gumbel), k < Len(script), Len(script) \in Nat
  PROVE  PassOK(Ply(s, g, script[k + 1], rules, gumbel, control), k + 1, script, g, gumbel)
<1> DEFINE position == script[k + 1]
           streaks == IF rules.on THEN Observe(s.streaks, position, rules) ELSE s.streaks
           fires == Firing(s, streaks, position, rules)
           row == Row(g, position, s.ply, gumbel)
           R == RowsOf(script, g, gumbel)
           t == Ply(s, g, position, rules, gumbel, control)
<1>1. CASE s.stopped
  <2>1. t = s
    BY <1>1 DEF Ply
  <2> QED BY <1>1, <2>1 DEF PassOK
<1>2. CASE ~s.stopped /\ (position.over \/ position.visits = <<>>)
  <2>1. /\ DOMAIN t = DOMAIN s /\ t.rows = s.rows /\ t.stopped
    BY <1>2 DEF Ply, PassOK, GameStart
  <2> HIDE DEF t
  <2>2. PassOK(t, k + 1, script, g, gumbel)
    BY <2>1 DEF PassOK
  <2> QED BY <2>2 DEF t
<1>3. CASE ~s.stopped /\ ~(position.over \/ position.visits = <<>>)
  <2>1. t = Searched(s, position, row, streaks, fires, control)
    BY <1>3 DEF Ply
  <2> DEFINE stops == (fires /\ ~control) \/ ~position.chosen
  <2>2. s.ply = k /\ row \in R
    <3>1. s.ply = k
      BY <1>3 DEF PassOK
    <3>2. k \in Searchable(script)
      BY <1>3 DEF Searchable
    <3> QED BY <3>1, <3>2 DEF RowsOf
  <2> HIDE DEF row, streaks, fires, position, R
  <2>3. /\ DOMAIN t = DOMAIN s
        /\ t.rows = IF Len(position.visits) > 1 THEN Append(s.rows, row) ELSE s.rows
        /\ t.stopped = stops /\ t.ply = IF stops THEN s.ply ELSE s.ply + 1
    BY <2>1 DEF Searched, PassOK, GameStart
  <2>4. t.rows \in Seq(R)
    <3>1. s.rows \in Seq(R)
      BY DEF PassOK, R
    <3> QED BY <2>2, <2>3, <3>1, AppendProperties
  <2> HIDE DEF t, stops
  <2>5. PassOK(t, k + 1, script, g, gumbel)
    BY <2>2, <2>3, <2>4 DEF PassOK, R
  <2> QED BY <2>5 DEF t, position
<1> QED BY <1>1, <1>2, <1>3

\* A row's counts add up to the visits of its search.
RowTrue(row, net) == SumOf(row.pv) = SumOf(Script[net][row.g][row.ply + 1].visits)

\* Such a row has as many counts as its search has visits, in either kind of target.
LEMMA RowsAddUp ==
  ASSUME NEW net \in DOMAIN Script, NEW g \in 0..(GameCount - 1), NEW gumbel,
         NEW row \in RowsOf(Script[net][g], g, gumbel)
  PROVE  row.g = g /\ RowTrue(row, net) /\ DOMAIN row = {"g", "ply", "mover", "actions", "z", "pv"}
<1> DEFINE script == Script[net][g]
<1>1. PICK k \in Searchable(script) : row = Row(g, script[k + 1], k, gumbel)
  BY DEF RowsOf
<1> DEFINE position == script[k + 1]
<1>2. script \in Seq({script[i] : i \in DOMAIN script})
  BY SelfPlayAssumption
<1>3. k + 1 \in DOMAIN script /\ ~position.over /\ position.visits # <<>>
  <2>1. Len(script) \in Nat /\ DOMAIN script = 1..Len(script)
    BY <1>2, LenProperties
  <2> HIDE DEF script
  <2> QED BY <2>1 DEF Searchable
<1>4. SearchReports(position)
  BY <1>3, SelfPlayAssumption
<1> HIDE DEF position
<1>5. SumOf(position.visits) \in Nat \ {0}
  <2> DEFINE v == position.visits
  <2>1. v \in Seq(Nat) /\ SumOf(v) > 0
    BY <1>4 DEF SearchReports
  <2> HIDE DEF v
  <2>2. DOMAIN v = 1..Len(v) /\ Len(v) \in Nat /\ \A i \in DOMAIN v : v[i] \in Nat
    BY <2>1, LenProperties
  <2>3. IsFiniteSet(DOMAIN v)
    BY <2>2, FS_Interval
  <2>4. SumOf(v) \in Nat
    BY <2>2, <2>3, SumIsNat, SumOfIs
  <2> QED BY <2>1, <2>4 DEF v
<1>6. SumOf(Quantize(position.policy, SumOf(position.visits))) = SumOf(position.visits)
  <2> DEFINE wanted == SumOf(position.visits)
  <2>1. wanted \in Nat \ {0}
    BY <1>5
  <2> HIDE DEF wanted
  <2>2. SumOf(Quantize(position.policy, wanted)) = wanted
    BY <1>4, <2>1, QuantizeAddsUp DEF SearchReports
  <2> QED BY <2>2 DEF wanted
<1>7. /\ row.g = g /\ row.ply = k /\ DOMAIN row = {"g", "ply", "mover", "actions", "z", "pv"}
      /\ row.pv = IF gumbel.on /\ gumbel.pv = "improved"
                  THEN Quantize(position.policy, SumOf(position.visits)) ELSE position.visits
  BY <1>1 DEF Row, position
<1>8. SumOf(row.pv) = SumOf(position.visits)
  BY <1>6, <1>7
<1> QED BY <1>7, <1>8 DEF RowTrue, position

\* So has every row of a game, settled, in either arm and under every rule.
LEMMA GamesRows ==
  ASSUME NEW net \in DOMAIN Script, NEW g \in 0..(GameCount - 1), NEW rules, NEW gumbel, NEW control,
         NEW i \in DOMAIN PlayIn(net, g, rules, gumbel, control).rows
  PROVE  RowTrue(PlayIn(net, g, rules, gumbel, control).rows[i], net)
<1> DEFINE script == Script[net][g]
           m == IF Len(script) < PlyCeiling THEN Len(script) ELSE PlyCeiling
           played == SubSeq(script, 1, m)
           R == RowsOf(script, g, gumbel)
           report == PlayIn(net, g, rules, gumbel, control)
<1>1. script \in Seq({script[k] : k \in DOMAIN script})
  BY SelfPlayAssumption
<1>2. Len(script) \in Nat /\ m \in Nat /\ m <= Len(script)
  BY <1>1, LenProperties, SelfPlayAssumption
<1>3. DOMAIN played = 1..m /\ \A k \in 1..m : played[k] = script[k]
  <2> HIDE DEF script, m
  <2>1. Len(played) = m /\ played \in Seq({script[k] : k \in DOMAIN script}) /\ \A k \in 1..m : played[k] = script[k]
    <3>1. m - 1 + 1 = m /\ (1 <= m + 1)
      BY <1>2
    <3> QED BY <1>1, <1>2, <3>1, SubSeqProperties
  <2> QED BY <2>1, LenProperties
<1> HIDE DEF script, m, played, R
<1>4. PICK st : /\ Passes(st, played, g, rules, gumbel, control, m)
                /\ AllPasses(played, g, rules, gumbel, control) = st[m]
  BY <1>2, <1>3, GameIsPassed
<1>5. PassOK(st[m], m, script, g, gumbel)
  <2> DEFINE Wrong == {k \in 0..m : ~PassOK(st[k], k, script, g, gumbel)}
  <2> SUFFICES ASSUME Wrong # {} PROVE FALSE
    <3>1. m \in 0..m
      BY <1>2
    <3> QED BY <3>1
  <2>1. Wrong \subseteq Nat
    OBVIOUS
  <2>2. PICK k \in Wrong : \A l \in Wrong : k <= l
    <3> HIDE DEF Wrong
    <3> QED BY <2>1, LeastNumber
  <2>3. PassOK(st[0], 0, script, g, gumbel)
    <3>1. st[0] = GameStart
      BY <1>4 DEF Passes
    <3> QED BY <3>1, EmptySeq DEF PassOK, GameStart
  <2>4. k \in 1..m /\ ~PassOK(st[k], k, script, g, gumbel)
    BY <2>3
  <2> DEFINE l == k - 1
  <2>5. l \in Nat /\ l \in 0..m /\ k = l + 1 /\ l < Len(script) /\ ~(k <= l)
    BY <1>2, <2>4
  <2>6. PassOK(st[l], l, script, g, gumbel)
    BY <2>2, <2>5
  <2>7. st[k] = Ply(st[l], g, script[k], rules, gumbel, control)
    BY <1>3, <1>4, <2>4 DEF Passes
  <2> HIDE DEF l, Wrong
  <2>8. PassOK(Ply(st[l], g, script[l + 1], rules, gumbel, control), l + 1, script, g, gumbel)
    BY <1>2, <2>5, <2>6, PassKeepsRows
  <2> QED BY <2>4, <2>5, <2>7, <2>8
<1> DEFINE end == st[m]
           last == script[end.ply + 1]
<1>6. report = Reported(end, last, control)
  <2>1. report = ReportedIn(AllPasses(played, g, rules, gumbel, control),
                            script, control)
    BY DEF PlayIn, AllPasses, played, script, m
  <2> QED BY <1>4, <2>1 DEF ReportedIn
<1> HIDE DEF end, last
<1> DEFINE z == IF end.resigned = 0 THEN last.verdict ELSE IF end.resigned = 1 THEN -1 ELSE 1
<1>7. report = SettleGame(end, last, z, control)
  BY <1>6 DEF Reported
<1> HIDE DEF z
<1>8. report.rows = [j \in DOMAIN end.rows |-> [end.rows[j] EXCEPT !.z = z]]
  BY <1>7 DEF SettleGame
<1>9. end.rows[i] \in R
  <2>1. end.rows \in Seq(R) /\ i \in DOMAIN end.rows
    BY <1>5, <1>8 DEF PassOK, end, R
  <2> QED BY <2>1, LenProperties, ElementOfSeq
<1>10. /\ RowTrue(end.rows[i], net) /\ DOMAIN end.rows[i] = {"g", "ply", "mover", "actions", "z", "pv"}
  BY <1>9, RowsAddUp DEF R, script
<1>11. /\ report.rows[i].g = end.rows[i].g /\ report.rows[i].ply = end.rows[i].ply
       /\ report.rows[i].pv = end.rows[i].pv
  BY <1>8, <1>10
<1> HIDE DEF report
<1>12. RowTrue(report.rows[i], net)
  BY <1>10, <1>11 DEF RowTrue
<1> QED BY <1>12 DEF report

\* The file holds each of these games once, whole, as a champion plays it.
Once(net, file, games) ==
  /\ net \in Champions \cap Loadable /\ file \in Seq(GameChunks)
  /\ \A c \in DOMAIN file : file[c].net = net /\ file[c].g \in games
  /\ \A g \in games : \E c \in DOMAIN file : file[c].g = g
  /\ \A c \in DOMAIN file : \A e \in DOMAIN file : file[c].g = file[e].g => c = e

\* An empty file holds no game.
LEMMA OnceNone ==
  ASSUME NEW net \in Champions \cap Loadable
  PROVE  Once(net, <<>>, {})
BY EmptySeq DEF Once

\* Two files of different games hold those of both.
LEMMA OnceConcatenated ==
  ASSUME NEW net, NEW e, NEW f, NEW G, NEW H, Once(net, e, G), Once(net, f, H), G \cap H = {}
  PROVE  Once(net, e \o f, G \cup H)
<1> DEFINE h == e \o f
<1>1. e \in Seq(GameChunks) /\ f \in Seq(GameChunks) /\ net \in Champions \cap Loadable
  BY DEF Once
<1>2. /\ Len(e) \in Nat /\ DOMAIN e = 1..Len(e) /\ Len(f) \in Nat /\ DOMAIN f = 1..Len(f)
      /\ h \in Seq(GameChunks) /\ DOMAIN h = 1..Len(h) /\ Len(h) = Len(e) + Len(f)
      /\ \A i \in 1..(Len(e) + Len(f)) : h[i] = IF i <= Len(e) THEN e[i] ELSE f[i - Len(e)]
  BY <1>1, ConcatProperties, LenProperties
<1> HIDE DEF h
<1>3. \A c \in DOMAIN h : \/ c \in DOMAIN e /\ h[c] = e[c]
                          \/ c - Len(e) \in DOMAIN f /\ c \notin DOMAIN e /\ h[c] = f[c - Len(e)]
  BY <1>2
<1>4. /\ \A c \in DOMAIN e : c \in DOMAIN h /\ h[c] = e[c]
      /\ \A c \in DOMAIN f : c + Len(e) \in DOMAIN h /\ h[c + Len(e)] = f[c]
  BY <1>2
<1>5. \A c \in DOMAIN h : h[c].net = net /\ h[c].g \in G \cup H
  BY <1>3 DEF Once
<1>6. \A g \in G \cup H : \E c \in DOMAIN h : h[c].g = g
  <2> TAKE g \in G \cup H
  <2>1. CASE g \in G
    <3>1. PICK c \in DOMAIN e : e[c].g = g
      BY <2>1 DEF Once
    <3> QED BY <1>4, <3>1
  <2>2. CASE g \in H
    <3>1. PICK c \in DOMAIN f : f[c].g = g
      BY <2>2 DEF Once
    <3> QED BY <1>4, <3>1
  <2> QED BY <2>1, <2>2
<1>7. ASSUME NEW c \in DOMAIN h, NEW d \in DOMAIN h, h[c].g = h[d].g PROVE c = d
  <2>1. CASE c \in DOMAIN e /\ d \in DOMAIN e
    BY <1>4, <1>7, <2>1 DEF Once
  <2>2. CASE c \notin DOMAIN e /\ d \notin DOMAIN e
    <3>1. c - Len(e) \in DOMAIN f /\ d - Len(e) \in DOMAIN f /\ f[c - Len(e)].g = f[d - Len(e)].g
      BY <1>3, <1>7, <2>2
    <3>2. c - Len(e) = d - Len(e)
      BY <3>1 DEF Once
    <3> QED BY <1>2, <3>2
  <2>3. CASE c \in DOMAIN e /\ d \notin DOMAIN e
    <3>1. h[c].g \in G /\ h[d].g \in H
      BY <1>3, <2>3 DEF Once
    <3> QED BY <1>7, <3>1
  <2>4. CASE c \notin DOMAIN e /\ d \in DOMAIN e
    <3>1. h[d].g \in G /\ h[c].g \in H
      BY <1>3, <2>4 DEF Once
    <3> QED BY <1>7, <3>1
  <2> QED BY <2>1, <2>2, <2>3, <2>4
<1>8. Once(net, h, G \cup H)
  BY <1>1, <1>2, <1>5, <1>6, <1>7 DEF Once
<1> QED BY <1>8 DEF h

\* A game that was not in the file is in it once.
LEMMA OnceAppended ==
  ASSUME NEW net, NEW file, NEW games, Once(net, file, games), NEW chunk \in GameChunks, chunk.net = net, NEW g,
         chunk.g = g, g \notin games
  PROVE  Once(net, Append(file, chunk), games \cup {g})
<1> DEFINE h == Append(file, chunk)
           n == Len(file) + 1
<1>1. file \in Seq(GameChunks) /\ net \in Champions \cap Loadable
  BY DEF Once
<1>2. /\ Len(file) \in Nat /\ DOMAIN file = 1..Len(file)
      /\ h \in Seq(GameChunks) /\ DOMAIN h = 1..(Len(file) + 1)
      /\ \A i \in 1..Len(file) : h[i] = file[i]
      /\ h[n] = chunk
  BY <1>1, AppendProperties, LenProperties
<1> HIDE DEF h
<1>3. /\ DOMAIN h = DOMAIN file \cup {n} /\ n \notin DOMAIN file
      /\ \A c \in DOMAIN file : h[c] = file[c]
  BY <1>2
<1> HIDE DEF n
<1>4. \A c \in DOMAIN h : h[c].net = net /\ h[c].g \in games \cup {g}
  BY <1>2, <1>3 DEF Once
<1>5. \A k \in games \cup {g} : \E c \in DOMAIN h : h[c].g = k
  BY <1>2, <1>3 DEF Once
<1>6. \A c \in DOMAIN h : \A e \in DOMAIN h : h[c].g = h[e].g => c = e
  BY <1>2, <1>3 DEF Once
<1>7. Once(net, h, games \cup {g})
  BY <1>1, <1>2, <1>4, <1>5, <1>6 DEF Once
<1> QED BY <1>7 DEF h

\* What a file of all the games says.
WholeFile(net, rows) ==
  /\ rows # NoFile
  /\ Len(rows) = GameCount /\ {rows[c].g : c \in DOMAIN rows} = 0..(GameCount - 1)
  /\ \A c \in DOMAIN rows : /\ rows[c].net = net /\ ~rows[c].torn
                            /\ \A i \in DOMAIN rows[c].rows : RowTrue(rows[c].rows[i], rows[c].net)

LEMMA WholeIsTrue ==
  ASSUME NEW net, NEW rows, Once(net, rows, 0..(GameCount - 1))
  PROVE  WholeFile(net, rows)
<1> DEFINE games == 0..(GameCount - 1)
<1>1. rows \in Seq(GameChunks) /\ rows # NoFile /\ net \in DOMAIN Script
  BY GenerationAssumption DEF Once
<1>2. Len(rows) \in Nat /\ DOMAIN rows = 1..Len(rows) /\ \A c \in DOMAIN rows : rows[c] \in GameChunks
  BY <1>1, LenProperties, ElementOfSeq
<1>3. Once(net, rows, games)
  OBVIOUS
<1>4. {rows[c].g : c \in DOMAIN rows} = games
  <2> HIDE DEF games
  <2> QED BY <1>3 DEF Once
<1>5. Len(rows) = GameCount
  <2> DEFINE f == [c \in DOMAIN rows |-> rows[c].g]
             n == Len(rows)
             I == 1..n
  <2>1. GameCount \in Nat
    BY SelfPlayAssumption
  <2>2. IsFiniteSet(games) /\ Cardinality(games) = GameCount
    <3> DEFINE last == GameCount - 1
    <3>1. last \in Int /\ (0 > last => GameCount = 0) /\ (last - 0 + 1 = GameCount) /\ 0 \in Int
      BY <2>1
    <3> HIDE DEF last
    <3>2. IsFiniteSet(0..last) /\ Cardinality(0..last) = IF 0 > last THEN 0 ELSE last - 0 + 1
      BY <3>1, FS_Interval
    <3> QED BY <3>1, <3>2 DEF last
  <2>3. IsFiniteSet(I) /\ Cardinality(I) = n
    <3>1. n \in Int /\ 1 \in Int /\ (1 > n => n = 0) /\ n - 1 + 1 = n
      BY <1>2
    <3> HIDE DEF n
    <3> QED BY <3>1, FS_Interval
  <2> HIDE DEF games
  <2>4. f \in [I -> games]
    BY <1>2, <1>3 DEF Once
  <2>5. \A y \in games : \E c \in I : f[c] = y
    BY <1>2, <1>3 DEF Once
  <2>6. \A c \in I : \A e \in I : f[c] = f[e] => c = e
    BY <1>2, <1>3 DEF Once
  <2> HIDE DEF f, I
  <2>7. f \in Bijection(I, games)
    BY <2>4, <2>5, <2>6 DEF Bijection, Injection, Surjection, IsInjective
  <2>8. ExistsBijection(I, games)
    BY <2>7 DEF ExistsBijection
  <2>9. Cardinality(I) = Cardinality(games)
    BY <2>3, <2>8, FS_Bijection
  <2> QED BY <2>2, <2>3, <2>9 DEF n
<1>6. ASSUME NEW c \in DOMAIN rows
      PROVE  /\ rows[c].net = net /\ ~rows[c].torn
             /\ \A i \in DOMAIN rows[c].rows : RowTrue(rows[c].rows[i], rows[c].net)
  <2>1. rows[c].net = net
    BY <1>3 DEF Once
  <2>2. PICK m \in Champions \cap Loadable, g \in 0..(GameCount - 1), inv \in Invocations :
          rows[c] = Chunk(m, g, SelfPlayGame(m, g, inv.env))
    BY <1>2 DEF GameChunks
  <2> DEFINE report == SelfPlayGame(m, g, inv.env)
  <2>3. /\ ~rows[c].torn /\ rows[c].net = m /\ rows[c].rows = report.rows
    BY <2>2 DEF Chunk
  <2>4. \A i \in DOMAIN report.rows : RowTrue(report.rows[i], m)
    <3>1. m \in DOMAIN Script
      BY GenerationAssumption
    <3> QED BY <3>1, GamesRows DEF SelfPlayGame
  <2> HIDE DEF report
  <2> QED BY <2>1, <2>3, <2>4
<1> QED BY <1>1, <1>4, <1>5, <1>6 DEF WholeFile

\* The games of a generation.
AllGames == 0..(GameCount - 1)

\* The games of the first k of count shards.
FirstShards(k, count) == {g \in AllGames : g % count < k}

\* A shard that is playing has played what is no longer left of its share.
ShardWhole(net, s, i, count) ==
  /\ DOMAIN s = {"net", "env", "left", "file", "stats", "status"}
  /\ s.net = net /\ s.env \in {inv.env : inv \in Invocations} /\ s.left \in SUBSET ShardGames(i, count)
  /\ s.status = "playing" => Once(net, s.file, ShardGames(i, count) \ s.left)

\* The rows of a generation in which a run of count shards is at this point, k shards concatenated.
WhilePlaying(d, count) ==
  /\ d.rows = NoFile
  /\ \A i \in Shards : IF i < count THEN ShardWhole(d.champ, d.shard[i], i, count) ELSE d.shard[i] = NoShard

\* While they are concatenated: every shard is whole, and the rows are the first k of them.
WhileConcatenating(d, count, k) ==
  /\ k \in 0..ShardLimit /\ d.champ \in Champions \cap Loadable
  /\ \A i \in Shards : IF i < count THEN Once(d.champ, d.shard[i].file, ShardGames(i, count)) ELSE d.shard[i] = NoShard
  /\ IF k = 0 THEN d.rows = NoFile ELSE Once(d.champ, d.rows, FirstShards(k, count))

\* The rows at every point: what is validated or stamped is the generation, unless cat failed.
RowsOK(d, at, count, k) ==
  /\ d.champ \in Champions \cup {NoFile, Torn}
  /\ at = "wait" => WhilePlaying(d, count)
  /\ at = "cat" => k \in 0..ShardLimit /\ (~d.short => WhileConcatenating(d, count, k))
  /\ (at = "validate" \/ "selfplay" \in d.done) /\ ~d.short => Once(d.champ, d.rows, AllGames)

\* So for every generation, with what the run at work says of its own.
RowsInv == \A g \in 1..GenCount : RowsOK(disk[g], PointIn(g), run.inv.shards, run.instance)

-----------------------------------------------------------------------------
(* Shares *)

\* The next game of a shard is one it has left.
LEMMA ShardNext ==
  ASSUME NEW net, NEW s, NEW i, NEW count, ShardWhole(net, s, i, count), s.left # {}
  PROVE  NextGame(s) \in s.left
<1>1. s.left \subseteq Nat
  BY DEF ShardWhole, ShardGames
<1>2. \E g \in s.left : \A h \in s.left : g <= h
  BY <1>1, LeastNumber
<1> QED BY <1>2 DEF NextGame

\* A game further, the shard holds that one too.
LEMMA ShardPlaysOne ==
  ASSUME NEW net, NEW s, NEW i, NEW count, ShardWhole(net, s, i, count), s.left # {}, s.status = "playing"
  PROVE  ShardWhole(net, Generated(s), i, count)
<1> DEFINE g == NextGame(s)
           report == SelfPlayGame(s.net, g, s.env)
           chunk == Chunk(s.net, g, report)
           t == Wrote(s, g, report)
           played == ShardGames(i, count) \ s.left
<1>1. g \in s.left /\ s.left \subseteq ShardGames(i, count)
  BY ShardNext DEF ShardWhole
<1>2. Once(net, s.file, played) /\ s.net = net
  BY DEF ShardWhole
<1>3. chunk \in GameChunks /\ chunk.net = net /\ chunk.g = g
  <2>1. PICK inv \in Invocations : s.env = inv.env
    BY DEF ShardWhole
  <2>2. net \in Champions \cap Loadable /\ g \in 0..(GameCount - 1)
    BY <1>1, <1>2 DEF Once, ShardGames
  <2>3. chunk = Chunk(net, g, SelfPlayGame(net, g, inv.env))
    BY <1>2, <2>1
  <2>4. chunk \in GameChunks
    <3> HIDE DEF chunk, g
    <3> QED BY <2>1, <2>2, <2>3 DEF GameChunks
  <2> QED BY <1>2, <2>4 DEF Chunk
<1> HIDE DEF g
<1>4. /\ DOMAIN t = DOMAIN s /\ t.net = s.net /\ t.env = s.env /\ t.status = s.status
      /\ t.left = s.left \ {g} /\ t.file = Append(s.file, chunk)
  BY DEF Wrote, ShardWhole
<1> HIDE DEF t, chunk, report
<1>5. Once(net, Append(s.file, chunk), played \cup {g})
  <2>1. g \notin played
    BY <1>1
  <2> HIDE DEF played
  <2> QED BY <1>2, <1>3, <2>1, OnceAppended
<1>6. played \cup {g} = ShardGames(i, count) \ t.left
  BY <1>1, <1>4
<1> HIDE DEF played
<1>7. ShardWhole(net, t, i, count)
  BY <1>4, <1>5, <1>6 DEF ShardWhole
<1> QED BY <1>7 DEF Generated, t, report, g

\* A shard that tears a game has failed, and nothing is said of its file.
LEMMA ShardTears ==
  ASSUME NEW net, NEW s, NEW i, NEW count, ShardWhole(net, s, i, count)
  PROVE  ShardWhole(net, GeneratedTorn(s), i, count)
<1>1. ASSUME NEW chunk PROVE ShardWhole(net, Tore(s, chunk), i, count)
  <2>1. /\ DOMAIN Tore(s, chunk) = DOMAIN s /\ Tore(s, chunk).net = s.net /\ Tore(s, chunk).env = s.env
        /\ Tore(s, chunk).left = s.left /\ Tore(s, chunk).status = "failed"
    BY DEF Tore, ShardWhole
  <2> QED BY <2>1 DEF ShardWhole
<1> QED BY <1>1 DEF GeneratedTorn

\* A shard that starts has played nothing of its share.
LEMMA ShardLaunched ==
  ASSUME NEW net \in Champions \cup {Torn}, NEW inv \in Invocations, NEW i, NEW count
  PROVE  ShardWhole(net, Launched(net, net \in Loadable, i, count, inv.env), i, count)
<1> DEFINE s == Launched(net, net \in Loadable, i, count, inv.env)
<1>1. /\ DOMAIN s = {"net", "env", "left", "file", "stats", "status"} /\ s.net = net /\ s.env = inv.env
      /\ s.left = ShardGames(i, count) /\ s.file = <<>>
      /\ s.status = "playing" => net \in Loadable
  BY DEF Launched
<1> HIDE DEF s
<1>2. ASSUME s.status = "playing" PROVE Once(net, s.file, ShardGames(i, count) \ s.left)
  <2>1. net \in Champions \cap Loadable
    BY <1>1, <1>2, GenerationAssumption
  <2>2. Once(net, <<>>, {})
    BY <2>1, OnceNone
  <2> QED BY <1>1, <2>2
<1>3. ShardWhole(net, s, i, count)
  BY <1>1, <1>2 DEF ShardWhole
<1> QED BY <1>3 DEF s

\* The shares are disjoint, and all the games together.
LEMMA SharesAreTheGames ==
  ASSUME NEW count \in Nat \ {0}, NEW k \in Nat
  PROVE  /\ FirstShards(0, count) = {}
         /\ FirstShards(k, count) \cap ShardGames(k, count) = {}
         /\ FirstShards(k, count) \cup ShardGames(k, count) = FirstShards(k + 1, count)
         /\ k >= count => FirstShards(k, count) = AllGames
<1> DEFINE M == [g \in AllGames |-> g % count]
<1>1. \A g \in AllGames : M[g] \in 0..(count - 1)
  BY SelfPlayAssumption DEF AllGames
<1>2. \A j : FirstShards(j, count) = {g \in AllGames : M[g] < j} /\ ShardGames(j, count) = {g \in AllGames : M[g] = j}
  <2> HIDE DEF M
  <2>1. \A g \in AllGames : M[g] = g % count
    BY DEF M
  <2> QED BY <2>1 DEF FirstShards, ShardGames, AllGames
<1> HIDE DEF M
<1>3. \A k1 \in Nat : \A m \in 0..(count - 1) : (m < k1 + 1 <=> m < k1 \/ m = k1) /\ ~(m < 0) /\ (k1 >= count => m < k1)
  OBVIOUS
<1> HIDE DEF AllGames
<1> QED BY <1>1, <1>2, <1>3

-----------------------------------------------------------------------------
(* A step at a time *)

Playtime == {"wait", "cat", "validate"}

\* What leaves the rows of a directory as they were.
Untouched(d, e) ==
  e.champ = d.champ /\ e.rows = d.rows /\ e.short = d.short /\ ("selfplay" \in e.done => "selfplay" \in d.done)

\* Rows that nobody touches stay what they are, outside playtime.
LEMMA QuietOK ==
  ASSUME NEW d, NEW e, NEW at, NEW at2, NEW count, NEW count2, NEW k, NEW k2,
         RowsOK(d, at, count, k), Untouched(d, e), at2 \notin Playtime
  PROVE  RowsOK(e, at2, count2, k2)
BY DEF RowsOK, Untouched, Playtime

\* A step that writes its own directory and moves its own run.
LEMMA Works ==
  ASSUME FilesInv, RowsInv, run.live, NEW e, Only(e), run'.live, run'.inv = run.inv,
         RowsOK(e, run'.at, run.inv.shards, run'.instance)
  PROVE  RowsInv'
<1>1. ASSUME NEW g \in 1..GenCount
      PROVE  RowsOK(disk'[g], PointIn(g)', run'.inv.shards, run'.instance)
  <2>1. CASE g = Gen
    <3>1. PointIn(g)' = run'.at
      BY <2>1 DEF PointIn, Here, Gen
    <3> QED BY <2>1, <3>1 DEF Only
  <2>2. CASE g # Gen
    <3>1. PointIn(g)' = "none" /\ disk'[g] = disk[g]
      BY <2>2 DEF PointIn, Here, Gen, Only
    <3>2. RowsOK(disk[g], PointIn(g), run.inv.shards, run.instance)
      BY DEF RowsInv
    <3>3. Untouched(disk[g], disk[g]) /\ "none" \notin Playtime
      BY DEF Untouched, Playtime
    <3> QED BY <3>1, <3>2, <3>3, QuietOK
  <2> QED BY <2>1, <2>2
<1> QED BY <1>1 DEF RowsInv

\* A step of the script that leaves its rows alone, on its way to somewhere they are not played.
LEMMA Passing ==
  ASSUME FilesInv, RowsInv, run.live, NEW e, Only(e), Untouched(Dir, e),
         run'.live => run'.inv = run.inv /\ run'.at \notin Playtime
  PROVE  RowsInv'
<1>1. ASSUME NEW g \in 1..GenCount
      PROVE  RowsOK(disk'[g], PointIn(g)', run'.inv.shards, run'.instance)
  <2>1. RowsOK(disk[g], PointIn(g), run.inv.shards, run.instance)
    BY DEF RowsInv
  <2>2. PointIn(g)' \notin Playtime
    BY DEF PointIn, Here, Playtime
  <2>3. Untouched(disk[g], disk'[g])
    <3>1. CASE g = Gen
      BY <3>1 DEF Only, Dir, Gen
    <3>2. CASE g # Gen
      BY <3>2 DEF Only, Untouched
    <3> QED BY <3>1, <3>2
  <2> QED BY <2>1, <2>2, <2>3, QuietOK
<1> QED BY <1>1 DEF RowsInv

\* A step of something else that leaves the shards alone too.
LEMMA Elsewhere ==
  ASSUME RowsInv, run' = run,
         \A g \in 1..GenCount : Untouched(disk[g], disk'[g]) /\ disk'[g].shard = disk[g].shard
  PROVE  RowsInv'
<1>1. ASSUME NEW g \in 1..GenCount
      PROVE  RowsOK(disk'[g], PointIn(g)', run'.inv.shards, run'.instance)
  <2>1. RowsOK(disk[g], PointIn(g), run.inv.shards, run.instance)
    BY DEF RowsInv
  <2>2. PointIn(g)' = PointIn(g)
    BY DEF PointIn, Here
  <2>3. Untouched(disk[g], disk'[g]) /\ disk'[g].shard = disk[g].shard
    OBVIOUS
  <2> QED BY <2>1, <2>2, <2>3 DEF RowsOK, WhilePlaying, WhileConcatenating, Untouched
<1> QED BY <1>1 DEF RowsInv

\* Where the run is, with the files and the rows of its generation.
LEMMA RowsAt ==
  ASSUME FilesInv, RowsInv, LockInv, NEW at, AtPoint(at)
  PROVE  /\ run.live = TRUE /\ run.at = at /\ Gen \in 1..GenCount
         /\ DOMAIN run = {"live", "inv", "at", "stage", "took", "trap", "instances", "instance"}
         /\ DirShape(Dir, at, run.stage, run.inv.shards)
         /\ RowsOK(Dir, at, run.inv.shards, run.instance)
         /\ run.inv \in Invocations /\ run.inv.shards \in 1..ShardLimit
<1>1. run.live = TRUE /\ run.at = at /\ DOMAIN run = {"live", "inv", "at", "stage", "took", "trap", "instances", "instance"}
  BY RunIs DEF AtPoint
<1>2. DirWas(at)
  BY AtIs
<1>3. Gen \in 1..GenCount /\ DirShape(Dir, at, run.stage, run.inv.shards)
  BY <1>2 DEF DirWas, DirIs, DirOK
<1>4. RowsOK(Dir, at, run.inv.shards, run.instance)
  BY <1>1, <1>3 DEF RowsInv, PointIn, Here, Gen, Dir
<1>5. run.inv \in Invocations /\ run.inv.shards \in 1..ShardLimit
  BY <1>1, GenerationAssumption DEF FilesInv
<1> QED BY <1>1, <1>3, <1>4, <1>5

\* Another field of a directory.
LEMMA OtherField ==
  ASSUME NEW d, DirTyped(d), NEW x
  PROVE  /\ Untouched(d, d) /\ Untouched(d, [d EXCEPT !.cand = x]) /\ Untouched(d, [d EXCEPT !.log = x])
         /\ Untouched(d, [d EXCEPT !.report = x])
         /\ \A y : y # "selfplay" => Untouched(d, [d EXCEPT !.done = @ \cup {y}])
         /\ Untouched(d, [d EXCEPT !.done = @ \ {x}])
BY DEF DirTyped, Untouched

\* The snapshot changes only before anything is stamped.
LEMMA StartRows ==
  ASSUME FilesInv, LockInv, RowsInv, SnapshotChampion \/ Copied \/ ClearStamp \/ Dispatch \/ Until
  PROVE  RowsInv'
<1>1. CASE SnapshotChampion
  <2>1. AtPoint("snapshot")
    BY <1>1 DEF SnapshotChampion
  <2>2. /\ run.live = TRUE /\ DOMAIN run = {"live", "inv", "at", "stage", "took", "trap", "instances", "instance"}
        /\ DirShape(Dir, "snapshot", run.stage, run.inv.shards) /\ RowsOK(Dir, "snapshot", run.inv.shards, run.instance)
    BY <2>1, RowsAt
  <2>3. CASE SnapshotIsDue
    <3> DEFINE e == [Dir EXCEPT !.champ = Torn]
    <3>1. Write(e) /\ run' = [run EXCEPT !.at = "copying"]
      BY <1>1, <2>3 DEF SnapshotChampion, Goto
    <3>2. e.champ = Torn /\ e.done = {}
      BY <2>2, <2>3 DEF DirShape, DirTyped, SnapshotFirst, SnapshotIsDue
    <3> HIDE DEF e
    <3>3. RowsOK(e, "copying", run.inv.shards, run'.instance)
      BY <3>2 DEF RowsOK
    <3>4. Only(e) /\ run'.live /\ run'.inv = run.inv /\ run'.at = "copying"
      BY <2>2, <3>1, WritesOnlyIts
    <3> QED BY <2>2, <3>3, <3>4, Works
  <2>4. CASE ~SnapshotIsDue
    <3>1. disk' = disk /\ run' = [run EXCEPT !.at = "clear", !.stage = FirstCleared]
      BY <1>1, <2>4 DEF SnapshotChampion
    <3>2. Only(Dir) /\ Untouched(Dir, Dir) /\ run'.inv = run.inv /\ run'.at \notin Playtime
      BY <2>2, <3>1, WritesOnlyIts DEF Untouched, Playtime
    <3> QED BY <2>2, <3>2, Passing
  <2> QED BY <2>3, <2>4
<1>2. CASE Copied
  <2> DEFINE e == [Dir EXCEPT !.champ = artifact]
  <2>1. AtPoint("copying") /\ Write(e) /\ run' = [run EXCEPT !.at = "clear", !.stage = FirstCleared]
    BY <1>2 DEF Copied
  <2>2. /\ run.live = TRUE /\ DOMAIN run = {"live", "inv", "at", "stage", "took", "trap", "instances", "instance"}
        /\ DirShape(Dir, "copying", run.stage, run.inv.shards) /\ RowsOK(Dir, "copying", run.inv.shards, run.instance)
    BY <2>1, RowsAt
  <2>3. e.champ \in Champions /\ e.done = {}
    BY <2>2 DEF DirShape, DirTyped, SnapshotFirst, FilesInv
  <2>4. Only(e) /\ run'.live /\ run'.inv = run.inv /\ run'.at = "clear"
    BY <2>1, <2>2, WritesOnlyIts
  <2> HIDE DEF e
  <2>5. RowsOK(e, "clear", run.inv.shards, run'.instance)
    BY <2>3 DEF RowsOK
  <2> QED BY <2>2, <2>4, <2>5, Works
<1>3. CASE ClearStamp
  <2>1. AtPoint("clear") /\ run.live
    BY <1>3 DEF ClearStamp, AtPoint
  <2>2. DirTyped(Dir) /\ DOMAIN run = {"live", "inv", "at", "stage", "took", "trap", "instances", "instance"}
    BY <2>1, RowsAt DEF DirShape
  <2>3. /\ run'.live => run'.inv = run.inv /\ run'.at \notin Playtime
        /\ \/ disk' = disk
           \/ Write([Dir EXCEPT !.done = @ \ {Stages[run.stage]}])
    BY <1>3, <2>1, <2>2 DEF ClearStamp, AtPoint, Playtime
  <2>4. PICK e : Untouched(Dir, e) /\ ((disk' = disk /\ e = Dir) \/ Write(e))
    BY <2>2, <2>3, OtherField
  <2> QED BY <2>1, <2>3, <2>4, WritesOnlyIts, Passing
<1>4. CASE Dispatch
  <2>1. AtPoint("dispatch") /\ disk' = disk
    BY <1>4 DEF Dispatch
  <2>2. /\ run.live = TRUE /\ DOMAIN run = {"live", "inv", "at", "stage", "took", "trap", "instances", "instance"}
        /\ DirShape(Dir, "dispatch", run.stage, run.inv.shards)
    BY <2>1, RowsAt
  <2>3. Stages[run.stage] \notin Playtime
    BY <2>2, StagesAre DEF DirShape, StampsOnTheWay, Playtime
  <2>4. run' = [run EXCEPT !.at = "until"] \/ run' = [run EXCEPT !.at = Stages[run.stage]]
    BY <1>4 DEF Dispatch, Goto
  <2>5. run'.inv = run.inv /\ run'.at \notin Playtime
    BY <2>2, <2>3, <2>4 DEF Playtime
  <2>6. Only(Dir) /\ Untouched(Dir, Dir)
    BY <2>1, <2>2, WritesOnlyIts DEF Untouched
  <2> QED BY <2>2, <2>5, <2>6, Passing
<1>5. CASE Until
  <2>1. AtPoint("until") /\ disk' = disk
    BY <1>5 DEF Until
  <2>2. run.live = TRUE /\ DOMAIN run = {"live", "inv", "at", "stage", "took", "trap", "instances", "instance"}
    BY <2>1, RowsAt
  <2>3. run'.live => run'.inv = run.inv /\ run'.at \notin Playtime
    <3>1. Exits("0") \/ run' = [run EXCEPT !.at = "dispatch", !.stage = @ + 1]
      BY <1>5 DEF Until
    <3>2. Exits("0") => ~run'.live
      BY DEF Exits, Ended
    <3>3. run' = [run EXCEPT !.at = "dispatch", !.stage = @ + 1] => run'.inv = run.inv /\ run'.at = "dispatch"
      BY <2>2
    <3> QED BY <3>1, <3>2, <3>3 DEF Playtime
  <2>4. Only(Dir) /\ Untouched(Dir, Dir)
    BY <2>1, <2>2, WritesOnlyIts DEF Untouched
  <2> QED BY <2>2, <2>3, <2>4, Passing
<1> QED BY <1>1, <1>2, <1>3, <1>4, <1>5

\* The stages after self-play.
LEMMA LaterRows ==
  ASSUME FilesInv, LockInv, RowsInv,
         \/ StartTraining \/ Trained \/ CheckCandidate
         \/ Autoscale \/ TakeLock \/ SetTrap \/ PurgeLogs \/ StartInstance \/ EndInstance \/ GiveLockBack
         \/ GauntletDone \/ Report
  PROVE  RowsInv'
<1>1. AtPoint(run.at) /\ run.live
  BY DEF StartTraining, Trained, CheckCandidate, Autoscale, TakeLock, SetTrap, PurgeLogs, StartInstance, EndInstance,
         GiveLockBack, GauntletDone, Report, AtPoint
<1>2. DirTyped(Dir) /\ DOMAIN run = {"live", "inv", "at", "stage", "took", "trap", "instances", "instance"} /\ run.live = TRUE
  BY <1>1, RowsAt DEF DirShape
<1> DEFINE Rest == run'.live => run'.inv = run.inv /\ run'.at \notin Playtime
           Writing == \E e : Untouched(Dir, e) /\ ((disk' = disk /\ e = Dir) \/ Write(e))
<1> SUFFICES Rest /\ Writing
  <2>1. PICK e : Untouched(Dir, e) /\ ((disk' = disk /\ e = Dir) \/ Write(e))
    OBVIOUS
  <2> QED BY <1>1, <2>1, WritesOnlyIts, Passing
<1>3. CASE StartTraining
  <2>1. Write([Dir EXCEPT !.cand = NoFile]) \/ disk' = disk
    BY <1>3 DEF StartTraining
  <2>2. Rest
    BY <1>2, <1>3 DEF StartTraining, Exits, Ended, Goto, Playtime
  <2> QED BY <1>2, <2>1, <2>2, OtherField
<1>4. CASE Trained
  <2>1. \E cand : Write([Dir EXCEPT !.cand = cand])
    BY <1>4 DEF Trained
  <2>2. Rest
    BY <1>2, <1>4 DEF Trained, Goto, Playtime
  <2> QED BY <1>2, <2>1, <2>2, OtherField
<1>5. CASE CheckCandidate
  <2>1. Write([Dir EXCEPT !.done = @ \cup {"train"}])
    BY <1>5 DEF CheckCandidate
  <2>2. Rest
    BY <1>2, <1>5 DEF CheckCandidate, Goto, Playtime
  <2> QED BY <1>2, <2>1, <2>2, OtherField
<1>6. CASE Autoscale
  <2>1. disk' = disk
    BY <1>6 DEF Autoscale
  <2>2. Rest
    <3>1. \/ Exits("2")
          \/ \E point \in {"mkdir", "purge"} :
               run' = [run EXCEPT !.at = point, !.instance = 0, !.instances = run.inv.instances]
      BY <1>6 DEF Autoscale
    <3>2. Exits("2") => ~run'.live
      BY DEF Exits, Ended
    <3>3. ~Exits("2") => run'.inv = run.inv /\ run'.at \in {"mkdir", "purge"}
      BY <1>2, <3>1
    <3> QED BY <3>2, <3>3 DEF Playtime
  <2> QED BY <1>2, <2>1, <2>2, OtherField
<1>7. CASE PurgeLogs
  <2>1. \E log : Write([Dir EXCEPT !.log = log])
    BY <1>7 DEF PurgeLogs
  <2>2. Rest
    BY <1>2, <1>7 DEF PurgeLogs, Goto, Playtime
  <2> QED BY <1>2, <2>1, <2>2, OtherField
<1>8. CASE StartInstance
  <2>1. \E log : Write([Dir EXCEPT !.log = log])
    BY <1>8 DEF StartInstance
  <2>2. Goto("playing") \/ Exits("2")
    BY <1>8 DEF StartInstance
  <2>3. Rest
    BY <1>2, <2>2 DEF Exits, Ended, Goto, Playtime
  <2> QED BY <1>2, <2>1, <2>3, OtherField
<1>9. CASE EndInstance
  <2>1. disk' = disk \/ \E log : Write([Dir EXCEPT !.log = log])
    BY <1>9 DEF EndInstance
  <2>2. Exits("2") \/ run' = [run EXCEPT !.at = "instance", !.instance = @ + 1]
    BY <1>9 DEF EndInstance
  <2>3. Rest
    <3>1. Exits("2") => ~run'.live
      BY DEF Exits, Ended
    <3>2. ~Exits("2") => run'.inv = run.inv /\ run'.at = "instance"
      BY <1>2, <2>2
    <3> QED BY <3>1, <3>2 DEF Playtime
  <2> QED BY <1>2, <2>1, <2>3, OtherField
<1>10. CASE GauntletDone
  <2>1. Write([Dir EXCEPT !.done = @ \cup {"gauntlet"}])
    BY <1>10 DEF GauntletDone
  <2>2. Rest
    BY <1>2, <1>10 DEF GauntletDone, Untrapped, Playtime
  <2> QED BY <1>2, <2>1, <2>2, OtherField
<1>11. CASE Report
  <2>1. disk' = disk \/ \E report : Write([Dir EXCEPT !.report = report])
    BY <1>11 DEF Report
  <2>2. Exits("2") \/ Exits("0") \/ Exits("1")
    BY <1>11 DEF Report
  <2>3. Rest
    BY <2>2 DEF Exits, Ended
  <2> QED BY <1>2, <2>1, <2>3, OtherField
<1>12. CASE TakeLock \/ SetTrap \/ GiveLockBack
  <2>1. disk' = disk
    BY <1>12 DEF TakeLock, SetTrap, GiveLockBack
  <2>2. \/ run' = [run EXCEPT !.took = TRUE] /\ run.at = "mkdir"
        \/ run' = [run EXCEPT !.at = "purge"]
        \/ run' = [run EXCEPT !.at = "purge", !.trap = TRUE, !.instances = FullInstances]
        \/ run' = [run EXCEPT !.at = "untrap"]
    BY <1>12 DEF TakeLock, SetTrap, GiveLockBack, AtPoint, Goto
  <2>3. run'.inv = run.inv /\ run'.at \in {"mkdir", "purge", "untrap"}
    BY <1>2, <2>2
  <2>4. Rest
    BY <2>3 DEF Playtime
  <2> QED BY <1>2, <2>1, <2>4, OtherField
<1> QED BY <1>3, <1>4, <1>5, <1>6, <1>7, <1>8, <1>9, <1>10, <1>11, <1>12

\* There is a first shard.
LEMMA ShardBound == ShardLimit \in Nat \ {0} /\ 0 \in Shards /\ Shards \subseteq Nat
<1>1. ShardLimit \in Nat \ {0}
  BY GenerationAssumption
<1> QED BY <1>1 DEF Shards

\* A shard's file, written by its process.
LEMMA ShardRows ==
  ASSUME FilesInv, LockInv, RowsInv, AtPoint("wait"), NEW i \in Shards, i < run.inv.shards, NEW s,
         ShardWhole(Dir.champ, Dir.shard[i], i, run.inv.shards) => ShardWhole(Dir.champ, s, i, run.inv.shards),
         Write([Dir EXCEPT !.shard[i] = s]), run' = run
  PROVE  RowsInv'
<1> DEFINE e == [Dir EXCEPT !.shard[i] = s]
<1>1. /\ run.live = TRUE /\ run.at = "wait" /\ DirShape(Dir, "wait", run.stage, run.inv.shards)
      /\ RowsOK(Dir, "wait", run.inv.shards, run.instance)
  BY RowsAt
<1>2. DirTyped(Dir) /\ "selfplay" \notin Dir.done /\ WhilePlaying(Dir, run.inv.shards)
  BY <1>1 DEF DirShape, StampsOnTheWay, RowsOK
<1>3. /\ e.champ = Dir.champ /\ e.rows = Dir.rows /\ e.done = Dir.done
      /\ \A k \in Shards : e.shard[k] = IF k = i THEN s ELSE Dir.shard[k]
  BY <1>2 DEF DirTyped
<1>4. Only(e) /\ run'.live /\ run'.inv = run.inv /\ run'.at = "wait"
  BY <1>1, WritesOnlyIts
<1> HIDE DEF e
<1>5. WhilePlaying(e, run.inv.shards)
  BY <1>2, <1>3 DEF WhilePlaying
<1>6. RowsOK(e, "wait", run.inv.shards, run'.instance)
  BY <1>1, <1>2, <1>3, <1>5 DEF RowsOK
<1> QED BY <1>1, <1>4, <1>6, Works

\* The shards are launched over whatever an earlier run left.
LEMMA LaunchRows ==
  ASSUME FilesInv, LockInv, RowsInv, LaunchShards
  PROVE  RowsInv'
<1> DEFINE count == run.inv.shards
           shards == [i \in Shards |->
              IF i < count THEN Launched(Dir.champ, Dir.champ \in Loadable, i, count, run.inv.env)
              ELSE Purged(Dir.shard)[i]]
           e == [Dir EXCEPT !.rows = NoFile, !.short = FALSE, !.shard = shards]
<1>1. AtPoint("selfplay") /\ Write(e) /\ run' = [run EXCEPT !.at = "wait"]
  BY DEF LaunchShards, Goto
<1>2. /\ run.live = TRUE /\ DOMAIN run = {"live", "inv", "at", "stage", "took", "trap", "instances", "instance"}
      /\ DirShape(Dir, "selfplay", run.stage, count) /\ RowsOK(Dir, "selfplay", count, run.instance)
      /\ run.inv \in Invocations
  BY <1>1, RowsAt
<1>3. DirTyped(Dir) /\ "selfplay" \notin Dir.done /\ Dir.champ \in Champions \cup {Torn}
  BY <1>2 DEF DirShape, StampsOnTheWay, SnapshotFirst, RowsOK
<1>4. \A i \in Shards : IF i < count THEN ShardWhole(Dir.champ, shards[i], i, count) ELSE shards[i] = NoShard
  <2> TAKE i \in Shards
  <2>1. CASE i < count
    <3>1. shards[i] = Launched(Dir.champ, Dir.champ \in Loadable, i, count, run.inv.env)
      BY <2>1
    <3>2. ShardWhole(Dir.champ, Launched(Dir.champ, Dir.champ \in Loadable, i, count, run.inv.env), i, count)
      BY <1>2, <1>3, ShardLaunched
    <3> HIDE DEF shards
    <3> QED BY <2>1, <3>1, <3>2
  <2>2. CASE ~(i < count)
    <3>1. shards[i] = NoShard
      BY <2>2 DEF Purged
    <3> HIDE DEF shards
    <3> QED BY <2>2, <3>1
  <2> QED BY <2>1, <2>2
<1> HIDE DEF shards
<1>5. e.champ = Dir.champ /\ e.rows = NoFile /\ e.shard = shards /\ e.done = Dir.done
  BY <1>3 DEF DirTyped
<1>6. Only(e) /\ run'.live /\ run'.inv = run.inv /\ run'.at = "wait"
  BY <1>1, <1>2, WritesOnlyIts
<1> HIDE DEF e, count
<1>7. WhilePlaying(e, count)
  BY <1>4, <1>5 DEF WhilePlaying
<1>8. RowsOK(e, "wait", count, run'.instance)
  BY <1>3, <1>5, <1>7 DEF RowsOK
<1> QED BY <1>2, <1>6, <1>8, Works DEF count

\* Every shard has played its share when the last one is waited for.
LEMMA WaitedRows ==
  ASSUME FilesInv, LockInv, RowsInv, Waited
  PROVE  RowsInv'
<1> DEFINE count == run.inv.shards
<1>1. AtPoint("wait") /\ disk' = disk
  BY DEF Waited
<1>2. /\ run.live = TRUE /\ DOMAIN run = {"live", "inv", "at", "stage", "took", "trap", "instances", "instance"}
      /\ DirShape(Dir, "wait", run.stage, count) /\ RowsOK(Dir, "wait", count, run.instance)
      /\ count \in 1..ShardLimit
  BY <1>1, RowsAt
<1>3. Only(Dir)
  BY <1>1, <1>2, WritesOnlyIts
<1>4. CASE Exits("2")
  <2>1. ~run'.live
    BY <1>4 DEF Exits, Ended
  <2>2. Untouched(Dir, Dir)
    BY DEF Untouched
  <2> QED BY <1>2, <1>3, <2>1, <2>2, Passing
<1>5. CASE ~Exits("2")
  <2>1. run' = [run EXCEPT !.at = "cat", !.instance = 0] /\ \A i \in 0..(count - 1) : Settled(i)
    BY <1>5 DEF Waited
  <2>2. run'.live /\ run'.inv = run.inv /\ run'.at = "cat" /\ run'.instance = 0
    BY <1>2, <2>1
  <2> HIDE DEF count
  <2>3. WhilePlaying(Dir, count) /\ "selfplay" \notin Dir.done
    BY <1>2 DEF DirShape, StampsOnTheWay, RowsOK
  <2>4. ASSUME NEW i \in Shards, i < count PROVE Once(Dir.champ, Dir.shard[i].file, ShardGames(i, count))
    <3>1. ShardWhole(Dir.champ, Dir.shard[i], i, count)
      BY <2>3, <2>4 DEF WhilePlaying
    <3>2. i \in 0..(count - 1)
      BY <1>2, <2>4 DEF Shards
    <3>3. Dir.shard[i].status = "playing" /\ Dir.shard[i].left = {}
      BY <2>1, <3>2 DEF Settled, ShardOf
    <3> QED BY <3>1, <3>3 DEF ShardWhole
  <2>5. Dir.champ \in Champions \cap Loadable
    <3>1. 0 \in Shards /\ 0 < count
      BY <1>2, ShardBound
    <3> QED BY <2>4, <3>1 DEF Once
  <2>6. 0 \in 0..ShardLimit
    BY ShardBound
  <2>7. WhileConcatenating(Dir, count, 0)
    BY <2>3, <2>4, <2>5, <2>6 DEF WhileConcatenating, WhilePlaying
  <2>8. RowsOK(Dir, "cat", count, 0)
    BY <1>2, <2>3, <2>6, <2>7 DEF RowsOK
  <2> QED BY <1>2, <1>3, <2>2, <2>8, Works DEF count
<1> QED BY <1>4, <1>5

\* One shard further.
LEMMA OneMore ==
  ASSUME NEW d, NEW count \in 1..ShardLimit, NEW k \in Shards, WhileConcatenating(d, count, k), NEW sofar,
         sofar = IF d.rows = NoFile THEN <<>> ELSE d.rows
  PROVE  Once(d.champ, sofar \o d.shard[k].file, FirstShards(k + 1, count))
<1>1. count \in Nat \ {0} /\ k \in Nat
  BY ShardBound
<1>2. /\ FirstShards(k, count) \cap ShardGames(k, count) = {}
      /\ FirstShards(k, count) \cup ShardGames(k, count) = FirstShards(k + 1, count)
  BY <1>1, SharesAreTheGames
<1>3. Once(d.champ, sofar, FirstShards(k, count))
  <2>1. CASE k = 0
    <3>1. sofar = <<>> /\ d.champ \in Champions \cap Loadable
      BY <2>1 DEF WhileConcatenating
    <3>2. FirstShards(0, count) = {}
      BY <1>1, SharesAreTheGames
    <3> QED BY <2>1, <3>1, <3>2, OnceNone
  <2>2. CASE k # 0
    <3>1. Once(d.champ, d.rows, FirstShards(k, count))
      BY <2>2 DEF WhileConcatenating
    <3>2. d.rows # NoFile
      BY <3>1, GenerationAssumption DEF Once
    <3> QED BY <3>1, <3>2
  <2> QED BY <2>1, <2>2
<1>4. CASE k < count
  <2>1. Once(d.champ, d.shard[k].file, ShardGames(k, count))
    BY <1>4 DEF WhileConcatenating
  <2>2. Once(d.champ, sofar \o d.shard[k].file, FirstShards(k, count) \cup ShardGames(k, count))
    BY <1>2, <1>3, <2>1, OnceConcatenated
  <2> QED BY <1>2, <2>2
<1>5. CASE ~(k < count)
  <2>1. d.shard[k].file = <<>>
    BY <1>5 DEF WhileConcatenating, NoShard
  <2>2. Once(d.champ, <<>>, {})
    BY OnceNone DEF WhileConcatenating
  <2>3. FirstShards(k, count) \cap {} = {} /\ FirstShards(k, count) \cup {} = FirstShards(k, count)
    OBVIOUS
  <2>4. Once(d.champ, sofar \o <<>>, FirstShards(k, count))
    <3>1. Once(d.champ, sofar \o <<>>, FirstShards(k, count) \cup {})
      BY <1>3, <2>2, <2>3, OnceConcatenated
    <3> QED BY <2>3, <3>1
  <2>5. FirstShards(k, count) = FirstShards(k + 1, count)
    <3>1. k + 1 \in Nat /\ k >= count /\ k + 1 >= count
      BY <1>1, <1>5
    <3>2. FirstShards(k, count) = AllGames /\ FirstShards(k + 1, count) = AllGames
      BY <1>1, <3>1, SharesAreTheGames
    <3> QED BY <3>2
  <2> QED BY <2>1, <2>4, <2>5
<1> QED BY <1>4, <1>5

\* The rows grow by a share at a time.
LEMMA ConcatenateRows ==
  ASSUME FilesInv, LockInv, RowsInv, Concatenate
  PROVE  RowsInv'
<1> DEFINE count == run.inv.shards
           k == run.instance
<1>1. AtPoint("cat")
  BY DEF Concatenate
<1>2. /\ run.live = TRUE /\ DOMAIN run = {"live", "inv", "at", "stage", "took", "trap", "instances", "instance"}
      /\ DirShape(Dir, "cat", run.stage, count) /\ RowsOK(Dir, "cat", count, k)
      /\ count \in 1..ShardLimit
  BY <1>1, RowsAt
<1>3. /\ DirTyped(Dir) /\ "selfplay" \notin Dir.done /\ Dir.champ \in Champions \cup {NoFile, Torn}
      /\ ~Dir.short => WhileConcatenating(Dir, count, k)
  BY <1>2 DEF DirShape, StampsOnTheWay, RowsOK
<1>4. k \in 0..ShardLimit /\ ShardLimit \in Nat \ {0}
  BY <1>2, GenerationAssumption DEF RowsOK
<1>5. CASE k \notin Shards
  <2>1. disk' = disk /\ run' = [run EXCEPT !.at = "validate"]
    BY <1>5 DEF Concatenate, Goto
  <2>2. Only(Dir) /\ run'.live /\ run'.inv = run.inv /\ run'.at = "validate"
    BY <1>2, <2>1, WritesOnlyIts
  <2> HIDE DEF k, count
  <2>3. k = ShardLimit /\ k # 0 /\ k >= count /\ count \in Nat \ {0} /\ k \in Nat
    BY <1>2, <1>4, <1>5 DEF Shards
  <2>4. ~Dir.short => Once(Dir.champ, Dir.rows, FirstShards(k, count))
    BY <1>3, <2>3 DEF WhileConcatenating
  <2>5. ~Dir.short => Once(Dir.champ, Dir.rows, AllGames)
    BY <2>3, <2>4, SharesAreTheGames
  <2>6. RowsOK(Dir, "validate", count, run'.instance)
    BY <1>2, <2>5 DEF RowsOK
  <2> QED BY <1>2, <2>2, <2>6, Works DEF count
<1>6. CASE k \in Shards
  <2> DEFINE rows == RowsSoFar \o Dir.shard[k].file
             e == [Dir EXCEPT !.rows = rows]
  <2>1. Write(e) /\ run' = [run EXCEPT !.instance = k + 1]
    BY <1>6 DEF Concatenate
  <2>2. Only(e) /\ run'.live /\ run'.inv = run.inv /\ run'.at = "cat" /\ run'.instance = k + 1
    BY <1>1, <1>2, <2>1, WritesOnlyIts DEF AtPoint
  <2> HIDE DEF k, count
  <2>3. ~Dir.short => Once(Dir.champ, rows, FirstShards(k + 1, count))
    <3> SUFFICES ASSUME ~Dir.short PROVE Once(Dir.champ, rows, FirstShards(k + 1, count))
      OBVIOUS
    <3>1. WhileConcatenating(Dir, count, k)
      BY <1>3
    <3>2. RowsSoFar = IF Dir.rows = NoFile THEN <<>> ELSE Dir.rows
      BY DEF RowsSoFar
    <3> QED BY <1>2, <1>6, <3>1, <3>2, OneMore
  <2> HIDE DEF rows
  <2>4. e.champ = Dir.champ /\ e.shard = Dir.shard /\ e.rows = rows /\ e.done = Dir.done /\ e.short = Dir.short
    BY <1>3 DEF DirTyped
  <2> HIDE DEF e
  <2>5. k + 1 \in 0..ShardLimit /\ k + 1 # 0
    BY <1>4, <1>6 DEF Shards
  <2>6. ~e.short => WhileConcatenating(e, count, k + 1)
    BY <1>3, <2>3, <2>4, <2>5 DEF WhileConcatenating
  <2>7. RowsOK(e, "cat", count, k + 1)
    BY <1>3, <2>4, <2>5, <2>6 DEF RowsOK
  <2> QED BY <1>2, <2>2, <2>7, Works DEF count
<1> QED BY <1>5, <1>6

\* Nothing is said of the rows of a cat that failed.
LEMMA ConcatenateFailsRows ==
  ASSUME FilesInv, LockInv, RowsInv, ConcatenateFails
  PROVE  RowsInv'
<1> DEFINE count == run.inv.shards
           k == run.instance
<1>1. AtPoint("cat") /\ k \in Shards
  BY DEF ConcatenateFails
<1>2. /\ run.live = TRUE /\ run.at = "cat" /\ DOMAIN run = {"live", "inv", "at", "stage", "took", "trap", "instances", "instance"}
      /\ DirShape(Dir, "cat", run.stage, count) /\ RowsOK(Dir, "cat", count, k)
  BY <1>1, RowsAt
<1>3. DirTyped(Dir) /\ "selfplay" \notin Dir.done /\ Dir.champ \in Champions \cup {NoFile, Torn}
  BY <1>2 DEF DirShape, StampsOnTheWay, RowsOK
<1>4. PICK rows : Write([Dir EXCEPT !.rows = rows, !.short = TRUE])
  BY DEF ConcatenateFails
<1> DEFINE e == [Dir EXCEPT !.rows = rows, !.short = TRUE]
<1>5. e.champ = Dir.champ /\ e.done = Dir.done /\ e.short = TRUE
  BY <1>3 DEF DirTyped
<1>6. Only(e)
  BY <1>2, <1>4, WritesOnlyIts
<1> HIDE DEF e
<1>7. k + 1 \in 0..ShardLimit
  BY <1>1, ShardBound DEF Shards
<1>8. CASE run' = [run EXCEPT !.instance = @ + 1]
  <2>1. run'.live /\ run'.inv = run.inv /\ run'.at = "cat" /\ run'.instance = k + 1
    BY <1>2, <1>8
  <2> HIDE DEF k
  <2>2. RowsOK(e, run'.at, count, run'.instance)
    BY <1>3, <1>5, <1>7, <2>1 DEF RowsOK
  <2> QED BY <1>2, <1>6, <2>1, <2>2, Works
<1>9. CASE Goto("validate")
  <2>1. run'.live /\ run'.inv = run.inv /\ run'.at = "validate"
    BY <1>2, <1>9 DEF Goto
  <2>2. RowsOK(e, run'.at, count, run'.instance)
    BY <1>3, <1>5, <2>1 DEF RowsOK
  <2> QED BY <1>2, <1>6, <2>1, <2>2, Works
<1> QED BY <1>8, <1>9 DEF ConcatenateFails

\* The stamp is set on rows that are whole.
LEMMA ValidateRows ==
  ASSUME FilesInv, LockInv, RowsInv, Validate
  PROVE  RowsInv'
<1>1. AtPoint("validate")
  BY DEF Validate
<1>2. /\ run.live = TRUE /\ DOMAIN run = {"live", "inv", "at", "stage", "took", "trap", "instances", "instance"}
      /\ DirShape(Dir, "validate", run.stage, run.inv.shards) /\ RowsOK(Dir, "validate", run.inv.shards, run.instance)
  BY <1>1, RowsAt
<1>3. CASE RowsAreValid(Dir.rows)
  <2> DEFINE e == [Dir EXCEPT !.done = @ \cup {"selfplay"}]
  <2>1. Write(e) /\ run' = [run EXCEPT !.at = "until"]
    BY <1>3 DEF Validate, Goto
  <2>2. Only(e) /\ run'.live /\ run'.inv = run.inv /\ run'.at = "until"
    BY <1>2, <2>1, WritesOnlyIts
  <2>3. e.champ = Dir.champ /\ e.rows = Dir.rows /\ e.short = Dir.short
    BY <1>2 DEF DirShape, DirTyped
  <2> HIDE DEF e
  <2>4. RowsOK(e, "until", run.inv.shards, run'.instance)
    BY <1>2, <2>3 DEF RowsOK
  <2> QED BY <1>2, <2>2, <2>4, Works
<1>4. CASE ~RowsAreValid(Dir.rows)
  <2>1. disk' = disk /\ ~run'.live
    BY <1>4 DEF Validate, Exits, Ended
  <2>2. Only(Dir) /\ Untouched(Dir, Dir)
    BY <1>2, <2>1, WritesOnlyIts DEF Untouched
  <2> QED BY <1>2, <2>1, <2>2, Passing
<1> QED BY <1>3, <1>4

\* A shard plays or tears a game.
LEMMA PlayRows ==
  ASSUME FilesInv, LockInv, RowsInv, NEW i \in Shards, ShardPlays(i) \/ ShardFails(i)
  PROVE  RowsInv'
<1> DEFINE count == run.inv.shards
           s == Dir.shard[i]
<1>1. AtPoint("wait") /\ i < count /\ run' = run /\ s.status = "playing" /\ s.left # {}
  BY DEF ShardPlays, ShardFails, Playing
<1>2. Write([Dir EXCEPT !.shard[i] = Generated(s)]) \/ Write([Dir EXCEPT !.shard[i] = GeneratedTorn(s)])
  BY DEF ShardPlays, ShardFails
<1>3. ASSUME ShardWhole(Dir.champ, s, i, count)
      PROVE  ShardWhole(Dir.champ, Generated(s), i, count) /\ ShardWhole(Dir.champ, GeneratedTorn(s), i, count)
  BY <1>1, <1>3, ShardPlaysOne, ShardTears
<1> QED BY <1>1, <1>2, <1>3, ShardRows

\* A kill, a late container, a promotion, another user's arena.
LEMMA BoxRows ==
  ASSUME FilesInv, LockInv, RowsInv, BoxSteps
  PROVE  RowsInv'
<1>1. CASE ToolFails \/ Killed \/ Terminated
  <2>1. run.live /\ ~run'.live /\ disk' = disk
    BY <1>1 DEF ToolFails, Killed, Terminated, Interrupted, Exits, Ended
  <2>2. Only(Dir) /\ Untouched(Dir, Dir)
    BY <2>1, WritesOnlyIts DEF Untouched
  <2> QED BY <2>1, <2>2, Passing
<1>2. CASE ContainerEnds
  <2>1. /\ container.gen \in 1..GenCount /\ DOMAIN disk = 1..GenCount /\ run' = run
        /\ disk' = [disk EXCEPT ![container.gen] = [disk[container.gen] EXCEPT !.cand = container.cand]]
    BY <1>2 DEF ContainerEnds, FilesInv
  <2>2. ASSUME NEW g \in 1..GenCount
        PROVE  Untouched(disk[g], disk'[g]) /\ disk'[g].shard = disk[g].shard
    <3>1. DirTyped(disk[g])
      BY DEF FilesInv, DirOK, DirShape
    <3>2. CASE g = container.gen
      <4>1. disk'[g] = [disk[g] EXCEPT !.cand = container.cand]
        BY <2>1, <3>2
      <4> QED BY <3>1, <4>1 DEF DirTyped, Untouched
    <3>3. CASE g # container.gen
      <4>1. disk'[g] = disk[g]
        BY <2>1, <3>3
      <4> QED BY <4>1 DEF Untouched
    <3> QED BY <3>2, <3>3
  <2> QED BY <2>1, <2>2, Elsewhere
<1>3. CASE Promote \/ OtherTakes \/ OtherReleases \/ ArenaStarts \/ ArenaEnds
  BY <1>3, Elsewhere DEF Promote, OtherTakes, OtherReleases, ArenaStarts, ArenaEnds, Untouched
<1>4. ASSUME NEW i \in Shards, ShardFails(i) PROVE RowsInv'
  BY <1>4, PlayRows
<1>5. ASSUME NEW who \in {"gate", "arena"}, NEW w \in 1..2, WorkerSteps(who, w) \/ WorkerPanics(who, w) PROVE RowsInv'
  <2>1. run' = run /\ disk' = disk
    BY <1>5 DEF WorkerSteps, WorkerPanics
  <2> QED BY <2>1, Elsewhere DEF Untouched
<1> QED BY <1>1, <1>2, <1>3, <1>4, <1>5, ConcatenateFailsRows DEF BoxSteps

\* A run that starts takes the files as they are.
LEMMA InvokeRows ==
  ASSUME FilesInv, LockInv, RowsInv, Invoke
  PROVE  RowsInv'
<1>1. run'.live /\ run'.at = "snapshot" /\ disk' = disk
  BY DEF Invoke
<1>2. ASSUME NEW g \in 1..GenCount
      PROVE  RowsOK(disk'[g], PointIn(g)', run'.inv.shards, run'.instance)
  <2>1. RowsOK(disk[g], PointIn(g), run.inv.shards, run.instance) /\ Untouched(disk[g], disk'[g])
    BY <1>1 DEF RowsInv, Untouched
  <2>2. PointIn(g)' \notin Playtime
    BY <1>1 DEF PointIn, Playtime
  <2> QED BY <2>1, <2>2, QuietOK
<1> QED BY <1>2 DEF RowsInv

\* Nothing is there at first.
LEMMA RowsInit == GenInit => RowsInv
<1> SUFFICES ASSUME GenInit PROVE RowsInv
  OBVIOUS
<1>1. ASSUME NEW g \in 1..GenCount PROVE RowsOK(disk[g], PointIn(g), run.inv.shards, run.instance)
  <2>1. disk[g] = EmptyDir /\ PointIn(g) = "none"
    BY DEF GenInit, Ended, PointIn, Here
  <2> QED BY <2>1 DEF EmptyDir, RowsOK
<1> QED BY <1>1 DEF RowsInv

\* The invariant, with those of the lock and the files.
LEMMA RowsInvInductive == GenSpec => []RowsInv
<1>1. LockInv /\ FilesInv /\ RowsInv /\ [GenNext]_genVars => RowsInv'
  <2> SUFFICES ASSUME LockInv, FilesInv, RowsInv, [GenNext]_genVars PROVE RowsInv'
    OBVIOUS
  <2>1. CASE ScriptSteps
    BY <2>1, InvokeRows, StartRows, LaunchRows, WaitedRows, ConcatenateRows, ValidateRows, PlayRows, LaterRows DEF ScriptSteps
  <2>2. CASE BoxSteps
    BY <2>2, BoxRows
  <2>3. CASE UNCHANGED genVars
    BY <2>3, Elsewhere DEF genVars, Untouched
  <2> QED BY <2>1, <2>2, <2>3 DEF GenNext
<1> QED BY <1>1, RowsInit, LockInvInductive, FilesInvInductive, PTL DEF GenSpec

\* However many shards a generation is dealt to, whatever earlier runs left behind, tore or were
\* killed over, and whichever champion is promoted meanwhile: once self-play is stamped, the rows
\* are every game of the generation once, whole, the snapshot's, and their policy counts add up to
\* the visits of their searches; unless cat failed (RowsAreTheGeneration; stage_selfplay, generate
\* and quantize).
THEOREM RowsAreWhole == GenSpec => []RowsAreTheGeneration
<1>1. RowsInv => RowsAreTheGeneration
  <2> SUFFICES ASSUME RowsInv PROVE RowsAreTheGeneration
    OBVIOUS
  <2>1. \A gen \in 1..GenCount : "selfplay" \in disk[gen].done /\ ~disk[gen].short => WholeFile(disk[gen].champ, disk[gen].rows)
    BY WholeIsTrue DEF RowsInv, RowsOK, AllGames
  <2> QED BY <2>1 DEF WholeFile, RowTrue, RowsAreTheGeneration
<1> QED BY <1>1, RowsInvInductive, PTL

-----------------------------------------------------------------------------
(* The gauntlet: what every pool of worker threads has handed out, holds   *)
(* and has lost.  A pool that ended without a panic holds every index      *)
(* once, so what it collects is every game of the run; and a game of the   *)
(* run with its sides exchanged is its mate's game, seen by the other side *)

\* What every run's configuration is.
IsJob(job) ==
  /\ job.games \in Nat \ {0} /\ job.threads \in Nat
  /\ job = GauntletConfig(job.sideA, job.sideB, job.netA, job.netB, job.games, job.seed, job, job.threads, job.fits)

\* The games a pool has handed out.
Handed(pool) == {i \in 0..(EvenGames(pool.job.games) - 1) : i < pool.next}

\* A pool: a record of these fields.
PoolShape(pool) ==
  /\ IsJob(pool.job) /\ pool.next \in Nat /\ pool.live = TRUE
  /\ DOMAIN pool = {"live", "job", "next", "at", "mine", "ended"}
  /\ DOMAIN pool.at = Threads(pool.job) /\ DOMAIN pool.mine = Threads(pool.job) /\ DOMAIN pool.ended = Threads(pool.job)

\* The ways the games handed out may have gone.
WentOff(pool) == {GameResult(pool.job, x[1], x[2]) : x \in Handed(pool) \X Clocks}

\* What the workers hold was handed out.
HoldsHanded(pool) ==
  \A w \in Threads(pool.job) :
    /\ pool.at[w] \in Handed(pool) \cup {NoGame}
    /\ pool.mine[w] \in Seq(WentOff(pool))

\* No game is in two places.
HeldOnce(pool) ==
  /\ \A w, v \in Threads(pool.job) : (pool.at[w] # NoGame /\ pool.at[w] = pool.at[v]) => w = v
  /\ \A x, y \in Joined(pool) : JoinedGame(pool, x).index = JoinedGame(pool, y).index => x = y
  /\ \A x \in Joined(pool) : \A w \in Threads(pool.job) : pool.at[w] # JoinedGame(pool, x).index

\* No game is lost, but with its worker.
NoneLost(pool) ==
  RunFailed(pool) \/ \A i \in Handed(pool) : \/ \E w \in Threads(pool.job) : pool.at[w] = i
                                             \/ \E x \in Joined(pool) : JoinedGame(pool, x).index = i

\* A worker that returned found nothing left.
EndedWell(pool) ==
  \A w \in Threads(pool.job) : /\ pool.ended[w] # "no" => pool.at[w] = NoGame
                               /\ pool.ended[w] \in {"no", "returned", "panicked"}
                               /\ pool.ended[w] = "returned" => pool.next >= EvenGames(pool.job.games)

PoolOK(pool) == PoolShape(pool) /\ HoldsHanded(pool) /\ HeldOnce(pool) /\ NoneLost(pool) /\ EndedWell(pool)

\* What a step of worker w makes of a pool.
Returned(pool, w) == [pool EXCEPT !.ended[w] = "returned", !.next = @ + 1]
Took(pool, w) == [pool EXCEPT !.at[w] = pool.next, !.next = @ + 1]
Lost(pool, w) == [pool EXCEPT !.at[w] = NoGame, !.ended[w] = "panicked", !.mine[w] = <<>>]

\* An even number of games, no fewer than were asked for.
LEMMA EvenIsEven ==
  ASSUME NEW n \in Nat
  PROVE  /\ EvenGames(n) \in Nat /\ EvenGames(n) >= n /\ EvenGames(n) % 2 = 0
         /\ n > 0 => EvenGames(n) > 0
BY DEF EvenGames

\* There is a worker.
LEMMA SomeThread ==
  ASSUME NEW job, IsJob(job)
  PROVE  \E k \in Nat \ {0} : Threads(job) = 1..k
<1> DEFINE wanted == IF job.threads > 1 THEN job.threads ELSE 1
           even == EvenGames(job.games)
<1>1. even \in Nat \ {0} /\ wanted \in Nat \ {0}
  BY EvenIsEven DEF IsJob
<1>2. Threads(job) = 1..(IF wanted < even THEN wanted ELSE even)
  BY DEF Threads
<1> HIDE DEF wanted, even
<1> QED BY <1>1, <1>2

\* A game is filed under its index.
LEMMA ResultIndex ==
  ASSUME NEW job, NEW i, NEW clock
  PROVE  GameResult(job, i, clock).index = i
BY DEF GameResult, Finished, GameOutcome

\* A new pool has handed out nothing.
LEMMA NewPool ==
  ASSUME NEW job, IsJob(job)
  PROVE  PoolOK(PoolFor(job))
<1> DEFINE q == PoolFor(job)
<1>1. /\ DOMAIN q = {"live", "job", "next", "at", "mine", "ended"} /\ q.live = TRUE /\ q.job = job /\ q.next = 0
      /\ q.at = [w \in Threads(job) |-> NoGame] /\ q.mine = [w \in Threads(job) |-> <<>>]
      /\ q.ended = [w \in Threads(job) |-> "no"]
  BY DEF PoolFor
<1> HIDE DEF q
<1>2. Handed(q) = {}
  BY <1>1, EvenIsEven DEF Handed, IsJob
<1>3. Joined(q) = {}
  BY <1>1 DEF Joined
<1>4. PoolShape(q)
  BY <1>1 DEF PoolShape
<1>5. HoldsHanded(q) /\ HeldOnce(q) /\ NoneLost(q)
  BY <1>1, <1>2, <1>3 DEF HoldsHanded, HeldOnce, NoneLost
<1>6. EndedWell(q)
  BY <1>1 DEF EndedWell
<1> QED BY <1>4, <1>5, <1>6 DEF PoolOK, q

\* The places of lists that are sequences.
LEMMA PlacesAre ==
  ASSUME NEW pool, NEW W, DOMAIN pool.mine = W,
         \A w \in W : DOMAIN pool.mine[w] = 1..Len(pool.mine[w]) /\ Len(pool.mine[w]) \in Nat
  PROVE  Joined(pool) = {x \in W \X Nat : x[2] \in 1..Len(pool.mine[x[1]])}
<1>1. ASSUME NEW x \in Joined(pool) PROVE x \in W \X Nat /\ x[2] \in 1..Len(pool.mine[x[1]])
  <2>1. PICK w \in W : x \in {<<w, k>> : k \in DOMAIN pool.mine[w]}
    BY DEF Joined
  <2>2. PICK k \in 1..Len(pool.mine[w]) : x = <<w, k>>
    BY <2>1
  <2> QED BY <2>2
<1>2. ASSUME NEW x \in W \X Nat, x[2] \in 1..Len(pool.mine[x[1]]) PROVE x \in Joined(pool)
  <2>1. PICK w \in W, k \in Nat : x = <<w, k>>
    OBVIOUS
  <2>2. x \in {<<w, j>> : j \in DOMAIN pool.mine[w]}
    BY <1>2, <2>1
  <2> QED BY <2>2 DEF Joined
<1> QED BY <1>1, <1>2

\* A game as the clock let it go.
IsGameOf(job, game) == \E clock \in Clocks : game = GameResult(job, game.index, clock)

\* What was played was handed out.
LEMMA WentOffIs ==
  ASSUME NEW pool, NEW game \in WentOff(pool)
  PROVE  game.index \in Handed(pool) /\ IsGameOf(pool.job, game)
<1>1. PICK x \in Handed(pool) \X Clocks : game = GameResult(pool.job, x[1], x[2])
  BY DEF WentOff
<1>2. game.index = x[1]
  BY <1>1, ResultIndex
<1> QED BY <1>1, <1>2 DEF IsGameOf

\* What is in a worker's list.
LEMMA JoinedIs ==
  ASSUME NEW pool, PoolOK(pool)
  PROVE  /\ Joined(pool) = {x \in Threads(pool.job) \X Nat : x[2] \in 1..Len(pool.mine[x[1]])}
         /\ \A x \in Joined(pool) : /\ JoinedGame(pool, x).index \in Handed(pool)
                                    /\ IsGameOf(pool.job, JoinedGame(pool, x))
<1>1. \A w \in Threads(pool.job) : /\ pool.mine[w] \in Seq(WentOff(pool))
                                   /\ DOMAIN pool.mine[w] = 1..Len(pool.mine[w]) /\ Len(pool.mine[w]) \in Nat
  BY DEF PoolOK, HoldsHanded
<1>2. DOMAIN pool.mine = Threads(pool.job)
  BY DEF PoolOK, PoolShape
<1>3. Joined(pool) = {x \in Threads(pool.job) \X Nat : x[2] \in 1..Len(pool.mine[x[1]])}
  BY <1>1, <1>2, PlacesAre
<1>4. ASSUME NEW x \in Joined(pool)
      PROVE  /\ JoinedGame(pool, x).index \in Handed(pool)
             /\ IsGameOf(pool.job, JoinedGame(pool, x))
  <2>1. x[1] \in Threads(pool.job) /\ x[2] \in 1..Len(pool.mine[x[1]])
    BY <1>3
  <2>2. JoinedGame(pool, x) \in WentOff(pool)
    BY <1>1, <2>1 DEF JoinedGame
  <2> QED BY <2>2, WentOffIs
<1> QED BY <1>3, <1>4

\* A worker that finds nothing left returns.
LEMMA ReturnKeeps ==
  ASSUME NEW pool, PoolOK(pool), NEW w \in Threads(pool.job), pool.at[w] = NoGame, pool.ended[w] = "no",
         pool.next >= EvenGames(pool.job.games)
  PROVE  PoolOK(Returned(pool, w))
<1> DEFINE q == Returned(pool, w)
<1>1. /\ DOMAIN q = DOMAIN pool /\ q.live = pool.live /\ q.job = pool.job /\ q.next = pool.next + 1
      /\ q.at = pool.at /\ q.mine = pool.mine /\ q.ended = [pool.ended EXCEPT ![w] = "returned"]
  BY DEF Returned, PoolOK, PoolShape
<1>2. pool.next \in Nat /\ EvenGames(pool.job.games) \in Nat
  BY EvenIsEven DEF PoolOK, PoolShape, IsJob
<1> HIDE DEF q
<1>3. Handed(q) = Handed(pool)
  BY <1>1, <1>2 DEF Handed
<1>4. Joined(q) = Joined(pool) /\ \A x : JoinedGame(q, x) = JoinedGame(pool, x)
  BY <1>1 DEF Joined, JoinedGame
<1>5. PoolShape(q)
  BY <1>1, <1>2 DEF PoolOK, PoolShape
<1>6. HoldsHanded(q)
  BY <1>1, <1>3 DEF PoolOK, HoldsHanded, WentOff
<1>7. HeldOnce(q)
  BY <1>1, <1>4 DEF PoolOK, HeldOnce
<1>8. \A v \in Threads(pool.job) : q.ended[v] = IF v = w THEN "returned" ELSE pool.ended[v]
  BY <1>1 DEF PoolOK, PoolShape
<1>9. NoneLost(q)
  <2>1. DOMAIN q.ended = Threads(pool.job) /\ DOMAIN pool.ended = Threads(pool.job)
    BY <1>1 DEF PoolOK, PoolShape
  <2>2. RunFailed(pool) => RunFailed(q)
    BY <1>8, <2>1 DEF RunFailed
  <2> QED BY <1>1, <1>3, <1>4, <2>2 DEF PoolOK, NoneLost
<1>10. EndedWell(q)
  BY <1>1, <1>2, <1>8 DEF PoolOK, EndedWell
<1> QED BY <1>5, <1>6, <1>7, <1>9, <1>10 DEF PoolOK, q

\* fetch_add hands out an index nobody has.
LEMMA TakeKeeps ==
  ASSUME NEW pool, PoolOK(pool), NEW w \in Threads(pool.job), pool.at[w] = NoGame, pool.ended[w] = "no",
         ~(pool.next >= EvenGames(pool.job.games))
  PROVE  PoolOK(Took(pool, w))
<1> DEFINE q == Took(pool, w)
           i == pool.next
<1>1. /\ DOMAIN q = DOMAIN pool /\ q.live = pool.live /\ q.job = pool.job /\ q.next = i + 1
      /\ q.at = [pool.at EXCEPT ![w] = i] /\ q.mine = pool.mine /\ q.ended = pool.ended
  BY DEF Took, PoolOK, PoolShape
<1>2. i \in Nat /\ EvenGames(pool.job.games) \in Nat
  BY EvenIsEven DEF PoolOK, PoolShape, IsJob
<1> HIDE DEF q, i
<1>3. Handed(q) = Handed(pool) \cup {i} /\ i \notin Handed(pool) /\ i # NoGame /\ Handed(pool) \subseteq Nat
  BY <1>1, <1>2 DEF Handed, i, NoGame
<1>4. Joined(q) = Joined(pool) /\ \A x : JoinedGame(q, x) = JoinedGame(pool, x)
  BY <1>1 DEF Joined, JoinedGame
<1>5. PoolShape(q)
  BY <1>1, <1>2 DEF PoolOK, PoolShape
<1>6. \A v \in Threads(pool.job) : q.at[v] = IF v = w THEN i ELSE pool.at[v]
  BY <1>1 DEF PoolOK, PoolShape
<1>7. HoldsHanded(q)
  <2>1. ASSUME NEW v \in Threads(pool.job)
        PROVE  q.mine[v] \in Seq(WentOff(q))
    <3>1. pool.mine[v] \in Seq(WentOff(pool))
      BY DEF PoolOK, HoldsHanded
    <3>2. WentOff(pool) \subseteq WentOff(q)
      BY <1>1, <1>3 DEF WentOff
    <3> QED BY <1>1, <3>1, <3>2
  <2> QED BY <1>1, <1>3, <1>6, <2>1 DEF PoolOK, HoldsHanded
<1>8. HeldOnce(q)
  <2>1. \A x \in Joined(pool) : JoinedGame(pool, x).index \in Handed(pool)
    BY JoinedIs
  <2>2. \A v \in Threads(pool.job) : pool.at[v] \in Handed(pool) \cup {NoGame}
    BY DEF PoolOK, HoldsHanded
  <2> QED BY <1>1, <1>3, <1>4, <1>6, <2>1, <2>2 DEF PoolOK, HeldOnce
<1>9. NoneLost(q)
  <2>1. RunFailed(q) <=> RunFailed(pool)
    BY <1>1 DEF RunFailed
  <2>2. \A v \in Threads(pool.job) : pool.at[v] \in Handed(pool) => q.at[v] = pool.at[v]
    <3>1. pool.at[w] \notin Handed(pool)
      BY <1>3 DEF NoGame
    <3> QED BY <1>6, <3>1
  <2>3. ASSUME ~RunFailed(pool), NEW k \in Handed(q)
        PROVE  \/ \E v \in Threads(q.job) : q.at[v] = k
               \/ \E x \in Joined(q) : JoinedGame(q, x).index = k
    <3>1. CASE k = i
      BY <1>1, <1>6, <3>1
    <3>2. CASE k \in Handed(pool)
      BY <1>1, <1>4, <2>2, <2>3, <3>2 DEF PoolOK, NoneLost
    <3> QED BY <1>3, <3>1, <3>2
  <2> QED BY <2>1, <2>3 DEF NoneLost
<1>10. EndedWell(q)
  BY <1>1, <1>2, <1>6 DEF PoolOK, EndedWell, i
<1> QED BY <1>5, <1>7, <1>8, <1>9, <1>10 DEF PoolOK, q

\* A game played is put at the end of its worker's list.
LEMMA PlayKeeps ==
  ASSUME NEW pool, PoolOK(pool), NEW w \in Threads(pool.job), pool.at[w] # NoGame, NEW clock \in Clocks
  PROVE  PoolOK(Finishes(pool, w, clock))
<1> DEFINE q == Finishes(pool, w, clock)
           i == pool.at[w]
           R == WentOff(pool)
           r == GameResult(pool.job, i, clock)
           n == Len(pool.mine[w])
           new == <<w, n + 1>>
<1>1. /\ DOMAIN q = DOMAIN pool /\ q.live = pool.live /\ q.job = pool.job /\ q.next = pool.next
      /\ q.at = [pool.at EXCEPT ![w] = NoGame] /\ q.ended = pool.ended
      /\ q.mine = [pool.mine EXCEPT ![w] = Append(@, r)]
  BY DEF Finishes, PoolOK, PoolShape
<1> HIDE DEF q
<1>2. i \in Handed(pool)
  BY DEF PoolOK, HoldsHanded
<1> HIDE DEF i
<1>3. r \in R
  <2>1. <<i, clock>> \in Handed(pool) \X Clocks
    BY <1>2
  <2> QED BY <2>1 DEF WentOff
<1>4. \A v \in Threads(pool.job) : pool.mine[v] \in Seq(R)
  BY DEF PoolOK, HoldsHanded
<1>17. r.index = i
  BY ResultIndex
<1> HIDE DEF R, r
<1>5. Handed(q) = Handed(pool)
  BY <1>1 DEF Handed
<1>6. /\ \A v \in Threads(pool.job) : q.at[v] = IF v = w THEN NoGame ELSE pool.at[v]
      /\ \A v \in Threads(pool.job) \ {w} : q.mine[v] = pool.mine[v]
      /\ q.mine[w] = Append(pool.mine[w], r)
  BY <1>1 DEF PoolOK, PoolShape
<1>7. \A v \in Threads(pool.job) : q.mine[v] \in Seq(R)
  <2> DEFINE l == pool.mine[w]
  <2>1. Append(l, r) \in Seq(R)
    <3>1. r \in R /\ l \in Seq(R)
      BY <1>3, <1>4
    <3> HIDE DEF l
    <3> QED BY <3>1
  <2>2. q.mine[w] \in Seq(R)
    BY <1>6, <2>1
  <2>3. ASSUME NEW v \in Threads(pool.job), v # w PROVE q.mine[v] \in Seq(R)
    BY <1>4, <1>6, <2>3
  <2> QED BY <2>2, <2>3
<1>8. n \in Nat /\ Len(q.mine[w]) = n + 1 /\ q.mine[w][n + 1] = r
      /\ \A k \in 1..n : q.mine[w][k] = pool.mine[w][k]
  BY <1>4, <1>6
<1>9. PoolShape(q)
  BY <1>1 DEF PoolOK, PoolShape
<1>10. HoldsHanded(q)
  <2>1. \A v \in Threads(pool.job) : pool.at[v] \in Handed(pool) \cup {NoGame}
    BY DEF PoolOK, HoldsHanded
  <2>2. WentOff(q) = R
    BY <1>1, <1>5 DEF WentOff, R
  <2> QED BY <1>1, <1>5, <1>6, <1>7, <2>1, <2>2 DEF HoldsHanded
<1> HIDE DEF n
<1>11. Joined(q) = Joined(pool) \cup {new} /\ new \notin Joined(pool)
  <2>1. DOMAIN q.mine = Threads(pool.job)
    BY <1>1 DEF PoolOK, PoolShape
  <2>2. \A v \in Threads(pool.job) : DOMAIN q.mine[v] = 1..Len(q.mine[v]) /\ Len(q.mine[v]) \in Nat
    BY <1>7
  <2>3. Joined(q) = {x \in Threads(pool.job) \X Nat : x[2] \in 1..Len(q.mine[x[1]])}
    BY <2>1, <2>2, PlacesAre
  <2>4. Joined(pool) = {x \in Threads(pool.job) \X Nat : x[2] \in 1..Len(pool.mine[x[1]])}
    BY JoinedIs
  <2>5. \A v \in Threads(pool.job) : Len(q.mine[v]) = IF v = w THEN n + 1 ELSE Len(pool.mine[v])
    BY <1>6, <1>8
  <2>6. Len(pool.mine[w]) = n
    BY DEF n
  <2>7. \A x \in Threads(pool.job) \X Nat : x = <<x[1], x[2]>> /\ x[1] \in Threads(pool.job) /\ x[2] \in Nat
    OBVIOUS
  <2>8. new \in Threads(pool.job) \X Nat /\ new[1] = w /\ new[2] = n + 1
    BY <1>8
  <2>9. \A x \in Threads(pool.job) \X Nat : x \in Joined(q) <=> x \in Joined(pool) \/ x = new
    <3> TAKE x \in Threads(pool.job) \X Nat
    <3>1. CASE x[1] # w
      BY <2>3, <2>4, <2>5, <2>7, <2>8, <3>1
    <3>2. CASE x[1] = w
      <4>1. x = new <=> x[2] = n + 1
        BY <2>7, <3>2
      <4>2. x[2] \in 1..(n + 1) <=> x[2] \in 1..n \/ x[2] = n + 1
        BY <1>8, <2>7
      <4> HIDE DEF new
      <4> QED BY <2>3, <2>4, <2>5, <2>6, <3>2, <4>1, <4>2
    <3> QED BY <3>1, <3>2
  <2>10. new \notin Joined(pool)
    BY <1>8, <2>4, <2>6, <2>8
  <2> QED BY <2>3, <2>4, <2>8, <2>9, <2>10
<1>12. JoinedGame(q, new).index = i
  BY <1>8, <1>17 DEF JoinedGame
<1>13. \A x \in Joined(pool) : JoinedGame(q, x) = JoinedGame(pool, x)
  <2> TAKE x \in Joined(pool)
  <2>1. x[1] \in Threads(pool.job) /\ x[2] \in 1..Len(pool.mine[x[1]])
    BY JoinedIs
  <2>2. CASE x[1] = w
    BY <1>8, <2>1, <2>2 DEF JoinedGame, n
  <2>3. CASE x[1] # w
    BY <1>6, <2>1, <2>3 DEF JoinedGame
  <2> QED BY <2>2, <2>3
<1> HIDE DEF new
<1>14. HeldOnce(q)
  <2>1. \A x \in Joined(pool) : JoinedGame(pool, x).index \in Handed(pool) /\ JoinedGame(pool, x).index # i
    BY JoinedIs DEF PoolOK, HeldOnce, i
  <2>2. NoGame \notin Handed(pool)
    BY DEF NoGame, Handed
  <2>3. \A v \in Threads(pool.job) : v # w => pool.at[v] # i
    BY <1>2, <2>2 DEF PoolOK, HeldOnce, i
  <2>4. \A x, y \in Joined(q) : JoinedGame(q, x).index = JoinedGame(q, y).index => x = y
    BY <1>11, <1>12, <1>13, <2>1 DEF PoolOK, HeldOnce
  <2>5. \A x \in Joined(q) : \A v \in Threads(q.job) : q.at[v] # JoinedGame(q, x).index
    BY <1>1, <1>2, <1>6, <1>11, <1>12, <1>13, <2>1, <2>2, <2>3 DEF PoolOK, HeldOnce
  <2> QED BY <1>1, <1>6, <2>4, <2>5 DEF PoolOK, HeldOnce
<1>15. NoneLost(q)
  <2>1. RunFailed(q) <=> RunFailed(pool)
    BY <1>1 DEF RunFailed
  <2>2. ASSUME ~RunFailed(pool), NEW k \in Handed(q)
        PROVE  \/ \E v \in Threads(q.job) : q.at[v] = k
               \/ \E x \in Joined(q) : JoinedGame(q, x).index = k
    <3>1. CASE \E x \in Joined(pool) : JoinedGame(pool, x).index = k
      BY <1>11, <1>13, <3>1
    <3>2. CASE \E v \in Threads(pool.job) : pool.at[v] = k
      BY <1>1, <1>6, <1>11, <1>12, <3>2 DEF i
    <3> QED BY <1>5, <2>2, <3>1, <3>2 DEF PoolOK, NoneLost
  <2> QED BY <2>1, <2>2 DEF NoneLost
<1>16. EndedWell(q)
  BY <1>1, <1>6 DEF PoolOK, EndedWell
<1> QED BY <1>9, <1>10, <1>14, <1>15, <1>16 DEF PoolOK, q

\* A panic takes its worker's games along, and the run fails.
LEMMA LossKeeps ==
  ASSUME NEW pool, PoolOK(pool), NEW w \in Threads(pool.job), pool.at[w] # NoGame
  PROVE  PoolOK(Lost(pool, w))
<1> DEFINE q == Lost(pool, w)
           R == WentOff(pool)
<1>1. /\ DOMAIN q = DOMAIN pool /\ q.live = pool.live /\ q.job = pool.job /\ q.next = pool.next
      /\ q.at = [pool.at EXCEPT ![w] = NoGame] /\ q.ended = [pool.ended EXCEPT ![w] = "panicked"]
      /\ q.mine = [pool.mine EXCEPT ![w] = <<>>]
  BY DEF Lost, PoolOK, PoolShape
<1> HIDE DEF q
<1>2. Handed(q) = Handed(pool)
  BY <1>1 DEF Handed
<1>3. /\ \A v \in Threads(pool.job) : q.at[v] = IF v = w THEN NoGame ELSE pool.at[v]
      /\ \A v \in Threads(pool.job) : q.mine[v] = IF v = w THEN <<>> ELSE pool.mine[v]
      /\ \A v \in Threads(pool.job) : q.ended[v] = IF v = w THEN "panicked" ELSE pool.ended[v]
      /\ DOMAIN q.mine = Threads(pool.job) /\ DOMAIN q.ended = Threads(pool.job)
  BY <1>1 DEF PoolOK, PoolShape
<1>4. \A v \in Threads(pool.job) : pool.mine[v] \in Seq(R)
  BY DEF PoolOK, HoldsHanded
<1> HIDE DEF R
<1>5. \A v \in Threads(pool.job) : q.mine[v] \in Seq(R)
  <2>1. <<>> \in Seq(R)
    OBVIOUS
  <2>2. ASSUME NEW v \in Threads(pool.job) PROVE q.mine[v] \in Seq(R)
    <3>1. CASE v = w
      BY <1>3, <2>1, <3>1
    <3>2. CASE v # w
      BY <1>3, <1>4, <3>2
    <3> QED BY <3>1, <3>2
  <2> QED BY <2>2
<1>6. PoolShape(q)
  BY <1>1 DEF PoolOK, PoolShape
<1>7. HoldsHanded(q)
  <2>1. WentOff(q) = R
    BY <1>1, <1>2 DEF WentOff, R
  <2> QED BY <1>1, <1>2, <1>3, <1>5, <2>1 DEF PoolOK, HoldsHanded
<1>8. Joined(q) \subseteq Joined(pool) /\ \A x \in Joined(q) : JoinedGame(q, x) = JoinedGame(pool, x)
  <2>1. \A v \in Threads(pool.job) : DOMAIN q.mine[v] = 1..Len(q.mine[v]) /\ Len(q.mine[v]) \in Nat
    BY <1>5
  <2>2. Joined(q) = {x \in Threads(pool.job) \X Nat : x[2] \in 1..Len(q.mine[x[1]])}
    BY <1>3, <2>1, PlacesAre
  <2>3. Joined(pool) = {x \in Threads(pool.job) \X Nat : x[2] \in 1..Len(pool.mine[x[1]])}
    BY JoinedIs
  <2>4. ASSUME NEW x \in Joined(q) PROVE x \in Joined(pool) /\ JoinedGame(q, x) = JoinedGame(pool, x)
    <3>1. x \in Threads(pool.job) \X Nat /\ x[2] \in 1..Len(q.mine[x[1]])
      BY <2>2
    <3>2. x[1] # w
      BY <1>3, <3>1
    <3> QED BY <1>3, <2>3, <3>1, <3>2 DEF JoinedGame
  <2> QED BY <2>4
<1>9. HeldOnce(q)
  <2>1. \A x \in Joined(pool) : JoinedGame(pool, x).index # NoGame
    <3>1. NoGame \notin Handed(pool)
      BY DEF NoGame, Handed
    <3> QED BY <3>1, JoinedIs
  <2> QED BY <1>1, <1>3, <1>8, <2>1 DEF PoolOK, HeldOnce
<1>10. NoneLost(q)
  <2>1. q.ended[w] = "panicked" /\ w \in DOMAIN q.ended
    BY <1>3
  <2> QED BY <2>1 DEF NoneLost, RunFailed
<1>11. EndedWell(q)
  BY <1>1, <1>3 DEF PoolOK, EndedWell
<1> QED BY <1>6, <1>7, <1>9, <1>10, <1>11 DEF PoolOK, q

\* What a pool without a clock that ended without a panic has collected: every game, by index.
AllResults(job) == [k \in 1..EvenGames(job.games) |-> GameResult(job, k - 1, NoClock)]

\* Where all have ended and none panicked, every index has one place.
LEMMA EveryGameHasItsPlace ==
  ASSUME NEW pool, PoolOK(pool), AllEnded(pool), ~RunFailed(pool)
  PROVE  \A i \in 0..(EvenGames(pool.job.games) - 1) : \E x \in Joined(pool) : JoinedGame(pool, x).index = i
<1>1. IsJob(pool.job) /\ pool.next \in Nat /\ DOMAIN pool.ended = Threads(pool.job)
  BY DEF PoolOK, PoolShape
<1>2. PICK k \in Nat \ {0} : Threads(pool.job) = 1..k
  BY <1>1, SomeThread
<1>3. 1 \in Threads(pool.job)
  BY <1>2
<1>4. \A w \in Threads(pool.job) : pool.ended[w] = "returned" /\ pool.at[w] = NoGame
  BY <1>1 DEF PoolOK, EndedWell, AllEnded, RunFailed
<1>5. pool.next >= EvenGames(pool.job.games) /\ EvenGames(pool.job.games) \in Nat
  BY <1>1, <1>3, <1>4, EvenIsEven DEF PoolOK, EndedWell, IsJob
<1>6. Handed(pool) = 0..(EvenGames(pool.job.games) - 1)
  BY <1>1, <1>5 DEF Handed
<1>7. \A w \in Threads(pool.job) : pool.at[w] \notin Handed(pool)
  BY <1>4 DEF NoGame, Handed
<1> QED BY <1>6, <1>7 DEF PoolOK, NoneLost

\* A finished pool has collected every game, by index.
LEMMA CollectedByIndex ==
  ASSUME NEW pool, PoolOK(pool), AllEnded(pool), ~RunFailed(pool)
  PROVE  /\ EvenGames(pool.job.games) \in Nat /\ DOMAIN Collected(pool) = 1..EvenGames(pool.job.games)
         /\ Collected(pool) = [k \in 1..EvenGames(pool.job.games) |-> Collected(pool)[k]]
         /\ \A k \in 1..EvenGames(pool.job.games) : /\ Collected(pool)[k].index = k - 1
                                                    /\ IsGameOf(pool.job, Collected(pool)[k])
<1> DEFINE n == EvenGames(pool.job.games)
           J == Joined(pool)
           Index(x) == JoinedGame(pool, x).index
           Earlier(x) == {y \in J : Precedes(pool, y, x)}
<1>1. n \in Nat
  BY EvenIsEven DEF PoolOK, PoolShape, IsJob
<1>2. /\ \A x \in J : Index(x) \in 0..(n - 1) /\ IsGameOf(pool.job, JoinedGame(pool, x))
      /\ \A x, y \in J : Index(x) = Index(y) => x = y
      /\ \A i \in 0..(n - 1) : \E x \in J : Index(x) = i
  <2>1. \A x \in J : Index(x) \in 0..(n - 1) /\ IsGameOf(pool.job, JoinedGame(pool, x))
    BY JoinedIs DEF Handed
  <2> QED BY <2>1, EveryGameHasItsPlace DEF PoolOK, HeldOnce
<1>3. \A x, y \in J : Precedes(pool, y, x) <=> Index(y) < Index(x)
  <2> TAKE x, y \in J
  <2>1. Index(x) \in Int /\ Index(y) \in Int /\ (Index(x) = Index(y) => x = y)
    BY <1>2
  <2>2. CASE Index(x) # Index(y)
    BY <2>1, <2>2 DEF Precedes
  <2>3. CASE x = y
    <3>1. x \in Threads(pool.job) \X Nat /\ Threads(pool.job) \subseteq Int
      <4>1. PICK k \in Nat \ {0} : Threads(pool.job) = 1..k
        BY SomeThread DEF PoolOK, PoolShape
      <4> QED BY <4>1, JoinedIs
    <3>2. x[1] \in Int /\ x[2] \in Int
      BY <3>1
    <3> QED BY <2>1, <2>3, <3>2 DEF Precedes
  <2> QED BY <2>1, <2>2, <2>3
<1> HIDE DEF n, J, Index
<1>4. \A i \in Nat : i <= n => IsFiniteSet({y \in J : Index(y) < i}) /\ Cardinality({y \in J : Index(y) < i}) = i
  <2> TAKE i \in Nat
  <2> DEFINE B == {y \in J : Index(y) < i}
             U == 0..(i - 1)
             f == [y \in B |-> Index(y)]
  <2>1. HAVE i <= n
  <2>2. IsFiniteSet(U) /\ Cardinality(U) = i
    <3> DEFINE m == i - 1
               z == 0
    <3>1. m \in Int /\ z \in Int /\ z = 0
      OBVIOUS
    <3> HIDE DEF m, z
    <3>2. IsFiniteSet(z..m) /\ Cardinality(z..m) = IF z > m THEN 0 ELSE m - z + 1
      BY <3>1, FS_Interval
    <3> QED BY <3>1, <3>2 DEF m
  <2>3. f \in Injection(B, U) /\ f \in Surjection(B, U)
    <3>1. \A y \in B : y \in J /\ Index(y) \in U
      BY <1>1, <1>2
    <3>2. \A u \in U : \E y \in B : Index(y) = u
      BY <1>1, <1>2, <2>1
    <3>3. \A x, y \in B : Index(x) = Index(y) => x = y
      BY <1>2
    <3> HIDE DEF B, U
    <3> QED BY <3>1, <3>2, <3>3 DEF Injection, Surjection, IsInjective
  <2>4. IsFiniteSet(B) /\ Cardinality(B) = Cardinality(U)
    <3> HIDE DEF f, B, U
    <3> QED BY <2>2, <2>3, FS_Injection
  <2> QED BY <2>2, <2>4
<1>5. Cardinality(J) = n
  <2>1. {y \in J : Index(y) < n} = J
    BY <1>1, <1>2
  <2> QED BY <1>1, <1>4, <2>1
<1>6. \A x \in J : Cardinality(Earlier(x)) = Index(x)
  <2> TAKE x \in J
  <2>1. Earlier(x) = {y \in J : Index(y) < Index(x)}
    BY <1>3
  <2>2. Index(x) \in Nat /\ Index(x) <= n
    BY <1>1, <1>2
  <2> QED BY <1>4, <2>1, <2>2
<1> HIDE DEF Earlier
<1> DEFINE At(k) == CHOOSE x \in J : Cardinality(Earlier(x)) = k - 1
<1>7. ASSUME NEW k \in 1..n
      PROVE  At(k) \in J /\ Index(At(k)) = k - 1
  <2>1. k - 1 \in 0..(n - 1)
    BY <1>1
  <2>2. \E x \in J : Cardinality(Earlier(x)) = k - 1
    BY <1>2, <1>6, <2>1
  <2>3. At(k) \in J /\ Cardinality(Earlier(At(k))) = k - 1
    BY <2>2
  <2> HIDE DEF At
  <2> QED BY <1>6, <2>3
<1>8. Collected(pool) = [k \in 1..n |-> JoinedGame(pool, At(k))]
  BY <1>5 DEF Collected, J, Earlier
<1> HIDE DEF At
<1>9. ASSUME NEW k \in 1..n
      PROVE  Collected(pool)[k].index = k - 1 /\ IsGameOf(pool.job, Collected(pool)[k])
  <2>1. Collected(pool)[k] = JoinedGame(pool, At(k))
    BY <1>8
  <2> QED BY <1>2, <1>7, <2>1 DEF Index
<1> QED BY <1>1, <1>8, <1>9 DEF n

\* Without a clock a game is a function of the run and its index.
LEMMA NoClockNoMatter ==
  ASSUME NEW job, Reproducible(job), NEW i, NEW clock
  PROVE  GameResult(job, i, clock) = GameResult(job, i, NoClock)
<1>1. \A seat \in 1..2 : ClockOf(SideInSeat(job, i, seat), clock) = NoClock
  BY DEF Reproducible, ClockOf, SideInSeat
<1>2. \A seat \in 1..2 : ClockOf(SideInSeat(job, i, seat), NoClock) = NoClock
  BY DEF ClockOf
<1>3. Seating(job, i, clock) = Seating(job, i, NoClock)
  BY <1>1, <1>2 DEF Seating
<1> QED BY <1>3 DEF GameResult

\* A finished pool without a clock has collected every game, by index.
LEMMA CollectedAll ==
  ASSUME NEW pool, PoolOK(pool), AllEnded(pool), ~RunFailed(pool), Reproducible(pool.job)
  PROVE  Collected(pool) = AllResults(pool.job)
<1> DEFINE n == EvenGames(pool.job.games)
           games == Collected(pool)
<1>1. games = [k \in 1..n |-> games[k]] /\ \A k \in 1..n : games[k].index = k - 1 /\ IsGameOf(pool.job, games[k])
  BY CollectedByIndex
<1> HIDE DEF n, games
<1>2. ASSUME NEW k \in 1..n PROVE games[k] = GameResult(pool.job, k - 1, NoClock)
  <2>1. PICK clock \in Clocks : games[k] = GameResult(pool.job, games[k].index, clock)
    BY <1>1 DEF IsGameOf
  <2> QED BY <1>1, <2>1, NoClockNoMatter
<1>3. AllResults(pool.job) = [k \in 1..n |-> GameResult(pool.job, k - 1, NoClock)]
  BY DEF AllResults, n
<1> QED BY <1>1, <1>2, <1>3 DEF games

\* The other game of a pair.
Mate(i) == IF i % 2 = 0 THEN i + 1 ELSE i - 1

\* With the sides exchanged a game is its mate, but for who has which seat.
LEMMA SwappedIsTheMate ==
  ASSUME NEW job, IsJob(job), NEW i \in Nat
  PROVE  Seating(Swapped(job), i, NoClock) = Seating(job, Mate(i), NoClock) /\ AHasSeatOne(Mate(i)) = ~AHasSeatOne(i)
<1> DEFINE j == Mate(i)
           other == Swapped(job)
<1>1. j \in Nat /\ (i % 2 = 0 <=> ~(j % 2 = 0)) /\ i \div 2 = j \div 2
  BY DEF Mate
<1>2. /\ other.sideA = job.sideB /\ other.sideB = job.sideA /\ other.netA = job.netB /\ other.netB = job.netA
      /\ other.seed = job.seed /\ other.maxTurns = job.maxTurns /\ other.epsilon = job.epsilon
      /\ other.explore = job.explore
  <2>1. DOMAIN job = {"sideA", "sideB", "netA", "netB", "games", "seed", "maxTurns", "epsilon", "explore",
                      "threads", "fits"}
    BY DEF IsJob, GauntletConfig
  <2> QED BY <2>1 DEF Swapped
<1> HIDE DEF j, other
<1>3. \A seat \in 1..2 : SideInSeat(other, i, seat) = SideInSeat(job, j, seat)
  BY <1>1, <1>2 DEF SideInSeat, AHasSeatOne
<1>4. \A seat \in 1..2 : NetInSeat(other, i, seat) = NetInSeat(job, j, seat)
  BY <1>1, <1>2 DEF NetInSeat, AHasSeatOne
<1>5. GameSeed(other.seed, i) = GameSeed(job.seed, j)
  BY <1>1, <1>2 DEF GameSeed
<1>6. Seating(other, i, NoClock) = Seating(job, j, NoClock)
  BY <1>2, <1>3, <1>4, <1>5 DEF Seating
<1>7. AHasSeatOne(j) = ~AHasSeatOne(i)
  BY <1>1 DEF AHasSeatOne
<1> QED BY <1>6, <1>7 DEF j, other

\* What a game is for A, exchanged.
Opposite(outcome) == CASE outcome = "Win" -> "Loss" [] outcome = "Loss" -> "Win" [] OTHER -> outcome

\* A game of the exchanged run is for A what its mate is for B.
LEMMA MateIsOpposite ==
  ASSUME NEW job, IsJob(job), NEW i \in Nat
  PROVE  /\ OutcomeForA(GameResult(Swapped(job), i, NoClock)) = Opposite(OutcomeForA(GameResult(job, Mate(i), NoClock)))
         /\ OutcomeForA(GameResult(job, i, NoClock)) \in {"Win", "Loss", "Draw"}
<1> DEFINE end == GameEnd(Seating(job, Mate(i), NoClock))
           x == Finished(end, i)
           y == Finished(end, Mate(i))
<1>1. GameResult(Swapped(job), i, NoClock) = x /\ GameResult(job, Mate(i), NoClock) = y
  BY SwappedIsTheMate DEF GameResult
<1>2. x.winner = y.winner /\ x.aIsP1 = AHasSeatOne(i) /\ y.aIsP1 = AHasSeatOne(Mate(i))
  BY DEF Finished, GameOutcome
<1> HIDE DEF end, x, y
<1>3. AHasSeatOne(i) \in BOOLEAN /\ y.aIsP1 = ~x.aIsP1 /\ x.aIsP1 \in BOOLEAN
  BY <1>2, SwappedIsTheMate DEF AHasSeatOne
<1>4. OutcomeForA(x) = Opposite(OutcomeForA(y))
  <2>1. CASE x.winner = 0
    BY <1>2, <2>1 DEF OutcomeForA, Opposite
  <2>2. CASE x.winner # 0 /\ x.aIsP1
    BY <1>2, <1>3, <2>2 DEF OutcomeForA, Opposite
  <2>3. CASE x.winner # 0 /\ ~x.aIsP1
    BY <1>2, <1>3, <2>3 DEF OutcomeForA, Opposite
  <2> QED BY <1>3, <2>1, <2>2, <2>3
<1>5. OutcomeForA(GameResult(job, i, NoClock)) \in {"Win", "Loss", "Draw"}
  BY DEF OutcomeForA
<1> QED BY <1>1, <1>4, <1>5

\* There are finitely many.
LEMMA UptoFinite ==
  ASSUME NEW n \in Nat
  PROVE  IsFiniteSet(Upto(n))
BY FS_Interval DEF Upto

\* The numbers up to n whose mates are in T are as many as T.
MatesIn(n, T) == {k \in Upto(n) : Mate(k - 1) + 1 \in T}
LEMMA AsManyMates ==
  ASSUME NEW n \in Nat, n % 2 = 0
  PROVE  \A T \in SUBSET Upto(n) : Cardinality(MatesIn(n, T)) = Cardinality(T)
<1> TAKE T \in SUBSET Upto(n)
<1> DEFINE M(k) == Mate(k - 1) + 1
           B == MatesIn(n, T)
           f == [k \in B |-> M(k)]
<1>1. \A k \in 1..n : M(k) \in 1..n /\ M(M(k)) = k
  <2> TAKE k \in 1..n
  <2>1. CASE (k - 1) % 2 = 0
    <3>1. M(k) = k + 1 /\ k % 2 = 1 /\ k # n
      BY <2>1 DEF Mate
    <3> QED BY <3>1 DEF Mate
  <2>2. CASE (k - 1) % 2 # 0
    <3>1. M(k) = k - 1 /\ k % 2 = 0 /\ k >= 2
      BY <2>2 DEF Mate
    <3>2. (k - 2) % 2 = 0
      BY <3>1
    <3> QED BY <3>1, <3>2 DEF Mate
  <2> QED BY <2>1, <2>2
<1> HIDE DEF M
<1>2. \A k \in Upto(n) : M(k) \in Upto(n) /\ M(M(k)) = k
  BY <1>1 DEF Upto
<1>3. IsFiniteSet(Upto(n))
  BY UptoFinite
<1>4. IsFiniteSet(T)
  <2>1. T \subseteq Upto(n)
    OBVIOUS
  <2> QED BY <1>3, <2>1, FS_Subset
<1>5. B = {k \in Upto(n) : M(k) \in T}
  BY DEF MatesIn, M
<1>6. f \in Injection(B, T) /\ f \in Surjection(B, T)
  <2>1. \A k \in B : M(k) \in T
    BY <1>5
  <2>2. \A u \in T : M(u) \in B /\ M(M(u)) = u
    BY <1>2, <1>5
  <2>3. \A k, l \in B : M(k) = M(l) => k = l
    BY <1>2, <1>5
  <2> HIDE DEF B
  <2> QED BY <2>1, <2>2, <2>3 DEF Injection, Surjection, IsInjective
<1>7. Cardinality(B) = Cardinality(T)
  <2> HIDE DEF f, B
  <2> QED BY <1>4, <1>6, FS_Injection
<1> QED BY <1>7

\* The games of the exchanged run.
Mirrored(job) == [k \in DOMAIN AllResults(job) |-> GameResult(Swapped(job), k - 1, NoClock)]

\* A win of the exchanged run is a loss, a draw a draw.
LEMMA MirroredTally ==
  ASSUME NEW job, IsJob(job)
  PROVE  /\ Tally(Mirrored(job)).w = Tally(AllResults(job)).l
         /\ Tally(Mirrored(job)).d = Tally(AllResults(job)).d
<1> DEFINE n == EvenGames(job.games)
           Out(k) == OutcomeForA(GameResult(job, k - 1, NoClock))
           Mir(k) == OutcomeForA(GameResult(Swapped(job), k - 1, NoClock))
           Lost0 == {k \in Upto(n) : Out(k) = "Loss"}
           Drawn == {k \in Upto(n) : Out(k) = "Draw"}
<1>1. n \in Nat /\ n % 2 = 0
  BY EvenIsEven DEF IsJob
<1>2. \A k \in 1..n : /\ Mir(k) = Opposite(Out(Mate(k - 1) + 1))
                      /\ Out(Mate(k - 1) + 1) \in {"Win", "Loss", "Draw"}
  <2> TAKE k \in 1..n
  <2>1. k - 1 \in Nat /\ Mate(k - 1) \in Nat /\ Mate(k - 1) + 1 - 1 = Mate(k - 1)
    BY <1>1 DEF Mate
  <2>2. Mir(k) = Opposite(OutcomeForA(GameResult(job, Mate(k - 1), NoClock)))
    BY <2>1, MateIsOpposite
  <2>3. OutcomeForA(GameResult(job, Mate(k - 1), NoClock)) \in {"Win", "Loss", "Draw"}
    BY <2>1, MateIsOpposite
  <2> QED BY <2>1, <2>2, <2>3
<1>3. /\ Tally(Mirrored(job)).w = Cardinality({k \in 1..n : Mir(k) = "Win"})
      /\ Tally(Mirrored(job)).d = Cardinality({k \in 1..n : Mir(k) = "Draw"})
  <2> DEFINE games == Mirrored(job)
  <2>1. DOMAIN games = 1..n /\ \A k \in 1..n : OutcomeForA(games[k]) = Mir(k)
    BY DEF Mirrored, AllResults
  <2> HIDE DEF games, Mir, n
  <2>2. /\ {k \in DOMAIN games : OutcomeForA(games[k]) = "Win"} = {k \in 1..n : Mir(k) = "Win"}
        /\ {k \in DOMAIN games : OutcomeForA(games[k]) = "Draw"} = {k \in 1..n : Mir(k) = "Draw"}
    BY <2>1
  <2>3. /\ Tally(games).w = Cardinality({k \in DOMAIN games : OutcomeForA(games[k]) = "Win"})
        /\ Tally(games).d = Cardinality({k \in DOMAIN games : OutcomeForA(games[k]) = "Draw"})
    BY DEF Tally, Count
  <2> QED BY <2>2, <2>3 DEF games
<1>4. Tally(AllResults(job)).l = Cardinality(Lost0) /\ Tally(AllResults(job)).d = Cardinality(Drawn)
  <2> DEFINE games == AllResults(job)
  <2>1. DOMAIN games = Upto(n) /\ \A k \in Upto(n) : OutcomeForA(games[k]) = Out(k)
    BY DEF AllResults, Upto
  <2> HIDE DEF games, Out, n
  <2>2. /\ {k \in DOMAIN games : OutcomeForA(games[k]) = "Loss"} = Lost0
        /\ {k \in DOMAIN games : OutcomeForA(games[k]) = "Draw"} = Drawn
    BY <2>1
  <2>3. /\ Tally(games).l = Cardinality({k \in DOMAIN games : OutcomeForA(games[k]) = "Loss"})
        /\ Tally(games).d = Cardinality({k \in DOMAIN games : OutcomeForA(games[k]) = "Draw"})
    BY DEF Tally, Count
  <2> QED BY <2>2, <2>3 DEF games
<1> HIDE DEF n, Out, Mir
<1>5. \A k \in Upto(n) : Mate(k - 1) + 1 \in Upto(n)
  <2>1. \A k \in 1..n : Mate(k - 1) + 1 \in 1..n
    <3> TAKE k \in 1..n
    <3>1. CASE (k - 1) % 2 = 0
      BY <1>1, <3>1 DEF Mate
    <3>2. CASE (k - 1) % 2 # 0
      BY <1>1, <3>2 DEF Mate
    <3> QED BY <3>1, <3>2
  <2> QED BY <2>1 DEF Upto
<1>6. {k \in 1..n : Mir(k) = "Win"} = MatesIn(n, Lost0) /\ {k \in 1..n : Mir(k) = "Draw"} = MatesIn(n, Drawn)
  <2>1. \A k \in Upto(n) : (Mir(k) = "Win" <=> Out(Mate(k - 1) + 1) = "Loss")
                           /\ (Mir(k) = "Draw" <=> Out(Mate(k - 1) + 1) = "Draw")
    BY <1>2 DEF Opposite, Upto
  <2>2. 1..n = Upto(n)
    BY DEF Upto
  <2> HIDE DEF Lost0, Drawn
  <2>3. \A j \in Upto(n) : (j \in Lost0 <=> Out(j) = "Loss") /\ (j \in Drawn <=> Out(j) = "Draw")
    BY DEF Lost0, Drawn
  <2>4. \A k \in Upto(n) : (k \in MatesIn(n, Lost0) <=> Mir(k) = "Win") /\ (k \in MatesIn(n, Drawn) <=> Mir(k) = "Draw")
    BY <1>5, <2>1, <2>3 DEF MatesIn
  <2>5. MatesIn(n, Lost0) \subseteq Upto(n) /\ MatesIn(n, Drawn) \subseteq Upto(n)
    BY DEF MatesIn
  <2> QED BY <2>2, <2>4, <2>5
<1>7. Lost0 \in SUBSET Upto(n) /\ Drawn \in SUBSET Upto(n)
  OBVIOUS
<1> HIDE DEF Lost0, Drawn
<1> QED BY <1>1, <1>3, <1>4, <1>6, <1>7, AsManyMates

\* A pool that ended without a panic has every index of an even number once.
LEMMA FinishedIsComplete ==
  ASSUME NEW pool, PoolOK(pool), AllEnded(pool), ~RunFailed(pool)
  PROVE  IsComplete(pool.job, Collected(pool))
<1> DEFINE games == Collected(pool)
           asked == pool.job.games
           n == EvenGames(asked)
<1>1. /\ n \in Nat /\ DOMAIN games = 1..n /\ games = [k \in 1..n |-> games[k]]
      /\ \A k \in 1..n : games[k].index = k - 1
  BY CollectedByIndex
<1>2. asked \in Nat
  BY DEF PoolOK, PoolShape, IsJob
<1>3. n % 2 = 0 /\ n \in asked..(asked + 1)
  BY <1>2 DEF EvenGames
<1> HIDE DEF games, n
<1>4. Len(games) = n
  BY <1>1
<1> QED BY <1>1, <1>3, <1>4 DEF IsComplete, games

\* One without a clock cancels.
LEMMA FinishedCancels ==
  ASSUME NEW pool, PoolOK(pool), AllEnded(pool), ~RunFailed(pool), Reproducible(pool.job)
  PROVE  LET games == Collected(pool)
         IN  Cancels(pool.job, Tally(games),
                     Tally([k \in DOMAIN games |-> GameResult(Swapped(pool.job), k - 1, NoClock)]))
<1> DEFINE job == pool.job
           games == AllResults(job)
<1>1. Collected(pool) = games
  BY CollectedAll
<1>2. IsJob(job)
  BY DEF PoolOK, PoolShape
<1> HIDE DEF job
<1>5. Tally(Mirrored(job)).w = Tally(games).l /\ Tally(Mirrored(job)).d = Tally(games).d
  BY <1>2, MirroredTally
<1>6. ASSUME job.sideA = job.sideB, job.netA = job.netB
      PROVE  Tally(games).w = Tally(games).l
  <2>1. Swapped(job) = job
    <3>1. /\ DOMAIN job = {"sideA", "sideB", "netA", "netB", "games", "seed", "maxTurns", "epsilon", "explore",
                            "threads", "fits"}
          /\ job = [x \in DOMAIN job |-> job[x]]
      BY <1>2 DEF IsJob, GauntletConfig
    <3> QED BY <1>6, <3>1 DEF Swapped
  <2>2. Mirrored(job) = games
    BY <2>1 DEF Mirrored, AllResults
  <2> QED BY <1>5, <2>2
<1> HIDE DEF games
<1>7. Cancels(job, Tally(games), Tally(Mirrored(job)))
  BY <1>5, <1>6 DEF Cancels
<1>8. Mirrored(job) = [k \in DOMAIN games |-> GameResult(Swapped(job), k - 1, NoClock)]
  BY DEF Mirrored, games
<1> QED BY <1>1, <1>7, <1>8 DEF job

\* Both pools, the gauntlet stage's and the arena's.
PoolsInv ==
  /\ DOMAIN pools = {"gate", "arena"}
  /\ \A who \in {"gate", "arena"} : pools[who] = Idle \/ PoolOK(pools[who])

\* How many games and threads a run may ask for are counts.
LEMMA AskedFor ==
  /\ \A inv \in Invocations : inv.games \in Nat
  /\ Knobs.jobs \in Nat
  /\ \A flags \in ArenaFlags : flags.games \in Nat /\ flags.threads \in Nat
<1>1. \A inv \in Invocations : inv.games \in Nat
  BY GenerationAssumption
<1>2. Knobs.jobs \in Nat
  BY GenerationAssumption
<1>3. \A flags \in ArenaFlags : flags.games \in Nat /\ flags.threads \in Nat
  BY GenerationAssumption
<1> QED BY <1>1, <1>2, <1>3

\* A configuration that was validated, of counts, is a run's.
LEMMA ConfigIsJob ==
  ASSUME NEW a, NEW b, NEW na, NEW nb, NEW games \in Nat, NEW seed, NEW knobs, NEW threads \in Nat, NEW fits,
         ConfigIsValid(GauntletConfig(a, b, na, nb, games, seed, knobs, threads, fits))
  PROVE  IsJob(GauntletConfig(a, b, na, nb, games, seed, knobs, threads, fits))
<1> DEFINE job == GauntletConfig(a, b, na, nb, games, seed, knobs, threads, fits)
<1>1. job.games = games /\ job.threads = threads
  BY DEF GauntletConfig
<1>2. job = GauntletConfig(job.sideA, job.sideB, job.netA, job.netB, job.games, job.seed, job, job.threads, job.fits)
  BY DEF GauntletConfig
<1> HIDE DEF job
<1>3. job.games > 0
  BY DEF ConfigIsValid, job
<1>4. IsJob(job)
  BY <1>1, <1>2, <1>3 DEF IsJob
<1> QED BY <1>4 DEF job

\* A pool that idles or is new is as it should be.
LEMMA PoolReplaced ==
  ASSUME PoolsInv, NEW who \in {"gate", "arena"}, NEW pool, pools' = [pools EXCEPT ![who] = pool],
         pool = Idle \/ PoolOK(pool)
  PROVE  PoolsInv'
BY DEF PoolsInv

\* A worker of a pool takes a step.
LEMMA WorkerKeeps ==
  ASSUME PoolsInv, NEW who \in {"gate", "arena"}, NEW w, Fetch(who, w) \/ PlayGame(who, w) \/ Panics(who, w)
  PROVE  PoolsInv'
<1> DEFINE pool == pools[who]
<1>1. pool.live /\ w \in DOMAIN pool.at
  BY DEF Fetch, PlayGame, Panics
<1>2. PoolOK(pool)
  BY <1>1 DEF PoolsInv, Idle
<1>3. w \in Threads(pool.job)
  BY <1>1, <1>2 DEF PoolOK, PoolShape
<1> HIDE DEF pool
<1>4. CASE Fetch(who, w)
  <2>1. pool.at[w] = NoGame /\ pool.ended[w] = "no"
    BY <1>4 DEF Fetch, pool
  <2>2. CASE pool.next >= EvenGames(pool.job.games)
    <3>1. pools' = [pools EXCEPT ![who] = Returned(pool, w)]
      BY <1>4, <2>2 DEF Fetch, Returned, pool
    <3>2. PoolOK(Returned(pool, w))
      BY <1>2, <1>3, <2>1, <2>2, ReturnKeeps
    <3> QED BY <3>1, <3>2, PoolReplaced
  <2>3. CASE ~(pool.next >= EvenGames(pool.job.games))
    <3>1. pools' = [pools EXCEPT ![who] = Took(pool, w)]
      BY <1>4, <2>3 DEF Fetch, Took, pool
    <3>2. PoolOK(Took(pool, w))
      BY <1>2, <1>3, <2>1, <2>3, TakeKeeps
    <3> QED BY <3>1, <3>2, PoolReplaced
  <2> QED BY <2>2, <2>3
<1>5. CASE PlayGame(who, w)
  <2>1. PICK clock \in Clocks : pool.at[w] # NoGame /\ pools' = [pools EXCEPT ![who] = Finishes(pool, w, clock)]
    BY <1>5 DEF PlayGame, pool
  <2>2. PoolOK(Finishes(pool, w, clock))
    BY <1>2, <1>3, <2>1, PlayKeeps
  <2> QED BY <2>1, <2>2, PoolReplaced
<1>6. CASE Panics(who, w)
  <2>1. pool.at[w] # NoGame /\ pools' = [pools EXCEPT ![who] = Lost(pool, w)]
    BY <1>6 DEF Panics, Lost, pool
  <2>2. PoolOK(Lost(pool, w))
    BY <1>2, <1>3, <2>1, LossKeeps
  <2> QED BY <2>1, <2>2, PoolReplaced
<1> QED BY <1>4, <1>5, <1>6

\* The gauntlet stage starts an instance.
LEMMA InstancePools ==
  ASSUME FilesInv, PoolsInv, StartInstance
  PROVE  PoolsInv'
<1>1. run.inv.games \in Nat /\ Knobs.jobs \in Nat
  BY AskedFor DEF FilesInv, StartInstance, AtPoint
<1> DEFINE side == [engine |-> "mcts", budget |-> [kind |-> "nodes", amount |-> 1]]
           games == EvenGames(run.inv.games)
           job == GauntletConfig(side, side, Dir.cand.net, Dir.champ, games, run.instance + 1, Knobs, Knobs.jobs, TRUE)
<1>2. games \in Nat
  BY <1>1, EvenIsEven
<1>3. pools' = pools \/ (ConfigIsValid(job) /\ pools' = [pools EXCEPT !["gate"] = PoolFor(job)])
  BY DEF StartInstance, NetGauntletJob
<1> HIDE DEF games, side
<1>4. ConfigIsValid(job) => IsJob(job)
  BY <1>1, <1>2, ConfigIsJob
<1> HIDE DEF job
<1>5. CASE pools' = pools
  BY <1>5 DEF PoolsInv
<1>6. CASE ConfigIsValid(job) /\ pools' = [pools EXCEPT !["gate"] = PoolFor(job)]
  <2>1. PoolOK(PoolFor(job))
    BY <1>4, <1>6, NewPool
  <2> QED BY <1>6, <2>1, PoolReplaced
<1> QED BY <1>3, <1>5, <1>6

\* Another user starts an arena.
LEMMA ArenaPools ==
  ASSUME PoolsInv, ArenaStarts
  PROVE  PoolsInv'
<1>1. PICK flags \in ArenaFlags : ArenaAccepts(flags) /\ pools' = [pools EXCEPT !["arena"] = PoolFor(ToConfig(flags))]
  BY DEF ArenaStarts
<1>2. flags.games \in Nat /\ flags.threads \in Nat
  BY AskedFor
<1>3. ConfigIsValid(ToConfig(flags))
  BY <1>1 DEF ArenaAccepts
<1>4. IsJob(ToConfig(flags))
  <2> DEFINE Spec0(side, budget) == [engine |-> side.engine, budget |-> IF budget = NoFlag THEN flags.budget ELSE budget]
             a == Spec0(flags.a, flags.budgetA)
             b == Spec0(flags.b, flags.budgetB)
             na == ResolveNet(flags.a, flags.aNet, flags.net)
             nb == ResolveNet(flags.b, flags.bNet, flags.net)
             fits == flags.board = 12
  <2>1. ToConfig(flags) = GauntletConfig(a, b, na, nb, flags.games, flags.seed, flags, flags.threads, fits)
    BY DEF ToConfig
  <2> HIDE DEF a, b, na, nb, fits
  <2> QED BY <1>2, <1>3, <2>1, ConfigIsJob
<1>5. PoolOK(PoolFor(ToConfig(flags)))
  BY <1>4, NewPool
<1> QED BY <1>1, <1>5, PoolReplaced

\* The invariant of the pools.
LEMMA PoolsInvInductive == GenSpec => []PoolsInv
<1>1. GenInit => PoolsInv
  BY DEF GenInit, PoolsInv
<1>2. FilesInv /\ PoolsInv /\ [GenNext]_genVars => PoolsInv'
  <2> SUFFICES ASSUME FilesInv, PoolsInv, [GenNext]_genVars PROVE PoolsInv'
    OBVIOUS
  <2>1. ASSUME pools' = pools PROVE PoolsInv'
    BY <2>1 DEF PoolsInv
  <2>2. CASE ScriptSteps
    <3>1. CASE StartInstance
      BY <3>1, InstancePools
    <3>2. CASE EndInstance
      BY <3>2, PoolReplaced DEF EndInstance
    <3>3. CASE \E i \in Shards : ShardPlays(i)
      BY <2>1, <3>3 DEF ShardPlays
    <3>4. CASE Invoke \/ SnapshotChampion \/ Copied \/ ClearStamp \/ Dispatch \/ Until \/ LaunchShards \/ Waited \/ Concatenate
      BY <2>1, <3>4 DEF Invoke, SnapshotChampion, Copied, ClearStamp, Dispatch, Until, LaunchShards, Waited, Concatenate
    <3>5. CASE Validate \/ StartTraining \/ Trained \/ CheckCandidate \/ PurgeLogs \/ GauntletDone \/ Report
      BY <2>1, <3>5 DEF Validate, StartTraining, Trained, CheckCandidate, PurgeLogs, GauntletDone, Report
    <3>6. CASE Autoscale \/ TakeLock \/ SetTrap \/ GiveLockBack
      BY <2>1, <3>6 DEF Autoscale, TakeLock, SetTrap, GiveLockBack
    <3> QED BY <2>2, <3>1, <3>2, <3>3, <3>4, <3>5, <3>6 DEF ScriptSteps
  <2>3. CASE BoxSteps
    <3>1. CASE ArenaStarts
      BY <3>1, ArenaPools
    <3>2. CASE ArenaEnds
      BY <3>2, PoolReplaced DEF ArenaEnds
    <3>3. CASE Killed \/ Terminated
      BY <3>3, PoolReplaced DEF Killed, Terminated, Interrupted
    <3>4. ASSUME NEW who \in {"gate", "arena"}, NEW w \in 1..2, WorkerSteps(who, w) \/ WorkerPanics(who, w)
          PROVE  PoolsInv'
      BY <3>4, WorkerKeeps DEF WorkerSteps, WorkerPanics
    <3>5. CASE \/ ToolFails \/ ConcatenateFails \/ ContainerEnds \/ Promote \/ OtherTakes \/ OtherReleases
               \/ \E i \in Shards : ShardFails(i)
      BY <2>1, <3>5 DEF ToolFails, ConcatenateFails, ContainerEnds, Promote, OtherTakes, OtherReleases, ShardFails
    <3> QED BY <2>3, <3>1, <3>2, <3>3, <3>4, <3>5 DEF BoxSteps
  <2>4. CASE UNCHANGED genVars
    BY <2>1, <2>4 DEF genVars
  <2> QED BY <2>2, <2>3, <2>4 DEF GenNext
<1> QED BY <1>1, <1>2, FilesInvInductive, PTL DEF GenSpec

\* However many threads share a gauntlet and in whatever order they take and finish its games: one
\* that ends without a panic has every index of an even number once, by index; and where no side
\* plays by the clock, the same run with its sides exchanged tallies the opposite (PairsCancel;
\* run_with_nets and play_game_with_nets).
THEOREM PairsAlwaysCancel == GenSpec => []PairsCancel
<1>1. PoolsInv => PairsCancel
  <2> SUFFICES ASSUME PoolsInv, NEW who \in DOMAIN pools,
                      pools[who].live, AllEnded(pools[who]), ~RunFailed(pools[who])
               PROVE  LET job == pools[who].job
                          games == Collected(pools[who])
                      IN  /\ IsComplete(job, games)
                          /\ Reproducible(job) =>
                               Cancels(job, Tally(games),
                                       Tally([k \in DOMAIN games |-> GameResult(Swapped(job), k - 1, NoClock)]))
    BY DEF PairsCancel
  <2>1. PoolOK(pools[who])
    BY DEF PoolsInv, Idle
  <2> QED BY <2>1, FinishedIsComplete, FinishedCancels
<1> QED BY <1>1, PoolsInvInductive, PTL

-----------------------------------------------------------------------------
(* The control arm *)

\* The fields of a game under way.
Fields == DOMAIN GameStart

\* A pass over a position that is judged.
Judges(s, t, position, row, streaks, fires, control) ==
  /\ t.searches = s.searches + 1 /\ t.streaks = streaks
  /\ t.would = IF fires THEN [side |-> position.mover, at |-> s.ply] ELSE s.would
  /\ t.resigned = IF fires /\ ~control THEN position.mover ELSE s.resigned
  /\ t.rows = IF Len(position.visits) > 1 THEN Append(s.rows, row) ELSE s.rows
  /\ t.stopped = ((fires /\ ~control) \/ ~position.chosen)
  /\ t.capped = ~((fires /\ ~control) \/ ~position.chosen)
  /\ t.ply = IF (fires /\ ~control) \/ ~position.chosen THEN s.ply ELSE s.ply + 1

\* A pass over a position where the game ends unsearched, or without an action.
EndsUnjudged(s, t, position) ==
  /\ t.searches = (IF position.over THEN s.searches ELSE s.searches + 1)
  /\ t.streaks = s.streaks /\ t.would = s.would /\ t.resigned = s.resigned /\ t.rows = s.rows
  /\ t.stopped = TRUE /\ t.capped = FALSE /\ t.ply = s.ply

\* What a pass does.
LEMMA PassDoes ==
  ASSUME NEW s, DOMAIN s = Fields, NEW g, NEW position, NEW rules, NEW gumbel, NEW control
  PROVE  LET t == Ply(s, g, position, rules, gumbel, control)
             streaks == IF rules.on THEN Observe(s.streaks, position, rules) ELSE s.streaks
         IN  /\ DOMAIN t = Fields
             /\ s.stopped => t = s
             /\ (~s.stopped /\ ~IsSearched(position)) => EndsUnjudged(s, t, position)
             /\ (~s.stopped /\ IsSearched(position)) =>
                  Judges(s, t, position, Row(g, position, s.ply, gumbel), streaks, Firing(s, streaks, position, rules), control)
<1> DEFINE t == Ply(s, g, position, rules, gumbel, control)
           streaks == IF rules.on THEN Observe(s.streaks, position, rules) ELSE s.streaks
           fires == Firing(s, streaks, position, rules)
           row == Row(g, position, s.ply, gumbel)
<1>1. s.stopped => t = s
  BY DEF Ply
<1>2. ASSUME ~s.stopped, ~IsSearched(position)
      PROVE  DOMAIN t = Fields /\ EndsUnjudged(s, t, position)
  <2>1. CASE position.over
    <3>1. t = [s EXCEPT !.capped = FALSE, !.stopped = TRUE]
      BY <1>2, <2>1 DEF Ply
    <3> HIDE DEF t
    <3> QED BY <2>1, <3>1 DEF EndsUnjudged, Fields, GameStart
  <2>2. CASE ~position.over
    <3>1. t = [s EXCEPT !.searches = @ + 1, !.capped = FALSE, !.stopped = TRUE]
      BY <1>2, <2>2 DEF Ply, IsSearched
    <3> HIDE DEF t
    <3> QED BY <2>2, <3>1 DEF EndsUnjudged, Fields, GameStart
  <2> QED BY <2>1, <2>2
<1>3. ASSUME ~s.stopped, IsSearched(position)
      PROVE  DOMAIN t = Fields /\ Judges(s, t, position, row, streaks, fires, control)
  <2>1. t = Searched(s, position, row, streaks, fires, control)
    BY <1>3 DEF Ply, IsSearched
  <2> HIDE DEF t, row, streaks, fires
  <2> QED BY <2>1 DEF Searched, Judges, Fields, GameStart
<1>4. DOMAIN t = Fields
  BY <1>1, <1>2, <1>3
<1> QED BY <1>1, <1>2, <1>3, <1>4

\* A script whose positions are a game's.
ScriptOK(script) ==
  /\ Len(script) \in Nat \ {0} /\ DOMAIN script = 1..Len(script)
  /\ \A k \in 1..Len(script) : script[k].mover \in 1..2
  /\ \A k \in 1..Len(script) : IsSearched(script[k]) => Len(script[k].visits) \in Nat

\* As many positions as are played.
Length(script) == IF Len(script) < PlyCeiling THEN Len(script) ELSE PlyCeiling

LEMMA ScriptsAreOK ==
  ASSUME NEW net \in DOMAIN Script, NEW g \in 0..(GameCount - 1)
  PROVE  ScriptOK(Script[net][g]) /\ Length(Script[net][g]) \in Nat /\ Length(Script[net][g]) <= Len(Script[net][g])
<1> DEFINE script == Script[net][g]
<1>1. script \in Seq({script[k] : k \in DOMAIN script}) /\ script # <<>> /\ PlyCeiling \in Nat
  BY SelfPlayAssumption
<1>2. Len(script) \in Nat \ {0} /\ DOMAIN script = 1..Len(script)
  <2> DEFINE R == {script[k] : k \in DOMAIN script}
  <2>1. script \in Seq(R)
    BY <1>1
  <2> HIDE DEF script, R
  <2> QED BY <1>1, <2>1, LenProperties, EmptySeq
<1>3. \A k \in DOMAIN script : script[k].mover \in 1..2 /\ (IsSearched(script[k]) => SearchReports(script[k]))
  BY SelfPlayAssumption DEF IsSearched
<1>4. \A k \in DOMAIN script : IsSearched(script[k]) => Len(script[k].visits) \in Nat
  BY <1>3, LenProperties DEF SearchReports
<1> HIDE DEF script
<1>5. ScriptOK(script)
  BY <1>2, <1>3, <1>4 DEF ScriptOK
<1>6. Length(script) \in Nat /\ Length(script) <= Len(script)
  BY <1>1, <1>2 DEF Length
<1> QED BY <1>5, <1>6 DEF script

\* There are finitely many positions, with a choice or on a trail.
LEMMA TrailFinite ==
  ASSUME NEW script, NEW k \in Nat
  PROVE  /\ \A seat, threshold : IsFiniteSet(Trail(script, k, seat, threshold))
         /\ IsFiniteSet(Unforced(script, k))
<1>1. IsFiniteSet(Upto(k))
  BY UptoFinite
<1>2. \A seat, threshold : Trail(script, k, seat, threshold) \subseteq Upto(k)
  BY DEF Trail, Upto
<1>3. Unforced(script, k) \subseteq Upto(k)
  BY DEF Unforced, Upto
<1> QED BY <1>1, <1>2, <1>3, FS_Subset

\* The trail of a seat grows with a hopeless position of its own, ends with another of them, and
\* is left alone by the other seat's.
LEMMA TrailGrows ==
  ASSUME NEW script, ScriptOK(script), NEW k \in Nat, k < Len(script), NEW seat, NEW threshold
  PROVE  /\ Trail(script, k + 1, seat, threshold) =
              IF script[k + 1].mover # seat THEN Trail(script, k, seat, threshold)
              ELSE IF Hopeless(seat, script[k + 1].value, threshold) THEN Trail(script, k, seat, threshold) \cup {k + 1}
              ELSE {}
         /\ k + 1 \notin Trail(script, k, seat, threshold)
         /\ IsFiniteSet(Trail(script, k, seat, threshold))
<1> DEFINE Mine(i) == script[i].mover = seat
           Bad(i) == Hopeless(seat, script[i].value, threshold)
           T == Trail(script, k, seat, threshold)
           U == Trail(script, k + 1, seat, threshold)
<1>1. T = {j \in 1..k : Mine(j) /\ \A i \in j..k : Mine(i) => Bad(i)}
  BY DEF Trail
<1>2. U = {j \in 1..(k + 1) : Mine(j) /\ \A i \in j..(k + 1) : Mine(i) => Bad(i)}
  BY DEF Trail
<1> HIDE DEF T, U, Mine, Bad
<1>3. \A j \in 1..k : \A i : i \in j..(k + 1) <=> i \in j..k \/ i = k + 1
  OBVIOUS
<1>4. 1..(k + 1) = 1..k \cup {k + 1} /\ k + 1 \notin 1..k /\ \A i : i \in (k + 1)..(k + 1) <=> i = k + 1
  OBVIOUS
<1>5. CASE ~Mine(k + 1)
  <2>1. U = T
    BY <1>1, <1>2, <1>3, <1>4, <1>5
  <2> QED BY <1>1, <1>4, <1>5, <2>1, TrailFinite DEF Mine, T, U
<1>6. CASE Mine(k + 1) /\ Bad(k + 1)
  <2>1. U = T \cup {k + 1}
    BY <1>1, <1>2, <1>3, <1>4, <1>6
  <2> QED BY <1>1, <1>4, <1>6, <2>1, TrailFinite DEF Mine, Bad, T, U
<1>7. CASE Mine(k + 1) /\ ~Bad(k + 1)
  <2>1. \A j \in 1..(k + 1) : k + 1 \in j..(k + 1)
    OBVIOUS
  <2>2. U = {}
    BY <1>2, <1>7, <2>1
  <2> QED BY <1>1, <1>4, <1>7, <2>2, TrailFinite DEF Mine, Bad, T, U
<1> QED BY <1>5, <1>6, <1>7

\* The rule fires at k.
FiresIn(script, rules, k) == Cardinality(Trail(script, k, script[k].mover, rules.threshold)) >= rules.plies

\* FiresAt is the first position judged where the rule fires.
LEMMA FirstFiring ==
  ASSUME NEW script, NEW rules
  PROVE  LET F == FiresAt(script, rules)
         IN  \/ F = 0 /\ \A j \in Judged(script) : ~FiresIn(script, rules, j)
             \/ F \in Judged(script) /\ FiresIn(script, rules, F)
                /\ \A j \in Judged(script) : FiresIn(script, rules, j) => F <= j
<1> DEFINE firing == {k \in Judged(script) : FiresIn(script, rules, k)}
           F == FiresAt(script, rules)
<1>1. F = IF firing = {} THEN 0 ELSE CHOOSE k \in firing : \A j \in firing : k <= j
  BY DEF FiresAt, FiresIn
<1>2. firing \subseteq Nat
  BY DEF Judged
<1>3. CASE firing = {}
  BY <1>1, <1>3
<1>4. CASE firing # {}
  <2>1. \E k \in firing : \A j \in firing : k <= j
    <3> HIDE DEF firing
    <3> QED BY <1>2, <1>4, LeastNumber
  <2>2. F \in firing /\ \A j \in firing : F <= j
    <3> HIDE DEF firing, F
    <3> QED BY <1>1, <1>4, <2>1
  <2> QED BY <2>2
<1> QED BY <1>3, <1>4

\* All of the first k positions are searched and moved on from.
Onward(script, k) == \A j \in 1..k : IsSearched(script[j]) /\ script[j].chosen

\* What is judged, one position further.
LEMMA JudgedNext ==
  ASSUME NEW script, NEW k \in Nat, Length(script) \in Nat, k < Length(script), Onward(script, k)
  PROVE  /\ k + 1 \in Judged(script) <=> IsSearched(script[k + 1])
         /\ ~IsSearched(script[k + 1]) => Judged(script) \subseteq 1..k
         /\ ~script[k + 1].chosen => Judged(script) \subseteq 1..(k + 1)
         /\ (IsSearched(script[k + 1]) /\ script[k + 1].chosen) => Onward(script, k + 1)
<1>1. Judged(script) = {j \in 1..Length(script) : IsSearched(script[j])
                                                  /\ \A i \in 1..(j - 1) : IsSearched(script[i]) /\ script[i].chosen}
  BY DEF Judged, Length
<1>2. k + 1 \in 1..Length(script) /\ k + 1 - 1 = k
  OBVIOUS
<1>3. k + 1 \in Judged(script) <=> IsSearched(script[k + 1])
  BY <1>1, <1>2 DEF Onward
<1>4. ASSUME NEW j \in Judged(script), ~(j \in 1..k)
      PROVE  IsSearched(script[k + 1]) /\ (j \in 1..(k + 1) \/ script[k + 1].chosen)
  <2>1. j \in 1..Length(script) /\ (j = k + 1 \/ k + 1 \in 1..(j - 1))
    BY <1>1, <1>4
  <2> QED BY <1>1, <2>1
<1>5. \A j : j \in 1..(k + 1) <=> j \in 1..k \/ j = k + 1
  OBVIOUS
<1> QED BY <1>3, <1>4, <1>5 DEF Onward

\* A choice more, or none.
LEMMA UnforcedNext ==
  ASSUME NEW script, NEW k \in Nat
  PROVE  Cardinality(Unforced(script, k + 1)) =
           Cardinality(Unforced(script, k)) + (IF Len(script[k + 1].visits) > 1 THEN 1 ELSE 0)
<1> DEFINE S == Unforced(script, k)
           T == Unforced(script, k + 1)
           new == k + 1
<1>1. \A j : j \in 1..(k + 1) <=> j \in 1..k \/ j = k + 1
  OBVIOUS
<1>2. T = IF Len(script[k + 1].visits) > 1 THEN S \cup {new} ELSE S
  BY <1>1 DEF Unforced
<1>3. new \notin S /\ IsFiniteSet(S)
  BY TrailFinite DEF Unforced
<1> HIDE DEF S, T, new
<1>4. Cardinality(S \cup {new}) = Cardinality(S) + 1
  BY <1>3, FS_AddElement
<1>5. Cardinality(S) \in Nat
  BY <1>3, FS_CardinalityType
<1> QED BY <1>2, <1>4, <1>5 DEF S, T

\* What a row more leaves of the others.
LEMMA AppendGrows ==
  ASSUME NEW X, NEW q \in Seq(X), NEW r
  PROVE  /\ Len(q) \in Nat /\ Len(Append(q, r)) = Len(q) + 1
         /\ \A i \in 1..Len(q) : Append(q, r)[i] = q[i]
         /\ Append(q, r)[Len(q) + 1] = r
OBVIOUS

\* The counters of the seats, at ply k.
StreaksAre(streaks, script, rules, k) ==
  rules.on => /\ DOMAIN streaks = 1..2
              /\ \A seat \in 1..2 : streaks[seat] = Cardinality(Trail(script, k, seat, rules.threshold))

\* The counter of the mover counts its trail, and the other is left alone.
LEMMA StreaksCount ==
  ASSUME NEW script, ScriptOK(script), NEW k \in Nat, k < Len(script), NEW rules,
         NEW streaks, StreaksAre(streaks, script, rules, k)
  PROVE  StreaksAre(IF rules.on THEN Observe(streaks, script[k + 1], rules) ELSE streaks, script, rules, k + 1)
<1> SUFFICES ASSUME rules.on PROVE StreaksAre(Observe(streaks, script[k + 1], rules), script, rules, k + 1)
  BY DEF StreaksAre
<1> DEFINE m == script[k + 1].mover
           bad == Hopeless(m, script[k + 1].value, rules.threshold)
           T(seat) == Trail(script, k, seat, rules.threshold)
           U(seat) == Trail(script, k + 1, seat, rules.threshold)
           new == k + 1
<1>1. DOMAIN streaks = 1..2 /\ \A seat \in 1..2 : streaks[seat] = Cardinality(T(seat))
  BY DEF StreaksAre
<1>2. m \in 1..2
  BY DEF ScriptOK
<1>3. \A seat \in 1..2 : /\ U(seat) = IF m # seat THEN T(seat) ELSE IF bad THEN T(seat) \cup {new} ELSE {}
                         /\ new \notin T(seat) /\ IsFiniteSet(T(seat))
  <2> TAKE seat \in 1..2
  <2> DEFINE threshold == rules.threshold
             own == Hopeless(seat, script[k + 1].value, threshold)
  <2>1. Trail(script, k + 1, seat, threshold) =
          (IF m # seat THEN Trail(script, k, seat, threshold)
           ELSE IF own THEN Trail(script, k, seat, threshold) \cup {new} ELSE {})
        /\ new \notin Trail(script, k, seat, threshold) /\ IsFiniteSet(Trail(script, k, seat, threshold))
    <3> HIDE DEF threshold
    <3> QED BY TrailGrows
  <2>2. m = seat => own = bad
    OBVIOUS
  <2> HIDE DEF m, bad, own, new
  <2> QED BY <2>1, <2>2
<1>4. Observe(streaks, script[k + 1], rules) = [streaks EXCEPT ![m] = IF bad THEN @ + 1 ELSE 0]
  BY DEF Observe
<1> HIDE DEF m, bad, T, U, new
<1>5. \A seat \in 1..2 : Cardinality(U(seat)) = IF m # seat THEN Cardinality(T(seat))
                                                ELSE IF bad THEN Cardinality(T(seat)) + 1 ELSE 0
  <2> TAKE seat \in 1..2
  <2>1. Cardinality(T(seat) \cup {new}) = Cardinality(T(seat)) + 1
    BY <1>3, FS_AddElement
  <2> QED BY <1>3, <2>1, FS_EmptySet
<1>6. StreaksAre([streaks EXCEPT ![m] = IF bad THEN @ + 1 ELSE 0], script, rules, k + 1)
  <2>1. \A seat \in 1..2 : Cardinality(U(seat)) = Cardinality(Trail(script, k + 1, seat, rules.threshold))
    BY DEF U
  <2> QED BY <1>1, <1>2, <1>5, <2>1 DEF StreaksAre
<1> QED BY <1>4, <1>6

\* What is marked after k positions, when the rule fires at F.
Marked(script, F, k) == IF F \in 1..k THEN [side |-> script[F].mover, at |-> F - 1] ELSE NoPly

LEMMA MarkedOnce ==
  ASSUME NEW script, ScriptOK(script), NEW k \in Nat, k <= Len(script), NEW F
  PROVE  Marked(script, F, k) = NoPly <=> F \notin 1..k
<1>1. ASSUME F \in 1..k PROVE [side |-> script[F].mover, at |-> F - 1] # NoPly
  <2>1. script[F].mover \in 1..2 /\ F - 1 \in Nat
    BY <1>1 DEF ScriptOK
  <2> DEFINE at == F - 1
             side == script[F].mover
  <2> HIDE DEF at, side
  <2>2. [side |-> side, at |-> at] \in [side : 1..2, at : Nat]
    BY <2>1 DEF at, side
  <2> QED BY <2>2, SelfPlayAssumption DEF at, side
<1> QED BY <1>1 DEF Marked

\* In a game that moved on from its first k positions, the next one fires exactly when it is the
\* first that does.
LEMMA FiresHere ==
  ASSUME NEW script, ScriptOK(script), NEW k \in Nat, Length(script) \in Nat, k < Length(script), Length(script) <= Len(script),
         Onward(script, k), IsSearched(script[k + 1]), NEW rules, rules.on, NEW streaks,
         StreaksAre(streaks, script, rules, k + 1), NEW t, t.would = Marked(script, FiresAt(script, rules), k)
  PROVE  Firing(t, streaks, script[k + 1], rules) <=> FiresAt(script, rules) = k + 1
<1> DEFINE F == FiresAt(script, rules)
           new == k + 1
<1>1. new \in Judged(script) /\ new \in Nat /\ new \in 1..Len(script) /\ ~(new <= k)
  BY JudgedNext
<1>2. t.would = NoPly <=> F \notin 1..k
  BY MarkedOnce
<1>3. streaks[script[new].mover] = Cardinality(Trail(script, new, script[new].mover, rules.threshold))
  BY <1>1 DEF StreaksAre, ScriptOK
<1>4. streaks[script[new].mover] >= rules.plies <=> FiresIn(script, rules, new)
  BY <1>3 DEF FiresIn
<1>5. Judged(script) \subseteq Nat \ {0}
  BY DEF Judged
<1>6. \/ F = 0 /\ \A j \in Judged(script) : ~FiresIn(script, rules, j)
      \/ F \in Judged(script) /\ FiresIn(script, rules, F) /\ \A j \in Judged(script) : FiresIn(script, rules, j) => F <= j
  BY FirstFiring
<1>7. Firing(t, streaks, script[new], rules) <=> FiresIn(script, rules, new) /\ F \notin 1..k
  BY <1>2, <1>4 DEF Firing
<1> HIDE DEF F
<1>8. FiresIn(script, rules, new) /\ F \notin 1..k => F = new
  <2> SUFFICES ASSUME FiresIn(script, rules, new), F \notin 1..k PROVE F = new
    OBVIOUS
  <2>1. F \in Nat \ {0} /\ F <= new
    BY <1>1, <1>5, <1>6
  <2> QED BY <2>1
<1>9. F = new => FiresIn(script, rules, new) /\ F \notin 1..k
  BY <1>1, <1>5, <1>6
<1> QED BY <1>7, <1>8, <1>9 DEF F

\* The rows agree in where they are from.
SamePlies(q, r) == \A i \in 1..Len(r) : q[i].ply = r[i].ply

\* The game played out and the game under the rule, as long as nothing has been cut.
Alike(s, t, script, rules, k) ==
  /\ t.stopped = s.stopped /\ t.ply = s.ply /\ t.searches = s.searches /\ t.resigned = 0 /\ t.capped = s.capped
  /\ Len(t.rows) = Len(s.rows) /\ SamePlies(s.rows, t.rows)
  /\ IF s.stopped THEN Judged(script) \subseteq 1..k
     ELSE /\ Onward(script, k) /\ StreaksAre(t.streaks, script, rules, k)
          /\ Len(s.rows) = Cardinality(Unforced(script, k))

\* The game cut where the rule fires.
CutShort(s, t, script, F) ==
  /\ t.stopped = TRUE /\ t.resigned = script[F].mover
  /\ Len(t.rows) = Cardinality(Unforced(script, F)) /\ Len(t.rows) <= Len(s.rows) /\ SamePlies(s.rows, t.rows)

\* A game played out, position by position.
GoesOut(s, k) == s.resigned = 0 /\ s.ply \in Nat /\ s.searches \in Nat /\ (~s.stopped => s.ply = k)

\* The twins: the same game played out and under the rule, after k positions.
Twins(s, t, script, rules, control, k) ==
  LET F == FiresAt(script, rules)
  IN  /\ GoesOut(s, k) /\ t.would = Marked(script, F, k)
      /\ IF F \in 1..k /\ ~control THEN CutShort(s, t, script, F) ELSE Alike(s, t, script, rules, k)

\* A row of each more, of the same ply.
LEMMA BothGrow ==
  ASSUME NEW X, NEW Y, NEW q \in Seq(X), NEW r \in Seq(Y), NEW a, NEW b, a.ply = b.ply, Len(r) = Len(q), SamePlies(q, r)
  PROVE  Len(Append(q, a)) = Len(q) + 1 /\ Len(Append(r, b)) = Len(q) + 1 /\ SamePlies(Append(q, a), Append(r, b))
<1> DEFINE qa == Append(q, a)
           rb == Append(r, b)
           n == Len(q)
<1>1. n \in Nat /\ Len(qa) = n + 1 /\ Len(rb) = n + 1 /\ qa[n + 1] = a /\ rb[n + 1] = b
      /\ \A i \in 1..n : qa[i] = q[i] /\ rb[i] = r[i]
  BY AppendGrows
<1>2. \A i \in 1..n : q[i].ply = r[i].ply
  BY DEF SamePlies
<1> HIDE DEF qa, rb, n
<1>3. \A i \in 1..(n + 1) : i \in 1..n \/ i = n + 1
  BY <1>1
<1>4. SamePlies(qa, rb)
  BY <1>1, <1>2, <1>3 DEF SamePlies
<1> QED BY <1>1, <1>4 DEF qa, rb, n

\* A row more of the longer.
LEMMA OneGrows ==
  ASSUME NEW X, NEW Y, NEW q \in Seq(X), NEW r \in Seq(Y), NEW a, Len(r) <= Len(q), SamePlies(q, r)
  PROVE  Len(r) <= Len(Append(q, a)) /\ SamePlies(Append(q, a), r)
<1>1. Len(q) \in Nat /\ Len(r) \in Nat /\ Len(Append(q, a)) = Len(q) + 1 /\ \A i \in 1..Len(q) : Append(q, a)[i] = q[i]
  BY AppendGrows
<1>2. \A i \in 1..Len(r) : i \in 1..Len(q)
  BY <1>1
<1> QED BY <1>1, <1>2 DEF SamePlies

\* A game played out goes on being played out.
LEMMA OutGoes ==
  ASSUME NEW s, DOMAIN s = Fields, NEW k \in Nat, GoesOut(s, k), NEW g, NEW position, NEW rules, ~rules.on, NEW gumbel
  PROVE  GoesOut(Ply(s, g, position, rules, gumbel, FALSE), k + 1)
<1> DEFINE t == Ply(s, g, position, rules, gumbel, FALSE)
           streaks == IF rules.on THEN Observe(s.streaks, position, rules) ELSE s.streaks
           fires == Firing(s, streaks, position, rules)
<1>1. /\ s.stopped => t = s
      /\ (~s.stopped /\ ~IsSearched(position)) => EndsUnjudged(s, t, position)
      /\ (~s.stopped /\ IsSearched(position)) =>
           Judges(s, t, position, Row(g, position, s.ply, gumbel), streaks, fires, FALSE)
  BY PassDoes
<1>2. ~fires
  BY DEF Firing
<1> HIDE DEF t, fires, streaks
<1>3. CASE s.stopped
  BY <1>1, <1>3 DEF GoesOut, t
<1>4. CASE ~s.stopped /\ ~IsSearched(position)
  <2>1. EndsUnjudged(s, t, position)
    BY <1>1, <1>4
  <2>2. t.stopped /\ t.ply = s.ply /\ t.resigned = s.resigned /\ (t.searches = s.searches \/ t.searches = s.searches + 1)
    BY <2>1, Zenon DEF EndsUnjudged
  <2>3. GoesOut(t, k + 1)
    BY <2>2 DEF GoesOut
  <2> QED BY <2>3 DEF t
<1>5. CASE ~s.stopped /\ IsSearched(position)
  <2>1. Judges(s, t, position, Row(g, position, s.ply, gumbel), streaks, fires, FALSE)
    BY <1>1, <1>5
  <2>2. ((t.stopped /\ t.ply = s.ply) \/ t.ply = s.ply + 1) /\ t.searches = s.searches + 1 /\ t.resigned = s.resigned
    BY <1>2, <2>1, Zenon DEF Judges
  <2>3. GoesOut(t, k + 1)
    BY <1>5, <2>2 DEF GoesOut
  <2> QED BY <2>3 DEF t
<1> QED BY <1>3, <1>4, <1>5

\* No arm, no rule, no noise.
Off == [on |-> FALSE]

\* What a pass of the game played out makes of its rows.
LEMMA OutRows ==
  ASSUME NEW s, DOMAIN s = Fields, NEW X, s.rows \in Seq(X), NEW g, NEW position
  PROVE  LET u == Ply(s, g, position, Off, Off, FALSE)
         IN  u.rows = s.rows \/ \E row : u.rows = Append(s.rows, row)
<1> DEFINE u == Ply(s, g, position, Off, Off, FALSE)
           row == Row(g, position, s.ply, Off)
           streaks == IF Off.on THEN Observe(s.streaks, position, Off) ELSE s.streaks
           fires == Firing(s, streaks, position, Off)
<1>1. /\ s.stopped => u = s
      /\ (~s.stopped /\ ~IsSearched(position)) => EndsUnjudged(s, u, position)
      /\ (~s.stopped /\ IsSearched(position)) => Judges(s, u, position, row, streaks, fires, FALSE)
  BY PassDoes
<1> HIDE DEF u, row, streaks, fires
<1>2. u.rows = s.rows \/ u.rows = Append(s.rows, row)
  BY <1>1, Zenon DEF EndsUnjudged, Judges
<1> QED BY <1>2 DEF u

\* A game that has been cut stays as it is while the other is played out.
LEMMA CutGoesOn ==
  ASSUME NEW s, DOMAIN s = Fields, NEW X, s.rows \in Seq(X), NEW t, NEW Y, t.rows \in Seq(Y),
         NEW script, NEW F, CutShort(s, t, script, F), NEW g, NEW position
  PROVE  CutShort(Ply(s, g, position, Off, Off, FALSE), t, script, F)
<1> DEFINE u == Ply(s, g, position, Off, Off, FALSE)
<1>1. u.rows = s.rows \/ \E row : u.rows = Append(s.rows, row)
  BY OutRows
<1> HIDE DEF u
<1>2. \A row : Len(t.rows) <= Len(Append(s.rows, row)) /\ SamePlies(Append(s.rows, row), t.rows)
  BY OneGrows DEF CutShort
<1>3. CutShort(u, t, script, F)
  BY <1>1, <1>2 DEF CutShort
<1> QED BY <1>3 DEF u

\* Twins that have not been cut, and what a pass makes of each.
Passed(s, t, u, v, script, g, rules, gumbel, control, k) ==
  /\ DOMAIN s = Fields /\ DOMAIN t = Fields
  /\ s.rows \in Seq(RowsOf(script, g, Off)) /\ t.rows \in Seq(RowsOf(script, g, gumbel))
  /\ Alike(s, t, script, rules, k) /\ GoesOut(s, k)
  /\ u = Ply(s, g, script[k + 1], Off, Off, FALSE)
  /\ v = Ply(t, g, script[k + 1], rules, gumbel, control)

\* Twins that have stopped, or come to a position that is not searched, end there together.
LEMMA EndAlike ==
  ASSUME NEW script, NEW k \in Nat, Length(script) \in Nat, k < Length(script),
         NEW s, NEW t, NEW u, NEW v, NEW g, NEW rules, NEW gumbel, NEW control,
         Passed(s, t, u, v, script, g, rules, gumbel, control, k),
         s.stopped \/ ~IsSearched(script[k + 1])
  PROVE  Alike(u, v, script, rules, k + 1) /\ v.would = t.would /\ Judged(script) \subseteq 1..k
<1>1. (s.stopped => u = s) /\ (~s.stopped => EndsUnjudged(s, u, script[k + 1]))
  BY PassDoes DEF Passed
<1>2. (t.stopped => v = t) /\ (~t.stopped => EndsUnjudged(t, v, script[k + 1]))
  BY PassDoes DEF Passed, Alike
<1>3. 1..k \subseteq 1..(k + 1)
  OBVIOUS
<1>4. CASE s.stopped
  BY <1>1, <1>2, <1>3, <1>4, Zenon DEF Passed, Alike
<1>5. CASE ~s.stopped
  <2>1. EndsUnjudged(s, u, script[k + 1]) /\ EndsUnjudged(t, v, script[k + 1]) /\ Alike(s, t, script, rules, k)
    BY <1>1, <1>2, <1>5, Zenon DEF Passed, Alike
  <2>2. Onward(script, k)
    BY <1>5, <2>1, Zenon DEF Alike
  <2>3. Judged(script) \subseteq 1..k /\ Judged(script) \subseteq 1..(k + 1)
    BY <1>3, <1>5, <2>2, JudgedNext
  <2>4. Alike(u, v, script, rules, k + 1) /\ v.would = t.would
    BY <2>1, <2>3, Zenon DEF Alike, EndsUnjudged
  <2> QED BY <2>3, <2>4
<1> QED BY <1>4, <1>5

\* What a pass over a position that is searched makes of the twins.
LEMMA BothJudge ==
  ASSUME NEW script, NEW k \in Nat,
         NEW s, NEW t, NEW u, NEW v, NEW g, NEW rules, rules.on, NEW gumbel, NEW control,
         Passed(s, t, u, v, script, g, rules, gumbel, control, k),
         ~s.stopped, IsSearched(script[k + 1]), ScriptOK(script), Length(script) \in Nat, k < Length(script),
         Length(script) <= Len(script), t.would = Marked(script, FiresAt(script, rules), k)
  PROVE  \E streaks, fires :
           /\ Judges(s, u, script[k + 1], Row(g, script[k + 1], s.ply, Off), s.streaks, FALSE, FALSE)
           /\ Judges(t, v, script[k + 1], Row(g, script[k + 1], t.ply, gumbel), streaks, fires, control)
           /\ fires \in BOOLEAN /\ (fires <=> FiresAt(script, rules) = k + 1)
           /\ StreaksAre(streaks, script, rules, k + 1)
<1> DEFINE position == script[k + 1]
           none == IF Off.on THEN Observe(s.streaks, position, Off) ELSE s.streaks
           never == Firing(s, none, position, Off)
           streaks == IF rules.on THEN Observe(t.streaks, position, rules) ELSE t.streaks
           fires == Firing(t, streaks, position, rules)
<1>1. Judges(s, u, position, Row(g, position, s.ply, Off), none, never, FALSE)
  BY PassDoes DEF Passed
<1>2. none = s.streaks /\ never = FALSE
  BY DEF Off, Firing
<1>3. ~t.stopped /\ Onward(script, k) /\ StreaksAre(t.streaks, script, rules, k)
  BY DEF Passed, Alike
<1>4. Judges(t, v, position, Row(g, position, t.ply, gumbel), streaks, fires, control)
  BY <1>3, PassDoes DEF Passed
<1>5. StreaksAre(streaks, script, rules, k + 1)
  <2>1. k < Len(script)
    BY DEF ScriptOK
  <2> QED BY <1>3, <2>1, StreaksCount
<1> HIDE DEF streaks
<1>6. fires <=> FiresAt(script, rules) = k + 1
  BY <1>3, <1>5, FiresHere
<1>7. fires \in BOOLEAN
  BY DEF Firing
<1>8. Judges(s, u, position, Row(g, position, s.ply, Off), s.streaks, FALSE, FALSE)
  BY <1>1, <1>2
<1> HIDE DEF fires, position, none, never
<1> QED BY <1>4, <1>5, <1>6, <1>7, <1>8 DEF position

\* Twins that come to a position that is searched go on alike, unless the rule fires there and
\* cuts one of them.
LEMMA SearchAlike ==
  ASSUME NEW script, NEW k \in Nat,
         NEW s, NEW t, NEW u, NEW v, NEW g, NEW rules, rules.on, NEW gumbel, NEW control,
         Passed(s, t, u, v, script, g, rules, gumbel, control, k),
         ~s.stopped, IsSearched(script[k + 1]), ScriptOK(script), Length(script) \in Nat, k < Length(script),
         Length(script) <= Len(script), t.would = Marked(script, FiresAt(script, rules), k)
  PROVE  /\ IF FiresAt(script, rules) = k + 1 /\ ~control THEN CutShort(u, v, script, k + 1)
            ELSE Alike(u, v, script, rules, k + 1)
         /\ v.would = IF FiresAt(script, rules) = k + 1 THEN Marked(script, k + 1, k + 1) ELSE t.would
<1> DEFINE position == script[k + 1]
           F == FiresAt(script, rules)
           new == k + 1
           out == Row(g, position, s.ply, Off)
           row == Row(g, position, t.ply, gumbel)
<1>1. PICK streaks, fires :
         /\ Judges(s, u, position, out, s.streaks, FALSE, FALSE)
         /\ Judges(t, v, position, row, streaks, fires, control)
         /\ fires \in BOOLEAN /\ (fires <=> F = new) /\ StreaksAre(streaks, script, rules, new)
  BY BothJudge
<1>2. out.ply = s.ply /\ row.ply = t.ply /\ Len(position.visits) \in Nat
  BY DEF Row, ScriptOK
<1>3. /\ ~t.stopped /\ Onward(script, k)
      /\ Len(s.rows) = Cardinality(Unforced(script, k))
      /\ t.ply = s.ply /\ t.searches = s.searches /\ t.resigned = 0
      /\ Len(t.rows) = Len(s.rows) /\ SamePlies(s.rows, t.rows)
      /\ s.rows \in Seq(RowsOf(script, g, Off)) /\ t.rows \in Seq(RowsOf(script, g, gumbel))
  BY DEF Passed, Alike
<1>4. /\ position.chosen => Onward(script, new)
      /\ ~position.chosen => Judged(script) \subseteq 1..new
      /\ new \in Judged(script)
  BY JudgedNext, <1>3
<1>5. Cardinality(Unforced(script, new)) = Cardinality(Unforced(script, k)) + (IF Len(position.visits) > 1 THEN 1 ELSE 0)
  BY UnforcedNext
<1>6. script[new] = position /\ new \in Nat
  OBVIOUS
<1>7. Marked(script, new, new) = [side |-> position.mover, at |-> s.ply]
  <2>1. new \in 1..new /\ new - 1 = k
    OBVIOUS
  <2>2. s.ply = k
    BY DEF Passed, GoesOut
  <2> QED BY <2>1, <2>2 DEF Marked
<1> HIDE DEF position, F, new, out, row
<1>8. /\ Len(v.rows) = Cardinality(Unforced(script, new)) /\ Len(u.rows) = Len(v.rows)
      /\ SamePlies(u.rows, v.rows)
  <2>1. CASE Len(position.visits) > 1
    <3>1. u.rows = Append(s.rows, out) /\ v.rows = Append(t.rows, row)
      BY <1>1, <2>1, Zenon DEF Judges
    <3>2. Len(Append(s.rows, out)) = Len(s.rows) + 1 /\ Len(Append(t.rows, row)) = Len(s.rows) + 1
          /\ SamePlies(Append(s.rows, out), Append(t.rows, row))
      <4>1. out.ply = row.ply
        BY <1>2, <1>3
      <4> QED BY <1>3, <4>1, BothGrow
    <3> QED BY <1>3, <1>5, <2>1, <3>1, <3>2
  <2>2. CASE ~(Len(position.visits) > 1)
    <3>1. u.rows = s.rows /\ v.rows = t.rows
      BY <1>1, <2>2, Zenon DEF Judges
    <3>2. Len(s.rows) \in Nat
      BY <1>3, LenProperties
    <3> QED BY <1>3, <1>5, <2>2, <3>1, <3>2
  <2> QED BY <2>1, <2>2
<1>9. v.would = IF F = new THEN Marked(script, new, new) ELSE t.would
  BY <1>1, <1>3, <1>7, Zenon DEF Judges
<1>10. CASE F = new /\ ~control
  <2>1. v.stopped = TRUE /\ v.resigned = position.mover
    BY <1>1, <1>10, Zenon DEF Judges
  <2>2. Len(v.rows) <= Len(u.rows)
    BY <1>3, <1>5, <1>8
  <2>3. CutShort(u, v, script, new)
    BY <1>6, <1>8, <2>1, <2>2 DEF CutShort
  <2> QED BY <1>9, <1>10, <2>3 DEF F, new
<1>11. CASE ~(F = new /\ ~control)
  <2> DEFINE stops == (fires /\ ~control) \/ ~position.chosen
             ends == (FALSE /\ ~FALSE) \/ ~position.chosen
  <2>0. stops = ends /\ (ends <=> ~position.chosen)
    BY <1>1, <1>11
  <2>1. /\ v.stopped = stops /\ u.stopped = ends /\ v.capped = ~stops /\ u.capped = ~ends
        /\ v.searches = t.searches + 1 /\ u.searches = s.searches + 1
        /\ v.ply = (IF stops THEN t.ply ELSE t.ply + 1) /\ u.ply = (IF ends THEN s.ply ELSE s.ply + 1)
    BY <1>1, Zenon DEF Judges
  <2>2. v.resigned = 0
    BY <1>1, <1>3, <1>11, Zenon DEF Judges
  <2> HIDE DEF stops, ends
  <2>6. /\ v.stopped = u.stopped /\ v.capped = u.capped /\ v.searches = u.searches /\ v.ply = u.ply
    BY <1>3, <2>0, <2>1, Zenon
  <2>7. u.stopped <=> ~position.chosen
    BY <2>0, <2>1, Zenon
  <2>3. ASSUME position.chosen PROVE Alike(u, v, script, rules, new)
    <3>1. StreaksAre(v.streaks, script, rules, new)
      BY <1>1, Zenon DEF Judges
    <3>2. ~u.stopped /\ Onward(script, new)
      BY <1>4, <2>3, <2>7, Zenon
    <3>3. Len(u.rows) = Cardinality(Unforced(script, new))
      BY <1>8, Zenon
    <3> QED BY <1>8, <2>2, <2>6, <3>1, <3>2, <3>3 DEF Alike
  <2>4. ASSUME ~position.chosen PROVE Alike(u, v, script, rules, new)
    <3>1. u.stopped /\ Judged(script) \subseteq 1..new
      BY <1>4, <2>4, <2>7, Zenon
    <3> QED BY <1>8, <2>2, <2>6, <3>1, Zenon DEF Alike
  <2>5. Alike(u, v, script, rules, new)
    BY <2>3, <2>4
  <2> QED BY <1>9, <1>11, <2>5 DEF F, new
<1> QED BY <1>10, <1>11

\* The twins with the rows they hold, after k positions.
TwinsAt(s, t, script, g, rules, gumbel, control, k) ==
  /\ PassOK(s, k, script, g, Off) /\ PassOK(t, k, script, g, gumbel) /\ Twins(s, t, script, rules, control, k)

\* They stay twins through a pass.
LEMMA TwinsGo ==
  ASSUME NEW script, ScriptOK(script), NEW k \in Nat, Length(script) \in Nat, k < Length(script),
         Length(script) <= Len(script), NEW s, NEW t, NEW g, NEW rules, rules.on, NEW gumbel, NEW control,
         TwinsAt(s, t, script, g, rules, gumbel, control, k)
  PROVE  TwinsAt(Ply(s, g, script[k + 1], Off, Off, FALSE), Ply(t, g, script[k + 1], rules, gumbel, control),
                 script, g, rules, gumbel, control, k + 1)
<1> DEFINE u == Ply(s, g, script[k + 1], Off, Off, FALSE)
           v == Ply(t, g, script[k + 1], rules, gumbel, control)
           F == FiresAt(script, rules)
<1>1. Len(script) \in Nat /\ k < Len(script)
  BY DEF ScriptOK
<1>2. PassOK(s, k, script, g, Off) /\ PassOK(t, k, script, g, gumbel)
      /\ GoesOut(s, k) /\ t.would = Marked(script, F, k)
      /\ IF F \in 1..k /\ ~control THEN CutShort(s, t, script, F) ELSE Alike(s, t, script, rules, k)
  BY DEF TwinsAt, Twins
<1>3. PassOK(u, k + 1, script, g, Off) /\ PassOK(v, k + 1, script, g, gumbel)
  BY <1>1, <1>2, PassKeepsRows
<1>4. /\ DOMAIN s = Fields /\ DOMAIN t = Fields
      /\ s.rows \in Seq(RowsOf(script, g, Off)) /\ t.rows \in Seq(RowsOf(script, g, gumbel))
  BY <1>2 DEF PassOK, Fields
<1>5. GoesOut(u, k + 1)
  <2>1. ~Off.on
    BY DEF Off
  <2> QED BY <1>2, <1>4, <2>1, OutGoes
<1>6. \A j : j \in 1..(k + 1) <=> j \in 1..k \/ j = k + 1
  OBVIOUS
<1>7. k + 1 \notin 1..k
  OBVIOUS
<1> HIDE DEF F
<1>8. ASSUME F \in 1..k, ~control
      PROVE  v.would = Marked(script, F, k + 1) /\ CutShort(u, v, script, F)
  <2>1. CutShort(s, t, script, F)
    BY <1>2, <1>8
  <2>2. v = t
    BY <2>1 DEF CutShort, Ply
  <2>3. CutShort(u, t, script, F)
    BY <1>4, <2>1, CutGoesOn
  <2> HIDE DEF u, v
  <2> QED BY <1>2, <1>6, <1>8, <2>2, <2>3 DEF Marked
<1>9. ASSUME ~(F \in 1..k /\ ~control), s.stopped \/ ~IsSearched(script[k + 1])
      PROVE  /\ v.would = Marked(script, F, k + 1) /\ ~(F \in 1..(k + 1) /\ ~control)
             /\ Alike(u, v, script, rules, k + 1)
  <2>1. Passed(s, t, u, v, script, g, rules, gumbel, control, k)
    BY <1>2, <1>4, <1>9 DEF Passed
  <2> HIDE DEF u, v
  <2>2. Alike(u, v, script, rules, k + 1) /\ v.would = t.would /\ Judged(script) \subseteq 1..k
    BY <1>9, <2>1, EndAlike
  <2>3. F # k + 1
    <3>1. F = 0 \/ F \in Judged(script)
      BY FirstFiring DEF F
    <3> QED BY <1>7, <2>2, <3>1
  <2> QED BY <1>2, <1>6, <1>9, <2>2, <2>3 DEF Marked
<1>10. ASSUME ~(F \in 1..k /\ ~control), ~s.stopped, IsSearched(script[k + 1])
       PROVE  /\ v.would = Marked(script, F, k + 1)
              /\ IF F \in 1..(k + 1) /\ ~control THEN CutShort(u, v, script, F) ELSE Alike(u, v, script, rules, k + 1)
  <2>1. Passed(s, t, u, v, script, g, rules, gumbel, control, k)
    BY <1>2, <1>4, <1>10 DEF Passed
  <2> HIDE DEF u, v
  <2>2. /\ IF F = k + 1 /\ ~control THEN CutShort(u, v, script, k + 1) ELSE Alike(u, v, script, rules, k + 1)
        /\ v.would = IF F = k + 1 THEN Marked(script, k + 1, k + 1) ELSE t.would
    BY <1>2, <1>10, <2>1, SearchAlike DEF F
  <2>3. v.would = Marked(script, F, k + 1)
    BY <1>2, <1>6, <2>2 DEF Marked
  <2> QED BY <1>6, <1>10, <2>2, <2>3
<1> HIDE DEF u, v
<1>11. Twins(u, v, script, rules, control, k + 1)
  <2>1. v.would = Marked(script, F, k + 1)
        /\ IF F \in 1..(k + 1) /\ ~control THEN CutShort(u, v, script, F) ELSE Alike(u, v, script, rules, k + 1)
    BY <1>6, <1>8, <1>9, <1>10
  <2> QED BY <1>5, <2>1 DEF Twins, F
<1> QED BY <1>3, <1>11 DEF TwinsAt, u, v

\* They start as twins.
LEMMA TwinsStart ==
  ASSUME NEW script, NEW g, NEW rules, NEW gumbel, NEW control
  PROVE  TwinsAt(GameStart, GameStart, script, g, rules, gumbel, control, 0)
<1>1. \A X : <<>> \in Seq(X)
  BY EmptySeq
<1>2. \A G : PassOK(GameStart, 0, script, g, G)
  BY <1>1 DEF PassOK, GameStart
<1>3. 1..0 = {} /\ Len(<<>>) = 0
  OBVIOUS
<1>4. Cardinality({}) = 0
  BY FS_EmptySet
<1>5. GoesOut(GameStart, 0)
  BY DEF GoesOut, GameStart
<1>6. StreaksAre([seat \in 1..2 |-> 0], script, rules, 0)
  <2>1. \A seat, threshold : Trail(script, 0, seat, threshold) = {}
    BY <1>3 DEF Trail
  <2> QED BY <1>4, <2>1 DEF StreaksAre
<1>7. Unforced(script, 0) = {} /\ Onward(script, 0)
  BY <1>3 DEF Unforced, Onward
<1>8. SamePlies(<<>>, <<>>)
  BY <1>3 DEF SamePlies
<1>9. Alike(GameStart, GameStart, script, rules, 0)
  BY <1>3, <1>4, <1>6, <1>7, <1>8 DEF Alike, GameStart
<1>10. GameStart.would = NoPly
  BY DEF GameStart
<1> QED BY <1>2, <1>3, <1>5, <1>9, <1>10 DEF TwinsAt, Twins, Marked

\* The positions that are played.
LEMMA PlayedIs ==
  ASSUME NEW net \in DOMAIN Script, NEW g \in 0..(GameCount - 1)
  PROVE  LET script == Script[net][g]
             played == SubSeq(script, 1, Length(script))
         IN  DOMAIN played = 1..Length(script) /\ \A k \in 1..Length(script) : played[k] = script[k]
<1> DEFINE script == Script[net][g]
           m == Length(script)
           played == SubSeq(script, 1, m)
           R == {script[k] : k \in DOMAIN script}
<1>1. script \in Seq(R)
  BY SelfPlayAssumption
<1>2. m \in Nat /\ m <= Len(script) /\ Len(script) \in Nat
  BY ScriptsAreOK DEF ScriptOK
<1> HIDE DEF script, m, R
<1>3. Len(played) = m /\ played \in Seq(R) /\ \A k \in 1..m : played[k] = script[k]
  <2>1. m - 1 + 1 = m /\ (1 <= m + 1)
    BY <1>2
  <2> QED BY <1>1, <1>2, <2>1, SubSeqProperties
<1>4. DOMAIN played = 1..m
  BY <1>3, LenProperties
<1> QED BY <1>3, <1>4 DEF script, m

\* What twins end with, and the reports of both.
EndAsTwins(s, t, net, g, rules, gumbel, control) ==
  /\ TwinsAt(s, t, Script[net][g], g, rules, gumbel, control, Length(Script[net][g]))
  /\ PlayIn(net, g, Off, Off, FALSE) = ReportedIn(s, Script[net][g], FALSE)
  /\ PlayIn(net, g, rules, gumbel, control) = ReportedIn(t, Script[net][g], control)

\* A game in an arm, and the same game played out, end as twins.
LEMMA GamesAreTwins ==
  ASSUME NEW net \in DOMAIN Script, NEW g \in 0..(GameCount - 1), NEW rules, rules.on, NEW gumbel, NEW control
  PROVE  \E s, t : EndAsTwins(s, t, net, g, rules, gumbel, control)
<1> DEFINE script == Script[net][g]
           m == Length(script)
           played == SubSeq(script, 1, m)
           OK(s, t, k) == TwinsAt(s, t, script, g, rules, gumbel, control, k)
<1>1. ScriptOK(script) /\ m \in Nat /\ m <= Len(script)
  BY ScriptsAreOK
<1>2. DOMAIN played = 1..m /\ \A k \in 1..m : played[k] = script[k]
  BY PlayedIs
<1>3. PlayIn(net, g, Off, Off, FALSE) = ReportedIn(AllPasses(played, g, Off, Off, FALSE), script, FALSE)
  BY DEF PlayIn, AllPasses, Length
<1>4. PlayIn(net, g, rules, gumbel, control) = ReportedIn(AllPasses(played, g, rules, gumbel, control), script, control)
  BY DEF PlayIn, AllPasses, Length
<1> HIDE DEF script, m, played, OK
<1>5. PICK st : Passes(st, played, g, Off, Off, FALSE, m) /\ AllPasses(played, g, Off, Off, FALSE) = st[m]
  <2> DEFINE never == FALSE
  <2> HIDE DEF never
  <2>1. \E st : Passes(st, played, g, Off, Off, never, m) /\ AllPasses(played, g, Off, Off, never) = st[m]
    BY <1>1, <1>2, GameIsPassed
  <2> QED BY <2>1 DEF never
<1>6. PICK tt : Passes(tt, played, g, rules, gumbel, control, m) /\ AllPasses(played, g, rules, gumbel, control) = tt[m]
  BY <1>1, <1>2, GameIsPassed
<1>7. OK(st[0], tt[0], 0)
  BY <1>5, <1>6, TwinsStart DEF Passes, OK
<1>8. ASSUME NEW k \in Nat, k < m, OK(st[k], tt[k], k) PROVE OK(st[k + 1], tt[k + 1], k + 1)
  <2>1. k + 1 \in 1..m /\ (k + 1) - 1 = k
    BY <1>1, <1>8
  <2>2. /\ st[k + 1] = Ply(st[k], g, script[k + 1], Off, Off, FALSE)
        /\ tt[k + 1] = Ply(tt[k], g, script[k + 1], rules, gumbel, control)
    BY <1>2, <1>5, <1>6, <2>1 DEF Passes
  <2>3. TwinsAt(st[k], tt[k], script, g, rules, gumbel, control, k)
    BY <1>8 DEF OK
  <2> DEFINE s == st[k]
             t == tt[k]
  <2> HIDE DEF s, t
  <2>4. TwinsAt(Ply(s, g, script[k + 1], Off, Off, FALSE), Ply(t, g, script[k + 1], rules, gumbel, control),
                script, g, rules, gumbel, control, k + 1)
    <3>1. TwinsAt(s, t, script, g, rules, gumbel, control, k)
      BY <2>3 DEF s, t
    <3> QED BY <1>1, <1>8, <3>1, TwinsGo DEF m
  <2> QED BY <2>2, <2>4 DEF s, t, OK
<1>9. OK(st[m], tt[m], m)
  <2> DEFINE Wrong == {k \in 0..m : ~OK(st[k], tt[k], k)}
  <2> SUFFICES ASSUME Wrong # {} PROVE FALSE
    BY <1>1
  <2>1. Wrong \subseteq Nat
    OBVIOUS
  <2>2. PICK k \in Wrong : \A l \in Wrong : k <= l
    <3> HIDE DEF Wrong
    <3> QED BY <2>1, LeastNumber
  <2>3. k \in 1..m
    BY <1>7
  <2> DEFINE l == k - 1
  <2>4. l \in Nat /\ l \in 0..m /\ k = l + 1 /\ l < m /\ ~(k <= l)
    BY <1>1, <2>3
  <2>5. OK(st[l], tt[l], l)
    BY <2>2, <2>4
  <2> HIDE DEF l
  <2>6. OK(st[l + 1], tt[l + 1], l + 1)
    BY <1>8, <2>4, <2>5
  <2> QED BY <2>2, <2>4, <2>6
<1> QED BY <1>3, <1>4, <1>5, <1>6, <1>9 DEF OK, m, script, EndAsTwins

\* What a report says of its game, from the game played out and where the rule fires.
TellsTheGame(report, out, script, F, control) ==
  /\ out.searches \in Nat /\ out.plies \in Nat /\ F \in Nat
  /\ CutAt(report, out, script, IF control THEN 0 ELSE F)
  /\ report.control = control
  /\ control => /\ report.searches = out.searches /\ report.plies = out.plies /\ report.z = out.z
                /\ IF F = 0 THEN report.would = NoPly
                   ELSE /\ report.would # NoPly /\ report.would.side = script[F].mover /\ report.would.at = F - 1

\* The rows a game under way holds, and the rows of its report.
HoldsRows(end, script, g, gumbel) == end.rows \in Seq(RowsOf(script, g, gumbel))
Stamping(report, end, z) == report.rows = [i \in DOMAIN end.rows |-> [end.rows[i] EXCEPT !.z = z]]
Stamped(report, end, z) ==
  /\ Len(report.rows) = Len(end.rows) /\ DOMAIN report.rows = 1..Len(end.rows) /\ Len(end.rows) \in Nat
  /\ \A i \in 1..Len(end.rows) : report.rows[i].ply = end.rows[i].ply /\ report.rows[i].z = z

\* Stamped rows are from where they were, and say how the game ended.
LEMMA StampedRows ==
  ASSUME NEW end, NEW script, NEW g, NEW gumbel, HoldsRows(end, script, g, gumbel), NEW z, NEW report, Stamping(report, end, z)
  PROVE  Stamped(report, end, z)
<1> DEFINE rows == report.rows
           X == RowsOf(script, g, gumbel)
           n == Len(end.rows)
<1>1. rows = [i \in DOMAIN end.rows |-> [end.rows[i] EXCEPT !.z = z]]
  BY DEF Stamping
<1>2. \A row \in X : "z" \in DOMAIN row /\ "ply" \in DOMAIN row
  BY DEF RowsOf, Row
<1> HIDE DEF X, rows
<1>3. DOMAIN end.rows = 1..n /\ n \in Nat /\ \A i \in 1..n : end.rows[i] \in X
  BY LenProperties, ElementOfSeq DEF X, HoldsRows
<1> HIDE DEF n
<1>4. \A i \in 1..n : rows[i].ply = end.rows[i].ply /\ rows[i].z = z
  BY <1>1, <1>2, <1>3
<1>5. Len(rows) = n /\ DOMAIN rows = 1..n
  <2>1. DOMAIN rows = 1..n
    BY <1>1, <1>3
  <2>2. rows = [i \in 1..n |-> rows[i]]
    BY <1>1, <1>3
  <2>3. Len([i \in 1..n |-> rows[i]]) = n
    BY <1>3
  <2> QED BY <2>1, <2>2, <2>3
<1> QED BY <1>3, <1>4, <1>5 DEF n, rows, Stamped

\* How a settled game is read.
LEMMA SettledIs ==
  ASSUME NEW end, NEW script, NEW control
  PROVE  \E last, z : /\ last = script[end.ply + 1]
                      /\ z = IF end.resigned = 0 THEN last.verdict ELSE IF end.resigned = 1 THEN -1 ELSE 1
                      /\ LET report == ReportedIn(end, script, control)
                         IN  /\ report.plies = end.ply /\ report.searches = end.searches /\ report.z = z
                             /\ report.control = control /\ report.would = IF end.resigned = 0 THEN end.would ELSE NoPly
                             /\ Stamping(report, end, z)
<1> DEFINE last == script[end.ply + 1]
           z == IF end.resigned = 0 THEN last.verdict ELSE IF end.resigned = 1 THEN -1 ELSE 1
           report == ReportedIn(end, script, control)
<1>1. report = SettleGame(end, last, z, control)
  BY DEF ReportedIn, Reported
<1> HIDE DEF last, z, report
<1>2. /\ report.plies = end.ply /\ report.searches = end.searches /\ report.z = z
      /\ report.control = control /\ report.would = IF end.resigned = 0 THEN end.would ELSE NoPly
      /\ report.rows = [i \in DOMAIN end.rows |-> [end.rows[i] EXCEPT !.z = z]]
  BY <1>1 DEF SettleGame
<1>3. Stamping(report, end, z)
  BY <1>2 DEF Stamping
<1>4. last = script[end.ply + 1] /\ z = IF end.resigned = 0 THEN last.verdict ELSE IF end.resigned = 1 THEN -1 ELSE 1
  BY DEF last, z
<1> QED BY <1>2, <1>3, <1>4 DEF report

\* A report tells its game: alike to the game played out in the control arm or when the rule
\* never fires, cut where it does otherwise.
LEMMA ReportTells ==
  ASSUME NEW net \in DOMAIN Script, NEW g \in 0..(GameCount - 1), NEW rules, rules.on, NEW gumbel, NEW control \in BOOLEAN
  PROVE  TellsTheGame(PlayIn(net, g, rules, gumbel, control), PlayIn(net, g, Off, Off, FALSE),
                      Script[net][g], FiresAt(Script[net][g], rules), control)
<1> DEFINE script == Script[net][g]
           F == FiresAt(script, rules)
           n == Length(script)
           out == PlayIn(net, g, Off, Off, FALSE)
           report == PlayIn(net, g, rules, gumbel, control)
           never == FALSE
<1>1. PICK s, t : /\ TwinsAt(s, t, script, g, rules, gumbel, control, n)
                  /\ out = ReportedIn(s, script, FALSE) /\ report = ReportedIn(t, script, control)
  <2>1. PICK s, t : EndAsTwins(s, t, net, g, rules, gumbel, control)
    BY GamesAreTwins
  <2> QED BY <2>1, Zenon DEF EndAsTwins
<1>2. ScriptOK(script) /\ n \in Nat /\ n <= Len(script)
  BY ScriptsAreOK
<1>3. F \in Nat /\ (F # 0 => F \in 1..n)
  <2>1. Judged(script) \subseteq 1..n
    BY DEF Judged, Length
  <2>2. F = 0 \/ F \in Judged(script)
    BY FirstFiring
  <2> HIDE DEF F, n
  <2> QED BY <1>2, <2>1, <2>2
<1>4. /\ HoldsRows(s, script, g, Off) /\ HoldsRows(t, script, g, gumbel)
      /\ s.resigned = 0 /\ s.ply \in Nat /\ s.searches \in Nat /\ t.would = Marked(script, F, n)
      /\ IF F \in 1..n /\ ~control THEN CutShort(s, t, script, F) ELSE Alike(s, t, script, rules, n)
  BY <1>1 DEF TwinsAt, PassOK, Twins, GoesOut, HoldsRows
<1> HIDE DEF script, F, n, out, report
<1>5. PICK last, z : /\ last = script[s.ply + 1] /\ z = last.verdict /\ Stamping(out, s, z)
                     /\ out.plies = s.ply /\ out.searches = s.searches /\ out.z = z
  <2>1. \E last, z : /\ last = script[s.ply + 1]
                     /\ z = (IF s.resigned = 0 THEN last.verdict ELSE IF s.resigned = 1 THEN -1 ELSE 1)
                     /\ LET r == ReportedIn(s, script, never)
                        IN  r.plies = s.ply /\ r.searches = s.searches /\ r.z = z /\ Stamping(r, s, z)
    <3> HIDE DEF never
    <3> QED BY SettledIs
  <2> QED BY <1>1, <1>4, <2>1
<1>6. PICK end, y : /\ end = script[t.ply + 1] /\ Stamping(report, t, y)
                    /\ y = (IF t.resigned = 0 THEN end.verdict ELSE IF t.resigned = 1 THEN -1 ELSE 1)
                    /\ report.plies = t.ply /\ report.searches = t.searches /\ report.z = y /\ report.control = control
                    /\ report.would = IF t.resigned = 0 THEN t.would ELSE NoPly
  BY <1>1, SettledIs
<1>7. Stamped(out, s, z)
  BY <1>4, <1>5, StampedRows
<1>8. Stamped(report, t, y)
  BY <1>4, <1>6, StampedRows
<1> DEFINE stop == IF control THEN 0 ELSE F
<1>10. ASSUME stop # 0 PROVE TellsTheGame(report, out, script, F, control)
  <2>1. CutShort(s, t, script, F) /\ stop = F /\ F \in 1..n /\ ~control
    BY <1>3, <1>4, <1>10
  <2>2. script[F].mover \in 1..2
    BY <1>2, <2>1 DEF ScriptOK
  <2>3. y = LossAt(script, F)
    BY <1>6, <2>1, <2>2 DEF CutShort, LossAt
  <2>4. CutAt(report, out, script, F)
    BY <1>7, <1>8, <1>10, <2>1, <2>3 DEF CutShort, CutAt, SamePlies, Stamped
  <2> QED BY <1>3, <1>4, <1>5, <1>6, <2>1, <2>4 DEF TellsTheGame
<1>11. ASSUME stop = 0 PROVE TellsTheGame(report, out, script, F, control)
  <2>1. Alike(s, t, script, rules, n)
    BY <1>3, <1>4, <1>11
  <2>2. y = z /\ report.plies = out.plies /\ report.searches = out.searches /\ report.would = t.would
    BY <1>4, <1>5, <1>6, <2>1 DEF Alike
  <2>3. CutAt(report, out, script, 0)
    BY <1>5, <1>7, <1>8, <2>1, <2>2 DEF Alike, CutAt, SamePlies, Stamped
  <2>4. IF F = 0 THEN report.would = NoPly
        ELSE /\ report.would # NoPly /\ report.would.side = script[F].mover /\ report.would.at = F - 1
    <3>1. 0 \notin 1..n
      OBVIOUS
    <3>2. Marked(script, F, n) = NoPly <=> F \notin 1..n
      BY <1>2, MarkedOnce DEF ScriptOK
    <3> QED BY <1>3, <1>4, <2>2, <3>1, <3>2 DEF Marked
  <2> QED BY <1>3, <1>4, <1>5, <1>6, <1>11, <2>2, <2>3, <2>4 DEF TellsTheGame
<1> QED BY <1>10, <1>11 DEF out, report, script, F

-----------------------------------------------------------------------------
(* What a shard measures *)

\* A sum over games, one game further.
LEMMA AddsOne ==
  ASSUME NEW C, C \subseteq AllGames, NEW g \in AllGames, g \notin C, NEW h, \A x \in AllGames : h[x] \in Int
  PROVE  /\ SumOf([x \in C \cup {g} |-> h[x]]) = SumOf([x \in C |-> h[x]]) + h[g]
         /\ SumOf([x \in C |-> h[x]]) \in Int
         /\ Cardinality(C \cup {g}) = Cardinality(C) + 1 /\ Cardinality(C) \in Nat
<1> DEFINE D == C \cup {g}
           a == [x \in C |-> h[x]]
           b == [x \in D |-> h[x]]
<1>1. IsFiniteSet(C)
  <2>1. GameCount \in Nat
    BY SelfPlayAssumption
  <2>2. IsFiniteSet(AllGames)
    BY <2>1, FS_Interval DEF AllGames
  <2> QED BY <2>2, FS_Subset
<1>2. Cardinality(D) = Cardinality(C) + 1 /\ Cardinality(C) \in Nat /\ IsFiniteSet(D)
  BY <1>1, FS_AddElement, FS_CardinalityType
<1>3. D \ {g} = C /\ DOMAIN b = D /\ DOMAIN a = C /\ b[g] = h[g]
  OBVIOUS
<1>4. \A x \in D : b[x] \in Int
  OBVIOUS
<1>5. \A x \in C : b[x] = a[x] /\ a[x] \in Int
  OBVIOUS
<1> HIDE DEF a, b, D
<1>6. SumOn(b, D) = b[g] + SumOn(b, D \ {g})
  <2>1. g \in D
    BY DEF D
  <2> QED BY <1>2, <1>4, <2>1, SumTakesOut
<1>7. SumOn(b, C) = SumOn(a, C)
  BY <1>1, <1>5, SameSum
<1>8. SumOn(a, C) \in Int
  BY <1>1, <1>5, SumIsInt
<1>9. SumOf(b) = SumOn(b, D) /\ SumOf(a) = SumOn(a, C)
  BY <1>3, SumOfIs
<1>10. SumOf(b) = SumOf(a) + h[g]
  <2>1. b[g] \in Int
    BY <1>4 DEF D
  <2>2. D \ {g} = C /\ b[g] = h[g]
    BY <1>3
  <2>3. SumOn(b, D) = h[g] + SumOn(b, C)
    BY <1>6, <2>2, Zenon
  <2>4. SumOf(b) = h[g] + SumOf(a) /\ SumOf(a) \in Int /\ h[g] \in Int
    BY <1>7, <1>8, <1>9, <2>1, <2>2, <2>3, Zenon
  <2> QED BY <2>4
<1> QED BY <1>2, <1>8, <1>9, <1>10 DEF a, b, D

\* Nothing is saved over no games.
LEMMA NoneSaved ==
  ASSUME NEW net, NEW out, NEW stop
  PROVE  SavedBy(NoStats, {}, net, out, stop)
<1>1. \A f : DOMAIN f = {} => SumOf(f) = 0
  BY SumOfIs, SumOfNone
<1>2. Cardinality({}) = 0
  BY FS_EmptySet
<1> QED BY <1>1, <1>2 DEF SavedBy, NoStats

\* The games played out, and where each would stop, are numbers.
Measurable(out, stop) ==
  \A h \in AllGames : out[h].searches \in Nat /\ out[h].plies \in Nat /\ stop[h] \in Nat

\* What the tally makes of a game of the arm that would have been resigned, and of any other.
CountsIt(t, stats, report) ==
  /\ t.would = stats.would + 1
  /\ t.searchesSaved = stats.searchesSaved + report.searches - (report.would.at + 1)
  /\ t.pliesSaved = stats.pliesSaved + report.plies - report.would.at
  /\ t.wrong = stats.wrong + One(report.z # (IF report.would.side = 1 THEN -1 ELSE 1))
CountsNot(t, stats) ==
  /\ t.would = stats.would /\ t.searchesSaved = stats.searchesSaved
  /\ t.pliesSaved = stats.pliesSaved /\ t.wrong = stats.wrong

LEMMA CountedIs ==
  ASSUME NEW stats, DOMAIN stats = DOMAIN NoStats, NEW report
  PROVE  /\ DOMAIN Counted(stats, report) = DOMAIN NoStats
         /\ (~report.control \/ report.would = NoPly) => CountsNot(Counted(stats, report), stats)
         /\ ~(~report.control \/ report.would = NoPly) => CountsIt(Counted(stats, report), stats, report)
<1> DEFINE t == Played(stats, report)
<1>1. DOMAIN t = DOMAIN NoStats /\ CountsNot(t, stats)
  BY DEF Played, NoStats, CountsNot
<1> HIDE DEF t
<1>2. CASE ~report.control \/ report.would = NoPly
  <2>1. Counted(stats, report) = t
    BY <1>2 DEF Counted, t
  <2> QED BY <1>1, <1>2, <2>1
<1>3. CASE ~(~report.control \/ report.would = NoPly)
  <2>1. Counted(stats, report) = [t EXCEPT !.would = @ + 1,
          !.searchesSaved = @ + report.searches - (report.would.at + 1),
          !.pliesSaved = @ + report.plies - report.would.at,
          !.wrong = @ + One(report.z # (IF report.would.side = 1 THEN -1 ELSE 1))]
    BY <1>3 DEF Counted, t
  <2> QED BY <1>1, <1>3, <2>1 DEF NoStats, CountsNot, CountsIt
<1> QED BY <1>2, <1>3

\* A game of the arm that would have been resigned adds what resigning would have saved.
LEMMA SavedGrows ==
  ASSUME NEW stats, DOMAIN stats = DOMAIN NoStats, NEW C, C \subseteq AllGames, NEW g \in AllGames, g \notin C,
         NEW net \in DOMAIN Script, NEW out, NEW stop, Measurable(out, stop), stop[g] # 0,
         SavedBy(stats, C, net, out, stop), NEW report,
         TellsTheGame(report, out[g], Script[net][g], stop[g], TRUE)
  PROVE  SavedBy(Counted(stats, report), C \cup {g}, net, out, stop)
<1> DEFINE searches == [x \in AllGames |-> out[x].searches - stop[x]]
           plies == [x \in AllGames |-> out[x].plies - (stop[x] - 1)]
           wrong == [x \in AllGames |-> One(out[x].z # LossAt(Script[net][x], stop[x]))]
           D == C \cup {g}
           t == Counted(stats, report)
<1>1. \A x \in AllGames : searches[x] \in Int /\ plies[x] \in Int /\ wrong[x] \in Int
  BY DEF Measurable, One
<1>2. /\ stats.would = Cardinality(C) /\ stats.searchesSaved = SumOf([x \in C |-> searches[x]])
      /\ stats.pliesSaved = SumOf([x \in C |-> plies[x]]) /\ stats.wrong = SumOf([x \in C |-> wrong[x]])
  <2>1. /\ [x \in C |-> searches[x]] = [x \in C |-> out[x].searches - stop[x]]
        /\ [x \in C |-> plies[x]] = [x \in C |-> out[x].plies - (stop[x] - 1)]
        /\ [x \in C |-> wrong[x]] = [x \in C |-> One(out[x].z # LossAt(Script[net][x], stop[x]))]
    OBVIOUS
  <2> HIDE DEF searches, plies, wrong
  <2> QED BY <2>1 DEF SavedBy
<1>3. /\ SavedBy(t, D, net, out, stop) <=>
            /\ t.would = Cardinality(D) /\ t.searchesSaved = SumOf([x \in D |-> searches[x]])
            /\ t.pliesSaved = SumOf([x \in D |-> plies[x]]) /\ t.wrong = SumOf([x \in D |-> wrong[x]])
  <2>1. /\ [x \in D |-> searches[x]] = [x \in D |-> out[x].searches - stop[x]]
        /\ [x \in D |-> plies[x]] = [x \in D |-> out[x].plies - (stop[x] - 1)]
        /\ [x \in D |-> wrong[x]] = [x \in D |-> One(out[x].z # LossAt(Script[net][x], stop[x]))]
    OBVIOUS
  <2> HIDE DEF searches, plies, wrong, D, t
  <2> QED BY <2>1 DEF SavedBy
<1>4. /\ searches[g] = out[g].searches - stop[g] /\ plies[g] = out[g].plies - (stop[g] - 1)
      /\ wrong[g] = One(out[g].z # LossAt(Script[net][g], stop[g]))
  OBVIOUS
<1>5. /\ report.searches = out[g].searches /\ report.plies = out[g].plies /\ report.z = out[g].z /\ report.control = TRUE
      /\ report.would # NoPly /\ report.would.side = Script[net][g][stop[g]].mover /\ report.would.at = stop[g] - 1
  BY DEF TellsTheGame
<1>6. CountsIt(t, stats, report)
  BY <1>5, CountedIs
<1>7. (IF report.would.side = 1 THEN -1 ELSE 1) = LossAt(Script[net][g], stop[g])
  BY <1>5 DEF LossAt
<1>8. out[g].searches \in Nat /\ out[g].plies \in Nat /\ stop[g] \in Nat
  BY DEF Measurable
<1> HIDE DEF searches, plies, wrong, t
<1>9. /\ SumOf([x \in D |-> searches[x]]) = SumOf([x \in C |-> searches[x]]) + searches[g]
      /\ SumOf([x \in C |-> searches[x]]) \in Int
      /\ Cardinality(D) = Cardinality(C) + 1
  BY <1>1, AddsOne
<1>10. /\ SumOf([x \in D |-> plies[x]]) = SumOf([x \in C |-> plies[x]]) + plies[g]
       /\ SumOf([x \in C |-> plies[x]]) \in Int
  BY <1>1, AddsOne
<1>11. SumOf([x \in D |-> wrong[x]]) = SumOf([x \in C |-> wrong[x]]) + wrong[g]
  BY <1>1, AddsOne
<1> HIDE DEF D
<1>12. t.would = Cardinality(D)
  BY <1>2, <1>6, <1>9 DEF CountsIt
<1>13. t.searchesSaved = SumOf([x \in D |-> searches[x]])
  BY <1>2, <1>4, <1>5, <1>6, <1>8, <1>9 DEF CountsIt
<1>14. t.pliesSaved = SumOf([x \in D |-> plies[x]])
  BY <1>2, <1>4, <1>5, <1>6, <1>8, <1>10 DEF CountsIt
<1>15. t.wrong = SumOf([x \in D |-> wrong[x]])
  BY <1>2, <1>4, <1>5, <1>6, <1>7, <1>11 DEF CountsIt
<1> QED BY <1>3, <1>12, <1>13, <1>14, <1>15 DEF D, t

\* Any other game leaves the measurements alone.
LEMMA SavedStays ==
  ASSUME NEW stats, DOMAIN stats = DOMAIN NoStats, NEW C, NEW net, NEW out, NEW stop, SavedBy(stats, C, net, out, stop),
         NEW report, ~report.control \/ report.would = NoPly
  PROVE  SavedBy(Counted(stats, report), C, net, out, stop)
<1> DEFINE t == Counted(stats, report)
<1>1. CountsNot(t, stats)
  BY CountedIs
<1> HIDE DEF t
<1>2. SavedBy(t, C, net, out, stop)
  BY <1>1 DEF SavedBy, CountsNot
<1> QED BY <1>2 DEF t

\* A file is a sequence of what it holds.
IsFile(file) == file \in Seq({file[c] : c \in DOMAIN file})

\* The games of a file, and where the rule fires in each game of a net.
GamesIn(file) == {file[c].g : c \in DOMAIN file}
StopsOf(net, rules) == [g \in 0..(GameCount - 1) |-> FiresAt(Script[net][g], rules)]

\* A shard measures its control arm, and cuts the other games where the rule fires.
ShardMeasures(s) ==
  LET rules == ResolveResign(s.env.resign)
  IN  /\ s.net \in DOMAIN Script /\ s.left \subseteq AllGames
      /\ IsFile(s.file) /\ GamesIn(s.file) \subseteq AllGames \ s.left
      /\ rules.on => Measures(s, rules, PlayedOut(s.net), StopsOf(s.net, rules))
ShardMeasured(s) ==
  /\ DOMAIN s = {"net", "env", "left", "file", "stats", "status"} /\ DOMAIN s.stats = DOMAIN NoStats
  /\ s.status # "failed" => ShardMeasures(s)

\* Every game a net can play is measurable.
LEMMA GamesMeasurable ==
  ASSUME NEW net \in DOMAIN Script, NEW rules, rules.on
  PROVE  Measurable(PlayedOut(net), StopsOf(net, rules))
<1>1. ASSUME NEW g \in AllGames
      PROVE  PlayedOut(net)[g].searches \in Nat /\ PlayedOut(net)[g].plies \in Nat /\ StopsOf(net, rules)[g] \in Nat
  <2> DEFINE control == FALSE
             gumbel == Off
  <2>1. control \in BOOLEAN
    OBVIOUS
  <2> HIDE DEF control, gumbel
  <2>2. TellsTheGame(PlayIn(net, g, rules, gumbel, control), PlayIn(net, g, Off, Off, FALSE),
                     Script[net][g], FiresAt(Script[net][g], rules), control)
    BY <2>1, ReportTells DEF AllGames
  <2>3. PlayedOut(net)[g] = PlayIn(net, g, Off, Off, FALSE) /\ StopsOf(net, rules)[g] = FiresAt(Script[net][g], rules)
    BY DEF PlayedOut, Off, AllGames, StopsOf
  <2> QED BY <2>2, <2>3 DEF TellsTheGame
<1> QED BY <1>1 DEF Measurable

\* A file one game longer.
Lengthened(more, file, chunk) ==
  /\ IsFile(more) /\ GamesIn(more) = GamesIn(file) \cup {chunk.g}
  /\ \A c \in DOMAIN more : more[c] = chunk \/ (c \in DOMAIN file /\ more[c] = file[c])
LEMMA OneMoreGame ==
  ASSUME NEW file, IsFile(file), NEW chunk
  PROVE  Lengthened(Append(file, chunk), file, chunk)
<1> DEFINE R == {file[c] : c \in DOMAIN file}
           T == R \cup {chunk}
           more == Append(file, chunk)
           n == Len(file)
<1>1. file \in Seq(R)
  BY DEF IsFile
<1> HIDE DEF R
<1>2. n \in Nat /\ DOMAIN file = 1..n
  BY <1>1, LenProperties
<1>3. file \in Seq(T) /\ chunk \in T
  <2>1. R \subseteq T
    OBVIOUS
  <2> QED BY <1>1, <2>1, SeqMonotonic
<1> HIDE DEF T
<1>4. more \in Seq(T) /\ Len(more) = n + 1 /\ more[n + 1] = chunk /\ \A c \in 1..n : more[c] = file[c]
  BY <1>3, AppendProperties
<1> HIDE DEF more, n
<1>5. DOMAIN more = 1..(n + 1)
  BY <1>4, LenProperties
<1>6. more \in Seq({more[c] : c \in DOMAIN more})
  BY <1>4, OwnRange
<1>7. \A c : c \in 1..(n + 1) <=> c \in 1..n \/ c = n + 1
  BY <1>2
<1>8. GamesIn(more) = GamesIn(file) \cup {chunk.g}
  BY <1>2, <1>4, <1>5, <1>7 DEF GamesIn
<1>9. \A c \in DOMAIN more : more[c] = chunk \/ (c \in DOMAIN file /\ more[c] = file[c])
  BY <1>2, <1>4, <1>5, <1>7
<1> QED BY <1>6, <1>8, <1>9 DEF more, IsFile, Lengthened

\* What CutAt says of a report, it says of what the report leaves in the file.
LEMMA ChunkIsCut ==
  ASSUME NEW report, NEW out, NEW script, NEW k, CutAt(report, out, script, k), NEW chunk, chunk.rows = report.rows
  PROVE  CutAt(chunk, out, script, k)
BY DEF CutAt

\* What the games of the control arm are that would have been resigned.
WouldStop(games, rules, stop) == {g \in games : IsControl(g, rules) /\ stop[g] # 0}

\* What is measured over these games.
SavedIn(stats, games, net, rules) ==
  SavedBy(stats, WouldStop(games, rules, StopsOf(net, rules)), net, PlayedOut(net), StopsOf(net, rules))

\* The measurements take in one game more.
LEMMA MeasuresGrow ==
  ASSUME NEW s, ShardMeasures(s), DOMAIN s.stats = DOMAIN NoStats, NEW g \in s.left,
         NEW rules, rules.on, NEW gumbel, NEW report, report = PlayIn(s.net, g, rules, gumbel, IsControl(g, rules)),
         SavedIn(s.stats, GamesIn(s.file), s.net, rules)
  PROVE  /\ SavedIn(Counted(s.stats, report), GamesIn(s.file) \cup {g}, s.net, rules)
         /\ CutAt(report, PlayedOut(s.net)[g], Script[s.net][g], IF IsControl(g, rules) THEN 0 ELSE StopsOf(s.net, rules)[g])
<1> DEFINE control == IsControl(g, rules)
           net == s.net
           stop == StopsOf(net, rules)
           out == PlayedOut(net)
           C == WouldStop(GamesIn(s.file), rules, stop)
           D == WouldStop(GamesIn(s.file) \cup {g}, rules, stop)
<1>1. net \in DOMAIN Script /\ g \in AllGames /\ GamesIn(s.file) \subseteq AllGames \ s.left
  BY DEF ShardMeasures
<1>2. control \in BOOLEAN
  BY DEF IsControl
<1>3. TellsTheGame(report, out[g], Script[net][g], stop[g], control)
  <2>1. out[g] = PlayIn(net, g, Off, Off, FALSE) /\ stop[g] = FiresAt(Script[net][g], rules)
    BY <1>1 DEF PlayedOut, Off, AllGames, StopsOf
  <2>2. report = PlayIn(net, g, rules, gumbel, control)
    OBVIOUS
  <2> HIDE DEF control, net, stop, out
  <2>3. TellsTheGame(PlayIn(net, g, rules, gumbel, control), PlayIn(net, g, Off, Off, FALSE),
                     Script[net][g], FiresAt(Script[net][g], rules), control)
    BY <1>1, <1>2, ReportTells DEF AllGames
  <2> QED BY <2>1, <2>2, <2>3
<1>4. Measurable(out, stop)
  BY <1>1, GamesMeasurable
<1>5. CutAt(report, out[g], Script[net][g], IF control THEN 0 ELSE stop[g])
  BY <1>3 DEF TellsTheGame
<1>6. C \subseteq AllGames /\ g \notin C
  BY <1>1 DEF WouldStop
<1>7. D = IF control /\ stop[g] # 0 THEN C \cup {g} ELSE C
  BY DEF WouldStop
<1>8. SavedBy(s.stats, C, net, out, stop)
  BY DEF SavedIn
<1> HIDE DEF control, net, stop, out, C, D
<1>9. CASE control /\ stop[g] # 0
  <2>1. TellsTheGame(report, out[g], Script[net][g], stop[g], TRUE)
    BY <1>2, <1>3, <1>9
  <2>2. SavedBy(Counted(s.stats, report), C \cup {g}, net, out, stop)
    BY <1>1, <1>4, <1>6, <1>8, <1>9, <2>1, SavedGrows
  <2>3. SavedBy(Counted(s.stats, report), D, net, out, stop)
    BY <1>7, <1>9, <2>2
  <2> QED BY <1>5, <2>3 DEF control, net, stop, out, D, SavedIn
<1>10. CASE ~(control /\ stop[g] # 0)
  <2>1. ~report.control \/ report.would = NoPly
    BY <1>3, <1>10 DEF TellsTheGame
  <2>2. SavedBy(Counted(s.stats, report), C, net, out, stop)
    BY <1>8, <2>1, SavedStays
  <2>3. SavedBy(Counted(s.stats, report), D, net, out, stop)
    BY <1>7, <1>10, <2>2
  <2> QED BY <1>5, <2>3 DEF control, net, stop, out, D, SavedIn
<1> QED BY <1>9, <1>10

\* A shard goes on measuring, a game further.
LEMMA MeasuresNext ==
  ASSUME NEW s, ShardMeasured(s), s.status # "failed", s.left # {}
  PROVE  ShardMeasured(Generated(s))
<1> DEFINE g == NextGame(s)
           rules == ResolveResign(s.env.resign)
           gumbel == ResolveGumbel(s.env.gumbel)
           report == SelfPlayGame(s.net, g, s.env)
           chunk == Chunk(s.net, g, report)
           t == Wrote(s, g, report)
           stop == StopsOf(s.net, rules)
           out == PlayedOut(s.net)
<1>1. ShardMeasures(s) /\ DOMAIN s.stats = DOMAIN NoStats
      /\ DOMAIN s = {"net", "env", "left", "file", "stats", "status"}
  BY DEF ShardMeasured
<1>2. g \in s.left
  <2>1. s.left \subseteq Nat
    BY <1>1 DEF ShardMeasures, AllGames
  <2>2. \E h \in s.left : \A k \in s.left : h <= k
    BY <2>1, LeastNumber
  <2> QED BY <2>2 DEF NextGame
<1>3. report = PlayIn(s.net, g, rules, gumbel, IsControl(g, rules))
  BY DEF SelfPlayGame
<1>4. chunk.g = g /\ chunk.rows = report.rows
  BY DEF Chunk
<1> HIDE DEF g, report, chunk
<1>5. /\ DOMAIN t = DOMAIN s /\ t.net = s.net /\ t.env = s.env /\ t.status = s.status
      /\ t.left = s.left \ {g} /\ t.file = Append(s.file, chunk) /\ t.stats = Counted(s.stats, report)
  BY <1>1 DEF Wrote, chunk
<1> HIDE DEF t, rules, gumbel
<1>6. DOMAIN t.stats = DOMAIN NoStats
  BY <1>1, <1>5, CountedIs
<1>7. Lengthened(t.file, s.file, chunk)
  BY <1>1, <1>5, OneMoreGame DEF ShardMeasures
<1>8. GamesIn(t.file) \subseteq AllGames \ t.left /\ t.left \subseteq AllGames
  BY <1>1, <1>2, <1>4, <1>5, <1>7 DEF ShardMeasures, Lengthened
<1>9. ASSUME rules.on PROVE Measures(t, rules, out, stop)
  <2>1. Measures(s, rules, out, stop)
    BY <1>1, <1>9 DEF ShardMeasures, rules
  <2> HIDE DEF stop, out
  <2>2. SavedIn(s.stats, GamesIn(s.file), s.net, rules)
    BY <2>1 DEF Measures, WouldStop, GamesIn, SavedIn, out, stop
  <2>3. /\ SavedIn(Counted(s.stats, report), GamesIn(s.file) \cup {g}, s.net, rules)
        /\ CutAt(report, out[g], Script[s.net][g], IF IsControl(g, rules) THEN 0 ELSE stop[g])
    BY <1>1, <1>2, <1>3, <1>9, <2>2, MeasuresGrow DEF out, stop
  <2>7. SavedBy(t.stats, WouldStop(GamesIn(t.file), rules, stop), s.net, out, stop)
    BY <1>4, <1>5, <1>7, <2>3 DEF SavedIn, Lengthened, out, stop
  <2>4. CutAt(chunk, out[chunk.g], Script[s.net][chunk.g], IF IsControl(chunk.g, rules) THEN 0 ELSE stop[chunk.g])
    BY <1>4, <2>3, ChunkIsCut
  <2>5. \A c \in DOMAIN s.file : CutAt(s.file[c], out[s.file[c].g], Script[s.net][s.file[c].g],
                                      IF IsControl(s.file[c].g, rules) THEN 0 ELSE stop[s.file[c].g])
    BY <2>1 DEF Measures
  <2>6. \A c \in DOMAIN t.file : CutAt(t.file[c], out[t.file[c].g], Script[s.net][t.file[c].g],
                                      IF IsControl(t.file[c].g, rules) THEN 0 ELSE stop[t.file[c].g])
    BY <1>7, <2>4, <2>5 DEF Lengthened
  <2> QED BY <1>5, <2>6, <2>7 DEF Measures, WouldStop, GamesIn
<1>10. ShardMeasured(t)
  BY <1>1, <1>5, <1>6, <1>7, <1>8, <1>9 DEF ShardMeasured, ShardMeasures, Lengthened, rules, out, stop
<1> QED BY <1>10 DEF Generated, t, g, report

-----------------------------------------------------------------------------
(* The control arm through the steps of a run *)

ShardsInv == \A g \in 1..GenCount : \A i \in Shards : disk[g].shard[i] # NoShard => ShardMeasured(disk[g].shard[i])

\* A shard that starts has measured nothing, one that tore a game measures nothing.
LEMMA LaunchMeasures ==
  ASSUME NEW net \in Champions \cup {Torn}, NEW i, NEW count, NEW env
  PROVE  ShardMeasured(Launched(net, net \in Loadable, i, count, env))
<1> DEFINE s == Launched(net, net \in Loadable, i, count, env)
<1>1. /\ DOMAIN s = {"net", "env", "left", "file", "stats", "status"} /\ s.net = net
      /\ s.left = ShardGames(i, count) /\ s.file = <<>> /\ s.stats = NoStats
      /\ s.status # "failed" => net \in Loadable
  BY DEF Launched
<1> HIDE DEF s
<1>2. ASSUME s.status # "failed" PROVE ShardMeasures(s)
  <2>1. net \in Champions \cap Loadable
    BY <1>1, <1>2, GenerationAssumption
  <2>2. s.net \in DOMAIN Script
    BY <1>1, <2>1, GenerationAssumption
  <2>3. s.left \subseteq AllGames
    BY <1>1 DEF ShardGames, AllGames
  <2>4. IsFile(<<>>) /\ DOMAIN s.file = {}
    BY <1>1, EmptySeq DEF IsFile
  <2>5. GamesIn(s.file) = {}
    BY <2>4 DEF GamesIn
  <2>6. ASSUME NEW rules, NEW out, NEW stop PROVE Measures(s, rules, out, stop)
    <3>2. {s.file[c].g : c \in DOMAIN s.file} = {}
      BY <2>4
    <3>3. SavedBy(s.stats, {}, s.net, out, stop)
      BY <1>1, NoneSaved
    <3>4. {x \in {s.file[c].g : c \in DOMAIN s.file} : IsControl(x, rules) /\ stop[x] # 0} = {}
      BY <3>2
    <3> QED BY <2>4, <3>3, <3>4 DEF Measures
  <2> QED BY <1>1, <2>2, <2>3, <2>4, <2>5, <2>6 DEF ShardMeasures
<1>3. ShardMeasured(s)
  BY <1>1, <1>2 DEF ShardMeasured
<1> QED BY <1>3 DEF s

LEMMA TornMeasures ==
  ASSUME NEW s, ShardMeasured(s)
  PROVE  ShardMeasured(GeneratedTorn(s))
<1>1. ASSUME NEW chunk PROVE ShardMeasured(Tore(s, chunk))
  <2>1. /\ DOMAIN Tore(s, chunk) = DOMAIN s /\ Tore(s, chunk).stats = s.stats /\ Tore(s, chunk).status = "failed"
    BY DEF Tore, ShardMeasured
  <2> QED BY <2>1 DEF ShardMeasured
<1> QED BY <1>1 DEF GeneratedTorn

\* Shards that nobody touches measure what they did.
LEMMA SameShards ==
  ASSUME ShardsInv, \A g \in 1..GenCount : disk'[g].shard = disk[g].shard
  PROVE  ShardsInv'
BY DEF ShardsInv

\* A step of the script in its own directory.
LEMMA OwnShards ==
  ASSUME FilesInv, ShardsInv, run.live, NEW e, (disk' = disk /\ e = Dir) \/ Write(e),
         \A i \in Shards : e.shard[i] = Dir.shard[i] \/ e.shard[i] = NoShard \/ ShardMeasured(e.shard[i])
  PROVE  ShardsInv'
<1>1. Only(e)
  BY WritesOnlyIts
<1>2. Gen \in 1..GenCount
  BY GenerationAssumption DEF FilesInv, Gen
<1>3. ASSUME NEW g \in 1..GenCount, NEW i \in Shards, disk'[g].shard[i] # NoShard
      PROVE  ShardMeasured(disk'[g].shard[i])
  <2>1. CASE g = Gen
    BY <1>1, <1>2, <1>3, <2>1 DEF Only, ShardsInv, Dir, Gen
  <2>2. CASE g # Gen
    BY <1>1, <1>3, <2>2 DEF Only, ShardsInv
  <2> QED BY <2>1, <2>2
<1> QED BY <1>3 DEF ShardsInv

\* Another field of a directory.
LEMMA OtherShards ==
  ASSUME NEW d, DirTyped(d), NEW x
  PROVE  /\ [d EXCEPT !.champ = x].shard = d.shard /\ [d EXCEPT !.rows = x].shard = d.shard
         /\ [d EXCEPT !.cand = x].shard = d.shard /\ [d EXCEPT !.log = x].shard = d.shard
         /\ [d EXCEPT !.report = x].shard = d.shard /\ [d EXCEPT !.rows = x, !.short = TRUE].shard = d.shard
         /\ [d EXCEPT !.done = @ \cup {x}].shard = d.shard /\ [d EXCEPT !.done = @ \ {x}].shard = d.shard
BY DEF DirTyped

\* Steps that write something else than a shard.
LEMMA QuietShards ==
  ASSUME FilesInv, LockInv, RowsInv, ShardsInv,
         \/ SnapshotChampion \/ Copied \/ ClearStamp \/ Concatenate \/ ConcatenateFails \/ Validate
         \/ StartTraining \/ Trained \/ CheckCandidate
         \/ PurgeLogs \/ StartInstance \/ EndInstance \/ GauntletDone \/ Report
  PROVE  ShardsInv'
<1>1. run.live /\ AtPoint(run.at)
  BY DEF SnapshotChampion, Copied, ClearStamp, Concatenate, ConcatenateFails, Validate, StartTraining, Trained,
         CheckCandidate, PurgeLogs, StartInstance, EndInstance, GauntletDone, Report, AtPoint
<1>2. DirTyped(Dir)
  BY <1>1, RowsAt DEF DirShape
<1>3. \/ disk' = disk
      \/ \E x : \/ Write([Dir EXCEPT !.champ = x]) \/ Write([Dir EXCEPT !.rows = x]) \/ Write([Dir EXCEPT !.cand = x])
                \/ Write([Dir EXCEPT !.log = x]) \/ Write([Dir EXCEPT !.report = x])
                \/ Write([Dir EXCEPT !.done = @ \cup {x}]) \/ Write([Dir EXCEPT !.done = @ \ {x}])
                \/ Write([Dir EXCEPT !.rows = x, !.short = TRUE])
  <2>1. CASE SnapshotChampion
    BY <2>1 DEF SnapshotChampion
  <2>2. CASE Copied
    BY <2>2 DEF Copied
  <2>3. CASE ClearStamp
    BY <2>3 DEF ClearStamp
  <2>4. CASE Concatenate
    BY <2>4 DEF Concatenate
  <2>5. CASE Validate
    BY <2>5 DEF Validate
  <2>6. CASE StartTraining
    BY <2>6 DEF StartTraining
  <2>7. CASE Trained
    BY <2>7 DEF Trained
  <2>8. CASE CheckCandidate
    BY <2>8 DEF CheckCandidate
  <2>9. CASE PurgeLogs
    BY <2>9 DEF PurgeLogs
  <2>10. CASE StartInstance
    BY <2>10 DEF StartInstance
  <2>11. CASE EndInstance
    BY <2>11 DEF EndInstance
  <2>12. CASE GauntletDone
    BY <2>12 DEF GauntletDone
  <2>13. CASE Report
    BY <2>13 DEF Report
  <2>14. CASE ConcatenateFails
    BY <2>14 DEF ConcatenateFails
  <2> QED BY <2>1, <2>2, <2>3, <2>4, <2>5, <2>6, <2>7, <2>8, <2>9, <2>10, <2>11, <2>12, <2>13, <2>14
<1>4. \E e : e.shard = Dir.shard /\ ((disk' = disk /\ e = Dir) \/ Write(e))
  BY <1>2, <1>3, OtherShards
<1> QED BY <1>1, <1>4, OwnShards

\* The shards are launched.
LEMMA LaunchShardsInv ==
  ASSUME FilesInv, LockInv, RowsInv, ShardsInv, LaunchShards
  PROVE  ShardsInv'
<1> DEFINE count == run.inv.shards
           shards == [i \in Shards |->
              IF i < count THEN Launched(Dir.champ, Dir.champ \in Loadable, i, count, run.inv.env)
              ELSE Purged(Dir.shard)[i]]
           e == [Dir EXCEPT !.rows = NoFile, !.short = FALSE, !.shard = shards]
<1>1. AtPoint("selfplay") /\ Write(e) /\ run.live
  BY DEF LaunchShards, AtPoint
<1>2. DirShape(Dir, "selfplay", run.stage, count) /\ RowsOK(Dir, "selfplay", count, run.instance)
  BY <1>1, RowsAt
<1>3. DirTyped(Dir) /\ Dir.champ \in Champions \cup {Torn}
  BY <1>2 DEF DirShape, SnapshotFirst, RowsOK
<1>4. \A i \in Shards : shards[i] = NoShard \/ ShardMeasured(shards[i])
  <2> TAKE i \in Shards
  <2>1. CASE i < count
    <3>1. shards[i] = Launched(Dir.champ, Dir.champ \in Loadable, i, count, run.inv.env)
      BY <2>1
    <3>2. ShardMeasured(Launched(Dir.champ, Dir.champ \in Loadable, i, count, run.inv.env))
      BY <1>3, LaunchMeasures
    <3> HIDE DEF shards
    <3> QED BY <3>1, <3>2
  <2>2. CASE ~(i < count)
    BY <2>2 DEF Purged
  <2> QED BY <2>1, <2>2
<1> HIDE DEF shards
<1>5. e.shard = shards
  BY <1>3 DEF DirTyped
<1> HIDE DEF e, count
<1> QED BY <1>1, <1>4, <1>5, OwnShards

\* A shard plays or tears a game.
LEMMA PlayShardsInv ==
  ASSUME FilesInv, LockInv, RowsInv, ShardsInv, NEW i \in Shards, ShardPlays(i) \/ ShardFails(i)
  PROVE  ShardsInv'
<1> DEFINE s == Dir.shard[i]
<1>1. AtPoint("wait") /\ run.live /\ s.status = "playing" /\ s.left # {} /\ i < run.inv.shards
  BY DEF ShardPlays, ShardFails, Playing, AtPoint
<1>2. /\ DirTyped(Dir) /\ Gen \in 1..GenCount /\ WhilePlaying(Dir, run.inv.shards)
  BY <1>1, RowsAt DEF DirShape, RowsOK
<1>3. ShardMeasured(s)
  <2>1. s # NoShard
    BY <1>1 DEF NoShard
  <2> QED BY <1>2, <2>1 DEF ShardsInv, Dir, Gen
<1>4. PICK u : Write([Dir EXCEPT !.shard[i] = u]) /\ (u = Generated(s) \/ u = GeneratedTorn(s))
  BY DEF ShardPlays, ShardFails
<1>5. ShardMeasured(u)
  BY <1>1, <1>3, <1>4, MeasuresNext, TornMeasures
<1> DEFINE e == [Dir EXCEPT !.shard[i] = u]
<1>6. \A k \in Shards : e.shard[k] = IF k = i THEN u ELSE Dir.shard[k]
  BY <1>2 DEF DirTyped
<1> HIDE DEF e
<1>7. Write(e)
  BY <1>4 DEF e
<1> QED BY <1>1, <1>5, <1>6, <1>7, OwnShards

\* So for every step.
LEMMA ShardsInvInductive == GenSpec => []ShardsInv
<1>1. LockInv /\ FilesInv /\ RowsInv /\ ShardsInv /\ [GenNext]_genVars => ShardsInv'
  <2> SUFFICES ASSUME LockInv, FilesInv, RowsInv, ShardsInv, [GenNext]_genVars PROVE ShardsInv'
    OBVIOUS
  <2>1. CASE disk' = disk
    BY <2>1, SameShards
  <2>2. CASE ScriptSteps
    <3>1. CASE Invoke \/ Dispatch \/ Until \/ Waited \/ Autoscale \/ TakeLock \/ SetTrap \/ GiveLockBack
      BY <2>1, <3>1 DEF Invoke, Dispatch, Until, Waited, Autoscale, TakeLock, SetTrap, GiveLockBack
    <3> QED BY <2>2, <3>1, QuietShards, LaunchShardsInv, PlayShardsInv DEF ScriptSteps
  <2>3. CASE BoxSteps
    <3>1. CASE ContainerEnds
      <4>1. /\ container.gen \in 1..GenCount /\ DOMAIN disk = 1..GenCount
            /\ disk' = [disk EXCEPT ![container.gen] = [disk[container.gen] EXCEPT !.cand = container.cand]]
        BY <3>1 DEF ContainerEnds, FilesInv
      <4>2. ASSUME NEW g \in 1..GenCount PROVE disk'[g].shard = disk[g].shard
        <5>1. DirTyped(disk[g])
          BY DEF FilesInv, DirOK, DirShape
        <5>2. disk'[g] = disk[g] \/ disk'[g] = [disk[g] EXCEPT !.cand = container.cand]
          BY <4>1
        <5> DEFINE d == disk[g]
                   cand == container.cand
        <5> HIDE DEF d, cand
        <5>3. DirTyped(d) => [d EXCEPT !.cand = cand].shard = d.shard
          BY OtherShards
        <5> QED BY <5>1, <5>2, <5>3 DEF d, cand
      <4> QED BY <4>2, SameShards
    <3>2. CASE \/ ToolFails \/ Killed \/ Terminated \/ Promote \/ OtherTakes \/ OtherReleases \/ ArenaStarts \/ ArenaEnds
               \/ \E who \in {"gate", "arena"}, w \in 1..2 : WorkerSteps(who, w) \/ WorkerPanics(who, w)
      BY <2>1, <3>2 DEF ToolFails, Killed, Terminated, Interrupted, Promote, OtherTakes, OtherReleases, ArenaStarts,
                        ArenaEnds, WorkerSteps, WorkerPanics
    <3> QED BY <2>3, <3>1, <3>2, QuietShards, PlayShardsInv DEF BoxSteps
  <2>4. CASE UNCHANGED genVars
    BY <2>1, <2>4 DEF genVars
  <2> QED BY <2>2, <2>3, <2>4 DEF GenNext
<1>2. GenInit => ShardsInv
  <2> SUFFICES ASSUME GenInit PROVE ShardsInv
    OBVIOUS
  <2>1. \A g \in 1..GenCount : disk[g] = EmptyDir
    BY DEF GenInit
  <2> QED BY <2>1 DEF ShardsInv, EmptyDir
<1> QED BY <1>1, <1>2, LockInvInductive, FilesInvInductive, RowsInvInductive, PTL DEF GenSpec

\* Whatever the net, the games, the rule's threshold and its plies, and however many shards a
\* generation is dealt to: what a shard says that resigning would have saved over its control
\* games, and how often it would have been wrong, is the difference to the same games stopped
\* where the rule first fires; and a game outside the arm is cut there (play_game,
\* ResignTracker::observe and generate's tally).
THEOREM ControlMeasuresResigning == GenSpec => []ControlIsTheCounterfactual
<1>1. ShardsInv => ControlIsTheCounterfactual
  BY DEF ShardsInv, ShardMeasured, ShardMeasures, ControlIsTheCounterfactual, StopsOf
<1> QED BY <1>1, ShardsInvInductive, PTL
=============================================================================
