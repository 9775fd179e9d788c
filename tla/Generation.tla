----------------------------- MODULE Generation -----------------------------
(***************************************************************************)
(* trainer/generation.sh: a self-play generation as four stamped stages    *)
(* over files that outlive the run, the processes it starts, and what else *)
(* happens on the box.  A run may stop at any stage, fail, or be killed;   *)
(* the next one picks up the files it finds.                               *)
(*                                                                         *)
(* An operator starts one run at a time.  A self-play process or gauntlet  *)
(* that outlives its run goes on writing files the next run unlinks, and   *)
(* is not followed; the trainer's container is, because it opens its       *)
(* output when it is done.                                                 *)
(***************************************************************************)
EXTENDS SelfPlay, Gauntlet

CONSTANTS
  GenCount, Window,
  Invocations,      \* what an operator may start: flags and environment
  ShardLimit,       \* bound on SHARDS
  FullInstances,    \* GATE_FULL_INSTANCES
  GatePercent,      \* GATE
  Champions,        \* what artifacts/ may hold
  Candidates,       \* what the trainer may write
  Loadable,         \* the nets PolicyValueNet::load accepts
  Knobs,            \* the gauntlet's defaults
  ArenaFlags,       \* what another user may start arena with
  Budgets,          \* bounds of the model: how many runs, faults and moves of others
  NoFile, Torn

\* What the games of a generation leave in a file.
GameChunks ==
  {Chunk(net, g, SelfPlayGame(net, g, inv.env)) : net \in Champions \cap Loadable, g \in 0..(GameCount - 1),
                                                  inv \in Invocations}

ASSUME GenerationAssumption ==
  /\ GenCount \in Nat /\ Window \in Nat \ {0} /\ ShardLimit \in Nat \ {0} /\ FullInstances \in Nat \ {0}
  /\ \A inv \in Invocations :
       /\ inv.gen \in 1..GenCount /\ inv.shards \in 1..ShardLimit
       /\ inv.from \in {"", "selfplay", "train", "gauntlet", "report"}  \* or the script dies
       /\ inv.games \in Nat /\ inv.instances \in Nat
  /\ Knobs.jobs \in Nat /\ \A flags \in ArenaFlags : flags.games \in Nat /\ flags.threads \in Nat
  /\ NoFile \notin Champions \cup {Torn} /\ NoFile \notin Seq(GameChunks)
  /\ Torn \notin Loadable                  \* half a file does not parse
  /\ Champions \cap Loadable \subseteq DOMAIN Script
  /\ \A b \in Budgets : b.runs \in Nat /\ b.faults \in Nat /\ b.moves \in Nat

VARIABLES
  artifact,     \* $CHAMPION, which the canary pipeline replaces
  disk,         \* [1..GenCount -> the directory $GDIR]
  lock,         \* $ARENA_LOCK: "free", "script", "stale" or "other"
  run,          \* the running script, or how the last one ended
  container,    \* a trainer nobody waits for: NoFile or [gen, cand]
  cut,          \* history: generations a killed run left half cleared or half trained
  left          \* what is left of the bounds

genVars == <<artifact, disk, lock, run, container, cut, left, pools>>

Stages == <<"selfplay", "train", "gauntlet", "report">>
StageNo(name) == CHOOSE k \in 1..4 : Stages[k] = name
Shards == 0..(ShardLimit - 1)

\* A shard nobody wrote, or that was removed: nothing to concatenate.
NoShard == [status |-> "absent", file |-> <<>>]

\* `short` is history: cat left something out of the rows, and nobody looked.
EmptyDir == [champ |-> NoFile, shard |-> [i \in Shards |-> NoShard], rows |-> NoFile, short |-> FALSE, cand |-> NoFile,
             log |-> [i \in 0..(FullInstances - 1) |-> NoFile], done |-> {}, report |-> NoFile]
Ended(code) == [live |-> FALSE, code |-> code]

GenInit ==
  /\ artifact \in Champions /\ disk = [g \in 1..GenCount |-> EmptyDir]
  /\ lock = "free" /\ run = Ended("never") /\ container = NoFile /\ cut = {}
  /\ left \in Budgets
  /\ pools = [who \in {"gate", "arena"} |-> Idle]

Dir == disk[run.inv.gen]
AtPoint(point) == run.live /\ run.at = point
Goto(point) == run' = [run EXCEPT !.at = point]
Write(dir) == disk' = [disk EXCEPT ![run.inv.gen] = dir]
Spend(what) == left[what] > 0 /\ left' = [left EXCEPT ![what] = @ - 1]

\* For the mutation check: the trap is not set.
ReleasedNever == lock

\* The EXIT trap: rmdir, whoever's directory it is by then.
Released == IF run.trap THEN "free" ELSE lock

\* exit, from wherever: a trap that is set runs.
Exits(code) == run' = Ended(code) /\ lock' = Released

-----------------------------------------------------------------------------
(* Start: the champion's snapshot and the stamps --from clears *)

Invoke ==
  /\ ~run.live
  /\ \E inv \in Invocations :
       run' = [live |-> TRUE, inv |-> inv, at |-> "snapshot", stage |-> 1, took |-> FALSE, trap |-> FALSE,
               instances |-> 0, instance |-> 0]
  /\ Spend("runs")
  /\ UNCHANGED <<artifact, disk, lock, container, cut, pools>>

\* For the mutation check: the snapshot is taken anew by every run.
SnapshotIsDueAlways == TRUE

\* A snapshot that is there is kept, even when it differs from the champion.
SnapshotIsDue == Dir.champ = NoFile

FirstCleared == IF run.inv.from = "" THEN 5 ELSE StageNo(run.inv.from)

\* cp creates the file before it has written it.
SnapshotChampion ==
  /\ AtPoint("snapshot")
  /\ IF SnapshotIsDue THEN Write([Dir EXCEPT !.champ = Torn]) /\ Goto("copying")
     ELSE run' = [run EXCEPT !.at = "clear", !.stage = FirstCleared] /\ UNCHANGED disk
  /\ UNCHANGED <<artifact, lock, container, cut, left, pools>>

Copied ==
  /\ AtPoint("copying")
  /\ Write([Dir EXCEPT !.champ = artifact])
  /\ run' = [run EXCEPT !.at = "clear", !.stage = FirstCleared]
  /\ UNCHANGED <<artifact, lock, container, cut, left, pools>>

\* One rm per stage, from --from on.
ClearStamp ==
  /\ AtPoint("clear")
  /\ IF run.stage > 4 THEN run' = [run EXCEPT !.at = "dispatch", !.stage = 1] /\ UNCHANGED disk
     ELSE Write([Dir EXCEPT !.done = @ \ {Stages[run.stage]}]) /\ run' = [run EXCEPT !.stage = @ + 1]
  /\ UNCHANGED <<artifact, lock, container, cut, left, pools>>

\* run_stage: a stamped stage is skipped; report never is.
Dispatch ==
  /\ AtPoint("dispatch")
  /\ IF Stages[run.stage] \in Dir.done THEN Goto("until") ELSE Goto(Stages[run.stage])
  /\ UNCHANGED <<artifact, disk, lock, container, cut, left, pools>>

\* The drive loop, after a stage.
Until ==
  /\ AtPoint("until")
  /\ IF Stages[run.stage] = run.inv.until THEN Exits("0")
     ELSE run' = [run EXCEPT !.at = "dispatch", !.stage = @ + 1] /\ UNCHANGED lock
  /\ UNCHANGED <<artifact, disk, container, cut, left, pools>>

-----------------------------------------------------------------------------
(* selfplay *)

\* For the mutation check: the shards of an earlier run stay.
PurgedNever(shard) == shard

\* rm -f "$GDIR"/selfplay_shard_*.jsonl
Purged(shard) == [i \in Shards |-> NoShard]

LaunchShards ==
  /\ AtPoint("selfplay")
  /\ Write([Dir EXCEPT !.rows = NoFile, !.short = FALSE,
              !.shard = [i \in Shards |->
                 IF i < run.inv.shards THEN Launched(Dir.champ, Dir.champ \in Loadable, i, run.inv.shards, run.inv.env)
                 ELSE Purged(@)[i]]])
  /\ Goto("wait")
  /\ UNCHANGED <<artifact, lock, container, cut, left, pools>>

Playing(i) == AtPoint("wait") /\ i < run.inv.shards /\ Dir.shard[i].status = "playing" /\ Dir.shard[i].left # {}

ShardPlays(i) ==
  /\ Playing(i)
  /\ Write([Dir EXCEPT !.shard[i] = Generated(@)])
  /\ UNCHANGED <<artifact, lock, run, container, cut, left, pools>>

ShardFails(i) ==
  /\ Playing(i)
  /\ Write([Dir EXCEPT !.shard[i] = GeneratedTorn(@)])
  /\ Spend("faults")
  /\ UNCHANGED <<artifact, lock, run, container, cut, pools>>

ShardOf(i) == Dir.shard[i]
Settled(i) == ShardOf(i).status = "playing" /\ ShardOf(i).left = {}

\* wait for each pid in turn; one that failed ends the run while the others go on.
Waited ==
  /\ AtPoint("wait")
  /\ \/ /\ \A i \in 0..(run.inv.shards - 1) : Settled(i)
        /\ run' = [run EXCEPT !.at = "cat", !.instance = 0] /\ UNCHANGED lock
     \/ /\ \E i \in 0..(run.inv.shards - 1) : ShardOf(i).status = "failed" /\ \A k \in 0..(i - 1) : Settled(k)
        /\ Exits("2")
  /\ UNCHANGED <<artifact, disk, container, cut, left, pools>>

RowsSoFar == IF Dir.rows = NoFile THEN <<>> ELSE Dir.rows

\* cat, a shard at a time in the glob's order
Concatenate ==
  /\ AtPoint("cat")
  /\ LET k == run.instance
     IN  IF k \notin Shards THEN Goto("validate") /\ UNCHANGED disk
         ELSE /\ Write([Dir EXCEPT !.rows = RowsSoFar \o Dir.shard[k].file])
              /\ run' = [run EXCEPT !.instance = @ + 1]
  /\ UNCHANGED <<artifact, lock, container, cut, left, pools>>

\* What cat may have copied of a file when it fails: up to the end of a row, or into one.
Fragments(file) ==
  {SubSeq(file, 1, n) : n \in 0..Len(file)}
    \cup {[SubSeq(file, 1, n) EXCEPT ![n].torn = TRUE] : n \in 1..Len(file)}

\* A shard cannot be read to its end, and cat goes on to the next; or nothing more can be
\* written, and it gives up.  Its exit status is lost: run_stage is called under ||, where
\* errexit is off.
ConcatenateFails ==
  /\ AtPoint("cat") /\ run.instance \in Shards
  /\ \E part \in Fragments(Dir.shard[run.instance].file) :
       Write([Dir EXCEPT !.rows = RowsSoFar \o part, !.short = TRUE])
  /\ run' = [run EXCEPT !.instance = @ + 1] \/ Goto("validate")
  /\ Spend("faults")
  /\ UNCHANGED <<artifact, lock, container, cut, pools>>

\* The contract is a hard stop; the rows stay where they are.
Validate ==
  /\ AtPoint("validate")
  /\ IF RowsAreValid(Dir.rows) THEN Write([Dir EXCEPT !.done = @ \cup {"selfplay"}]) /\ Goto("until") /\ UNCHANGED lock
     ELSE Exits("2") /\ UNCHANGED disk
  /\ UNCHANGED <<artifact, container, cut, left, pools>>

-----------------------------------------------------------------------------
(* train *)

HasRows(g) == disk[g].rows # NoFile /\ \E c \in DOMAIN disk[g].rows : disk[g].rows[c].rows # <<>>

\* The window is the generations that have rows, whatever became of those.
TrainWindow == {g \in (run.inv.gen - Window + 1)..run.inv.gen : g >= 1 /\ HasRows(g)}

Candidate(net) == [net |-> net, from |-> [g \in TrainWindow |-> disk[g].rows]]

StartTraining ==
  /\ AtPoint("train")
  /\ IF ~HasRows(run.inv.gen) THEN Exits("2") /\ UNCHANGED disk
     ELSE Write([Dir EXCEPT !.cand = NoFile]) /\ Goto("training") /\ UNCHANGED lock
  /\ UNCHANGED <<artifact, container, cut, left, pools>>

Trained ==
  /\ AtPoint("training")
  /\ \E net \in Candidates : Write([Dir EXCEPT !.cand = Candidate(net)])
  /\ Goto("check")
  /\ UNCHANGED <<artifact, lock, container, cut, left, pools>>

\* validate_artifact.py and the Rust load may fail without stopping the stage: run_stage is
\* called under ||, where errexit is off, so the stamp is dropped whatever they said.
CheckCandidate ==
  /\ AtPoint("check")
  /\ Write([Dir EXCEPT !.done = @ \cup {"train"}]) /\ Goto("until")
  /\ UNCHANGED <<artifact, lock, container, cut, left, pools>>

-----------------------------------------------------------------------------
(* gauntlet *)

\* Autoscale: not while an arena runs.
Autoscale ==
  /\ AtPoint("gauntlet")
  /\ IF Dir.cand = NoFile THEN Exits("2")
     ELSE LET wants == run.inv.autoscale /\ run.inv.instances < FullInstances /\ ~pools["arena"].live
          IN  /\ run' = [run EXCEPT !.at = IF wants THEN "mkdir" ELSE "purge", !.instance = 0,
                                    !.instances = run.inv.instances]
              /\ UNCHANGED lock
  /\ UNCHANGED <<artifact, disk, container, cut, left, pools>>

\* mkdir is the atomic test-and-set, whatever has started since pgrep looked.
TakeLock ==
  /\ AtPoint("mkdir") /\ ~run.took
  /\ IF lock = "free" THEN lock' = "script" /\ run' = [run EXCEPT !.took = TRUE]
     ELSE Goto("purge") /\ UNCHANGED lock
  /\ UNCHANGED <<artifact, disk, container, cut, left, pools>>

\* The lock is held for a few lines before the trap is there to give it back.
SetTrap ==
  /\ AtPoint("mkdir") /\ run.took
  /\ run' = [run EXCEPT !.at = "purge", !.trap = TRUE, !.instances = FullInstances]
  /\ UNCHANGED <<artifact, disk, lock, container, cut, left, pools>>

\* For the mutation check: the logs of a run with more instances stay.
LogsPurgedNever(log) == log

\* rm -f "$GDIR"/logs/gauntlet_*.log
LogsPurged(log) == [i \in DOMAIN log |-> NoFile]

PurgeLogs ==
  /\ AtPoint("purge")
  /\ Write([Dir EXCEPT !.log = LogsPurged(@)])
  /\ Goto("instance")
  /\ UNCHANGED <<artifact, lock, container, cut, left, pools>>

\* An instance that cannot load its nets is a failed instance.
StartInstance ==
  /\ AtPoint("instance") /\ run.instance < run.instances
  /\ LET nets == {Dir.cand.net, Dir.champ}
         job == NetGauntletJob(Dir.cand.net, Dir.champ, EvenGames(run.inv.games), 1, run.instance + 1, Knobs.jobs, Knobs)
     IN  IF nets \subseteq Loadable /\ ConfigIsValid(job)
         THEN /\ Write([Dir EXCEPT !.log[run.instance] = Torn])
              /\ pools' = [pools EXCEPT !["gate"] = PoolFor(job)]
              /\ Goto("playing") /\ UNCHANGED lock
         ELSE Exits("2") /\ Write([Dir EXCEPT !.log[run.instance] = Torn]) /\ UNCHANGED pools
  /\ UNCHANGED <<artifact, container, cut, left>>

\* The RESULT line is there before the exit code says whether to believe it.
EndInstance ==
  /\ AtPoint("playing") /\ AllEnded(pools["gate"])
  /\ LET pool == pools["gate"]
         tally == Tally(Collected(pool))
     IN  IF RunFailed(pool) THEN Exits("2") /\ UNCHANGED disk
         ELSE /\ Write([Dir EXCEPT !.log[run.instance] = [a |-> pool.job.netA, b |-> pool.job.netB, tally |-> tally]])
              /\ IF ExitsClean(pool) THEN run' = [run EXCEPT !.at = "instance", !.instance = @ + 1] /\ UNCHANGED lock
                 ELSE Exits("2")
  /\ pools' = [pools EXCEPT !["gate"] = Idle]
  /\ UNCHANGED <<artifact, container, cut, left>>

\* rmdir, after the last instance: the trap is still set.
GiveLockBack ==
  /\ AtPoint("instance") /\ run.instance = run.instances /\ run.took
  /\ lock' = "free" /\ Goto("untrap")
  /\ UNCHANGED <<artifact, disk, container, cut, left, pools>>

\* For the mutation check: the trap stays set.
UntrappedNever(r) == [r EXCEPT !.took = FALSE]

\* trap - EXIT
Untrapped(r) == [r EXCEPT !.took = FALSE, !.trap = FALSE]

GauntletDone ==
  /\ AtPoint("untrap") \/ (AtPoint("instance") /\ run.instance = run.instances /\ ~run.took)
  /\ run' = [Untrapped(run) EXCEPT !.at = "until"]
  /\ Write([Dir EXCEPT !.done = @ \cup {"gauntlet"}])
  /\ UNCHANGED <<artifact, lock, container, cut, left, pools>>

-----------------------------------------------------------------------------
(* report *)

Results == {i \in DOMAIN Dir.log : Dir.log[i] \notin {NoFile, Torn}}

\* Pool first, then divide.
Pooled ==
  LET Sum(field) == FoldLeft(LAMBDA sum, i : IF i \in Results THEN sum + Dir.log[i].tally[field] ELSE sum, 0,
                             [k \in 1..FullInstances |-> k - 1])
  IN  [w |-> Sum("w"), l |-> Sum("l"), d |-> Sum("d"), capped |-> Sum("capped"), stalled |-> Sum("stalled")]

Report ==
  /\ AtPoint("report")
  /\ IF Results = {} \/ GamesOf(Pooled) = 0 THEN Exits("2") /\ UNCHANGED disk
     ELSE /\ Write([Dir EXCEPT !.report = [logs |-> {Dir.log[i] : i \in Results}, pooled |-> Pooled,
                                            cand |-> Dir.cand, champ |-> Dir.champ, rows |-> Dir.rows,
                                            gateable |-> VerdictOf(Pooled) = "Gateable"]])
          /\ Exits(IF ScoreMeets(Pooled, GatePercent) THEN "0" ELSE "1")
  /\ UNCHANGED <<artifact, container, cut, left, pools>>

-----------------------------------------------------------------------------
(* What goes wrong, and what else happens on the box *)

\* A tool the stage calls fails, or the trainer exits other than 0: die.
ToolFails ==
  /\ run.live /\ run.at \in {"training", "validate"}
  /\ Exits("2") /\ Spend("faults")
  /\ UNCHANGED <<artifact, disk, container, cut, pools>>

\* What a half-cleared run leaves stamped although an earlier stage of --from is not.
HalfCleared == AtPoint("clear") /\ \E k \in run.stage..4 : Stages[k] \in Dir.done

\* A signal ends the script; a container goes on.
Interrupted(locked) ==
  /\ run.live
  /\ run' = Ended("killed")
  /\ lock' = locked
  /\ IF AtPoint("training") THEN \E net \in Candidates : container' = [gen |-> run.inv.gen, cand |-> Candidate(net)]
     ELSE UNCHANGED container
  /\ cut' = IF HalfCleared \/ AtPoint("training") THEN cut \cup {run.inv.gen} ELSE cut
  /\ pools' = [pools EXCEPT !["gate"] = Idle]
  /\ Spend("faults")
  /\ UNCHANGED <<artifact, disk>>

LeftBehind == IF lock = "script" THEN "stale" ELSE lock

\* SIGKILL, or the box goes down: no trap runs.
Killed == Interrupted(LeftBehind)

\* SIGTERM or an interrupt: bash runs the EXIT trap on its way out, if there is one yet, or
\* one still.
Terminated == Interrupted(IF run.trap THEN Released ELSE LeftBehind)

ContainerEnds ==
  /\ container # NoFile
  /\ disk' = [disk EXCEPT ![container.gen].cand = container.cand]
  /\ container' = NoFile
  /\ UNCHANGED <<artifact, lock, run, cut, left, pools>>

WorkerPanics(who, w) ==
  /\ Panics(who, w) /\ Spend("faults")
  /\ UNCHANGED <<artifact, disk, lock, run, container, cut>>

WorkerSteps(who, w) ==
  /\ Fetch(who, w) \/ PlayGame(who, w)
  /\ UNCHANGED <<artifact, disk, lock, run, container, cut, left>>

\* The canary pipeline promotes another champion.
Promote ==
  /\ \E net \in Champions \ {artifact} : artifact' = net
  /\ Spend("moves")
  /\ UNCHANGED <<disk, lock, run, container, cut, pools>>

\* Another user takes the lock, gives it back, or clears a stale one.
OtherTakes == /\ lock = "free" /\ lock' = "other" /\ Spend("moves")
              /\ UNCHANGED <<artifact, disk, run, container, cut, pools>>
OtherReleases == /\ lock \in {"other", "stale"} /\ lock' = "free"
                 /\ UNCHANGED <<artifact, disk, run, container, cut, left, pools>>

ArenaStarts ==
  /\ ~pools["arena"].live
  /\ \E flags \in ArenaFlags :
       /\ ArenaAccepts(flags)
       /\ {ToConfig(flags).netA, ToConfig(flags).netB} \ {NoFlag} \subseteq Loadable
       /\ pools' = [pools EXCEPT !["arena"] = PoolFor(ToConfig(flags))]
  /\ Spend("moves")
  /\ UNCHANGED <<artifact, disk, lock, run, container, cut>>

ArenaEnds ==
  /\ AllEnded(pools["arena"])
  /\ pools' = [pools EXCEPT !["arena"] = Idle]
  /\ UNCHANGED <<artifact, disk, lock, run, container, cut, left>>

ScriptSteps ==
  \/ Invoke \/ SnapshotChampion \/ Copied \/ ClearStamp \/ Dispatch \/ Until
  \/ LaunchShards \/ Waited \/ Concatenate \/ Validate \/ \E i \in Shards : ShardPlays(i)
  \/ StartTraining \/ Trained \/ CheckCandidate
  \/ Autoscale \/ TakeLock \/ SetTrap \/ PurgeLogs \/ StartInstance \/ EndInstance \/ GiveLockBack \/ GauntletDone
  \/ Report

BoxSteps ==
  \/ ToolFails \/ ConcatenateFails \/ Killed \/ Terminated \/ ContainerEnds \/ Promote \/ OtherTakes \/ OtherReleases \/ ArenaStarts \/ ArenaEnds
  \/ \E i \in Shards : ShardFails(i)
  \/ \E who \in {"gate", "arena"}, w \in 1..2 : WorkerSteps(who, w) \/ WorkerPanics(who, w)

GenNext == ScriptSteps \/ BoxSteps

GenSpec == GenInit /\ [][GenNext]_genVars

-----------------------------------------------------------------------------
(* Properties *)

\* The positions the rule judges when a game is played out: the searched ones, up to the first
\* that ends it.
IsSearched(position) == ~position.over /\ position.visits # <<>>
Judged(script) ==
  {k \in 1..(IF Len(script) < PlyCeiling THEN Len(script) ELSE PlyCeiling) :
     IsSearched(script[k]) /\ \A j \in 1..(k - 1) : IsSearched(script[j]) /\ script[j].chosen}

\* A seat's positions up to k since it last had hope.
Trail(script, k, seat, threshold) ==
  {j \in 1..k : /\ script[j].mover = seat
                /\ \A i \in j..k : script[i].mover = seat => Hopeless(seat, script[i].value, threshold)}

\* Where the rule fires: at the first position whose mover finds the last `plies` of its own
\* hopeless; 0 if there is none.
FiresAt(script, rules) ==
  LET firing == {k \in Judged(script) :
                   Cardinality(Trail(script, k, script[k].mover, rules.threshold)) >= rules.plies}
  IN  IF firing = {} THEN 0 ELSE CHOOSE k \in firing : \A j \in firing : k <= j

PlayedOut(net) == [g \in 0..(GameCount - 1) |-> PlayIn(net, g, [on |-> FALSE], [on |-> FALSE], FALSE)]

\* What the loser of a game stopped at k makes it.
LossAt(script, k) == IF script[k].mover = 1 THEN -1 ELSE 1

\* What is measured over the control games, from the games played out and where each would stop.
SavedBy(stats, control, net, out, stop) ==
  /\ stats.would = Cardinality(control)
  /\ stats.searchesSaved = SumOf([g \in control |-> out[g].searches - stop[g]])
  /\ stats.pliesSaved = SumOf([g \in control |-> out[g].plies - (stop[g] - 1)])
  /\ stats.wrong = SumOf([g \in control |-> One(out[g].z # LossAt(Script[net][g], stop[g]))])

\* The first k positions with a choice: a forced move leaves no row.
Unforced(script, k) == {j \in 1..k : Len(script[j].visits) > 1}

\* The rows of one game, stopped at k or played out.
CutAt(chunk, out, script, k) ==
  /\ Len(chunk.rows) = IF k = 0 THEN Len(out.rows) ELSE Cardinality(Unforced(script, k))
  /\ \A i \in DOMAIN chunk.rows : /\ chunk.rows[i].ply = out.rows[i].ply
                                  /\ chunk.rows[i].z = IF k = 0 THEN out.z ELSE LossAt(script, k)

Measures(shard, rules, out, stop) ==
  LET games == {shard.file[c].g : c \in DOMAIN shard.file}
  IN  /\ SavedBy(shard.stats, {g \in games : IsControl(g, rules) /\ stop[g] # 0}, shard.net, out, stop)
      /\ \A c \in DOMAIN shard.file :
           LET g == shard.file[c].g
           IN  CutAt(shard.file[c], out[g], Script[shard.net][g], IF IsControl(g, rules) THEN 0 ELSE stop[g])

\* The control arm measures what resigning would have done: over the control games a shard has
\* played, what it says resignation saved and how often it was wrong is the difference to the
\* same games stopped where the rule first fires; and a game outside the arm that fires is cut
\* there, a loss for the seat to move, its rows the first of the game played out.
ControlIsTheCounterfactual ==
  \A gen \in 1..GenCount : \A idx \in {i \in Shards : disk[gen].shard[i] # NoShard} :
    LET shard == disk[gen].shard[idx]
        rules == ResolveResign(shard.env.resign)
        out == PlayedOut(shard.net)
    IN  (shard.status # "failed" /\ rules.on) =>
          Measures(shard, rules, out,
                   [g \in 0..(GameCount - 1) |-> FiresAt(Script[shard.net][g], rules)])

Swapped(job) == [job EXCEPT !.sideA = job.sideB, !.sideB = job.sideA, !.netA = job.netB, !.netB = job.netA]

\* A node or depth budget on both sides: the only modes in which a run is a function of its
\* configuration (gauntlet.rs, "Determinism").
Reproducible(job) == ~Timed(job.sideA) /\ ~Timed(job.sideB)

IsComplete(job, games) ==
  /\ Len(games) % 2 = 0 /\ Len(games) \in job.games..(job.games + 1)
  /\ \A k \in DOMAIN games : games[k].index = k - 1

Cancels(job, tally, mirrored) ==
  /\ mirrored.w = tally.l /\ mirrored.d = tally.d
  /\ (job.sideA = job.sideB /\ job.netA = job.netB) => tally.w = tally.l

\* A gauntlet that ends without a panic has played every index of an even number of games once,
\* however the threads shared them.  In a node or depth budget its pairs differ in nothing but
\* who has which seat: the same job with its sides exchanged tallies the exact opposite, so
\* neither the first move nor the opening favours a side, and a side against itself scores
\* even.  Under a wall clock the code promises no such thing, and none is claimed.
PairsCancel ==
  \A who \in DOMAIN pools :
    (pools[who].live /\ AllEnded(pools[who]) /\ ~RunFailed(pools[who])) =>
      LET job == pools[who].job
          games == Collected(pools[who])
      IN  /\ IsComplete(job, games)
          /\ Reproducible(job) =>
               Cancels(job, Tally(games),
                       Tally([k \in DOMAIN games |-> GameResult(Swapped(job), k - 1, NoClock)]))

\* Once self-play is stamped, the rows hold every game of the generation exactly once, whole,
\* as the champion's snapshot plays it, however many shards it was dealt to, whatever earlier
\* runs left behind and whichever champion has been promoted since; and a row's policy counts
\* add up to the visits of its search.  Unless cat failed: the script loses its exit status,
\* and the validator has no count to compare the rows with (README).
RowsAreTheGeneration ==
  \A gen \in 1..GenCount : "selfplay" \in disk[gen].done /\ ~disk[gen].short =>
    LET rows == disk[gen].rows
    IN  /\ rows # NoFile
        /\ Len(rows) = GameCount /\ {rows[c].g : c \in DOMAIN rows} = 0..(GameCount - 1)
        /\ \A c \in DOMAIN rows :
             /\ rows[c].net = disk[gen].champ /\ ~rows[c].torn
             /\ \A i \in DOMAIN rows[c].rows :
                  LET row == rows[c].rows[i]
                  IN  SumOf(row.pv) = SumOf(Script[rows[c].net][row.g][row.ply + 1].visits)

\* A report is about the candidate it names: every tally it pools is of that candidate against
\* that champion, which is the one the rows were played with, and the candidate was trained on
\* those rows; except in a generation where a run was killed while it was clearing stamps or
\* training (README).
ReportIsOfTheCandidate ==
  \A gen \in (1..GenCount) \ cut : disk[gen].report # NoFile =>
    LET report == disk[gen].report
    IN  /\ \A log \in report.logs : log.a = report.cand.net /\ log.b = report.champ
        /\ \A c \in DOMAIN report.rows : report.rows[c].net = report.champ
        /\ gen \in DOMAIN report.cand.from /\ report.cand.from[gen] = report.rows

\* The arena lock is the script's exactly from mkdir to rmdir of a live run, which every ending
\* but a signal goes through the trap of; and while a run plays more instances than it was asked
\* for, the lock is its own.
LockIsReleased ==
  /\ lock = "script" <=> run.live /\ (run.live => run.took /\ run.at # "untrap")
  /\ AtPoint("playing") => (run.instances > run.inv.instances => lock = "script")

\* Another user's lock goes only by its own hand, except in the one window the script leaves:
\* a run that is ended between rmdir and `trap - EXIT` runs rmdir again (generation.sh:415).
OthersKeepTheirLock ==
  [][(lock = "other" /\ lock' # "other") =>
       (run' = run \/ (AtPoint("untrap") /\ ~run'.live))]_genVars
=============================================================================
