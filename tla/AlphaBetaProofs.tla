---------------------------- MODULE AlphaBetaProofs ----------------------------
(***************************************************************************)
(* Proofs about the alpha-beta engine's adapter and about the clock that   *)
(* budgets the searches.                                                   *)
(*                                                                         *)
(* The adapter, for whatever an iteration of the search answers: a         *)
(* searcher is built for a shape and stays so, and the one that is kept    *)
(* has the shape of the position of the call that holds the lock           *)
(* (FitInv); a call that searches was not cancelled when it began, so it   *)
(* is of the game its epoch says (CountInv).                               *)
(*                                                                         *)
(* The clock: the allocator is safe by arithmetic (Division and            *)
(* Extension); the turn is bounded because the orderly client runs one     *)
(* search at a time, at most three of them in a turn, each on what the     *)
(* ones before it left in the bank.                                        *)
(***************************************************************************)
EXTENDS AlphaBetaEngine, TurnClock, FiniteSetTheorems, TLAPS

(***************************************************************************)
(* The alpha-beta engine                                                   *)
(***************************************************************************)

\* A call with all of its fields, and a searcher with all of its own.
Fields == {"stage", "pos", "game", "cancelled", "epoch", "own", "fresh", "s", "token", "watcher",
           "done", "depth", "best", "panicked", "action", "judged"}
IsCall(call) == call = [f \in Fields |-> call[f]]
IsSearcher(s) ==
  s = [root |-> s.root, multi |-> s.multi, options |-> s.options, table |-> s.table, gen |-> s.gen,
       map |-> s.map, killers |-> s.killers, history |-> s.history, left |-> s.left]

\* A searcher built for a shape.
Built(s, shape) ==
  /\ IsSearcher(s) /\ s.root = shape.root /\ s.multi = (Cardinality(shape.active) > 2)

IsKept(kept) == kept = [shape |-> kept.shape, s |-> kept.s] /\ Built(kept.s, kept.shape)

\* A new searcher is built for its position's shape.
LEMMA NewIsBuilt ==
  ASSUME NEW p, NEW options
  PROVE  Built(NewSearcher(p, options), Shape(p))
BY DEF NewSearcher, Built, IsSearcher, Shape

\* Neither the start of a search nor what it leaves behind changes what a searcher is built for.
LEMMA BegunIsBuilt ==
  ASSUME NEW s, NEW shape, Built(s, shape)
  PROVE  Built(Begun(s), shape)
<1> DEFINE t == [s EXCEPT !.left = Never]
<1>1. IsSearcher(t) /\ t.root = s.root /\ t.multi = s.multi
  BY DEF Built, IsSearcher
<1>2. QED BY <1>1 DEF Built, IsSearcher, Begun, BeginSearch

LEMMA LearnedIsBuilt ==
  ASSUME NEW s, NEW after, NEW shape, Built(s, shape)
  PROVE  Built(Learned(s, after), shape)
BY DEF Built, IsSearcher, Learned

\* The searcher of a call that searches is its own or the one it holds the lock of, built for its
\* position's shape either way; and each panic befell a search.
Fits(call, c, holder, kept) ==
  /\ call.stage \in {"asked", "entered"} => ~call.own
  /\ call.stage = "searching" =>
       IF call.own THEN Built(call.s, Shape(call.pos))
       ELSE holder = c /\ IsKept(kept) /\ kept.shape = Shape(call.pos)
PanickedCalls == {c \in CallId : calls[c].panicked}
FitInv ==
  /\ \E n \in Nat : DOMAIN calls = 1..n
  /\ \A c \in CallId : IsCall(calls[c])
  /\ lock = Free \/ lock \in CallId
  /\ cached # NoSearcher => IsKept(cached)
  /\ \A c \in CallId : Fits(calls[c], c, lock, cached)
  /\ panics \in Nat /\ Cardinality(PanickedCalls) <= panics

LEMMA FitInvInit == EngineInit => FitInv
<1> SUFFICES ASSUME EngineInit PROVE FitInv
  OBVIOUS
<1>1. CallId = {} /\ PanickedCalls = {} /\ DOMAIN calls = 1..0
  BY DEF EngineInit, CallId, PanickedCalls
<1>2. Cardinality(PanickedCalls) = 0
  BY <1>1, FS_EmptySet
<1> QED BY <1>1, <1>2 DEF FitInv, EngineInit

\* What a step of one call has to show: its record is whole, its searcher fits, and it has not
\* panicked unless the panic is counted.
StaysFit(c, call) ==
  /\ IsCall(call) /\ Fits(call, c, lock', cached')
  /\ call.panicked => calls[c].panicked \/ panics' = panics + 1

\* The calls that have panicked, after a step of one call.
LEMMA PanicsCounted ==
  ASSUME FitInv, NEW c \in CallId, NEW call, Becomes(c, call), panics' \in {panics, panics + 1},
         call.panicked => calls[c].panicked \/ panics' = panics + 1
  PROVE  Cardinality(PanickedCalls') <= panics'
<1>1. PICK n \in Nat : DOMAIN calls = 1..n
  BY DEF FitInv
<1>2. DOMAIN calls' = DOMAIN calls /\ \A d \in CallId : calls'[d] = IF d = c THEN call ELSE calls[d]
  BY DEF Becomes, CallId
<1>3. IsFiniteSet(PanickedCalls)
  <2>1. IsFiniteSet(1..n)
    BY FS_Interval
  <2> QED BY <2>1, <1>1, FS_Subset DEF PanickedCalls, CallId
<1>4. PanickedCalls' \subseteq PanickedCalls
      \/ (PanickedCalls' \subseteq PanickedCalls \cup {c} /\ panics' = panics + 1)
  BY <1>2 DEF PanickedCalls, CallId
<1>5. Cardinality(PanickedCalls \cup {c}) <= Cardinality(PanickedCalls) + 1
  <2>1. Cardinality(PanickedCalls) \in Nat
    BY <1>3, FS_CardinalityType
  <2>2. \/ Cardinality(PanickedCalls \cup {c}) = Cardinality(PanickedCalls)
        \/ Cardinality(PanickedCalls \cup {c}) = Cardinality(PanickedCalls) + 1
    BY <1>3, FS_AddElement
  <2> QED BY <2>1, <2>2
<1>6. IsFiniteSet(PanickedCalls \cup {c})
  BY <1>3, FS_AddElement
<1>7. Cardinality(PanickedCalls) \in Nat /\ Cardinality(PanickedCalls \cup {c}) \in Nat
  BY <1>3, <1>6, FS_CardinalityType
<1>8. CASE PanickedCalls' \subseteq PanickedCalls
  <2>1. Cardinality(PanickedCalls') <= Cardinality(PanickedCalls) /\ Cardinality(PanickedCalls') \in Nat
    BY <1>8, <1>3, FS_Subset, FS_CardinalityType
  <2> QED BY <2>1, <1>7 DEF FitInv
<1>9. CASE PanickedCalls' \subseteq PanickedCalls \cup {c} /\ panics' = panics + 1
  <2>1. Cardinality(PanickedCalls') <= Cardinality(PanickedCalls \cup {c}) /\ Cardinality(PanickedCalls') \in Nat
    BY <1>9, <1>6, FS_Subset, FS_CardinalityType
  <2> QED BY <2>1, <1>9, <1>7, <1>5 DEF FitInv
<1> QED BY <1>4, <1>8, <1>9

\* A step of one call, from what it does.
LEMMA CallStep ==
  ASSUME FitInv, NEW c \in CallId, NEW call, Becomes(c, call), StaysFit(c, call),
         panics' \in {panics, panics + 1}, lock' \in {lock, c, Free},
         cached' # NoSearcher => IsKept(cached'),
         \A d \in CallId \ {c} : Fits(calls[d], d, lock, cached) => Fits(calls[d], d, lock', cached')
  PROVE  FitInv'
<1>1. DOMAIN calls' = DOMAIN calls /\ CallId' = CallId
      /\ \A d \in CallId : calls'[d] = IF d = c THEN call ELSE calls[d]
  BY DEF Becomes, CallId
<1>2. Cardinality(PanickedCalls') <= panics'
  BY PanicsCounted DEF StaysFit
<1>3. \A d \in CallId' : IsCall(calls'[d])
  BY <1>1 DEF FitInv, StaysFit
<1>4. \A d \in CallId' : Fits(calls'[d], d, lock', cached')
  <2> SUFFICES ASSUME NEW d \in CallId PROVE Fits(calls'[d], d, lock', cached')
    BY <1>1
  <2>1. CASE d = c
    BY <2>1, <1>1 DEF StaysFit, Fits
  <2>2. CASE d # c
    BY <2>2, <1>1 DEF FitInv
  <2> QED BY <2>1, <2>2
<1> QED BY <1>1, <1>2, <1>3, <1>4 DEF FitInv

\* A step of one call that leaves lock and searcher alone.
LEMMA QuietStep ==
  ASSUME FitInv, NEW c \in CallId, NEW call, Becomes(c, call), StaysFit(c, call),
         panics' \in {panics, panics + 1}, lock' = lock, cached' = cached
  PROVE  FitInv'
<1>1. cached' # NoSearcher => IsKept(cached')
  BY DEF FitInv
<1>2. \A d \in CallId \ {c} : Fits(calls[d], d, lock, cached) => Fits(calls[d], d, lock', cached')
  OBVIOUS
<1>3. lock' \in {lock, c, Free}
  OBVIOUS
<1> HIDE DEF StaysFit, Becomes
<1> QED BY <1>1, <1>2, <1>3, CallStep

LEMMA ReadEpochFits ==
  ASSUME FitInv, NEW c \in CallId, ReadEpoch(c)
  PROVE  FitInv'
<1> DEFINE call == [calls[c] EXCEPT !.stage = "entered", !.epoch = explore.index]
<1>1. /\ Becomes(c, call) /\ panics' = panics /\ lock' = lock /\ cached' = cached
      /\ calls[c].stage = "asked"
  BY DEF ReadEpoch
<1>2. /\ IsCall(call) /\ call.panicked = calls[c].panicked /\ call.own = calls[c].own
      /\ call.stage = "entered"
  BY DEF FitInv, IsCall, Fields
<1>3. StaysFit(c, call)
  BY <1>1, <1>2 DEF FitInv, StaysFit, Fits
<1> HIDE DEF call
<1> QED BY <1>1, <1>3, QuietStep

LEMMA RefuseFits ==
  ASSUME FitInv, NEW c \in CallId, Refuse(c)
  PROVE  FitInv'
<1> DEFINE call == [calls[c] EXCEPT !.stage = "done"]
<1>1. Becomes(c, call) /\ panics' = panics /\ lock' = lock /\ cached' = cached
  BY DEF Refuse
<1>2. IsCall(call) /\ call.panicked = calls[c].panicked /\ call.stage = "done"
  BY DEF FitInv, IsCall, Fields
<1>3. StaysFit(c, call)
  BY <1>1, <1>2 DEF StaysFit, Fits
<1> HIDE DEF call
<1> QED BY <1>1, <1>3, QuietStep

\* A call that starts on a searcher built for its position does not panic.
LEMMA StartedFits ==
  ASSUME NEW call, IsCall(call), NEW s, Built(s, Shape(call.pos))
  PROVE  /\ IsCall(Started(call, s)) /\ Started(call, s).panicked = call.panicked
         /\ Started(call, s).pos = call.pos /\ Started(call, s).own = call.own
         /\ Started(call, s).stage \in {"joining", "searching"}
BY DEF IsCall, Fields, Started, Built, Shape, AssertRoot

LEMMA TokenGiven ==
  ASSUME NEW call, IsCall(call), NEW fresh
  PROVE  LET given == [call EXCEPT !.token = FALSE, !.fresh = fresh]
         IN  /\ IsCall(given) /\ given.panicked = call.panicked /\ given.pos = call.pos
             /\ given.stage = call.stage /\ given.own = call.own
BY DEF IsCall, Fields

LEMMA TakeLockFits ==
  ASSUME FitInv, NEW c \in CallId, TakeLock(c)
  PROVE  FitInv'
<1> DEFINE kept == Fitting(calls[c].pos)
           started == Started(calls[c], kept.s)
           fresh == kept # cached
           call == [started EXCEPT !.token = FALSE, !.fresh = fresh]
<1>1. /\ Becomes(c, call) /\ panics' = panics /\ lock = Free /\ lock' = c
      /\ calls[c].stage = "entered"
      /\ cached' = IF started.stage = "searching" THEN [kept EXCEPT !.s = Begun(@)] ELSE kept
  BY Zenon DEF TakeLock
<1>2. IsKept(kept) /\ kept.shape = Shape(calls[c].pos)
  <2>1. IsKept([shape |-> Shape(calls[c].pos), s |-> NewSearcher(calls[c].pos, setup.options)])
    BY NewIsBuilt DEF IsKept
  <2> QED BY <2>1 DEF FitInv, Fitting
<1>3. IsCall(calls[c])
  BY DEF FitInv
<1> HIDE DEF kept
<1>4. /\ IsCall(started) /\ started.panicked = calls[c].panicked /\ started.pos = calls[c].pos
      /\ started.own = calls[c].own
  BY <1>2, <1>3, StartedFits DEF IsKept
<1> HIDE DEF started, fresh
<1>5. /\ IsCall(call) /\ call.panicked = calls[c].panicked /\ call.pos = calls[c].pos
      /\ call.stage = started.stage /\ call.own = started.own
  BY <1>4, TokenGiven
<1>6. IsKept(cached') /\ cached'.shape = Shape(calls[c].pos)
  <2>1. Built(Begun(kept.s), kept.shape)
    BY <1>2, BegunIsBuilt DEF IsKept
  <2>2. IsKept([kept EXCEPT !.s = Begun(@)]) /\ [kept EXCEPT !.s = Begun(@)].shape = kept.shape
    BY <2>1, <1>2 DEF IsKept
  <2> QED BY <2>2, <1>1, <1>2
<1>7. ~call.own
  BY <1>5, <1>4, <1>1 DEF FitInv, Fits
<1> HIDE DEF call
<1>8. Fits(call, c, lock', cached')
  BY <1>7, <1>6, <1>1, <1>5 DEF Fits
<1>9. StaysFit(c, call)
  BY <1>8, <1>5 DEF StaysFit
<1>10. \A d \in CallId \ {c} : Fits(calls[d], d, lock, cached) => Fits(calls[d], d, lock', cached')
  BY <1>1 DEF Fits, FitInv, CallId, Free
<1> QED BY <1>9, <1>10, <1>1, <1>6, CallStep

LEMMA ContendedFits ==
  ASSUME FitInv, NEW c \in CallId, Contended(c)
  PROVE  FitInv'
<1> DEFINE s == NewSearcher(calls[c].pos, setup.options)
           started == Started(calls[c], s)
           begun == Begun(s)
           call == [started EXCEPT !.own = TRUE, !.fresh = TRUE, !.s = begun]
<1>1. Becomes(c, call) /\ panics' = panics /\ lock' = lock /\ cached' = cached
  BY Zenon DEF Contended
<1>2. IsCall(calls[c])
  BY DEF FitInv
<1>3. Built(s, Shape(calls[c].pos)) /\ Built(begun, Shape(calls[c].pos))
  BY NewIsBuilt, BegunIsBuilt
<1> HIDE DEF s, begun
<1>4. IsCall(started) /\ started.panicked = calls[c].panicked /\ started.pos = calls[c].pos
      /\ started.stage \in {"joining", "searching"}
  BY <1>2, <1>3, StartedFits
<1> HIDE DEF started
<1>5. /\ IsCall(call) /\ call.panicked = calls[c].panicked /\ call.pos = calls[c].pos
      /\ call.stage \in {"joining", "searching"} /\ call.own = TRUE /\ call.s = begun
  BY <1>4 DEF IsCall, Fields
<1> HIDE DEF call
<1>6. StaysFit(c, call)
  BY <1>5, <1>3 DEF StaysFit, Fits
<1> QED BY <1>1, <1>6, QuietStep

LEMMA EnoughFits ==
  ASSUME FitInv, NEW c \in CallId, Enough(c)
  PROVE  FitInv'
<1> DEFINE call == [calls[c] EXCEPT !.stage = "joining", !.done = TRUE]
<1>1. Becomes(c, call) /\ panics' = panics /\ lock' = lock /\ cached' = cached
  BY DEF Enough
<1>2. IsCall(call) /\ call.panicked = calls[c].panicked /\ call.stage = "joining"
  BY DEF FitInv, IsCall, Fields
<1> HIDE DEF call
<1>3. StaysFit(c, call)
  BY <1>1, <1>2 DEF StaysFit, Fits
<1> QED BY <1>1, <1>3, QuietStep

LEMMA PanicsFits ==
  ASSUME FitInv, NEW c \in CallId, Panics(c)
  PROVE  FitInv'
<1> DEFINE call == [calls[c] EXCEPT !.stage = "joining", !.done = TRUE, !.panicked = TRUE]
<1>1. Becomes(c, call) /\ panics' = panics + 1 /\ lock' = lock /\ cached' = cached
  BY DEF Panics
<1>2. IsCall(call) /\ call.stage = "joining"
  BY DEF FitInv, IsCall, Fields
<1> HIDE DEF call
<1>3. StaysFit(c, call)
  BY <1>1, <1>2 DEF StaysFit, Fits
<1> QED BY <1>1, <1>3, QuietStep

LEMMA WatchFits ==
  ASSUME FitInv, NEW c \in CallId, Watch(c)
  PROVE  FitInv'
<1> DEFINE token == ~calls[c].done
           call == [calls[c] EXCEPT !.watcher = "gone", !.token = token]
<1>1. Becomes(c, call) /\ panics' = panics /\ lock' = lock /\ cached' = cached
  BY DEF Watch
<1> HIDE DEF token
<1>2. IsCall(call) /\ call.panicked = calls[c].panicked /\ call.stage = calls[c].stage
      /\ call.own = calls[c].own /\ call.s = calls[c].s /\ call.pos = calls[c].pos
  BY DEF FitInv, IsCall, Fields
<1> HIDE DEF call
<1>3. StaysFit(c, call)
  BY <1>1, <1>2 DEF FitInv, StaysFit, Fits
<1> QED BY <1>1, <1>3, QuietStep

LEMMA JoinFits ==
  ASSUME FitInv, NEW c \in CallId, Join(c)
  PROVE  FitInv'
<1> DEFINE stage == IF calls[c].stage = "joining" /\ calls[c].panicked THEN "done" ELSE "found"
           call == [calls[c] EXCEPT !.stage = stage, !.s = NoSearcher]
<1>1. /\ Becomes(c, call) /\ panics' = panics /\ lock' = (IF lock = c THEN Free ELSE lock)
      /\ cached' = cached
  BY DEF Join
<1>2. stage \in {"done", "found"}
  OBVIOUS
<1> HIDE DEF stage
<1>3. IsCall(call) /\ call.panicked = calls[c].panicked /\ call.stage \in {"done", "found"}
  BY <1>2 DEF FitInv, IsCall, Fields
<1> HIDE DEF call
<1>4. StaysFit(c, call)
  BY <1>1, <1>3 DEF StaysFit, Fits
<1>5. \A d \in CallId \ {c} : Fits(calls[d], d, lock, cached) => Fits(calls[d], d, lock', cached')
  BY <1>1 DEF Fits
<1>6. (cached' # NoSearcher => IsKept(cached')) /\ lock' \in {lock, c, Free}
  BY <1>1 DEF FitInv
<1> QED BY <1>1, <1>4, <1>5, <1>6, CallStep

LEMMA LookFits ==
  ASSUME FitInv, NEW c \in CallId, Look(c)
  PROVE  FitInv'
<1> DEFINE stage == IF calls[c].cancelled THEN "done" ELSE "judging"
           action == IF calls[c].cancelled THEN NoAct ELSE calls[c].best.act
           call == [calls[c] EXCEPT !.stage = stage, !.action = action]
<1>1. Becomes(c, call) /\ panics' = panics /\ lock' = lock /\ cached' = cached
  BY DEF Look
<1>2. stage \in {"done", "judging"}
  OBVIOUS
<1> HIDE DEF stage, action
<1>3. IsCall(call) /\ call.panicked = calls[c].panicked /\ call.stage \in {"done", "judging"}
  BY <1>2 DEF FitInv, IsCall, Fields
<1> HIDE DEF call
<1>4. StaysFit(c, call)
  BY <1>1, <1>3 DEF StaysFit, Fits
<1> QED BY <1>1, <1>4, QuietStep

LEMMA VerdictFits ==
  ASSUME FitInv, NEW c \in CallId, Verdict(c)
  PROVE  FitInv'
<1>1. PICK action : Becomes(c, [calls[c] EXCEPT !.stage = "done", !.judged = TRUE, !.action = action])
                    /\ panics' = panics /\ lock' = lock /\ cached' = cached
  BY DEF Verdict
<1> DEFINE call == [calls[c] EXCEPT !.stage = "done", !.judged = TRUE, !.action = action]
<1>2. IsCall(call) /\ call.panicked = calls[c].panicked /\ call.stage = "done"
  BY DEF FitInv, IsCall, Fields
<1>3. Becomes(c, call)
  BY <1>1
<1> HIDE DEF call
<1>4. StaysFit(c, call)
  BY <1>1, <1>2 DEF StaysFit, Fits
<1> QED BY <1>1, <1>3, <1>4, QuietStep

\* An iteration changes neither what a call asks about nor whose searcher it uses.
LEMMA AfterIs ==
  ASSUME NEW call, IsCall(call), call.stage = "searching", NEW r
  PROVE  /\ IsCall(After(call, r)) /\ After(call, r).panicked = call.panicked
         /\ After(call, r).pos = call.pos /\ After(call, r).own = call.own
         /\ After(call, r).s = call.s /\ After(call, r).stage \in {"joining", "searching"}
<1> DEFINE answer == [act |-> r.act, score |-> r.score, book |-> FALSE, salvaged |-> ~r.ok,
                      over |-> call.best.act, depth |-> IF r.ok THEN call.depth ELSE call.best.depth]
           best == IF r.ok \/ Salvages(r) THEN answer ELSE call.best
           depth == IF r.ok THEN call.depth ELSE call.depth + 1
           stage == IF r.ok THEN call.stage ELSE "joining"
           done == ~r.ok
<1>1. stage \in {"joining", "searching"}
  OBVIOUS
<1>2. After(call, r) = [call EXCEPT !.best = IF r.ok \/ Salvages(r) THEN answer ELSE @,
                                    !.depth = IF r.ok THEN @ + 1 ELSE @,
                                    !.stage = IF r.ok THEN @ ELSE "joining", !.done = ~r.ok]
  BY DEF After
<1> HIDE DEF answer
<1> QED BY <1>1, <1>2 DEF IsCall, Fields

LEMMA IterateFits ==
  ASSUME FitInv, NEW c \in CallId, NEW polls, Iterate(c, polls)
  PROVE  FitInv'
<1> DEFINE r == Deepened([Searcher(c) EXCEPT !.left = polls], calls[c].pos, calls[c].depth,
                         calls[c].depth > 1, calls[c].best.score)
<1>1. calls[c].stage = "searching" /\ Iterated(c, r) /\ panics' = panics /\ lock' = lock
  BY DEF Iterate
<1> HIDE DEF r
<1> DEFINE after == After(calls[c], r)
<1>2. /\ IsCall(after) /\ after.panicked = calls[c].panicked
      /\ after.pos = calls[c].pos /\ after.own = calls[c].own /\ after.s = calls[c].s
      /\ after.stage \in {"joining", "searching"}
  BY <1>1, AfterIs DEF FitInv
<1>3. Fits(calls[c], c, lock, cached)
  BY DEF FitInv
<1> HIDE DEF after
<1>4. CASE calls[c].own
  <2> DEFINE s == Learned(after.s, r.s)
             call == [after EXCEPT !.s = Learned(@, r.s)]
  <2>1. Becomes(c, call) /\ cached' = cached
    BY <1>1, <1>4 DEF Iterated, after
  <2>2. Built(s, Shape(calls[c].pos))
    BY <1>2, <1>3, <1>1, <1>4, LearnedIsBuilt DEF Fits
  <2>3. IsCall(call) /\ call.panicked = after.panicked /\ call.pos = after.pos
        /\ call.own = after.own /\ call.s = s /\ call.stage = after.stage
    BY <1>2 DEF IsCall, Fields
  <2> HIDE DEF call, s
  <2>4. StaysFit(c, call)
    BY <2>2, <2>3, <1>2, <1>4 DEF StaysFit, Fits
  <2> QED BY <2>1, <2>4, <1>1, QuietStep
<1>5. CASE ~calls[c].own
  <2>1. Becomes(c, after) /\ cached' = [cached EXCEPT !.s = Learned(@, r.s)]
    BY <1>1, <1>5 DEF Iterated, after
  <2>2. lock = c /\ IsKept(cached) /\ cached.shape = Shape(calls[c].pos)
    BY <1>3, <1>1, <1>5 DEF Fits
  <2>3. IsKept(cached') /\ cached'.shape = cached.shape
    <3>1. Built(Learned(cached.s, r.s), cached.shape)
      BY <2>2, LearnedIsBuilt DEF IsKept
    <3> QED BY <3>1, <2>1, <2>2 DEF IsKept
  <2>4. StaysFit(c, after)
    BY <2>2, <2>3, <1>1, <1>2, <1>5 DEF StaysFit, Fits
  <2>5. \A d \in CallId \ {c} : Fits(calls[d], d, lock, cached) => Fits(calls[d], d, lock', cached')
    BY <2>2, <1>1 DEF Fits
  <2> QED BY <2>1, <2>3, <2>4, <2>5, <1>1, CallStep
<1> QED BY <1>4, <1>5

\* Cancelling the calls leaves everything else about them.
LEMMA CancelledIs ==
  ASSUME FitInv
  PROVE  /\ DOMAIN Cancelled(calls) = CallId
         /\ \A d \in CallId : LET call == Cancelled(calls)[d]
                              IN  /\ IsCall(call) /\ call.panicked = calls[d].panicked
                                  /\ Fits(call, d, lock, cached)
<1>1. \A d \in CallId : Cancelled(calls)[d] = [calls[d] EXCEPT !.cancelled = TRUE]
  BY DEF Cancelled, CallId
<1>2. SUFFICES ASSUME NEW d \in CallId
               PROVE  LET call == [calls[d] EXCEPT !.cancelled = TRUE]
                      IN  /\ IsCall(call) /\ call.panicked = calls[d].panicked
                          /\ Fits(call, d, lock, cached)
  BY <1>1 DEF Cancelled, CallId
<1> DEFINE call == [calls[d] EXCEPT !.cancelled = TRUE]
<1>3. IsCall(call) /\ call.panicked = calls[d].panicked /\ call.stage = calls[d].stage
      /\ call.own = calls[d].own /\ call.s = calls[d].s /\ call.pos = calls[d].pos
  BY DEF FitInv, IsCall, Fields
<1>4. Fits(calls[d], d, lock, cached)
  BY DEF FitInv
<1> HIDE DEF call
<1>5. Fits(call, d, lock, cached)
  BY <1>3, <1>4 DEF Fits
<1> QED BY <1>3, <1>5 DEF call

LEMMA NewCallIs ==
  ASSUME NEW p, NEW g
  PROVE  /\ IsCall(NewCall(p, g)) /\ ~NewCall(p, g).panicked /\ NewCall(p, g).stage = "asked"
         /\ ~NewCall(p, g).own
BY DEF NewCall, IsCall, Fields

LEMMA GameStartFits ==
  ASSUME FitInv, GameStart
  PROVE  FitInv'
<1>1. calls' = Cancelled(calls) /\ UNCHANGED <<cached, lock, panics>>
  BY DEF GameStart
<1>2. CallId' = CallId /\ DOMAIN calls' = DOMAIN calls
  BY <1>1, CancelledIs DEF CallId
<1>3. \A d \in CallId : /\ IsCall(calls'[d]) /\ calls'[d].panicked = calls[d].panicked
                        /\ Fits(calls'[d], d, lock, cached)
  BY <1>1, CancelledIs
<1>4. PanickedCalls' = PanickedCalls
  BY <1>2, <1>3 DEF PanickedCalls
<1> QED BY <1>1, <1>2, <1>3, <1>4 DEF FitInv

LEMMA SnapshotFits ==
  ASSUME FitInv, NEW p, Snapshot(p)
  PROVE  FitInv'
<1> DEFINE new == NewCall(p, explore.index)
<1>1. calls' = Append(Cancelled(calls), new) /\ UNCHANGED <<cached, lock, panics>>
  BY DEF Snapshot
<1>2. PICK n \in Nat : DOMAIN calls = 1..n
  BY DEF FitInv
<1> DEFINE cs == Cancelled(calls)
<1>3. DOMAIN cs = 1..n /\ cs = [d \in 1..n |-> cs[d]]
  BY <1>2 DEF Cancelled
<1>4. \A d \in CallId : /\ IsCall(cs[d]) /\ cs[d].panicked = calls[d].panicked
                        /\ Fits(cs[d], d, lock, cached)
  BY CancelledIs
<1> HIDE DEF cs
<1>5. Len(cs) = n /\ DOMAIN calls' = 1..(n + 1)
      /\ \A d \in 1..(n + 1) : calls'[d] = IF d = n + 1 THEN new ELSE cs[d]
  <2>1. cs \in Seq({cs[d] : d \in 1..n})
    BY <1>3
  <2>2. Len(cs) = n
    BY <1>3, <2>1
  <2>3. calls' = Append(cs, new)
    BY <1>1 DEF cs
  <2> HIDE DEF new
  <2> QED BY <2>1, <2>2, <2>3
<1>6. IsCall(new) /\ ~new.panicked /\ new.stage = "asked" /\ ~new.own
  BY NewCallIs
<1> HIDE DEF new
<1>7. CallId = 1..n /\ CallId' = 1..(n + 1)
  BY <1>2, <1>5 DEF CallId
<1>8. \A d \in CallId' : IsCall(calls'[d]) /\ Fits(calls'[d], d, lock, cached)
  <2>1. Fits(new, n + 1, lock, cached)
    BY <1>6 DEF Fits
  <2> SUFFICES ASSUME NEW d \in 1..(n + 1) PROVE IsCall(calls'[d]) /\ Fits(calls'[d], d, lock, cached)
    BY <1>7
  <2>2. CASE d = n + 1
    BY <2>1, <2>2, <1>5, <1>6
  <2>3. CASE d \in 1..n
    BY <2>3, <1>4, <1>5, <1>7
  <2> QED BY <2>2, <2>3
<1>9. PanickedCalls' = PanickedCalls
  <2>1. \A d \in 1..(n + 1) : calls'[d].panicked => d \in 1..n
    BY <1>5, <1>6
  <2>2. \A d \in 1..n : calls'[d].panicked = calls[d].panicked
    BY <1>5, <1>4, <1>7
  <2> QED BY <2>1, <2>2, <1>7 DEF PanickedCalls
<1>10. lock' = Free \/ lock' \in CallId'
  BY <1>1, <1>7 DEF FitInv
<1>11. \E m \in Nat : DOMAIN calls' = 1..m
  BY <1>5
<1> QED BY <1>1, <1>8, <1>9, <1>10, <1>11 DEF FitInv

LEMMA FitInvNext == FitInv /\ [EngineNext]_engineVars => FitInv'
<1> SUFFICES ASSUME FitInv, [EngineNext]_engineVars PROVE FitInv'
  OBVIOUS
<1>1. CASE UNCHANGED engineVars
  <2>1. UNCHANGED <<cached, lock, calls, panics>>
    BY <1>1 DEF engineVars
  <2>2. PanickedCalls' = PanickedCalls /\ CallId' = CallId
    BY <2>1 DEF PanickedCalls, CallId
  <2> QED BY <2>1, <2>2 DEF FitInv
<1>2. ASSUME NEW c \in CallId, Choose(c) PROVE FitInv'
  BY <1>2, ReadEpochFits, RefuseFits, TakeLockFits, ContendedFits, IterateFits, EnoughFits, PanicsFits,
     WatchFits, JoinFits, LookFits, VerdictFits DEF Choose
<1> QED BY <1>1, <1>2, SnapshotFits, GameStartFits DEF EngineNext

\* However many calls overlap, whatever befalls them and whatever is searched, every search runs
\* on a searcher built for its position, no two on the same, and no searcher refuses one
\* (AlphaBetaEngine::search).
THEOREM SearchersFit == EngineSpec => []SearcherFits
<1>1. FitInv => SearcherFits
  <2> SUFFICES ASSUME FitInv PROVE SearcherFits
    OBVIOUS
  <2>1. \A c \in CallId : Fits(calls[c], c, lock, cached)
    BY DEF FitInv
  <2>2. ASSUME NEW c \in CallId, calls[c].stage = "searching"
        PROVE  /\ Searcher(c).root = Mover[calls[c].pos]
               /\ Searcher(c).multi = (Cardinality(Live[calls[c].pos]) > 2)
               /\ calls[c].own \/ lock = c
    <3>1. Built(Searcher(c), Shape(calls[c].pos))
      BY <2>1, <2>2 DEF Searcher, Fits, IsKept
    <3>2. calls[c].own \/ lock = c
      BY <2>1, <2>2 DEF Fits
    <3> QED BY <3>1, <3>2 DEF Built, Shape
  <2>3. Cardinality({c \in CallId : calls[c].panicked}) <= panics
    BY DEF FitInv, PanickedCalls
  <2> QED BY <2>2, <2>3 DEF SearcherFits
<1> QED BY <1>1, FitInvInit, FitInvNext, PTL DEF EngineSpec

-----------------------------------------------------------------------------
\* A call is of the current game or cancelled; from the moment it searches, the game its epoch
\* says is the game it was asked in; and it is judged last.
Timely(call, index) ==
  /\ call.game \in Nat /\ call.epoch \in Nat /\ call.game <= index
  /\ ~call.cancelled => call.game = index
  /\ call.stage # "asked" => call.game <= call.epoch /\ call.epoch <= index
  /\ call.stage \in {"searching", "joining", "found", "judging"} => call.epoch = call.game
  /\ call.judged => call.stage = "done"
IsExplore(e) == e = [f \in {"index", "turn", "last", "seen", "decision"} |-> e[f]]
CountInv ==
  /\ IsExplore(explore) /\ explore.index \in Nat /\ explore.turn \in Nat
  /\ \A c \in CallId : Timely(calls[c], explore.index)
  /\ explore.turn <= Cardinality(Judges(explore.index))

LEMMA CountInvInit == EngineInit => CountInv
<1> SUFFICES ASSUME EngineInit PROVE CountInv
  OBVIOUS
<1>1. CallId = {} /\ explore = [index |-> 0, turn |-> 0, last |-> 0, seen |-> NoPosition, decision |-> NoAct]
  BY DEF EngineInit, CallId, Opening
<1>2. Judges(explore.index) = {}
  BY <1>1 DEF Judges
<1>3. Cardinality(Judges(explore.index)) = 0
  BY <1>2, FS_EmptySet
<1>4. IsExplore(explore) /\ explore.index = 0 /\ explore.turn = 0
  BY <1>1 DEF IsExplore
<1> QED BY <1>1, <1>3, <1>4 DEF CountInv

LEMMA JudgesFinite ==
  ASSUME FitInv, NEW g
  PROVE  IsFiniteSet(Judges(g)) /\ Cardinality(Judges(g)) \in Nat
<1>1. PICK n \in Nat : DOMAIN calls = 1..n
  BY DEF FitInv
<1>2. IsFiniteSet(Judges(g))
  BY <1>1, FS_Interval, FS_Subset DEF Judges, CallId
<1> QED BY <1>2, FS_CardinalityType

\* A step of one call that is not judged in it.
LEMMA UnjudgedStep ==
  ASSUME FitInv, CountInv, NEW c \in CallId, NEW call, Becomes(c, call), explore' = explore,
         Timely(call, explore.index), call.game = calls[c].game, call.judged = calls[c].judged
  PROVE  CountInv'
<1>1. DOMAIN calls' = DOMAIN calls /\ CallId' = CallId
      /\ \A d \in CallId : calls'[d] = IF d = c THEN call ELSE calls[d]
  BY DEF Becomes, CallId
<1>2. \A d \in CallId : Timely(calls'[d], explore.index)
  BY <1>1 DEF CountInv
<1>3. Judges(explore.index)' = Judges(explore.index)
  BY <1>1 DEF Judges
<1> QED BY <1>1, <1>2, <1>3 DEF CountInv

\* A step of one call that goes on from where it was, or ends it.
SameQuestion(call, old) ==
  /\ call.game = old.game /\ call.epoch = old.epoch
  /\ call.judged = old.judged /\ call.cancelled = old.cancelled
GoesOn(call, old) ==
  \/ call.stage = old.stage
  \/ /\ old.stage \notin {"asked", "done"}
     /\ call.stage = "done" \/ old.stage \in {"searching", "joining", "found"}

LEMMA OnwardStep ==
  ASSUME FitInv, CountInv, NEW c \in CallId, NEW call, Becomes(c, call), explore' = explore,
         SameQuestion(call, calls[c]), GoesOn(call, calls[c])
  PROVE  CountInv'
<1>1. Timely(calls[c], explore.index)
  BY DEF CountInv
<1>2. Timely(call, explore.index)
  BY <1>1 DEF Timely, SameQuestion, GoesOn
<1> QED BY <1>2, UnjudgedStep DEF SameQuestion

LEMMA ReadEpochCounts ==
  ASSUME FitInv, CountInv, NEW c \in CallId, ReadEpoch(c)
  PROVE  CountInv'
<1>1. IsCall(calls[c]) /\ Timely(calls[c], explore.index)
  BY DEF FitInv, CountInv
<1> DEFINE call == [calls[c] EXCEPT !.stage = "entered", !.epoch = explore.index]
<1>2. Becomes(c, call) /\ explore' = explore /\ calls[c].stage = "asked"
  BY DEF ReadEpoch
<1>3. /\ call.stage = "entered" /\ call.epoch = explore.index /\ call.game = calls[c].game
      /\ call.judged = calls[c].judged /\ call.cancelled = calls[c].cancelled
  BY <1>1 DEF IsCall, Fields
<1> HIDE DEF call
<1>4. Timely(call, explore.index)
  BY <1>1, <1>2, <1>3 DEF Timely, CountInv
<1> QED BY <1>2, <1>3, <1>4, UnjudgedStep

LEMMA RefuseCounts ==
  ASSUME FitInv, CountInv, NEW c \in CallId, Refuse(c)
  PROVE  CountInv'
<1> DEFINE call == [calls[c] EXCEPT !.stage = "done"]
<1>1. Becomes(c, call) /\ explore' = explore /\ calls[c].stage = "entered"
  BY DEF Refuse
<1>2. SameQuestion(call, calls[c]) /\ call.stage = "done"
  BY DEF FitInv, IsCall, Fields, SameQuestion
<1> HIDE DEF call
<1> QED BY <1>1, <1>2, OnwardStep DEF GoesOn

\* A call that starts to search is not cancelled, so it is of the current game, and so is its epoch.
StartsSearch(call, old) ==
  SameQuestion(call, old) /\ call.stage \in {"joining", "searching"} /\ old.stage = "entered" /\ ~old.cancelled
LEMMA StartCounts ==
  ASSUME FitInv, CountInv, NEW c \in CallId, NEW call, Becomes(c, call), explore' = explore,
         StartsSearch(call, calls[c])
  PROVE  CountInv'
<1>1. Timely(calls[c], explore.index) /\ explore.index \in Nat
  BY DEF CountInv
<1>2. Timely(call, explore.index)
  BY <1>1 DEF Timely, SameQuestion, StartsSearch
<1> QED BY <1>2, UnjudgedStep DEF SameQuestion, StartsSearch

LEMMA StartedAsks ==
  ASSUME NEW call, IsCall(call), NEW s
  PROVE  /\ IsCall(Started(call, s)) /\ SameQuestion(Started(call, s), call)
         /\ Started(call, s).stage \in {"joining", "searching"}
BY DEF IsCall, Fields, Started, SameQuestion

LEMMA TakeLockCounts ==
  ASSUME FitInv, CountInv, NEW c \in CallId, TakeLock(c)
  PROVE  CountInv'
<1> DEFINE kept == Fitting(calls[c].pos)
           started == Started(calls[c], kept.s)
           fresh == kept # cached
           call == [started EXCEPT !.token = FALSE, !.fresh = fresh]
<1>1. Becomes(c, call) /\ explore' = explore /\ calls[c].stage = "entered" /\ ~calls[c].cancelled
  BY Zenon DEF TakeLock
<1>2. IsCall(calls[c])
  BY DEF FitInv
<1> HIDE DEF kept, fresh
<1>3. IsCall(started) /\ SameQuestion(started, calls[c]) /\ started.stage \in {"joining", "searching"}
  BY <1>2, StartedAsks
<1> HIDE DEF started
<1>4. SameQuestion(call, started) /\ call.stage = started.stage
  BY <1>3 DEF IsCall, Fields, SameQuestion
<1> HIDE DEF call
<1>5. StartsSearch(call, calls[c])
  BY <1>1, <1>3, <1>4 DEF StartsSearch, SameQuestion
<1> QED BY <1>1, <1>5, StartCounts

LEMMA ContendedCounts ==
  ASSUME FitInv, CountInv, NEW c \in CallId, Contended(c)
  PROVE  CountInv'
<1> DEFINE s == NewSearcher(calls[c].pos, setup.options)
           started == Started(calls[c], s)
           begun == Begun(s)
           call == [started EXCEPT !.own = TRUE, !.fresh = TRUE, !.s = begun]
<1>1. Becomes(c, call) /\ explore' = explore /\ calls[c].stage = "entered" /\ ~calls[c].cancelled
  BY Zenon DEF Contended
<1>2. IsCall(calls[c])
  BY DEF FitInv
<1> HIDE DEF s, begun
<1>3. IsCall(started) /\ SameQuestion(started, calls[c]) /\ started.stage \in {"joining", "searching"}
  BY <1>2, StartedAsks
<1> HIDE DEF started
<1>4. SameQuestion(call, started) /\ call.stage = started.stage
  BY <1>3 DEF IsCall, Fields, SameQuestion
<1> HIDE DEF call
<1>5. StartsSearch(call, calls[c])
  BY <1>1, <1>3, <1>4 DEF StartsSearch, SameQuestion
<1> QED BY <1>1, <1>5, StartCounts

LEMMA AfterAsks ==
  ASSUME NEW call, IsCall(call), call.stage = "searching", NEW r
  PROVE  /\ IsCall(After(call, r)) /\ SameQuestion(After(call, r), call)
         /\ After(call, r).stage \in {"joining", "searching"}
<1> DEFINE answer == [act |-> r.act, score |-> r.score, book |-> FALSE, salvaged |-> ~r.ok,
                      over |-> call.best.act, depth |-> IF r.ok THEN call.depth ELSE call.best.depth]
<1>1. After(call, r) = [call EXCEPT !.best = IF r.ok \/ Salvages(r) THEN answer ELSE @,
                                    !.depth = IF r.ok THEN @ + 1 ELSE @,
                                    !.stage = IF r.ok THEN @ ELSE "joining", !.done = ~r.ok]
  BY DEF After
<1> HIDE DEF answer
<1> QED BY <1>1 DEF IsCall, Fields, SameQuestion

LEMMA IterateCounts ==
  ASSUME FitInv, CountInv, NEW c \in CallId, NEW polls, Iterate(c, polls)
  PROVE  CountInv'
<1> DEFINE r == Deepened([Searcher(c) EXCEPT !.left = polls], calls[c].pos, calls[c].depth,
                         calls[c].depth > 1, calls[c].best.score)
<1>1. calls[c].stage = "searching" /\ Iterated(c, r) /\ explore' = explore
  BY DEF Iterate
<1> HIDE DEF r
<1> DEFINE after == After(calls[c], r)
           call == [after EXCEPT !.s = Learned(@, r.s)]
<1>2. /\ IsCall(after) /\ SameQuestion(after, calls[c]) /\ after.stage \in {"joining", "searching"}
  BY <1>1, AfterAsks DEF FitInv
<1>3. GoesOn(after, calls[c])
  BY <1>1, <1>2 DEF GoesOn
<1> HIDE DEF after
<1>4. SameQuestion(call, calls[c]) /\ GoesOn(call, calls[c])
  <2> DEFINE s == Learned(after.s, r.s)
  <2>1. call = [after EXCEPT !.s = s]
    OBVIOUS
  <2> HIDE DEF s, call
  <2>2. SameQuestion(call, after) /\ call.stage = after.stage
    BY <2>1, <1>2 DEF IsCall, Fields, SameQuestion
  <2> QED BY <2>2, <1>2, <1>3 DEF SameQuestion, GoesOn
<1>5. Becomes(c, call) \/ Becomes(c, after)
  BY <1>1 DEF Iterated, after
<1> HIDE DEF call
<1> QED BY <1>1, <1>2, <1>3, <1>4, <1>5, OnwardStep

LEMMA EnoughCounts ==
  ASSUME FitInv, CountInv, NEW c \in CallId, Enough(c)
  PROVE  CountInv'
<1> DEFINE call == [calls[c] EXCEPT !.stage = "joining", !.done = TRUE]
<1>1. Becomes(c, call) /\ explore' = explore /\ calls[c].stage = "searching"
  BY DEF Enough
<1>2. SameQuestion(call, calls[c]) /\ call.stage = "joining"
  BY DEF FitInv, IsCall, Fields, SameQuestion
<1> HIDE DEF call
<1> QED BY <1>1, <1>2, OnwardStep DEF GoesOn

LEMMA PanicsCounts ==
  ASSUME FitInv, CountInv, NEW c \in CallId, Panics(c)
  PROVE  CountInv'
<1> DEFINE call == [calls[c] EXCEPT !.stage = "joining", !.done = TRUE, !.panicked = TRUE]
<1>1. Becomes(c, call) /\ explore' = explore /\ calls[c].stage = "searching"
  BY DEF Panics
<1>2. SameQuestion(call, calls[c]) /\ call.stage = "joining"
  BY DEF FitInv, IsCall, Fields, SameQuestion
<1> HIDE DEF call
<1> QED BY <1>1, <1>2, OnwardStep DEF GoesOn

LEMMA WatchCounts ==
  ASSUME FitInv, CountInv, NEW c \in CallId, Watch(c)
  PROVE  CountInv'
<1> DEFINE token == ~calls[c].done
           call == [calls[c] EXCEPT !.watcher = "gone", !.token = token]
<1>1. Becomes(c, call) /\ explore' = explore
  BY DEF Watch
<1> HIDE DEF token
<1>2. SameQuestion(call, calls[c]) /\ call.stage = calls[c].stage
  BY DEF FitInv, IsCall, Fields, SameQuestion
<1> HIDE DEF call
<1> QED BY <1>1, <1>2, OnwardStep DEF GoesOn

LEMMA JoinCounts ==
  ASSUME FitInv, CountInv, NEW c \in CallId, Join(c)
  PROVE  CountInv'
<1> DEFINE stage == IF calls[c].stage = "joining" /\ calls[c].panicked THEN "done" ELSE "found"
           call == [calls[c] EXCEPT !.stage = stage, !.s = NoSearcher]
<1>1. Becomes(c, call) /\ explore' = explore /\ calls[c].stage = "joining"
  BY DEF Join
<1> HIDE DEF stage
<1>2. SameQuestion(call, calls[c])
  BY DEF FitInv, IsCall, Fields, SameQuestion
<1> HIDE DEF call
<1> QED BY <1>1, <1>2, OnwardStep DEF GoesOn

LEMMA LookCounts ==
  ASSUME FitInv, CountInv, NEW c \in CallId, Look(c)
  PROVE  CountInv'
<1> DEFINE stage == IF calls[c].cancelled THEN "done" ELSE "judging"
           action == IF calls[c].cancelled THEN NoAct ELSE calls[c].best.act
           call == [calls[c] EXCEPT !.stage = stage, !.action = action]
<1>1. Becomes(c, call) /\ explore' = explore /\ calls[c].stage = "found"
  BY DEF Look
<1> HIDE DEF stage, action
<1>2. SameQuestion(call, calls[c])
  BY DEF FitInv, IsCall, Fields, SameQuestion
<1> HIDE DEF call
<1> QED BY <1>1, <1>2, OnwardStep DEF GoesOn

\* A verdict judges its call, and counts a turn at most, and none for a straggler.
LEMMA VerdictCounts ==
  ASSUME FitInv, CountInv, NEW c \in CallId, Verdict(c)
  PROVE  CountInv'
<1>1. PICK action : Becomes(c, [calls[c] EXCEPT !.stage = "done", !.judged = TRUE, !.action = action])
  BY DEF Verdict
<1>2. /\ calls[c].stage = "judging" /\ explore' \in {explore, Judged(calls[c].pos)}
      /\ Straggler(c) => explore' = explore
  BY DEF Verdict
<1> DEFINE call == [calls[c] EXCEPT !.stage = "done", !.judged = TRUE, !.action = action]
<1>3. /\ call.game = calls[c].game /\ call.epoch = calls[c].epoch /\ call.cancelled = calls[c].cancelled
      /\ call.stage = "done" /\ call.judged = TRUE
  BY DEF FitInv, IsCall, Fields
<1>4. Becomes(c, call)
  BY <1>1
<1> HIDE DEF call
<1>5. Timely(calls[c], explore.index) /\ Timely(call, explore.index) /\ ~calls[c].judged
  BY <1>2, <1>3 DEF CountInv, Timely
<1>6. /\ IsExplore(explore') /\ explore'.index = explore.index
      /\ explore'.turn \in {explore.turn, explore.turn + 1}
  BY <1>2 DEF CountInv, IsExplore, Judged
<1>7. DOMAIN calls' = DOMAIN calls /\ CallId' = CallId
      /\ \A d \in CallId : calls'[d] = IF d = c THEN call ELSE calls[d]
  BY <1>4 DEF Becomes, CallId
<1> DEFINE g == explore.index
<1>8. IsFiniteSet(Judges(g)) /\ Cardinality(Judges(g)) \in Nat
  BY JudgesFinite
<1>9. CASE Straggler(c)
  <2>1. explore' = explore /\ calls[c].game # g
    BY <1>9, <1>2, <1>5 DEF Straggler, Timely
  <2>2. Judges(g)' = Judges(g)
    BY <2>1, <1>7, <1>3 DEF Judges
  <2>3. \A d \in CallId : Timely(calls'[d], g)
    BY <1>5, <1>7 DEF CountInv
  <2> QED BY <2>1, <2>2, <2>3, <1>7 DEF CountInv
<1>10. CASE ~Straggler(c)
  <2>1. calls[c].game = g
    BY <1>10, <1>2, <1>5 DEF Straggler, Timely
  <2>2. Judges(g)' = Judges(g) \cup {c} /\ c \notin Judges(g)
    <3>1. \A d \in CallId : (calls'[d].judged /\ calls'[d].game = g)
                              <=> (d = c \/ (calls[d].judged /\ calls[d].game = g))
      BY <2>1, <1>3, <1>7
    <3>2. explore'.index = g
      BY <1>6
    <3> QED BY <3>1, <3>2, <1>5, <1>6, <1>7 DEF Judges
  <2>3. Cardinality(Judges(g)') = Cardinality(Judges(g)) + 1
    BY <2>2, <1>8, FS_AddElement
  <2>4. \A d \in CallId : Timely(calls'[d], g)
    BY <1>5, <1>7 DEF CountInv
  <2>5. explore'.turn \in Nat /\ explore'.turn <= Cardinality(Judges(g)')
    BY <2>3, <1>6, <1>8 DEF CountInv
  <2>6. Judges(explore.index)' = Judges(g)'
    BY <1>6
  <2> QED BY <2>4, <2>5, <2>6, <1>6, <1>7 DEF CountInv
<1> QED BY <1>9, <1>10

\* Cancelling the calls leaves which question they ask.
LEMMA CancelledAsk ==
  ASSUME FitInv, NEW d \in CallId
  PROVE  LET call == Cancelled(calls)[d]
         IN  /\ call.game = calls[d].game /\ call.epoch = calls[d].epoch /\ call.stage = calls[d].stage
             /\ call.judged = calls[d].judged /\ call.cancelled = TRUE
<1>1. Cancelled(calls)[d] = [calls[d] EXCEPT !.cancelled = TRUE]
  BY DEF Cancelled, CallId
<1> QED BY <1>1 DEF FitInv, IsCall, Fields

LEMMA GameStartCounts ==
  ASSUME FitInv, CountInv, GameStart
  PROVE  CountInv'
<1>1. calls' = Cancelled(calls) /\ explore' = Opening(explore.index + 1)
  BY DEF GameStart
<1>2. CallId' = CallId
  BY <1>1, CancelledIs DEF CallId
<1>3. IsExplore(explore') /\ explore'.index = explore.index + 1 /\ explore'.turn = 0
  BY <1>1 DEF Opening, IsExplore
<1>4. ASSUME NEW d \in CallId PROVE Timely(calls'[d], explore'.index)
  <2>1. Timely(calls[d], explore.index) /\ explore.index \in Nat
    BY DEF CountInv
  <2>2. /\ calls'[d].game = calls[d].game /\ calls'[d].epoch = calls[d].epoch /\ calls'[d].stage = calls[d].stage
        /\ calls'[d].judged = calls[d].judged /\ calls'[d].cancelled = TRUE
    BY <1>1, CancelledAsk
  <2> QED BY <2>1, <2>2, <1>3 DEF Timely
<1>5. FitInv'
  BY GameStartFits
<1>6. Cardinality(Judges(explore.index)') \in Nat
  <2>1. PICK n \in Nat : DOMAIN calls' = 1..n
    BY <1>5 DEF FitInv
  <2>2. IsFiniteSet(Judges(explore.index)')
    BY <2>1, FS_Interval, FS_Subset DEF Judges, CallId
  <2> QED BY <2>2, FS_CardinalityType
<1>7. explore'.index \in Nat /\ 0 <= Cardinality(Judges(explore.index)')
  BY <1>3, <1>6 DEF CountInv
<1> QED BY <1>2, <1>3, <1>4, <1>6, <1>7 DEF CountInv

LEMMA SnapshotCounts ==
  ASSUME FitInv, CountInv, NEW p, Snapshot(p)
  PROVE  CountInv'
<1> DEFINE new == NewCall(p, explore.index)
           cs == Cancelled(calls)
<1>1. calls' = Append(cs, new) /\ explore' = explore
  BY DEF Snapshot
<1>2. PICK n \in Nat : DOMAIN calls = 1..n
  BY DEF FitInv
<1>3. DOMAIN cs = 1..n /\ cs = [d \in 1..n |-> cs[d]]
  BY <1>2 DEF Cancelled
<1>4. \A d \in CallId : /\ cs[d].game = calls[d].game /\ cs[d].epoch = calls[d].epoch
                        /\ cs[d].stage = calls[d].stage
                        /\ cs[d].judged = calls[d].judged /\ cs[d].cancelled = TRUE
  BY CancelledAsk
<1>5. /\ new.game = explore.index /\ new.epoch = 0 /\ new.stage = "asked" /\ new.judged = FALSE
  BY DEF NewCall
<1> HIDE DEF cs, new
<1>6. DOMAIN calls' = 1..(n + 1)
      /\ \A d \in 1..(n + 1) : calls'[d] = IF d = n + 1 THEN new ELSE cs[d]
  <2>1. cs \in Seq({cs[d] : d \in 1..n}) /\ Len(cs) = n
    <3>1. cs \in Seq({cs[d] : d \in 1..n})
      BY <1>3
    <3> QED BY <3>1, <1>3
  <2> QED BY <2>1, <1>1
<1>7. CallId = 1..n /\ CallId' = 1..(n + 1)
  BY <1>2, <1>6 DEF CallId
<1>8. ASSUME NEW d \in CallId' PROVE Timely(calls'[d], explore.index)
  <2>1. CASE d = n + 1
    <3>1. calls'[d] = new
      BY <2>1, <1>6
    <3> QED BY <3>1, <1>5 DEF Timely, CountInv
  <2>2. CASE d \in 1..n
    <3>1. calls'[d] = cs[d] /\ Timely(calls[d], explore.index)
      BY <2>2, <1>6, <1>7 DEF CountInv
    <3> QED BY <3>1, <2>2, <1>4, <1>7 DEF Timely
  <2> QED BY <2>1, <2>2, <1>7
<1>9. Judges(explore.index)' = Judges(explore.index)
  <2>1. \A d \in 1..(n + 1) : (calls'[d].judged /\ calls'[d].game = explore.index)
                                <=> (d \in 1..n /\ calls[d].judged /\ calls[d].game = explore.index)
    BY <1>4, <1>5, <1>6, <1>7
  <2>2. Judges(explore.index)' = {d \in 1..(n + 1) : calls'[d].judged /\ calls'[d].game = explore.index}
    BY <1>1, <1>7 DEF Judges
  <2>3. Judges(explore.index) = {d \in 1..n : calls[d].judged /\ calls[d].game = explore.index}
    BY <1>7 DEF Judges
  <2>4. \A d : d \in 1..n => d \in 1..(n + 1)
    OBVIOUS
  <2> QED BY <2>1, <2>2, <2>3, <2>4, Zenon
<1> QED BY <1>1, <1>8, <1>9 DEF CountInv

LEMMA CountInvNext == FitInv /\ CountInv /\ [EngineNext]_engineVars => CountInv'
<1> SUFFICES ASSUME FitInv, CountInv, [EngineNext]_engineVars PROVE CountInv'
  OBVIOUS
<1>1. CASE UNCHANGED engineVars
  <2>1. UNCHANGED <<calls, explore>>
    BY <1>1 DEF engineVars
  <2>2. Judges(explore.index)' = Judges(explore.index) /\ CallId' = CallId
    BY <2>1 DEF Judges, CallId
  <2> QED BY <2>1, <2>2 DEF CountInv
<1>2. ASSUME NEW c \in CallId, Choose(c) PROVE CountInv'
  BY <1>2, ReadEpochCounts, RefuseCounts, TakeLockCounts, ContendedCounts, IterateCounts, EnoughCounts,
     PanicsCounts, WatchCounts, JoinCounts, LookCounts, VerdictCounts DEF Choose
<1> QED BY <1>1, <1>2, SnapshotCounts, GameStartCounts DEF EngineNext

\* However late the answers come, the exploration window of a game counts no more turns than
\* searches of that game were judged (ExploringEngine's verdict).
THEOREM GamesCountTheirOwn == EngineSpec => []GameCountsItsOwn
<1>1. CountInv => GameCountsItsOwn
  BY DEF CountInv, GameCountsItsOwn
<1> QED BY <1>1, FitInvInit, FitInvNext, CountInvInit, CountInvNext, PTL DEF EngineSpec

-----------------------------------------------------------------------------
(***************************************************************************)
(* The turn clock                                                          *)
(***************************************************************************)
USE BudgetAssumption, SearchAssumption

-----------------------------------------------------------------------------
\* The division.

LEMMA Division ==
  ASSUME NEW bank \in Nat, NEW left \in 1..3, NEW target \in Targets(bank, left)
  PROVE  target \in Nat /\ target >= MinAction /\ target <= Larger(bank, MinAction)
<1>1. PICK share \in Near(bank * Weight(left), RemainingWeight(left)) :
        target = Larger(share, MinAction)
  BY DEF Targets
<1>2. share \in Nat /\ share <= bank
  <2>1. CASE left = 3
    BY <1>1, <2>1 DEF Near, Weight, RemainingWeight
  <2>2. CASE left = 2
    BY <1>1, <2>2 DEF Near, Weight, RemainingWeight
  <2>3. CASE left = 1
    BY <1>1, <2>3 DEF Near, Weight, RemainingWeight
  <2> QED BY <2>1, <2>2, <2>3
<1> QED BY <1>1, <1>2 DEF Larger

LEMMA Extension ==
  ASSUME NEW bank \in Nat, NEW left \in 1..3, NEW target \in Targets(bank, left),
         NEW ceiling \in Ceilings(bank, target)
  PROVE  /\ ceiling \in Nat
         /\ ceiling >= target /\ ceiling >= MinAction
         /\ ceiling <= Larger(bank, MinAction)
<1>1. target \in Nat /\ target >= MinAction /\ target <= Larger(bank, MinAction)
  BY Division
<1>2. PICK extended \in Near(3 * target, 2) :
        ceiling = Larger(Smaller(extended, bank), target)
  BY DEF Ceilings
<1>3. extended \in Nat
  BY <1>1, <1>2 DEF Near
<1> QED BY <1>1, <1>2, <1>3 DEF Larger, Smaller

-----------------------------------------------------------------------------
\* Types.

LEMMA OpenedType ==
  ASSUME NEW c \in [bank : 0..TurnBudget, last : 0..ActionsPerTurn, ended : BOOLEAN],
         NEW left \in 1..3
  PROVE  /\ Opened(c, left) \in [bank : 0..TurnBudget, last : 0..ActionsPerTurn, ended : BOOLEAN]
         /\ Opened(c, left).bank =
              IF c.ended \/ left > c.last THEN TurnBudget ELSE c.bank
         /\ Opened(c, left).last = left
         /\ Opened(c, left).ended = FALSE
BY DEF Opened, ActionsPerTurn

Clocks == [bank : 0..TurnBudget, last : 0..ActionsPerTurn, ended : BOOLEAN]
Searches == [Search -> [running : BOOLEAN, ceiling : Nat, elapsed : Nat, here : BOOLEAN]]

\* What a dispatch leaves behind.
LEMMA TurnStarted ==
  ASSUME NEW c \in Clocks, NEW q \in Searches, NEW s \in Search, NEW left \in 1..3,
         Start(c, q, s, left)
  PROVE  /\ ~q[s].running
         /\ clock' = Opened(c, left) /\ clock' \in Clocks
         /\ current' = s
         /\ search' \in Searches
         /\ search'[s].running /\ search'[s].here /\ search'[s].elapsed = 0
         /\ search'[s].ceiling >= MinAction
         /\ search'[s].ceiling <= Larger(clock'.bank, MinAction)
         /\ \A u \in Search : u # s => search'[u] = q[u]
<1>1. clock' = Opened(c, left) /\ clock' \in Clocks
  BY OpenedType DEF Start, Clocks
<1>1a. PICK target \in Targets(clock'.bank, left) :
        \E ceiling \in Ceilings(clock'.bank, target) :
          search' = [q EXCEPT ![s] = [running |-> TRUE, ceiling |-> ceiling,
                                      elapsed |-> 0, here |-> TRUE]]
  BY DEF Start
<1>2. PICK ceiling \in Ceilings(clock'.bank, target) :
        search' = [q EXCEPT ![s] = [running |-> TRUE, ceiling |-> ceiling,
                                    elapsed |-> 0, here |-> TRUE]]
  BY <1>1a
<1>3. clock'.bank \in Nat
  BY <1>1 DEF Clocks
<1>4. /\ ceiling \in Nat /\ ceiling >= MinAction
      /\ ceiling <= Larger(clock'.bank, MinAction)
  BY <1>1a, <1>2, <1>3, Extension
<1> QED BY <1>1, <1>2, <1>4 DEF Start, Searches

LEMMA ArrivesType ==
  ASSUME NEW c \in Clocks, NEW q \in Searches, NEW truth \in Turns, NEW n \in Nat,
         Arrives(c, q, truth, n), rejected \in BOOLEAN
  PROVE  /\ clock' \in Clocks /\ search' \in Searches /\ server' \in Turns
         /\ known' \in BOOLEAN /\ current' \in Search \cup {NoSearch}
         /\ answered' \in BOOLEAN /\ count' \in Nat /\ rejected' \in BOOLEAN
<1>0. server' = truth /\ answered' = FALSE /\ rejected' \in BOOLEAN
  BY DEF Arrives
<1>1. CASE truth.ours /\ truth.left > 0 /\ known' = TRUE /\ count' = n + 1
           /\ \E s \in Search : Start(c, q, s, truth.left)
  <2>1. truth.left \in 1..3
    BY <1>1 DEF Turns, ActionsPerTurn
  <2>2. PICK s \in Search : Start(c, q, s, truth.left)
    BY <1>1
  <2>3. clock' \in Clocks /\ current' = s /\ search' \in Searches
    BY <2>1, <2>2, TurnStarted
  <2>4. known' = TRUE /\ count' = n + 1
    BY <1>1
  <2>5. known' \in BOOLEAN /\ answered' \in BOOLEAN
    BY <1>0, <2>4
  <2> QED BY <1>0, <2>3, <2>4, <2>5
<1>2. CASE ~(truth.ours /\ truth.left > 0)
           /\ known' = TRUE /\ clock' = (IF truth.ours THEN c ELSE Ended(c))
           /\ current' = NoSearch /\ search' = q /\ count' = n
  BY <1>0, <1>2 DEF Ended, Clocks
<1>3. CASE known' = FALSE /\ clock' = c /\ current' = NoSearch /\ search' = q /\ count' = n
  BY <1>0, <1>3
<1> QED BY <1>1, <1>2, <1>3 DEF Arrives

Aged == [s \in Search |-> [search[s] EXCEPT !.here = FALSE]]

LEMMA AgedType == search \in Searches => Aged \in Searches
BY DEF Aged, Searches

LEMMA TurnsTyped ==
  /\ Theirs \in Turns
  /\ \A left \in 0..3 : Ours(left) \in Turns /\ Ours(left).ours /\ Ours(left).left = left
  /\ ~Theirs.ours /\ Theirs.left = 3
BY DEF Theirs, Ours, Turns, ActionsPerTurn

LEMMA FreshTyped == FreshClock \in Clocks
BY DEF FreshClock, Clocks, ActionsPerTurn

LEMMA InitType == Init => TypeOK
<1> SUFFICES ASSUME Init PROVE TypeOK
  OBVIOUS
<1>1. clock \in Clocks /\ server \in Turns
  BY TurnsTyped, FreshTyped DEF Init
<1>2. search \in Searches
  BY DEF Init, Idle, Searches
<1> QED BY <1>1, <1>2 DEF Init, TypeOK, Clocks, Searches

LEMMA NextType == TypeOK /\ [Next]_vars => TypeOK'
<1> SUFFICES ASSUME TypeOK, [Next]_vars PROVE TypeOK'
  OBVIOUS
<1> USE DEF TypeOK
<1>0. clock \in Clocks /\ search \in Searches
  BY DEF Clocks, Searches
<1>1. ASSUME NEW c \in Clocks, NEW truth \in Turns, NewTurn(c, truth),
             interrupted' \in BOOLEAN
      PROVE  TypeOK'
  BY <1>0, <1>1, AgedType, ArrivesType DEF NewTurn, Aged, Clocks, Searches
<1>2. ASSUME NEW truth \in Turns, SameTurn(truth), interrupted' \in BOOLEAN
      PROVE  TypeOK'
  BY <1>0, <1>2, ArrivesType DEF SameTurn, Clocks, Searches
<1>3. CASE TurnComes
  BY <1>0, <1>1, <1>3, TurnsTyped DEF TurnComes, ActionsPerTurn
<1>4. CASE ActionPlayed
  <2>1. server.left - 1 \in 0..3
    BY <1>4 DEF ActionPlayed, Turns, ActionsPerTurn
  <2> QED BY <1>2, <1>4, <2>1, TurnsTyped DEF ActionPlayed
<1>5. CASE NeutralsPlayed \/ TurnRotates
  BY <1>2, <1>5, TurnsTyped DEF NeutralsPlayed, TurnRotates
<1>6. CASE Refreshed \/ Disturbed
  BY <1>2, <1>6 DEF Refreshed, Disturbed
<1>7. CASE GameStarts
  BY <1>1, <1>7, TurnsTyped, FreshTyped DEF GameStarts, ActionsPerTurn
<1>8. ASSUME NEW s \in Search, Returns(s) PROVE TypeOK'
  BY <1>8 DEF Returns, Spent, Larger, Idle
<1>9. CASE Tick
  BY <1>9 DEF Tick
<1>10. CASE UNCHANGED vars
  BY <1>10 DEF vars
<1> QED BY <1>3, <1>4, <1>5, <1>6, <1>7, <1>8, <1>9, <1>10 DEF Next

(***************************************************************************)
(* The bank never leaves 0..turn_budget, whatever overlaps (spent).        *)
(***************************************************************************)
THEOREM TypeCorrect == Spec => []TypeOK
BY InitType, NextType, PTL DEF Spec

-----------------------------------------------------------------------------
\* Turn boundaries.

LEMMA Accepted ==
  ASSUME NEW c \in Clocks, NEW q \in Searches, NEW truth \in Turns, NEW n \in Nat,
         Arrives(c, q, truth, n), ~rejected'
  PROVE  /\ server' = truth /\ answered' = FALSE /\ known' = TRUE
         /\ \/ /\ truth.ours /\ truth.left \in 1..3 /\ count' = n + 1
               /\ \E s \in Search : Start(c, q, s, truth.left)
            \/ /\ ~(truth.ours /\ truth.left > 0) /\ count' = n
               /\ clock' = (IF truth.ours THEN c ELSE Ended(c))
               /\ current' = NoSearch /\ search' = q
<1>1. truth.left > 0 => truth.left \in 1..3
  BY DEF Turns, ActionsPerTurn
<1> QED BY <1>1 DEF Arrives

\* The allocator knows where the turn stands.
TurnIsKnown ==
  /\ known = TRUE
  /\ ~server.ours => clock.ended
  /\ server.ours /\ server.left > 0 => ~clock.ended /\ clock.last = server.left
  /\ server.ours => count >= 1

\* An accepted snapshot keeps it so, if the turn has been counted.
LEMMA AcceptedIsKnown ==
  ASSUME NEW c \in Clocks, NEW q \in Searches, NEW truth \in Turns, NEW n \in Nat,
         Arrives(c, q, truth, n), ~rejected',
         truth.ours /\ truth.left = 0 => n >= 1
  PROVE  TurnIsKnown'
<1>1. server' = truth /\ known' = TRUE
  BY Accepted
<1>2. CASE /\ truth.ours /\ truth.left \in 1..3 /\ count' = n + 1
           /\ \E s \in Search : Start(c, q, s, truth.left)
  <2>1. clock' = Opened(c, truth.left) /\ count' = n + 1
    BY <1>2 DEF Start
  <2> QED BY <1>1, <1>2, <2>1 DEF TurnIsKnown, Opened
<1>3. CASE /\ ~(truth.ours /\ truth.left > 0) /\ count' = n
           /\ clock' = (IF truth.ours THEN c ELSE Ended(c))
  <2>1. CASE truth.ours
    <3>1. truth.left = 0 /\ count' >= 1
      BY <1>3, <2>1 DEF Turns, ActionsPerTurn
    <3> QED BY <1>1, <2>1, <3>1 DEF TurnIsKnown
  <2>2. CASE ~truth.ours
    <3>1. clock'.ended
      BY <1>3, <2>2 DEF Ended, Clocks
    <3> QED BY <1>1, <2>2, <3>1 DEF TurnIsKnown
  <2> QED BY <2>1, <2>2
<1> QED BY <1>2, <1>3, Accepted

LEMMA KnownNext ==
  ASSUME ~rejected', TypeOK, TurnIsKnown, [Next]_vars
  PROVE  TurnIsKnown'
<1>0. clock \in Clocks /\ search \in Searches /\ server \in Turns /\ count \in Nat
  BY DEF TypeOK, Clocks, Searches
<1>1. ASSUME NEW c \in Clocks, NEW truth \in Turns, NewTurn(c, truth), truth.left = 3
      PROVE  TurnIsKnown'
  <2>1. Arrives(c, Aged, truth, 0) /\ Aged \in Searches
    BY <1>0, <1>1, AgedType DEF NewTurn, Aged
  <2>2. 0 \in Nat /\ ~(truth.ours /\ truth.left = 0)
    BY <1>1
  <2> QED BY <1>1, <2>1, <2>2, AcceptedIsKnown
<1>2. ASSUME NEW truth \in Turns, SameTurn(truth), truth.ours => count >= 1
      PROVE  TurnIsKnown'
  BY <1>0, <1>2, AcceptedIsKnown DEF SameTurn
<1>3. CASE TurnComes
  BY <1>0, <1>1, <1>3, TurnsTyped DEF TurnComes, ActionsPerTurn
<1>4. CASE ActionPlayed
  <2>1. server.left - 1 \in 0..3 /\ count >= 1
    BY <1>0, <1>4 DEF ActionPlayed, Turns, ActionsPerTurn, TurnIsKnown
  <2> QED BY <1>2, <1>4, <2>1, TurnsTyped DEF ActionPlayed
<1>5. CASE NeutralsPlayed \/ TurnRotates
  BY <1>2, <1>5, TurnsTyped DEF NeutralsPlayed, TurnRotates
<1>6. CASE Refreshed \/ Disturbed
  BY <1>0, <1>2, <1>6 DEF Refreshed, Disturbed, TurnIsKnown
<1>7. CASE GameStarts
  BY <1>1, <1>7, TurnsTyped, FreshTyped DEF GameStarts, ActionsPerTurn
<1>8. ASSUME NEW s \in Search, Returns(s) PROVE TurnIsKnown'
  <2>1. clock'.ended = clock.ended /\ clock'.last = clock.last
    BY <1>0, <1>8 DEF Returns, Spent, Clocks
  <2> QED BY <1>8, <2>1 DEF Returns, TurnIsKnown
<1>9. CASE Tick \/ UNCHANGED vars
  BY <1>9 DEF Tick, vars, TurnIsKnown
<1> QED BY <1>3, <1>4, <1>5, <1>6, <1>7, <1>8, <1>9 DEF Next

LEMMA FullBankStep ==
  ASSUME ~rejected', TypeOK, TurnIsKnown, [Next]_vars,
         current' # current, current' # NoSearch
  PROVE  clock'.bank = IF count' = 1 THEN TurnBudget ELSE clock.bank
<1>0. clock \in Clocks /\ search \in Searches /\ server \in Turns /\ count \in Nat
  BY DEF TypeOK, Clocks, Searches
<1>1. ASSUME NEW c \in Clocks, NEW truth \in Turns, NewTurn(c, truth), c.ended
      PROVE  count' = 1 /\ clock'.bank = TurnBudget
  <2>1. Arrives(c, Aged, truth, 0) /\ Aged \in Searches
    BY <1>0, <1>1, AgedType DEF NewTurn, Aged
  <2>2. /\ truth.ours /\ truth.left \in 1..3 /\ count' = 0 + 1
        /\ \E s \in Search : Start(c, Aged, s, truth.left)
    BY <2>1, Accepted
  <2> QED BY <1>1, <2>2 DEF Start, Opened
<1>2. ASSUME NEW truth \in Turns, SameTurn(truth), server.ours, server.left > 0,
             truth.ours => truth.left <= server.left
      PROVE  count' # 1 /\ clock'.bank = clock.bank
  <2>1. /\ truth.ours /\ truth.left \in 1..3 /\ count' = count + 1
        /\ \E s \in Search : Start(clock, search, s, truth.left)
    BY <1>0, <1>2, Accepted DEF SameTurn
  <2>2. ~clock.ended /\ ~(truth.left > clock.last) /\ count >= 1
    BY <1>0, <1>2, <2>1 DEF TurnIsKnown, Turns
  <2> QED BY <1>0, <2>1, <2>2 DEF Start, Opened
<1>3. CASE TurnComes
  <2>1. NewTurn(clock, Ours(3)) /\ clock.ended /\ Ours(3) \in Turns
    BY <1>3, TurnsTyped DEF TurnComes, ActionsPerTurn, TurnIsKnown
  <2> QED BY <1>0, <1>1, <2>1
<1>4. CASE ActionPlayed
  <2>1. server.left - 1 \in 0..3 /\ server.left - 1 <= server.left
    BY <1>0, <1>4 DEF ActionPlayed, Turns, ActionsPerTurn
  <2>2. Ours(server.left - 1) \in Turns /\ Ours(server.left - 1).left = server.left - 1
    BY <2>1, TurnsTyped
  <2> QED BY <1>2, <1>4, <2>1, <2>2 DEF ActionPlayed
<1>5. CASE NeutralsPlayed \/ TurnRotates
  <2>1. SameTurn(Theirs)
    BY <1>5 DEF NeutralsPlayed, TurnRotates
  <2> QED BY <1>0, <2>1, TurnsTyped, Accepted DEF SameTurn
<1>6. CASE Refreshed
  BY <1>6 DEF Refreshed, TurnIsKnown
<1>7. CASE Disturbed
  BY <1>0, <1>2, <1>7 DEF Disturbed, Turns
<1>8. CASE GameStarts
  <2>1. FreshClock.ended
    BY DEF FreshClock
  <2> QED BY <1>1, <1>8, <2>1, TurnsTyped, FreshTyped DEF GameStarts, ActionsPerTurn
<1>9. ASSUME NEW s \in Search, Returns(s) PROVE FALSE
  BY <1>9 DEF Returns
<1>10. CASE Tick \/ UNCHANGED vars
  BY <1>10 DEF Tick, vars
<1> QED BY <1>3, <1>4, <1>5, <1>6, <1>7, <1>8, <1>9, <1>10 DEF Next

\* History does not forget.
LEMMA HistoryStays ==
  ASSUME TypeOK, [Next]_vars
  PROVE  (rejected => rejected') /\ (interrupted => interrupted')
<1>1. ASSUME NEW c, NEW q, NEW truth, NEW n, Arrives(c, q, truth, n)
      PROVE  rejected => rejected'
  BY <1>1 DEF Arrives
<1>2. ASSUME NEW c, NEW truth, NewTurn(c, truth) \/ SameTurn(truth)
      PROVE  rejected => rejected'
  BY <1>1, <1>2 DEF NewTurn, SameTurn
<1>3. CASE TurnComes \/ ActionPlayed \/ NeutralsPlayed \/ TurnRotates \/ Refreshed
  <2>1. interrupted' = interrupted
    BY <1>3 DEF TurnComes, ActionPlayed, NeutralsPlayed, TurnRotates, Refreshed
  <2>2. rejected => rejected'
    BY <1>2, <1>3 DEF TurnComes, ActionPlayed, NeutralsPlayed, TurnRotates, Refreshed
  <2> QED BY <2>1, <2>2
<1>4. CASE Disturbed \/ GameStarts
  <2>1. interrupted => interrupted'
    BY <1>4 DEF Disturbed, GameStarts
  <2>2. rejected => rejected'
    BY <1>2, <1>4 DEF Disturbed, GameStarts
  <2> QED BY <2>1, <2>2
<1>5. CASE (\E s \in Search : Returns(s)) \/ Tick \/ UNCHANGED vars
  BY <1>5 DEF Returns, Tick, vars
<1> QED BY <1>3, <1>4, <1>5 DEF Next

(***************************************************************************)
(* While no snapshot is rejected the allocator tells every turn boundary,  *)
(* interruptions, neutrals and new games included (allocate, end_turn).    *)
(***************************************************************************)
THEOREM BoundariesAreSeen == Spec => TurnOpensAFullBank
<1> DEFINE Known == ~rejected => TurnIsKnown
<1>1. Init => Known
  BY TurnsTyped DEF Init, TurnIsKnown, FreshClock
<1>2. TypeOK /\ Known /\ [Next]_vars => Known'
  BY KnownNext, HistoryStays
<1>3. TypeOK /\ Known /\ [Next]_vars => [~rejected' => OpensAFullBank]_vars
  BY FullBankStep, HistoryStays DEF OpensAFullBank
<1> HIDE DEF Known
<1> QED BY <1>1, <1>2, <1>3, TypeCorrect, PTL DEF Spec, TurnOpensAFullBank

-----------------------------------------------------------------------------
\* The turn bound.

\* What n actions may add to the turn.
Allowance(n) ==
  IF n = 0 THEN 0
  ELSE IF n = 1 THEN MinAction + Overhead
  ELSE IF n = 2 THEN 2 * (MinAction + Overhead)
  ELSE 3 * (MinAction + Overhead)

LEMMA AllowanceGrows ==
  ASSUME NEW n \in 0..2
  PROVE  /\ Allowance(n) \in Nat
         /\ Allowance(n + 1) = Allowance(n) + MinAction + Overhead
BY DEF Allowance

LEMMA AllowanceBound ==
  \A n \in 0..3 : Allowance(n) \in Nat /\ Allowance(n) <= 3 * (MinAction + Overhead)
BY DEF Allowance

\* One search runs at a time, for the position the client holds.
OneAtATime ==
  /\ \A s \in Search : search[s].running => s = current /\ search[s].here
  /\ current # NoSearch => search[current].running
  /\ current # NoSearch \/ answered => server.ours /\ server.left > 0
  /\ current # NoSearch => ~answered

\* movesLeft counts the searches.
CountFits ==
  /\ count <= 3
  /\ server.ours /\ server.left > 0 => count + server.left <= 4
  /\ current # NoSearch => count >= 1

\* What the turn has cost and what is left of it.
Balance ==
  /\ current = NoSearch => used + clock.bank <= TurnBudget + Allowance(count)
  /\ current # NoSearch =>
       /\ search[current].elapsed <= used
       /\ search[current].elapsed <= search[current].ceiling + Overhead
       /\ search[current].ceiling <= clock.bank + MinAction
       /\ used + clock.bank <=
            TurnBudget + Allowance(count - 1) + search[current].elapsed

TurnInv == OneAtATime /\ CountFits /\ Balance

LEMMA TurnInvBound ==
  ASSUME TypeOK, TurnInv
  PROVE  used <= TurnBudget + ActionsPerTurn * (MinAction + Overhead)
<1> SUFFICES used <= TurnBudget + 3 * (MinAction + Overhead)
  BY DEF ActionsPerTurn
<1>0. used \in Nat /\ count \in 0..3 /\ clock.bank \in Nat
  BY DEF TypeOK, TurnInv, CountFits
<1>1. CASE current = NoSearch
  BY <1>0, <1>1, AllowanceBound DEF TurnInv, Balance
<1>2. CASE current # NoSearch
  <2>1. /\ search[current].elapsed \in Nat /\ search[current].ceiling \in Nat
        /\ count - 1 \in 0..2
    BY <1>0, <1>2 DEF TypeOK, TurnInv, CountFits
  <2>2. Allowance(count) = Allowance(count - 1) + MinAction + Overhead
    BY <2>1, AllowanceGrows
  <2>3. Allowance(count - 1) \in Nat /\ Allowance(count) <= 3 * (MinAction + Overhead)
    BY <1>0, <2>1, AllowanceBound
  <2> QED BY <1>0, <1>2, <2>1, <2>2, <2>3 DEF TurnInv, Balance
<1> QED BY <1>1, <1>2

\* A snapshot of the turn u arrives while nothing runs.
LEMMA ArrivesTurnInv ==
  ASSUME NEW c \in Clocks, NEW q \in Searches, NEW truth \in Turns, NEW n \in 0..3,
         NEW u \in Nat, Arrives(c, q, truth, n), ~rejected', used' = u,
         \A s \in Search : ~q[s].running,
         truth.ours /\ truth.left > 0 => n + truth.left <= 3,
         \/ u = 0
         \/ /\ u + c.bank <= TurnBudget + Allowance(n)
            /\ truth.ours => ~c.ended /\ truth.left <= c.last
  PROVE  TurnInv'
<1> n \in Nat
  OBVIOUS
<1>0. server' = truth /\ answered' = FALSE
  BY Accepted
<1>1. Allowance(n) \in Nat /\ u + c.bank <= TurnBudget + Allowance(n)
  BY AllowanceBound DEF Clocks
<1>2. CASE /\ truth.ours /\ truth.left \in 1..3 /\ count' = n + 1
           /\ \E s \in Search : Start(c, q, s, truth.left)
  <2>1. PICK s \in Search : Start(c, q, s, truth.left)
    BY <1>2
  <2>2. /\ clock' = Opened(c, truth.left) /\ clock' \in Clocks
        /\ current' = s /\ search' \in Searches
        /\ search'[s].running /\ search'[s].here /\ search'[s].elapsed = 0
        /\ search'[s].ceiling <= Larger(clock'.bank, MinAction)
        /\ \A t \in Search : t # s => search'[t] = q[t]
    BY <1>2, <2>1, TurnStarted
  <2>3. OneAtATime'
    BY <1>0, <1>2, <2>2 DEF OneAtATime
  <2>4. CountFits' /\ count' - 1 = n
    BY <1>0, <1>2, <2>2 DEF CountFits
  <2>5. u + clock'.bank <= TurnBudget + Allowance(n)
    <3>1. CASE u = 0
      BY <1>1, <2>2, <3>1 DEF Clocks
    <3>2. CASE u # 0
      <4>1. clock'.bank = c.bank
        BY <1>2, <2>2, <3>2 DEF Opened, Clocks
      <4> QED BY <1>1, <4>1
    <3> QED BY <3>1, <3>2
  <2>6. search'[s].ceiling <= clock'.bank + MinAction /\ search'[s].ceiling \in Nat
    BY <2>2 DEF Larger, Clocks, Searches
  <2>7. Balance'
    BY <1>1, <2>2, <2>4, <2>5, <2>6 DEF Balance
  <2> QED BY <2>3, <2>4, <2>7 DEF TurnInv
<1>3. CASE /\ ~(truth.ours /\ truth.left > 0) /\ count' = n
           /\ clock' = (IF truth.ours THEN c ELSE Ended(c))
           /\ current' = NoSearch /\ search' = q
  <2>1. clock'.bank = c.bank
    BY <1>3 DEF Ended, Clocks
  <2>2. Balance'
    BY <1>1, <1>3, <2>1 DEF Balance
  <2> QED BY <1>0, <1>3, <2>2 DEF TurnInv, OneAtATime, CountFits
<1> QED BY <1>2, <1>3, Accepted

LEMMA TurnInvNext ==
  ASSUME ~rejected', ~interrupted', TypeOK, TurnIsKnown, TurnInv, [Next]_vars
  PROVE  TurnInv'
<1>0. /\ clock \in Clocks /\ search \in Searches /\ server \in Turns
      /\ count \in 0..3 /\ used \in Nat
  BY DEF TypeOK, Clocks, Searches, TurnInv, CountFits
<1>1. ASSUME current = NoSearch
      PROVE  /\ \A s \in Search : ~search[s].running /\ ~Aged[s].running
             /\ used + clock.bank <= TurnBudget + Allowance(count)
  <2>1. \A s \in Search : ~search[s].running
    BY <1>1 DEF TurnInv, OneAtATime
  <2>2. \A s \in Search : Aged[s].running = search[s].running
    BY <1>0 DEF Aged, Searches
  <2> QED BY <1>1, <2>1, <2>2 DEF TurnInv, Balance
<1>2. ASSUME NEW c \in Clocks, NEW truth \in Turns, NewTurn(c, truth), current = NoSearch
      PROVE  TurnInv'
  <2>1. Arrives(c, Aged, truth, 0) /\ Aged \in Searches /\ used' = 0
    BY <1>0, <1>2, AgedType DEF NewTurn, Aged
  <2>2. truth.ours /\ truth.left > 0 => 0 + truth.left <= 3
    BY DEF Turns, ActionsPerTurn
  <2>3. (\A s \in Search : ~Aged[s].running) /\ 0 \in Nat /\ 0 \in 0..3
    BY <1>1, <1>2
  <2> QED BY <2>1, <2>2, <2>3, ArrivesTurnInv
<1>3. ASSUME NEW truth \in Turns, SameTurn(truth), current = NoSearch,
             truth.ours => /\ ~clock.ended /\ truth.left <= clock.last
                           /\ truth.left > 0 => count + truth.left <= 3
      PROVE  TurnInv'
  <2>1. Arrives(clock, search, truth, count) /\ used' = used
    BY <1>3 DEF SameTurn
  <2> QED BY <1>0, <1>1, <1>3, <2>1, ArrivesTurnInv
<1>4. CASE TurnComes
  <2>1. current = NoSearch
    BY <1>4 DEF TurnComes, TurnInv, OneAtATime
  <2> QED BY <1>0, <1>2, <1>4, <2>1, TurnsTyped DEF TurnComes, ActionsPerTurn
<1>5. CASE ActionPlayed
  <2>1. current = NoSearch /\ server.left \in 1..3 /\ ~clock.ended /\ clock.last = server.left
    BY <1>0, <1>5 DEF ActionPlayed, TurnInv, OneAtATime, Turns, ActionsPerTurn, TurnIsKnown
  <2>2. count + server.left <= 4
    BY <1>5, <2>1 DEF ActionPlayed, TurnInv, CountFits
  <2>3. /\ Ours(server.left - 1) \in Turns /\ Ours(server.left - 1).left = server.left - 1
        /\ SameTurn(Ours(server.left - 1))
    BY <1>5, <2>1, TurnsTyped DEF ActionPlayed
  <2> QED BY <1>0, <1>3, <2>1, <2>2, <2>3
<1>6. CASE NeutralsPlayed \/ TurnRotates
  <2>1. current = NoSearch
    BY <1>6, TurnsTyped DEF NeutralsPlayed, TurnRotates, TurnInv, OneAtATime
  <2> QED BY <1>3, <1>6, <2>1, TurnsTyped DEF NeutralsPlayed, TurnRotates
<1>7. CASE Refreshed \/ Disturbed
  BY <1>7 DEF Refreshed, Disturbed, TurnIsKnown
<1>8. CASE GameStarts
  <2>1. current = NoSearch
    BY <1>8 DEF GameStarts, Running, TurnInv, OneAtATime, TypeOK
  <2> QED BY <1>2, <1>8, <2>1, TurnsTyped, FreshTyped DEF GameStarts, ActionsPerTurn
<1>9. ASSUME NEW s \in Search, Returns(s) PROVE TurnInv'
  <2> DEFINE e == search[s].elapsed
  <2>1. s = current /\ current # NoSearch
    BY <1>9 DEF Returns, TurnInv, OneAtATime
  <2>2. /\ e \in Nat /\ search[s].ceiling \in Nat /\ count - 1 \in 0..2 /\ clock.bank \in Nat
        /\ e <= search[s].ceiling + Overhead /\ search[s].ceiling <= clock.bank + MinAction
        /\ used + clock.bank <= TurnBudget + Allowance(count - 1) + e
    BY <1>0, <2>1 DEF TurnInv, Balance, CountFits, Searches, Clocks
  <2>3. /\ Allowance(count) = Allowance(count - 1) + MinAction + Overhead
        /\ Allowance(count - 1) \in Nat
    BY <2>2, AllowanceGrows
  <2>4. current' = NoSearch /\ used' = used /\ count' = count /\ server' = server
    BY <1>9, <2>1 DEF Returns
  <2>5. clock'.bank = Larger(0, clock.bank - e)
    BY <1>0, <1>9 DEF Returns, Spent, Clocks
  <2>6. used + clock'.bank <= TurnBudget + Allowance(count)
    BY <1>0, <2>2, <2>3, <2>5 DEF Larger
  <2>7. \A t \in Search : ~search'[t].running
    BY <1>0, <1>9, <2>1 DEF Returns, Idle, TurnInv, OneAtATime, Searches
  <2>8. server.ours /\ server.left > 0
    BY <2>1 DEF TurnInv, OneAtATime
  <2> QED BY <2>4, <2>6, <2>7, <2>8 DEF TurnInv, OneAtATime, CountFits, Balance
<1>10. CASE Tick
  <2>1. PICK s \in Search : search[s].running
    BY <1>10 DEF Tick, Running
  <2>2. s = current /\ search[s].here /\ current # NoSearch
    BY <2>1 DEF TurnInv, OneAtATime
  <2>3. used' = used + 1
    BY <1>10, <2>1, <2>2 DEF Tick, Running
  <2>4. UNCHANGED <<clock, server, current, answered, count>>
    BY <1>10 DEF Tick
  <2>5. /\ search'[s].elapsed = search[s].elapsed + 1
        /\ search'[s].ceiling = search[s].ceiling
        /\ search[s].elapsed < search[s].ceiling + Overhead
        /\ \A t \in Search : /\ search'[t].running = search[t].running
                             /\ search'[t].here = search[t].here
    BY <1>0, <1>10, <2>1 DEF Tick, Running, Searches
  <2>6. search[s].elapsed \in Nat /\ search[s].ceiling \in Nat /\ clock.bank \in Nat
    BY <1>0 DEF Searches, Clocks
  <2>7. count - 1 \in 0..2
    BY <1>0, <2>2 DEF TurnInv, CountFits
  <2>8. Allowance(count - 1) \in Nat
    BY <2>7, AllowanceBound
  <2>9. Balance'
    BY <1>0, <2>2, <2>3, <2>4, <2>5, <2>6, <2>8 DEF TurnInv, Balance
  <2>10. OneAtATime'
    <3>1. \A t \in Search : search'[t].running => t = current' /\ search'[t].here
      BY <2>4, <2>5 DEF TurnInv, OneAtATime
    <3>2. current # NoSearch => current = s
      BY <2>2
    <3>3. current' # NoSearch => search'[current'].running
      BY <2>1, <2>4, <2>5, <3>2
    <3>4. /\ current' # NoSearch \/ answered' => server'.ours /\ server'.left > 0
          /\ current' # NoSearch => ~answered'
      BY <2>4 DEF TurnInv, OneAtATime
    <3> QED BY <3>1, <3>3, <3>4 DEF OneAtATime
  <2>11. CountFits'
    BY <2>4 DEF TurnInv, CountFits
  <2> QED BY <2>9, <2>10, <2>11 DEF TurnInv
<1>11. CASE UNCHANGED vars
  BY <1>11 DEF vars, TurnInv, OneAtATime, CountFits, Balance
<1> QED BY <1>4, <1>5, <1>6, <1>7, <1>8, <1>9, <1>10, <1>11 DEF Next

(***************************************************************************)
(* In an orderly game, whatever the budget, the floor and the client's own *)
(* overhead, a turn's thinking exceeds the budget by at most three floors  *)
(* and overheads (allocate: "three extended actions still fit the turn     *)
(* bound").                                                                *)
(***************************************************************************)
THEOREM TurnIsBounded == Spec => []TurnBound
<1> DEFINE Bounded == Orderly => TurnIsKnown /\ TurnInv
<1>1. Init => Bounded
  BY TurnsTyped DEF Init, TurnIsKnown, FreshClock, TurnInv, OneAtATime, CountFits,
                    Balance, Allowance, Idle
<1>2. TypeOK /\ Bounded /\ [Next]_vars => Bounded'
  BY KnownNext, TurnInvNext, HistoryStays DEF Orderly
<1>3. TypeOK /\ Bounded => TurnBound
  BY TurnInvBound DEF TurnBound
<1> HIDE DEF Bounded
<1> QED BY <1>1, <1>2, <1>3, TypeCorrect, PTL DEF Spec
=============================================================================
