--------------------------- MODULE PonderSession ---------------------------
(***************************************************************************)
(* Pondering: the slot in BotCore, the read loop and the search tasks that *)
(* feed it (bot.rs), the step channel (ponder.rs) and the session that     *)
(* drains it on a thread of its own (MctsEngine::ponder, mcts.rs).         *)
(*                                                                         *)
(* The read loop, every search task and every session interleave; each     *)
(* lock section is an action.  A frame is what it does to the position:    *)
(* the handlers themselves are BotClient's.  A position is its version and *)
(* whose turn it shows: "none" is no position, a finished game or no       *)
(* action left.                                                            *)
(*                                                                         *)
(* There is one step of each kind per version, and it has a token of its   *)
(* own, so a step names its token; the token of an Answer is its search's. *)
(* The sender of a session lives in the slot alone: a session that is not  *)
(* the slot's has been dropped.  A drive ends whenever it likes: the       *)
(* ceiling, the cap, a cancelled token and a queued step all end it        *)
(* between two slices.  A search that is not handed over runs elsewhere    *)
(* and is done here.                                                       *)
(***************************************************************************)
EXTENDS Integers, Sequences

CONSTANTS
  Game,         \* game ids
  Session,      \* bounds how many session threads are alive at once
  MaxVersion    \* bound: no frame moves position_version beyond it

CONSTANTS NoGame, NoSlot, NoStep   \* the None of each Option

ASSUME VersionAssumption == MaxVersion \in Nat

VARIABLES
  core,      \* BotCore: what pondering reads and writes of it
  live,      \* the tokens that exist and are not cancelled
  loop,      \* the read loop: "frame", then inside maybe_ponder
  tasks,     \* version -> the search task dispatched for it
  sessions,  \* Session -> [pc, step, queue]
  panicked   \* history: a session panicked

vars == <<core, live, loop, tasks, sessions, panicked>>

Version == 1..MaxVersion
Think(v) == [kind |-> "Think", version |-> v]
Answer(v) == [kind |-> "Answer", version |-> v]
Step == [kind : {"Think", "Answer"}, version : Version]

Slot == [game : Game, session : Session, token : Step]
Core == [game : Game \cup {NoGame}, turn : {"ours", "theirs", "none"},
         version : 0..MaxVersion, searched : 0..MaxVersion, pondered : 0..MaxVersion,
         cancel : 0..MaxVersion,       \* the search whose token it is, or 0
         slot : Slot \cup {NoSlot}]
TaskStage == {"none", "start", "waiting", "answered", "lost", "done"}
Task == [pc : TaskStage, game : Game \cup {NoGame}]
Thread == [pc : {"ended", "parked", "driving", "dying"},
           step : Step \cup {NoStep}, queue : Seq(Step)]

ASSUME AbsentAssumption ==
  /\ NoGame \notin Game
  /\ NoSlot \notin Slot
  /\ NoStep \notin Step

Ended == [pc |-> "ended", step |-> NoStep, queue |-> <<>>]
Parked == [Ended EXCEPT !.pc = "parked"]

TypeOK ==
  /\ core \in Core
  /\ live \subseteq Step
  /\ loop \in {"frame", "ponder", "send"}
  /\ tasks \in [Version -> Task]
  /\ sessions \in [Session -> Thread]
  /\ panicked \in BOOLEAN
  /\ \A s \in Session :
       /\ sessions[s].step # NoStep <=> sessions[s].pc = "driving"
       /\ sessions[s].pc = "ended" => sessions[s].queue = <<>>

Init ==
  /\ core = [game |-> NoGame, turn |-> "none", version |-> 0, searched |-> 0,
             pondered |-> 0, cancel |-> 0, slot |-> NoSlot]
  /\ live = {}
  /\ loop = "frame"
  /\ tasks = [v \in Version |-> [pc |-> "none", game |-> NoGame]]
  /\ sessions = [s \in Session |-> Ended]
  /\ panicked = FALSE

-----------------------------------------------------------------------------
\* Helpers of BotCore.

SlotToken(c) == IF c.slot = NoSlot THEN {} ELSE {c.slot.token}

\* Mutant: a new position leaves the pondering session alone.
CancelsSearchOnly(c) == IF c.cancel = 0 THEN {} ELSE {Answer(c.cancel)}

\* The tokens cancel_search cancels.
Cancels(c) == (IF c.cancel = 0 THEN {} ELSE {Answer(c.cancel)}) \cup SlotToken(c)

Invalidate(c) == [c EXCEPT !.cancel = 0, !.version = @ + 1]

\* Mutant: the slot, and with it the session's sender, survives.
StopPonderKept(c) == c

StopPonder(c) == [c EXCEPT !.slot = NoSlot]

\* Mutant: the seat test is missing.
MayPonderAnyTurn(c) == c.game # NoGame /\ c.turn # "none"

MayAct(c) == c.game # NoGame /\ c.turn = "ours"
MayPonder(c) == c.game # NoGame /\ c.turn = "theirs"

-----------------------------------------------------------------------------
\* The read loop: a frame, then maybe_ponder's two lock sections.

\* maybe_search on core c, the tokens in t live.
MaybeSearch(c, t) ==
  \/ /\ MayAct(c) /\ c.searched # c.version
     /\ core' = [c EXCEPT !.searched = c.version, !.cancel = c.version]
     /\ live' = (t \ Cancels(c)) \cup {Answer(c.version)}
     /\ tasks' = [tasks EXCEPT ![c.version] = [pc |-> "start", game |-> c.game]]
  \/ /\ ~(MayAct(c) /\ c.searched # c.version)
     /\ core' = c
     /\ live' = t
     /\ UNCHANGED tasks

Restarted(c, g, turn) ==
  [c EXCEPT !.game = g, !.turn = turn, !.searched = 0, !.pondered = 0]

\* on_game_start.
GameStart(g, turn) ==
  /\ loop = "frame" /\ core.version < MaxVersion
  /\ MaybeSearch(Restarted(StopPonder(Invalidate(core)), g, turn), live \ Cancels(core))
  /\ loop' = "ponder"
  /\ UNCHANGED <<sessions, panicked>>

\* absorb installs a new position; a driver frame searches it.
Snapshot(turn, drives) ==
  /\ loop = "frame" /\ core.version < MaxVersion /\ core.game # NoGame
  /\ LET c == [Invalidate(core) EXCEPT !.turn = turn]
         t == live \ Cancels(core)
     IN IF drives THEN MaybeSearch(c, t)
        ELSE core' = c /\ live' = t /\ UNCHANGED tasks
  /\ loop' = "ponder"
  /\ UNCHANGED <<sessions, panicked>>

\* absorb is shown the position it has.
Repeated(drives) ==
  /\ loop = "frame" /\ core.game # NoGame
  /\ IF drives THEN MaybeSearch(core, live) ELSE UNCHANGED <<core, live, tasks>>
  /\ loop' = "ponder"
  /\ UNCHANGED <<sessions, panicked>>

\* A snapshot that fails validation, or an error: drop_position.
Rejected ==
  /\ loop = "frame" /\ core.version < MaxVersion /\ core.game # NoGame
  /\ core' = [Invalidate(core) EXCEPT !.turn = "none"]
  /\ live' = live \ Cancels(core)
  /\ UNCHANGED <<loop, tasks, sessions, panicked>>

\* go_idle and on_disconnected.
Leaves ==
  /\ loop = "frame" /\ core.version < MaxVersion
  /\ core' = [StopPonder(Invalidate(core)) EXCEPT !.game = NoGame, !.turn = "none"]
  /\ live' = live \ Cancels(core)
  /\ UNCHANGED <<loop, tasks, sessions, panicked>>

\* ensure_ponder_session: the slot's session, or a new thread in its place.
Ensured(s) ==
  IF core.slot # NoSlot /\ core.slot.game = core.game
  THEN s = core.slot.session /\ UNCHANGED sessions
  ELSE sessions[s] = Ended /\ sessions' = [sessions EXCEPT ![s] = Parked]

\* Mutant: a repeated position is pondered again.
PondersAgain == MayPonder(core)

Ponders == MayPonder(core) /\ core.pondered # core.version

MaybePonder ==
  /\ loop = "ponder" /\ Ponders
  /\ \E s \in Session :
       /\ Ensured(s)
       /\ core' = [core EXCEPT !.pondered = core.version,
                     !.slot = [game |-> core.game, session |-> s,
                               token |-> Think(core.version)]]
       /\ live' = (IF core.slot # NoSlot /\ core.slot.game # core.game
                   THEN live \ SlotToken(core) ELSE live) \cup {Think(core.version)}
  /\ loop' = "send"
  /\ UNCHANGED <<tasks, panicked>>

PonderNothing ==
  /\ loop = "ponder" /\ ~Ponders
  /\ loop' = "frame"
  /\ UNCHANGED <<core, live, tasks, sessions, panicked>>

\* Mutant: a closed channel is not noticed.
GoneNever(s) == FALSE

\* The session's end of the channel is gone.
Gone(s) == sessions[s].pc = "ended"

Sent(s, step) == sessions' = [sessions EXCEPT ![s].queue = Append(@, step)]

SendPonderStep ==
  /\ loop = "send"
  /\ loop' = "frame"
  /\ \/ /\ core.slot = NoSlot
        /\ UNCHANGED <<core, sessions>>
     \/ /\ core.slot # NoSlot /\ Gone(core.slot.session)
        /\ core' = StopPonder(core)
        /\ UNCHANGED sessions
     \/ /\ core.slot # NoSlot /\ ~Gone(core.slot.session)
        /\ Sent(core.slot.session, Think(core.version))
        /\ UNCHANGED core
  /\ UNCHANGED <<live, tasks, panicked>>

-----------------------------------------------------------------------------
\* The search task dispatched for version v.

Stage(v, pc) == tasks' = [tasks EXCEPT ![v].pc = pc]

Hands(v) ==
  /\ core.slot # NoSlot /\ core.slot.game = tasks[v].game
  /\ MayAct(core) /\ core.version = v

\* hand_to_ponder: the turn goes to the live session.
HandToPonder(v) ==
  /\ tasks[v].pc = "start" /\ Hands(v) /\ ~Gone(core.slot.session)
  /\ core' = [core EXCEPT !.slot.token = Answer(v)]
  /\ Sent(core.slot.session, Answer(v))
  /\ Stage(v, "waiting")
  /\ UNCHANGED <<live, loop, panicked>>

\* It does not, and the engine is asked for a fresh search.
ChooseAfresh(v) ==
  /\ tasks[v].pc = "start"
  /\ \/ ~Hands(v) /\ UNCHANGED core
     \/ Hands(v) /\ Gone(core.slot.session) /\ core' = StopPonder(core)
  /\ Stage(v, "done")
  /\ UNCHANGED <<live, loop, sessions, panicked>>

Replied(v) ==
  /\ tasks[v].pc = "answered"
  /\ Stage(v, "done")
  /\ UNCHANGED <<core, live, loop, sessions, panicked>>

\* The session died mid-answer: the slot, whatever it holds by now, is dropped.
SessionDied(v) ==
  /\ tasks[v].pc = "lost"
  /\ core' = StopPonder(core)
  /\ Stage(v, "done")
  /\ UNCHANGED <<live, loop, sessions, panicked>>

\* The hard wait ran out: the token is cancelled, the version stays.
Overran(v) ==
  /\ tasks[v].pc = "waiting"
  /\ live' = live \ {Answer(v)}
  /\ Stage(v, "done")
  /\ UNCHANGED <<core, loop, sessions, panicked>>

-----------------------------------------------------------------------------
\* The session's thread.

Becomes(s, thread) == sessions' = [sessions EXCEPT ![s] = thread]

\* The reply channels in steps are used or dropped; a task that has given up
\* notices nothing.
Resolve(steps, pc) ==
  tasks' = [v \in Version |->
              IF Answer(v) \in steps /\ tasks[v].pc = "waiting"
              THEN [tasks[v] EXCEPT !.pc = pc] ELSE tasks[v]]

Queued(s) == {sessions[s].queue[i] : i \in 1..Len(sessions[s].queue)}
Holds(s, step) == step = sessions[s].step \/ step \in Queued(s)

HasNext(s) == sessions[s].queue # <<>>

\* Mutant: a cancelled step is left unread.
TakesUncancelled(s) ==
  /\ sessions[s].pc = "parked" /\ HasNext(s) /\ Head(sessions[s].queue) \in live
  /\ Becomes(s, [pc |-> "driving", step |-> Head(sessions[s].queue),
                 queue |-> Tail(sessions[s].queue)])
  /\ UNCHANGED <<core, live, loop, tasks, panicked>>

\* next() yields a step; the drive begins.
Takes(s) ==
  /\ sessions[s].pc = "parked" /\ HasNext(s)
  /\ Becomes(s, [pc |-> "driving", step |-> Head(sessions[s].queue),
                 queue |-> Tail(sessions[s].queue)])
  /\ UNCHANGED <<core, live, loop, tasks, panicked>>

FinishReply(s) == Resolve({sessions[s].step}, "answered")

\* The drive ends, interrupted or not, and what was asked is answered first.
Finishes(s) ==
  /\ sessions[s].pc = "driving"
  /\ FinishReply(s)
  /\ Becomes(s, [sessions[s] EXCEPT !.pc = "parked", !.step = NoStep])
  /\ UNCHANGED <<core, live, loop, panicked>>

HungUp(s) == ~(core.slot # NoSlot /\ core.slot.session = s)

\* The thread ends; its inbox goes, and with it the reply channels of
\* whatever is still queued.
Closes(s) == Becomes(s, Ended) /\ Resolve(Queued(s), "lost")

\* next() yields None.
Returns(s) ==
  /\ sessions[s].pc = "parked" /\ ~HasNext(s) /\ HungUp(s)
  /\ Closes(s)
  /\ UNCHANGED <<core, live, loop, panicked>>

\* A panic unwinds: the step's reply goes first, the inbox after it.
Panic(s) ==
  /\ sessions[s].pc = "driving"
  /\ Resolve({sessions[s].step}, "lost")
  /\ Becomes(s, [sessions[s] EXCEPT !.pc = "dying", !.step = NoStep])
  /\ panicked' = TRUE
  /\ UNCHANGED <<core, live, loop>>

Dies(s) ==
  /\ sessions[s].pc = "dying"
  /\ Closes(s)
  /\ UNCHANGED <<core, live, loop, panicked>>

-----------------------------------------------------------------------------
Frame ==
  \/ \E turn \in {"ours", "theirs", "none"} :
       \/ \E g \in Game : GameStart(g, turn)
       \/ \E drives \in BOOLEAN : Snapshot(turn, drives)
  \/ \E drives \in BOOLEAN : Repeated(drives)
  \/ Rejected \/ Leaves
PonderCalls == MaybePonder \/ PonderNothing \/ SendPonderStep
SearchTask(v) ==
  HandToPonder(v) \/ ChooseAfresh(v) \/ Replied(v) \/ SessionDied(v)
SessionThread(s) == Takes(s) \/ Finishes(s) \/ Returns(s) \/ Dies(s)

Next ==
  \/ Frame \/ PonderCalls
  \/ \E v \in Version : SearchTask(v) \/ Overran(v)
  \/ \E s \in Session : SessionThread(s) \/ Panic(s)

\* Handlers run to their end, tasks and threads are scheduled, and a drive
\* stops at its ceiling.  Nothing makes frames come or a timeout fire.
Fairness ==
  /\ WF_vars(PonderCalls)
  /\ \A v \in Version : WF_vars(SearchTask(v))
  /\ \A s \in Session : WF_vars(SessionThread(s))

Spec == Init /\ [][Next]_vars /\ Fairness

-----------------------------------------------------------------------------
\* What a session has been given and has not finished, in order.
Given(s) ==
  (IF sessions[s].step = NoStep THEN <<>> ELSE <<sessions[s].step>>) \o sessions[s].queue

\* A step that is not cancelled is about the position the core holds.
LiveStepsFollow ==
  \A s \in Session : \A i \in 1..Len(Given(s)) :
    LET step == Given(s)[i] IN
    step \in live =>
      /\ step.version = core.version
      /\ core.turn = IF step.kind = "Answer" THEN "ours" ELSE "theirs"

(***************************************************************************)
(* While no session has panicked: "a session never simulates past a        *)
(* snapshot without an explicit, freshly tokened re-authorisation"         *)
(* (ponder.rs, guard 2), so a step that is not cancelled is about the      *)
(* position the core holds, and of its turn.                               *)
(***************************************************************************)
LiveStepIsCurrent == ~panicked => LiveStepsFollow

(***************************************************************************)
(* The same, promised without a condition in ponder.rs, guard 2.           *)
(***************************************************************************)
NeverPastASnapshot == LiveStepsFollow

(***************************************************************************)
(* An Answer that is still wanted is the last thing its session was given, *)
(* so no queued step cuts it short (drive's interrupt), and its position   *)
(* stands.                                                                 *)
(***************************************************************************)
LiveAnswerIsLast ==
  \A s \in Session : \A i \in 1..Len(Given(s)) :
    LET step == Given(s)[i] IN
    step.kind = "Answer" /\ step \in live =>
      /\ i = Len(Given(s))
      /\ step.version = core.version /\ core.turn = "ours"

(***************************************************************************)
(* "One snapshot, one step" (pondered_version): a session is given newer   *)
(* and newer positions, and no position goes to two sessions.              *)
(***************************************************************************)
OneStepPerSnapshot ==
  \A r, s \in Session : \A i \in 1..Len(Given(r)), j \in 1..Len(Given(s)) :
    (r = s => i < j) =>
      \/ r = s /\ Given(r)[i].version < Given(s)[j].version
      \/ r # s /\ Given(r)[i].version # Given(s)[j].version

(***************************************************************************)
(* A slot is of the game being played (PonderSlot: "a session never        *)
(* outlives it").                                                          *)
(***************************************************************************)
SlotIsOfTheGame == core.slot # NoSlot => core.slot.game = core.game

(***************************************************************************)
(* A search that waits for a session is in that session's hands: its       *)
(* Answer is being driven or is queued, whatever became of the slot and    *)
(* the token, so the session will come to it ("answer whatever the step    *)
(* asked for before moving on", MctsEngine::ponder).  Only a panic makes a *)
(* search hear that its session died.                                      *)
(***************************************************************************)
NoAnswerIsLost ==
  \A v \in Version :
    /\ tasks[v].pc = "waiting" => \E s \in Session : Holds(s, Answer(v))
    /\ tasks[v].pc = "lost" => panicked

(***************************************************************************)
(* A search handed to a session stays in its hands until it hears of it,   *)
(* and hears of it without its timeout's help: of its answer, or, if a     *)
(* session panicked, of its end (PonderStep::Answer's reply channel).      *)
(***************************************************************************)
HandedIsResolved ==
  /\ []NoAnswerIsLost
  /\ \A v \in Version : tasks[v].pc = "waiting" ~> tasks[v].pc # "waiting"

(***************************************************************************)
(* "The engine must return promptly" (PonderInbox::next), and a session    *)
(* "never outlives" its game (PonderSlot): one that is not the slot's, or  *)
(* whose slot is of another game, ends, whatever it still has queued.      *)
(***************************************************************************)
DroppedSessionEnds ==
  \A s \in Session :
    ~(core.slot # NoSlot /\ core.slot.session = s /\ core.slot.game = core.game)
      ~> sessions[s].pc = "ended"
=============================================================================
