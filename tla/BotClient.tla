----------------------------- MODULE BotClient -----------------------------
(***************************************************************************)
(* The acting half of the protocol client: BotCore and its handlers        *)
(* (bot.rs), the search task a driver frame spawns (Bot::run_search), the  *)
(* outbox and the writer that drains it (client.rs).                       *)
(*                                                                         *)
(* The server is an open environment: any frame may arrive in any order,   *)
(* so a lost, repeated, late or malformed frame needs no action of its     *)
(* own.  What BotCore keeps is one record, core, because the handlers      *)
(* chain the same helpers over it (heal, absorb, install, invalidate) and  *)
(* every handler starts with heal_pending_game.                            *)
(*                                                                         *)
(* Handlers and the writer run on one task, so they are atomic to each     *)
(* other.  A search task and the challenger timer run beside them and meet *)
(* the core only under its lock: each lock section of theirs is an action  *)
(* of its own.  Ending a session aborts the timer at its next await, so a  *)
(* tick under way runs to its end; ticks are apart by a sleep.             *)
(*                                                                         *)
(* Abstractions.  A position is its board plus the three facts the client  *)
(* reads from it; two positions are equal when their identity keys are.    *)
(* position_key is Some exactly when position is, so the latter stands for *)
(* both.  Time is nondeterministic: cooldown and pending say on which side *)
(* of a deadline the clock is.  Tokens: every assignment to BotCore.cancel *)
(* cancels the token it replaces, so a search is cancelled iff core.cancel *)
(* is not its own.  Counters, names, peers and current_lobby (never read)  *)
(* are left out; durations are TurnAllocator's, the pondering slot is      *)
(* PonderSession's.                                                        *)
(***************************************************************************)
EXTENDS Integers, Sequences

CONSTANTS
  Game,        \* game ids the server hands out
  Seat,        \* seats, 1-based
  TaskId,      \* bounds how many search tasks are alive at once
  Position,    \* decoded snapshots: [board, mover, left, over]
  Action,      \* what an engine may answer
  Legal,       \* Legal[p]: the actions the rules allow in position p
  Orderly,     \* the server welcomes a connection first, and once
  Challenger,  \* config.challenger: the timer that issues challenges runs
  Sends,       \* the kinds of frame the server sends (of FrameKind below)
  MaxVersion,  \* bound: no frame arrives once position_version is this high
  MaxOutbox    \* bound: no frame arrives, no task queues, no tick picks, with this many queued

CONSTANTS NoGame, NoPosition, NoTask, NoAction   \* the None of each Option
CONSTANTS Missing, Malformed                     \* no snapshot; decode is Err

FrameKind == {"welcome", "bot_wanted", "lobby_joined", "lobby_closed",
              "challenge_received", "game_start", "refresh", "driver",
              "game_end", "error", "users_update", "ping"}

ASSUME SendsAssumption == Sends \subseteq FrameKind
ASSUME SeatAssumption == Seat \subseteq Nat \ {0}
ASSUME PositionAssumption ==
  \A p \in Position : /\ p.mover \in Seat
                      /\ p.left \in Nat
                      /\ p.over \in BOOLEAN
ASSUME LegalAssumption == Legal \in [Position -> SUBSET Action]
ASSUME BoundAssumption == MaxVersion \in Nat /\ MaxOutbox \in Nat
ASSUME NoneAssumption ==
  /\ NoGame \notin Game
  /\ NoPosition \notin Position
  /\ NoTask \notin TaskId
  /\ NoAction \notin Action
  /\ {Missing, Malformed} \cap Position = {}

VARIABLES
  core,      \* BotCore behind its mutex
  tasks,     \* search tasks: TaskId -> a task, or Free
  outbox,    \* the unbounded queue to the writer
  socket,    \* TRUE while run_session's loop runs
  tick,      \* how far a tick of the challenger timer has come
  answered,  \* history: version of the last action written to the socket
  answers    \* history: how many actions were written

vars == <<core, tasks, outbox, socket, tick, answered, answers>>

Phase == {"Disconnected", "Idle", "InLobby", "InGame"}

Core == [phase      : Phase,
         registered : BOOLEAN,                     \* user_id is not empty
         game       : Game \cup {NoGame},
         seat       : Seat \cup {0},
         position   : Position \cup {NoPosition},
         version    : Nat,
         searched   : Nat,
         cancel     : TaskId \cup {NoTask},
         pending    : {"none", "fresh", "overdue"},
         cooldown   : BOOLEAN]

Free == [pc |-> "free"]

\* What a dispatch carries along; the guard of the action is built from it.
\* The code keeps only moves_left of the position in the guard: Valid below
\* reads no more than that.
Dispatch == [game : Game, version : Nat, seat : Seat, position : Position]

Searching == [pc : {"fallback", "engine"}, for : Dispatch,
              fallback : Action \cup {NoAction}, action : {NoAction}]
Answering == [pc : {"check", "enqueue"}, for : Dispatch,
              fallback : {NoAction}, action : Action]
Task == Searching \cup Answering

NoteKind == {"JoinLobby", "Accept", "Decline", "Challenge", "Resync", "Pong"}

\* fresh is history: FALSE once the socket the item was queued for has died.
ActionItem == [kind : {"Action"}, for : Dispatch, action : Action, fresh : BOOLEAN]
NoteItem   == [kind : NoteKind, fresh : BOOLEAN]

TypeOK ==
  /\ core \in Core
  /\ tasks \in [TaskId -> Task \cup {Free}]
  /\ outbox \in Seq(ActionItem \cup NoteItem)
  /\ socket \in BOOLEAN
  /\ tick \in {"asleep", "check", "send"}
  /\ answered \in Nat
  /\ answers \in Nat

Init ==
  /\ core = [phase |-> "Disconnected", registered |-> FALSE, game |-> NoGame,
             seat |-> 0, position |-> NoPosition, version |-> 0, searched |-> 0,
             cancel |-> NoTask, pending |-> "none", cooldown |-> FALSE]
  /\ tasks = [t \in TaskId |-> Free]
  /\ outbox = <<>>
  /\ socket = FALSE
  /\ tick = "asleep"
  /\ answered = 0
  /\ answers = 0

-----------------------------------------------------------------------------
\* Helpers of BotCore: functions of the core, as the code's &mut self methods.

\* Mutant: the version moves on, the search in flight is left running.
InvalidateKeepingSearch(c) == [c EXCEPT !.version = @ + 1]

Invalidate(c) == [c EXCEPT !.cancel = NoTask, !.version = @ + 1]

DropPosition(c) == [Invalidate(c) EXCEPT !.position = NoPosition]

\* Mutant: the position is replaced without invalidating what ran against it.
InstallInPlace(c, p) == [c EXCEPT !.position = p]

\* An identical re-send changes nothing.
Install(c, p) ==
  IF c.position = p THEN c ELSE [Invalidate(c) EXCEPT !.position = p]

\* Mutant: the pending-accept timer survives.
GoIdleStillPending(c) ==
  [Invalidate(c) EXCEPT !.phase = "Idle", !.game = NoGame, !.position = NoPosition,
                        !.seat = 0]

GoIdle(c) ==
  [Invalidate(c) EXCEPT !.phase = "Idle", !.game = NoGame, !.position = NoPosition,
                        !.seat = 0, !.pending = "none"]

\* run_session calls on_disconnected on its way out, however it ends.
OnDisconnected(c) ==
  [Invalidate(c) EXCEPT !.phase = "Disconnected", !.game = NoGame,
                        !.position = NoPosition, !.registered = FALSE,
                        !.pending = "none"]

\* Mutant: the optimistic busy flag is never undone.
HealPendingNever(c) == c

HealPending(c) ==
  IF c.phase = "InGame" /\ c.game = NoGame /\ c.pending = "overdue"
  THEN GoIdle(c) ELSE c

OurTurn(c) ==
  /\ c.position # NoPosition
  /\ ~c.position.over
  /\ c.position.mover = c.seat
  /\ c.position.left > 0

MayAct(c) == c.phase = "InGame" /\ c.game # NoGame /\ OurTurn(c)

\* action_still_valid of the guard built from dispatch d for action a.
Valid(c, d, a) ==
  /\ c.phase = "InGame"
  /\ c.game = d.game
  /\ c.version = d.version
  /\ c.seat = d.seat
  /\ c.position # NoPosition
  /\ c.position.left = d.position.left
  /\ MayAct(c)
  /\ a \in Legal[c.position]

Note(kind) == [kind |-> kind, fresh |-> TRUE]

Queue(kind) == outbox' = Append(outbox, Note(kind))

-----------------------------------------------------------------------------
\* Server frames.

\* The read loop gets a frame of this kind, within the two bounds.
Receives(kind) ==
  /\ socket
  /\ kind \in Sends
  /\ Orderly => (kind = "welcome" <=> ~core.registered)
  /\ core.version < MaxVersion
  /\ Len(outbox) < MaxOutbox

\* absorb goes on to decode the snapshot of a frame tagged g (NoGame: no id).
Absorbs(c, g, s) ==
  /\ s # Missing
  /\ c.phase = "InGame"
  /\ c.game # NoGame
  /\ g \in {NoGame, c.game}

\* A resync within the cooldown of the last one is not sent.
DropAndResync(c) ==
  /\ core' = [DropPosition(c) EXCEPT !.cooldown = TRUE]
  /\ IF c.cooldown THEN UNCHANGED outbox ELSE Queue("Resync")
  /\ UNCHANGED tasks

\* Mutant: no double-send guard.
CanSearchAgain(c) == MayAct(c)

\* maybe_search: one search per version, and only when the turn is ours.
CanSearch(c) == MayAct(c) /\ c.searched # c.version

\* Mutant: searched_version is not recorded.
SpawnUnmarked(c, t) ==
  /\ tasks[t] = Free
  /\ core' = [c EXCEPT !.cancel = t]
  /\ tasks' = [tasks EXCEPT ![t] =
       [pc |-> "fallback", fallback |-> NoAction, action |-> NoAction,
        for |-> [game |-> c.game, version |-> c.version, seat |-> c.seat,
                 position |-> c.position]]]

Spawn(c, t) ==
  /\ tasks[t] = Free
  /\ core' = [c EXCEPT !.cancel = t, !.searched = c.version]
  /\ tasks' = [tasks EXCEPT ![t] =
       [pc |-> "fallback", fallback |-> NoAction, action |-> NoAction,
        for |-> [game |-> c.game, version |-> c.version, seat |-> c.seat,
                 position |-> c.position]]]

MaybeSearch(c) ==
  \/ CanSearch(c) /\ \E t \in TaskId : Spawn(c, t)
  \/ ~CanSearch(c) /\ core' = c /\ UNCHANGED tasks

OnWelcome ==
  /\ Receives("welcome")
  /\ core' = [HealPending(core) EXCEPT !.phase = "Idle", !.registered = TRUE]
  /\ UNCHANGED <<tasks, outbox, socket, answered, answers>>

\* Joining does not change the phase: lobby_joined will.
OnBotWanted ==
  /\ Receives("bot_wanted")
  /\ core' = HealPending(core)
  /\ IF core'.phase = "Idle" THEN Queue("JoinLobby") ELSE UNCHANGED outbox
  /\ UNCHANGED <<tasks, socket, answered, answers>>

OnLobbyJoined ==
  /\ Receives("lobby_joined")
  /\ core' = [HealPending(core) EXCEPT !.phase = "InLobby"]
  /\ UNCHANGED <<tasks, outbox, socket, answered, answers>>

OnLobbyClosed ==
  /\ Receives("lobby_closed")
  /\ LET c == HealPending(core)
     IN  core' = IF c.phase = "InGame" THEN c ELSE GoIdle(c)
  /\ UNCHANGED <<tasks, outbox, socket, answered, answers>>

\* Mutant: the busy flag is set without its deadline.
AcceptUnarmed(c) == [c EXCEPT !.phase = "InGame"]

\* Busy before accepting, optimistically.
Accept(c) == [c EXCEPT !.phase = "InGame", !.pending = "fresh"]

OnChallengeReceived ==
  /\ Receives("challenge_received")
  /\ LET c == HealPending(core)
     IN  \/ /\ c.phase = "Idle"
            /\ core' = Accept(c)
            /\ Queue("Accept")
         \/ /\ c.phase # "Idle"
            /\ core' = c
            /\ Queue("Decline")
  /\ UNCHANGED <<tasks, socket, answered, answers>>

\* searched_version restarts at 0; clearing position_key forces the install.
StartGame(c, g, p, me) ==
  [Invalidate(c) EXCEPT !.phase = "InGame", !.game = g, !.seat = me,
                        !.searched = 0, !.pending = "none", !.position = p]

\* A bad seat, id or player list rejects the start just as a bad snapshot does.
OnGameStart(g, s, me) ==
  /\ Receives("game_start")
  /\ \/ /\ s \in {Missing, Malformed}
        /\ core' = HealPending(core)
        /\ UNCHANGED tasks
     \/ /\ s \in Position
        /\ MaybeSearch(StartGame(HealPending(core), g, s, me))
  /\ UNCHANGED <<outbox, socket, answered, answers>>

\* move_made, player_eliminated, neutrals_placed, action_ack: never a search.
OnRefresh(g, s) ==
  /\ Receives("refresh")
  /\ LET c == HealPending(core)
     IN  \/ /\ ~Absorbs(c, g, s)
            /\ core' = c
            /\ UNCHANGED <<tasks, outbox>>
         \/ /\ Absorbs(c, g, s) /\ s = Malformed
            /\ DropAndResync(c)
         \/ /\ Absorbs(c, g, s) /\ s \in Position
            /\ core' = Install(c, s)
            /\ UNCHANGED <<tasks, outbox>>
  /\ UNCHANGED <<socket, answered, answers>>

\* game_state and turn_change: the frames that drive a search.
OnDriver(g, s) ==
  /\ Receives("driver")
  /\ LET c == HealPending(core)
     IN  \/ /\ ~Absorbs(c, g, s)
            /\ core' = c
            /\ UNCHANGED <<tasks, outbox>>
         \/ /\ Absorbs(c, g, s) /\ s = Malformed
            /\ DropAndResync(c)
         \/ /\ Absorbs(c, g, s) /\ s \in Position
            /\ MaybeSearch(Install(c, s))
            /\ UNCHANGED outbox
  /\ UNCHANGED <<socket, answered, answers>>

OnGameEnd(g) ==
  /\ Receives("game_end")
  /\ LET c == HealPending(core)
     IN  core' = IF g \in {NoGame, c.game} THEN GoIdle(c) ELSE c
  /\ UNCHANGED <<tasks, outbox, socket, answered, answers>>

\* The phase is not consulted, only the game.
OnError(g) ==
  /\ Receives("error")
  /\ LET c == HealPending(core)
     IN  \/ g # NoGame /\ g = c.game /\ DropAndResync(c)
         \/ (g = NoGame \/ g # c.game) /\ core' = c /\ UNCHANGED <<tasks, outbox>>
  /\ UNCHANGED <<socket, answered, answers>>

\* users_update and unknown kinds: nothing but the healing every frame does.
OnOther ==
  /\ socket /\ "users_update" \in Sends
  /\ core' = HealPending(core)
  /\ UNCHANGED <<tasks, outbox, socket, answered, answers>>

\* A WebSocket ping is answered through the writer.
OnPing ==
  /\ Receives("ping")
  /\ Queue("Pong")
  /\ UNCHANGED <<core, tasks, socket, answered, answers>>

-----------------------------------------------------------------------------
\* The challenger timer, and the clock.

\* challenge_tick heals first.
ChallengeTick ==
  /\ socket /\ Challenger /\ tick = "asleep"
  /\ core' = HealPending(core)
  /\ tick' = "check"
  /\ UNCHANGED <<tasks, outbox, socket, answered, answers>>

\* Idle and registered, it picks an idle peer, if the lobby has one.
ChallengeCheck ==
  /\ tick = "check"
  /\ \/ tick' = "asleep"
     \/ core.phase = "Idle" /\ core.registered /\ Len(outbox) < MaxOutbox /\ tick' = "send"
  /\ UNCHANGED <<core, tasks, outbox, socket, answered, answers>>

\* The lock was released since: a frame may have been handled, or the session ended.
ChallengeSend ==
  /\ tick = "send"
  /\ Queue("Challenge")
  /\ tick' = "asleep"
  /\ UNCHANGED <<core, tasks, socket, answered, answers>>

GraceRunsOut ==
  /\ core.pending = "fresh"
  /\ core' = [core EXCEPT !.pending = "overdue"]
  /\ UNCHANGED <<tasks, outbox, socket, tick, answered, answers>>

CooldownRunsOut ==
  /\ core.cooldown
  /\ core' = [core EXCEPT !.cooldown = FALSE]
  /\ UNCHANGED <<tasks, outbox, socket, tick, answered, answers>>

-----------------------------------------------------------------------------
\* The search task.

Cancelled(t) == core.cancel # t

Become(t, task) ==
  /\ tasks' = [tasks EXCEPT ![t] = task]
  /\ UNCHANGED <<core, outbox, socket, answered, answers>>

\* NoAction: the engine had none to offer.
SelectFallback(t) ==
  /\ tasks[t].pc = "fallback"
  /\ \E a \in Action \cup {NoAction} :
       Become(t, [tasks[t] EXCEPT !.pc = "engine", !.fallback = a])

\* Once there is an action the fallback is not read again.
Answer(t, a) ==
  Become(t, [tasks[t] EXCEPT !.pc = "check", !.fallback = NoAction, !.action = a])

EngineChose(t) ==
  /\ tasks[t].pc = "engine"
  /\ \E a \in Action : Answer(t, a)

\* Mutant: a missing fallback is not noticed.
PlayFallbackUnchecked(t) == Answer(t, tasks[t].fallback)

PlayFallback(t) ==
  IF tasks[t].fallback = NoAction
  THEN Become(t, Free) ELSE Answer(t, tasks[t].fallback)

\* The hard wait ran out.  Cancelling its own token changes nothing here: the
\* task does not look at it again.
EngineOverran(t) == tasks[t].pc = "engine" /\ PlayFallback(t)

EngineNothing(t) ==
  /\ tasks[t].pc = "engine"
  /\ IF Cancelled(t) THEN Become(t, Free) ELSE PlayFallback(t)

\* The engine panicked: the task ends without an answer.
EngineFailed(t) == tasks[t].pc = "engine" /\ Become(t, Free)

Validate(t) ==
  /\ tasks[t].pc = "check"
  /\ Become(t, IF Valid(core, tasks[t].for, tasks[t].action)
               THEN [tasks[t] EXCEPT !.pc = "enqueue"] ELSE Free)

\* The lock was released since Validate; a frame may have been handled.
Enqueue(t) ==
  /\ tasks[t].pc = "enqueue"
  /\ Len(outbox) < MaxOutbox
  /\ outbox' = Append(outbox, [kind |-> "Action", for |-> tasks[t].for,
                               action |-> tasks[t].action, fresh |-> TRUE])
  /\ tasks' = [tasks EXCEPT ![t] = Free]
  /\ UNCHANGED <<core, socket, answered, answers>>

-----------------------------------------------------------------------------
\* The writer and the socket.

\* Mutant: the writer does not revalidate.
SupersededNever(item) == FALSE

Superseded(item) == item.kind = "Action" /\ ~Valid(core, item.for, item.action)

WriteAction ==
  /\ socket /\ outbox # <<>>
  /\ Head(outbox).kind = "Action"
  /\ ~Superseded(Head(outbox))
  /\ outbox' = Tail(outbox)
  /\ answered' = Head(outbox).for.version
  /\ answers' = answers + 1
  /\ UNCHANGED <<core, tasks, socket>>

DropSuperseded ==
  /\ socket /\ outbox # <<>>
  /\ Superseded(Head(outbox))
  /\ outbox' = Tail(outbox)
  /\ UNCHANGED <<core, tasks, socket, answered, answers>>

WriteNote ==
  /\ socket /\ outbox # <<>>
  /\ Head(outbox).kind # "Action"
  /\ outbox' = Tail(outbox)
  /\ UNCHANGED <<core, tasks, socket, answered, answers>>

Connect ==
  /\ ~socket
  /\ socket' = TRUE
  /\ UNCHANGED <<core, tasks, outbox, answered, answers>>

\* The session ends with queue q left over.  The queue outlives the session.
EndSession(q) ==
  /\ socket
  /\ core.version < MaxVersion
  /\ socket' = FALSE
  /\ core' = OnDisconnected(core)
  /\ outbox' = [i \in DOMAIN q |-> [q[i] EXCEPT !.fresh = FALSE]]
  /\ UNCHANGED <<tasks, answered, answers>>

Disconnect == EndSession(outbox)

\* The send fails: the item is gone, and so is the session.
WriteFails ==
  /\ outbox # <<>>
  /\ ~Superseded(Head(outbox))
  /\ EndSession(Tail(outbox))

-----------------------------------------------------------------------------
Snapshot == Position \cup {Missing, Malformed}

Frame ==
  \/ OnWelcome \/ OnBotWanted \/ OnLobbyJoined \/ OnLobbyClosed
  \/ OnChallengeReceived \/ OnOther \/ OnPing
  \/ \E g \in Game, s \in Snapshot, me \in Seat : OnGameStart(g, s, me)
  \/ \E g \in Game \cup {NoGame}, s \in Snapshot : OnRefresh(g, s) \/ OnDriver(g, s)
  \/ \E g \in Game \cup {NoGame} : OnGameEnd(g) \/ OnError(g)

Tick == ChallengeTick \/ ChallengeCheck \/ ChallengeSend

Timer == Tick \/ GraceRunsOut \/ CooldownRunsOut

SearchTask(t) ==
  \/ SelectFallback(t) \/ EngineChose(t) \/ EngineOverran(t) \/ EngineNothing(t)
  \/ EngineFailed(t) \/ Validate(t) \/ Enqueue(t)

Writer == WriteAction \/ DropSuperseded \/ WriteNote \/ WriteFails

Next ==
  \/ /\ \/ Frame
        \/ \E t \in TaskId : SearchTask(t)
        \/ Writer
        \/ Connect
        \/ Disconnect
     /\ UNCHANGED tick
  \/ Timer

Spec == Init /\ [][Next]_vars

\* The clock runs, and so does the challenger timer of a live session.
TimerSpec == Spec /\ WF_vars(GraceRunsOut) /\ WF_vars(Tick)
=============================================================================
