-------------------------- MODULE BotClientProofs --------------------------
(***************************************************************************)
(* The version gate, proved for every value of the constants: any set of   *)
(* games, seats, positions and search tasks, any server, any bounds.       *)
(*                                                                         *)
(* The argument.  Every handler takes the core along Moves: either the     *)
(* version goes up and the cancel token is dropped, or nothing the guard   *)
(* looks at changes.  So work dispatched at the current version still fits *)
(* the core (Fits), and searched_version = position_version says that the  *)
(* version was dispatched already; that is what keeps the next dispatch    *)
(* from doubling it, and an answered version from being dispatched again.  *)
(*                                                                         *)
(* At the end, the delay between two sessions: bounded by next_backoff's   *)
(* clamp, and climbing while sessions flap when the ceiling lies below a   *)
(* stable session.                                                         *)
(***************************************************************************)
EXTENDS BotClientProps, Reconnect, TLAPS

-----------------------------------------------------------------------------
\* The inductive invariant.

\* Work for d fits core c: it is older, or c is what it was dispatched for.
Fits(c, d) ==
  /\ d.version <= c.version
  /\ d.version = c.version => /\ c.game = d.game
                              /\ c.seat = d.seat
                              /\ c.position = d.position
                              /\ c.searched = c.version

PositionHasGame(c) == c.position # NoPosition => c.game # NoGame

TasksFit == \A t \in TaskId : Busy(t) => Fits(core, tasks[t].for)

\* An action queued for a socket that died is out of date.
QueueFits ==
  \A i \in QueuedActions :
    /\ Fits(core, outbox[i].for)
    /\ ~outbox[i].fresh => outbox[i].for.version < core.version

AnsweredWasSearched ==
  /\ answered <= core.version
  /\ answered = core.version => core.searched = core.version

TokenIsCurrent ==
  \A t \in TaskId : Busy(t) /\ core.cancel = t => tasks[t].for.version = core.version

\* TypeOK without the timer's tick, which no other part of the state depends on.
StateOK ==
  /\ core \in Core
  /\ tasks \in [TaskId -> Task \cup {Free}]
  /\ outbox \in Seq(ActionItem \cup NoteItem)
  /\ socket \in BOOLEAN
  /\ answered \in Nat
  /\ answers \in Nat

IInv ==
  /\ StateOK
  /\ PositionHasGame(core)
  /\ TasksFit
  /\ QueueFits
  /\ OneActionPerVersion
  /\ AnsweredWasSearched
  /\ TokenIsCurrent

-----------------------------------------------------------------------------
\* How a handler may change the core.

Moves(c, d) ==
  \/ /\ d.version > c.version
     /\ d.cancel = NoTask
  \/ /\ d.version = c.version
     /\ d.game = c.game
     /\ d.seat = c.seat
     /\ d.position = c.position
     /\ d.searched = c.searched
     /\ d.cancel = c.cancel

Sound(c) == c \in Core /\ PositionHasGame(c)

(***************************************************************************)
(* Each helper of BotCore keeps the core sound and moves it.               *)
(***************************************************************************)
LEMMA HelpersMove ==
  ASSUME NEW c \in Core, PositionHasGame(c)
  PROVE  /\ Sound(DropPosition(c)) /\ Moves(c, DropPosition(c))
         /\ \A p \in Position : c.game # NoGame =>
              Sound(Install(c, p)) /\ Moves(c, Install(c, p))
         /\ Sound(GoIdle(c)) /\ Moves(c, GoIdle(c))
         /\ Sound(OnDisconnected(c)) /\ Moves(c, OnDisconnected(c))
         /\ \A g \in Game, p \in Position, me \in Seat :
              Sound(StartGame(c, g, p, me)) /\ Moves(c, StartGame(c, g, p, me))
<1>1. c.version + 1 > c.version /\ c.version + 1 \in Nat
  BY DEF Core
<1>2. Invalidate(c) \in Core
  BY <1>1 DEF Invalidate, Core
<1>3. Sound(DropPosition(c)) /\ Moves(c, DropPosition(c))
  BY <1>1, <1>2 DEF DropPosition, Invalidate, Sound, Moves, Core, PositionHasGame
<1>4. ASSUME NEW p \in Position, c.game # NoGame
      PROVE  Sound(Install(c, p)) /\ Moves(c, Install(c, p))
  BY <1>1, <1>2, <1>4 DEF Install, Invalidate, Sound, Moves, Core, PositionHasGame
<1>5. Sound(GoIdle(c)) /\ Moves(c, GoIdle(c))
  BY <1>1, <1>2 DEF GoIdle, Invalidate, Sound, Moves, Core, PositionHasGame, Phase
<1>6. Sound(OnDisconnected(c)) /\ Moves(c, OnDisconnected(c))
  BY <1>1, <1>2 DEF OnDisconnected, Invalidate, Sound, Moves, Core, PositionHasGame, Phase
<1>7. ASSUME NEW g \in Game, NEW p \in Position, NEW me \in Seat
      PROVE  Sound(StartGame(c, g, p, me)) /\ Moves(c, StartGame(c, g, p, me))
  BY <1>1, <1>2, NoneAssumption, SeatAssumption
     DEF StartGame, Invalidate, Sound, Moves, Core, PositionHasGame, Phase
<1>. QED
  BY <1>3, <1>4, <1>5, <1>6, <1>7

LEMMA MovesTransitive ==
  ASSUME NEW c \in Core, NEW d \in Core, NEW e \in Core, Moves(c, d), Moves(d, e)
  PROVE  Moves(c, e)
BY DEF Moves, Core

LEMMA HealMoves ==
  ASSUME NEW c \in Core, PositionHasGame(c)
  PROVE  Sound(HealPending(c)) /\ Moves(c, HealPending(c))
BY HelpersMove DEF HealPending, Sound, Moves

-----------------------------------------------------------------------------
\* What every handler and timer step amounts to.

HandlerStep ==
  /\ \E c \in Core :
       /\ Sound(c) /\ Moves(core, c)
       /\ \/ core' = c /\ tasks' = tasks
          \/ CanSearch(c) /\ \E t \in TaskId : Spawn(c, t)
  /\ \/ outbox' = outbox
     \/ \E kind \in NoteKind : outbox' = Append(outbox, Note(kind))
  /\ UNCHANGED <<socket, answered, answers>>

(***************************************************************************)
(* A frame or a timer moves the core, may spawn one search for the core it *)
(* leaves, may queue one note, and touches nothing else.                   *)
(***************************************************************************)
LEMMA FramesAreHandlerSteps ==
  ASSUME core \in Core, PositionHasGame(core), Frame \/ Timer
  PROVE  HandlerStep
<1>. DEFINE h == HealPending(core)
<1>h. h \in Core /\ Sound(h) /\ Moves(core, h)
  BY HealMoves DEF Sound
<1>m. ASSUME NEW c \in Core, Sound(c), Moves(h, c)
      PROVE  Moves(core, c)
  BY <1>h, <1>m, MovesTransitive
<1>k. /\ NoteKind = {"JoinLobby", "Accept", "Decline", "Challenge", "Resync", "Pong"}
      /\ \A kind : Queue(kind) <=> outbox' = Append(outbox, Note(kind))
  BY DEF NoteKind, Queue
<1>s. ASSUME NEW c \in Core, Sound(c), Moves(h, c), MaybeSearch(c)
      PROVE  \/ core' = c /\ tasks' = tasks
             \/ CanSearch(c) /\ \E t \in TaskId : Spawn(c, t)
  BY <1>s DEF MaybeSearch
<1>r. ASSUME Absorbs(h, NoGame, Malformed) \/ h.game # NoGame, DropAndResync(h)
      PROVE  /\ \E c \in Core : Sound(c) /\ Moves(h, c) /\ core' = c /\ tasks' = tasks
             /\ outbox' = outbox \/ outbox' = Append(outbox, Note("Resync"))
  <2>1. Sound(DropPosition(h)) /\ Moves(h, DropPosition(h))
    BY <1>h, HelpersMove DEF Sound
  <2>2. DEFINE c == [DropPosition(h) EXCEPT !.cooldown = TRUE]
  <2>3. c \in Core /\ Sound(c) /\ Moves(h, c)
    BY <2>1 DEF Sound, Moves, Core, PositionHasGame
  <2>. QED
    BY <2>3, <1>r, <1>k DEF DropAndResync
<1>1. CASE OnWelcome
  <2>. DEFINE c == [h EXCEPT !.phase = "Idle", !.registered = TRUE]
  <2>a. c \in Core
    <3>1. h \in Core /\ "Idle" \in Phase
      BY <1>h DEF Phase
    <3>2. [h EXCEPT !.phase = "Idle"] \in Core
      BY <3>1 DEF Core
    <3>. QED
      BY <3>1, <3>2 DEF Core
  <2>b. /\ c.version = h.version /\ c.game = h.game /\ c.seat = h.seat
        /\ c.position = h.position /\ c.searched = h.searched /\ c.cancel = h.cancel
    BY <1>h DEF Core
  <2>c. Sound(c) /\ Moves(h, c)
    BY <1>h, <2>a, <2>b DEF Sound, Moves, PositionHasGame
  <2>1. c \in Core /\ Sound(c) /\ Moves(h, c)
    BY <2>a, <2>c
  <2>. QED
    BY <1>1, <2>1, <1>m DEF OnWelcome, HandlerStep
<1>2. CASE OnBotWanted \/ ChallengeTick
  <2>. QED
    BY <1>2, <1>h, <1>k DEF OnBotWanted, ChallengeTick, HandlerStep
<1>3. CASE OnLobbyJoined
  <2>. DEFINE c == [h EXCEPT !.phase = "InLobby"]
  <2>1. c \in Core /\ Sound(c) /\ Moves(h, c)
    BY <1>h DEF Sound, Moves, Core, PositionHasGame, Phase
  <2>. QED
    BY <1>3, <2>1, <1>m DEF OnLobbyJoined, HandlerStep
<1>4. CASE OnLobbyClosed
  <2>1. GoIdle(h) \in Core /\ Sound(GoIdle(h)) /\ Moves(core, GoIdle(h))
    BY <1>h, <1>m, HelpersMove DEF Sound
  <2>. QED
    BY <1>4, <1>h, <2>1 DEF OnLobbyClosed, HandlerStep
<1>5. CASE OnChallengeReceived
  <2>. DEFINE c == [h EXCEPT !.phase = "InGame", !.pending = "fresh"]
  <2>0. "InGame" \in Phase /\ h.version \in Nat
    BY <1>h DEF Phase, Core
  <2>1. c \in Core /\ Sound(c) /\ Moves(h, c)
    <3>. HIDE DEF h
    <3>. QED
      BY <1>h, <2>0 DEF Sound, Moves, Core, PositionHasGame
  <2>2. Moves(core, c)
    BY <2>1, <1>m
  <2>. QED
    BY <1>5, <1>h, <1>k, <2>1, <2>2 DEF OnChallengeReceived, Accept, HandlerStep
<1>6. CASE OnOther
  BY <1>6, <1>h DEF OnOther, HandlerStep
<1>7. CASE OnPing
  <2>1. Sound(core) /\ Moves(core, core)
    BY DEF Sound, Moves
  <2>. QED
    BY <1>7, <2>1, <1>k DEF OnPing, HandlerStep
<1>8. ASSUME NEW g \in Game, NEW s \in Snapshot, NEW me \in Seat, OnGameStart(g, s, me)
      PROVE  HandlerStep
  <2>1. CASE s \in Position
    <3>. DEFINE c == StartGame(h, g, s, me)
    <3>1. c \in Core /\ Sound(c) /\ Moves(h, c)
      BY <2>1, <1>h, HelpersMove DEF Sound
    <3>2. MaybeSearch(c)
      BY <1>8, <2>1, NoneAssumption DEF OnGameStart
    <3>. HIDE DEF c
    <3>. QED
      BY <1>8, <3>1, <3>2, <1>m, <1>s DEF OnGameStart, HandlerStep
  <2>2. CASE s \in {Missing, Malformed}
    BY <1>8, <2>2, <1>h, NoneAssumption DEF OnGameStart, HandlerStep
  <2>. QED
    BY <2>1, <2>2 DEF Snapshot
<1>9. ASSUME NEW g \in Game \cup {NoGame}, NEW s \in Snapshot, OnRefresh(g, s)
      PROVE  HandlerStep
  <2>1. CASE ~Absorbs(h, g, s) /\ core' = h /\ UNCHANGED <<tasks, outbox>>
    BY <1>9, <2>1, <1>h DEF OnRefresh, HandlerStep
  <2>2. CASE Absorbs(h, g, s) /\ DropAndResync(h)
    BY <1>9, <2>2, <1>r, <1>m, <1>k DEF OnRefresh, HandlerStep, Absorbs
  <2>3. CASE Absorbs(h, g, s) /\ s \in Position /\ core' = Install(h, s)
             /\ UNCHANGED <<tasks, outbox>>
    <3>1. Install(h, s) \in Core /\ Sound(Install(h, s)) /\ Moves(h, Install(h, s))
      BY <2>3, <1>h, HelpersMove DEF Sound, Absorbs
    <3>. QED
      BY <1>9, <2>3, <3>1, <1>m DEF OnRefresh, HandlerStep
  <2>. QED
    BY <1>9, <2>1, <2>2, <2>3 DEF OnRefresh
<1>10. ASSUME NEW g \in Game \cup {NoGame}, NEW s \in Snapshot, OnDriver(g, s)
      PROVE  HandlerStep
  <2>1. CASE ~Absorbs(h, g, s) /\ core' = h /\ UNCHANGED <<tasks, outbox>>
    BY <1>10, <2>1, <1>h DEF OnDriver, HandlerStep
  <2>2. CASE Absorbs(h, g, s) /\ DropAndResync(h)
    BY <1>10, <2>2, <1>r, <1>m, <1>k DEF OnDriver, HandlerStep, Absorbs
  <2>3. CASE Absorbs(h, g, s) /\ s \in Position /\ MaybeSearch(Install(h, s))
             /\ UNCHANGED outbox
    <3>. DEFINE c == Install(h, s)
    <3>1. c \in Core /\ Sound(c) /\ Moves(h, c)
      BY <2>3, <1>h, HelpersMove DEF Sound, Absorbs
    <3>2. MaybeSearch(c)
      BY <2>3
    <3>. HIDE DEF c
    <3>. QED
      BY <1>10, <2>3, <3>1, <3>2, <1>m, <1>s DEF OnDriver, HandlerStep
  <2>. QED
    BY <1>10, <2>1, <2>2, <2>3 DEF OnDriver
<1>11. ASSUME NEW g \in Game \cup {NoGame}, OnGameEnd(g)
       PROVE  HandlerStep
  <2>1. GoIdle(h) \in Core /\ Sound(GoIdle(h)) /\ Moves(core, GoIdle(h))
    BY <1>h, <1>m, HelpersMove DEF Sound
  <2>. QED
    BY <1>11, <1>h, <2>1 DEF OnGameEnd, HandlerStep
<1>12. ASSUME NEW g \in Game \cup {NoGame}, OnError(g)
       PROVE  HandlerStep
  <2>1. CASE g # NoGame /\ g = h.game /\ DropAndResync(h)
    BY <1>12, <2>1, <1>r, <1>m, <1>k DEF OnError, HandlerStep
  <2>2. CASE core' = h /\ UNCHANGED <<tasks, outbox>>
    BY <1>12, <2>2, <1>h DEF OnError, HandlerStep
  <2>. QED
    BY <1>12, <2>1, <2>2 DEF OnError
<1>13. CASE GraceRunsOut
  <2>. DEFINE c == [core EXCEPT !.pending = "overdue"]
  <2>1. c \in Core /\ Sound(c) /\ Moves(core, c)
    BY DEF Sound, Moves, Core, PositionHasGame
  <2>. QED
    BY <1>13, <2>1 DEF GraceRunsOut, HandlerStep
<1>14. CASE CooldownRunsOut
  <2>. DEFINE c == [core EXCEPT !.cooldown = FALSE]
  <2>1. c \in Core /\ Sound(c) /\ Moves(core, c)
    BY DEF Sound, Moves, Core, PositionHasGame
  <2>. QED
    BY <1>14, <2>1 DEF CooldownRunsOut, HandlerStep
<1>15. CASE ChallengeCheck \/ ChallengeSend
  <2>1. Sound(core) /\ Moves(core, core)
    BY DEF Sound, Moves
  <2>. QED
    BY <1>15, <2>1, <1>k DEF ChallengeCheck, ChallengeSend, HandlerStep
<1>. QED
  BY <1>1, <1>2, <1>3, <1>4, <1>5, <1>6, <1>7, <1>8, <1>9, <1>10, <1>11, <1>12,
     <1>13, <1>14, <1>15 DEF Frame, Timer, Tick

-----------------------------------------------------------------------------
\* The queue, whatever happens to it.

(***************************************************************************)
(* Appending a note adds no queued action and keeps those there are.       *)
(***************************************************************************)
LEMMA NoteKeepsActions ==
  ASSUME StateOK, NEW kind \in NoteKind, outbox' = Append(outbox, Note(kind))
  PROVE  /\ outbox' \in Seq(ActionItem \cup NoteItem)
         /\ QueuedActions' = QueuedActions
         /\ \A i \in QueuedActions : outbox'[i] = outbox[i]
<1>1. outbox \in Seq(ActionItem \cup NoteItem)
  BY DEF StateOK
<1>2. Note(kind) \in NoteItem /\ Note(kind).kind # "Action"
  BY DEF Note, NoteItem, NoteKind
<1>3. /\ outbox' \in Seq(ActionItem \cup NoteItem)
      /\ Len(outbox') = Len(outbox) + 1
      /\ Len(outbox) \in Nat
      /\ \A i \in 1..Len(outbox) : outbox'[i] = outbox[i]
      /\ outbox'[Len(outbox) + 1] = Note(kind)
  BY <1>1, <1>2
<1>. QED
  BY <1>2, <1>3 DEF QueuedActions

(***************************************************************************)
(* A step that only moves the core keeps every item of the invariant, as   *)
(* long as tasks and queued actions stay what they were.                   *)
(***************************************************************************)
LEMMA MoveKeepsIInv ==
  ASSUME IInv, NEW c \in Core, Sound(c), Moves(core, c),
         NEW d, d.version \in Nat, Fits(core, d)
  PROVE  /\ Fits(c, d)
         /\ d.version = c.version => d.version = core.version
<1>1. core.version \in Nat /\ c.version \in Nat
  BY DEF IInv, StateOK, Core
<1>. QED
  BY <1>1 DEF Moves, Fits

LEMMA HandlerKeepsIInv ==
  ASSUME IInv, HandlerStep
  PROVE  IInv'
<1>1. PICK c \in Core :
        /\ Sound(c) /\ Moves(core, c)
        /\ \/ core' = c /\ tasks' = tasks
           \/ CanSearch(c) /\ \E t \in TaskId : Spawn(c, t)
  BY DEF HandlerStep
<1>2. StateOK /\ core \in Core /\ core.version \in Nat /\ c.version \in Nat
  BY DEF IInv, StateOK, Core
<1>3. /\ outbox' \in Seq(ActionItem \cup NoteItem)
      /\ QueuedActions' = QueuedActions
      /\ \A i \in QueuedActions : outbox'[i] = outbox[i]
  <2>1. CASE outbox' = outbox
    BY <2>1, <1>2 DEF StateOK, QueuedActions
  <2>2. CASE \E kind \in NoteKind : outbox' = Append(outbox, Note(kind))
    BY <2>2, <1>2, NoteKeepsActions
  <2>. QED
    BY <2>1, <2>2 DEF HandlerStep
<1>4. UNCHANGED <<socket, answered, answers>>
  BY DEF HandlerStep
<1>5. \A t \in TaskId : Busy(t) => /\ tasks[t] \in Task
                                   /\ tasks[t].for \in Dispatch
                                   /\ tasks[t].for.version \in Nat
  BY <1>2 DEF StateOK, Task, Searching, Answering, Dispatch, Busy
<1>6. \A i \in QueuedActions : outbox[i].for.version \in Nat
  <2>1. ASSUME NEW i \in QueuedActions
        PROVE  outbox[i].for.version \in Nat
    <3>1. outbox[i] \in ActionItem \cup NoteItem /\ outbox[i].kind = "Action"
      BY <1>2 DEF StateOK, QueuedActions
    <3>. QED
      BY <3>1 DEF ActionItem, NoteItem, NoteKind, Dispatch
  <2>. QED
    BY <2>1
<1>7. /\ \A t \in TaskId : Busy(t) =>
           /\ Fits(c, tasks[t].for)
           /\ tasks[t].for.version = c.version => tasks[t].for.version = core.version
      /\ \A i \in QueuedActions :
           /\ Fits(c, outbox[i].for)
           /\ outbox[i].for.version = c.version => outbox[i].for.version = core.version
           /\ ~outbox[i].fresh => outbox[i].for.version < c.version
  <2>1. core.version <= c.version
    BY <1>1, <1>2 DEF Moves
  <2>. QED
    BY <1>1, <1>2, <1>5, <1>6, <2>1, MoveKeepsIInv DEF IInv, TasksFit, QueueFits
<1>8. CASE core' = c /\ tasks' = tasks
  <2>1. StateOK'
    BY <1>2, <1>3, <1>4, <1>8 DEF StateOK
  <2>2. PositionHasGame(core)'
    BY <1>1, <1>8 DEF Sound, PositionHasGame
  <2>3. TasksFit' /\ QueueFits'
    BY <1>3, <1>7, <1>8 DEF TasksFit, QueueFits, Busy
  <2>4. OneActionPerVersion'
    <3>1. answered = c.version => answered = core.version
      BY <1>1, <1>2 DEF IInv, AnsweredWasSearched, Moves, StateOK
    <3>. QED
      BY <3>1, <1>3, <1>4, <1>8 DEF IInv, OneActionPerVersion, Busy
  <2>5. AnsweredWasSearched'
    BY <1>1, <1>2, <1>4, <1>8 DEF IInv, AnsweredWasSearched, Moves, StateOK
  <2>6. TokenIsCurrent'
    BY <1>1, <1>8, NoneAssumption DEF IInv, TokenIsCurrent, Moves, Busy
  <2>. QED
    BY <2>1, <2>2, <2>3, <2>4, <2>5, <2>6 DEF IInv
<1>9. ASSUME CanSearch(c), NEW u \in TaskId, Spawn(c, u)
      PROVE  IInv'
  <2>. DEFINE d == [game |-> c.game, version |-> c.version, seat |-> c.seat,
                    position |-> c.position]
  <2>1. /\ tasks[u] = Free
        /\ core' = [c EXCEPT !.cancel = u, !.searched = c.version]
        /\ tasks' = [tasks EXCEPT ![u] =
             [pc |-> "fallback", fallback |-> NoAction, action |-> NoAction, for |-> d]]
    BY <1>9 DEF Spawn
  <2>2. /\ c.searched # c.version
        /\ c.game \in Game /\ c.position \in Position /\ c.seat \in Seat
    BY <1>9, PositionAssumption DEF CanSearch, MayAct, OurTurn, Core
  <2>3. d \in Dispatch
    BY <2>2, <1>2 DEF Dispatch
  <2>4. /\ core' \in Core
        /\ core'.version = c.version /\ core'.searched = c.version /\ core'.cancel = u
        /\ core'.game = c.game /\ core'.position = c.position /\ core'.seat = c.seat
    BY <2>1 DEF Core
  <2>5. /\ tasks'[u] \in Task /\ tasks'[u].for = d /\ tasks'[u] # Free
        /\ \A t \in TaskId \ {u} : tasks'[t] = tasks[t]
        /\ tasks' \in [TaskId -> Task \cup {Free}]
    BY <2>1, <2>3, <1>2 DEF StateOK, Task, Searching, Free
  <2>. HIDE DEF d
  <2>6. d.version = c.version /\ Fits(core', d)
    BY <2>4, <1>2 DEF Fits, d
  \* Nothing dispatched before is at c's version: it would have been searched.
  <2>7. /\ \A t \in TaskId \ {u} : Busy(t) => tasks[t].for.version # c.version
        /\ \A i \in QueuedActions : outbox[i].for.version # c.version
        /\ answered # c.version
    BY <1>1, <1>2, <1>7, <2>2 DEF Fits, IInv, AnsweredWasSearched, Moves, StateOK
  <2>8. StateOK'
    BY <1>2, <1>3, <1>4, <2>4, <2>5 DEF StateOK
  <2>9. PositionHasGame(core)'
    BY <1>1, <2>4 DEF Sound, PositionHasGame
  <2>10. TasksFit' /\ QueueFits'
    BY <1>3, <1>7, <2>4, <2>5, <2>6, <2>7 DEF TasksFit, QueueFits, Busy, Fits
  <2>11. OneActionPerVersion'
    BY <1>3, <1>4, <2>4, <2>5, <2>6, <2>7 DEF IInv, OneActionPerVersion, Busy
  <2>12. AnsweredWasSearched'
    BY <1>1, <1>2, <1>4, <2>4 DEF IInv, AnsweredWasSearched, Moves, StateOK
  <2>13. TokenIsCurrent'
    BY <2>4, <2>5, <2>6 DEF TokenIsCurrent
  <2>. QED
    BY <2>8, <2>9, <2>10, <2>11, <2>12, <2>13 DEF IInv
<1>. QED
  BY <1>1, <1>8, <1>9

-----------------------------------------------------------------------------
\* The search tasks.

(***************************************************************************)
(* A step of a search task that leaves its dispatch alone, or frees it,    *)
(* keeps the invariant: nothing in it looks at the pc or the answer.       *)
(***************************************************************************)
LEMMA BecomeKeepsIInv ==
  ASSUME IInv, NEW t \in TaskId, NEW task, Become(t, task), Busy(t),
         task = Free \/ (task \in Task /\ task.for = tasks[t].for)
  PROVE  IInv'
<1>1. /\ StateOK
      /\ tasks' = [tasks EXCEPT ![t] = task]
      /\ UNCHANGED <<core, outbox, socket, answered, answers>>
  BY DEF Become, IInv
<1>2. /\ \A u \in TaskId \ {t} : tasks'[u] = tasks[u]
      /\ tasks'[t] = task
      /\ tasks' \in [TaskId -> Task \cup {Free}]
  BY <1>1 DEF StateOK
<1>3. \A u \in TaskId : Busy(u)' => Busy(u) /\ tasks'[u].for = tasks[u].for
  BY <1>2 DEF Busy
<1>4. QueuedActions' = QueuedActions
  BY <1>1 DEF QueuedActions
<1>5. StateOK'
  BY <1>1, <1>2 DEF StateOK
<1>6. PositionHasGame(core)' /\ AnsweredWasSearched'
  BY <1>1 DEF IInv, PositionHasGame, AnsweredWasSearched
<1>7. TasksFit' /\ QueueFits' /\ TokenIsCurrent'
  BY <1>1, <1>3, <1>4 DEF IInv, TasksFit, QueueFits, TokenIsCurrent
<1>8. OneActionPerVersion'
  BY <1>1, <1>3, <1>4 DEF IInv, OneActionPerVersion
<1>. QED
  BY <1>5, <1>6, <1>7, <1>8 DEF IInv

LEMMA TaskSteps ==
  ASSUME IInv, NEW t \in TaskId,
         \/ SelectFallback(t) \/ EngineChose(t) \/ EngineOverran(t)
         \/ EngineNothing(t) \/ EngineFailed(t) \/ Validate(t)
  PROVE  IInv'
<1>1. Busy(t) /\ tasks[t] \in Task
  <2>1. tasks[t].pc \in {"fallback", "engine", "check"}
    BY DEF SelectFallback, EngineChose, EngineOverran, EngineNothing, EngineFailed, Validate
  <2>. QED
    BY <2>1 DEF IInv, StateOK, Busy, Free
<1>2. tasks[t].for \in Dispatch
  BY <1>1 DEF Task, Searching, Answering
<1>3. tasks[t].pc = "engine" => tasks[t].fallback \in Action \cup {NoAction}
  BY <1>1 DEF Task, Searching, Answering
<1>4. ASSUME NEW a \in Action, Answer(t, a)
      PROVE  IInv'
  <2>. DEFINE task == [tasks[t] EXCEPT !.pc = "check", !.fallback = NoAction, !.action = a]
  <2>1. task \in Task /\ task.for = tasks[t].for
    BY <1>1, <1>2 DEF Task, Searching, Answering
  <2>2. Become(t, task)
    BY <1>4 DEF Answer
  <2>. HIDE DEF task
  <2>. QED
    BY <1>1, <2>1, <2>2, BecomeKeepsIInv
<1>5. ASSUME Become(t, Free)
      PROVE  IInv'
  BY <1>1, <1>5, BecomeKeepsIInv
<1>6. ASSUME tasks[t].pc = "engine", PlayFallback(t)
      PROVE  IInv'
  BY <1>3, <1>4, <1>5, <1>6 DEF PlayFallback
<1>7. CASE SelectFallback(t)
  <2>1. PICK a \in Action \cup {NoAction} :
          Become(t, [tasks[t] EXCEPT !.pc = "engine", !.fallback = a])
    BY <1>7 DEF SelectFallback
  <2>. DEFINE task == [tasks[t] EXCEPT !.pc = "engine", !.fallback = a]
  <2>2. task \in Task /\ task.for = tasks[t].for
    BY <1>1, <1>7 DEF Task, Searching, Answering, SelectFallback
  <2>3. Become(t, task)
    BY <2>1
  <2>. HIDE DEF task
  <2>. QED
    BY <1>1, <2>2, <2>3, BecomeKeepsIInv
<1>8. CASE EngineChose(t)
  BY <1>8, <1>4 DEF EngineChose
<1>9. CASE EngineOverran(t) \/ EngineNothing(t) \/ EngineFailed(t)
  BY <1>9, <1>5, <1>6 DEF EngineOverran, EngineNothing, EngineFailed
<1>10. CASE Validate(t)
  <2>. DEFINE task == [tasks[t] EXCEPT !.pc = "enqueue"]
  <2>1. task \in Task /\ task.for = tasks[t].for
    BY <1>1, <1>10 DEF Task, Searching, Answering, Validate
  <2>2. Become(t, task) \/ Become(t, Free)
    BY <1>10 DEF Validate
  <2>. HIDE DEF task
  <2>. QED
    BY <1>1, <1>5, <2>1, <2>2, BecomeKeepsIInv
<1>. QED
  BY <1>7, <1>8, <1>9, <1>10

(***************************************************************************)
(* Queueing moves the one piece of work for its version from the tasks to  *)
(* the queue.                                                              *)
(***************************************************************************)
LEMMA EnqueueStep ==
  ASSUME IInv, NEW t \in TaskId, Enqueue(t)
  PROVE  IInv'
<1>. DEFINE d == tasks[t].for
            n == Len(outbox) + 1
            item == [kind |-> "Action", for |-> d, action |-> tasks[t].action,
                     fresh |-> TRUE]
<1>1. Busy(t) /\ tasks[t] \in Task /\ StateOK
  BY DEF IInv, StateOK, Busy, Free, Enqueue
<1>2. d \in Dispatch /\ d.version \in Nat /\ tasks[t].action \in Action
  BY <1>1 DEF Task, Searching, Answering, Dispatch, Enqueue
<1>3. item \in ActionItem /\ item.kind = "Action" /\ item.for = d /\ item.fresh
  BY <1>2 DEF ActionItem
<1>4. /\ outbox' = Append(outbox, item)
      /\ tasks' = [tasks EXCEPT ![t] = Free]
      /\ UNCHANGED <<core, socket, answered, answers>>
  BY DEF Enqueue
<1>. HIDE DEF item, d
<1>5. /\ outbox' \in Seq(ActionItem \cup NoteItem)
      /\ Len(outbox) \in Nat /\ Len(outbox') = n
      /\ \A i \in 1..Len(outbox) : outbox'[i] = outbox[i]
      /\ outbox'[n] = item
  BY <1>1, <1>3, <1>4 DEF StateOK
<1>6. /\ QueuedActions' = QueuedActions \cup {n} /\ n \notin QueuedActions
      /\ \A i \in QueuedActions : outbox'[i] = outbox[i]
  BY <1>3, <1>5 DEF QueuedActions
<1>7. /\ \A u \in TaskId \ {t} : tasks'[u] = tasks[u]
      /\ \A u \in TaskId : Busy(u)' => Busy(u) /\ u # t
      /\ tasks' \in [TaskId -> Task \cup {Free}]
  BY <1>1, <1>4 DEF StateOK, Busy
<1>8. StateOK'
  BY <1>1, <1>4, <1>5, <1>7 DEF StateOK
<1>9. PositionHasGame(core)' /\ AnsweredWasSearched'
  BY <1>4 DEF IInv, PositionHasGame, AnsweredWasSearched
<1>10. TasksFit' /\ TokenIsCurrent'
  BY <1>4, <1>7 DEF IInv, TasksFit, TokenIsCurrent
<1>11. QueueFits'
  <2>1. Fits(core, d)
    BY <1>1 DEF IInv, TasksFit, d
  <2>. QED
    BY <1>3, <1>4, <1>5, <1>6, <2>1 DEF IInv, QueueFits
<1>12. OneActionPerVersion'
  <2>1. /\ \A u \in TaskId : Busy(u) /\ tasks[u].for.version = d.version => u = t
        /\ \A i \in QueuedActions : outbox[i].for.version # d.version
        /\ answered = core.version => d.version # answered
    BY <1>1 DEF IInv, OneActionPerVersion, d
  <2>2. \A u \in TaskId : Busy(u)' =>
          tasks'[u] = tasks[u] /\ tasks[u].for.version # d.version
    BY <1>7, <2>1
  <2>3. \A i \in QueuedActions' :
          \/ i = n /\ outbox'[i].for = d
          \/ i \in QueuedActions /\ outbox'[i].for = outbox[i].for
    BY <1>3, <1>5, <1>6
  <2>. DEFINE v(i) == outbox[i].for.version
              w(i) == outbox'[i].for.version
  <2>4. \A i, j \in QueuedActions' : w(i) = w(j) => i = j
    <3>1. \A i, j \in QueuedActions : v(i) = v(j) => i = j
      BY DEF IInv, OneActionPerVersion
    <3>. QED
      BY <2>1, <2>3, <3>1
  <2>5. \A u \in TaskId, i \in QueuedActions' :
          Busy(u)' => tasks'[u].for.version # w(i)
    <3>1. \A u \in TaskId, i \in QueuedActions : Busy(u) => tasks[u].for.version # v(i)
      BY DEF IInv, OneActionPerVersion
    <3>. QED
      BY <2>2, <2>3, <3>1, <1>7
  <2>6. answered = core.version =>
          /\ \A u \in TaskId : Busy(u)' => tasks'[u].for.version # answered
          /\ \A i \in QueuedActions' : w(i) # answered
    <3>1. answered = core.version =>
            /\ \A u \in TaskId : Busy(u) => tasks[u].for.version # answered
            /\ \A i \in QueuedActions : v(i) # answered
      BY DEF IInv, OneActionPerVersion
    <3>. QED
      BY <2>1, <2>2, <2>3, <3>1, <1>7
  <2>7. \A u, r \in TaskId : Busy(u)' /\ Busy(r)' /\ tasks'[u].for.version = tasks'[r].for.version
          => u = r
    BY <2>2, <1>7 DEF IInv, OneActionPerVersion
  <2>. QED
    BY <1>4, <2>4, <2>5, <2>6, <2>7 DEF OneActionPerVersion
<1>. QED
  BY <1>8, <1>9, <1>10, <1>11, <1>12 DEF IInv

-----------------------------------------------------------------------------
\* The writer and the socket.

\* The queue that is left is a suffix of the queue there was, k items shorter.
Leaves(k) ==
  /\ outbox' \in Seq(ActionItem \cup NoteItem)
  /\ \A i \in QueuedActions' : /\ i + k \in QueuedActions
                               /\ outbox'[i].for = outbox[i + k].for

AnsweredIsOver ==
  answered = core.version =>
    /\ \A t \in TaskId : Busy(t) => tasks[t].for.version # answered
    /\ \A i \in QueuedActions : outbox[i].for.version # answered

(***************************************************************************)
(* Taking items off the queue, with or without the session ending, keeps   *)
(* the invariant, given that it keeps the three facts about the answered   *)
(* version and the dead sessions' items.                                   *)
(***************************************************************************)
LEMMA ShrinkKeepsIInv ==
  ASSUME IInv, NEW k \in Nat, Leaves(k), tasks' = tasks, socket' \in BOOLEAN,
         answered' \in Nat, answers' \in Nat,
         core' \in Core, Sound(core'), Moves(core, core'),
         AnsweredWasSearched', AnsweredIsOver',
         \A i \in QueuedActions' : ~outbox'[i].fresh => outbox'[i].for.version < core'.version
  PROVE  IInv'
<1>1. StateOK /\ core \in Core
  BY DEF IInv, StateOK
<1>2. StateOK'
  BY <1>1 DEF StateOK, Leaves
<1>3. PositionHasGame(core)'
  BY DEF Sound, PositionHasGame
<1>4. \A t \in TaskId : Busy(t) => tasks[t].for.version \in Nat
  BY <1>1 DEF StateOK, Task, Searching, Answering, Dispatch, Busy
<1>5. \A i \in QueuedActions : outbox[i].for.version \in Nat
  <2>1. ASSUME NEW i \in QueuedActions
        PROVE  outbox[i].for.version \in Nat
    <3>1. outbox[i] \in ActionItem \cup NoteItem /\ outbox[i].kind = "Action"
      BY <1>1 DEF StateOK, QueuedActions
    <3>. QED
      BY <3>1 DEF ActionItem, NoteItem, NoteKind, Dispatch
  <2>. QED
    BY <2>1
<1>6. \A t \in TaskId : Busy(t)' <=> Busy(t)
  BY DEF Busy
<1>7. TasksFit'
  BY <1>4, <1>6, MoveKeepsIInv DEF IInv, TasksFit
<1>8. QueueFits'
  <2>1. \A i \in QueuedActions : Fits(core', outbox[i].for)
    BY <1>5, MoveKeepsIInv DEF IInv, QueueFits
  <2>. QED
    BY <2>1 DEF Leaves, QueueFits
<1>9. OneActionPerVersion'
  <2>1. \A i, j \in QueuedActions' : outbox'[i].for.version = outbox'[j].for.version => i = j
    <3>1. ASSUME NEW i \in QueuedActions', NEW j \in QueuedActions',
                 outbox'[i].for.version = outbox'[j].for.version
          PROVE  i = j
      <4>1. i + k = j + k
        BY <3>1 DEF Leaves, IInv, OneActionPerVersion
      <4>. QED
        BY <4>1 DEF QueuedActions
    <3>. QED
      BY <3>1
  <2>2. \A t \in TaskId, i \in QueuedActions' :
          Busy(t) => tasks[t].for.version # outbox'[i].for.version
    BY DEF Leaves, IInv, OneActionPerVersion
  <2>3. \A t, u \in TaskId :
          Busy(t) /\ Busy(u) /\ tasks[t].for.version = tasks[u].for.version => t = u
    BY DEF IInv, OneActionPerVersion
  <2>. QED
    BY <1>6, <2>1, <2>2, <2>3 DEF OneActionPerVersion, AnsweredIsOver
<1>10. TokenIsCurrent'
  <2>1. \A t \in TaskId : core'.cancel = t =>
          core'.version = core.version /\ core.cancel = t
    BY NoneAssumption DEF Moves
  <2>. QED
    BY <1>6, <2>1 DEF IInv, TokenIsCurrent
<1>. QED
  BY <1>2, <1>3, <1>7, <1>8, <1>9, <1>10 DEF IInv

(***************************************************************************)
(* What Tail leaves of the queue.                                          *)
(***************************************************************************)
LEMMA TailLeaves ==
  ASSUME StateOK, outbox # <<>>
  PROVE  /\ Tail(outbox) \in Seq(ActionItem \cup NoteItem)
         /\ Len(outbox) \in Nat \ {0}
         /\ Len(Tail(outbox)) = Len(outbox) - 1
         /\ \A i \in 1..Len(Tail(outbox)) : Tail(outbox)[i] = outbox[i + 1]
         /\ Head(outbox) = outbox[1] /\ Head(outbox) \in ActionItem \cup NoteItem
BY DEF StateOK

LEMMA PopLeaves ==
  ASSUME StateOK, outbox # <<>>, outbox' = Tail(outbox)
  PROVE  /\ Leaves(1)
         /\ \A i \in QueuedActions' : outbox'[i] = outbox[i + 1]
BY TailLeaves DEF Leaves, QueuedActions

(***************************************************************************)
(* Dropping a superseded action or writing a note loses nothing the        *)
(* invariant speaks of.                                                    *)
(***************************************************************************)
LEMMA PopStep ==
  ASSUME IInv, DropSuperseded \/ WriteNote
  PROVE  IInv'
<1>1. /\ outbox # <<>> /\ outbox' = Tail(outbox)
      /\ UNCHANGED <<core, tasks, socket, answered, answers>>
  BY DEF DropSuperseded, WriteNote
<1>2. StateOK
  BY DEF IInv
<1>3. /\ Leaves(1)
      /\ \A i \in QueuedActions' : i + 1 \in QueuedActions /\ outbox'[i] = outbox[i + 1]
  BY <1>1, <1>2, PopLeaves DEF Leaves
<1>4. core' \in Core /\ Sound(core') /\ Moves(core, core')
  BY <1>1, <1>2 DEF IInv, StateOK, Sound, Moves, PositionHasGame
<1>5. AnsweredWasSearched' /\ AnsweredIsOver'
  BY <1>1, <1>3 DEF IInv, AnsweredWasSearched, AnsweredIsOver, OneActionPerVersion, Busy
<1>6. \A i \in QueuedActions' : ~outbox'[i].fresh => outbox'[i].for.version < core'.version
  BY <1>1, <1>3 DEF IInv, QueueFits
<1>. QED
  BY <1>1, <1>2, <1>3, <1>4, <1>5, <1>6, ShrinkKeepsIInv DEF StateOK

(***************************************************************************)
(* Writing an action answers the current version; it was the only piece of *)
(* work for it, and the version was searched.                              *)
(***************************************************************************)
LEMMA WriteStep ==
  ASSUME IInv, WriteAction
  PROVE  /\ IInv'
         /\ 1 \in QueuedActions
         /\ outbox[1] = Head(outbox)
         /\ Valid(core, outbox[1].for, outbox[1].action)
         /\ outbox[1].for.version = core.version
<1>1. /\ outbox # <<>> /\ outbox' = Tail(outbox)
      /\ Head(outbox).kind = "Action"
      /\ answered' = Head(outbox).for.version
      /\ answers' = answers + 1
      /\ UNCHANGED <<core, tasks, socket>>
      /\ ~Superseded(Head(outbox))
  BY DEF WriteAction
<1>2. StateOK /\ core.version \in Nat
  BY DEF IInv, StateOK, Core
<1>3. 1 \in QueuedActions /\ outbox[1] = Head(outbox)
  BY <1>1, <1>2, TailLeaves DEF QueuedActions
<1>4. Valid(core, outbox[1].for, outbox[1].action)
  BY <1>1, <1>3 DEF Superseded
<1>5. outbox[1].for.version = core.version
  BY <1>4 DEF Valid
<1>6. /\ Leaves(1)
      /\ \A i \in QueuedActions' : i + 1 \in QueuedActions /\ outbox'[i] = outbox[i + 1]
  BY <1>1, <1>2, PopLeaves DEF Leaves
<1>7. core' \in Core /\ Sound(core') /\ Moves(core, core')
  BY <1>1, <1>2 DEF IInv, StateOK, Sound, Moves, PositionHasGame
<1>8. AnsweredWasSearched'
  BY <1>1, <1>2, <1>3, <1>5 DEF IInv, QueueFits, Fits, AnsweredWasSearched
<1>9. AnsweredIsOver'
  <2>1. \A i \in QueuedActions' : i + 1 # 1
    BY DEF QueuedActions
  <2>2. \A i \in QueuedActions' : outbox'[i].for.version # outbox[1].for.version
    BY <1>3, <1>6, <2>1 DEF IInv, OneActionPerVersion
  <2>3. \A t \in TaskId : Busy(t) => tasks[t].for.version # outbox[1].for.version
    BY <1>3 DEF IInv, OneActionPerVersion
  <2>. QED
    BY <1>1, <1>3, <2>2, <2>3 DEF AnsweredIsOver, Busy
<1>10. \A i \in QueuedActions' : ~outbox'[i].fresh => outbox'[i].for.version < core'.version
  BY <1>1, <1>6 DEF IInv, QueueFits
<1>11. answered' \in Nat /\ answers' \in Nat /\ socket' \in BOOLEAN
  BY <1>1, <1>2, <1>3, <1>5 DEF StateOK
<1>. QED
  BY <1>1, <1>3, <1>4, <1>5, <1>6, <1>7, <1>8, <1>9, <1>10, <1>11, ShrinkKeepsIInv

(***************************************************************************)
(* The end of a session moves the core on, so every action left in the     *)
(* queue is out of date.                                                   *)
(***************************************************************************)
LEMMA SessionEnds ==
  ASSUME IInv, Disconnect \/ WriteFails
  PROVE  IInv'
<1>1. PICK k \in {0, 1}, q \in {outbox, Tail(outbox)} :
        /\ EndSession(q)
        /\ k = 0 => q = outbox
        /\ k = 1 => q = Tail(outbox) /\ outbox # <<>>
  BY DEF Disconnect, WriteFails
<1>2. StateOK /\ core \in Core /\ core.version \in Nat
  BY DEF IInv, StateOK, Core
<1>3. /\ q \in Seq(ActionItem \cup NoteItem)
      /\ Len(q) \in Nat /\ Len(outbox) \in Nat
      /\ \A i \in 1..Len(q) : i + k \in 1..Len(outbox) /\ q[i] = outbox[i + k]
  BY <1>1, <1>2, TailLeaves DEF StateOK
<1>4. /\ outbox' = [i \in 1..Len(q) |-> [q[i] EXCEPT !.fresh = FALSE]]
      /\ core' = OnDisconnected(core)
      /\ socket' = FALSE
      /\ UNCHANGED <<tasks, answered, answers>>
  BY <1>1, <1>3 DEF EndSession
<1>5. \A i \in 1..Len(q) :
        /\ [q[i] EXCEPT !.fresh = FALSE] \in ActionItem \cup NoteItem
        /\ [q[i] EXCEPT !.fresh = FALSE].kind = q[i].kind
        /\ q[i].kind = "Action" => [q[i] EXCEPT !.fresh = FALSE].for = q[i].for
  <2>1. ASSUME NEW i \in 1..Len(q)
        PROVE  /\ [q[i] EXCEPT !.fresh = FALSE] \in ActionItem \cup NoteItem
               /\ [q[i] EXCEPT !.fresh = FALSE].kind = q[i].kind
               /\ q[i].kind = "Action" => [q[i] EXCEPT !.fresh = FALSE].for = q[i].for
    <3>1. q[i] \in ActionItem \/ q[i] \in NoteItem
      BY <1>3
    <3>2. CASE q[i] \in ActionItem
      BY <3>2 DEF ActionItem
    <3>3. CASE q[i] \in NoteItem
      BY <3>3 DEF NoteItem, NoteKind
    <3>. QED
      BY <3>1, <3>2, <3>3
  <2>. QED
    BY <2>1
<1>6. /\ Len(outbox') = Len(q)
      /\ outbox' \in Seq(ActionItem \cup NoteItem)
      /\ \A i \in 1..Len(q) : outbox'[i] = [q[i] EXCEPT !.fresh = FALSE]
  BY <1>3, <1>4, <1>5
<1>7. Leaves(k)
  <2>1. ASSUME NEW i \in QueuedActions'
        PROVE  i + k \in QueuedActions /\ outbox'[i].for = outbox[i + k].for
    <3>1. i \in 1..Len(q) /\ outbox'[i] = [q[i] EXCEPT !.fresh = FALSE]
      BY <1>6 DEF QueuedActions
    <3>2. q[i].kind = "Action" /\ outbox'[i].for = q[i].for
      BY <1>5, <3>1 DEF QueuedActions
    <3>. QED
      BY <1>3, <3>1, <3>2 DEF QueuedActions
  <2>. QED
    BY <1>6, <2>1 DEF Leaves
<1>8. /\ core' \in Core /\ Sound(core') /\ Moves(core, core')
      /\ core'.version = core.version + 1
  BY <1>2, <1>4, HelpersMove DEF IInv, Sound, OnDisconnected, Invalidate, Core
<1>9. AnsweredWasSearched' /\ AnsweredIsOver'
  BY <1>2, <1>4, <1>8 DEF IInv, AnsweredWasSearched, AnsweredIsOver, StateOK
<1>10. \A i \in QueuedActions' : outbox'[i].for.version < core'.version
  <2>1. ASSUME NEW i \in QueuedActions'
        PROVE  outbox'[i].for.version < core'.version
    <3>1. /\ i + k \in QueuedActions /\ outbox'[i].for = outbox[i + k].for
          /\ outbox[i + k] \in ActionItem \cup NoteItem
          /\ outbox[i + k].kind = "Action"
      BY <1>2, <1>7 DEF Leaves, StateOK, QueuedActions
    <3>2. outbox[i + k].for.version \in Nat
      BY <3>1 DEF ActionItem, NoteItem, NoteKind, Dispatch
    <3>. QED
      BY <1>2, <1>8, <3>1, <3>2 DEF IInv, QueueFits, Fits
  <2>. QED
    BY <2>1
<1>11. answered' \in Nat /\ answers' \in Nat /\ socket' \in BOOLEAN
  BY <1>2, <1>4 DEF StateOK
<1>. QED
  BY <1>4, <1>7, <1>8, <1>9, <1>10, <1>11, ShrinkKeepsIInv

-----------------------------------------------------------------------------
\* The theorems.

LEMMA InitIInv == Init => IInv
<1>. SUFFICES ASSUME Init PROVE IInv
  OBVIOUS
<1>1. core \in Core /\ PositionHasGame(core) /\ core.version = 0 /\ core.searched = 0
  BY DEF Init, Core, Phase, PositionHasGame
<1>2. outbox \in Seq(ActionItem \cup NoteItem) /\ QueuedActions = {}
  BY DEF Init, QueuedActions
<1>3. \A t \in TaskId : ~Busy(t)
  BY DEF Init, Busy
<1>4. StateOK
  BY <1>1, <1>2 DEF Init, StateOK
<1>5. AnsweredWasSearched
  BY <1>1 DEF Init, AnsweredWasSearched
<1>. QED
  BY <1>1, <1>2, <1>3, <1>4, <1>5
     DEF IInv, TasksFit, QueueFits, OneActionPerVersion, TokenIsCurrent

LEMMA StutterKeepsIInv ==
  ASSUME IInv, UNCHANGED <<core, tasks, outbox, answered, answers>>, socket' \in BOOLEAN
  PROVE  IInv'
<1>1. StateOK'
  BY DEF IInv, StateOK
<1>2. PositionHasGame(core)' /\ AnsweredWasSearched'
  BY DEF IInv, PositionHasGame, AnsweredWasSearched
<1>3. TasksFit' /\ QueueFits' /\ TokenIsCurrent'
  BY DEF IInv, TasksFit, QueueFits, TokenIsCurrent, Busy, QueuedActions
<1>4. OneActionPerVersion'
  BY DEF IInv, OneActionPerVersion, Busy, QueuedActions
<1>. QED
  BY <1>1, <1>2, <1>3, <1>4 DEF IInv

LEMMA NextIInv == IInv /\ [Next]_vars => IInv'
<1>. SUFFICES ASSUME IInv, [Next]_vars PROVE IInv'
  OBVIOUS
<1>1. CASE Frame \/ Timer
  BY <1>1, FramesAreHandlerSteps, HandlerKeepsIInv DEF IInv, StateOK
<1>2. ASSUME NEW t \in TaskId, SearchTask(t)
      PROVE  IInv'
  BY <1>2, TaskSteps, EnqueueStep DEF SearchTask
<1>3. CASE Writer
  BY <1>3, PopStep, WriteStep, SessionEnds DEF Writer
<1>4. CASE Connect
  BY <1>4, StutterKeepsIInv DEF Connect
<1>5. CASE Disconnect
  BY <1>5, SessionEnds
<1>6. CASE UNCHANGED vars
  BY <1>6, StutterKeepsIInv DEF vars, IInv, StateOK
<1>. QED
  BY <1>1, <1>2, <1>3, <1>4, <1>5, <1>6 DEF Next

(***************************************************************************)
(* The inductive invariant holds in every reachable state of the client,   *)
(* against any server.                                                     *)
(***************************************************************************)
THEOREM Invariance == Spec => []IInv
BY InitIInv, NextIInv, PTL DEF Spec

(***************************************************************************)
(* Type correctness: the core, the tasks, the queue and the timer's tick   *)
(* keep their shapes.                                                      *)
(***************************************************************************)
THEOREM TypeCorrect == Spec => []TypeOK
<1>. DEFINE Staged == tick \in {"asleep", "check", "send"}
<1>1. Init => Staged
  BY DEF Init
<1>2. Staged /\ [Next]_vars => Staged'
  <2>. SUFFICES ASSUME Staged, [Next]_vars PROVE Staged'
    OBVIOUS
  <2>1. CASE Timer
    BY <2>1 DEF Timer, Tick, ChallengeTick, ChallengeCheck, ChallengeSend, GraceRunsOut, CooldownRunsOut
  <2>2. CASE UNCHANGED tick
    BY <2>2
  <2>. QED
    BY <2>1, <2>2 DEF Next, vars
<1>3. IInv /\ Staged => TypeOK
  BY DEF IInv, StateOK, TypeOK
<1>. HIDE DEF Staged
<1>. QED
  BY <1>1, <1>2, <1>3, Invariance, PTL DEF Spec

(***************************************************************************)
(* The version gate of action_still_valid is sound: equal versions mean    *)
(* the same game, seat and position.                                       *)
(***************************************************************************)
THEOREM VersionGate == Spec => []VersionIdentifiesPosition
<1>1. IInv => VersionIdentifiesPosition
  BY DEF IInv, TasksFit, QueueFits, Fits, VersionIdentifiesPosition, IsCurrent
<1>. QED
  BY <1>1, Invariance, PTL

(***************************************************************************)
(* The double-send guard of maybe_search works: one piece of work for each *)
(* version, none for an answered one.                                      *)
(***************************************************************************)
THEOREM OneAnswer == Spec => []OneActionPerVersion
<1>1. IInv => OneActionPerVersion
  BY DEF IInv
<1>. QED
  BY <1>1, Invariance, PTL

(***************************************************************************)
(* A search nobody cancelled is about the position the core holds          *)
(* (ARCHITECTURE invariant 5: a new snapshot cancels the search).          *)
(***************************************************************************)
THEOREM CancelledWhenSuperseded == Spec => []SupersededSearchIsCancelled
<1>1. IInv => SupersededSearchIsCancelled
  BY DEF IInv, TasksFit, TokenIsCurrent, Fits, SupersededSearchIsCancelled, Cancelled,
         IsCurrent
<1>. QED
  BY <1>1, Invariance, PTL

(***************************************************************************)
(* An action is written only in the session, game and position it was      *)
(* searched for, in our turn, and is legal there.                          *)
(***************************************************************************)
THEOREM SoundWrites == Spec => WrittenActionIsSound
<1>. DEFINE Good == LET item == Head(outbox)
                    IN  /\ item.fresh
                        /\ IsCurrent(item.for)
                        /\ MayAct(core)
                        /\ item.action \in Legal[item.for.position]
<1>1. ASSUME IInv, [Next]_vars, answers' # answers
      PROVE  Good
  <2>1. WriteAction
    <3>1. CASE Frame \/ Timer
      BY <1>1, <3>1, FramesAreHandlerSteps DEF IInv, StateOK, HandlerStep
    <3>2. ASSUME NEW t \in TaskId, SearchTask(t)
          PROVE  answers' = answers
      BY <3>2 DEF SearchTask, SelectFallback, EngineChose, EngineOverran, EngineNothing,
                  EngineFailed, Validate, Enqueue, PlayFallback, Answer, Become
    <3>3. CASE DropSuperseded \/ WriteNote \/ WriteFails \/ Connect \/ Disconnect
      BY <1>1, <3>3 DEF DropSuperseded, WriteNote, WriteFails, Connect, Disconnect, EndSession
    <3>4. CASE UNCHANGED vars
      BY <1>1, <3>4 DEF vars
    <3>. QED
      BY <1>1, <3>1, <3>2, <3>3, <3>4 DEF Next, Writer
  <2>2. /\ 1 \in QueuedActions /\ outbox[1] = Head(outbox)
        /\ Valid(core, outbox[1].for, outbox[1].action)
        /\ outbox[1].for.version = core.version
    BY <1>1, <2>1, WriteStep
  <2>3. IsCurrent(outbox[1].for)
    BY <1>1, <2>2 DEF IInv, QueueFits, Fits, IsCurrent
  <2>4. outbox[1].fresh
    <3>1. core.version \in Nat /\ outbox[1] \in ActionItem \cup NoteItem
          /\ outbox[1].kind = "Action"
      BY <1>1, <2>2 DEF IInv, StateOK, Core, QueuedActions
    <3>2. outbox[1].fresh \in BOOLEAN
      BY <3>1 DEF ActionItem, NoteItem
    <3>. QED
      BY <1>1, <2>2, <3>1, <3>2 DEF IInv, QueueFits
  <2>. QED
    BY <2>2, <2>3, <2>4 DEF Valid, IsCurrent
<1>. HIDE DEF Good
<1>2. IInv /\ [Next]_vars => [answers' # answers => Good]_vars
  BY <1>1
<1>. QED
  BY <1>2, Invariance, PTL DEF Spec, WrittenActionIsSound, Good

(***************************************************************************)
(* A move of the core that answers nothing is a new authority for          *)
(* TurnLicence, or invisible to it.                                        *)
(***************************************************************************)
LEMMA MovesSupersede ==
  ASSUME core \in Core, core' \in Core, UNCHANGED <<answered, answers>>,
         \/ Moves(core, core')
         \/ \E c \in Core : /\ Moves(core, c)
                            /\ core'.version = c.version /\ core'.game = c.game
                            /\ core'.seat = c.seat /\ core'.position = c.position
  PROVE  [Licence!LNext]_(Licence!lvars)
<1>1. core.version \in Nat /\ core'.version \in Nat
  BY DEF Core
<1>2. \/ core'.version > core.version
      \/ /\ core'.version = core.version /\ core'.game = core.game
         /\ core'.seat = core.seat /\ core'.position = core.position
  BY DEF Moves
<1>3. CASE core'.version > core.version
  BY <1>1, <1>3 DEF Licence!LNext, Licence!Supersede, Held
<1>4. CASE /\ core'.version = core.version /\ core'.game = core.game
           /\ core'.seat = core.seat /\ core'.position = core.position
  BY <1>4 DEF Licence!lvars, Held, OurTurn
<1>. QED
  BY <1>2, <1>3, <1>4

(***************************************************************************)
(* The client implements TurnLicence: every authoritative position is a    *)
(* licence to act at most once, and only while it is held.                 *)
(***************************************************************************)
THEOREM Implements == Spec => ImplementsTurnLicence
<1>1. Init => Licence!LInit
  BY DEF Init, Licence!LInit, Held
<1>2. ASSUME IInv, [Next]_vars
      PROVE  [Licence!LNext]_(Licence!lvars)
  <2>1. core \in Core /\ core.version \in Nat /\ StateOK /\ PositionHasGame(core)
    BY <1>2 DEF IInv, StateOK, Core
  <2>2. core' \in Core
    BY <1>2, NextIInv DEF IInv, StateOK
  <2>3. ASSUME UNCHANGED <<core, answered, answers>>
        PROVE  [Licence!LNext]_(Licence!lvars)
    BY <2>3 DEF Licence!lvars, Held
  <2>4. CASE Frame \/ Timer
    <3>1. PICK c \in Core :
            /\ Moves(core, c)
            /\ \/ core' = c
               \/ \E t \in TaskId : Spawn(c, t)
      BY <2>1, <2>4, FramesAreHandlerSteps DEF HandlerStep
    <3>2. /\ core'.version = c.version /\ core'.game = c.game
          /\ core'.seat = c.seat /\ core'.position = c.position
      BY <3>1 DEF Spawn, Core
    <3>3. UNCHANGED <<answered, answers>>
      BY <2>1, <2>4, FramesAreHandlerSteps DEF HandlerStep
    <3>. QED
      BY <2>1, <2>2, <3>1, <3>2, <3>3, MovesSupersede
  <2>5. ASSUME NEW t \in TaskId, SearchTask(t)
        PROVE  UNCHANGED <<core, answered, answers>>
    BY <2>5 DEF SearchTask, SelectFallback, EngineChose, EngineOverran, EngineNothing,
                EngineFailed, Validate, Enqueue, PlayFallback, Answer, Become
  <2>6. CASE WriteAction
    <3>1. /\ 1 \in QueuedActions /\ outbox[1] = Head(outbox)
          /\ Valid(core, outbox[1].for, outbox[1].action)
          /\ outbox[1].for.version = core.version
      BY <1>2, <2>6, WriteStep
    <3>2. Held(core) = core.version
      BY <3>1 DEF Valid, MayAct, Held
    <3>3. answered < core.version
      <4>1. answered # core.version
        BY <1>2, <3>1 DEF IInv, OneActionPerVersion
      <4>. QED
        BY <1>2, <2>1, <4>1 DEF IInv, AnsweredWasSearched, StateOK
    <3>4. answered' = core.version /\ answers' = answers + 1 /\ core' = core
      BY <2>6, <3>1 DEF WriteAction
    <3>. QED
      BY <2>1, <3>2, <3>3, <3>4 DEF Licence!LNext, Licence!Act
  <2>7. CASE DropSuperseded \/ WriteNote \/ Connect
    BY <2>3, <2>7 DEF DropSuperseded, WriteNote, Connect
  <2>8. CASE WriteFails \/ Disconnect
    <3>1. core' = OnDisconnected(core) /\ UNCHANGED <<answered, answers>>
      BY <2>8 DEF WriteFails, Disconnect, EndSession
    <3>. QED
      BY <2>1, <2>2, <3>1, HelpersMove, MovesSupersede
  <2>9. CASE UNCHANGED vars
    BY <2>3, <2>9 DEF vars
  <2>. QED
    BY <1>2, <2>3, <2>4, <2>5, <2>6, <2>7, <2>8, <2>9 DEF Next, Writer
<1>. QED
  BY <1>1, <1>2, Invariance, PTL DEF Spec, ImplementsTurnLicence, Licence!LSpec

-----------------------------------------------------------------------------
(***************************************************************************)
(* Matchmaking: the optimistic busy flag is under a deadline, against any  *)
(* server at all; and an idle client is uncommitted, if the server         *)
(* welcomes a connection first, and once.                                  *)
(*                                                                         *)
(* The second needs more than it says: a disconnected core that has not    *)
(* been welcomed again must be uncommitted too, for it is the one that     *)
(* on_welcome makes Idle (Clean).  Both are functions of the core, kept by *)
(* each of its helpers, so a handler is the composition of what they do.   *)
(***************************************************************************)
\* The inductive invariants.

Armed(c) == c.phase = "InGame" /\ c.game = NoGame => c.pending # "none"

Uncommitted(c) == c.game = NoGame /\ c.position = NoPosition /\ c.pending = "none"

Clean(c) == c.phase = "Idle" \/ ~c.registered => Uncommitted(c)

Settled(c) == Armed(c) /\ (Orderly => Clean(c))

\* A frame other than the welcome comes to a registered client.
Welcomed(c) == Orderly => c.registered

-----------------------------------------------------------------------------
\* What the helpers of BotCore do to it.

LEMMA HelpersSettle ==
  ASSUME NEW c \in Core, Settled(c)
  PROVE  /\ Settled(DropPosition(c)) /\ DropPosition(c).registered = c.registered
         /\ Settled(GoIdle(c)) /\ GoIdle(c).registered = c.registered
         /\ Settled(OnDisconnected(c))
<1>1. Invalidate(c) = [c EXCEPT !.cancel = NoTask, !.version = c.version + 1]
  BY DEF Invalidate
<1>2. Settled(DropPosition(c)) /\ DropPosition(c).registered = c.registered
  BY <1>1 DEF DropPosition, Core, Settled, Armed, Clean, Uncommitted
<1>3. Settled(GoIdle(c)) /\ GoIdle(c).registered = c.registered
  BY <1>1 DEF GoIdle, Core, Settled, Armed, Clean, Uncommitted
<1>4. Settled(OnDisconnected(c))
  BY <1>1 DEF OnDisconnected, Core, Settled, Armed, Clean, Uncommitted
<1>. QED
  BY <1>2, <1>3, <1>4

LEMMA HealSettles ==
  ASSUME NEW c \in Core, Settled(c)
  PROVE  Settled(HealPending(c)) /\ HealPending(c).registered = c.registered
BY HelpersSettle DEF HealPending

LEMMA InstallSettles ==
  ASSUME NEW c \in Core, Settled(c), Welcomed(c), c.phase = "InGame", NEW p \in Position
  PROVE  Settled(Install(c, p))
<1>1. Invalidate(c) = [c EXCEPT !.cancel = NoTask, !.version = c.version + 1]
  BY DEF Invalidate
<1>. QED
  BY <1>1 DEF Install, Core, Settled, Armed, Clean, Uncommitted, Welcomed

LEMMA StartSettles ==
  ASSUME NEW c \in Core, Settled(c), Welcomed(c),
         NEW g \in Game, NEW p \in Position, NEW me \in Seat
  PROVE  Settled(StartGame(c, g, p, me))
<1>1. Invalidate(c) = [c EXCEPT !.cancel = NoTask, !.version = c.version + 1]
  BY DEF Invalidate
<1>. QED
  BY <1>1, NoneAssumption DEF StartGame, Core, Settled, Armed, Clean, Uncommitted, Welcomed

\* Spawning a search changes nothing the invariant reads.
LEMMA SearchSettles ==
  ASSUME NEW c \in Core, Settled(c), MaybeSearch(c)
  PROVE  Settled(core')
<1>1. CASE core' = c
  BY <1>1
<1>2. ASSUME NEW t \in TaskId, Spawn(c, t)
      PROVE  Settled(core')
  BY <1>2 DEF Spawn, Core, Settled, Armed, Clean, Uncommitted
<1>. QED
  BY <1>1, <1>2 DEF MaybeSearch

-----------------------------------------------------------------------------
\* The handlers.

LEMMA FrameSettles ==
  ASSUME core \in Core, PositionHasGame(core), Settled(core), Frame
  PROVE  Settled(core')
<1>. DEFINE h == HealPending(core)
<1>h. h \in Core /\ PositionHasGame(h) /\ Settled(h) /\ h.registered = core.registered
  BY HealMoves, HealSettles DEF Sound
<1>w. ASSUME NEW kind, kind # "welcome", Receives(kind)
      PROVE  Welcomed(h)
  <2>1. Orderly => (kind = "welcome" <=> ~core.registered)
    BY <1>w DEF Receives
  <2>. QED
    BY <1>h, <1>w, <2>1 DEF Welcomed, Core
<1>. HIDE DEF h
<1>1. CASE OnWelcome
  <2>1. core' = [h EXCEPT !.phase = "Idle", !.registered = TRUE]
    BY <1>1 DEF OnWelcome, h
  <2>2. Orderly => Uncommitted(h)
    BY <1>1, <1>h DEF OnWelcome, Receives, Settled, Clean
  <2>. QED
    BY <1>h, <2>1, <2>2 DEF Core, Settled, Armed, Clean, Uncommitted
<1>2. CASE OnBotWanted \/ OnOther
  BY <1>2, <1>h DEF OnBotWanted, OnOther, h
<1>3. CASE OnLobbyJoined
  <2>1. core' = [h EXCEPT !.phase = "InLobby"] /\ Welcomed(h)
    BY <1>3, <1>w DEF OnLobbyJoined, h
  <2>. QED
    BY <1>h, <2>1 DEF Core, Settled, Armed, Clean, Uncommitted, Welcomed
<1>4. CASE OnLobbyClosed
  BY <1>4, <1>h, HelpersSettle DEF OnLobbyClosed, h
<1>5. CASE OnChallengeReceived
  <2>1. Welcomed(h) /\ core' \in {h, Accept(h)}
    BY <1>5, <1>w DEF OnChallengeReceived, h
  <2>. QED
    BY <1>h, <2>1 DEF Accept, Core, Settled, Armed, Clean, Uncommitted, Welcomed
<1>6. CASE OnPing
  BY <1>6 DEF OnPing
<1>7. ASSUME NEW g \in Game, NEW s \in Snapshot, NEW me \in Seat, OnGameStart(g, s, me)
      PROVE  Settled(core')
  <2>1. CASE s \in {Missing, Malformed} /\ core' = h
    BY <2>1, <1>h
  <2>2. CASE s \in Position /\ MaybeSearch(StartGame(h, g, s, me))
    <3>1. Settled(StartGame(h, g, s, me)) /\ StartGame(h, g, s, me) \in Core
      BY <1>7, <1>h, <1>w, <2>2, StartSettles, HelpersMove DEF OnGameStart, Sound
    <3>. QED
      BY <2>2, <3>1, SearchSettles
  <2>. QED
    BY <1>7, <2>1, <2>2 DEF OnGameStart, h
<1>8. ASSUME NEW g \in Game \cup {NoGame}, NEW s \in Snapshot, OnRefresh(g, s) \/ OnDriver(g, s)
      PROVE  Settled(core')
  <2>1. Welcomed(h)
    BY <1>8, <1>w DEF OnRefresh, OnDriver
  <2>2. CASE core' = h
    BY <2>2, <1>h
  <2>3. CASE DropAndResync(h)
    <3>1. core' = [DropPosition(h) EXCEPT !.cooldown = TRUE]
      BY <2>3 DEF DropAndResync
    <3>2. DropPosition(h) \in Core /\ Settled(DropPosition(h))
      BY <1>h, HelpersMove, HelpersSettle DEF Sound
    <3>. QED
      BY <3>1, <3>2 DEF Core, Settled, Armed, Clean, Uncommitted
  <2>4. CASE Absorbs(h, g, s) /\ s \in Position /\ (core' = Install(h, s) \/ MaybeSearch(Install(h, s)))
    <3>1. h.phase = "InGame" /\ h.game # NoGame
      BY <2>4 DEF Absorbs
    <3>2. Settled(Install(h, s)) /\ Install(h, s) \in Core
      BY <1>h, <2>1, <2>4, <3>1, InstallSettles, HelpersMove DEF Sound
    <3>. QED
      BY <2>4, <3>2, SearchSettles
  <2>. QED
    BY <1>8, <2>2, <2>3, <2>4 DEF OnRefresh, OnDriver, h
<1>9. ASSUME NEW g \in Game \cup {NoGame}, OnGameEnd(g) \/ OnError(g)
      PROVE  Settled(core')
  <2>1. CASE core' \in {h, GoIdle(h)}
    BY <2>1, <1>h, HelpersSettle
  <2>2. CASE DropAndResync(h)
    <3>1. core' = [DropPosition(h) EXCEPT !.cooldown = TRUE]
      BY <2>2 DEF DropAndResync
    <3>2. DropPosition(h) \in Core /\ Settled(DropPosition(h))
      BY <1>h, HelpersMove, HelpersSettle DEF Sound
    <3>. QED
      BY <3>1, <3>2 DEF Core, Settled, Armed, Clean, Uncommitted
  <2>. QED
    BY <1>9, <2>1, <2>2 DEF OnGameEnd, OnError, h
<1>. QED
  BY <1>1, <1>2, <1>3, <1>4, <1>5, <1>6, <1>7, <1>8, <1>9 DEF Frame

LEMMA TimerSettles ==
  ASSUME core \in Core, Settled(core), Timer
  PROVE  Settled(core')
<1>1. CASE ChallengeTick
  BY <1>1, HealSettles DEF ChallengeTick
<1>2. CASE GraceRunsOut
  BY <1>2 DEF GraceRunsOut, Core, Settled, Armed, Clean, Uncommitted
<1>3. CASE CooldownRunsOut
  BY <1>3 DEF CooldownRunsOut, Core, Settled, Armed, Clean, Uncommitted
<1>4. CASE ChallengeCheck \/ ChallengeSend
  BY <1>4 DEF ChallengeCheck, ChallengeSend
<1>. QED
  BY <1>1, <1>2, <1>3, <1>4 DEF Timer, Tick

-----------------------------------------------------------------------------
\* Every step.

LEMMA NextSettles ==
  ASSUME core \in Core, PositionHasGame(core), Settled(core), [Next]_vars
  PROVE  Settled(core')
<1>1. CASE Frame
  BY <1>1, FrameSettles
<1>2. CASE Timer
  BY <1>2, TimerSettles
<1>3. ASSUME NEW t \in TaskId, SearchTask(t)
      PROVE  core' = core
  BY <1>3 DEF SearchTask, SelectFallback, EngineChose, EngineOverran, EngineNothing, EngineFailed,
              Validate, Enqueue, Answer, PlayFallback, Become
<1>4. CASE WriteFails \/ Disconnect
  BY <1>4, HelpersSettle DEF WriteFails, Disconnect, EndSession
<1>5. CASE WriteAction \/ DropSuperseded \/ WriteNote \/ Connect \/ UNCHANGED vars
  BY <1>5 DEF WriteAction, DropSuperseded, WriteNote, Connect, vars
<1>. QED
  BY <1>1, <1>2, <1>3, <1>4, <1>5 DEF Next, Writer

LEMMA AlwaysSettled == Spec => []Settled(core)
<1>1. Init => Settled(core)
  BY DEF Init, Settled, Armed, Clean, Uncommitted
<1>2. IInv /\ Settled(core) /\ [Next]_vars => Settled(core)'
  BY NextSettles DEF IInv, StateOK
<1>. QED
  BY <1>1, <1>2, Invariance, PTL DEF Spec

(***************************************************************************)
(* The optimistic busy flag never outlives its deadline, whatever frames   *)
(* the server sends and in whatever order (on_challenge_received,          *)
(* heal_pending_game).                                                     *)
(***************************************************************************)
THEOREM BusyFlagIsTimed == Spec => []BusyFlagHasADeadline
<1>1. Settled(core) => BusyFlagHasADeadline
  BY DEF Settled, Armed, BusyFlagHasADeadline, AwaitingGame
<1>. QED
  BY <1>1, AlwaysSettled, PTL

(***************************************************************************)
(* If the server welcomes each connection first, and once, an idle client  *)
(* has no game, no position and no accept it waits for.                    *)
(***************************************************************************)
THEOREM IdleUncommitted ==
  ASSUME Orderly
  PROVE  Spec => []IdleIsUncommitted
<1>1. Settled(core) => IdleIsUncommitted
  BY DEF Settled, Clean, Uncommitted, IdleIsUncommitted
<1>. QED
  BY <1>1, AlwaysSettled, PTL

-----------------------------------------------------------------------------
\* The reconnect loop.

LEMMA FirstDelay == ConfigOK /\ ReconnectInit => DelayInBounds
BY DEF ReconnectInit, DelayInBounds, ConfigOK

LEMMA NextDelay ==
  ASSUME ConfigOK, DelayInBounds, [ReconnectNext]_ReconnectVars
  PROVE  DelayInBounds'
<1>1. CASE RunSession
  BY <1>1 DEF RunSession, DelayInBounds, ConfigOK
<1>2. CASE Sleep
  BY <1>2 DEF Sleep, DelayInBounds, NextBackoff, Doubled, ConfigOK
<1>3. CASE UNCHANGED ReconnectVars
  BY <1>3 DEF ReconnectVars, DelayInBounds
<1> QED BY <1>1, <1>2, <1>3 DEF ReconnectNext

(***************************************************************************)
(* The delay never leaves reconnect_min..reconnect_max (next_backoff).     *)
(***************************************************************************)
THEOREM DelayStaysInBounds ==
  ASSUME ConfigOK
  PROVE  ReconnectSpec => []DelayInBounds
<1>1. ReconnectInit => DelayInBounds
  BY FirstDelay
<1>2. DelayInBounds /\ [ReconnectNext]_ReconnectVars => DelayInBounds'
  BY NextDelay
<1>. QED
  BY <1>1, <1>2, PTL DEF ReconnectSpec

(***************************************************************************)
(* Where the longest delay alone passes for a stable session, as in the    *)
(* defaults (30 s and 30 s), the delay falls back from the ceiling at      *)
(* once, whatever the session before it was.                               *)
(***************************************************************************)
THEOREM TheCeilingFallsBack ==
  ASSUME ConfigOK, ReconnectMax >= StableSession
  PROVE  ReconnectSpec => CeilingIsNotHeld
<1>1. DelayInBounds /\ [ReconnectNext]_ReconnectVars
      => [Sleep /\ backoff = ReconnectMax => backoff' = ReconnectMin]_ReconnectVars
  <2> SUFFICES ASSUME DelayInBounds, Sleep, backoff = ReconnectMax
               PROVE  backoff' = ReconnectMin
    OBVIOUS
  <2>1. session + backoff >= StableSession
    BY DEF DelayInBounds, ConfigOK
  <2> QED BY <2>1 DEF Sleep, NextBackoff
<1>. QED
  BY <1>1, DelayStaysInBounds, PTL DEF ReconnectSpec, CeilingIsNotHeld
=============================================================================
