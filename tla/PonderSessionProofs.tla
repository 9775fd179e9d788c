------------------------ MODULE PonderSessionProofs ------------------------
(***************************************************************************)
(* Proofs about PonderSession: type correctness, that a slot is of the     *)
(* game being played, that whoever waits for an Answer has it in a         *)
(* session's hands, and, while no session has panicked, that every step    *)
(* not cancelled is about the position the core holds.                     *)
(*                                                                         *)
(* The last needs to know whose each token is: a live Answer token is the  *)
(* core's search's, a live Think token the slot's, so the two tokens that  *)
(* cancel_search cancels are all there are (TokensAreHeld).                *)
(***************************************************************************)
EXTENDS PonderSession, SequenceTheorems, TLAPS

\* A step is being sent only for a position to ponder.
LoopOK ==
  /\ core.game # NoGame => core.version > 0
  /\ loop = "send" => MayPonder(core) /\ core.pondered = core.version

Typed == TypeOK /\ LoopOK

USE DEF Version

LEMMA StepsTyped ==
  \A v \in Version : Think(v) \in Step /\ Answer(v) \in Step
BY DEF Think, Answer, Step

LEMMA MovedOn ==
  ASSUME core \in Core, core.version < MaxVersion
  PROVE  /\ Invalidate(core) \in Core /\ StopPonder(Invalidate(core)) \in Core
         /\ Invalidate(core).version = core.version + 1
         /\ StopPonder(Invalidate(core)).version = core.version + 1
         /\ core.version + 1 > 0
<1>1. core.version + 1 \in 0..MaxVersion /\ core.version + 1 > 0 /\ 0 \in 0..MaxVersion
  BY VersionAssumption DEF Core
<1>2. Invalidate(core) \in Core /\ Invalidate(core).version = core.version + 1
  BY <1>1 DEF Invalidate, Core
<1>3. /\ StopPonder(Invalidate(core)) \in Core
      /\ StopPonder(Invalidate(core)).version = Invalidate(core).version
  BY <1>2 DEF StopPonder, Core
<1> QED BY <1>1, <1>2, <1>3

LEMMA StartsTyped ==
  ASSUME NEW c \in Core, NEW g \in Game, NEW turn \in {"ours", "theirs", "none"}
  PROVE  /\ Restarted(c, g, turn) \in Core
         /\ Restarted(c, g, turn).version = c.version
         /\ Restarted(c, g, turn).cancel = c.cancel
         /\ Restarted(c, g, turn).slot = c.slot
         /\ Restarted(c, g, turn).game = g
         /\ Restarted(c, g, turn).turn = turn
<1>1. 0 \in 0..MaxVersion
  BY VersionAssumption
<1> QED BY <1>1 DEF Core, Restarted

LEMMA SearchTyped ==
  ASSUME TypeOK, NEW c \in Core, NEW t \in SUBSET Step, MaybeSearch(c, t),
         c.game # NoGame => c.version > 0
  PROVE  /\ core' \in Core /\ live' \subseteq Step /\ tasks' \in [Version -> Task]
         /\ core'.game = c.game /\ core'.version = c.version
<1>1. CASE MayAct(c) /\ c.searched # c.version
  <2>1. c.version \in Version /\ c.game \in Game
    BY <1>1 DEF MayAct, Core
  <2>2. core' = [c EXCEPT !.searched = c.version, !.cancel = c.version]
    BY <1>1 DEF MaybeSearch
  <2>3. core' \in Core /\ core'.game = c.game /\ core'.version = c.version
    BY <2>1, <2>2 DEF Core
  <2>4. live' \subseteq Step
    BY <1>1, <2>1, StepsTyped DEF MaybeSearch
  <2>5. tasks' \in [Version -> Task]
    BY <1>1, <2>1 DEF MaybeSearch, TypeOK, Task, TaskStage
  <2> QED BY <2>3, <2>4, <2>5
<1>2. CASE ~(MayAct(c) /\ c.searched # c.version)
  BY <1>2 DEF MaybeSearch, TypeOK
<1> QED BY <1>1, <1>2

\* A thread of its own changes its record, and tasks at most in their pc.
ThreadOK(thread) ==
  /\ thread \in Thread
  /\ thread.step # NoStep <=> thread.pc = "driving"
  /\ thread.pc = "ended" => thread.queue = <<>>

LEMMA ThreadsTyped ==
  ASSUME TypeOK, NEW s \in Session, NEW thread, ThreadOK(thread), Becomes(s, thread)
  PROVE  /\ sessions' \in [Session -> Thread]
         /\ \A r \in Session :
              /\ sessions'[r].step # NoStep <=> sessions'[r].pc = "driving"
              /\ sessions'[r].pc = "ended" => sessions'[r].queue = <<>>
BY DEF TypeOK, ThreadOK, Becomes

LEMMA EndedOK == ThreadOK(Ended) /\ ThreadOK(Parked)
<1>1. Parked = [pc |-> "parked", step |-> NoStep, queue |-> <<>>]
  BY DEF Parked, Ended
<1>2. <<>> \in Seq(Step)
  OBVIOUS
<1> QED BY <1>1, <1>2 DEF ThreadOK, Thread, Ended

LEMMA ResolveTyped ==
  ASSUME TypeOK, NEW steps, NEW pc \in {"answered", "lost"}, Resolve(steps, pc)
  PROVE  tasks' \in [Version -> Task]
BY DEF TypeOK, Resolve, Task, TaskStage

LEMMA SentTyped ==
  ASSUME TypeOK, NEW s \in Session, NEW step \in Step, Sent(s, step), ~Gone(s)
  PROVE  /\ sessions' \in [Session -> Thread]
         /\ \A r \in Session :
              /\ sessions'[r].step # NoStep <=> sessions'[r].pc = "driving"
              /\ sessions'[r].pc = "ended" => sessions'[r].queue = <<>>
<1>1. sessions[s].queue \in Seq(Step) /\ Append(sessions[s].queue, step) \in Seq(Step)
  BY DEF TypeOK, Thread
<1> QED BY <1>1 DEF TypeOK, Sent, Gone, Thread

\* What the sessions' part of TypeOK says.
SessionsTyped ==
  /\ sessions \in [Session -> Thread]
  /\ \A s \in Session :
       /\ sessions[s].step # NoStep <=> sessions[s].pc = "driving"
       /\ sessions[s].pc = "ended" => sessions[s].queue = <<>>

LEMMA InitTyped == Init => Typed
<1> SUFFICES ASSUME Init PROVE Typed
  OBVIOUS
<1>1. core \in Core /\ tasks \in [Version -> Task] /\ LoopOK
  BY VersionAssumption DEF Init, Core, Task, TaskStage, LoopOK
<1>2. SessionsTyped
  BY EndedOK DEF Init, SessionsTyped, ThreadOK, Ended
<1>3. panicked \in BOOLEAN
  BY DEF Init
<1> QED BY <1>1, <1>2, <1>3 DEF Init, Typed, TypeOK, SessionsTyped

LEMMA FrameTyped == ASSUME Typed, Frame PROVE Typed'
<1>0. TypeOK /\ core \in Core /\ live \in SUBSET Step /\ SessionsTyped
  BY DEF Typed, TypeOK, SessionsTyped
<1>1. ASSUME NEW g \in Game, NEW turn \in {"ours", "theirs", "none"}, GameStart(g, turn)
      PROVE  Typed'
  <2> DEFINE c == Restarted(StopPonder(Invalidate(core)), g, turn)
  <2>1. StopPonder(Invalidate(core)) \in Core /\ StopPonder(Invalidate(core)).version > 0
    BY <1>0, <1>1, MovedOn DEF GameStart
  <2>2. c \in Core /\ c.version > 0
    BY <2>1, StartsTyped
  <2>3. MaybeSearch(c, live \ Cancels(core)) /\ live \ Cancels(core) \in SUBSET Step
    BY <1>0, <1>1 DEF GameStart
  <2>4. core' \in Core /\ live' \subseteq Step /\ tasks' \in [Version -> Task]
        /\ core'.version = c.version
    BY <1>0, <2>2, <2>3, SearchTyped
  <2> QED BY <1>0, <1>1, <2>2, <2>4 DEF GameStart, Typed, TypeOK, LoopOK, SessionsTyped
<1>2. ASSUME NEW turn \in {"ours", "theirs", "none"}, NEW drives \in BOOLEAN,
             Snapshot(turn, drives)
      PROVE  Typed'
  <2> DEFINE c == [Invalidate(core) EXCEPT !.turn = turn]
             t == live \ Cancels(core)
  <2>1. c \in Core /\ c.version > 0 /\ t \in SUBSET Step
    BY <1>0, <1>2, MovedOn DEF Snapshot, Core
  <2>2. IF drives THEN MaybeSearch(c, t) ELSE core' = c /\ live' = t /\ UNCHANGED tasks
    BY <1>2 DEF Snapshot
  <2>3. core' \in Core /\ live' \subseteq Step /\ tasks' \in [Version -> Task]
        /\ core'.version = c.version
    <3>1. CASE drives
      BY <1>0, <2>1, <2>2, <3>1, SearchTyped
    <3>2. CASE ~drives
      BY <1>0, <2>1, <2>2, <3>2 DEF TypeOK
    <3> QED BY <3>1, <3>2
  <2> QED BY <1>0, <1>2, <2>1, <2>3 DEF Snapshot, Typed, TypeOK, LoopOK, SessionsTyped
<1>3. ASSUME NEW drives \in BOOLEAN, Repeated(drives) PROVE Typed'
  <2>1. core \in Core /\ live \in SUBSET Step /\ core.version > 0
    BY <1>0, <1>3 DEF Repeated, Typed, LoopOK
  <2>2. core' \in Core /\ live' \subseteq Step /\ tasks' \in [Version -> Task]
        /\ core'.version = core.version
    <3>1. CASE drives
      BY <1>0, <1>3, <2>1, <3>1, SearchTyped DEF Repeated
    <3>2. CASE ~drives
      BY <1>0, <1>3, <3>2 DEF Repeated, TypeOK
    <3> QED BY <3>1, <3>2
  <2> QED BY <1>0, <1>3, <2>1, <2>2 DEF Repeated, Typed, TypeOK, LoopOK, SessionsTyped
<1>4. CASE Rejected
  <2>1. Invalidate(core) \in Core /\ Invalidate(core).version > 0 /\ loop = "frame"
    BY <1>0, <1>4, MovedOn DEF Rejected
  <2>2. core' \in Core /\ core'.version > 0
    BY <1>4, <2>1 DEF Rejected, Core
  <2> QED BY <1>0, <1>4, <2>1, <2>2 DEF Rejected, Typed, TypeOK, LoopOK, SessionsTyped
<1>5. CASE Leaves
  <2>1. StopPonder(Invalidate(core)) \in Core /\ loop = "frame"
    BY <1>0, <1>5, MovedOn DEF Leaves
  <2>2. core' \in Core /\ core'.game = NoGame
    BY <1>5, <2>1 DEF Leaves, Core
  <2> QED BY <1>0, <1>5, <2>1, <2>2 DEF Leaves, Typed, TypeOK, LoopOK, SessionsTyped
<1> QED BY <1>1, <1>2, <1>3, <1>4, <1>5 DEF Frame

LEMMA PonderTyped == ASSUME Typed, PonderCalls PROVE Typed'
<1>0. TypeOK /\ core \in Core /\ live \in SUBSET Step /\ SessionsTyped
  BY DEF Typed, TypeOK, SessionsTyped
<1>1. CASE MaybePonder
  <2>1. PICK s \in Session :
          /\ Ensured(s)
          /\ core' = [core EXCEPT !.pondered = core.version,
                        !.slot = [game |-> core.game, session |-> s,
                                  token |-> Think(core.version)]]
          /\ live' \subseteq live \cup {Think(core.version)}
    BY <1>1 DEF MaybePonder
  <2>2. core.game \in Game /\ core.version \in Version /\ MayPonder(core)
    BY <1>0, <1>1 DEF MaybePonder, Ponders, MayPonder, Typed, LoopOK, Core
  <2>3. Think(core.version) \in Step
    BY <2>2, StepsTyped
  <2>4. core' \in Core
    BY <1>0, <2>1, <2>2, <2>3 DEF Core, Slot
  <2>5. /\ core'.game = core.game /\ core'.version = core.version
        /\ core'.turn = core.turn /\ core'.pondered = core.version
    BY <1>0, <2>1 DEF Core
  <2>6. SessionsTyped'
    <3>1. CASE UNCHANGED sessions
      BY <1>0, <3>1 DEF SessionsTyped
    <3>2. CASE sessions' = [sessions EXCEPT ![s] = Parked]
      BY <1>0, <3>2, ThreadsTyped, EndedOK DEF Becomes, SessionsTyped
    <3> QED BY <2>1, <3>1, <3>2 DEF Ensured
  <2> QED BY <1>0, <1>1, <2>1, <2>2, <2>3, <2>4, <2>5, <2>6
          DEF MaybePonder, Typed, TypeOK, LoopOK, SessionsTyped, MayPonder
<1>2. CASE PonderNothing
  BY <1>2 DEF PonderNothing, Typed, TypeOK, LoopOK
<1>3. CASE SendPonderStep
  <2>1. core.version \in Version /\ Think(core.version) \in Step
    BY <1>0, <1>3, StepsTyped DEF SendPonderStep, Typed, LoopOK, MayPonder, Core
  <2>2. core' \in Core /\ core'.game = core.game /\ core'.version = core.version
    BY <1>0, <1>3 DEF SendPonderStep, StopPonder, Core
  <2>3. SessionsTyped'
    <3>1. CASE UNCHANGED sessions
      BY <1>0, <3>1 DEF SessionsTyped
    <3>2. CASE /\ core.slot # NoSlot /\ ~Gone(core.slot.session)
               /\ Sent(core.slot.session, Think(core.version))
      <4>1. core.slot.session \in Session
        BY <1>0, <3>2 DEF Core, Slot
      <4> QED BY <1>0, <2>1, <3>2, <4>1, SentTyped DEF SessionsTyped
    <3> QED BY <1>3, <3>1, <3>2 DEF SendPonderStep
  <2> QED BY <1>0, <1>3, <2>2, <2>3 DEF SendPonderStep, Typed, TypeOK, LoopOK, SessionsTyped
<1> QED BY <1>1, <1>2, <1>3 DEF PonderCalls

LEMMA TaskTyped == ASSUME Typed, NEW v \in Version, SearchTask(v) \/ Overran(v) PROVE Typed'
<1>0. TypeOK /\ core \in Core /\ live \in SUBSET Step /\ SessionsTyped
  BY DEF Typed, TypeOK, SessionsTyped
<1>1. ASSUME NEW pc \in TaskStage, Stage(v, pc) PROVE tasks' \in [Version -> Task]
  BY <1>0, <1>1 DEF Stage, TypeOK, Task
<1>2. tasks' \in [Version -> Task]
  BY <1>1 DEF SearchTask, HandToPonder, ChooseAfresh, Replied, SessionDied, Overran, TaskStage
<1>3. /\ core' \in Core /\ live' \subseteq live /\ loop' = loop
      /\ core'.game = core.game /\ core'.version = core.version
      /\ core'.turn = core.turn /\ core'.pondered = core.pondered
  <2>1. CASE HandToPonder(v)
    BY <1>0, <2>1, StepsTyped DEF HandToPonder, Hands, Core, Slot
  <2>2. CASE ~HandToPonder(v)
    BY <1>0, <2>2 DEF SearchTask, ChooseAfresh, Replied, SessionDied, Overran, StopPonder, Core
  <2> QED BY <2>1, <2>2
<1>4. SessionsTyped'
  <2>1. CASE HandToPonder(v)
    <3>1. core.slot.session \in Session /\ ~Gone(core.slot.session)
          /\ Sent(core.slot.session, Answer(v)) /\ Answer(v) \in Step
      BY <1>0, <2>1, StepsTyped DEF HandToPonder, Hands, Core, Slot
    <3> QED BY <1>0, <3>1, SentTyped DEF SessionsTyped
  <2>2. CASE ~HandToPonder(v)
    BY <1>0, <2>2 DEF SearchTask, ChooseAfresh, Replied, SessionDied, Overran, SessionsTyped
  <2> QED BY <2>1, <2>2
<1>5. panicked' \in BOOLEAN
  BY <1>0 DEF SearchTask, HandToPonder, ChooseAfresh, Replied, SessionDied, Overran, TypeOK
<1> QED BY <1>0, <1>2, <1>3, <1>4, <1>5
        DEF Typed, TypeOK, LoopOK, SessionsTyped, MayPonder

LEMMA ThreadTyped == ASSUME Typed, NEW s \in Session, SessionThread(s) \/ Panic(s) PROVE Typed'
<1>0. TypeOK /\ SessionsTyped /\ sessions[s] \in Thread
  BY DEF Typed, TypeOK, SessionsTyped
<1>1. UNCHANGED <<core, live, loop>>
  BY DEF SessionThread, Takes, Finishes, Returns, Dies, Panic
<1>2. tasks' \in [Version -> Task]
  <2>1. CASE Takes(s)
    BY <1>0, <2>1 DEF Takes, TypeOK
  <2>2. CASE Finishes(s) \/ Returns(s) \/ Dies(s) \/ Panic(s)
    BY <1>0, <2>2, ResolveTyped DEF Finishes, FinishReply, Returns, Dies, Closes, Panic
  <2> QED BY <2>1, <2>2 DEF SessionThread
<1>3. PICK thread : Becomes(s, thread) /\ ThreadOK(thread)
  <2>1. CASE Takes(s)
    <3>1. sessions[s].queue \in Seq(Step) /\ sessions[s].queue # <<>>
      BY <1>0, <2>1 DEF Takes, HasNext, Thread
    <3>2. Head(sessions[s].queue) \in Step /\ Tail(sessions[s].queue) \in Seq(Step)
      BY <3>1, HeadTailProperties
    <3>3. ThreadOK([pc |-> "driving", step |-> Head(sessions[s].queue),
                    queue |-> Tail(sessions[s].queue)])
      BY <3>2, AbsentAssumption DEF ThreadOK, Thread
    <3> QED BY <2>1, <3>3 DEF Takes
  <2>2. CASE Finishes(s) \/ Panic(s)
    <3>1. \A pc \in {"parked", "dying"} :
            ThreadOK([sessions[s] EXCEPT !.pc = pc, !.step = NoStep])
      BY <1>0 DEF ThreadOK, Thread
    <3> QED BY <2>2, <3>1 DEF Finishes, Panic
  <2>3. CASE Returns(s) \/ Dies(s)
    BY <2>3, EndedOK DEF Returns, Dies, Closes
  <2> QED BY <2>1, <2>2, <2>3 DEF SessionThread
<1>4. SessionsTyped'
  BY <1>0, <1>3, ThreadsTyped DEF SessionsTyped
<1>5. panicked' \in BOOLEAN
  BY <1>0 DEF SessionThread, Takes, Finishes, Returns, Dies, Panic, TypeOK
<1> QED BY <1>0, <1>1, <1>2, <1>4, <1>5
        DEF Typed, TypeOK, LoopOK, SessionsTyped, MayPonder

LEMMA NextTyped == Typed /\ [Next]_vars => Typed'
<1> SUFFICES ASSUME Typed, [Next]_vars PROVE Typed'
  OBVIOUS
<1>1. CASE UNCHANGED vars
  BY <1>1 DEF vars, Typed, TypeOK, LoopOK, MayPonder, Gone
<1> QED BY <1>1, FrameTyped, PonderTyped, TaskTyped, ThreadTyped DEF Next

(***************************************************************************)
(* The core, the tokens, the tasks and the sessions are well typed, and a  *)
(* thread that ended holds nothing.                                        *)
(***************************************************************************)
THEOREM TypeCorrect == Spec => []TypeOK
<1>1. Typed => TypeOK
  BY DEF Typed
<1> QED BY <1>1, InitTyped, NextTyped, PTL DEF Spec

-----------------------------------------------------------------------------
\* The slot and the game.

LEMMA SlotNext ==
  ASSUME Typed, SlotIsOfTheGame, [Next]_vars
  PROVE  SlotIsOfTheGame'
<1>0. core \in Core
  BY DEF Typed, TypeOK
<1>1. ASSUME NEW c \in Core, NEW t, MaybeSearch(c, t), c.slot # NoSlot => c.slot.game = c.game
      PROVE  SlotIsOfTheGame'
  <2>1. core'.slot = c.slot /\ core'.game = c.game
    BY <1>1 DEF MaybeSearch, Core
  <2> QED BY <1>1, <2>1 DEF SlotIsOfTheGame
<1>2. ASSUME core.version < MaxVersion
      PROVE  /\ Invalidate(core) \in Core /\ StopPonder(Invalidate(core)) \in Core
             /\ Invalidate(core).slot = core.slot /\ Invalidate(core).game = core.game
             /\ StopPonder(Invalidate(core)).slot = NoSlot
  BY <1>0, <1>2, MovedOn DEF Invalidate, StopPonder, Core
<1>3. ASSUME NEW g \in Game, NEW turn \in {"ours", "theirs", "none"}, GameStart(g, turn)
      PROVE  SlotIsOfTheGame'
  <2> DEFINE b == StopPonder(Invalidate(core))
             c == Restarted(b, g, turn)
  <2>1. b \in Core /\ b.slot = NoSlot /\ MaybeSearch(c, live \ Cancels(core))
    BY <1>2, <1>3 DEF GameStart
  <2> HIDE DEF b
  <2>2. c \in Core /\ c.slot = NoSlot
    BY <2>1, StartsTyped
  <2> HIDE DEF c
  <2> QED BY <1>1, <2>1, <2>2
<1>4. ASSUME NEW turn \in {"ours", "theirs", "none"}, NEW drives \in BOOLEAN,
             Snapshot(turn, drives)
      PROVE  SlotIsOfTheGame'
  <2> DEFINE c == [Invalidate(core) EXCEPT !.turn = turn]
  <2>1. c \in Core /\ c.slot = core.slot /\ c.game = core.game
    BY <1>2, <1>4 DEF Snapshot, Core
  <2> QED BY <1>1, <1>4, <2>1 DEF Snapshot, SlotIsOfTheGame
<1>5. ASSUME NEW drives \in BOOLEAN, Repeated(drives) PROVE SlotIsOfTheGame'
  BY <1>0, <1>1, <1>5 DEF Repeated, SlotIsOfTheGame
<1>6. CASE Rejected \/ Leaves
  <2>1. CASE Rejected
    BY <1>2, <2>1 DEF Rejected, SlotIsOfTheGame, Core
  <2>2. CASE Leaves
    BY <1>2, <2>2 DEF Leaves, SlotIsOfTheGame, Core
  <2> QED BY <1>6, <2>1, <2>2
<1>7. CASE PonderCalls
  <2>1. CASE MaybePonder
    <3>1. PICK s \in Session :
            core' = [core EXCEPT !.pondered = core.version,
                       !.slot = [game |-> core.game, session |-> s,
                                 token |-> Think(core.version)]]
      BY <2>1 DEF MaybePonder
    <3>2. core'.slot.game = core.game /\ core'.game = core.game
      BY <1>0, <3>1 DEF Core
    <3> QED BY <3>2 DEF SlotIsOfTheGame
  <2>2. CASE PonderNothing
    BY <2>2 DEF PonderNothing, SlotIsOfTheGame
  <2>3. CASE SendPonderStep
    <3>1. core' = core \/ core' = StopPonder(core)
      BY <2>3 DEF SendPonderStep
    <3> QED BY <1>0, <3>1 DEF StopPonder, SlotIsOfTheGame, Core
  <2> QED BY <1>7, <2>1, <2>2, <2>3 DEF PonderCalls
<1>8. ASSUME NEW v \in Version, SearchTask(v) \/ Overran(v) PROVE SlotIsOfTheGame'
  BY <1>0, <1>8 DEF SearchTask, HandToPonder, Hands, ChooseAfresh, Replied, SessionDied,
                    Overran, StopPonder, SlotIsOfTheGame, Core, Slot
<1>9. ASSUME NEW s \in Session, SessionThread(s) \/ Panic(s) PROVE SlotIsOfTheGame'
  BY <1>9 DEF SessionThread, Takes, Finishes, Returns, Dies, Panic, SlotIsOfTheGame
<1>10. CASE UNCHANGED vars
  BY <1>10 DEF vars, SlotIsOfTheGame
<1> QED BY <1>3, <1>4, <1>5, <1>6, <1>7, <1>8, <1>9, <1>10 DEF Next, Frame

(***************************************************************************)
(* A slot is of the game being played, also where sessions panic (the      *)
(* field game_id of PonderSlot).                                           *)
(***************************************************************************)
THEOREM SlotFollowsGame == Spec => []SlotIsOfTheGame
<1>1. Init => SlotIsOfTheGame
  BY DEF Init, SlotIsOfTheGame
<1> QED BY <1>1, SlotNext, InitTyped, NextTyped, PTL DEF Spec

-----------------------------------------------------------------------------
\* Tokens, while no session has panicked.

\* Of core c and live tokens t: each is the search's or the slot's.
TokensAreHeld(c, t) ==
  /\ \A v \in Version : Answer(v) \in t => c.cancel = v
  /\ c.cancel # 0 => c.cancel = c.version /\ c.turn = "ours"
  /\ \A v \in Version : Think(v) \in t =>
       c.slot # NoSlot /\ c.slot.token = Think(v) /\ c.version = v /\ c.turn = "theirs"

\* The slot's session is there and none dies.
SessionsLive ==
  /\ core.slot # NoSlot => ~Gone(core.slot.session)
  /\ \A s \in Session : sessions[s].pc # "dying"
  /\ \A v \in Version : tasks[v].pc # "lost"

LEMMA StepKinds ==
  \A step \in Step : \E v \in Version :
    \/ step = Think(v) /\ step.kind = "Think" /\ step.version = v
    \/ step = Answer(v) /\ step.kind = "Answer" /\ step.version = v
BY DEF Step, Think, Answer

LEMMA KindsDiffer ==
  \A u, v \in Version : /\ Think(u) # Answer(v)
                        /\ Think(u) = Think(v) => u = v
                        /\ Answer(u) = Answer(v) => u = v
BY DEF Think, Answer

\* cancel_search cancels every token there is.
LEMMA AllCancelled ==
  ASSUME NEW c \in Core, NEW t \in SUBSET Step, TokensAreHeld(c, t)
  PROVE  t \ Cancels(c) = {}
<1> SUFFICES ASSUME NEW step \in t PROVE step \in Cancels(c)
  OBVIOUS
<1>1. PICK v \in Version : step = Think(v) \/ step = Answer(v)
  BY StepKinds
<1>2. CASE step = Think(v)
  BY <1>2 DEF TokensAreHeld, Cancels, SlotToken
<1>3. CASE step = Answer(v)
  BY <1>3 DEF TokensAreHeld, Cancels
<1> QED BY <1>1, <1>2, <1>3

LEMMA NothingHeld ==
  ASSUME NEW c, c.cancel = 0 PROVE TokensAreHeld(c, {})
BY DEF TokensAreHeld

LEMMA SearchHolds ==
  ASSUME NEW c \in Core, NEW t \in SUBSET Step, TokensAreHeld(c, t), MaybeSearch(c, t),
         c.game # NoGame => c.version > 0
  PROVE  TokensAreHeld(core', live') /\ core'.slot = c.slot
<1>1. CASE MayAct(c) /\ c.searched # c.version
  <2>1. c.version \in Version /\ c.turn = "ours"
    BY <1>1 DEF MayAct, Core
  <2>2. core' = [c EXCEPT !.searched = c.version, !.cancel = c.version]
    BY <1>1 DEF MaybeSearch
  <2>3. core'.cancel = c.version /\ core'.version = c.version /\ core'.turn = c.turn
        /\ core'.slot = c.slot
    BY <2>2 DEF Core
  <2>4. live' = {Answer(c.version)}
    BY <1>1, AllCancelled DEF MaybeSearch
  <2> QED BY <2>1, <2>3, <2>4, KindsDiffer DEF TokensAreHeld
<1>2. CASE ~(MayAct(c) /\ c.searched # c.version)
  BY <1>2 DEF MaybeSearch
<1> QED BY <1>1, <1>2

Held == TokensAreHeld(core, live) /\ SessionsLive

LEMMA SearchKeepsTasks ==
  ASSUME TypeOK, NEW c, NEW t, MaybeSearch(c, t), \A v \in Version : tasks[v].pc # "lost"
  PROVE  \A v \in Version : tasks'[v].pc # "lost"
<1>1. CASE UNCHANGED tasks
  BY <1>1
<1>2. CASE tasks' = [tasks EXCEPT ![c.version] = [pc |-> "start", game |-> c.game]]
  <2> SUFFICES ASSUME NEW v \in Version PROVE tasks'[v].pc # "lost"
    OBVIOUS
  <2>1. CASE v = c.version
    BY <1>2, <2>1 DEF TypeOK
  <2>2. CASE v # c.version
    BY <1>2, <2>2 DEF TypeOK
  <2> QED BY <2>1, <2>2
<1> QED BY <1>1, <1>2 DEF MaybeSearch

LEMMA FrameHeld == ASSUME Typed, Held, Frame PROVE Held'
<1>0. TypeOK /\ core \in Core /\ live \in SUBSET Step /\ TokensAreHeld(core, live)
      /\ SessionsLive /\ UNCHANGED sessions
  BY DEF Typed, TypeOK, Held, Frame, GameStart, Snapshot, Repeated, Rejected, Leaves
<1>1. live \ Cancels(core) = {}
  BY <1>0, AllCancelled
<1>2. ASSUME core.version < MaxVersion
      PROVE  /\ Invalidate(core) \in Core /\ StopPonder(Invalidate(core)) \in Core
             /\ Invalidate(core).cancel = 0 /\ Invalidate(core).slot = core.slot
             /\ Invalidate(core).version > 0
             /\ StopPonder(Invalidate(core)).cancel = 0
             /\ StopPonder(Invalidate(core)).slot = NoSlot
             /\ StopPonder(Invalidate(core)).version > 0
  BY <1>0, <1>2, MovedOn DEF Invalidate, StopPonder, Core
<1>3. ASSUME NEW c \in Core, c.cancel = 0, c.version > 0, MaybeSearch(c, {}),
             c.slot \in {core.slot, NoSlot}
      PROVE  Held'
  <2>1. TokensAreHeld(core', live') /\ core'.slot = c.slot
    BY <1>3, NothingHeld, SearchHolds
  <2> QED BY <1>0, <1>3, <2>1, SearchKeepsTasks DEF Held, SessionsLive, Gone
<1>4. ASSUME NEW c \in Core, c.cancel = 0, core' = c, live' = {}, UNCHANGED tasks,
             c.slot \in {core.slot, NoSlot}
      PROVE  Held'
  BY <1>0, <1>4, NothingHeld DEF Held, SessionsLive, Gone
<1>5. ASSUME NEW g \in Game, NEW turn \in {"ours", "theirs", "none"}, GameStart(g, turn)
      PROVE  Held'
  <2> DEFINE b == StopPonder(Invalidate(core))
             c == Restarted(b, g, turn)
  <2>1. MaybeSearch(c, {})
    BY <1>1, <1>5 DEF GameStart
  <2>2. b \in Core /\ b.cancel = 0 /\ b.version > 0 /\ b.slot = NoSlot
    BY <1>2, <1>5 DEF GameStart
  <2> HIDE DEF b
  <2>a. b \in Core
    BY <2>2
  <2>b. c \in Core /\ c.version = b.version /\ c.cancel = b.cancel /\ c.slot = b.slot
    BY <2>a, StartsTyped
  <2> HIDE DEF c
  <2>3. c \in Core /\ c.cancel = 0 /\ c.version > 0 /\ c.slot = NoSlot
    BY <2>2, <2>b
  <2> QED BY <1>3, <2>1, <2>3
<1>6. ASSUME NEW turn \in {"ours", "theirs", "none"}, NEW drives \in BOOLEAN,
             Snapshot(turn, drives)
      PROVE  Held'
  <2> DEFINE c == [Invalidate(core) EXCEPT !.turn = turn]
  <2>1. c \in Core /\ c.cancel = 0 /\ c.version > 0 /\ c.slot = core.slot
    BY <1>2, <1>6 DEF Snapshot, Core
  <2> QED BY <1>1, <1>3, <1>4, <1>6, <2>1 DEF Snapshot
<1>7. ASSUME NEW drives \in BOOLEAN, Repeated(drives) PROVE Held'
  <2>1. CASE drives
    <3>1. MaybeSearch(core, live) /\ core.version > 0
      BY <1>7, <2>1 DEF Repeated, Typed, LoopOK
    <3>2. TokensAreHeld(core', live') /\ core'.slot = core.slot
      BY <1>0, <3>1, SearchHolds
    <3> QED BY <1>0, <3>1, <3>2, SearchKeepsTasks DEF Held, SessionsLive, Gone
  <2>2. CASE ~drives
    BY <1>0, <1>7, <2>2 DEF Repeated, Held, SessionsLive, Gone
  <2> QED BY <2>1, <2>2
<1>8. CASE Rejected
  <2>1. core' = [Invalidate(core) EXCEPT !.turn = "none"] /\ live' = {} /\ UNCHANGED tasks
    BY <1>1, <1>8 DEF Rejected
  <2>2. core' \in Core /\ core'.cancel = 0 /\ core'.slot = core.slot
    BY <1>2, <1>8, <2>1 DEF Rejected, Core
  <2> QED BY <1>4, <2>1, <2>2
<1>9. CASE Leaves
  <2>1. core' = [StopPonder(Invalidate(core)) EXCEPT !.game = NoGame, !.turn = "none"]
        /\ live' = {} /\ UNCHANGED tasks
    BY <1>1, <1>9 DEF Leaves
  <2>2. core' \in Core /\ core'.cancel = 0 /\ core'.slot = NoSlot
    BY <1>2, <1>9, <2>1 DEF Leaves, Core
  <2> QED BY <1>4, <2>1, <2>2
<1> QED BY <1>5, <1>6, <1>7, <1>8, <1>9 DEF Frame

LEMMA PonderHeld == ASSUME Typed, Held, PonderCalls PROVE Held'
<1>0. core \in Core /\ TokensAreHeld(core, live) /\ SessionsLive /\ UNCHANGED tasks
      /\ sessions \in [Session -> Thread]
  BY DEF Typed, TypeOK, Held, PonderCalls, MaybePonder, PonderNothing, SendPonderStep
<1>1. CASE MaybePonder
  <2>1. PICK s \in Session :
          /\ Ensured(s)
          /\ core' = [core EXCEPT !.pondered = core.version,
                        !.slot = [game |-> core.game, session |-> s,
                                  token |-> Think(core.version)]]
          /\ live' \subseteq live \cup {Think(core.version)}
    BY <1>1 DEF MaybePonder
  <2>2. core.game \in Game /\ core.version \in Version /\ core.turn = "theirs"
    BY <1>0, <1>1 DEF MaybePonder, Ponders, MayPonder, Typed, LoopOK, Core
  <2>3. /\ core'.cancel = core.cancel /\ core'.version = core.version
        /\ core'.turn = core.turn /\ core'.slot.token = Think(core.version)
        /\ core'.slot \in Slot /\ core'.slot.session = s
    BY <1>0, <2>1, <2>2, StepsTyped DEF Core, Slot
  <2>4. core.cancel = 0 /\ \A v \in Version : Answer(v) \notin live
    BY <1>0, <2>2 DEF TokensAreHeld
  <2>5. \A v \in Version : Think(v) \in live' => v = core.version
    BY <1>0, <2>1, <2>2, KindsDiffer DEF TokensAreHeld
  <2>6. \A v \in Version : Answer(v) \notin live'
    BY <2>1, <2>2, <2>4, KindsDiffer
  <2>7. TokensAreHeld(core', live')
    BY <2>2, <2>3, <2>4, <2>5, <2>6, AbsentAssumption DEF TokensAreHeld
  <2>8. \A r \in Session : sessions'[r].pc \in {sessions[r].pc, "parked"}
    BY <1>0, <2>1 DEF Ensured, Parked, Ended
  <2>9. sessions'[s].pc # "ended"
    BY <1>0, <2>1 DEF Ensured, Parked, Ended, SessionsLive, Gone
  <2> QED BY <1>0, <2>3, <2>7, <2>8, <2>9 DEF Held, SessionsLive, Gone
<1>2. CASE PonderNothing
  BY <1>0, <1>2 DEF PonderNothing, Held, SessionsLive, Gone
<1>3. CASE SendPonderStep
  <2>1. UNCHANGED <<core, live>>
    BY <1>0, <1>3 DEF SendPonderStep, SessionsLive
  <2>2. \A s \in Session : sessions'[s].pc = sessions[s].pc
    BY <1>0, <1>3 DEF SendPonderStep, Sent, Thread
  <2> QED BY <1>0, <2>1, <2>2 DEF Held, SessionsLive, Gone, Core, Slot
<1> QED BY <1>1, <1>2, <1>3 DEF PonderCalls

LEMMA TaskHeld ==
  ASSUME Typed, Held, NEW v \in Version, SearchTask(v) \/ Overran(v) PROVE Held'
<1>0. core \in Core /\ TokensAreHeld(core, live) /\ SessionsLive
      /\ sessions \in [Session -> Thread] /\ tasks \in [Version -> Task]
  BY DEF Typed, TypeOK, Held
<1>1. \A u \in Version : tasks'[u].pc # "lost"
  BY <1>0 DEF SearchTask, HandToPonder, ChooseAfresh, Replied, SessionDied, Overran, Stage,
              SessionsLive, Task
<1>2. CASE HandToPonder(v)
  <2>1. /\ core' = [core EXCEPT !.slot.token = Answer(v)] /\ core.slot \in Slot
        /\ core.slot # NoSlot /\ live' = live /\ core.turn = "ours"
    BY <1>0, <1>2 DEF HandToPonder, Hands, MayAct, Core
  <2>2. /\ core'.cancel = core.cancel /\ core'.version = core.version
        /\ core'.turn = core.turn /\ core'.slot.session = core.slot.session
    BY <1>0, <2>1 DEF Core, Slot
  <2>3. \A s \in Session : sessions'[s].pc = sessions[s].pc
    BY <1>0, <1>2 DEF HandToPonder, Sent, Thread
  <2>4. TokensAreHeld(core', live')
    BY <1>0, <2>1, <2>2 DEF TokensAreHeld
  <2> QED BY <1>0, <1>1, <2>1, <2>2, <2>3, <2>4 DEF Held, SessionsLive, Gone, Slot
<1>3. CASE ~HandToPonder(v)
  <2>1. core' = core /\ live' \subseteq live /\ UNCHANGED sessions
    BY <1>0, <1>3 DEF SearchTask, ChooseAfresh, Hands, Replied, SessionDied, Overran, SessionsLive
  <2> QED BY <1>0, <1>1, <2>1 DEF Held, TokensAreHeld, SessionsLive, Gone
<1> QED BY <1>2, <1>3

LEMMA ThreadHeld ==
  ASSUME ~panicked', Typed, Held, NEW s \in Session, SessionThread(s) \/ Panic(s)
  PROVE  Held'
<1>0. TokensAreHeld(core, live) /\ SessionsLive /\ UNCHANGED <<core, live>>
      /\ sessions \in [Session -> Thread] /\ tasks \in [Version -> Task]
  BY DEF Typed, TypeOK, Held, SessionThread, Takes, Finishes, Returns, Dies, Panic
<1>1. CASE Takes(s)
  BY <1>0, <1>1 DEF Takes, Becomes, Held, SessionsLive, Gone
<1>2. CASE Finishes(s)
  <2>1. \A v \in Version : tasks'[v].pc # "lost"
    BY <1>0, <1>2 DEF Finishes, FinishReply, Resolve, SessionsLive, Task
  <2>2. \A r \in Session : sessions'[r].pc \in {sessions[r].pc, "parked"}
    BY <1>0, <1>2 DEF Finishes, Becomes, Thread
  <2> QED BY <1>0, <2>1, <2>2 DEF Held, SessionsLive, Gone, Typed, TypeOK, Core, Slot
<1>3. CASE Returns(s)
  <2>1. sessions[s].queue = <<>> /\ Queued(s) = {}
    BY <1>3 DEF Returns, HasNext, Queued
  <2>2. \A v \in Version : tasks'[v].pc = tasks[v].pc
    BY <1>0, <1>3, <2>1 DEF Returns, Closes, Resolve
  <2> QED BY <1>0, <1>3, <2>2 DEF Returns, Closes, Becomes, HungUp, Ended, Held, SessionsLive, Gone
<1>4. CASE Dies(s) \/ Panic(s)
  BY <1>0, <1>4 DEF Dies, Panic, SessionsLive
<1> QED BY <1>1, <1>2, <1>3, <1>4 DEF SessionThread

LEMMA HeldNext == ASSUME ~panicked', Typed, Held, [Next]_vars PROVE Held'
<1>1. CASE UNCHANGED vars
  BY <1>1 DEF vars, Held, TokensAreHeld, SessionsLive, Gone
<1> QED BY <1>1, FrameHeld, PonderHeld, TaskHeld, ThreadHeld DEF Next

LEMMA HeldIsCurrent ==
  ASSUME Typed, Held
  PROVE  LiveStepsFollow /\ \A v \in Version : tasks[v].pc # "lost"
<1> SUFFICES LiveStepsFollow
  BY DEF Held, SessionsLive
<1>1. ASSUME NEW step \in live
      PROVE  /\ step.version = core.version
             /\ core.turn = IF step.kind = "Answer" THEN "ours" ELSE "theirs"
  <2>1. step \in Step
    BY DEF Typed, TypeOK
  <2>2. PICK v \in Version :
          \/ step = Think(v) /\ step.kind = "Think" /\ step.version = v
          \/ step = Answer(v) /\ step.kind = "Answer" /\ step.version = v
    BY <2>1, StepKinds
  <2> QED BY <2>2 DEF Held, TokensAreHeld
<1> QED BY <1>1 DEF LiveStepsFollow

LEMMA InitHeld == Init => Held
BY DEF Init, Held, TokensAreHeld, SessionsLive, Ended

LEMMA PanicsStay == [Next]_vars => (panicked => panicked')
BY DEF Next, vars, Frame, GameStart, Snapshot, Repeated, Rejected, Leaves, PonderCalls,
       MaybePonder, PonderNothing, SendPonderStep, SearchTask, HandToPonder, ChooseAfresh,
       Replied, SessionDied, Overran, SessionThread, Takes, Finishes, Returns, Dies, Panic

HeldSoFar == ~panicked => Held

LEMMA HeldAlways == Spec => [](Typed /\ HeldSoFar)
<1>1. Init => Typed /\ HeldSoFar
  BY InitTyped, InitHeld DEF HeldSoFar
<1>2. Typed /\ HeldSoFar /\ [Next]_vars => HeldSoFar'
  BY HeldNext, PanicsStay DEF HeldSoFar
<1> QED BY <1>1, <1>2, NextTyped, PTL DEF Spec

(***************************************************************************)
(* While no session has panicked, a step that is not cancelled is about    *)
(* the position the core holds (guard 2 of ponder.rs).                     *)
(***************************************************************************)
THEOREM NoStaleThought == Spec => []LiveStepIsCurrent
<1>1. Typed /\ HeldSoFar => LiveStepIsCurrent
  BY HeldIsCurrent DEF HeldSoFar, LiveStepIsCurrent
<1> QED BY <1>1, HeldAlways, PTL

-----------------------------------------------------------------------------
\* Whoever waits for a session is in that session's hands, panics included.

Handed ==
  \A v \in Version : tasks[v].pc = "waiting" => \E s \in Session : Holds(s, Answer(v))

\* Of a step of the system: nobody begins to wait, and what a waiting task
\* asked for stays where it is.
Keeps ==
  \A v \in Version : tasks'[v].pc = "waiting" =>
    /\ tasks[v].pc = "waiting"
    /\ \A s \in Session : Holds(s, Answer(v)) => Holds(s, Answer(v))'

LEMMA KeepsHanded == ASSUME Handed, Keeps PROVE Handed'
BY DEF Handed, Keeps

LEMMA SessionsKeep ==
  ASSUME UNCHANGED sessions,
         \A v \in Version : tasks'[v].pc = "waiting" => tasks[v].pc = "waiting"
  PROVE  Keeps
BY DEF Keeps, Holds, Queued

LEMMA SentHolds ==
  ASSUME TypeOK, NEW s \in Session, NEW step \in Step, Sent(s, step)
  PROVE  /\ Holds(s, step)'
         /\ \A r \in Session, e \in Step : Holds(r, e) => Holds(r, e)'
<1>1. sessions \in [Session -> Thread] /\ sessions[s].queue \in Seq(Step)
  BY DEF TypeOK, Thread
<1>2. /\ sessions'[s].step = sessions[s].step
      /\ sessions'[s].queue = Append(sessions[s].queue, step)
      /\ \A r \in Session \ {s} : sessions'[r] = sessions[r]
  BY <1>1 DEF Sent, Thread
<1>3. /\ Len(sessions'[s].queue) = Len(sessions[s].queue) + 1
      /\ Len(sessions[s].queue) \in Nat
      /\ \A i \in 1..Len(sessions[s].queue) : sessions'[s].queue[i] = sessions[s].queue[i]
      /\ sessions'[s].queue[Len(sessions[s].queue) + 1] = step
  BY <1>1, <1>2, AppendProperties
<1>4. Holds(s, step)'
  BY <1>3 DEF Holds, Queued
<1>5. ASSUME NEW e \in Step, Holds(s, e) PROVE Holds(s, e)'
  BY <1>2, <1>3, <1>5 DEF Holds, Queued
<1>6. ASSUME NEW r \in Session \ {s}, NEW e \in Step, Holds(r, e) PROVE Holds(r, e)'
  BY <1>2, <1>6 DEF Holds, Queued
<1> QED BY <1>4, <1>5, <1>6

HeldBy(thread, step) ==
  step = thread.step \/ \E i \in 1..Len(thread.queue) : step = thread.queue[i]

\* A thread whose new record has all that it held but what is in `steps`, and
\* whoever asked for those waits no more.
LEMMA BecomesKeeps ==
  ASSUME TypeOK, NEW s \in Session, NEW thread, Becomes(s, thread), NEW steps,
         \A e \in Step : Holds(s, e) => HeldBy(thread, e) \/ e \in steps,
         \A v \in Version : tasks'[v].pc = "waiting" =>
           tasks[v].pc = "waiting" /\ Answer(v) \notin steps
  PROVE  Keeps
<1>1. sessions' = [sessions EXCEPT ![s] = thread] /\ sessions \in [Session -> Thread]
  BY DEF Becomes, TypeOK
<1>2. sessions'[s] = thread /\ \A r \in Session \ {s} : sessions'[r] = sessions[r]
  BY <1>1
<1> SUFFICES ASSUME NEW v \in Version, tasks'[v].pc = "waiting", NEW r \in Session,
                    Holds(r, Answer(v))
             PROVE  Holds(r, Answer(v))'
  BY DEF Keeps
<1>3. CASE r = s
  <2>1. Answer(v) \in Step
    BY StepsTyped
  <2>2. HeldBy(thread, Answer(v))
    BY <1>3, <2>1
  <2> QED BY <1>2, <1>3, <2>2 DEF HeldBy, Holds, Queued
<1>4. CASE r # s
  BY <1>2, <1>4 DEF Holds, Queued
<1> QED BY <1>3, <1>4

LEMMA ResolveStops ==
  ASSUME TypeOK, NEW steps, NEW pc \in {"answered", "lost"}, Resolve(steps, pc)
  PROVE  \A v \in Version : tasks'[v].pc = "waiting" =>
           tasks[v].pc = "waiting" /\ Answer(v) \notin steps
BY DEF TypeOK, Resolve, Task

LEMMA ThreadKeeps ==
  ASSUME Typed, NEW s \in Session, SessionThread(s) \/ Panic(s)
  PROVE  Keeps
<1>0. /\ TypeOK /\ sessions[s] \in Thread
      /\ sessions[s].step # NoStep <=> sessions[s].pc = "driving"
  BY DEF Typed, TypeOK
<1>1. CASE Takes(s)
  <2>a. PICK q, thread : q = sessions[s].queue
                         /\ thread = [pc |-> "driving", step |-> Head(q), queue |-> Tail(q)]
    OBVIOUS
  <2>1. q \in Seq(Step) /\ q # <<>> /\ Becomes(s, thread) /\ UNCHANGED tasks /\ sessions[s].step = NoStep
    BY <1>0, <1>1, <2>a DEF Takes, HasNext, Thread
  <2>2. /\ Head(q) = q[1] /\ Len(Tail(q)) = Len(q) - 1 /\ Len(q) \in Nat
        /\ \A i \in 1..Len(Tail(q)) : Tail(q)[i] = q[i + 1]
    BY <2>1, HeadTailProperties
  <2>3. ASSUME NEW e \in Step, Holds(s, e)
        PROVE  e = thread.step \/ \E i \in 1..Len(thread.queue) : e = thread.queue[i]
    <3>1. PICK i \in 1..Len(q) : e = q[i]
      BY <2>a, <2>1, <2>3, AbsentAssumption DEF Holds, Queued
    <3>2. CASE i = 1
      BY <2>a, <2>2, <3>1, <3>2
    <3>3. CASE i # 1
      <4>1. i - 1 \in 1..Len(Tail(q)) /\ (i - 1) + 1 = i
        BY <2>2, <3>3
      <4> QED BY <2>a, <2>2, <3>1, <4>1
    <3> QED BY <3>2, <3>3
  <2>4. \A v \in Version : tasks'[v].pc = "waiting" => tasks[v].pc = "waiting" /\ Answer(v) \notin {}
    BY <2>1
  <2>5. \A e \in Step : Holds(s, e) => HeldBy(thread, e) \/ e \in {}
    BY <2>3 DEF HeldBy
  <2> QED BY <1>0, <2>1, <2>4, <2>5, BecomesKeeps
<1>2. ASSUME NEW pc \in {"answered", "lost"}, NEW stage \in {"parked", "dying"},
             Resolve({sessions[s].step}, pc),
             Becomes(s, [sessions[s] EXCEPT !.pc = stage, !.step = NoStep])
      PROVE  Keeps
  <2>a. PICK thread, steps : thread = [sessions[s] EXCEPT !.pc = stage, !.step = NoStep]
                             /\ steps = {sessions[s].step}
    OBVIOUS
  <2>1. thread.queue = sessions[s].queue
    BY <1>0, <2>a DEF Thread
  <2>2. \A e \in Step : Holds(s, e) => HeldBy(thread, e) \/ e \in steps
    BY <2>a, <2>1 DEF HeldBy, Holds, Queued
  <2>3. \A v \in Version : tasks'[v].pc = "waiting" =>
          tasks[v].pc = "waiting" /\ Answer(v) \notin steps
    BY <1>0, <1>2, <2>a, ResolveStops
  <2>4. Becomes(s, thread)
    BY <1>2, <2>a
  <2> QED BY <1>0, <2>2, <2>3, <2>4, BecomesKeeps
<1>3. CASE Returns(s) \/ Dies(s)
  <2>1. Closes(s) /\ sessions[s].step = NoStep
    BY <1>0, <1>3 DEF Returns, Dies
  <2>a. PICK steps : steps = Queued(s)
    OBVIOUS
  <2>2. \A v \in Version : tasks'[v].pc = "waiting" =>
          tasks[v].pc = "waiting" /\ Answer(v) \notin steps
    BY <1>0, <2>1, <2>a, ResolveStops DEF Closes
  <2>3. \A e \in Step : Holds(s, e) => e \in steps
    BY <2>1, <2>a, AbsentAssumption DEF Holds
  <2>4. Becomes(s, Ended)
    BY <2>1 DEF Closes
  <2> QED BY <1>0, <2>2, <2>3, <2>4, BecomesKeeps
<1> QED BY <1>1, <1>2, <1>3 DEF SessionThread, Finishes, FinishReply, Panic

LEMMA FrameKeeps == ASSUME Typed, Frame PROVE Keeps
<1>1. UNCHANGED sessions
  BY DEF Frame, GameStart, Snapshot, Repeated, Rejected, Leaves
<1>2. tasks \in [Version -> Task]
  BY DEF Typed, TypeOK
<1>3. ASSUME NEW c, NEW t, MaybeSearch(c, t)
      PROVE  \A v \in Version : tasks'[v].pc = "waiting" => tasks[v].pc = "waiting"
  <2>1. CASE UNCHANGED tasks
    BY <2>1
  <2>2. CASE tasks' = [tasks EXCEPT ![c.version] = [pc |-> "start", game |-> c.game]]
    <3> SUFFICES ASSUME NEW v \in Version, tasks'[v].pc = "waiting" PROVE tasks[v].pc = "waiting"
      OBVIOUS
    <3>1. CASE v = c.version
      BY <1>2, <2>2, <3>1
    <3>2. CASE v # c.version
      BY <1>2, <2>2, <3>2
    <3> QED BY <3>1, <3>2
  <2> QED BY <1>3, <2>1, <2>2 DEF MaybeSearch
<1>4. \A v \in Version : tasks'[v].pc = "waiting" => tasks[v].pc = "waiting"
  BY <1>3 DEF Frame, GameStart, Snapshot, Repeated, Rejected, Leaves
<1> QED BY <1>1, <1>4, SessionsKeep

LEMMA PonderKeeps == ASSUME Typed, PonderCalls PROVE Keeps
<1>0. TypeOK /\ core \in Core /\ UNCHANGED tasks
  BY DEF Typed, TypeOK, PonderCalls, MaybePonder, PonderNothing, SendPonderStep
<1>1. CASE MaybePonder
  <2>1. PICK s \in Session : Ensured(s)
    BY <1>1 DEF MaybePonder
  <2>2. CASE UNCHANGED sessions
    BY <1>0, <2>2, SessionsKeep
  <2>3. CASE sessions[s] = Ended /\ sessions' = [sessions EXCEPT ![s] = Parked]
    <3>a. PICK thread, steps : thread = Parked /\ steps = {}
      OBVIOUS
    <3>1. \A e \in Step : ~Holds(s, e)
      BY <2>3, AbsentAssumption DEF Holds, Queued, Ended
    <3>2. \A v \in Version : tasks'[v].pc = "waiting" => tasks[v].pc = "waiting" /\ Answer(v) \notin steps
      BY <1>0, <3>a
    <3>3. Becomes(s, thread)
      BY <2>3, <3>a DEF Becomes
    <3>4. \A e \in Step : Holds(s, e) => HeldBy(thread, e) \/ e \in steps
      BY <3>1
    <3> QED BY <1>0, <3>2, <3>3, <3>4, BecomesKeeps
  <2> QED BY <2>1, <2>2, <2>3 DEF Ensured
<1>2. CASE UNCHANGED sessions
  BY <1>0, <1>2, SessionsKeep
<1>3. CASE core.slot # NoSlot /\ Sent(core.slot.session, Think(core.version)) /\ SendPonderStep
  <2>1. PICK s \in Session, step \in Step : Sent(s, step)
    BY <1>0, <1>3, StepsTyped DEF SendPonderStep, Typed, LoopOK, MayPonder, Core, Slot
  <2>2. \A r \in Session, e \in Step : Holds(r, e) => Holds(r, e)'
    BY <1>0, <1>3, <2>1, SentHolds
  <2> QED BY <1>0, <2>2, StepsTyped DEF Keeps
<1> QED BY <1>1, <1>2, <1>3 DEF PonderCalls, PonderNothing, SendPonderStep

LEMMA TaskHands ==
  ASSUME Typed, Handed, NEW v \in Version, SearchTask(v) \/ Overran(v)
  PROVE  Handed'
<1>0. TypeOK /\ core \in Core /\ tasks \in [Version -> Task]
  BY DEF Typed, TypeOK
<1>1. CASE HandToPonder(v)
  <2>1. PICK s \in Session : Sent(s, Answer(v)) /\ Answer(v) \in Step
    BY <1>0, <1>1, StepsTyped DEF HandToPonder, Hands, Core, Slot
  <2>2. /\ Holds(s, Answer(v))'
        /\ \A r \in Session, e \in Step : Holds(r, e) => Holds(r, e)'
    BY <1>0, <2>1, SentHolds
  <2>3. \A u \in Version : u # v => tasks'[u] = tasks[u]
    BY <1>0, <1>1 DEF HandToPonder, Stage
  <2>4. ASSUME NEW u \in Version, tasks'[u].pc = "waiting"
        PROVE  \E r \in Session : Holds(r, Answer(u))'
    <3>1. CASE u = v
      BY <2>2, <3>1
    <3>2. CASE u # v
      BY <2>2, <2>3, <2>4, <3>2, StepsTyped DEF Handed
    <3> QED BY <3>1, <3>2
  <2> QED BY <2>4 DEF Handed
<1>2. CASE ~HandToPonder(v)
  <2>1. UNCHANGED sessions /\ Stage(v, "done")
    BY <1>2 DEF SearchTask, ChooseAfresh, Replied, SessionDied, Overran
  <2>2. \A u \in Version : tasks'[u].pc = "waiting" => tasks[u].pc = "waiting"
    BY <1>0, <2>1 DEF Stage, Task
  <2> QED BY <2>1, <2>2, SessionsKeep, KeepsHanded
<1> QED BY <1>1, <1>2

LEMMA HandedNext == ASSUME Typed, Handed, [Next]_vars PROVE Handed'
<1>1. CASE UNCHANGED vars
  BY <1>1 DEF vars, Handed, Holds, Queued
<1> QED BY <1>1, FrameKeeps, PonderKeeps, TaskHands, ThreadKeeps, KeepsHanded DEF Next

LEMMA HandedAlways == Spec => []Handed
<1>1. Init => Handed
  BY DEF Init, Handed
<1> QED BY <1>1, HandedNext, InitTyped, NextTyped, PTL DEF Spec

(***************************************************************************)
(* A search that waits for a session has its Answer driven or queued there *)
(* (sessions that panic included), and hears that its session died only    *)
(* after a panic (MctsEngine::ponder).                                     *)
(***************************************************************************)
THEOREM EveryAnswerIsHeld == Spec => []NoAnswerIsLost
<1>1. Typed /\ HeldSoFar /\ Handed => NoAnswerIsLost
  BY HeldIsCurrent DEF HeldSoFar, Handed, NoAnswerIsLost
<1> QED BY <1>1, HeldAlways, HandedAlways, PTL

-----------------------------------------------------------------------------
\* What sessions have been given, panics included.

GivenBy(thread) ==
  (IF thread.step = NoStep THEN <<>> ELSE <<thread.step>>) \o thread.queue

\* A thread that was given `old` has `new` left of it.
Shortens(old, new) ==
  \E k \in 0..Len(old) :
    Len(new) = Len(old) - k /\ \A i \in 1..Len(new) : new[i] = old[i + k]

\* A thread is given one step more.
Extends(old, new, step) ==
  /\ Len(new) = Len(old) + 1
  /\ \A i \in 1..Len(old) : new[i] = old[i]
  /\ new[Len(old) + 1] = step

LEMMA GivenTyped ==
  ASSUME NEW thread \in Thread
  PROVE  /\ GivenBy(thread) \in Seq(Step)
         /\ thread.step = NoStep => GivenBy(thread) = thread.queue
         /\ thread.step # NoStep =>
              /\ Len(GivenBy(thread)) = Len(thread.queue) + 1
              /\ GivenBy(thread)[1] = thread.step
              /\ \A i \in 1..Len(thread.queue) : GivenBy(thread)[i + 1] = thread.queue[i]
<1>1. thread.queue \in Seq(Step) /\ thread.step \in Step \cup {NoStep}
  BY DEF Thread
<1>2. CASE thread.step = NoStep
  BY <1>1, <1>2, ConcatEmptySeq DEF GivenBy
<1>3. CASE thread.step # NoStep
  <2>1. <<thread.step>> \in Seq(Step) /\ Len(<<thread.step>>) = 1 /\ <<thread.step>>[1] = thread.step
    BY <1>1, <1>3
  <2>2. GivenBy(thread) = <<thread.step>> \o thread.queue
    BY <1>3 DEF GivenBy
  <2>3. /\ GivenBy(thread) \in Seq(Step)
        /\ Len(GivenBy(thread)) = 1 + Len(thread.queue)
        /\ \A i \in 1..(1 + Len(thread.queue)) :
             GivenBy(thread)[i] = IF i <= 1 THEN <<thread.step>>[i] ELSE thread.queue[i - 1]
    BY <1>1, <2>1, <2>2, ConcatProperties
  <2>4. Len(thread.queue) \in Nat
    BY <1>1
  <2> QED BY <1>3, <2>1, <2>3, <2>4
<1> QED BY <1>2, <1>3

LEMMA Unchanged == ASSUME NEW old \in Seq(Step) PROVE Shortens(old, old)
<1>1. 0 \in 0..Len(old) /\ Len(old) = Len(old) - 0 /\ \A i \in 1..Len(old) : old[i] = old[i + 0]
  OBVIOUS
<1> QED BY <1>1 DEF Shortens

LEMMA Emptied == ASSUME NEW old \in Seq(Step) PROVE Shortens(old, <<>>)
<1>1. Len(old) \in 0..Len(old) /\ Len(<<>>) = Len(old) - Len(old) /\ 1..Len(<<>>) = {}
  OBVIOUS
<1> QED BY <1>1 DEF Shortens

\* Each step of a thread leaves it some of what it was given.
LEMMA ThreadShortens ==
  ASSUME NEW thread \in Thread
  PROVE  /\ Shortens(GivenBy(thread), GivenBy(thread))
         /\ Shortens(GivenBy(thread), GivenBy(Ended)) /\ Shortens(GivenBy(thread), GivenBy(Parked))
         /\ thread.step = NoStep /\ thread.queue # <<>> =>
              Shortens(GivenBy(thread), GivenBy([pc |-> "driving", step |-> Head(thread.queue),
                                                 queue |-> Tail(thread.queue)]))
         /\ thread.step # NoStep => \A pc \in {"parked", "dying"} :
              Shortens(GivenBy(thread), GivenBy([thread EXCEPT !.pc = pc, !.step = NoStep]))
<1>0. GivenBy(thread) \in Seq(Step) /\ thread.queue \in Seq(Step)
  BY GivenTyped DEF Thread
<1>1. Shortens(GivenBy(thread), GivenBy(thread))
  BY <1>0, Unchanged
<1>2. Shortens(GivenBy(thread), GivenBy(Ended)) /\ Shortens(GivenBy(thread), GivenBy(Parked))
  <2>1. Ended \in Thread /\ Parked \in Thread
    BY EndedOK DEF ThreadOK
  <2>2. Ended.step = NoStep /\ Ended.queue = <<>> /\ Parked.step = NoStep /\ Parked.queue = <<>>
    BY DEF Ended, Parked
  <2>3. GivenBy(Ended) = <<>> /\ GivenBy(Parked) = <<>>
    BY <2>1, <2>2, GivenTyped
  <2> QED BY <1>0, <2>3, Emptied
<1>3. ASSUME thread.step = NoStep, thread.queue # <<>>
      PROVE  Shortens(GivenBy(thread), GivenBy([pc |-> "driving", step |-> Head(thread.queue),
                                                queue |-> Tail(thread.queue)]))
  <2> DEFINE next == [pc |-> "driving", step |-> Head(thread.queue), queue |-> Tail(thread.queue)]
  <2>1. /\ Head(thread.queue) \in Step /\ Tail(thread.queue) \in Seq(Step)
        /\ Len(Tail(thread.queue)) = Len(thread.queue) - 1
        /\ \A i \in 1..Len(Tail(thread.queue)) : Tail(thread.queue)[i] = thread.queue[i + 1]
    BY <1>0, <1>3, HeadTailProperties
  <2>2. next \in Thread /\ next.step = Head(thread.queue) /\ next.queue = Tail(thread.queue)
        /\ next.step # NoStep
    BY <2>1, AbsentAssumption DEF Thread
  <2>3. /\ Len(GivenBy(next)) = Len(next.queue) + 1 /\ GivenBy(next)[1] = next.step
        /\ \A i \in 1..Len(next.queue) : GivenBy(next)[i + 1] = next.queue[i]
    BY <2>2, GivenTyped
  <2>4. Head(thread.queue) = thread.queue[1] /\ GivenBy(thread) = thread.queue
    BY <1>3, <1>0, GivenTyped
  <2> HIDE DEF next
  <2>5. Len(GivenBy(next)) = Len(thread.queue) /\ Len(thread.queue) \in Nat
    BY <1>0, <2>1, <2>2, <2>3
  <2>6. ASSUME NEW i \in 1..Len(GivenBy(next)) PROVE GivenBy(next)[i] = thread.queue[i]
    <3>1. CASE i = 1
      BY <2>2, <2>3, <2>4, <3>1
    <3>2. CASE i # 1
      <4>1. i - 1 \in 1..Len(next.queue) /\ (i - 1) + 1 = i
        BY <2>1, <2>2, <2>5, <2>6, <3>2
      <4> QED BY <2>1, <2>2, <2>3, <4>1
    <3> QED BY <3>1, <3>2
  <2>7. Shortens(thread.queue, GivenBy(next))
    BY <2>5, <2>6 DEF Shortens
  <2> QED BY <2>4, <2>7 DEF next
<1>4. ASSUME thread.step # NoStep, NEW pc \in {"parked", "dying"}
      PROVE  Shortens(GivenBy(thread), GivenBy([thread EXCEPT !.pc = pc, !.step = NoStep]))
  <2> DEFINE next == [thread EXCEPT !.pc = pc, !.step = NoStep]
  <2>1. next \in Thread /\ next.step = NoStep /\ next.queue = thread.queue
    BY DEF Thread
  <2>2. GivenBy(next) = thread.queue
    BY <2>1, GivenTyped
  <2> HIDE DEF next
  <2>3. /\ Len(GivenBy(thread)) = Len(thread.queue) + 1
        /\ \A i \in 1..Len(thread.queue) : GivenBy(thread)[i + 1] = thread.queue[i]
    BY <1>4, GivenTyped
  <2>4. 1 \in 0..Len(GivenBy(thread)) /\ Len(thread.queue) = Len(GivenBy(thread)) - 1
    BY <1>0, <2>3
  <2>5. Shortens(GivenBy(thread), thread.queue)
    BY <2>3, <2>4 DEF Shortens
  <2> QED BY <2>2, <2>5 DEF next
<1> QED BY <1>1, <1>2, <1>3, <1>4

LEMMA SentExtends ==
  ASSUME NEW thread \in Thread, NEW step \in Step
  PROVE  Extends(GivenBy(thread), GivenBy([thread EXCEPT !.queue = Append(thread.queue, step)]), step)
<1> DEFINE next == [thread EXCEPT !.queue = Append(thread.queue, step)]
<1>1. thread.queue \in Seq(Step) /\ Len(thread.queue) \in Nat
  BY DEF Thread
<1>2. /\ Append(thread.queue, step) \in Seq(Step) /\ Len(Append(thread.queue, step)) = Len(thread.queue) + 1
      /\ \A i \in 1..Len(thread.queue) : Append(thread.queue, step)[i] = thread.queue[i]
      /\ Append(thread.queue, step)[Len(thread.queue) + 1] = step
  BY <1>1, AppendProperties
<1>3. next \in Thread /\ next.queue = Append(thread.queue, step) /\ next.step = thread.step
  BY <1>2 DEF Thread
<1> HIDE DEF next
<1>4. CASE thread.step = NoStep
  <2>1. GivenBy(thread) = thread.queue /\ GivenBy(next) = next.queue
    BY <1>3, <1>4, GivenTyped
  <2>2. Extends(GivenBy(thread), GivenBy(next), step)
    BY <1>2, <1>3, <2>1 DEF Extends
  <2> QED BY <2>2 DEF next
<1>5. CASE thread.step # NoStep
  <2>1. /\ Len(GivenBy(thread)) = Len(thread.queue) + 1 /\ GivenBy(thread)[1] = thread.step
        /\ \A i \in 1..Len(thread.queue) : GivenBy(thread)[i + 1] = thread.queue[i]
    BY <1>5, GivenTyped
  <2>2. /\ Len(GivenBy(next)) = Len(next.queue) + 1 /\ GivenBy(next)[1] = next.step
        /\ \A i \in 1..Len(next.queue) : GivenBy(next)[i + 1] = next.queue[i]
    BY <1>3, <1>5, GivenTyped
  <2>3. ASSUME NEW i \in 1..Len(GivenBy(thread)) PROVE GivenBy(next)[i] = GivenBy(thread)[i]
    <3>1. CASE i = 1
      BY <1>3, <2>1, <2>2, <3>1
    <3>2. CASE i # 1
      <4>1. i - 1 \in 1..Len(thread.queue) /\ i - 1 \in 1..Len(next.queue) /\ (i - 1) + 1 = i
        BY <1>1, <1>2, <1>3, <2>1, <2>3, <3>2
      <4> QED BY <1>2, <1>3, <2>1, <2>2, <4>1
    <3> QED BY <3>1, <3>2
  <2>4. GivenBy(next)[Len(GivenBy(thread)) + 1] = step
    BY <1>1, <1>2, <1>3, <2>1, <2>2
  <2>5. Extends(GivenBy(thread), GivenBy(next), step)
    BY <1>1, <1>2, <1>3, <2>1, <2>2, <2>3, <2>4 DEF Extends
  <2> QED BY <2>5 DEF next
<1> QED BY <1>4, <1>5

\* What the sessions have been given, by session.
Gave == [s \in Session |-> GivenBy(sessions[s])]

\* OneStepPerSnapshot, of any sequences.
Increasing(G) ==
  \A r, s \in Session : \A i \in 1..Len(G[r]), j \in 1..Len(G[s]) :
    (r = s => i < j) =>
      \/ r = s /\ G[r][i].version < G[s][j].version
      \/ r # s /\ G[r][i].version # G[s][j].version

LEMMA ShorteningKeeps ==
  ASSUME NEW G \in [Session -> Seq(Step)], NEW H \in [Session -> Seq(Step)],
         \A s \in Session : Shortens(G[s], H[s])
  PROVE  /\ Increasing(G) => Increasing(H)
         /\ \A s \in Session : \A i \in 1..Len(H[s]) : \E j \in 1..Len(G[s]) : H[s][i] = G[s][j]
<1>1. PICK k \in [Session -> Nat] : \A s \in Session :
        /\ k[s] \in 0..Len(G[s]) /\ Len(H[s]) = Len(G[s]) - k[s]
        /\ \A i \in 1..Len(H[s]) : H[s][i] = G[s][i + k[s]]
  <2> DEFINE Fit(s, n) == /\ n \in 0..Len(G[s]) /\ Len(H[s]) = Len(G[s]) - n
                          /\ \A i \in 1..Len(H[s]) : H[s][i] = G[s][i + n]
             f == [s \in Session |-> CHOOSE n \in Nat : Fit(s, n)]
  <2>1. ASSUME NEW s \in Session PROVE \E n \in Nat : Fit(s, n)
    <3>1. PICK n \in 0..Len(G[s]) :
            Len(H[s]) = Len(G[s]) - n /\ \A i \in 1..Len(H[s]) : H[s][i] = G[s][i + n]
      BY DEF Shortens
    <3>2. n \in Nat /\ Fit(s, n)
      BY <3>1
    <3> QED BY <3>2
  <2>2. ASSUME NEW s \in Session PROVE f[s] \in Nat /\ Fit(s, f[s])
    BY <2>1
  <2>3. f \in [Session -> Nat]
    BY <2>2
  <2> HIDE DEF f
  <2> QED BY <2>2, <2>3
<1>2. ASSUME NEW s \in Session, NEW i \in 1..Len(H[s])
      PROVE  i + k[s] \in 1..Len(G[s]) /\ H[s][i] = G[s][i + k[s]]
  <2>1. Len(H[s]) \in Nat /\ Len(G[s]) \in Nat /\ k[s] \in Nat
    OBVIOUS
  <2>2. H[s][i] = G[s][i + k[s]]
    BY <1>1
  <2> QED BY <1>1, <1>2, <2>1, <2>2
<1>3. ASSUME Increasing(G), NEW r \in Session, NEW s \in Session,
             NEW i \in 1..Len(H[r]), NEW j \in 1..Len(H[s]), r = s => i < j
      PROVE  \/ r = s /\ H[r][i].version < H[s][j].version
             \/ r # s /\ H[r][i].version # H[s][j].version
  <2>1. r = s => i + k[r] < j + k[s]
    BY <1>3
  <2>2. i + k[r] \in 1..Len(G[r]) /\ j + k[s] \in 1..Len(G[s])
        /\ H[r][i] = G[r][i + k[r]] /\ H[s][j] = G[s][j + k[s]]
    BY <1>2
  <2>3. \/ r = s /\ G[r][i + k[r]].version < G[s][j + k[s]].version
        \/ r # s /\ G[r][i + k[r]].version # G[s][j + k[s]].version
    BY <1>3, <2>1, <2>2 DEF Increasing
  <2> QED BY <2>2, <2>3
<1>4. Increasing(G) => Increasing(H)
  BY <1>3 DEF Increasing
<1>5. \A s \in Session : \A i \in 1..Len(H[s]) : \E j \in 1..Len(G[s]) : H[s][i] = G[s][j]
  BY <1>2
<1> QED BY <1>4, <1>5

\* In G every step is older than `step`, and H is G with `step` given to t.
Grew(G, H, t, step) ==
  /\ G \in [Session -> Seq(Step)] /\ H \in [Session -> Seq(Step)]
  /\ t \in Session /\ step \in Step
  /\ Extends(G[t], H[t], step) /\ \A s \in Session \ {t} : H[s] = G[s]
  /\ Increasing(G)
  /\ \A s \in Session : \A i \in 1..Len(G[s]) : G[s][i].version < step.version

LEMMA ExtendingKeeps ==
  ASSUME NEW G, NEW H, NEW t, NEW step, Grew(G, H, t, step)
  PROVE  /\ Increasing(H)
         /\ \A s \in Session : \A i \in 1..Len(H[s]) :
              H[s][i] = step \/ \E j \in 1..Len(G[s]) : H[s][i] = G[s][j]
<1> USE DEF Grew
<1>1. ASSUME NEW s \in Session, NEW i \in 1..Len(H[s])
      PROVE  \/ s = t /\ i = Len(G[t]) + 1 /\ H[s][i] = step
             \/ i \in 1..Len(G[s]) /\ H[s][i] = G[s][i]
  <2>1. CASE s # t
    BY <2>1
  <2>2. CASE s = t
    <3>1. Len(G[t]) \in Nat /\ Len(H[t]) = Len(G[t]) + 1 /\ H[t][Len(G[t]) + 1] = step
          /\ \A j \in 1..Len(G[t]) : H[t][j] = G[t][j]
      BY DEF Extends
    <3> QED BY <2>2, <3>1
  <2> QED BY <2>1, <2>2
<1>2. ASSUME NEW r \in Session, NEW s \in Session,
             NEW i \in 1..Len(H[r]), NEW j \in 1..Len(H[s]), r = s => i < j
      PROVE  \/ r = s /\ H[r][i].version < H[s][j].version
             \/ r # s /\ H[r][i].version # H[s][j].version
  <2>0. step.version \in Int /\ Len(G[t]) \in Nat
        /\ \A u \in Session : \A n \in 1..Len(G[u]) : G[u][n].version \in Int
    <3>1. \A u \in Session : G[u] \in Seq(Step)
      OBVIOUS
    <3>2. \A u \in Session : \A n \in 1..Len(G[u]) : G[u][n] \in Step
      BY <3>1
    <3>3. \A e \in Step : e.version \in Int
      BY DEF Step, Version
    <3> QED BY <3>1, <3>2, <3>3
  <2>1. CASE i \in 1..Len(G[r]) /\ H[r][i] = G[r][i] /\ j \in 1..Len(G[s]) /\ H[s][j] = G[s][j]
    <3>1. \/ r = s /\ G[r][i].version < G[s][j].version
          \/ r # s /\ G[r][i].version # G[s][j].version
      BY <1>2, <2>1 DEF Increasing
    <3> QED BY <2>1, <3>1
  <2>2. CASE i \in 1..Len(G[r]) /\ H[r][i] = G[r][i] /\ s = t /\ j = Len(G[t]) + 1 /\ H[s][j] = step
    <3>1. H[r][i].version < H[s][j].version /\ H[r][i].version \in Int /\ H[s][j].version \in Int
      BY <2>0, <2>2
    <3> QED BY <3>1
  <2>3. CASE r = t /\ i = Len(G[t]) + 1 /\ H[r][i] = step /\ j \in 1..Len(G[s]) /\ H[s][j] = G[s][j]
    <3>1. r # s
      BY <1>2, <2>0, <2>3
    <3>2. H[s][j].version < H[r][i].version /\ H[r][i].version \in Int /\ H[s][j].version \in Int
      BY <2>0, <2>3
    <3> QED BY <3>1, <3>2
  <2>4. CASE r = t /\ i = Len(G[t]) + 1 /\ s = t /\ j = Len(G[t]) + 1
    BY <1>2, <2>0, <2>4
  <2> QED BY <1>1, <2>1, <2>2, <2>3, <2>4
<1>3. Increasing(H)
  BY <1>2 DEF Increasing
<1> QED BY <1>1, <1>3

\* A step that was given is of no later position than the core's; of the core's, it is what
\* the turn calls for, and it was the one step for it.
Placed(c, at, ts, step) ==
  /\ step.version <= c.version
  /\ step.version = c.version =>
       IF step.kind = "Think"
       THEN c.turn = "theirs" /\ c.pondered = c.version /\ at # "send"
       ELSE c.turn = "ours" /\ c.searched = c.version /\ ts[c.version].pc # "start"

\* A search that has not been handed over is the one for its version.
Dispatched(c, ts) ==
  /\ c.version \in Version => (ts[c.version].pc = "start" => c.searched = c.version)
  /\ \A v \in Version : v > c.version => ts[v].pc = "none"

\* An Answer token is the search's, also where sessions panic.
AnswersAreHeld(c, t) ==
  /\ \A v \in Version : Answer(v) \in t => c.cancel = v
  /\ c.cancel # 0 => c.cancel = c.version /\ c.turn = "ours"

Follows == Dispatched(core, tasks) /\ AnswersAreHeld(core, live)

Sequenced ==
  /\ Increasing(Gave)
  /\ \A s \in Session : \A i \in 1..Len(Gave[s]) : Placed(core, loop, tasks, Gave[s][i])
  /\ Follows

LEMMA GaveTyped == ASSUME TypeOK PROVE Gave \in [Session -> Seq(Step)]
BY GivenTyped DEF TypeOK, Gave


\* Of a step that keeps what was given where it was, and of what it leaves.
StaysPlaced ==
  \A step \in Step : Placed(core, loop, tasks, step) => Placed(core', loop', tasks', step)

LEMMA SearchFollows ==
  ASSUME TypeOK, NEW c \in Core, NEW t \in SUBSET Step, MaybeSearch(c, t),
         c.game # NoGame => c.version > 0, Dispatched(c, tasks), AnswersAreHeld(c, t)
  PROVE  /\ Follows'
         /\ \A at : \A step \in Step : Placed(c, at, tasks, step) /\ at # "send" => Placed(core', "ponder", tasks', step)
<1>1. CASE MayAct(c) /\ c.searched # c.version
  <2>1. c.version \in Version /\ c.turn = "ours"
    BY <1>1 DEF MayAct, Core
  <2>2. core' = [c EXCEPT !.searched = c.version, !.cancel = c.version]
    BY <1>1 DEF MaybeSearch
  <2>3. /\ core'.cancel = c.version /\ core'.version = c.version /\ core'.turn = c.turn
        /\ core'.pondered = c.pondered /\ core'.searched = c.version
    BY <2>2 DEF Core
  <2>4. /\ live' = (t \ Cancels(c)) \cup {Answer(c.version)}
        /\ tasks' = [tasks EXCEPT ![c.version] = [pc |-> "start", game |-> c.game]]
    BY <1>1 DEF MaybeSearch
  <2>5. \A v \in Version : v # c.version => tasks'[v] = tasks[v]
    BY <2>4 DEF TypeOK
  <2>6. Dispatched(core', tasks')
    BY <2>1, <2>3, <2>5 DEF Dispatched, Version
  <2>7. ASSUME NEW v \in Version, Answer(v) \in live' PROVE v = c.version
    <3>1. CASE Answer(v) = Answer(c.version)
      BY <2>1, <3>1, KindsDiffer
    <3>2. CASE Answer(v) \in t /\ Answer(v) \notin Cancels(c)
      <4>1. c.cancel = v /\ v # 0
        BY <3>2 DEF AnswersAreHeld, Version
      <4> QED BY <3>2, <4>1 DEF Cancels
    <3> QED BY <2>4, <2>7, <3>1, <3>2
  <2>8. AnswersAreHeld(core', live')
    BY <2>1, <2>3, <2>7 DEF AnswersAreHeld
  <2>9. ASSUME NEW step \in Step, NEW at, Placed(c, at, tasks, step)
        PROVE  Placed(core', "ponder", tasks', step)
    BY <1>1, <2>1, <2>3, <2>9 DEF Placed
  <2> QED BY <2>6, <2>8, <2>9 DEF Follows
<1>2. CASE ~(MayAct(c) /\ c.searched # c.version)
  <2>1. core' = c /\ live' = t /\ tasks' = tasks
    BY <1>2 DEF MaybeSearch
  <2> QED BY <2>1 DEF Follows, Placed
<1> QED BY <1>1, <1>2

\* A frame that brings a new version leaves all that was given behind.
LEMMA NewVersion ==
  ASSUME Typed, Follows, NEW c \in Core, c.version = core.version + 1, c.cancel = 0
  PROVE  /\ Dispatched(c, tasks) /\ AnswersAreHeld(c, live \ Cancels(core)) /\ c.version > 0
         /\ \A at : \A step \in Step : Placed(core, at, tasks, step) => Placed(c, "frame", tasks, step)
<1>1. core \in Core /\ core.version \in Nat
  BY DEF Typed, TypeOK, Core
<1>2. Dispatched(c, tasks)
  BY <1>1 DEF Follows, Dispatched, Version, Core
<1>3. \A v \in Version : Answer(v) \notin live \ Cancels(core)
  BY DEF Follows, AnswersAreHeld, Cancels, Version
<1>4. AnswersAreHeld(c, live \ Cancels(core))
  BY <1>3 DEF AnswersAreHeld
<1>5. ASSUME NEW step \in Step, NEW at, Placed(core, at, tasks, step)
      PROVE  Placed(c, "frame", tasks, step)
  <2>1. step.version \in Int /\ step.version <= core.version
    BY <1>5 DEF Placed, Step, Version
  <2> QED BY <1>1, <2>1 DEF Placed
<1> QED BY <1>1, <1>2, <1>4, <1>5

LEMMA FrameFollows == ASSUME Typed, Follows, Frame PROVE Follows' /\ StaysPlaced
<1>0. TypeOK /\ core \in Core /\ live \in SUBSET Step /\ live \ Cancels(core) \in SUBSET Step /\ loop = "frame"
  BY DEF Typed, TypeOK, Frame, GameStart, Snapshot, Repeated, Rejected, Leaves
<1>1. ASSUME NEW c \in Core, c.version = core.version + 1, c.cancel = 0,
             MaybeSearch(c, live \ Cancels(core)), loop' = "ponder"
      PROVE  Follows' /\ StaysPlaced
  <2>1. Dispatched(c, tasks) /\ AnswersAreHeld(c, live \ Cancels(core)) /\ c.version > 0
    BY <1>1, NewVersion
  <2>2. \A step \in Step : Placed(core, loop, tasks, step) => Placed(c, "frame", tasks, step)
    BY <1>1, NewVersion
  <2>3. Follows'
    BY <1>0, <1>1, <2>1, SearchFollows
  <2>4. \A step \in Step : Placed(c, "frame", tasks, step) => Placed(core', "ponder", tasks', step)
    BY <1>0, <1>1, <2>1, SearchFollows
  <2> QED BY <1>1, <2>2, <2>3, <2>4 DEF StaysPlaced
<1>2. ASSUME NEW c \in Core, c.version = core.version + 1, c.cancel = 0,
             core' = c, live' = live \ Cancels(core), UNCHANGED tasks
      PROVE  Follows' /\ StaysPlaced
  <2>1. Dispatched(c, tasks) /\ AnswersAreHeld(c, live \ Cancels(core))
    BY <1>2, NewVersion
  <2>2. c.version \in Nat /\ core.version \in Nat
    BY <1>0 DEF Core
  <2>3. ASSUME NEW step \in Step, Placed(core, loop, tasks, step) PROVE Placed(c, loop', tasks', step)
    <3>1. step.version \in Int /\ step.version <= core.version
      BY <2>3 DEF Placed, Step, Version
    <3> QED BY <1>2, <2>2, <3>1 DEF Placed
  <2> QED BY <1>2, <2>1, <2>3 DEF Follows, StaysPlaced
<1>3. ASSUME core.version < MaxVersion
      PROVE  /\ Invalidate(core) \in Core /\ StopPonder(Invalidate(core)) \in Core
             /\ Invalidate(core).cancel = 0 /\ StopPonder(Invalidate(core)).cancel = 0
             /\ Invalidate(core).version = core.version + 1
             /\ StopPonder(Invalidate(core)).version = core.version + 1
  BY <1>0, <1>3, MovedOn DEF Invalidate, StopPonder, Core
<1>4. ASSUME NEW g \in Game, NEW turn \in {"ours", "theirs", "none"}, GameStart(g, turn)
      PROVE  Follows' /\ StaysPlaced
  <2> DEFINE b == StopPonder(Invalidate(core))
             c == Restarted(b, g, turn)
  <2>1. MaybeSearch(c, live \ Cancels(core)) /\ loop' = "ponder"
    BY <1>4 DEF GameStart
  <2>2. b \in Core /\ b.cancel = 0 /\ b.version = core.version + 1
    BY <1>3, <1>4 DEF GameStart
  <2> HIDE DEF b
  <2>a. b \in Core
    BY <2>2
  <2>3. c \in Core /\ c.version = b.version /\ c.cancel = b.cancel
    BY <2>a, StartsTyped
  <2> HIDE DEF c
  <2>4. c \in Core /\ c.version = core.version + 1 /\ c.cancel = 0
    BY <2>2, <2>3
  <2> QED BY <1>1, <2>1, <2>4
<1>5. ASSUME NEW turn \in {"ours", "theirs", "none"}, NEW drives \in BOOLEAN, Snapshot(turn, drives)
      PROVE  Follows' /\ StaysPlaced
  <2> DEFINE c == [Invalidate(core) EXCEPT !.turn = turn]
  <2>1. c \in Core /\ c.cancel = 0 /\ c.version = core.version + 1
    BY <1>3, <1>5 DEF Snapshot, Core
  <2>2. CASE drives
    <3>1. MaybeSearch(c, live \ Cancels(core)) /\ loop' = "ponder"
      BY <1>5, <2>2 DEF Snapshot
    <3> QED BY <1>1, <2>1, <3>1
  <2>3. CASE ~drives
    <3>1. core' = c /\ live' = live \ Cancels(core) /\ UNCHANGED tasks
      BY <1>5, <2>3 DEF Snapshot
    <3> QED BY <1>2, <2>1, <3>1
  <2> QED BY <2>2, <2>3
<1>6. ASSUME NEW drives \in BOOLEAN, Repeated(drives) PROVE Follows' /\ StaysPlaced
  <2>1. CASE drives
    <3>1. MaybeSearch(core, live) /\ core.version > 0 /\ loop' = "ponder"
      BY <1>6, <2>1 DEF Repeated, Typed, LoopOK
    <3>2. Follows' /\ \A at : \A step \in Step : Placed(core, at, tasks, step) /\ at # "send"
                                               => Placed(core', "ponder", tasks', step)
      BY <1>0, <3>1, SearchFollows DEF Follows
    <3> QED BY <1>0, <3>1, <3>2 DEF StaysPlaced
  <2>2. CASE ~drives
    BY <1>0, <1>6, <2>2 DEF Repeated, Follows, StaysPlaced, Placed
  <2> QED BY <2>1, <2>2
<1>7. CASE Rejected
  <2>1. core' = [Invalidate(core) EXCEPT !.turn = "none"] /\ live' = live \ Cancels(core) /\ UNCHANGED tasks
    BY <1>7 DEF Rejected
  <2>2. core' \in Core /\ core'.cancel = 0 /\ core'.version = core.version + 1
    BY <1>3, <1>7, <2>1 DEF Rejected, Core
  <2> QED BY <1>2, <2>1, <2>2
<1>8. CASE Leaves
  <2>1. core' = [StopPonder(Invalidate(core)) EXCEPT !.game = NoGame, !.turn = "none"]
        /\ live' = live \ Cancels(core) /\ UNCHANGED tasks
    BY <1>8 DEF Leaves
  <2>2. core' \in Core /\ core'.cancel = 0 /\ core'.version = core.version + 1
    BY <1>3, <1>8, <2>1 DEF Leaves, Core
  <2> QED BY <1>2, <2>1, <2>2
<1> QED BY <1>4, <1>5, <1>6, <1>7, <1>8 DEF Frame

LEMMA PonderFollows == ASSUME Typed, Follows, PonderCalls PROVE Follows' /\ StaysPlaced
<1>0. core \in Core /\ UNCHANGED tasks
  BY DEF Typed, TypeOK, PonderCalls, MaybePonder, PonderNothing, SendPonderStep
<1>1. CASE MaybePonder
  <2>1. PICK s \in Session :
          core' = [core EXCEPT !.pondered = core.version,
                     !.slot = [game |-> core.game, session |-> s, token |-> Think(core.version)]]
    BY <1>1 DEF MaybePonder
  <2>2. /\ core'.cancel = core.cancel /\ core'.version = core.version /\ core'.turn = core.turn
        /\ core'.searched = core.searched
    BY <1>0, <2>1 DEF Core
  <2>3. live' \subseteq live \cup {Think(core.version)}
    BY <1>1 DEF MaybePonder
  <2>4. \A v \in Version : Answer(v) \in live' => Answer(v) \in live
    BY <2>3 DEF Think, Answer
  <2>5. Follows'
    BY <1>0, <2>2, <2>4 DEF Follows, Dispatched, AnswersAreHeld
  <2>6. core.turn = "theirs" /\ core.pondered # core.version
    BY <1>1 DEF MaybePonder, Ponders, MayPonder
  <2>7. ASSUME NEW step \in Step, Placed(core, loop, tasks, step) PROVE Placed(core', loop', tasks', step)
    BY <2>2, <2>6, <2>7 DEF Placed
  <2> QED BY <2>5, <2>7 DEF StaysPlaced
<1>2. CASE PonderNothing
  BY <1>2 DEF PonderNothing, Follows, StaysPlaced, Placed
<1>3. CASE SendPonderStep
  <2>1. /\ core'.cancel = core.cancel /\ core'.version = core.version /\ core'.turn = core.turn
        /\ core'.searched = core.searched /\ core'.pondered = core.pondered /\ live' = live /\ loop' = "frame"
    BY <1>0, <1>3 DEF SendPonderStep, StopPonder, Core
  <2>2. Follows'
    BY <1>0, <2>1 DEF Follows, Dispatched, AnswersAreHeld
  <2> QED BY <1>0, <2>1, <2>2 DEF StaysPlaced, Placed
<1> QED BY <1>1, <1>2, <1>3 DEF PonderCalls

LEMMA TaskFollows ==
  ASSUME Typed, Follows, NEW v \in Version, SearchTask(v) \/ Overran(v)
  PROVE  Follows' /\ StaysPlaced
<1>0. core \in Core /\ tasks \in [Version -> Task]
  BY DEF Typed, TypeOK
<1>1. /\ core'.cancel = core.cancel /\ core'.version = core.version /\ core'.turn = core.turn
      /\ core'.searched = core.searched /\ core'.pondered = core.pondered
      /\ live' \subseteq live /\ loop' = loop
  <2>1. CASE HandToPonder(v)
    BY <1>0, <2>1 DEF HandToPonder, Core
  <2>2. CASE ~HandToPonder(v)
    BY <1>0, <2>2 DEF SearchTask, ChooseAfresh, Replied, SessionDied, Overran, StopPonder, Core
  <2> QED BY <2>1, <2>2
<1>2. tasks[v].pc # "none" /\ \E pc \in {"waiting", "done"} : Stage(v, pc)
  BY DEF SearchTask, HandToPonder, ChooseAfresh, Replied, SessionDied, Overran
<1>3. \A u \in Version : /\ tasks'[u].pc = "start" => tasks[u].pc = "start"
                         /\ tasks[u].pc = "none" => tasks'[u].pc = "none"
  BY <1>0, <1>2 DEF Stage, Task
<1>4. Follows'
  BY <1>1, <1>3 DEF Follows, Dispatched, AnswersAreHeld
<1>5. ASSUME NEW step \in Step, Placed(core, loop, tasks, step) PROVE Placed(core', loop', tasks', step)
  BY <1>1, <1>3, <1>5 DEF Placed, Step
<1> QED BY <1>4, <1>5 DEF StaysPlaced

LEMMA ThreadFollows ==
  ASSUME Typed, Follows, NEW s \in Session, SessionThread(s) \/ Panic(s)
  PROVE  Follows' /\ StaysPlaced
<1>0. UNCHANGED <<core, live, loop>> /\ tasks \in [Version -> Task]
  BY DEF Typed, TypeOK, SessionThread, Takes, Finishes, Returns, Dies, Panic
<1>1. \A u \in Version : /\ tasks'[u].pc = "start" => tasks[u].pc = "start"
                         /\ tasks[u].pc = "none" => tasks'[u].pc = "none"
  <2>1. CASE Takes(s)
    BY <2>1 DEF Takes
  <2>2. ASSUME NEW steps, NEW pc \in {"answered", "lost"}, Resolve(steps, pc)
        PROVE  \A u \in Version : /\ tasks'[u].pc = "start" => tasks[u].pc = "start"
                                  /\ tasks[u].pc = "none" => tasks'[u].pc = "none"
    BY <1>0, <2>2 DEF Resolve, Task
  <2>3. CASE Finishes(s) \/ Returns(s) \/ Dies(s) \/ Panic(s)
    BY <2>2, <2>3 DEF Finishes, FinishReply, Returns, Dies, Closes, Panic
  <2> QED BY <2>1, <2>3 DEF SessionThread
<1>2. Follows'
  BY <1>0, <1>1 DEF Follows, Dispatched
<1>3. ASSUME NEW step \in Step, Placed(core, loop, tasks, step) PROVE Placed(core', loop', tasks', step)
  BY <1>0, <1>1, <1>3 DEF Placed, Step
<1> QED BY <1>2, <1>3 DEF StaysPlaced

LEMMA NextFollows == ASSUME Typed, Follows, [Next]_vars PROVE Follows' /\ StaysPlaced
<1>1. CASE UNCHANGED vars
  BY <1>1 DEF vars, Follows, StaysPlaced, Placed
<1> QED BY <1>1, FrameFollows, PonderFollows, TaskFollows, ThreadFollows DEF Next

\* What a step does to what the sessions were given.
Gives(s, step) ==
  Extends(Gave[s], Gave'[s], step) /\ \A r \in Session \ {s} : Gave'[r] = Gave[r]

LEMMA SentGives ==
  ASSUME TypeOK, NEW s \in Session, NEW step \in Step, Sent(s, step)
  PROVE  Gives(s, step)
<1>1. sessions \in [Session -> Thread]
  BY DEF TypeOK
<1>2. /\ sessions'[s] = [sessions[s] EXCEPT !.queue = Append(sessions[s].queue, step)]
      /\ \A r \in Session \ {s} : sessions'[r] = sessions[r]
  BY <1>1 DEF Sent
<1>3. Extends(GivenBy(sessions[s]), GivenBy(sessions'[s]), step)
  BY <1>1, <1>2, SentExtends
<1> QED BY <1>2, <1>3 DEF Gives, Gave

LEMMA OthersShorten ==
  ASSUME TypeOK, NEW s \in Session, NEW thread, sessions' = [sessions EXCEPT ![s] = thread],
         Shortens(GivenBy(sessions[s]), GivenBy(thread))
  PROVE  \A r \in Session : Shortens(Gave[r], Gave'[r])
<1>1. \A r \in Session : sessions[r] \in Thread /\ sessions'[r] = IF r = s THEN thread ELSE sessions[r]
  BY DEF TypeOK
<1>2. \A r \in Session : Shortens(GivenBy(sessions[r]), GivenBy(sessions'[r]))
  BY <1>1, ThreadShortens
<1> QED BY <1>2 DEF Gave

LEMMA NextGives ==
  ASSUME Typed, [Next]_vars
  PROVE  \/ \A r \in Session : Shortens(Gave[r], Gave'[r])
         \/ \E s \in Session : SendPonderStep /\ Gives(s, Think(core.version)) /\ Think(core.version) \in Step
         \/ \E s \in Session, v \in Version : HandToPonder(v) /\ Gives(s, Answer(v)) /\ Answer(v) \in Step
<1>0. TypeOK /\ core \in Core /\ \A s \in Session : sessions[s] \in Thread
  BY DEF Typed, TypeOK
<1>1. ASSUME UNCHANGED sessions PROVE \A r \in Session : Shortens(Gave[r], Gave'[r])
  <2>1. Gave' = Gave
    BY <1>1 DEF Gave
  <2> QED BY <1>0, <2>1, GaveTyped, Unchanged
<1>2. CASE Frame \/ PonderNothing \/ UNCHANGED vars
  BY <1>1, <1>2 DEF Frame, GameStart, Snapshot, Repeated, Rejected, Leaves, PonderNothing, vars
<1>3. CASE MaybePonder
  <2>1. PICK s \in Session : Ensured(s)
    BY <1>3 DEF MaybePonder
  <2>2. UNCHANGED sessions \/ sessions' = [sessions EXCEPT ![s] = Parked]
    BY <2>1 DEF Ensured
  <2> QED BY <1>0, <1>1, <2>2, OthersShorten, ThreadShortens
<1>4. CASE SendPonderStep
  <2>1. CASE UNCHANGED sessions
    BY <1>1, <2>1
  <2>2. CASE core.slot # NoSlot /\ Sent(core.slot.session, Think(core.version))
    <3>1. core.slot.session \in Session
      BY <1>0, <2>2 DEF Core, Slot
    <3>2. Think(core.version) \in Step
      BY <1>0, <1>4, StepsTyped DEF SendPonderStep, Typed, LoopOK, MayPonder, Core
    <3> QED BY <1>0, <1>4, <2>2, <3>1, <3>2, SentGives
  <2> QED BY <1>4, <2>1, <2>2 DEF SendPonderStep
<1>5. ASSUME NEW v \in Version, SearchTask(v) \/ Overran(v)
      PROVE  \/ \A r \in Session : Shortens(Gave[r], Gave'[r])
             \/ \E s \in Session : HandToPonder(v) /\ Gives(s, Answer(v)) /\ Answer(v) \in Step
  <2>1. CASE HandToPonder(v)
    <3>1. core.slot.session \in Session /\ Sent(core.slot.session, Answer(v))
      BY <1>0, <2>1 DEF HandToPonder, Hands, Core, Slot
    <3> QED BY <1>0, <2>1, <3>1, StepsTyped, SentGives
  <2>2. CASE ~HandToPonder(v)
    BY <1>1, <1>5, <2>2 DEF SearchTask, ChooseAfresh, Replied, SessionDied, Overran
  <2> QED BY <2>1, <2>2
<1>6. ASSUME NEW s \in Session, SessionThread(s) \/ Panic(s)
      PROVE  \A r \in Session : Shortens(Gave[r], Gave'[r])
  <2>1. PICK thread : Becomes(s, thread) /\ Shortens(GivenBy(sessions[s]), GivenBy(thread))
    <3>0. sessions[s] \in Thread /\ (sessions[s].step # NoStep <=> sessions[s].pc = "driving")
      BY <1>0 DEF TypeOK
    <3>1. CASE Takes(s)
      BY <3>0, <3>1, ThreadShortens DEF Takes, HasNext
    <3>2. CASE Finishes(s) \/ Panic(s)
      BY <3>0, <3>2, ThreadShortens DEF Finishes, Panic
    <3>3. CASE Returns(s) \/ Dies(s)
      BY <3>0, <3>3, ThreadShortens DEF Returns, Dies, Closes
    <3> QED BY <1>6, <3>1, <3>2, <3>3 DEF SessionThread
  <2> QED BY <1>0, <2>1, OthersShorten DEF Becomes
<1> QED BY <1>2, <1>3, <1>4, <1>5, <1>6 DEF Next, PonderCalls

LEMMA SequencedNext == ASSUME Typed, Typed', Sequenced, [Next]_vars PROVE Sequenced'
<1>0. /\ Gave \in [Session -> Seq(Step)] /\ Gave' \in [Session -> Seq(Step)]
      /\ core \in Core /\ Follows' /\ StaysPlaced
  <2>1. sessions \in [Session -> Thread] /\ sessions' \in [Session -> Thread] /\ core \in Core
    BY DEF Typed, TypeOK
  <2>2. \A thread \in Thread : GivenBy(thread) \in Seq(Step)
    BY GivenTyped
  <2>3. Gave \in [Session -> Seq(Step)] /\ Gave' \in [Session -> Seq(Step)]
    BY <2>1, <2>2 DEF Gave
  <2>4. Follows' /\ StaysPlaced
    BY NextFollows DEF Sequenced
  <2> QED BY <2>1, <2>3, <2>4
<1>1. \A s \in Session : \A i \in 1..Len(Gave[s]) :
        Gave[s][i] \in Step /\ Placed(core, loop, tasks, Gave[s][i]) /\ Placed(core', loop', tasks', Gave[s][i])
  <2>1. ASSUME NEW s \in Session, NEW i \in 1..Len(Gave[s]) PROVE Gave[s][i] \in Step
    <3>1. Gave[s] \in Seq(Step)
      BY <1>0
    <3> QED BY <3>1
  <2> QED BY <1>0, <2>1 DEF Sequenced, StaysPlaced
<1>2. CASE \A r \in Session : Shortens(Gave[r], Gave'[r])
  <2>1. /\ Increasing(Gave')
        /\ \A s \in Session : \A i \in 1..Len(Gave'[s]) : \E j \in 1..Len(Gave[s]) : Gave'[s][i] = Gave[s][j]
    BY <1>0, <1>2, ShorteningKeeps DEF Sequenced
  <2>2. \A s \in Session : \A i \in 1..Len(Gave'[s]) : Placed(core', loop', tasks', Gave'[s][i])
    BY <1>1, <2>1
  <2> QED BY <1>0, <2>1, <2>2 DEF Sequenced, Increasing
<1>3. ASSUME NEW t \in Session, NEW step \in Step, Gives(t, step), step.version = core.version,
             Placed(core', loop', tasks', step),
             \A old \in Step : Placed(core, loop, tasks, old) => old.version # core.version
      PROVE  Sequenced'
  <2>1. \A s \in Session : \A i \in 1..Len(Gave[s]) : Gave[s][i].version < step.version
    <3>1. \A s \in Session : \A i \in 1..Len(Gave[s]) :
            Gave[s][i] \in Step /\ Gave[s][i].version <= core.version /\ Gave[s][i].version # core.version
      BY <1>1, <1>3 DEF Placed
    <3>2. core.version \in Int /\ \A e \in Step : e.version \in Int
      BY <1>0 DEF Core, Step, Version
    <3> QED BY <1>3, <3>1, <3>2
  <2>2. Extends(Gave[t], Gave'[t], step) /\ \A s \in Session \ {t} : Gave'[s] = Gave[s]
    BY <1>3 DEF Gives
  <2>3. /\ Increasing(Gave')
        /\ \A s \in Session : \A i \in 1..Len(Gave'[s]) :
             Gave'[s][i] = step \/ \E j \in 1..Len(Gave[s]) : Gave'[s][i] = Gave[s][j]
    <3>1. Grew(Gave, Gave', t, step)
      BY <1>0, <1>3, <2>1, <2>2 DEF Sequenced, Grew
    <3> QED BY <3>1, ExtendingKeeps
  <2>4. \A s \in Session : \A i \in 1..Len(Gave'[s]) : Placed(core', loop', tasks', Gave'[s][i])
    BY <1>1, <1>3, <2>3
  <2> QED BY <1>0, <2>3, <2>4 DEF Sequenced, Increasing
<1>4. CASE \E s \in Session : SendPonderStep /\ Gives(s, Think(core.version)) /\ Think(core.version) \in Step
  <2>1. PICK s \in Session : Gives(s, Think(core.version))
    BY <1>4
  <2>2. Think(core.version) \in Step /\ Think(core.version).version = core.version
        /\ Think(core.version).kind = "Think" /\ core.version \in Int
    BY <1>0, <1>4 DEF Think, Core
  <2>3. loop = "send" /\ loop' = "frame" /\ core.turn = "theirs" /\ core.pondered = core.version
    BY <1>4 DEF SendPonderStep, Typed, LoopOK, MayPonder
  <2>4. core'.version = core.version /\ core'.turn = core.turn /\ core'.pondered = core.pondered
    BY <1>0, <1>4 DEF SendPonderStep, StopPonder, Core
  <2>5. Placed(core', loop', tasks', Think(core.version))
    BY <2>2, <2>3, <2>4 DEF Placed
  <2>6. \A old \in Step : Placed(core, loop, tasks, old) => old.version # core.version
    BY <2>3 DEF Placed
  <2> QED BY <1>3, <2>1, <2>2, <2>5, <2>6
<1>5. CASE \E s \in Session, v \in Version : HandToPonder(v) /\ Gives(s, Answer(v)) /\ Answer(v) \in Step
  <2>1. PICK s \in Session, v \in Version : HandToPonder(v) /\ Gives(s, Answer(v))
    BY <1>5
  <2>2. Answer(v) \in Step /\ Answer(v).version = v /\ Answer(v).kind = "Answer"
    BY StepsTyped DEF Answer
  <2>3. core.version = v /\ core.turn = "ours" /\ tasks[v].pc = "start" /\ tasks'[v].pc = "waiting"
    BY <2>1 DEF HandToPonder, Hands, MayAct, Stage, Typed, TypeOK, Task
  <2>4. core.searched = core.version
    BY <2>3 DEF Sequenced, Follows, Dispatched
  <2>5. core'.version = core.version /\ core'.turn = core.turn /\ core'.searched = core.searched
    BY <1>0, <2>1 DEF HandToPonder, Core
  <2>6. Placed(core', loop', tasks', Answer(v))
    BY <1>0, <2>2, <2>3, <2>4, <2>5 DEF Placed, Version
  <2>7. \A old \in Step : Placed(core, loop, tasks, old) => old.version # core.version
    BY <2>3 DEF Placed, Step
  <2> QED BY <1>3, <2>1, <2>2, <2>3, <2>6, <2>7
<1> QED BY <1>2, <1>4, <1>5, NextGives

LEMMA SequencedAlways == Spec => [](Typed /\ Sequenced)
<1>1. Init => Sequenced
  <2> SUFFICES ASSUME Init PROVE Sequenced
    OBVIOUS
  <2>1. \A s \in Session : Gave[s] = <<>>
    <3>1. Ended \in Thread /\ Ended.step = NoStep /\ Ended.queue = <<>>
      BY EndedOK DEF ThreadOK, Ended
    <3>2. GivenBy(Ended) = <<>>
      BY <3>1, GivenTyped
    <3> QED BY <3>2 DEF Init, Gave
  <2>2. Follows
    BY VersionAssumption DEF Init, Follows, Dispatched, AnswersAreHeld, Version
  <2>3. \A s \in Session : 1..Len(Gave[s]) = {}
    BY <2>1
  <2> QED BY <2>2, <2>3 DEF Sequenced, Increasing
<1>2. Typed /\ Sequenced /\ [Next]_vars => Sequenced'
  BY SequencedNext, NextTyped
<1> QED BY <1>1, <1>2, InitTyped, NextTyped, PTL DEF Spec

(***************************************************************************)
(* Also where sessions panic: a session is given newer and newer           *)
(* positions, and no position goes to two sessions (pondered_version).     *)
(***************************************************************************)
THEOREM OneStepEach == Spec => []OneStepPerSnapshot
<1>1. Sequenced => OneStepPerSnapshot
  <2>1. \A s \in Session : Gave[s] = Given(s)
    BY DEF Gave, GivenBy, Given
  <2> QED BY <2>1 DEF Sequenced, Increasing, OneStepPerSnapshot
<1> QED BY <1>1, SequencedAlways, PTL

(***************************************************************************)
(* Also where sessions panic: an Answer that is still wanted is the last   *)
(* thing its session was given, and its position stands (MctsEngine::drive *)
(* interrupts for a step that is queued).                                  *)
(***************************************************************************)
THEOREM AnswerComesLast == Spec => []LiveAnswerIsLast
<1>1. Typed /\ Sequenced => LiveAnswerIsLast
  <2> SUFFICES ASSUME Typed, Sequenced, NEW s \in Session, NEW i \in 1..Len(Given(s)),
                      Given(s)[i].kind = "Answer", Given(s)[i] \in live
               PROVE  i = Len(Given(s)) /\ Given(s)[i].version = core.version /\ core.turn = "ours"
    BY DEF LiveAnswerIsLast
  <2>1. Gave[s] = Given(s) /\ Gave[s] \in Seq(Step) /\ core \in Core /\ live \subseteq Step
    BY GaveTyped DEF Gave, GivenBy, Given, Typed, TypeOK
  <2>2. PICK v \in Version : Given(s)[i] = Answer(v) /\ Given(s)[i].version = v
    <3>1. Given(s)[i] \in Step
      BY <2>1
    <3> QED BY <3>1 DEF Step, Answer
  <2>3. v = core.version /\ core.turn = "ours"
    BY <2>2 DEF Sequenced, Follows, AnswersAreHeld, Version
  <2>4. ASSUME i # Len(Given(s)) PROVE FALSE
    <3>1. Len(Gave[s]) \in Nat /\ Len(Gave[s]) \in 1..Len(Gave[s]) /\ i < Len(Gave[s])
      BY <2>1, <2>4
    <3>2. Gave[s][i].version < Gave[s][Len(Gave[s])].version
      BY <2>1, <3>1 DEF Sequenced, Increasing
    <3>3. Gave[s][Len(Gave[s])].version <= core.version /\ Gave[s][Len(Gave[s])] \in Step
      BY <2>1, <3>1 DEF Sequenced, Placed
    <3>4. Gave[s][Len(Gave[s])].version \in Int /\ core.version \in Int
      BY <2>1, <3>3 DEF Step, Core, Version
    <3> QED BY <2>1, <2>2, <2>3, <3>2, <3>3, <3>4
  <2> QED BY <2>2, <2>3, <2>4
<1> QED BY <1>1, SequencedAlways, PTL
=============================================================================
