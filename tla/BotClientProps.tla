-------------------------- MODULE BotClientProps ---------------------------
(***************************************************************************)
(* What BotClient is meant to guarantee against any server.                *)
(***************************************************************************)
EXTENDS BotClient

Busy(t) == tasks[t] # Free

QueuedActions == {i \in 1..Len(outbox) : outbox[i].kind = "Action"}

\* The dispatch d was made for exactly what the core holds now.
IsCurrent(d) ==
  /\ core.game = d.game
  /\ core.seat = d.seat
  /\ core.position = d.position

(***************************************************************************)
(* The version alone identifies the position: whatever was dispatched at   *)
(* the version the core is at now was dispatched for the very game, seat   *)
(* and position it holds now ("the version gate already implies the        *)
(* position is byte-identical to the searched one", action_is_legal).      *)
(* Otherwise a guard could pass for a position nobody searched.            *)
(***************************************************************************)
VersionIdentifiesPosition ==
  /\ \A t \in TaskId :
       Busy(t) /\ tasks[t].for.version = core.version => IsCurrent(tasks[t].for)
  /\ \A i \in QueuedActions :
       outbox[i].for.version = core.version => IsCurrent(outbox[i].for)

(***************************************************************************)
(* One snapshot, one action (maybe_search): no two pieces of work in       *)
(* flight, be they searches or queued actions, belong to one version, and  *)
(* none belongs to a version already answered while that one is current.   *)
(***************************************************************************)
OneActionPerVersion ==
  /\ \A t, u \in TaskId :
       Busy(t) /\ Busy(u) /\ tasks[t].for.version = tasks[u].for.version => t = u
  /\ \A i, j \in QueuedActions :
       outbox[i].for.version = outbox[j].for.version => i = j
  /\ \A t \in TaskId, i \in QueuedActions :
       Busy(t) => tasks[t].for.version # outbox[i].for.version
  /\ answered = core.version =>
       /\ \A t \in TaskId : Busy(t) => tasks[t].for.version # answered
       /\ \A i \in QueuedActions : outbox[i].for.version # answered

(***************************************************************************)
(* A new snapshot cancels the search in flight (ARCHITECTURE invariant 5): *)
(* a running search whose token is not cancelled is about the position     *)
(* the core holds.                                                         *)
(***************************************************************************)
SupersededSearchIsCancelled ==
  \A t \in TaskId :
    Busy(t) /\ ~Cancelled(t) => /\ tasks[t].for.version = core.version
                                /\ IsCurrent(tasks[t].for)

(***************************************************************************)
(* The client implements TurnLicence: position_version numbers the         *)
(* licences, and one is held while the position shows our turn in a game.  *)
(***************************************************************************)
Held(c) == IF c.game # NoGame /\ OurTurn(c) THEN c.version ELSE -1

Licence == INSTANCE TurnLicence WITH
  None    <- -1,
  issued  <- core.version,
  licence <- Held(core),
  last    <- answered,
  actions <- answers

ImplementsTurnLicence == Licence!LSpec

(***************************************************************************)
(* An action reaches the socket only in the session its search was started *)
(* in, for the game being played, in the position that was searched, with  *)
(* the turn ours and the action legal in it (the send-time guard).         *)
(***************************************************************************)
WrittenActionIsSound ==
  [][answers' # answers =>
       LET item == Head(outbox)
       IN  /\ item.fresh
           /\ IsCurrent(item.for)
           /\ MayAct(core)
           /\ item.action \in Legal[item.for.position]]_vars

(***************************************************************************)
(* An idle client is uncommitted: no game, no position, no accepted        *)
(* challenge still waiting for its game.  Idle is the only phase in which  *)
(* it accepts another ("a second accept creates a second game and          *)
(* overwrites our gameId", on_challenge_received).                         *)
(***************************************************************************)
IdleIsUncommitted ==
  core.phase = "Idle" =>
    core.game = NoGame /\ core.position = NoPosition /\ core.pending = "none"

AwaitingGame == core.phase = "InGame" /\ core.game = NoGame

(***************************************************************************)
(* The optimistic busy flag is always under a deadline, whatever lobby     *)
(* frames arrived since the accept; without one heal_pending_game could    *)
(* never undo it and the client would be out of the pool for good.         *)
(***************************************************************************)
BusyFlagHasADeadline == AwaitingGame => core.pending # "none"

(***************************************************************************)
(* "One accept the server dropped on the floor" does not "wedge the bot    *)
(* out of the pool" (heal_pending_game): a client waiting for an accepted  *)
(* game stops waiting, if only because the challenger timer heals it.      *)
(***************************************************************************)
AcceptedGameComesOrHeals == AwaitingGame ~> ~AwaitingGame

(***************************************************************************)
(* "A lobby closing never ends a game in progress" (on_lobby_closed).      *)
(***************************************************************************)
LobbyClosingKeepsTheGame ==
  [][OnLobbyClosed /\ core.game # NoGame => core'.game = core.game]_vars
=============================================================================
