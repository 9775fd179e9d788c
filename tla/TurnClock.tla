----------------------------- MODULE TurnClock -----------------------------
(***************************************************************************)
(* The turn clock: TurnAllocator (clock.rs) with the calls the client      *)
(* makes to it (bot.rs): allocate when a search is dispatched, spent when  *)
(* the search returns, end_turn when a position that is not ours is        *)
(* installed, a fresh allocator at every game start.                       *)
(*                                                                         *)
(* A duration is a number of ticks of the clock.  mul_f64 rounds to one of *)
(* the two neighbouring ticks.  A search is its ceiling and how long it    *)
(* has run: it returns whenever it likes up to the client's hard limit, so *)
(* early stops, extensions and overruns need no action of their own.       *)
(*                                                                         *)
(* The server's truth is whose turn it is and movesLeft.  Frames arrive in *)
(* order; a snapshot may be rejected, and the position may be replaced or  *)
(* the game end while a search runs: both leave an old search running, and *)
(* history remembers that they happened.  The override VSBOT_MOVE_MILLIS   *)
(* switches the allocator off and is left out.                             *)
(***************************************************************************)
EXTENDS Integers

CONSTANTS
  TurnBudget,   \* config.turn_budget
  MinAction,    \* MIN_ACTION_BUDGET
  Overhead,     \* FALLBACK_SELECTION_TIMEOUT + config.fallback_grace
  Search,       \* bounds how many searches run at once
  NoSearch,
  MaxSearches   \* bound: no further interruption of a turn with this many

ASSUME BudgetAssumption ==
  /\ TurnBudget \in Nat /\ MinAction \in Nat /\ Overhead \in Nat
  /\ MaxSearches \in Nat
ASSUME SearchAssumption == NoSearch \notin Search

VARIABLES
  clock,     \* BotCore.allocator: [bank, last, ended]
  server,    \* the server's truth: [ours, left]
  known,     \* the client holds a position (then it is the server's)
  search,    \* Search -> [running, ceiling, elapsed, here]; here is history:
             \* the search was started in this turn
  current,   \* the search that is not cancelled
  answered,  \* the position the client holds has been answered
  used,      \* history: time spent thinking in this turn
  count,     \* history: searches started in this turn
  rejected,     \* history: a snapshot was rejected
  interrupted   \* history: a position or game was replaced under a search

vars == <<clock, server, known, search, current, answered, used, count,
          rejected, interrupted>>

ActionsPerTurn == 3
Turns == [ours : BOOLEAN, left : 0..ActionsPerTurn]
Theirs == [ours |-> FALSE, left |-> ActionsPerTurn]
Ours(left) == [ours |-> TRUE, left |-> left]

Idle == [running |-> FALSE, ceiling |-> 0, elapsed |-> 0, here |-> FALSE]

TypeOK ==
  /\ clock \in [bank : 0..TurnBudget, last : 0..ActionsPerTurn, ended : BOOLEAN]
  /\ server \in Turns
  /\ known \in BOOLEAN
  /\ search \in [Search -> [running : BOOLEAN, ceiling : Nat, elapsed : Nat, here : BOOLEAN]]
  /\ current \in Search \cup {NoSearch}
  /\ answered \in BOOLEAN
  /\ used \in Nat /\ count \in Nat
  /\ rejected \in BOOLEAN /\ interrupted \in BOOLEAN

Larger(m, n) == IF m >= n THEN m ELSE n
Smaller(m, n) == IF m <= n THEN m ELSE n

\* The ticks next to n / d.
Near(n, d) == {n \div d, (n + d - 1) \div d}

FreshClock == [bank |-> TurnBudget, last |-> 0, ended |-> TRUE]

Init ==
  /\ clock = FreshClock
  /\ server = Theirs
  /\ known = TRUE
  /\ search = [s \in Search |-> Idle]
  /\ current = NoSearch
  /\ answered = FALSE
  /\ used = 0 /\ count = 0
  /\ rejected = FALSE /\ interrupted = FALSE

-----------------------------------------------------------------------------
\* TurnAllocator.

\* Mutant: every action divides a full bank.
OpenedAlways(c, left) == [bank |-> TurnBudget, last |-> left, ended |-> FALSE]

\* allocate, before it divides: a turn that announced itself, or movesLeft
\* going up, opens a full bank.
Opened(c, left) ==
  [bank  |-> IF c.ended \/ left > c.last THEN TurnBudget ELSE c.bank,
   last  |-> left,
   ended |-> FALSE]

\* ACTION_WEIGHTS[index] and the weight remaining from index on.
Weight(left) == CASE left = 3 -> 5 [] left = 2 -> 3 [] OTHER -> 2
RemainingWeight(left) == CASE left = 3 -> 10 [] left = 2 -> 5 [] OTHER -> 2

Targets(bank, left) ==
  {Larger(share, MinAction) : share \in Near(bank * Weight(left), RemainingWeight(left))}

\* 150% of the target, from the bank, never below the target.
Ceilings(bank, target) ==
  {Larger(Smaller(extended, bank), target) : extended \in Near(3 * target, 2)}

\* Mutant: the bank underflows.
SpentBelowZero(c, elapsed) == [c EXCEPT !.bank = @ - elapsed]

Spent(c, elapsed) == [c EXCEPT !.bank = Larger(0, @ - elapsed)]

-----------------------------------------------------------------------------
\* The client's calls.

Running == {s \in Search : search[s].running}

\* maybe_search, with c the allocator and q the searches: s starts.
Start(c, q, s, left) ==
  /\ ~q[s].running
  /\ clock' = Opened(c, left)
  /\ current' = s
  /\ \E target \in Targets(clock'.bank, left) :
     \E ceiling \in Ceilings(clock'.bank, target) :
       search' = [q EXCEPT ![s] = [running |-> TRUE, ceiling |-> ceiling,
                                   elapsed |-> 0, here |-> TRUE]]

\* Mutant: a position that is not ours does not end the turn.
EndedNot(c) == c

Ended(c) == [c EXCEPT !.ended = TRUE]

\* A snapshot of truth arrives, n searches having been started in its turn.
\* It is installed, which ends the turn if it is not ours, and searched if it
\* is; or it is rejected and the position dropped.  Either way the search in
\* flight is cancelled.
Arrives(c, q, truth, n) ==
  /\ server' = truth
  /\ answered' = FALSE
  /\ \/ /\ truth.ours /\ truth.left > 0
        /\ known' = TRUE
        /\ \E s \in Search : Start(c, q, s, truth.left)
        /\ count' = n + 1
        /\ UNCHANGED rejected
     \/ /\ ~(truth.ours /\ truth.left > 0)
        /\ known' = TRUE
        /\ clock' = IF truth.ours THEN c ELSE Ended(c)
        /\ current' = NoSearch
        /\ search' = q
        /\ count' = n
        /\ UNCHANGED rejected
     \/ /\ known' = FALSE
        /\ clock' = c
        /\ current' = NoSearch
        /\ search' = q
        /\ count' = n
        /\ rejected' = TRUE

\* Our next turn begins: the history restarts.
NewTurn(c, truth) ==
  /\ used' = 0
  /\ Arrives(c, [s \in Search |-> [search[s] EXCEPT !.here = FALSE]], truth, 0)

\* A frame within the turn.
SameTurn(truth) ==
  /\ Arrives(clock, search, truth, count)
  /\ UNCHANGED used

TurnComes ==
  ~server.ours /\ NewTurn(clock, Ours(ActionsPerTurn)) /\ UNCHANGED interrupted

\* Our action was played: movesLeft goes down, to the 0 the server shows
\* before it rotates the turn.
ActionPlayed ==
  /\ answered /\ server.ours /\ server.left > 0
  /\ SameTurn(Ours(server.left - 1))
  /\ UNCHANGED interrupted

\* Neutrals are a turn's only action, and spend the turn.
NeutralsPlayed ==
  /\ answered /\ server = Ours(ActionsPerTurn)
  /\ SameTurn(Theirs)
  /\ UNCHANGED interrupted

TurnRotates == server = Ours(0) /\ SameTurn(Theirs) /\ UNCHANGED interrupted

\* The answer to a resync, or the opponent's next action.
Refreshed == ~known /\ SameTurn(server) /\ UNCHANGED interrupted

\* Another board at the same movesLeft: a third player's resignation.
Disturbed ==
  /\ known /\ server.ours /\ server.left > 0
  /\ count < MaxSearches
  /\ SameTurn(server)
  /\ interrupted' = TRUE

\* The game ended and the next one starts.
GameStarts ==
  /\ \E truth \in {Theirs, Ours(ActionsPerTurn)} : NewTurn(FreshClock, truth)
  /\ interrupted' = (interrupted \/ Running # {})

\* spent is called whoever the search was for.
Returns(s) ==
  /\ search[s].running
  /\ search' = [search EXCEPT ![s] = Idle]
  /\ clock' = Spent(clock, search[s].elapsed)
  /\ answered' = (answered \/ s = current)
  /\ current' = IF s = current THEN NoSearch ELSE current
  /\ UNCHANGED <<server, known, used, count, rejected, interrupted>>

\* Time passes for every search, none beyond the client's hard limit.
Tick ==
  /\ Running # {}
  /\ \A s \in Running : search[s].elapsed < search[s].ceiling + Overhead
  /\ search' = [s \in Search |->
       IF search[s].running THEN [search[s] EXCEPT !.elapsed = @ + 1] ELSE search[s]]
  /\ used' = IF \E s \in Running : search[s].here THEN used + 1 ELSE used
  /\ UNCHANGED <<clock, server, known, current, answered, count, rejected, interrupted>>

Next ==
  \/ TurnComes \/ ActionPlayed \/ NeutralsPlayed \/ TurnRotates
  \/ Refreshed \/ Disturbed \/ GameStarts
  \/ \E s \in Search : Returns(s)
  \/ Tick

Spec == Init /\ [][Next]_vars

-----------------------------------------------------------------------------
\* Every snapshot was accepted, and one search ran at a time.
Orderly == ~rejected /\ ~interrupted

(***************************************************************************)
(* Three actions, extended or not, fit the turn of an orderly game: it is  *)
(* exceeded by no more than each action's floor and the time the client    *)
(* itself adds ("three extended actions still fit the turn bound",         *)
(* allocate).                                                              *)
(***************************************************************************)
TurnBound ==
  Orderly => used <= TurnBudget + ActionsPerTurn * (MinAction + Overhead)

\* The first search of a turn divides a full bank and no other one does.
OpensAFullBank ==
  current' # current /\ current' # NoSearch =>
    clock'.bank = IF count' = 1 THEN TurnBudget ELSE clock.bank

(***************************************************************************)
(* While no snapshot is rejected, the first search of a turn divides a     *)
(* full bank and no other one does (turn_ended, and movesLeft going up     *)
(* "which only a turn boundary can do"), also when searches are replaced   *)
(* and when the turn before was spent on neutrals.                         *)
(***************************************************************************)
TurnOpensAFullBank == [][~rejected' => OpensAFullBank]_vars

(***************************************************************************)
(* A search is charged to the turn it was started in: one that outlives it *)
(* takes nothing from the bank the next turn, or game, is dividing.        *)
(***************************************************************************)
OtherTurnsAreNotCharged ==
  [][\A s \in Search : Returns(s) /\ ~search[s].here /\ count > 0
       => clock'.bank = clock.bank]_vars
=============================================================================
