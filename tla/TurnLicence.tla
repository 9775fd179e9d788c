---------------------------- MODULE TurnLicence ----------------------------
(***************************************************************************)
(* What the client promises about acting, with the protocol left out.      *)
(* Every position the server makes authoritative is a numbered licence to  *)
(* act once, when the turn in it is ours.  Numbers are never reused.  An   *)
(* action uses the licence held at that moment, and at most once.          *)
(***************************************************************************)
EXTENDS Naturals

CONSTANT None     \* no licence held; not a number

VARIABLES
  issued,    \* the highest number given out
  licence,   \* the licence held, or None
  last,      \* the number the last action used
  actions    \* how many actions were taken

lvars == <<issued, licence, last, actions>>

LInit ==
  /\ issued = 0
  /\ licence = None
  /\ last = 0
  /\ actions = 0

\* A new authority replaces the one held: with a fresh number, or with none.
Supersede ==
  /\ issued' \in Nat /\ issued' >= issued
  /\ \/ licence' = None
     \/ licence' = issued' /\ issued' > issued
  /\ UNCHANGED <<last, actions>>

Act ==
  /\ licence # None
  /\ last < licence
  /\ last' = licence
  /\ actions' = actions + 1
  /\ UNCHANGED <<issued, licence>>

LNext == Supersede \/ Act

LSpec == LInit /\ [][LNext]_lvars
=============================================================================
