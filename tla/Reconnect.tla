----------------------------- MODULE Reconnect -----------------------------
(***************************************************************************)
(* The reconnect loop: run_forever and next_backoff (client.rs).  Time is  *)
(* counted in seconds.  run_forever takes its Instant before the session   *)
(* and reads it after the sleep, so what next_backoff is given as the      *)
(* session's duration includes the sleep.                                  *)
(***************************************************************************)
EXTENDS Naturals

CONSTANTS
  ReconnectMin,   \* config.reconnect_min: the first delay
  ReconnectMax,   \* config.reconnect_max: the longest
  StableSession,  \* config.stable_session: a session this long was healthy
  Flap,           \* an accept-then-drop session lasts no longer than this
  MaxSession      \* bound: the longest session

\* What the theorems suppose of a configuration.
ConfigOK ==
  /\ ReconnectMin \in Nat /\ ReconnectMax \in Nat
  /\ 0 < ReconnectMin /\ ReconnectMin <= ReconnectMax
  /\ StableSession \in Nat /\ MaxSession \in Nat

VARIABLES
  pc,        \* "session" while run_session runs, "sleep" after it
  backoff,   \* the delay of the next sleep
  session    \* how long the last session lasted

ReconnectVars == <<pc, backoff, session>>

DelayInBounds ==
  /\ pc \in {"session", "sleep"}
  /\ backoff \in ReconnectMin..ReconnectMax
  /\ session \in 0..MaxSession

ReconnectInit ==
  /\ pc = "session"
  /\ backoff = ReconnectMin
  /\ session = 0

Doubled(current) == IF 2 * current <= ReconnectMax THEN 2 * current ELSE ReconnectMax

NextBackoff(current, lasted) ==
  IF lasted >= StableSession THEN ReconnectMin ELSE Doubled(current)

RunSession ==
  /\ pc = "session"
  /\ pc' = "sleep"
  /\ session' \in 0..MaxSession
  /\ UNCHANGED backoff

Sleep ==
  /\ pc = "sleep"
  /\ pc' = "session"
  /\ backoff' = NextBackoff(backoff, session + backoff)
  /\ UNCHANGED session

ReconnectNext == RunSession \/ Sleep

\* The endpoint answers or refuses in the end, and the sleep ends.
ReconnectSpec ==
  /\ ReconnectInit
  /\ [][ReconnectNext]_ReconnectVars
  /\ WF_ReconnectVars(ReconnectNext)

-----------------------------------------------------------------------------
(***************************************************************************)
(* "A flapping endpoint backs off to the ceiling" (the test of that name,  *)
(* and next_backoff's comment: an immediate accept-then-drop keeps         *)
(* climbing): an endpoint that does nothing but flap from some moment on   *)
(* ends up being retried at the longest delay, and stays there.            *)
(***************************************************************************)
FlappingEndsAtTheCeiling ==
  <>[](session <= Flap) => <>[](backoff = ReconnectMax)

(***************************************************************************)
(* However short the session, the sleep at the ceiling is followed by a    *)
(* retry at the shortest delay.                                            *)
(***************************************************************************)
CeilingIsNotHeld ==
  [][Sleep /\ backoff = ReconnectMax => backoff' = ReconnectMin]_ReconnectVars
=============================================================================
