---------------------------- MODULE MCTimerQueue ----------------------------
(* TimerQueue for TLC: one repeating timer and two one-shot ones.          *)
EXTENDS TimerQueue

CONSTANTS every, once1, once2
=============================================================================
