----------------------------- MODULE MCTimers ------------------------------
(* One callback timer and one event timer, a 3-bit tick counter and a queue *)
(* of two events that one interrupt source shares.                          *)
EXTENDS Timers
=============================================================================
