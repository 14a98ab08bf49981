------------------------------ MODULE MCRtTmr -------------------------------
(* Three timers; MaxTick keeps the counters below 2^W, or lets them wrap.   *)
EXTENDS RtTmr
=============================================================================
