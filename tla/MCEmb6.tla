------------------------------- MODULE MCEmb6 -------------------------------
(* A queue of three events, one application callback and one interrupt.     *)
EXTENDS Emb6

CONSTANTS ri, rs, rp, rf, sc, ps

MCEventType == {ri, rs, rp, rf, sc}
MCData == {ps}
MCIsrEvent == {<<rf, NULL>>}
=============================================================================
