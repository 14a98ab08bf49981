----------------------------- MODULE MCEvProc ------------------------------
(* Small instance of EvProc: one obligatory type and the status-change type, *)
(* a queue of three entries, two callback slots per type and activations    *)
(* that nest two deep.                                                      *)
EXTENDS EvProc

CONSTANTS ob, sc, d1

MCEventType == {ob, sc}
MCOblig == {ob}
MCData == {d1}
MCIsrEvent == {<<ob, NULL>>, <<sc, d1>>}
=============================================================================
