----------------------------- MODULE MCScanLoop -----------------------------
(* Values of ScanLoop's constants for TLC.                                 *)
EXTENDS ScanLoop, TLC

CONSTANTS q1, q2

MCQuestions == {q1, q2}
MCPrices    == {2, 4}
MCSlips     == {0}
MCParams    == {[maxWait |-> 2, maxDelay |-> 0]}

(* An execution that may take a scan before its first batch.               *)
MCSlowParams == {[maxWait |-> 3, maxDelay |-> 1]}
MCOnePrice   == {4}

Symmetry == Permutations(MCQuestions)

================================================================================
