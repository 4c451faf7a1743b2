------------------------- MODULE MCExecutionEngine -------------------------
(* An instance of ExecutionEngine for TLC: orders of two shares, a          *)
(* configuration in which sales always fill in time and one in which they  *)
(* may not.                                                                *)
EXTENDS ExecutionEngine, TLC

CONSTANTS q1, q2

MCQuestions == {q1, q2}
MCPrices == {0, 2}
MCSlips == {0, 1}
MCParams == { [maxWait |-> 2, maxDelay |-> 1], [maxWait |-> 2, maxDelay |-> 2] }

Symmetry == Permutations(MCQuestions)
================================================================================
