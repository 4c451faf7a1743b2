---------------------------- MODULE MCSettlement ----------------------------
(* An instance of Settlement for TLC: two accounts, two books, prices       *)
(* within and beyond the validator's limits.                               *)
EXTENDS Settlement

CONSTANTS main, other, yes, no

MCAccounts == {main, other}
MCBooks == {yes, no}
MCPrices == {1, 5, 9, 11}
MCQuantities == {0, 1, 2}
================================================================================
