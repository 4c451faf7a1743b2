--------------------------------- MODULE MCOms ---------------------------------
(* Instances of Oms for TLC: two callers, two client order ids.            *)
EXTENDS Oms, TLC

CONSTANTS t1, t2, c1, c2

MCTasks == {t1, t2}
MCClients == {c1, c2}
OneTask == {t1}

ClientSymmetry == Permutations(MCClients)
CallerSymmetry == Permutations(MCTasks) \cup ClientSymmetry
================================================================================
