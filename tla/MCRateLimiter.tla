--------------------------- MODULE MCRateLimiter ---------------------------
(* Values of RateLimiter's constants for TLC: two requests a tick and      *)
(* three every two ticks.                                                  *)
EXTENDS RateLimiter, TLC

CONSTANTS t1, t2

MCThreads == {t1, t2}
MCRate    == <<2, 3>>
MCWindow  == <<1, 2>>

Symmetry == Permutations(MCThreads)

================================================================================
