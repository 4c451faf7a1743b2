------------------------------ MODULE MCBreaker ------------------------------
(* An instance of BreakerCallers for TLC: three concurrent requests.       *)
EXTENDS BreakerCallers

CONSTANTS a, b, c

MCCallers == {a, b, c}
================================================================================
