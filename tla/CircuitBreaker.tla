---------------------------- MODULE CircuitBreaker ----------------------------
(***************************************************************************)
(* The gateway's circuit breaker (crates/gateway/src/retry.rs): a record   *)
(* and its methods as operators from record to record.                     *)
(*                                                                         *)
(* `age` is what `opened_at.elapsed()` says, in ticks, capped at the       *)
(* recovery timeout; it counts while the breaker is open, the only state   *)
(* that reads it.  The totals, which nothing reads, are left out.          *)
(***************************************************************************)
EXTENDS Naturals

CONSTANTS
  FailureThreshold, \* consecutive failures that open the breaker
  RecoveryTimeout,  \* ticks it stays open
  HalfOpenMax       \* requests counted while it is half open

ASSUME Limits ==
  FailureThreshold \in Nat /\ RecoveryTimeout \in Nat /\ HalfOpenMax \in Nat

Breakers == [state: {"Closed", "Open", "HalfOpen"}, failures: Nat,
             passed: 0 .. HalfOpenMax, age: 0 .. RecoveryTimeout]

NewBreaker == [state |-> "Closed", failures |-> 0, passed |-> 0, age |-> 0]

(* Mutant: one request more than the half-open state has room for.         *)
Allows_OneMore(b) ==
  \/ b.state = "Closed"
  \/ b.state = "Open" /\ b.age = RecoveryTimeout
  \/ b.state = "HalfOpen" /\ b.passed <= HalfOpenMax

(* allow_request: whether, and what it leaves behind.  The request that    *)
(* turns an open breaker half open is not counted as passed.               *)
Allows(b) ==
  \/ b.state = "Closed"
  \/ b.state = "Open" /\ b.age = RecoveryTimeout
  \/ b.state = "HalfOpen" /\ b.passed < HalfOpenMax

AfterAllow(b) ==
  CASE b.state = "Closed"   -> b
    [] b.state = "Open"     -> [b EXCEPT !.state = "HalfOpen", !.passed = 0, !.age = 0]
    [] b.state = "HalfOpen" -> [b EXCEPT !.passed = @ + 1]

(* Mutants: an open breaker is closed too; the failure count survives.     *)
AfterSuccess_AlsoOpen(b) == NewBreaker
AfterSuccess_KeepsCount(b) ==
  IF b.state = "HalfOpen" THEN [b EXCEPT !.state = "Closed", !.passed = 0] ELSE b

(* record_success: closes a half-open breaker; nothing while open.         *)
AfterSuccess(b) ==
  CASE b.state = "Closed"   -> [b EXCEPT !.failures = 0]
    [] b.state = "HalfOpen" -> NewBreaker
    [] b.state = "Open"     -> b

Trip(b) == [b EXCEPT !.state = "Open", !.age = 0]

(* Mutants: a late failure reopens an open breaker; a failed probe does    *)
(* not reopen it.                                                          *)
AfterFailure_Extends(b) ==
  CASE b.state = "Closed" ->
         LET n == [b EXCEPT !.failures = @ + 1]
         IN  IF n.failures >= FailureThreshold THEN Trip(n) ELSE n
    [] b.state \in {"Open", "HalfOpen"} -> Trip(b)
AfterFailure_ProbeIgnored(b) ==
  IF b.state = "Closed"
  THEN LET n == [b EXCEPT !.failures = @ + 1]
       IN  IF n.failures >= FailureThreshold THEN Trip(n) ELSE n
  ELSE b

(* record_failure: counts while closed and opens at the threshold; opens a *)
(* half-open breaker again; nothing while open.                            *)
AfterFailure(b) ==
  CASE b.state = "Closed" ->
         LET n == [b EXCEPT !.failures = @ + 1]
         IN  IF n.failures >= FailureThreshold THEN Trip(n) ELSE n
    [] b.state = "HalfOpen" -> Trip(b)
    [] b.state = "Open"     -> b

(* Time passes for an open breaker.                                        *)
Aged(b) ==
  IF b.state = "Open" /\ b.age < RecoveryTimeout THEN [b EXCEPT !.age = @ + 1] ELSE b
================================================================================
