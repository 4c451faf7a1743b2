---------------------------- MODULE RetryExecutor ----------------------------
(***************************************************************************)
(* RetryExecutor of crates/gateway/src/retry.rs: one operation after the   *)
(* other through a backoff and a circuit breaker.  `execute` borrows the   *)
(* executor for as long as it runs, so there is one operation at a time;   *)
(* the backoff's attempt counter and the breaker live on between them.     *)
(***************************************************************************)
EXTENDS CircuitBreaker

CONSTANTS
  MaxRetries,
  BaseDelay, MaxDelay  \* of the backoff, in ticks; its multiplier is 2

ASSUME RetryLimits ==
  MaxRetries \in Nat /\ BaseDelay \in Nat /\ MaxDelay \in Nat

VARIABLES
  pc,       \* "idle", "check" (top of the loop), "running", "sleeping"
  breaker,
  attempt,  \* Backoff.attempt
  delay,    \* ticks the sleep still takes
  tries,    \* history: runs of the operation in this execute, as far as OneMore counts
  fresh,    \* history: the last execute succeeded, or none was made since a reset
  outcome   \* history: what the last execute returned

vars == <<pc, breaker, attempt, delay, tries, fresh, outcome>>

(* The base delay, doubled once per attempt before.                        *)
Doubled[n \in Nat] == IF n = 0 THEN BaseDelay ELSE 2 * Doubled[n - 1]

(* Backoff::next_delay_ms.                                                 *)
NextDelay(n) == IF Doubled[n] < MaxDelay THEN Doubled[n] ELSE MaxDelay

Init ==
  /\ pc = "idle" /\ breaker = NewBreaker /\ attempt = 0 /\ delay = 0
  /\ tries = 0 /\ fresh = TRUE /\ outcome = "Ok"

Execute ==
  /\ pc = "idle" /\ pc' = "check"
  /\ tries' = 0
  /\ UNCHANGED <<breaker, attempt, delay, fresh, outcome>>

Return(result) ==
  /\ pc' = "idle" /\ outcome' = result
  /\ fresh' = (result = "Ok")

(* Runs are counted up to one more than there should ever be.              *)
OneMore(n) == IF n <= MaxRetries + 1 THEN n + 1 ELSE n

(* The top of the loop: every attempt asks the breaker.                    *)
Check ==
  /\ pc = "check"
  /\ \/ /\ Allows(breaker)
        /\ breaker' = AfterAllow(breaker)
        /\ pc' = "running" /\ tries' = OneMore(tries)
        /\ UNCHANGED <<fresh, outcome>>
     \/ /\ ~Allows(breaker)
        /\ Return("CircuitOpen")
        /\ UNCHANGED <<breaker, tries>>
  /\ UNCHANGED <<attempt, delay>>

(* Mutant: the backoff is not reset by a success.                          *)
Succeed_KeepsBackoff ==
  /\ pc = "running"
  /\ breaker' = AfterSuccess(breaker)
  /\ Return("Ok")
  /\ UNCHANGED <<attempt, delay, tries>>

Succeed ==
  /\ pc = "running"
  /\ breaker' = AfterSuccess(breaker)
  /\ attempt' = 0
  /\ Return("Ok")
  /\ UNCHANGED <<delay, tries>>

(* Mutants: one retry too many; a retry that is not counted.               *)
Fail_OneMore ==
  /\ pc = "running"
  /\ breaker' = AfterFailure(breaker)
  /\ \/ /\ attempt > MaxRetries
        /\ Return("Exhausted")
        /\ UNCHANGED <<attempt, delay>>
     \/ /\ attempt <= MaxRetries
        /\ attempt' = attempt + 1 /\ delay' = NextDelay(attempt)
        /\ pc' = "sleeping"
        /\ UNCHANGED <<fresh, outcome>>
  /\ UNCHANGED tries
Fail_Uncounted ==
  /\ pc = "running"
  /\ breaker' = AfterFailure(breaker)
  /\ delay' = NextDelay(attempt) /\ pc' = "sleeping"
  /\ UNCHANGED <<attempt, tries, fresh, outcome>>

(* A failure is recorded, then either the retries are used up, which       *)
(* leaves the backoff as it is, or the next delay is taken.                *)
Fail ==
  /\ pc = "running"
  /\ breaker' = AfterFailure(breaker)
  /\ \/ /\ attempt >= MaxRetries
        /\ Return("Exhausted")
        /\ UNCHANGED <<attempt, delay>>
     \/ /\ attempt < MaxRetries
        /\ attempt' = attempt + 1 /\ delay' = NextDelay(attempt)
        /\ pc' = "sleeping"
        /\ UNCHANGED <<fresh, outcome>>
  /\ UNCHANGED tries

(* The sleep is over, at the earliest after the delay.                     *)
Wake ==
  /\ pc = "sleeping" /\ delay = 0
  /\ pc' = "check"
  /\ UNCHANGED <<breaker, attempt, delay, tries, fresh, outcome>>

Tick ==
  /\ breaker' = Aged(breaker)
  /\ delay' = IF delay > 0 THEN delay - 1 ELSE 0
  /\ UNCHANGED <<pc, attempt, tries, fresh, outcome>>

(* RetryExecutor::reset, between operations.                               *)
Reset ==
  /\ pc = "idle"
  /\ breaker' = NewBreaker /\ attempt' = 0 /\ fresh' = TRUE
  /\ UNCHANGED <<pc, delay, tries, outcome>>

Next == Execute \/ Check \/ Succeed \/ Fail \/ Wake \/ Tick \/ Reset

Spec == Init /\ [][Next]_vars

(* Time passes, the operation ends, the executor is polled.  Nothing is   *)
(* assumed of callers or of the operation's results.                       *)
Fairness == WF_vars(Tick) /\ WF_vars(Check) /\ WF_vars(Succeed \/ Fail) /\ WF_vars(Wake)

FairSpec == Spec /\ Fairness

--------------------------------------------------------------------------------
(* The types of the state.                                                 *)
TypeOK ==
  /\ pc \in {"idle", "check", "running", "sleeping"}
  /\ breaker \in Breakers
  /\ attempt \in 0 .. MaxRetries /\ delay \in 0 .. MaxDelay /\ tries \in Nat
  /\ fresh \in BOOLEAN /\ outcome \in {"Ok", "Exhausted", "CircuitOpen"}

(* An operation is run at most once and then retried MaxRetries times,     *)
(* whatever state earlier operations left the backoff and the breaker in.  *)
AttemptsBounded == tries <= MaxRetries + 1

(* An operation that starts after a success has all its retries: it ends   *)
(* as Exhausted only after MaxRetries + 1 runs.                            *)
FreshGetsRetries ==
  [][fresh /\ pc = "running" /\ pc' = "idle" /\ outcome' = "Exhausted"
     => tries = MaxRetries + 1]_vars

(* execute returns.                                                        *)
ExecuteReturns == pc # "idle" ~> pc = "idle"
================================================================================
