----------------------------- MODULE RetryProofs -----------------------------
(***************************************************************************)
(* Proofs about the retry executor, for any limits and any delays.         *)
(***************************************************************************)
EXTENDS RetryExecutor, SumTheorems

(* Within an operation the backoff has counted at least the retries made;  *)
(* exactly those when the operation started from a reset backoff.          *)
Counted ==
  /\ attempt \in 0 .. MaxRetries /\ tries \in Nat
  /\ pc \in {"idle", "check", "running", "sleeping"}
  /\ pc \in {"check", "sleeping"} => tries <= attempt
  /\ pc = "running" => tries <= attempt + 1
  /\ tries <= MaxRetries + 1
  /\ fresh /\ pc = "idle" => attempt = 0
  /\ fresh /\ pc \in {"check", "sleeping"} => tries = attempt
  /\ fresh /\ pc = "running" => tries = attempt + 1

(* Every step keeps the count.                                             *)
LEMMA CountedStep == Counted /\ [Next]_vars => Counted'
<1> SUFFICES ASSUME Counted, [Next]_vars PROVE Counted'
  OBVIOUS
<1> USE RetryLimits DEF Counted
<1>1. CASE Execute
  BY <1>1 DEF Execute
<1>2. CASE Check
  <2>1. CASE Allows(breaker)
    <3>1. /\ pc = "check" /\ pc' = "running" /\ tries' = OneMore(tries)
          /\ attempt' = attempt /\ fresh' = fresh
      BY <1>2, <2>1 DEF Check
    <3>2. tries' = tries + 1
      BY <3>1 DEF OneMore
    <3> QED
      BY <3>1, <3>2
  <2>2. CASE ~Allows(breaker)
    <3>1. Return("CircuitOpen") /\ tries' = tries /\ attempt' = attempt /\ pc = "check"
      BY <1>2, <2>2 DEF Check
    <3>2. pc' = "idle" /\ ~fresh'
      BY <3>1 DEF Return
    <3> QED
      BY <3>1, <3>2
  <2> QED
    BY <2>1, <2>2
<1>3. CASE Succeed
  <2>1. pc' = "idle" /\ attempt' = 0 /\ tries' = tries
    BY <1>3 DEF Succeed, Return
  <2> QED
    BY <2>1
<1>4. CASE Fail
  <2>1. CASE attempt >= MaxRetries
    <3>1. Return("Exhausted") /\ attempt' = attempt /\ tries' = tries
      BY <1>4, <2>1 DEF Fail
    <3>2. pc' = "idle" /\ ~fresh'
      BY <3>1 DEF Return
    <3> QED
      BY <3>1, <3>2
  <2>2. CASE attempt < MaxRetries
    <3>1. /\ pc = "running" /\ pc' = "sleeping" /\ tries' = tries
          /\ attempt' = attempt + 1 /\ fresh' = fresh
      BY <1>4, <2>2 DEF Fail
    <3> QED
      BY <3>1, <2>2
  <2> QED
    BY <2>1, <2>2
<1>5. CASE Wake
  BY <1>5 DEF Wake
<1>6. CASE Tick
  BY <1>6 DEF Tick
<1>7. CASE Reset
  BY <1>7 DEF Reset
<1>8. CASE UNCHANGED vars
  BY <1>8 DEF vars
<1> QED
  BY <1>1, <1>2, <1>3, <1>4, <1>5, <1>6, <1>7, <1>8 DEF Next

LEMMA CountedAlways == Spec => []Counted
<1>1. Init => Counted
  BY RetryLimits DEF Init, Counted
<1> QED
  BY <1>1, CountedStep, PTL DEF Spec

(* For any limits, an operation runs at most MaxRetries + 1 times          *)
(* (retry.rs:357-401), whatever earlier operations left behind.            *)
THEOREM FewAttempts == Spec => []AttemptsBounded
<1>1. Counted => AttemptsBounded
  BY DEF Counted, AttemptsBounded
<1> QED
  BY <1>1, CountedAlways, PTL

(* For any limits, an operation that follows a success or a reset ends as  *)
(* Exhausted only after all its retries (retry.rs:369, 375).               *)
THEOREM RetriesAfterSuccess == Spec => FreshGetsRetries
<1>1. Counted /\ [Next]_vars =>
      [fresh /\ pc = "running" /\ pc' = "idle" /\ outcome' = "Exhausted"
         => tries = MaxRetries + 1]_vars
  <2> SUFFICES ASSUME Counted, Next, fresh, pc = "running", pc' = "idle",
                      outcome' = "Exhausted"
               PROVE  tries = MaxRetries + 1
    BY DEF vars
  <2>1. CASE Succeed
    BY <2>1 DEF Succeed, Return
  <2>2. CASE Fail
    BY <2>2, RetryLimits DEF Fail, Return, Counted
  <2>3. CASE Execute \/ Check \/ Wake \/ Tick \/ Reset
    BY <2>3 DEF Execute, Check, Wake, Tick, Reset
  <2> QED
    BY <2>1, <2>2, <2>3 DEF Next
<1> QED
  BY <1>1, CountedAlways, PTL DEF Spec, FreshGetsRetries

--------------------------------------------------------------------------------
(* Types *)

(* The first n + 1 values of the doubling delay.                           *)
Doubles(g, n) ==
  g \in [0 .. n -> Nat] /\ g[0] = BaseDelay /\ \A k \in 1 .. n : g[k] = 2 * g[k - 1]

LEMMA DoublesExist == ASSUME NEW n \in Nat PROVE \E g : Doubles(g, n)
<1> DEFINE N == { m \in Nat : \E g : Doubles(g, m) }
<1>1. 0 \in N
  <2>1. Doubles([k \in 0 .. 0 |-> BaseDelay], 0)
    BY RetryLimits DEF Doubles
  <2> QED
    BY <2>1
<1>2. ASSUME NEW m \in N PROVE m + 1 \in N
  <2>1. PICK g : Doubles(g, m)
    OBVIOUS
  <2> DEFINE h == [k \in 0 .. (m + 1) |-> IF k = m + 1 THEN 2 * g[m] ELSE g[k]]
  <2>2. /\ m \in Nat /\ g \in [0 .. m -> Nat] /\ g[0] = BaseDelay
        /\ \A k \in 1 .. m : g[k] = 2 * g[k - 1]
    BY <2>1 DEF Doubles
  <2>3. h \in [0 .. (m + 1) -> Nat]
    BY <2>2
  <2>4. h[0] = BaseDelay /\ h[m + 1] = 2 * h[m] /\ \A k \in 0 .. m : h[k] = g[k]
    BY <2>2
  <2> HIDE DEF h
  <2>5. ASSUME NEW k \in 1 .. (m + 1) PROVE h[k] = 2 * h[k - 1]
    <3>1. CASE k = m + 1
      BY <2>2, <2>4, <3>1
    <3>2. CASE k \in 1 .. m
      BY <2>2, <2>4, <3>2
    <3> QED
      BY <2>2, <3>1, <3>2
  <2>6. Doubles(h, m + 1)
    BY <2>3, <2>4, <2>5 DEF Doubles
  <2> QED
    BY <2>2, <2>6
<1>3. N = Nat
  BY <1>1, <1>2, InductionOnNat
<1> QED
  BY <1>3

LEMMA DoublesAgree ==
  ASSUME NEW m \in Nat, NEW n \in Nat, NEW g, NEW h, Doubles(g, m), Doubles(h, n), m <= n
  PROVE  g[m] = h[m]
<1> DEFINE N == { k \in Nat : k <= m => g[k] = h[k] }
<1>1. 0 \in N
  BY DEF Doubles
<1>2. ASSUME NEW k \in N PROVE k + 1 \in N
  BY DEF Doubles
<1>3. N = Nat
  BY <1>1, <1>2, InductionOnNat
<1> QED
  BY <1>3

(* The doubling delay is the function its recursion says, of naturals.     *)
LEMMA DoubledIsRecursion ==
  Doubled = [n \in Nat |-> IF n = 0 THEN BaseDelay ELSE 2 * Doubled[n - 1]]
<1> DEFINE G == [n \in Nat |-> (CHOOSE g : Doubles(g, n))[n]]
<1>1. ASSUME NEW n \in Nat PROVE Doubles(CHOOSE g : Doubles(g, n), n)
  BY DoublesExist
<1>2. G[0] = BaseDelay
  BY <1>1 DEF Doubles
<1>3. ASSUME NEW n \in Nat, n # 0 PROVE G[n] = 2 * G[n - 1]
  <2> DEFINE g == CHOOSE g : Doubles(g, n)
             h == CHOOSE h : Doubles(h, n - 1)
  <2>1. n - 1 \in Nat /\ n - 1 <= n /\ n \in 1 .. n
    BY <1>3
  <2>2. Doubles(g, n) /\ Doubles(h, n - 1)
    BY <1>1, <2>1
  <2>3. G[n] = g[n] /\ G[n - 1] = h[n - 1]
    BY <2>1
  <2> HIDE DEF g, h, G
  <2>4. h[n - 1] = g[n - 1]
    BY <2>1, <2>2, DoublesAgree
  <2>5. g[n] = 2 * g[n - 1]
    BY <2>1, <2>2 DEF Doubles
  <2> QED
    BY <2>3, <2>4, <2>5
<1>4. G = [n \in Nat |-> IF n = 0 THEN BaseDelay ELSE 2 * G[n - 1]]
  <2>1. G = [n \in Nat |-> G[n]]
    OBVIOUS
  <2> HIDE DEF G
  <2>2. \A n \in Nat : G[n] = IF n = 0 THEN BaseDelay ELSE 2 * G[n - 1]
    BY <1>2, <1>3
  <2> QED
    BY <2>1, <2>2
<1> HIDE DEF G
<1> QED
  BY <1>4 DEF Doubled

LEMMA DoubledTypes == Doubled \in [Nat -> Nat]
<1> DEFINE N == { n \in Nat : Doubled[n] \in Nat }
<1>d. \A n \in Nat : Doubled[n] = IF n = 0 THEN BaseDelay ELSE 2 * Doubled[n - 1]
  BY DoubledIsRecursion
<1>1. 0 \in N
  BY <1>d, RetryLimits
<1>2. ASSUME NEW n \in N PROVE n + 1 \in N
  BY <1>d
<1>3. N = Nat
  BY <1>1, <1>2, InductionOnNat
<1> QED
  BY <1>3, DoubledIsRecursion

(* The breaker's methods keep its types.                                   *)
Gateway == INSTANCE BreakerProofs WITH
             Callers <- {"execute"}, sent <- {}, doubtful <- {}, healthy <- FALSE,
             quiet <- 0, streak <- 0, probes <- 0

LEMMA MethodsKeepTypes ==
  ASSUME NEW b \in Breakers
  PROVE  /\ AfterSuccess(b) \in Breakers /\ AfterFailure(b) \in Breakers /\ Aged(b) \in Breakers
         /\ Allows(b) => AfterAllow(b) \in Breakers
<1>1. Breakers = Gateway!Breakers
  BY DEF Breakers, Gateway!Breakers
<1>2. AfterSuccess(b) = Gateway!AfterSuccess(b)
  BY DEF AfterSuccess, Gateway!AfterSuccess, NewBreaker, Gateway!NewBreaker
<1>3. AfterFailure(b) = Gateway!AfterFailure(b)
  BY DEF AfterFailure, Gateway!AfterFailure, Trip, Gateway!Trip
<1>4. Aged(b) = Gateway!Aged(b)
  BY DEF Aged, Gateway!Aged
<1>5. Allows(b) = Gateway!Allows(b) /\ AfterAllow(b) = Gateway!AfterAllow(b)
  BY DEF Allows, Gateway!Allows, AfterAllow, Gateway!AfterAllow
<1> QED
  BY Limits, <1>1, <1>2, <1>3, <1>4, <1>5, Gateway!MethodTypes

LEMMA DelayTypes == ASSUME NEW n \in Nat PROVE NextDelay(n) \in 0 .. MaxDelay
  BY DoubledTypes, RetryLimits DEF NextDelay

(* Every step keeps the types.                                             *)
LEMMA TypesStep == TypeOK /\ [Next]_vars => TypeOK'
<1> SUFFICES ASSUME TypeOK, [Next]_vars PROVE TypeOK'
  OBVIOUS
<1> USE RetryLimits DEF TypeOK
<1>b. breaker \in Breakers
  OBVIOUS
<1>1. CASE Execute
  BY <1>1 DEF Execute
<1>2. CASE Check
  <2>1. tries' \in Nat
    BY <1>2 DEF Check, OneMore
  <2>2. breaker' \in Breakers
    BY <1>2, MethodsKeepTypes DEF Check
  <2>3. pc' \in {"running", "idle"} /\ fresh' \in BOOLEAN /\ outcome' \in {outcome, "CircuitOpen"}
    BY <1>2 DEF Check, Return
  <2>4. attempt' = attempt /\ delay' = delay
    BY <1>2 DEF Check
  <2> QED
    BY <2>1, <2>2, <2>3, <2>4
<1>3. CASE Succeed
  BY <1>3, MethodsKeepTypes DEF Succeed, Return
<1>4. CASE Fail
  <2>1. breaker' \in Breakers /\ tries' = tries
    BY <1>4, MethodsKeepTypes DEF Fail
  <2>2. CASE attempt >= MaxRetries
    <3>1. Return("Exhausted") /\ attempt' = attempt /\ delay' = delay
      BY <1>4, <2>2 DEF Fail
    <3>2. pc' = "idle" /\ outcome' = "Exhausted" /\ fresh' \in BOOLEAN
      BY <3>1 DEF Return
    <3> QED
      BY <2>1, <3>1, <3>2
  <2>3. CASE attempt < MaxRetries
    <3>1. attempt' = attempt + 1 /\ delay' = NextDelay(attempt) /\ pc' = "sleeping"
      BY <1>4, <2>3 DEF Fail
    <3>2. attempt' \in 0 .. MaxRetries /\ delay' \in 0 .. MaxDelay
      BY <2>3, <3>1, DelayTypes
    <3>3. fresh' = fresh /\ outcome' = outcome
      BY <1>4, <2>3 DEF Fail
    <3> QED
      BY <2>1, <3>1, <3>2, <3>3
  <2> QED
    BY <2>2, <2>3
<1>5. CASE Wake
  BY <1>5 DEF Wake
<1>6. CASE Tick
  BY <1>6, MethodsKeepTypes DEF Tick
<1>7. NewBreaker \in Breakers
  BY Limits DEF NewBreaker, Breakers
<1>8. CASE Reset
  BY <1>7, <1>8 DEF Reset
<1>9. CASE UNCHANGED vars
  BY <1>9 DEF vars
<1> QED
  BY <1>1, <1>2, <1>3, <1>4, <1>5, <1>6, <1>8, <1>9 DEF Next

(* The executor's state keeps its types; a delay is never longer than the  *)
(* configured one, however often the base delay was doubled (retry.rs:49). *)
THEOREM RetryTypes == Spec => []TypeOK
<1>1. Init => TypeOK
  BY Limits, RetryLimits DEF Init, TypeOK, NewBreaker, Breakers
<1> QED
  BY <1>1, TypesStep, PTL DEF Spec
================================================================================
