---------------------------- MODULE BreakerProofs ----------------------------
(***************************************************************************)
(* Proofs about the circuit breaker under any number of concurrent callers *)
(* and for any threshold, timeout and half-open limit.                     *)
(***************************************************************************)
EXTENDS BreakerCallers, TLAPS

(* The inductive invariant: the history variables are what the breaker's   *)
(* own fields say, in the states that read those fields.                   *)
Books ==
  /\ breaker.state = "Closed" => breaker.failures = streak /\ breaker.passed = 0
  /\ breaker.state = "Closed" => streak = 0 \/ streak < FailureThreshold
  /\ breaker.state = "HalfOpen" => probes = breaker.passed + 1
  /\ breaker.state = "Open" => quiet = RecoveryTimeout - breaker.age
  /\ breaker.state # "Open" => quiet = 0

Fields ==
  /\ breaker \in Breakers
  /\ sent \subseteq Callers /\ doubtful \subseteq sent
  /\ healthy \in BOOLEAN
  /\ quiet \in 0 .. RecoveryTimeout /\ streak \in Nat /\ probes \in Nat

IInv == Fields /\ Books

(* The breaker's methods return breakers.                                  *)
LEMMA MethodTypes ==
  ASSUME NEW b \in Breakers
  PROVE  /\ AfterSuccess(b) \in Breakers /\ AfterFailure(b) \in Breakers
         /\ Aged(b) \in Breakers
         /\ Allows(b) => AfterAllow(b) \in Breakers
<1>b. /\ b = [state |-> b.state, failures |-> b.failures, passed |-> b.passed, age |-> b.age]
      /\ b.state \in {"Closed", "Open", "HalfOpen"} /\ b.failures \in Nat
      /\ b.passed \in 0 .. HalfOpenMax /\ b.age \in 0 .. RecoveryTimeout
  BY DEF Breakers
<1>z. 0 \in 0 .. HalfOpenMax /\ 0 \in 0 .. RecoveryTimeout
  BY Limits
<1>t. ASSUME NEW d \in Breakers PROVE Trip(d) \in Breakers
  <2>1. d = [state |-> d.state, failures |-> d.failures, passed |-> d.passed, age |-> d.age]
    BY DEF Breakers
  <2> DEFINE o == [d EXCEPT !.state = "Open"]
  <2>2. o = [state |-> "Open", failures |-> d.failures, passed |-> d.passed, age |-> d.age]
    BY <2>1
  <2>3. Trip(d) = [o EXCEPT !.age = 0]
    BY DEF Trip
  <2>4. Trip(d) = [state |-> "Open", failures |-> d.failures, passed |-> d.passed, age |-> 0]
    BY <2>2, <2>3
  <2> QED
    BY <2>1, <2>4, <1>z DEF Breakers
<1>1. AfterSuccess(b) \in Breakers
  BY Limits DEF Breakers, AfterSuccess, NewBreaker
<1>2. AfterFailure(b) \in Breakers
  <2> DEFINE n == [b EXCEPT !.failures = @ + 1]
  <2>1. n \in Breakers
    BY <1>b DEF Breakers
  <2>2. Trip(n) \in Breakers /\ Trip(b) \in Breakers
    BY <1>t, <2>1
  <2> HIDE DEF n
  <2>3. AfterFailure(b) \in {n, Trip(n), Trip(b), b}
    BY <1>b DEF AfterFailure, n
  <2> QED
    BY <2>1, <2>2, <2>3
<1>3. Aged(b) \in Breakers
  BY Limits DEF Breakers, Aged
<1>4. Allows(b) => AfterAllow(b) \in Breakers
  <2>1. CASE b.state = "Closed"
    BY <2>1 DEF AfterAllow
  <2>2. CASE b.state = "Open"
    <3>1. AfterAllow(b) = [b EXCEPT !.state = "HalfOpen", !.passed = 0, !.age = 0]
      BY <2>2 DEF AfterAllow
    <3>2. AfterAllow(b) = [state |-> "HalfOpen", failures |-> b.failures,
                           passed |-> 0, age |-> 0]
      BY <3>1, <1>b
    <3> QED
      BY <3>2, <1>b, <1>z DEF Breakers
  <2>3. CASE b.state = "HalfOpen"
    <3>1. AfterAllow(b) = [b EXCEPT !.passed = @ + 1]
      BY <2>3 DEF AfterAllow
    <3> QED
      BY <3>1, <2>3, <1>b, Limits DEF Breakers, Allows
  <2> QED
    BY <1>b, <2>1, <2>2, <2>3
<1> QED
  BY <1>1, <1>2, <1>3, <1>4

LEMMA BreakerInit == Init => IInv
<1> SUFFICES ASSUME Init PROVE IInv
  OBVIOUS
<1>1. 0 \in 0 .. HalfOpenMax /\ 0 \in 0 .. RecoveryTimeout
  BY Limits
<1>2. NewBreaker \in Breakers
  BY <1>1 DEF NewBreaker, Breakers
<1> QED
  BY <1>1, <1>2 DEF Init, IInv, Fields, Books, NewBreaker

(* Every step keeps the invariant.                                         *)
LEMMA BreakerStep == IInv /\ [Next]_vars => IInv'
<1> SUFFICES ASSUME IInv, [Next]_vars PROVE IInv'
  OBVIOUS
<1> USE Limits
<1>t. breaker \in Breakers /\ quiet \in 0 .. RecoveryTimeout /\ streak \in Nat /\ probes \in Nat
  BY DEF IInv, Fields
<1>1. ASSUME NEW c \in Callers, AllowRequest(c) PROVE IInv'
  <2>1. Fields'
    BY <1>1, <1>t, MethodTypes DEF AllowRequest, IInv, Fields, Breakers
  <2>2. Books'
    BY <1>1, <1>t DEF AllowRequest, IInv, Books, Allows, AfterAllow, Breakers
  <2> QED BY <2>1, <2>2 DEF IInv
<1>2. ASSUME NEW c \in Callers, RecordSuccess(c) PROVE IInv'
  <2>1. Fields'
    BY <1>2, <1>t, MethodTypes DEF RecordSuccess, Returned, IInv, Fields
  <2>2. Books'
    BY <1>2, <1>t DEF RecordSuccess, IInv, Books, AfterSuccess, NewBreaker, Breakers
  <2> QED BY <2>1, <2>2 DEF IInv
<1>3. ASSUME NEW c \in Callers, RecordFailure(c) PROVE IInv'
  <2>1. Fields'
    BY <1>3, <1>t, MethodTypes DEF RecordFailure, Returned, IInv, Fields
  <2>2. Books'
    BY <1>3, <1>t DEF RecordFailure, IInv, Books, AfterFailure, Trip, Breakers
  <2> QED BY <2>1, <2>2 DEF IInv
<1>4. ASSUME Tick PROVE IInv'
  <2>1. Fields'
    BY <1>4, <1>t, MethodTypes DEF Tick, IInv, Fields
  <2>2. Books'
    BY <1>4, <1>t DEF Tick, IInv, Books, Aged, Breakers
  <2> QED BY <2>1, <2>2 DEF IInv
<1>5. ASSUME Heal PROVE IInv'
  BY <1>5 DEF Heal, IInv, Fields, Books
<1>6. ASSUME UNCHANGED vars PROVE IInv'
  BY <1>6 DEF vars, IInv, Fields, Books
<1> QED
  BY <1>1, <1>2, <1>3, <1>4, <1>5, <1>6 DEF Next

(* For any number of callers and any limits, the history the properties    *)
(* speak of is what the breaker's fields record (retry.rs:176-255).        *)
THEOREM BreakerInvariance == Spec => []IInv
<1> QED
  BY BreakerInit, BreakerStep, PTL DEF Spec

(* The breaker's state keeps its types, and a closed breaker is below its  *)
(* threshold (retry.rs:121, 213).                                          *)
THEOREM BreakerTypes == Spec => []TypeOK
<1>1. IInv => TypeOK
  BY DEF IInv, Fields, Books, TypeOK
<1> QED
  BY <1>1, BreakerInvariance, PTL

(* After a trip no request goes out for a recovery timeout, however many   *)
(* late results arrive (retry.rs:180 and the ignored cases of 223, 253).   *)
THEOREM NoCallsAfterTrip == Spec => QuietAfterTrip
<1>1. IInv /\ [Next]_vars => [\A c \in Callers : c \in sent' \ sent => quiet = 0]_vars
  <2> SUFFICES ASSUME IInv, Next, NEW c \in Callers, c \in sent' \ sent PROVE quiet = 0
    BY DEF vars
  <2>1. PICK d \in Callers : AllowRequest(d)
    BY DEF Next, RecordSuccess, RecordFailure, Returned, Tick, Heal
  <2> QED
    BY <2>1, Limits DEF AllowRequest, Allows, IInv, Fields, Books, Breakers
<1> QED
  BY <1>1, BreakerInvariance, PTL DEF Spec, QuietAfterTrip

(* The breaker is due one recovery timeout after its trip: late failures   *)
(* do not move opened_at (retry.rs:253).                                   *)
THEOREM OpenEndsInTime == Spec => []TripEndsInTime
<1>1. IInv => TripEndsInTime
  BY Limits DEF IInv, Fields, Books, TripEndsInTime, Allows, Breakers
<1> QED
  BY <1>1, BreakerInvariance, PTL

(* A closed breaker opens on FailureThreshold failures in a row recorded   *)
(* since it closed, and not before (retry.rs:235).                         *)
THEOREM OpensOnStreak == Spec => TripsOnStreak
<1>1. IInv /\ [Next]_vars =>
      [breaker.state = "Closed" /\ breaker'.state = "Open"
       <=> breaker.state = "Closed" /\ streak' >= FailureThreshold /\ streak' > streak]_vars
  <2> SUFFICES ASSUME IInv, Next
               PROVE  breaker.state = "Closed" /\ breaker'.state = "Open"
                      <=> /\ breaker.state = "Closed"
                          /\ streak' >= FailureThreshold /\ streak' > streak
    BY DEF vars
  <2>t. breaker \in Breakers /\ streak \in Nat
    BY DEF IInv, Fields
  <2>1. CASE \E c \in Callers : AllowRequest(c)
    BY <2>1, <2>t DEF AllowRequest, Allows, AfterAllow, Breakers
  <2>2. CASE \E c \in Callers : RecordSuccess(c)
    BY <2>2, <2>t DEF RecordSuccess, AfterSuccess, Breakers, NewBreaker
  <2>3. CASE \E c \in Callers : RecordFailure(c)
    BY <2>3, <2>t, Limits DEF RecordFailure, AfterFailure, Trip, Breakers, IInv, Books
  <2>4. CASE Tick \/ Heal
    BY <2>4, <2>t DEF Tick, Heal, Aged, Breakers
  <2> QED
    BY <2>1, <2>2, <2>3, <2>4 DEF Next
<1> QED
  BY <1>1, BreakerInvariance, PTL DEF Spec, TripsOnStreak

(* At most HalfOpenMax + 1 requests go out while half open (retry.rs:188, 197). *)
THEOREM FewProbes == Spec => []ProbesBounded
<1>1. IInv => ProbesBounded
  BY Limits DEF IInv, Fields, Books, ProbesBounded, Breakers
<1> QED
  BY <1>1, BreakerInvariance, PTL
================================================================================
