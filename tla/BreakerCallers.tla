---------------------------- MODULE BreakerCallers ----------------------------
(***************************************************************************)
(* Concurrent requests through one circuit breaker: RetryMiddleware keeps  *)
(* the breaker behind a mutex and offers allow_request, record_success and *)
(* record_failure as three separate calls, so a request is on its way      *)
(* while others change the breaker, and its result may arrive in a state   *)
(* other than the one that let it pass.                                    *)
(***************************************************************************)
EXTENDS CircuitBreaker

CONSTANT Callers

VARIABLES
  breaker,
  sent,      \* the callers whose request is on its way
  doubtful,  \* those of them that may still fail: sent before the service recovered
  healthy,   \* the service has recovered for good
  quiet,     \* history: ticks left until a full timeout has passed since the last trip
  streak,    \* history: failures recorded while closed since a success or the closing
  probes     \* history: requests let through in this half-open period

vars == <<breaker, sent, doubtful, healthy, quiet, streak, probes>>

Init ==
  /\ breaker = NewBreaker
  /\ sent = {} /\ doubtful = {} /\ healthy = FALSE
  /\ quiet = 0 /\ streak = 0 /\ probes = 0

(* RetryMiddleware::allow_request, granted; a refusal changes nothing.     *)
AllowRequest(c) ==
  /\ c \notin sent /\ Allows(breaker)
  /\ breaker' = AfterAllow(breaker)
  /\ sent' = sent \cup {c}
  /\ doubtful' = IF healthy THEN doubtful ELSE doubtful \cup {c}
  /\ probes' = CASE breaker.state = "Open" -> 1
                 [] breaker.state = "HalfOpen" -> probes + 1
                 [] breaker.state = "Closed" -> 0
  /\ UNCHANGED <<healthy, quiet, streak>>

Returned(c) ==
  /\ c \in sent
  /\ sent' = sent \ {c} /\ doubtful' = doubtful \ {c}
  /\ UNCHANGED healthy

RecordSuccess(c) ==
  /\ Returned(c)
  /\ breaker' = AfterSuccess(breaker)
  /\ streak' = IF breaker.state = "Open" THEN streak ELSE 0
  /\ UNCHANGED <<quiet, probes>>

RecordFailure(c) ==
  /\ Returned(c) /\ c \in doubtful
  /\ breaker' = AfterFailure(breaker)
  /\ streak' = IF breaker.state = "Closed" THEN streak + 1 ELSE streak
  /\ quiet' = IF breaker.state # "Open" /\ breaker'.state = "Open"
              THEN RecoveryTimeout ELSE quiet
  /\ UNCHANGED probes

Tick ==
  /\ breaker' = Aged(breaker)
  /\ quiet' = IF quiet > 0 THEN quiet - 1 ELSE 0
  /\ UNCHANGED <<sent, doubtful, healthy, streak, probes>>

Heal ==
  /\ ~healthy /\ healthy' = TRUE
  /\ UNCHANGED <<breaker, sent, doubtful, quiet, streak, probes>>

Next ==
  \/ \E c \in Callers : AllowRequest(c) \/ RecordSuccess(c) \/ RecordFailure(c)
  \/ Tick \/ Heal

Spec == Init /\ [][Next]_vars

(* Requests end (the transport has a timeout), time passes, and callers    *)
(* keep asking: a breaker that nobody asks never leaves Open.              *)
Fairness ==
  /\ WF_vars(Tick)
  /\ \A c \in Callers : /\ WF_vars(AllowRequest(c))
                        /\ WF_vars(RecordSuccess(c) \/ RecordFailure(c))

FairSpec == Spec /\ Fairness

--------------------------------------------------------------------------------
(* The types of the state: a breaker never counts more half-open requests  *)
(* than it has room for (Breakers), and a closed one counts none of them   *)
(* and has room for another failure.                                       *)
TypeOK ==
  /\ breaker \in Breakers
  /\ sent \subseteq Callers /\ doubtful \subseteq sent
  /\ healthy \in BOOLEAN
  /\ quiet \in 0 .. RecoveryTimeout /\ streak \in Nat /\ probes \in Nat
  /\ breaker.state = "Closed"
     => breaker.passed = 0 /\ (breaker.failures = 0 \/ breaker.failures < FailureThreshold)

(* After a trip no request goes out for a full recovery timeout, whatever  *)
(* results of earlier requests arrive meanwhile.                           *)
QuietAfterTrip ==
  [][\A c \in Callers : c \in sent' \ sent => quiet = 0]_vars

(* Late failures do not keep the breaker open for longer than one timeout  *)
(* after the trip.                                                         *)
TripEndsInTime == breaker.state = "Open" /\ quiet = 0 => Allows(breaker)

(* A closed breaker opens exactly when FailureThreshold failures in a row  *)
(* were recorded since it was closed: not later, and not because of        *)
(* failures from before it closed.                                         *)
TripsOnStreak ==
  [][breaker.state = "Closed" /\ breaker'.state = "Open"
     <=> breaker.state = "Closed" /\ streak' >= FailureThreshold /\ streak' > streak]_vars

(* While half open at most one request more than HalfOpenMax goes out: the *)
(* one that made it half open is not counted.                              *)
ProbesBounded == breaker.state = "HalfOpen" => probes <= HalfOpenMax + 1

(* Once the service has recovered, the breaker closes and stays closed.    *)
ClosesForGood == healthy ~> [](breaker.state = "Closed")
================================================================================
