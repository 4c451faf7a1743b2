---------------------------- MODULE RateLimiter ----------------------------
(***************************************************************************)
(* The gateway's rate limiter: a token bucket for the second and one for   *)
(* the minute, each two atomics and no lock, asked one after the other by  *)
(* every thread that sends an order.                                       *)
(*                                                                         *)
(* A step is one access to an atomic or to the clock.  The accesses are    *)
(* taken in program order although the code allows more (Relaxed).         *)
(***************************************************************************)
EXTENDS Integers, Sequences

CONSTANTS
  Threads,
  Rate, Window,      \* of each bucket, positive, in the order they are asked
  MaxTime            \* bound: the clock stops here

VARIABLES
  clock,
  tokens, lastRefill,      \* of each bucket
  pc,                      \* what each thread does next
  call,                    \* its local variables
  granted                  \* history: tokens each bucket has handed out

vars == <<clock, tokens, lastRefill, pc, call, granted>>

Buckets == DOMAIN Rate

(* Times are read before the bucket is; wait is the longest asked for.     *)
NoCall == [bucket |-> 1, time |-> 0, last |-> 0, current |-> 0, wait |-> 0]

Init ==
  /\ clock = 0
  /\ tokens = Rate
  /\ lastRefill = [b \in Buckets |-> 0]
  /\ pc = [t \in Threads |-> "idle"]
  /\ call = [t \in Threads |-> NoCall]
  /\ granted = [b \in Buckets |-> 0]

Minimum(x, y) == IF x <= y THEN x ELSE y
Maximum(x, y) == IF x >= y THEN x ELSE y

At(t, label) == pc[t] = label
Goto(t, label) == pc' = [pc EXCEPT ![t] = label]

(* What has been earned since the last refill the thread saw.              *)
NewTokens(t) ==
  LET b == call[t].bucket
  IN  (Maximum(call[t].time - call[t].last, 0) * Rate[b]) \div Window[b]

--------------------------------------------------------------------------------
(* acquire *)

ReadClock(t) ==
  /\ At(t, "idle") \/ At(t, "ask")
  /\ call' = [call EXCEPT ![t].time = clock]
  /\ Goto(t, "last")
  /\ UNCHANGED <<clock, tokens, lastRefill, granted>>

LoadLast(t) ==
  /\ At(t, "last")
  /\ call' = [call EXCEPT ![t].last = lastRefill[call[t].bucket]]
  /\ Goto(t, "refill")
  /\ UNCHANGED <<clock, tokens, lastRefill, granted>>

LoadForRefill(t) ==
  /\ At(t, "refill")
  /\ IF NewTokens(t) > 0
       THEN /\ call' = [call EXCEPT ![t].current = tokens[call[t].bucket]]
            /\ Goto(t, "storeTokens")
       ELSE /\ Goto(t, "load")
            /\ UNCHANGED call
  /\ UNCHANGED <<clock, tokens, lastRefill, granted>>

StoreTokens(t) ==
  LET b == call[t].bucket
  IN  /\ At(t, "storeTokens")
      /\ tokens' = [tokens EXCEPT ![b] = Minimum(call[t].current + NewTokens(t), Rate[b])]
      /\ Goto(t, "storeLast")
      /\ UNCHANGED <<clock, lastRefill, call, granted>>

StoreLast(t) ==
  /\ At(t, "storeLast")
  /\ lastRefill' = [lastRefill EXCEPT ![call[t].bucket] = call[t].time]
  /\ Goto(t, "load")
  /\ UNCHANGED <<clock, tokens, call, granted>>

LoadForTake(t) ==
  /\ At(t, "load")
  /\ call' = [call EXCEPT ![t].current = tokens[call[t].bucket]]
  /\ Goto(t, "take")
  /\ UNCHANGED <<clock, tokens, lastRefill, granted>>

(* The other bucket is asked whatever this one said.                       *)
Answered(t, wait) ==
  LET asked == [call[t] EXCEPT !.bucket = @ + 1, !.wait = Maximum(@, wait)]
  IN  IF asked.bucket \in Buckets
        THEN call' = [call EXCEPT ![t] = asked] /\ Goto(t, "ask")
        ELSE call' = [call EXCEPT ![t] = [NoCall EXCEPT !.wait = asked.wait, !.time = clock]] /\ Goto(t, "sleep")

(* compare_exchange, in a loop.                                            *)
Take(t) ==
  LET b == call[t].bucket
  IN  /\ At(t, "take") /\ call[t].current > 0
      /\ IF tokens[b] = call[t].current
           THEN /\ tokens' = [tokens EXCEPT ![b] = @ - 1]
                /\ granted' = [granted EXCEPT ![b] = @ + 1]
                /\ Answered(t, 0)
           ELSE /\ Goto(t, "load")
                /\ UNCHANGED <<tokens, call, granted>>
      /\ UNCHANGED <<clock, lastRefill>>

Refuse(t) ==
  LET b == call[t].bucket
  IN  /\ At(t, "take") /\ call[t].current = 0
      /\ Answered(t, (Window[b] + Rate[b] - 1) \div Rate[b])
      /\ UNCHANGED <<clock, tokens, lastRefill, granted>>

(* The gateway sleeps for as long as it was told and then sends the order. *)
Send(t) ==
  /\ At(t, "sleep") /\ clock >= call[t].time + call[t].wait
  /\ call' = [call EXCEPT ![t] = NoCall]
  /\ Goto(t, "idle")
  /\ UNCHANGED <<clock, tokens, lastRefill, granted>>

Tick ==
  /\ clock < MaxTime /\ clock' = clock + 1
  /\ UNCHANGED <<tokens, lastRefill, pc, call, granted>>

Next ==
  \/ Tick
  \/ \E t \in Threads :
       \/ ReadClock(t) \/ LoadLast(t) \/ LoadForRefill(t) \/ StoreTokens(t) \/ StoreLast(t)
       \/ LoadForTake(t) \/ Take(t) \/ Refuse(t) \/ Send(t)

Spec == Init /\ [][Next]_vars

--------------------------------------------------------------------------------
(* Properties *)

(* A bucket never hands out more than it held at first and has earned      *)
(* since: the limit holds for several threads as for one.                  *)
GrantsWithinRate ==
  \A b \in Buckets : granted[b] <= Rate[b] + (clock * Rate[b]) \div Window[b]

================================================================================
