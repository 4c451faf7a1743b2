-------------------------- MODULE RateLimiterProofs --------------------------
(***************************************************************************)
(* The limit that several threads break together holds for any number of   *)
(* threads, any rates and any windows as long as no two of them are in the *)
(* middle of one bucket's acquire: all that is missing is what keeps them  *)
(* apart.                                                                  *)
(***************************************************************************)
EXTENDS RateLimiter, TLAPS

Parameters ==
  /\ Rate \in Seq(Nat \ {0}) /\ Rate # << >>
  /\ Window \in [Buckets -> Nat \ {0}]

(* The thread has read the clock for its bucket and is not done with it.   *)
Inside(t) == pc[t] \in {"last", "refill", "storeTokens", "storeLast", "load", "take"}

(* No two threads are in one bucket's acquire.                             *)
Alone ==
  \A s, t \in Threads : Inside(s) /\ Inside(t) /\ call[s].bucket = call[t].bucket => s = t

(* What a bucket has earned by then.                                       *)
Earned(b, time) == (time * Rate[b]) \div Window[b]

Level(b) == granted[b] + tokens[b]

Calls == [bucket : Buckets, time : Nat, last : Nat, current : Nat, wait : Nat]

Labels == {"idle", "ask", "last", "refill", "storeTokens", "storeLast", "load", "take", "sleep"}

Types ==
  /\ clock \in Nat
  /\ tokens \in [Buckets -> Nat] /\ lastRefill \in [Buckets -> Nat]
  /\ pc \in [Threads -> Labels] /\ call \in [Threads -> Calls]
  /\ granted \in [Buckets -> Nat]

Refilling(b) == { t \in Threads : pc[t] = "storeLast" /\ call[t].bucket = b }

(* A thread in a bucket has read the clock no earlier than the bucket was  *)
(* refilled; what it has read there is still so; and the bucket has no     *)
(* more than it earned until the refill whose time is about to be stored.  *)
Honest(t) ==
  LET b == call[t].bucket
  IN  /\ call[t].time <= clock
      /\ pc[t] \in {"last", "refill", "storeTokens", "storeLast"} => lastRefill[b] <= call[t].time
      /\ pc[t] \in {"refill", "storeTokens"} => call[t].last = lastRefill[b]
      /\ pc[t] = "storeTokens" => call[t].current = tokens[b]
      /\ pc[t] = "storeLast" => Level(b) <= Rate[b] + Earned(b, call[t].time)

(* Between refills a bucket has no more than it earned until the last.     *)
Funded(b) ==
  /\ lastRefill[b] <= clock
  /\ Refilling(b) = {} => Level(b) <= Rate[b] + Earned(b, lastRefill[b])

Inv ==
  /\ Types
  /\ \A t \in Threads : Honest(t)
  /\ \A b \in Buckets : Funded(b)

--------------------------------------------------------------------------------
(* Rounding down *)

LEMMA QuotientIs ==
  ASSUME NEW a \in Nat, NEW w \in Nat \ {0}
  PROVE  /\ a \div w \in Nat
         /\ (a \div w) * w <= a
         /\ a < (a \div w) * w + w
  OBVIOUS

(* What is earned in two parts is not more than what is earned in one.     *)
LEMMA QuotientsAdd ==
  ASSUME NEW a \in Nat, NEW c \in Nat, NEW w \in Nat \ {0}
  PROVE  (a \div w) + (c \div w) <= (a + c) \div w
<1> DEFINE x == a \div w
           y == c \div w
           z == (a + c) \div w
<1>1. x \in Nat /\ y \in Nat /\ z \in Nat /\ x * w <= a /\ y * w <= c /\ a + c < z * w + w
  BY QuotientIs, a + c \in Nat
<1> HIDE DEF x, y, z
<1>2. ASSUME x + y > z PROVE FALSE
  <2>1. x + y >= z + 1
    BY <1>1, <1>2
  <2>2. (x + y) * w >= (z + 1) * w
    BY <1>1, <2>1
  <2>3. (x + y) * w = x * w + y * w /\ (z + 1) * w = z * w + w
    BY <1>1
  <2> QED
    BY <1>1, <2>2, <2>3
<1>3. x + y <= z
  BY <1>1, <1>2
<1> QED
  BY <1>3 DEF x, y, z

LEMMA LaterIsMore ==
  ASSUME NEW a \in Nat, NEW c \in Nat, NEW w \in Nat \ {0}, a <= c
  PROVE  a \div w <= c \div w
<1>1. (a \div w) + ((c - a) \div w) <= (a + (c - a)) \div w
  BY QuotientsAdd, c - a \in Nat
<1>2. a + (c - a) = c /\ (c - a) \div w \in Nat /\ a \div w \in Nat /\ c \div w \in Nat
  BY QuotientIs, c - a \in Nat
<1> QED
  BY <1>1, <1>2

LEMMA EarnedIs ==
  ASSUME Parameters, NEW b \in Buckets, NEW m \in Nat, NEW n \in Nat, m <= n
  PROVE  /\ Rate[b] \in Nat \ {0} /\ Window[b] \in Nat \ {0}
         /\ Earned(b, m) \in Nat /\ Earned(b, n) \in Nat
         /\ ((n - m) * Rate[b]) \div Window[b] \in Nat
         /\ Earned(b, m) <= Earned(b, n)
         /\ Earned(b, m) + ((n - m) * Rate[b]) \div Window[b] <= Earned(b, n)
<1>1. Rate[b] \in Nat \ {0} /\ Window[b] \in Nat \ {0}
  BY DEF Parameters, Buckets
<1> DEFINE r == Rate[b]
           w == Window[b]
<1>2. r \in Nat \ {0} /\ w \in Nat \ {0}
  BY <1>1
<1> HIDE DEF r, w
<1>3. m * r \in Nat /\ n * r \in Nat /\ (n - m) * r \in Nat /\ m * r + (n - m) * r = n * r
  <2>1. n - m \in Nat /\ m + (n - m) = n
    OBVIOUS
  <2>2. \A d \in Nat : m * r + d * r = (m + d) * r /\ d * r \in Nat
    BY <1>2
  <2>3. m * r \in Nat /\ n * r \in Nat
    BY <1>2
  <2> QED
    BY <2>1, <2>2, <2>3
<1>4. /\ (m * r) \div w \in Nat /\ (n * r) \div w \in Nat /\ ((n - m) * r) \div w \in Nat
      /\ (m * r) \div w + ((n - m) * r) \div w <= (n * r) \div w
  BY <1>2, <1>3, QuotientIs, QuotientsAdd
<1>5. (m * r) \div w <= (n * r) \div w
  BY <1>4
<1> QED
  BY <1>1, <1>4, <1>5 DEF r, w, Earned

--------------------------------------------------------------------------------
(* The steps *)

LEMMA InitHolds == Parameters /\ Init => Inv
<1> SUFFICES ASSUME Parameters, Init PROVE Inv
  OBVIOUS
<1>1. 1 \in Buckets /\ \A b \in Buckets : Rate[b] \in Nat \ {0}
  BY DEF Parameters, Buckets
<1>2. tokens \in [Buckets -> Nat] /\ lastRefill \in [Buckets -> Nat]
  BY <1>1 DEF Init, Parameters, Buckets
<1>3. NoCall \in Calls
  BY <1>1 DEF NoCall, Calls
<1>4. Types
  BY <1>2, <1>3 DEF Init, Types, Labels
<1>5. ASSUME NEW t \in Threads PROVE Honest(t)
  <2>1. call[t] = NoCall /\ pc[t] = "idle" /\ clock = 0
    BY DEF Init
  <2> QED
    BY <2>1 DEF Honest, NoCall
<1>6. ASSUME NEW b \in Buckets PROVE Funded(b)
  <2>1. tokens[b] = Rate[b] /\ granted[b] = 0 /\ lastRefill[b] = 0 /\ clock = 0
    BY DEF Init
  <2>2. Rate[b] \in Nat /\ Earned(b, 0) \in Nat
    BY EarnedIs
  <2> QED
    BY <2>1, <2>2 DEF Funded, Level
<1> QED
  BY <1>4, <1>5, <1>6 DEF Inv

(* A thread that only reads disturbs nobody.                               *)
LEMMA ReadingStep ==
  ASSUME Inv, NEW t \in Threads, NEW c \in Calls, NEW label \in Labels,
         UNCHANGED <<clock, tokens, lastRefill, granted>>,
         call' = [call EXCEPT ![t] = c], pc' = [pc EXCEPT ![t] = label],
         pc[t] # "storeLast", Honest(t)'
  PROVE  Inv'
<1>1. Types'
  BY DEF Inv, Types
<1>2. ASSUME NEW s \in Threads PROVE Honest(s)'
  <2>1. CASE s # t
    <3>1. call'[s] = call[s] /\ pc'[s] = pc[s]
      BY <2>1 DEF Inv, Types
    <3> QED
      BY <3>1 DEF Inv, Honest, Level, Earned
  <2> QED
    BY <2>1
<1>3. ASSUME NEW b \in Buckets PROVE Funded(b)'
  <2>1. Refilling(b) \subseteq Refilling(b)'
    BY DEF Refilling, Inv, Types
  <2> QED
    BY <2>1 DEF Inv, Funded, Level, Earned
<1> QED
  BY <1>1, <1>2, <1>3 DEF Inv

LEMMA ReadClockHolds == ASSUME Inv, NEW t \in Threads, ReadClock(t) PROVE Inv'
<1> DEFINE c == [call[t] EXCEPT !.time = clock]
<1>1. c \in Calls /\ call[t] \in Calls /\ call[t].bucket \in Buckets
  BY DEF Inv, Types, Calls
<1>2. call' = [call EXCEPT ![t] = c] /\ pc' = [pc EXCEPT ![t] = "last"]
  BY <1>1 DEF ReadClock, Goto, Calls
<1>3. Honest(t)'
  BY <1>1, <1>2 DEF ReadClock, Inv, Types, Honest, Funded, Calls
<1> QED
  BY <1>1, <1>2, <1>3, ReadingStep DEF ReadClock, At, Labels

LEMMA LoadLastHolds == ASSUME Inv, NEW t \in Threads, LoadLast(t) PROVE Inv'
<1> DEFINE c == [call[t] EXCEPT !.last = lastRefill[call[t].bucket]]
<1>1. c \in Calls /\ call[t] \in Calls /\ call[t].bucket \in Buckets
  BY DEF Inv, Types, Calls
<1>2. call' = [call EXCEPT ![t] = c] /\ pc' = [pc EXCEPT ![t] = "refill"]
  BY <1>1 DEF LoadLast, Goto, Calls
<1>3. Honest(t)'
  BY <1>1, <1>2 DEF LoadLast, At, Inv, Types, Honest, Calls
<1> QED
  BY <1>1, <1>2, <1>3, ReadingStep DEF LoadLast, At, Labels

LEMMA LoadForRefillHolds == ASSUME Inv, NEW t \in Threads, LoadForRefill(t) PROVE Inv'
<1> DEFINE c == [call[t] EXCEPT !.current = tokens[call[t].bucket]]
<1>1. c \in Calls /\ call[t] \in Calls /\ call[t].bucket \in Buckets
  BY DEF Inv, Types, Calls
<1>2. CASE NewTokens(t) > 0
  <2>1. call' = [call EXCEPT ![t] = c] /\ pc' = [pc EXCEPT ![t] = "storeTokens"]
    BY <1>1, <1>2 DEF LoadForRefill, Goto, Calls
  <2>2. Honest(t)'
    BY <1>1, <2>1 DEF LoadForRefill, At, Inv, Types, Honest, Calls
  <2> QED
    BY <1>1, <2>1, <2>2, ReadingStep DEF LoadForRefill, At, Labels
<1>3. CASE ~ (NewTokens(t) > 0)
  <2>1. call' = [call EXCEPT ![t] = call[t]] /\ pc' = [pc EXCEPT ![t] = "load"]
    BY <1>3 DEF LoadForRefill, Goto, Inv, Types
  <2>2. Honest(t)'
    BY <1>1, <2>1 DEF LoadForRefill, At, Inv, Types, Honest
  <2> QED
    BY <1>1, <2>1, <2>2, ReadingStep DEF LoadForRefill, At, Labels
<1> QED
  BY <1>2, <1>3

LEMMA LoadForTakeHolds == ASSUME Inv, NEW t \in Threads, LoadForTake(t) PROVE Inv'
<1> DEFINE c == [call[t] EXCEPT !.current = tokens[call[t].bucket]]
<1>1. c \in Calls /\ call[t] \in Calls /\ call[t].bucket \in Buckets
  BY DEF Inv, Types, Calls
<1>2. call' = [call EXCEPT ![t] = c] /\ pc' = [pc EXCEPT ![t] = "take"]
  BY <1>1 DEF LoadForTake, Goto, Calls
<1>3. Honest(t)'
  BY <1>1, <1>2 DEF LoadForTake, At, Inv, Types, Honest, Calls
<1> QED
  BY <1>1, <1>2, <1>3, ReadingStep DEF LoadForTake, At, Labels

LEMMA SendHolds == ASSUME Parameters, Inv, NEW t \in Threads, Send(t) PROVE Inv'
<1>1. NoCall \in Calls
  BY DEF NoCall, Calls, Parameters, Buckets
<1>2. call' = [call EXCEPT ![t] = NoCall] /\ pc' = [pc EXCEPT ![t] = "idle"]
  BY DEF Send, Goto
<1>3. Honest(t)'
  BY <1>2 DEF Send, Inv, Types, Honest, NoCall
<1> QED
  BY <1>1, <1>2, <1>3, ReadingStep DEF Send, At, Labels

(* What a thread goes on with that has its answer from a bucket.           *)
LEMMA AnsweredIs ==
  ASSUME Parameters, Inv, NEW t \in Threads, NEW w \in Nat, Answered(t, w)
  PROVE  \E c \in Calls, label \in {"ask", "sleep"} :
           /\ call' = [call EXCEPT ![t] = c] /\ pc' = [pc EXCEPT ![t] = label]
           /\ c.time <= clock
<1> DEFINE asked == [call[t] EXCEPT !.bucket = @ + 1, !.wait = Maximum(@, w)]
           last  == [NoCall EXCEPT !.wait = asked.wait, !.time = clock]
<1>1. /\ call[t] \in Calls /\ call[t].wait \in Nat /\ call[t].time <= clock /\ clock \in Nat
      /\ 1 \in Buckets
  BY DEF Inv, Types, Honest, Calls, Parameters, Buckets
<1>2. asked.wait \in Nat /\ asked.time = call[t].time
  BY <1>1 DEF Maximum, Calls
<1>3. last \in Calls /\ last.time = clock
  BY <1>1, <1>2 DEF NoCall, Calls
<1>4. CASE asked.bucket \in Buckets
  <2>1. asked \in Calls
    BY <1>1, <1>2, <1>4 DEF Calls
  <2>2. call' = [call EXCEPT ![t] = asked] /\ pc' = [pc EXCEPT ![t] = "ask"]
    BY <1>4 DEF Answered, Goto
  <2> HIDE DEF asked
  <2> QED
    BY <1>1, <1>2, <2>1, <2>2
<1>5. CASE asked.bucket \notin Buckets
  <2>1. call' = [call EXCEPT ![t] = last] /\ pc' = [pc EXCEPT ![t] = "sleep"]
    BY <1>5 DEF Answered, Goto
  <2>2. last \in Calls /\ last.time <= clock
    BY <1>1, <1>3
  <2> HIDE DEF last
  <2> QED
    BY <2>1, <2>2
<1> QED
  BY <1>4, <1>5

LEMMA RefuseHolds == ASSUME Parameters, Inv, NEW t \in Threads, Refuse(t) PROVE Inv'
<1> DEFINE b == call[t].bucket
           w == (Window[b] + Rate[b] - 1) \div Rate[b]
<1>1. w \in Nat
  <2>1. b \in Buckets
    BY DEF Inv, Types, Calls
  <2>2. Rate[b] \in Nat \ {0} /\ Window[b] \in Nat \ {0}
    BY <2>1 DEF Parameters, Buckets
  <2>3. Window[b] + Rate[b] - 1 \in Nat
    BY <2>2
  <2> QED
    BY <2>2, <2>3, QuotientIs
<1>2. Answered(t, w) /\ pc[t] = "take" /\ UNCHANGED <<clock, tokens, lastRefill, granted>>
  BY DEF Refuse, At
<1> HIDE DEF w
<1>3. PICK c \in Calls, label \in {"ask", "sleep"} :
        /\ call' = [call EXCEPT ![t] = c] /\ pc' = [pc EXCEPT ![t] = label]
        /\ c.time <= clock
  BY <1>1, <1>2, AnsweredIs
<1>4. Honest(t)'
  BY <1>2, <1>3 DEF Inv, Types, Honest
<1> QED
  BY <1>2, <1>3, <1>4, ReadingStep DEF Labels

(* A token taken is a token granted; no other thread has read the bucket   *)
(* for a refill.                                                           *)
LEMMA TakeHolds == ASSUME Parameters, Inv, Alone, NEW t \in Threads, Take(t) PROVE Inv'
<1> DEFINE b == call[t].bucket
<1>1. /\ b \in Buckets /\ pc[t] = "take" /\ call[t].current \in Nat /\ call[t].current > 0
      /\ UNCHANGED <<clock, lastRefill>>
  BY DEF Inv, Types, Calls, Take, At
<1>2. CASE tokens[b] = call[t].current
  <2>1. /\ tokens' = [tokens EXCEPT ![b] = @ - 1]
        /\ granted' = [granted EXCEPT ![b] = @ + 1]
        /\ Answered(t, 0)
    BY <1>2 DEF Take
  <2>2. PICK c \in Calls, label \in {"ask", "sleep"} :
          /\ call' = [call EXCEPT ![t] = c] /\ pc' = [pc EXCEPT ![t] = label]
          /\ c.time <= clock
    BY <2>1, AnsweredIs
  <2>3. tokens[b] \in Nat /\ granted[b] \in Nat /\ tokens[b] - 1 \in Nat /\ granted[b] + 1 \in Nat
    BY <1>1, <1>2 DEF Inv, Types
  <2>4. Types'
    BY <1>1, <2>1, <2>2, <2>3 DEF Inv, Types, Labels
  <2>5. \A d \in Buckets : Level(d)' = Level(d)
    BY <2>1, <2>3 DEF Level, Inv, Types
  <2>6. ASSUME NEW s \in Threads PROVE Honest(s)'
    <3>1. CASE s = t
      BY <1>1, <2>2, <3>1 DEF Honest, Inv, Types
    <3>2. CASE s # t
      <4>1. call'[s] = call[s] /\ pc'[s] = pc[s] /\ call[s].bucket \in Buckets
        BY <2>2, <3>2 DEF Inv, Types, Calls
      <4>2. pc[s] = "storeTokens" => call[s].bucket # b
        BY <1>1, <3>2 DEF Alone, Inside
      <4>3. pc[s] = "storeTokens" => tokens'[call[s].bucket] = tokens[call[s].bucket]
        BY <2>1, <4>1, <4>2 DEF Inv, Types
      <4> QED
        BY <1>1, <2>5, <4>1, <4>3 DEF Inv, Honest, Earned
    <3> QED
      BY <3>1, <3>2
  <2>7. ASSUME NEW d \in Buckets PROVE Funded(d)'
    <3>1. Refilling(d) \subseteq Refilling(d)'
      BY <1>1, <2>2 DEF Refilling, Inv, Types
    <3> QED
      BY <1>1, <2>5, <3>1 DEF Inv, Funded, Earned
  <2> QED
    BY <2>4, <2>6, <2>7 DEF Inv
<1>3. CASE tokens[b] # call[t].current
  <2>1. /\ call' = [call EXCEPT ![t] = call[t]] /\ pc' = [pc EXCEPT ![t] = "load"]
        /\ UNCHANGED <<tokens, granted>> /\ call[t] \in Calls
    BY <1>3 DEF Take, Goto, Inv, Types
  <2>2. Honest(t)'
    BY <1>1, <2>1 DEF Inv, Types, Honest
  <2> QED
    BY <1>1, <2>1, <2>2, ReadingStep DEF Labels
<1> QED
  BY <1>2, <1>3

(* A refill adds what was earned between the last one and the time read.   *)
LEMMA StoreTokensHolds ==
  ASSUME Parameters, Inv, Alone, NEW t \in Threads, StoreTokens(t)
  PROVE  Inv'
<1> DEFINE b == call[t].bucket
           time == call[t].time
           last == lastRefill[b]
           new  == ((time - last) * Rate[b]) \div Window[b]
<1>1. /\ b \in Buckets /\ pc[t] = "storeTokens" /\ call[t] \in Calls
      /\ call[t].last = last /\ call[t].current = tokens[b]
      /\ time \in Nat /\ last \in Nat /\ last <= time /\ time <= clock
      /\ tokens[b] \in Nat /\ granted[b] \in Nat
  BY DEF StoreTokens, At, Inv, Types, Calls, Honest
<1>2. /\ new \in Nat /\ Earned(b, last) + new <= Earned(b, time)
      /\ Rate[b] \in Nat /\ Earned(b, last) \in Nat /\ Earned(b, time) \in Nat
  BY <1>1, EarnedIs
<1>3. NewTokens(t) = new
  <2>1. Maximum(time - last, 0) = time - last
    BY <1>1 DEF Maximum
  <2> QED
    BY <1>1, <2>1 DEF NewTokens
<1> DEFINE more == Minimum(tokens[b] + new, Rate[b])
<1>4. /\ tokens' = [tokens EXCEPT ![b] = more] /\ pc' = [pc EXCEPT ![t] = "storeLast"]
      /\ UNCHANGED <<clock, lastRefill, call, granted>>
  BY <1>1, <1>3 DEF StoreTokens, Goto
<1>5. more \in Nat /\ more <= tokens[b] + new
  BY <1>1, <1>2 DEF Minimum
<1>6. Types'
  BY <1>4, <1>5 DEF Inv, Types, Labels
<1>7. Refilling(b) = {}
  BY <1>1 DEF Refilling, Alone, Inside
<1>8. granted[b] + tokens[b] <= Rate[b] + Earned(b, last)
  BY <1>1, <1>7 DEF Inv, Funded, Level
<1>9. Level(b)' <= Rate[b] + Earned(b, time)
  <2>1. Level(b)' = granted[b] + more
    BY <1>1, <1>4 DEF Level, Inv, Types
  <2> HIDE DEF more, new, last, time
  <2> QED
    BY <1>1, <1>2, <1>5, <1>8, <2>1
<1> HIDE DEF more, new
<1>10. ASSUME NEW s \in Threads PROVE Honest(s)'
  <2>1. CASE s = t
    BY <1>1, <1>4, <1>9, <2>1 DEF Honest, Inv, Types, Earned
  <2>2. CASE s # t
    <3>1. call'[s] = call[s] /\ pc'[s] = pc[s] /\ call[s].bucket \in Buckets
      BY <1>4, <2>2 DEF Inv, Types, Calls
    <3>2. pc[s] \in {"storeTokens", "storeLast"} => call[s].bucket # b
      BY <1>1, <2>2 DEF Alone, Inside
    <3>3. \A d \in Buckets : d # b => tokens'[d] = tokens[d] /\ Level(d)' = Level(d)
      BY <1>4 DEF Level, Inv, Types
    <3> QED
      BY <1>4, <3>1, <3>2, <3>3 DEF Inv, Honest, Earned
  <2> QED
    BY <2>1, <2>2
<1>11. ASSUME NEW d \in Buckets PROVE Funded(d)'
  <2>1. CASE d = b
    <3>1. t \in Refilling(b)'
      BY <1>4 DEF Refilling, Inv, Types
    <3> QED
      BY <1>4, <2>1, <3>1 DEF Inv, Funded
  <2>2. CASE d # b
    <3>1. Level(d)' = Level(d)
      BY <1>4, <2>2 DEF Level, Inv, Types
    <3>2. Refilling(d) \subseteq Refilling(d)'
      BY <1>1, <1>4 DEF Refilling, Inv, Types
    <3> QED
      BY <1>4, <3>1, <3>2 DEF Inv, Funded, Earned
  <2> QED
    BY <2>1, <2>2
<1> QED
  BY <1>6, <1>10, <1>11 DEF Inv

(* The time of the refill is stored: later than the last one.              *)
LEMMA StoreLastHolds ==
  ASSUME Parameters, Inv, Alone, NEW t \in Threads, StoreLast(t)
  PROVE  Inv'
<1> DEFINE b == call[t].bucket
           time == call[t].time
<1>1. /\ b \in Buckets /\ pc[t] = "storeLast" /\ call[t] \in Calls
      /\ time \in Nat /\ time <= clock
      /\ Level(b) <= Rate[b] + Earned(b, time)
  BY DEF StoreLast, At, Inv, Types, Calls, Honest
<1>2. /\ lastRefill' = [lastRefill EXCEPT ![b] = time] /\ pc' = [pc EXCEPT ![t] = "load"]
      /\ UNCHANGED <<clock, tokens, call, granted>>
  BY DEF StoreLast, Goto
<1>3. Types'
  BY <1>1, <1>2 DEF Inv, Types, Labels
<1>4. ASSUME NEW s \in Threads PROVE Honest(s)'
  <2>1. CASE s = t
    BY <1>1, <1>2, <2>1 DEF Honest, Inv, Types
  <2>2. CASE s # t
    <3>1. call'[s] = call[s] /\ pc'[s] = pc[s] /\ call[s].bucket \in Buckets
      BY <1>2, <2>2 DEF Inv, Types, Calls
    <3>2. pc[s] \in {"last", "refill", "storeTokens", "storeLast"} => call[s].bucket # b
      BY <1>1, <2>2 DEF Alone, Inside
    <3>3. \A d \in Buckets : d # b => lastRefill'[d] = lastRefill[d]
      BY <1>2 DEF Inv, Types
    <3> QED
      BY <1>2, <3>1, <3>2, <3>3 DEF Inv, Honest, Level, Earned
  <2> QED
    BY <2>1, <2>2
<1>5. ASSUME NEW d \in Buckets PROVE Funded(d)'
  <2>1. CASE d = b
    BY <1>1, <1>2, <2>1 DEF Inv, Types, Funded, Level, Earned
  <2>2. CASE d # b
    <3>1. Refilling(d) \subseteq Refilling(d)'
      BY <1>1, <1>2, <2>2 DEF Refilling, Inv, Types
    <3> QED
      BY <1>2, <2>2, <3>1 DEF Inv, Types, Funded, Level, Earned
  <2> QED
    BY <2>1, <2>2
<1> QED
  BY <1>3, <1>4, <1>5 DEF Inv

LEMMA TickHolds == Inv /\ Tick => Inv'
<1> SUFFICES ASSUME Inv, Tick PROVE Inv'
  OBVIOUS
<1>1. /\ clock \in Nat /\ clock' = clock + 1
      /\ UNCHANGED <<tokens, lastRefill, pc, call, granted>>
  BY DEF Inv, Types, Tick
<1>2. Types'
  BY <1>1 DEF Inv, Types
<1>3. ASSUME NEW t \in Threads PROVE Honest(t)'
  <2>1. call[t].time \in Nat /\ Honest(t)
    BY DEF Inv, Types, Calls
  <2> QED
    BY <1>1, <2>1 DEF Honest, Level, Earned
<1>4. ASSUME NEW b \in Buckets PROVE Funded(b)'
  <2>1. lastRefill[b] \in Nat /\ Funded(b)
    BY DEF Inv, Types
  <2> QED
    BY <1>1, <2>1 DEF Funded, Refilling, Level, Earned
<1> QED
  BY <1>2, <1>3, <1>4 DEF Inv

LEMMA NextHolds == Parameters /\ Inv /\ Alone /\ [Next]_vars => Inv'
<1> SUFFICES ASSUME Parameters, Inv, Alone, [Next]_vars PROVE Inv'
  OBVIOUS
<1>1. CASE UNCHANGED vars
  BY <1>1 DEF vars, Inv, Types, Honest, Funded, Refilling, Level, Earned
<1>2. ASSUME NEW t \in Threads,
             \/ ReadClock(t) \/ LoadLast(t) \/ LoadForRefill(t) \/ StoreTokens(t) \/ StoreLast(t)
             \/ LoadForTake(t) \/ Take(t) \/ Refuse(t) \/ Send(t)
      PROVE  Inv'
  BY <1>2, ReadClockHolds, LoadLastHolds, LoadForRefillHolds, StoreTokensHolds, StoreLastHolds,
     LoadForTakeHolds, TakeHolds, RefuseHolds, SendHolds
<1> QED
  BY <1>1, <1>2, TickHolds DEF Next

--------------------------------------------------------------------------------
(* The theorems *)

(* Token buckets whose acquires do not overlap never hand out more than    *)
(* they held at first and have earned since, for any threads, rates and    *)
(* windows, whenever the threads ask, wait and send.                       *)
THEOREM ApartKeepsRate == Parameters => (Spec /\ []Alone => []GrantsWithinRate)
<1> SUFFICES ASSUME Parameters PROVE Spec /\ []Alone => []GrantsWithinRate
  OBVIOUS
<1>1. Init => Inv
  BY InitHolds
<1>2. Inv /\ Alone /\ [Next]_vars => Inv'
  BY NextHolds
<1>3. Inv /\ Alone => GrantsWithinRate
  <2> SUFFICES ASSUME Inv, Alone, NEW b \in Buckets
               PROVE  granted[b] <= Rate[b] + (clock * Rate[b]) \div Window[b]
    BY DEF GrantsWithinRate
  <2>1. /\ granted[b] \in Nat /\ tokens[b] \in Nat /\ clock \in Nat
        /\ lastRefill[b] \in Nat /\ lastRefill[b] <= clock
    BY DEF Inv, Types, Funded
  <2>2. PICK m \in Nat : m <= clock /\ Level(b) <= Rate[b] + Earned(b, m)
    <3>1. CASE Refilling(b) = {}
      BY <2>1, <3>1 DEF Inv, Funded
    <3>2. CASE Refilling(b) # {}
      <4>1. PICK t \in Threads : pc[t] = "storeLast" /\ call[t].bucket = b
        BY <3>2 DEF Refilling
      <4>2. call[t].time \in Nat /\ Honest(t)
        BY DEF Inv, Types, Calls
      <4> QED
        BY <4>1, <4>2 DEF Honest
    <3> QED
      BY <3>1, <3>2
  <2>3. Rate[b] \in Nat /\ Earned(b, m) \in Nat /\ Earned(b, clock) \in Nat
        /\ Earned(b, m) <= Earned(b, clock)
    BY <2>1, <2>2, EarnedIs
  <2>4. granted[b] <= Rate[b] + Earned(b, clock)
    BY <2>1, <2>2, <2>3 DEF Level
  <2> QED
    BY <2>4 DEF Earned
<1> QED
  BY <1>1, <1>2, <1>3, PTL DEF Spec

(* One thread that asks keeps the limit by itself.                         *)
THEOREM OneThreadKeepsRate ==
  ASSUME Parameters, \A s, t \in Threads : s = t
  PROVE  Spec => []GrantsWithinRate
<1>1. Alone
  BY DEF Alone
<1> QED
  BY <1>1, ApartKeepsRate, PTL
================================================================================
