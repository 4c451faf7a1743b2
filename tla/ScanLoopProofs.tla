---------------------------- MODULE ScanLoopProofs ----------------------------
(***************************************************************************)
(* The scan loop's books hold for any questions, prices, limits, queue and *)
(* age, any number of runs, and stops and kills anywhere.  The invariant   *)
(* adds to the properties in which phase something is left to observe or   *)
(* to close, and the shapes of the records.  What the files tell is shown  *)
(* by counting their rows together with those that are not written yet.    *)
(***************************************************************************)
EXTENDS ScanLoop, SumTheorems

--------------------------------------------------------------------------------
(* What the calls of the paper engine preserve, for any capital, position  *)
(* size, limits, questions and prices: the books stay sound, and a call    *)
(* changes the list of questions by the one it is about.                   *)

Positions(Q) == [question : Q, price : Nat, quantity : Nat, mark : Nat]

Books(Q) ==
  [cash : Int, locked : Int, realized : Int, held : UNION { [I -> Positions(Q)] : I \in SUBSET Nat },
   questions : SUBSET Q, daily : Int, value : Int, counter : Nat]

Costs(b) == [i \in DOMAIN b.held |-> CostBasis(b.held[i])]

(* A question is listed if and only if it is held, and held once.          *)
ListsAgree(b) ==
  /\ b.questions = { b.held[i].question : i \in DOMAIN b.held }
  /\ \A i, j \in DOMAIN b.held : b.held[i].question = b.held[j].question => i = j

MoneyAddsUp(b) ==
  /\ b.cash + b.locked = PaperCapital + b.realized
  /\ b.locked = SumFunction(Costs(b))
  /\ b.cash >= 0
  /\ b.daily = b.realized

Sound(b, Q) ==
  /\ b \in Books(Q)
  /\ DOMAIN b.held \subseteq 1 .. b.counter
  /\ ListsAgree(b)
  /\ MoneyAddsUp(b)

LEMMA QuotientFits ==
  ASSUME NEW s \in Nat, NEW p \in Nat, p # 0
  PROVE  s \div p \in Nat /\ (s \div p) * p \in Nat /\ (s \div p) * p <= s
<1>1. s \div p \in Nat
  BY SMT
<1>2. s = p * (s \div p) + (s % p) /\ s % p \in 0 .. p - 1
  BY SMT
<1> QED
  BY <1>1, <1>2, SMT

LEMMA HeldIsFinite ==
  ASSUME NEW Q, NEW b \in Books(Q), DOMAIN b.held \subseteq 1 .. b.counter
  PROVE  /\ IsFiniteSet(DOMAIN b.held)
         /\ \A i \in DOMAIN b.held : b.held[i] \in Positions(Q)
         /\ \A i \in DOMAIN b.held : Costs(b)[i] = CostBasis(b.held[i]) /\ Costs(b)[i] \in Int
<1>1. b.counter \in Nat
  BY DEF Books
<1>2. IsFiniteSet(1 .. b.counter)
  BY <1>1, FS_Interval
<1>3. IsFiniteSet(DOMAIN b.held)
  BY <1>2, FS_Subset
<1>4. ASSUME NEW i \in DOMAIN b.held PROVE b.held[i] \in Positions(Q)
  <2>1. b.held \in UNION { [I -> Positions(Q)] : I \in SUBSET Nat }
    BY DEF Books
  <2>2. PICK I \in SUBSET Nat : b.held \in [I -> Positions(Q)]
    BY <2>1
  <2> QED
    BY <2>2
<1>5. ASSUME NEW i \in DOMAIN b.held
      PROVE Costs(b)[i] = CostBasis(b.held[i]) /\ Costs(b)[i] \in Int
  <2>1. b.held[i].quantity \in Nat /\ b.held[i].price \in Nat
    BY <1>4 DEF Positions
  <2> QED
    BY <2>1 DEF Costs, CostBasis
<1> QED
  BY <1>3, <1>4, <1>5

(* The books of a run that begins.                                         *)
LEMMA NewBooksSound ==
  ASSUME NEW Q, NEW base \in Nat
  PROVE  Sound(NewBooks(base), Q) /\ NewBooks(base).questions = {}
<1> DEFINE b == NewBooks(base)
<1>1. /\ b.cash = PaperCapital /\ b.locked = 0 /\ b.realized = 0 /\ b.held = << >>
      /\ b.questions = {} /\ b.daily = 0 /\ b.value = PaperCapital /\ b.counter = base
  BY DEF NewBooks
<1>2. DOMAIN b.held = {} /\ b.held \in [{} -> Positions(Q)]
  BY <1>1
<1>3. b \in Books(Q)
  <2>1. b.held \in UNION { [I -> Positions(Q)] : I \in SUBSET Nat }
    BY <1>2
  <2>2. PaperCapital \in Int
    BY PaperParameters
  <2> QED
    BY <1>1, <2>1, <2>2 DEF NewBooks, Books
<1>4. SumFunction(Costs(b)) = 0
  BY <1>2, SumOfNone DEF SumFunction, Costs
<1>5. PaperCapital \in Nat
  BY PaperParameters
<1> HIDE DEF b
<1>6. MoneyAddsUp(b)
  BY <1>1, <1>4, <1>5 DEF MoneyAddsUp
<1>7. ListsAgree(b)
  BY <1>1, <1>2 DEF ListsAgree
<1>8. Sound(b, Q)
  BY <1>2, <1>3, <1>6, <1>7 DEF Sound
<1> QED
  BY <1>1, <1>8 DEF b

(* What a purchase costs is locked; the risk checks saw enough cash for it. *)
LEMMA OpenedSound ==
  ASSUME NEW Q, NEW b, Sound(b, Q), NEW q \in Q, q \notin b.questions,
         NEW p \in Nat, ~ RiskRefuses(b, p)
  PROVE  Sound(Opened(b, q, p), Q) /\ Opened(b, q, p).questions = b.questions \cup {q}
<1> DEFINE pos == NewPosition(q, p)
           id  == b.counter + 1
           c   == Opened(b, q, p)
           D   == DOMAIN b.held
<1>t. b \in Books(Q) /\ D \subseteq 1 .. b.counter /\ ListsAgree(b) /\ MoneyAddsUp(b)
  BY DEF Sound
<1>n. b.counter \in Nat /\ id \in Nat \ {0} /\ id \notin D
  BY <1>t DEF Books
<1>p. PositionSize \in Nat /\ p # 0 /\ b.cash >= PositionSize
  <2>1. PositionSize \in Nat
    BY PaperParameters
  <2> QED
    BY <1>t, <2>1 DEF RiskRefuses, Books
<1>c. /\ CostBasis(pos) \in Nat /\ CostBasis(pos) <= PositionSize
      /\ pos \in Positions(Q) /\ pos.question = q
  <2>1. PositionSize \div p \in Nat /\ (PositionSize \div p) * p \in Nat
        /\ (PositionSize \div p) * p <= PositionSize
    BY <1>p, QuotientFits
  <2> QED
    BY <2>1 DEF NewPosition, CostBasis, Positions
<1>1. /\ c.counter = id /\ c.cash = b.cash - CostBasis(pos) /\ c.locked = b.locked + CostBasis(pos)
      /\ c.held = [i \in D \cup {id} |-> IF i = id THEN pos ELSE b.held[i]]
      /\ c.questions = b.questions \cup {q} /\ c.realized = b.realized
      /\ c.daily = b.daily /\ c.value = b.value
  BY <1>t DEF Opened, Books
<1>f. /\ IsFiniteSet(D)
      /\ \A i \in D : b.held[i] \in Positions(Q)
      /\ \A i \in D : Costs(b)[i] = CostBasis(b.held[i]) /\ Costs(b)[i] \in Int
  BY <1>t, HeldIsFinite
<1>2. c.held \in [D \cup {id} -> Positions(Q)] /\ D \cup {id} \in SUBSET Nat
  BY <1>1, <1>c, <1>f, <1>n, <1>t
<1>3. c \in Books(Q)
  <2>1. c.held \in UNION { [I -> Positions(Q)] : I \in SUBSET Nat }
    BY <1>2
  <2>2. /\ c.cash \in Int /\ c.locked \in Int /\ c.realized \in Int /\ c.daily \in Int
        /\ c.value \in Int /\ c.counter \in Nat /\ c.questions \in SUBSET Q
    BY <1>1, <1>c, <1>n, <1>t DEF Books
  <2>3. c = [b EXCEPT !.counter = c.counter, !.cash = c.cash, !.locked = c.locked,
                      !.held = c.held, !.questions = c.questions]
    BY <1>1 DEF Opened
  <2> HIDE DEF c
  <2> QED
    BY <1>t, <2>1, <2>2, <2>3 DEF Books
<1>4. DOMAIN c.held \subseteq 1 .. c.counter
  BY <1>1, <1>n, <1>t
<1>5. ListsAgree(c)
  <2>1. \A i \in D : b.held[i].question \in b.questions
    BY <1>t DEF ListsAgree
  <2>2. c.questions = { c.held[i].question : i \in DOMAIN c.held }
    <3>1. DOMAIN c.held = D \cup {id} /\ c.held[id].question = q
      BY <1>1, <1>c
    <3>2. \A i \in D : c.held[i].question = b.held[i].question
      BY <1>1, <1>n
    <3>3. b.questions = { b.held[i].question : i \in D }
      BY <1>t DEF ListsAgree
    <3> HIDE DEF c, D, id
    <3> QED
      BY <1>1, <3>1, <3>2, <3>3
  <2>3. ASSUME NEW i \in DOMAIN c.held, NEW j \in DOMAIN c.held,
               c.held[i].question = c.held[j].question
        PROVE  i = j
    <3>1. CASE i \in D /\ j \in D
      BY <1>1, <1>n, <1>t, <2>3, <3>1 DEF ListsAgree
    <3>2. CASE i = id \/ j = id
      BY <1>1, <1>c, <1>n, <2>1, <2>3, <3>2
    <3> QED
      BY <1>1, <3>1, <3>2
  <2> QED
    BY <2>2, <2>3 DEF ListsAgree
<1>6. MoneyAddsUp(c)
  <2>1. DOMAIN Costs(c) = D \cup {id} /\ DOMAIN Costs(b) = D
    BY <1>1 DEF Costs
  <2>2. \A i \in D : Costs(c)[i] = Costs(b)[i]
    BY <1>1, <1>n DEF Costs
  <2>3. Costs(c)[id] = CostBasis(pos) /\ Costs(c)[id] \in Int
    BY <1>1, <1>c DEF Costs
  <2>4. SumFunctionOnSet(Costs(c), D \cup {id}) = SumFunctionOnSet(Costs(b), D) + Costs(c)[id]
    <3> HIDE DEF c, D, id
    <3> QED
      BY <1>f, <1>n, <2>2, <2>3, SumWithNew
  <2>5. SumFunction(Costs(c)) = SumFunction(Costs(b)) + CostBasis(pos)
    BY <2>1, <2>3, <2>4 DEF SumFunction
  <2>6. /\ b.cash \in Int /\ b.locked \in Int /\ b.realized \in Int
        /\ PaperCapital \in Int
    BY <1>t, PaperParameters DEF Books
  <2>7. /\ b.cash + b.locked = PaperCapital + b.realized
        /\ b.locked = SumFunction(Costs(b)) /\ b.daily = b.realized
    BY <1>t DEF MoneyAddsUp
  <2> HIDE DEF c, pos
  <2> QED
    BY <1>1, <1>c, <1>p, <2>5, <2>6, <2>7 DEF MoneyAddsUp
<1> QED
  BY <1>1, <1>3, <1>4, <1>5, <1>6 DEF Sound

(* The position a call finds for a question.                               *)
LEMMA FirstPosition ==
  ASSUME NEW Q, NEW b, Sound(b, Q), NEW q, In(b.held, q) # {}
  PROVE  Min(In(b.held, q)) \in DOMAIN b.held /\ b.held[Min(In(b.held, q))].question = q
<1>1. In(b.held, q) \in SUBSET Nat
  BY DEF Sound, Books, In
<1>2. PICK n \in In(b.held, q) : \A m \in In(b.held, q) : n <= m
  BY <1>1, LeastNatural
<1>3. Min(In(b.held, q)) \in In(b.held, q)
  BY <1>2 DEF Min
<1> QED
  BY <1>3 DEF In

(* A new price changes no cost.                                            *)
LEMMA MarkedSound ==
  ASSUME NEW Q, NEW b, Sound(b, Q), NEW q, NEW p \in Nat
  PROVE  Sound(Marked(b, q, p), Q) /\ Marked(b, q, p).questions = b.questions
<1> SUFFICES ASSUME In(b.held, q) # {} PROVE Sound(Marked(b, q, p), Q) /\ Marked(b, q, p).questions = b.questions
  BY DEF Marked
<1> DEFINE k == Min(In(b.held, q))
           c == Marked(b, q, p)
           D == DOMAIN b.held
<1>t. b \in Books(Q) /\ D \subseteq 1 .. b.counter /\ ListsAgree(b) /\ MoneyAddsUp(b)
  BY DEF Sound
<1>k. k \in D
  BY FirstPosition
<1>f. /\ IsFiniteSet(D)
      /\ \A i \in D : b.held[i] \in Positions(Q)
      /\ \A i \in D : Costs(b)[i] = CostBasis(b.held[i]) /\ Costs(b)[i] \in Int
  BY <1>t, HeldIsFinite
<1>0. c = [b EXCEPT !.held = [b.held EXCEPT ![k] = [b.held[k] EXCEPT !.mark = p]]]
  BY DEF Marked
<1>h. /\ c.held = [b.held EXCEPT ![k] = [b.held[k] EXCEPT !.mark = p]]
      /\ c.questions = b.questions /\ c.counter = b.counter /\ c.locked = b.locked
      /\ c.cash = b.cash /\ c.realized = b.realized /\ c.daily = b.daily
  BY <1>0, <1>t DEF Books
<1>e. [b.held[k] EXCEPT !.mark = p] \in Positions(Q)
      /\ [b.held[k] EXCEPT !.mark = p].question = b.held[k].question
      /\ [b.held[k] EXCEPT !.mark = p].price = b.held[k].price
      /\ [b.held[k] EXCEPT !.mark = p].quantity = b.held[k].quantity
  BY <1>f, <1>k DEF Positions
<1>1. DOMAIN c.held = D
  BY <1>h
<1>2. \A i \in D : /\ c.held[i] \in Positions(Q) /\ c.held[i].question = b.held[i].question
                   /\ CostBasis(c.held[i]) = CostBasis(b.held[i])
  <2> TAKE i \in D
  <2>1. b.held[i] \in Positions(Q)
    BY <1>f
  <2>2. CASE i = k
    BY <1>e, <1>h, <1>k, <2>2 DEF CostBasis
  <2>3. CASE i # k
    BY <1>h, <2>1, <2>3
  <2> QED
    BY <2>2, <2>3
<1>u. b.held \in [D -> Positions(Q)]
  <2>1. b.held \in UNION { [I -> Positions(Q)] : I \in SUBSET Nat }
    BY <1>t DEF Books
  <2> QED
    BY <1>f, <2>1
<1>3. c \in Books(Q)
  <2>1. c.held \in [D -> Positions(Q)]
    <3>1. PICK e \in Positions(Q) : c.held = [b.held EXCEPT ![k] = e]
      BY <1>e, <1>h
    <3> HIDE DEF c, k, D
    <3> QED
      BY <1>u, <3>1
  <2>d. D \in SUBSET Nat
    BY <1>t DEF Books
  <2>2. c.held \in UNION { [I -> Positions(Q)] : I \in SUBSET Nat }
    BY <2>1, <2>d
  <2>3. c = [b EXCEPT !.held = c.held]
    BY <1>0, <1>h
  <2> HIDE DEF c
  <2> QED
    BY <1>t, <2>2, <2>3 DEF Books
<1>4. Costs(c) = Costs(b)
  BY <1>1, <1>2 DEF Costs
<1> HIDE DEF c, k, D
<1>5. ListsAgree(c)
  <2>1. b.questions = { b.held[i].question : i \in D }
    BY <1>t DEF ListsAgree, D
  <2>2. { b.held[i].question : i \in D } = { c.held[i].question : i \in D }
    BY <1>2
  <2>3. \A i, j \in D : b.held[i].question = b.held[j].question => i = j
    BY <1>t DEF ListsAgree, D
  <2> QED
    BY <1>1, <1>2, <1>h, <2>1, <2>2, <2>3 DEF ListsAgree
<1>6. MoneyAddsUp(c)
  BY <1>4, <1>h, <1>t DEF MoneyAddsUp
<1>7. Sound(c, Q)
  BY <1>1, <1>3, <1>5, <1>6, <1>h, <1>t DEF Sound, D
<1> QED
  BY <1>7, <1>h DEF c

(* Revaluing changes the value only.                                       *)
LEMMA RevaluedSound ==
  ASSUME NEW Q, NEW b, Sound(b, Q)
  PROVE  Sound(Revalued(b), Q) /\ Revalued(b).questions = b.questions
<1> DEFINE gains == [i \in DOMAIN b.held |-> Unrealized(b.held[i])]
           c == Revalued(b)
<1>t. b \in Books(Q) /\ DOMAIN b.held \subseteq 1 .. b.counter /\ ListsAgree(b) /\ MoneyAddsUp(b)
  BY DEF Sound
<1>f. IsFiniteSet(DOMAIN b.held) /\ \A i \in DOMAIN b.held : b.held[i] \in Positions(Q)
  BY <1>t, HeldIsFinite
<1>1. SumFunction(gains) \in Int
  <2>1. \A i \in DOMAIN b.held : gains[i] \in Int
    BY <1>f DEF Unrealized, Positions
  <2>2. SumFunctionOnSet(gains, DOMAIN b.held) \in Int
    <3> HIDE DEF gains
    <3> QED
      BY <1>f, <2>1, SumIsInt
  <2> QED
    BY <2>2 DEF SumFunction
<1>2. b.cash + b.locked + SumFunction(gains) \in Int
  BY <1>1, <1>t DEF Books
<1>3. c = [b EXCEPT !.value = b.cash + b.locked + SumFunction(gains)]
  BY DEF Revalued
<1> HIDE DEF gains, c
<1>4. c \in Books(Q)
  BY <1>2, <1>3, <1>t DEF Books
<1>5. /\ c.held = b.held /\ c.questions = b.questions /\ c.counter = b.counter
      /\ c.cash = b.cash /\ c.locked = b.locked /\ c.realized = b.realized /\ c.daily = b.daily
  BY <1>3, <1>t DEF Books
<1>6. Sound(c, Q)
  BY <1>4, <1>5, <1>t DEF Sound, ListsAgree, MoneyAddsUp, Costs
<1> QED
  BY <1>5, <1>6 DEF c

(* A sale releases what its position had locked, and only that one ends.   *)
LEMMA ClosedSound ==
  ASSUME NEW Q, NEW b, Sound(b, Q), NEW q, CanClose(b, q), NEW p \in Nat
  PROVE  Sound(Closed(b, q, p), Q) /\ Closed(b, q, p).questions = b.questions \ {q}
<1> DEFINE k    == Min(In(b.held, q))
           pos  == b.held[k]
           gain == pos.quantity * (p - pos.price)
           c    == Closed(b, q, p)
           D    == DOMAIN b.held
<1>t. b \in Books(Q) /\ D \subseteq 1 .. b.counter /\ ListsAgree(b) /\ MoneyAddsUp(b)
  BY DEF Sound
<1>k. k \in D /\ pos.question = q
  BY FirstPosition DEF CanClose
<1>f. /\ IsFiniteSet(D)
      /\ \A i \in D : b.held[i] \in Positions(Q)
      /\ \A i \in D : Costs(b)[i] = CostBasis(b.held[i]) /\ Costs(b)[i] \in Int
  BY <1>t, HeldIsFinite
<1>1. c = [b EXCEPT !.counter = b.counter + 1, !.cash = b.cash + pos.quantity * p,
                    !.locked = b.locked - CostBasis(pos), !.realized = b.realized + gain,
                    !.daily = b.daily + gain, !.held = [i \in D \ {k} |-> b.held[i]],
                    !.questions = b.questions \ {q}]
  BY DEF Closed, Freed
<1>2. /\ pos.quantity * p \in Nat /\ CostBasis(pos) \in Nat /\ gain \in Int
      /\ gain = pos.quantity * p - CostBasis(pos)
  <2>1. pos.quantity \in Nat /\ pos.price \in Nat
    BY <1>f, <1>k DEF Positions
  <2> HIDE DEF pos
  <2>2. pos.quantity * (p - pos.price) = pos.quantity * p - pos.quantity * pos.price
    BY <2>1, SMT
  <2>3. pos.quantity * p \in Nat /\ pos.quantity * pos.price \in Nat
    BY <2>1
  <2> QED
    BY <2>2, <2>3 DEF CostBasis
<1>3. \E R \in SUBSET D : R = D \ {k}
  OBVIOUS
<1>u. b.held \in [D -> Positions(Q)]
  <2>1. b.held \in UNION { [I -> Positions(Q)] : I \in SUBSET Nat }
    BY <1>t DEF Books
  <2> QED
    BY <1>f, <2>1
<1> HIDE DEF gain, pos, k, c
<1>4. /\ c.counter = b.counter + 1 /\ c.cash = b.cash + pos.quantity * p
      /\ c.locked = b.locked - CostBasis(pos) /\ c.realized = b.realized + gain
      /\ c.daily = b.daily + gain /\ c.held = [i \in D \ {k} |-> b.held[i]]
      /\ c.questions = b.questions \ {q} /\ c.value = b.value
  BY <1>1, <1>t DEF Books
<1>5. DOMAIN c.held = D \ {k} /\ \A i \in D \ {k} : c.held[i] = b.held[i]
  BY <1>4
<1>6. c \in Books(Q)
  <2>1. c.held \in [D \ {k} -> Positions(Q)] /\ D \ {k} \in SUBSET Nat
    BY <1>4, <1>f, <1>t DEF Books
  <2>2. c.held \in UNION { [I -> Positions(Q)] : I \in SUBSET Nat }
    BY <2>1
  <2>3. /\ c.cash \in Int /\ c.locked \in Int /\ c.realized \in Int /\ c.daily \in Int
        /\ c.counter \in Nat /\ c.questions \in SUBSET Q
    BY <1>2, <1>4, <1>t DEF Books
  <2>4. c = [b EXCEPT !.counter = c.counter, !.cash = c.cash, !.locked = c.locked,
                      !.realized = c.realized, !.daily = c.daily, !.held = c.held,
                      !.questions = c.questions]
    BY <1>1, <1>4
  <2> QED
    BY <1>t, <2>2, <2>3, <2>4 DEF Books
<1>7. DOMAIN c.held \subseteq 1 .. c.counter
  BY <1>4, <1>5, <1>t DEF Books
<1>8. ListsAgree(c)
  <2>1. /\ b.questions = { b.held[i].question : i \in D }
        /\ \A i, j \in D : b.held[i].question = b.held[j].question => i = j
    BY <1>t DEF ListsAgree
  <2>2. b.questions \ {q} = { b.held[i].question : i \in D \ {k} }
    BY <1>k, <2>1 DEF pos
  <2>3. { b.held[i].question : i \in D \ {k} } = { c.held[i].question : i \in D \ {k} }
    BY <1>5
  <2>4. c.questions = { c.held[i].question : i \in DOMAIN c.held }
    BY <1>4, <1>5, <2>2, <2>3
  <2>5. \A i, j \in DOMAIN c.held : c.held[i].question = c.held[j].question => i = j
    BY <1>5, <2>1
  <2> QED
    BY <2>4, <2>5 DEF ListsAgree
<1>9. MoneyAddsUp(c)
  <2>1. DOMAIN Costs(c) = D \ {k} /\ DOMAIN Costs(b) = D
    BY <1>5 DEF Costs
  <2>2. \A i \in D \ {k} : Costs(c)[i] = Costs(b)[i]
    BY <1>5 DEF Costs
  <2>3. Costs(b)[k] = CostBasis(pos)
    BY <1>k DEF Costs, pos
  <2>4. PICK R \in SUBSET D : R = D \ {k}
    BY <1>3
  <2>5. /\ IsFiniteSet(R) /\ k \notin R /\ R \cup {k} = D
        /\ \A i \in R : Costs(c)[i] \in Int /\ Costs(b)[i] = Costs(c)[i]
    <3>1. IsFiniteSet(R)
      BY <1>f, FS_Subset
    <3> QED
      BY <1>f, <1>k, <2>2, <2>4, <3>1
  <2>6. SumFunctionOnSet(Costs(b), R \cup {k}) = SumFunctionOnSet(Costs(c), R) + Costs(b)[k]
    <3>1. Costs(b)[k] \in Int
      BY <1>f, <1>k
    <3> QED
      BY ONLY <2>5, <3>1, SumWithNew
  <2>7. SumFunction(Costs(b)) = SumFunction(Costs(c)) + CostBasis(pos)
    BY <2>1, <2>3, <2>4, <2>5, <2>6 DEF SumFunction
  <2>8. SumFunction(Costs(c)) \in Int
    <3>1. SumFunctionOnSet(Costs(c), R) \in Int
      BY ONLY <2>5, SumIsInt
    <3> QED
      BY <2>1, <2>4, <3>1 DEF SumFunction
  <2>9. b.cash \in Int /\ b.locked \in Int /\ b.realized \in Int /\ PaperCapital \in Int
    BY <1>t, PaperParameters DEF Books
  <2>10. /\ b.cash + b.locked = PaperCapital + b.realized
         /\ b.locked = SumFunction(Costs(b)) /\ b.daily = b.realized /\ b.cash >= 0
    BY <1>t DEF MoneyAddsUp
  <2> QED
    BY <1>2, <1>4, <2>7, <2>8, <2>9, <2>10 DEF MoneyAddsUp
<1>10. Sound(c, Q)
  BY <1>6, <1>7, <1>8, <1>9 DEF Sound
<1> QED
  BY <1>4, <1>10 DEF c

(* Closing what is not listed changes nothing.                             *)
LEMMA AfterCloseSound ==
  ASSUME NEW Q, NEW b, Sound(b, Q), NEW q, NEW p \in Nat
  PROVE  /\ Sound(AfterClose(b, q, p), Q)
         /\ AfterClose(b, q, p).questions = b.questions \ {q}
<1>1. CASE CanClose(b, q)
  BY <1>1, ClosedSound DEF AfterClose
<1>2. CASE ~ CanClose(b, q)
  <2>1. q \notin b.questions
    BY <1>2 DEF CanClose, In, Sound, ListsAgree
  <2>2. b.questions \ {q} = b.questions
    BY <2>1
  <2>3. AfterClose(b, q, p) = [b EXCEPT !.questions = b.questions \ {q}]
    BY <1>2 DEF AfterClose
  <2>4. [b EXCEPT !.questions = b.questions] = b
    BY DEF Sound, Books
  <2> QED
    BY <2>2, <2>3, <2>4
<1> QED
  BY <1>1, <1>2

--------------------------------------------------------------------------------
(* The invariant *)

PhaseOK ==
  /\ phase \in Phases
  /\ DOMAIN todo # {} => phase = "observe"
  /\ DOMAIN finishing # {} => phase = "close"

Tracks == [age : 0 .. MaxAge + 1, price : Prices]

TrackOK ==
  /\ tracker \in [Tracked -> Tracks] /\ Tracked \subseteq Questions
  /\ todo \in [DOMAIN todo -> Prices] /\ DOMAIN todo \subseteq Questions
  /\ finishing \in [DOMAIN finishing -> Prices] /\ DOMAIN finishing \subseteq Questions

TradesOK ==
  /\ DOMAIN trades = {"open", "counter", "total"}
  /\ trades.counter \in Nat
  /\ trades.open \in [DOMAIN trades.open -> 1 .. trades.counter]

EventsOK ==
  /\ DOMAIN events = {"detected", "lifecycles", "trades", "closes", "opens"}
  /\ events.trades \in Seq(Nat) /\ events.closes \in Seq(Rows) /\ events.opens \in Seq(Rows)

FilesOK ==
  /\ DOMAIN files = {"detected", "lifecycles", "trades", "orders", "positions", "execution"}
  /\ files.trades \in Seq(Nat) /\ files.orders \in Seq(Rows)

AuditOK == audited \in Nat \cup {NoAudit}

Follows ==
  /\ DOMAIN trades.open = Tracked \cup DOMAIN finishing
  /\ paper.questions \subseteq Tracked \cup DOMAIN finishing
  /\ Tracked \cap DOMAIN finishing = {}

IInv ==
  /\ PhaseOK /\ TrackOK /\ TradesOK /\ EventsOK /\ FilesOK /\ AuditOK
  /\ Sound(paper, Questions)
  /\ Follows

--------------------------------------------------------------------------------

LEMMA MinOfTwo ==
  ASSUME NEW m \in Int, NEW n \in Int
  PROVE  Min({m, n}) = IF m <= n THEN m ELSE n
  BY DEF Min

LEMMA StepsAre ==
  /\ DOMAIN Steps = 1 .. 8 /\ Len(Steps) = 8
  /\ Phases = {"idle", "observe", "close", "detected", "lifecycles", "trades", "closes",
               "positions", "opens", "portfolio", "orders"}
  /\ \A i, j \in 1 .. 8 : Steps[i] = Steps[j] => i = j
<1>1. DOMAIN Steps = 1 .. 8 /\ Len(Steps) = 8
  BY DEF Steps
<1>2. /\ Steps[1] = "detected" /\ Steps[2] = "lifecycles" /\ Steps[3] = "trades" /\ Steps[4] = "closes"
      /\ Steps[5] = "positions" /\ Steps[6] = "opens" /\ Steps[7] = "portfolio" /\ Steps[8] = "orders"
  BY DEF Steps
<1>e. \A i : i \in 1 .. 8 <=> i \in {1, 2, 3, 4, 5, 6, 7, 8}
  OBVIOUS
<1>3. Range(Steps) = {Steps[1], Steps[2], Steps[3], Steps[4], Steps[5], Steps[6], Steps[7], Steps[8]}
  BY <1>1, <1>e DEF Range
<1>4. Phases = {"idle", "observe", "close", "detected", "lifecycles", "trades", "closes",
                "positions", "opens", "portfolio", "orders"}
  BY <1>2, <1>3 DEF Phases, Idle
<1>5. \A i, j \in 1 .. 8 : Steps[i] = Steps[j] => i = j
  BY <1>2, <1>e
<1> QED
  BY <1>1, <1>4, <1>5

LEMMA NextStepIs ==
  ASSUME NEW k \in 1 .. 7, phase = Steps[k]
  PROVE  NextStep = Steps[k + 1]
<1> DEFINE I == { i \in 1 .. Len(Steps) : Steps[i] = phase }
<1>1. I = {k}
  BY StepsAre
<1>2. Min(I) = k
  BY <1>1, MinOfTwo
<1> QED
  BY <1>1, <1>2 DEF NextStep, SelectInSeq

--------------------------------------------------------------------------------

LEMMA InitHolds == Init => IInv
<1> SUFFICES ASSUME Init PROVE IInv
  OBVIOUS
<1> USE DEF Init
<1>1. PhaseOK
  BY StepsAre DEF PhaseOK, Idle
<1>2. TrackOK
  BY DEF TrackOK, Tracked
<1>3. TradesOK
  BY DEF TradesOK
<1>4. EventsOK /\ FilesOK /\ AuditOK
  BY DEF EventsOK, FilesOK, AuditOK, NoEvents, NoRows
<1>5. Sound(paper, Questions) /\ paper.questions = {}
  BY NewBooksSound
<1>6. Follows
  BY <1>5 DEF Follows, Tracked
<1> QED
  BY <1>1, <1>2, <1>3, <1>4, <1>5, <1>6 DEF IInv

(* What is tracked grows older, and stays what it is.                      *)
LEMMA AgedIs ==
  ASSUME TrackOK
  PROVE  Aged \in [Tracked -> Tracks] /\ DOMAIN Aged = Tracked
<1>1. ASSUME NEW q \in Tracked
      PROVE  [tracker[q] EXCEPT !.age = Min({tracker[q].age + 1, MaxAge + 1})] \in Tracks
  <2>1. MaxAge \in Nat
    BY LoopParameters
  <2>2. tracker[q] \in Tracks
    BY DEF TrackOK
  <2>3. Min({tracker[q].age + 1, MaxAge + 1}) \in 0 .. MaxAge + 1
    <3>1. tracker[q].age \in 0 .. MaxAge + 1
      BY <2>2 DEF Tracks
    <3> QED
      BY <2>1, <3>1, MinOfTwo
  <2> QED
    BY <2>2, <2>3 DEF Tracks
<1> QED
  BY <1>1 DEF Aged

LEMMA FetchHolds == IInv /\ Fetch => IInv'
<1> SUFFICES ASSUME IInv, Fetch PROVE IInv'
  OBVIOUS
<1> USE DEF IInv
<1>1. PICK report \in SUBSET Questions : todo' \in [report -> Prices]
  <2>1. PICK good \in SUBSET Questions : \E poor \in SUBSET (Questions \ good) :
          \E report \in Reports(good, poor) : todo' \in [report -> Prices]
    BY DEF Fetch
  <2>2. PICK poor \in SUBSET (Questions \ good) :
          \E report \in Reports(good, poor) : todo' \in [report -> Prices]
    BY <2>1
  <2>3. PICK report \in Reports(good, poor) : todo' \in [report -> Prices]
    BY <2>2
  <2>4. report \in SUBSET Questions
    BY DEF Reports
  <2> QED
    BY <2>3, <2>4
<1>2. tracker' = Aged /\ DOMAIN Aged = Tracked /\ Aged \in [Tracked -> Tracks]
  BY AgedIs DEF Fetch
<1>3. phase = Idle /\ phase' = "observe" /\ finishing' = finishing
      /\ trades' = trades /\ paper' = paper /\ events' = events
      /\ files' = files /\ audited' = NoAudit
  BY DEF Fetch, bookVars, fileVars
<1>4. DOMAIN finishing = {}
  BY <1>3 DEF PhaseOK, Idle
<1>5. PhaseOK'
  BY <1>3, <1>4, StepsAre DEF PhaseOK
<1>6. TrackOK'
  BY <1>1, <1>2, <1>3 DEF TrackOK, Tracked
<1>7. (TradesOK /\ EventsOK /\ FilesOK /\ AuditOK)'
  BY <1>3 DEF TradesOK, EventsOK, FilesOK, AuditOK
<1>8. Sound(paper, Questions)' /\ Follows'
  BY <1>2, <1>3 DEF Follows, Tracked
<1> QED
  BY <1>5, <1>6, <1>7, <1>8

LEMMA LostRoundHolds == IInv /\ LostRound => IInv'
<1> SUFFICES ASSUME IInv, LostRound PROVE IInv'
  OBVIOUS
<1> USE DEF IInv
<1>1. tracker' = Aged /\ DOMAIN Aged = Tracked /\ Aged \in [Tracked -> Tracks]
  BY AgedIs DEF LostRound
<1>2. phase' = phase /\ todo' = todo /\ finishing' = finishing
      /\ trades' = trades /\ paper' = paper /\ events' = events
      /\ files' = files /\ audited' = audited
  BY DEF LostRound, bookVars, fileVars
<1>3. TrackOK'
  BY <1>1, <1>2 DEF TrackOK, Tracked
<1>4. (PhaseOK /\ TradesOK /\ EventsOK /\ FilesOK /\ AuditOK)'
  BY <1>2 DEF PhaseOK, TradesOK, EventsOK, FilesOK, AuditOK
<1>5. Sound(paper, Questions)' /\ Follows'
  BY <1>1, <1>2 DEF Follows, Tracked
<1> QED
  BY <1>3, <1>4, <1>5

LEMMA ObserveNewHolds == ASSUME NEW q \in Questions PROVE IInv /\ ObserveNew(q) => IInv'
<1> SUFFICES ASSUME IInv, ObserveNew(q) PROVE IInv'
  OBVIOUS
<1> USE DEF IInv
<1> DEFINE p == todo[q]
           refused == RiskRefuses(paper, p)
<1>1. /\ phase = "observe" /\ q \in DOMAIN todo \ Tracked
      /\ tracker' = Put(tracker, q, [age |-> 0, price |-> p])
      /\ todo' = Drop(todo, q)
      /\ trades' = Traded(q)
      /\ paper' = IF refused THEN paper ELSE Opened(paper, q, p)
      /\ events' = [events EXCEPT !.detected = events.detected + 1,
                      !.opens = IF refused THEN events.opens
                                ELSE Append(events.opens, Row(paper'.counter, q, "Buy"))]
      /\ phase' = phase /\ finishing' = finishing /\ files' = files /\ audited' = audited
  BY DEF ObserveNew, fileVars
<1>2. DOMAIN finishing = {}
  BY <1>1 DEF PhaseOK
<1>3. p \in Prices /\ p \in Nat
  BY <1>1, LoopParameters DEF TrackOK
<1>4. PhaseOK'
  BY <1>1, <1>2 DEF PhaseOK
<1>5. DOMAIN tracker' = Tracked \cup {q} /\ tracker' \in [DOMAIN tracker' -> Tracks]
  <2>1. [age |-> 0, price |-> p] \in Tracks
    BY <1>3, LoopParameters DEF Tracks
  <2>2. tracker \in [DOMAIN tracker -> Tracks]
    BY DEF TrackOK, Tracked
  <2> HIDE DEF p
  <2> QED
    BY <1>1, <2>1, <2>2 DEF Put, Tracked
<1>6. DOMAIN todo' = DOMAIN todo \ {q} /\ todo' \in [DOMAIN todo' -> Prices]
  BY <1>1 DEF TrackOK, Drop
<1>7. TrackOK'
  BY <1>1, <1>5, <1>6 DEF TrackOK, Tracked
<1>8. Sound(paper, Questions)' /\ paper'.questions \subseteq paper.questions \cup {q}
  <2>1. q \notin paper.questions
    BY <1>1, <1>2 DEF Follows
  <2> HIDE DEF p
  <2>2. CASE refused
    BY <1>1, <2>2
  <2>3. CASE ~ refused
    BY <1>1, <1>3, <2>1, <2>3, OpenedSound
  <2> QED
    BY <2>2, <2>3
<1>9. /\ TradesOK'
      /\ DOMAIN trades'.open = DOMAIN trades.open \cup {q}
  <2>1. q \notin DOMAIN trades.open
    BY <1>1, <1>2 DEF Follows
  <2>2. trades' = [trades EXCEPT !.counter = trades.counter + 1,
                                 !.open = Put(trades.open, q, trades.counter + 1)]
    BY <1>1, <2>1 DEF Traded
  <2>3. /\ DOMAIN trades' = {"open", "counter", "total"}
        /\ trades'.counter = trades.counter + 1
        /\ trades'.open = Put(trades.open, q, trades.counter + 1)
    BY <2>2 DEF TradesOK
  <2>4. trades.open \in [DOMAIN trades.open -> 1 .. trades.counter + 1]
        /\ trades.counter + 1 \in 1 .. trades.counter + 1
    BY DEF TradesOK
  <2>5. /\ trades'.open \in [DOMAIN trades'.open -> 1 .. trades.counter + 1]
        /\ DOMAIN trades'.open = DOMAIN trades.open \cup {q}
    BY <2>3, <2>4 DEF Put
  <2> QED
    BY <2>3, <2>5 DEF TradesOK
<1>10. EventsOK'
  <2>1. ~ refused => Row(paper'.counter, q, "Buy") \in Rows
    BY <1>8 DEF Sound, Books, Row, Rows
  <2>2. events'.opens \in Seq(Rows)
    BY <1>1, <2>1 DEF EventsOK
  <2> QED
    BY <1>1, <2>2 DEF EventsOK
<1>11. FilesOK' /\ AuditOK'
  BY <1>1 DEF FilesOK, AuditOK
<1>12. Follows'
  BY <1>1, <1>2, <1>5, <1>8, <1>9 DEF Follows, Tracked
<1> QED
  BY <1>4, <1>7, <1>8, <1>9, <1>10, <1>11, <1>12

LEMMA ObserveKnownHolds == ASSUME NEW q \in Questions PROVE IInv /\ ObserveKnown(q) => IInv'
<1> SUFFICES ASSUME IInv, ObserveKnown(q) PROVE IInv'
  OBVIOUS
<1> USE DEF IInv
<1>1. /\ phase = "observe" /\ q \in DOMAIN todo /\ q \in Tracked
      /\ tracker' = [tracker EXCEPT ![q] = [tracker[q] EXCEPT !.price = todo[q]]]
      /\ todo' = Drop(todo, q)
      /\ paper' = Marked(paper, q, todo[q])
      /\ phase' = phase /\ finishing' = finishing /\ trades' = trades /\ events' = events
      /\ files' = files /\ audited' = audited
  BY DEF ObserveKnown, fileVars
<1>2. PhaseOK'
  BY <1>1 DEF PhaseOK
<1>3. todo[q] \in Prices /\ todo[q] \in Nat
  BY <1>1, LoopParameters DEF TrackOK
<1>4. DOMAIN tracker' = Tracked /\ tracker' \in [Tracked -> Tracks]
  <2>1. tracker[q] \in Tracks
    BY <1>1 DEF TrackOK
  <2>2. [tracker[q] EXCEPT !.price = todo[q]] \in Tracks
    BY <1>3, <2>1 DEF Tracks
  <2>3. PICK e \in Tracks : tracker' = [tracker EXCEPT ![q] = e]
    BY <1>1, <2>2
  <2> QED
    BY <1>1, <2>3 DEF TrackOK, Tracked
<1>5. DOMAIN todo' \subseteq DOMAIN todo /\ todo' \in [DOMAIN todo' -> Prices]
  BY <1>1 DEF TrackOK, Drop
<1>6. TrackOK'
  BY <1>1, <1>4, <1>5 DEF TrackOK, Tracked
<1>7. Sound(paper, Questions)' /\ paper'.questions = paper.questions
  BY <1>1, <1>3, MarkedSound
<1>8. (TradesOK /\ EventsOK /\ FilesOK /\ AuditOK)'
  BY <1>1 DEF TradesOK, EventsOK, FilesOK, AuditOK
<1>9. Follows'
  BY <1>1, <1>4, <1>7 DEF Follows, Tracked
<1> QED
  BY <1>2, <1>6, <1>7, <1>8, <1>9

LEMMA ReapHolds == IInv /\ Reap => IInv'
<1> SUFFICES ASSUME IInv, Reap PROVE IInv'
  OBVIOUS
<1> USE DEF IInv
<1>1. /\ phase = "observe" /\ DOMAIN todo = {}
      /\ finishing' = [q \in Ended |-> tracker[q].price]
      /\ tracker' = [q \in Tracked \ Ended |-> tracker[q]]
      /\ events' = [events EXCEPT !.lifecycles = Cardinality(Ended)]
      /\ phase' = "close" /\ todo' = todo
      /\ trades' = trades /\ paper' = paper /\ files' = files /\ audited' = audited
  BY DEF Reap, fileVars
<1>2. Ended \subseteq Tracked
  BY DEF Ended
<1>3. PhaseOK'
  BY <1>1, StepsAre DEF PhaseOK
<1>4. TrackOK'
  <2>1. \A q \in Tracked : tracker[q] \in Tracks /\ tracker[q].price \in Prices
    BY DEF TrackOK, Tracks
  <2>2. tracker' \in [Tracked \ Ended -> Tracks] /\ finishing' \in [Ended -> Prices]
    BY <1>1, <1>2, <2>1
  <2> QED
    BY <1>1, <1>2, <2>2 DEF TrackOK, Tracked
<1>5. EventsOK'
  BY <1>1 DEF EventsOK
<1>6. (TradesOK /\ FilesOK /\ AuditOK)' /\ Sound(paper, Questions)'
  BY <1>1 DEF TradesOK, FilesOK, AuditOK
<1>7. Follows'
  <2>1. DOMAIN finishing = {}
    BY <1>1 DEF PhaseOK
  <2>2. DOMAIN tracker' \cup DOMAIN finishing' = Tracked
    BY <1>1, <1>2
  <2> QED
    BY <1>1, <2>1, <2>2 DEF Follows, Tracked
<1> QED
  BY <1>3, <1>4, <1>5, <1>6, <1>7

LEMMA OnCloseHolds == ASSUME NEW q \in Questions PROVE IInv /\ OnClose(q) => IInv'
<1> SUFFICES ASSUME IInv, OnClose(q) PROVE IInv'
  OBVIOUS
<1> USE DEF IInv
<1> DEFINE p == finishing[q]
           wasOpen == q \in DOMAIN trades.open
           closes == IF CanClose(paper, q) THEN Append(events.closes, Row(paper'.counter, q, "Sell"))
                     ELSE events.closes
           ended == IF wasOpen THEN Append(events.trades, trades.open[q]) ELSE events.trades
<1>1. /\ phase = "close" /\ q \in DOMAIN finishing
      /\ finishing' = Drop(finishing, q)
      /\ trades' = IF wasOpen
                   THEN [trades EXCEPT !.open = Drop(trades.open, q), !.total = trades.total + 1]
                   ELSE trades
      /\ paper' = AfterClose(paper, q, p)
      /\ events' = [events EXCEPT !.trades = ended, !.closes = closes]
      /\ phase' = phase /\ tracker' = tracker /\ todo' = todo
      /\ files' = files /\ audited' = audited
  BY DEF OnClose, fileVars
<1>2. PhaseOK'
  BY <1>1 DEF PhaseOK
<1>3. /\ p \in Prices /\ p \in Nat
      /\ DOMAIN finishing' = DOMAIN finishing \ {q} /\ finishing' \in [DOMAIN finishing' -> Prices]
  BY <1>1, LoopParameters DEF TrackOK, Drop
<1>4. TrackOK'
  BY <1>1, <1>3 DEF TrackOK, Tracked
<1>5. Sound(paper, Questions)' /\ paper'.questions = paper.questions \ {q}
  <2> HIDE DEF p
  <2> QED
    BY <1>1, <1>3, AfterCloseSound
<1>6. TradesOK' /\ DOMAIN trades'.open = DOMAIN trades.open \ {q}
  <2>1. wasOpen
    BY <1>1 DEF Follows
  <2>2. /\ DOMAIN trades' = {"open", "counter", "total"} /\ trades'.counter = trades.counter
        /\ trades'.open = Drop(trades.open, q)
    BY <1>1, <2>1 DEF TradesOK
  <2> QED
    BY <2>2 DEF TradesOK, Drop
<1>7. EventsOK'
  <2>1. Row(paper'.counter, q, "Sell") \in Rows
    BY <1>5 DEF Sound, Books, Row, Rows
  <2>2. closes \in Seq(Rows)
    BY <2>1 DEF EventsOK
  <2>3. ended \in Seq(Nat)
    BY DEF EventsOK, TradesOK
  <2> HIDE DEF closes, ended
  <2> QED
    BY <1>1, <2>2, <2>3 DEF EventsOK
<1>8. FilesOK' /\ AuditOK'
  BY <1>1 DEF FilesOK, AuditOK
<1>9. Follows'
  BY <1>1, <1>3, <1>5, <1>6 DEF Follows, Tracked
<1> QED
  BY <1>2, <1>4, <1>5, <1>6, <1>7, <1>8, <1>9

LEMMA OnScanHolds == IInv /\ OnScan => IInv'
<1> SUFFICES ASSUME IInv, OnScan PROVE IInv'
  OBVIOUS
<1> USE DEF IInv
<1>1. /\ phase = "close" /\ DOMAIN finishing = {}
      /\ paper' = Revalued(paper)
      /\ phase' = "detected"
      /\ tracker' = tracker /\ todo' = todo /\ finishing' = finishing
      /\ trades' = trades /\ events' = events /\ files' = files /\ audited' = audited
  BY DEF OnScan, fileVars, Steps
<1>2. PhaseOK'
  BY <1>1, StepsAre DEF PhaseOK
<1>3. Sound(paper, Questions)' /\ paper'.questions = paper.questions
  BY <1>1, RevaluedSound
<1>4. (TrackOK /\ TradesOK /\ EventsOK /\ FilesOK /\ AuditOK)'
  BY <1>1 DEF TrackOK, TradesOK, EventsOK, FilesOK, AuditOK, Tracked
<1>5. Follows'
  BY <1>1, <1>3 DEF Follows, Tracked
<1> QED
  BY <1>2, <1>3, <1>4, <1>5

(* After a file comes the next one.                                        *)
LEMMA NextPhase ==
  ASSUME phase \in {"detected", "lifecycles", "trades", "closes", "positions", "opens", "portfolio"}
  PROVE  /\ NextStep \in Phases
         /\ phase = "detected" => NextStep = "lifecycles"
         /\ phase = "lifecycles" => NextStep = "trades"
         /\ phase = "trades" => NextStep = "closes"
         /\ phase = "closes" => NextStep = "positions"
         /\ phase = "positions" => NextStep = "opens"
         /\ phase = "opens" => NextStep = "portfolio"
         /\ phase = "portfolio" => NextStep = "orders"
<1>1. /\ Steps[1] = "detected" /\ Steps[2] = "lifecycles" /\ Steps[3] = "trades" /\ Steps[4] = "closes"
      /\ Steps[5] = "positions" /\ Steps[6] = "opens" /\ Steps[7] = "portfolio" /\ Steps[8] = "orders"
  BY DEF Steps
<1>2. \A k \in 1 .. 7 : phase = Steps[k] => NextStep = Steps[k + 1]
  BY NextStepIs
<1> HIDE DEF Steps, NextStep
<1>3. /\ phase = Steps[1] => NextStep = Steps[2]
      /\ phase = Steps[2] => NextStep = Steps[3]
      /\ phase = Steps[3] => NextStep = Steps[4]
      /\ phase = Steps[4] => NextStep = Steps[5]
      /\ phase = Steps[5] => NextStep = Steps[6]
      /\ phase = Steps[6] => NextStep = Steps[7]
      /\ phase = Steps[7] => NextStep = Steps[8]
  BY <1>2
<1> QED
  BY <1>1, <1>3, StepsAre

LEMMA AppendRowsHolds == IInv /\ AppendRows => IInv'
<1> SUFFICES ASSUME IInv, AppendRows PROVE IInv'
  OBVIOUS
<1> USE DEF IInv
<1>1. /\ phase \in {"detected", "lifecycles", "trades", "closes", "positions", "opens"}
      /\ files' = Written /\ phase' = NextStep
      /\ tracker' = tracker /\ todo' = todo /\ finishing' = finishing /\ trades' = trades
      /\ paper' = paper /\ events' = events /\ audited' = audited
  BY DEF AppendRows, scanVars, bookVars
<1>2. PhaseOK'
  BY <1>1, NextPhase DEF PhaseOK
<1>3. FilesOK'
  <2>1. CASE phase = "detected"
    BY <1>1, <2>1 DEF Written, FilesOK
  <2>2. CASE phase = "lifecycles"
    BY <1>1, <2>2 DEF Written, FilesOK
  <2>3. CASE phase = "trades"
    <3>1. files' = [files EXCEPT !.trades = files.trades \o events.trades]
      BY <1>1, <2>3 DEF Written
    <3>2. files.trades \o events.trades \in Seq(Nat)
      BY DEF FilesOK, EventsOK
    <3> QED
      BY <3>1, <3>2 DEF FilesOK
  <2>4. CASE phase = "closes"
    <3>1. files' = [files EXCEPT !.orders = files.orders \o events.closes]
      BY <1>1, <2>4 DEF Written
    <3>2. files.orders \o events.closes \in Seq(Rows)
      BY DEF FilesOK, EventsOK
    <3> QED
      BY <3>1, <3>2 DEF FilesOK
  <2>5. CASE phase = "positions"
    BY <1>1, <2>5 DEF Written, FilesOK
  <2>6. CASE phase = "opens"
    <3>1. files' = [files EXCEPT !.orders = files.orders \o events.opens]
      BY <1>1, <2>6 DEF Written
    <3>2. files.orders \o events.opens \in Seq(Rows)
      BY DEF FilesOK, EventsOK
    <3> QED
      BY <3>1, <3>2 DEF FilesOK
  <2> QED
    BY <1>1, <2>1, <2>2, <2>3, <2>4, <2>5, <2>6
<1>4. (TrackOK /\ TradesOK /\ EventsOK /\ AuditOK)' /\ Sound(paper, Questions)' /\ Follows'
  BY <1>1 DEF TrackOK, TradesOK, EventsOK, AuditOK, Follows, Tracked
<1> QED
  BY <1>2, <1>3, <1>4

LEMMA SavePortfolioHolds == IInv /\ SavePortfolio => IInv'
<1> SUFFICES ASSUME IInv, SavePortfolio PROVE IInv'
  OBVIOUS
<1> USE DEF IInv
<1>1. /\ phase = "portfolio" /\ phase' = NextStep
      /\ tracker' = tracker /\ todo' = todo /\ finishing' = finishing /\ trades' = trades
      /\ paper' = paper /\ events' = events /\ files' = files /\ audited' = audited
  BY DEF SavePortfolio, scanVars, bookVars
<1>2. PhaseOK'
  BY <1>1, NextPhase DEF PhaseOK
<1>3. (TrackOK /\ TradesOK /\ EventsOK /\ FilesOK /\ AuditOK)' /\ Sound(paper, Questions)' /\ Follows'
  BY <1>1 DEF TrackOK, TradesOK, EventsOK, FilesOK, AuditOK, Follows, Tracked
<1> QED
  BY <1>2, <1>3

LEMMA AppendOrdersHolds == IInv /\ AppendOrders => IInv'
<1> SUFFICES ASSUME IInv, AppendOrders PROVE IInv'
  OBVIOUS
<1> USE DEF IInv
<1>1. /\ phase = "orders" /\ phase' = "idle"
      /\ files' = [files EXCEPT !.execution = files.execution + Cardinality(terminal)]
      /\ events' = NoEvents
      /\ tracker' = tracker /\ todo' = todo /\ finishing' = finishing /\ trades' = trades
      /\ paper' = paper /\ audited' = audited
  BY DEF AppendOrders, scanVars, Idle
<1>2. PhaseOK'
  BY <1>1, StepsAre DEF PhaseOK
<1>3. FilesOK' /\ EventsOK'
  BY <1>1 DEF FilesOK, EventsOK, NoEvents
<1>4. (TrackOK /\ TradesOK /\ AuditOK)' /\ Sound(paper, Questions)' /\ Follows'
  BY <1>1 DEF TrackOK, TradesOK, AuditOK, Follows, Tracked
<1> QED
  BY <1>2, <1>3, <1>4

LEMMA RestartHolds == IInv /\ Restart => IInv'
<1> SUFFICES ASSUME IInv, Restart PROVE IInv'
  OBVIOUS
<1> USE DEF IInv
<1>1. /\ phase' = "idle" /\ tracker' = << >> /\ todo' = << >> /\ finishing' = << >>
      /\ trades' = [open |-> << >>, counter |-> Len(files.trades), total |-> Len(files.trades)]
      /\ paper' = NewBooks(Len(files.orders))
      /\ events' = NoEvents /\ files' = files /\ audited' = audited
  BY DEF Restart, Idle
<1>2. Len(files.trades) \in Nat /\ Len(files.orders) \in Nat
  BY DEF FilesOK
<1>3. PhaseOK' /\ TrackOK' /\ TradesOK'
  BY <1>1, <1>2, StepsAre DEF PhaseOK, TrackOK, TradesOK, Tracked
<1>4. EventsOK' /\ FilesOK' /\ AuditOK'
  BY <1>1 DEF EventsOK, FilesOK, AuditOK, NoEvents
<1>5. Sound(paper, Questions)' /\ paper'.questions = {}
  BY <1>1, <1>2, NewBooksSound
<1>6. Follows'
  BY <1>1, <1>5 DEF Follows, Tracked
<1> QED
  BY <1>3, <1>4, <1>5, <1>6

LEMMA NextHolds == IInv /\ [Next]_vars => IInv'
<1> SUFFICES ASSUME IInv, [Next]_vars PROVE IInv'
  OBVIOUS
<1>1. CASE Fetch
  BY <1>1, FetchHolds
<1>2. CASE LostRound
  BY <1>2, LostRoundHolds
<1>3. CASE \E q \in Questions : ObserveNew(q) \/ ObserveKnown(q) \/ OnClose(q)
  BY <1>3, ObserveNewHolds, ObserveKnownHolds, OnCloseHolds
<1>4. CASE Reap
  BY <1>4, ReapHolds
<1>5. CASE OnScan
  BY <1>5, OnScanHolds
<1>6. CASE AppendRows
  BY <1>6, AppendRowsHolds
<1>7. CASE SavePortfolio
  BY <1>7, SavePortfolioHolds
<1>8. CASE AppendOrders
  BY <1>8, AppendOrdersHolds
<1>9. CASE Stop \/ Kill
  BY <1>9, RestartHolds DEF Stop, Kill
<1>10. CASE Audit \/ AuditEnds \/ UNCHANGED vars
  <2>1. /\ phase' = phase /\ tracker' = tracker /\ todo' = todo /\ finishing' = finishing
        /\ trades' = trades /\ paper' = paper /\ events' = events /\ files' = files
    BY <1>10 DEF Audit, AuditEnds, vars, scanVars, bookVars, fileVars
  <2>2. AuditOK'
    <3>1. Len(files.orders) \in Nat
      BY DEF IInv, FilesOK
    <3> QED
      BY <1>10, <3>1 DEF IInv, Audit, AuditEnds, vars, AuditOK
  <2> QED
    BY <2>1, <2>2 DEF IInv, PhaseOK, TrackOK, TradesOK, EventsOK, FilesOK, Follows, Tracked
<1> QED
  BY <1>1, <1>2, <1>3, <1>4, <1>5, <1>6, <1>7, <1>8, <1>9, <1>10 DEF Next, Step

--------------------------------------------------------------------------------
(* The theorems *)

(* The inductive invariant of the loop: what the strategy's engines, the   *)
(* tracker and the files hold in every phase of a scan.                    *)
THEOREM ScanInvariance == Spec => []IInv
  BY InitHolds, NextHolds, PTL DEF Spec

(* Every variable of run_scan's loop has its type.                         *)
THEOREM ScanTypes == Spec => []TypeOK
<1>1. IInv => TypeOK
  <2> SUFFICES ASSUME IInv PROVE TypeOK
    OBVIOUS
  <2> USE DEF IInv
  <2>1. tracker \in [Tracked -> [age : 0 .. MaxAge + 1, price : Prices]]
    BY DEF TrackOK, Tracks
  <2>2. Tracked \cup DOMAIN todo \cup DOMAIN finishing \cup DOMAIN trades.open \subseteq Questions
    BY DEF TrackOK, Follows
  <2>3. /\ paper.questions \subseteq Questions
        /\ \A i \in DOMAIN paper.held :
             i \in 1 .. paper.counter /\ paper.held[i].question \in Questions
    <3>1. paper.questions \subseteq Questions
      BY DEF Sound, Books
    <3>2. paper.questions = { paper.held[i].question : i \in DOMAIN paper.held }
      BY DEF Sound, ListsAgree
    <3> QED
      BY <3>1, <3>2 DEF Sound
  <2> QED
    BY <2>1, <2>2, <2>3 DEF TypeOK, PhaseOK, TrackOK, TradesOK, EventsOK, FilesOK, AuditOK
<1> QED
  BY <1>1, ScanInvariance, PTL

(* The shadow engine, the paper engine's list and the portfolio follow the *)
(* tracker: DefaultStrategy opens and closes all of them together.         *)
THEOREM BooksFollow == Spec => []BooksFollowTracker
<1>1. IInv => BooksFollowTracker
  BY DEF IInv, Follows, Sound, ListsAgree, BooksFollowTracker
<1> QED
  BY <1>1, ScanInvariance, PTL

(* Portfolio's cash, locked cash and realized profit make up its capital,  *)
(* and the risk checks keep its cash from going below zero.                *)
THEOREM MoneyOnPaper == Spec => []PaperMoney
<1>1. IInv => PaperMoney
  BY DEF IInv, Sound, MoneyAddsUp, Costs, PaperMoney
<1> QED
  BY <1>1, ScanInvariance, PTL

--------------------------------------------------------------------------------
(* The simulator in the loop *)

(* What is proved of the simulator by itself, said of the loop's variables. *)
Engine == INSTANCE ExecutionEngineProofs

(* What the loop lets the simulator do, but for draining what has ended.   *)
ExecWorks ==
  \/ \E q \in Questions, p \in Prices : Exec!SubmitBuy(q, p)
  \/ \E p \in Prices : Exec!RejectBuy(p)
  \/ \E q \in Questions, p \in Prices : Exec!SubmitSell(q, p)
  \/ \E q \in Questions, p \in Prices : Exec!RejectSell(q, p)
  \/ Exec!Tick

(* The loop and the simulator's own proofs mean the same by its actions.   *)
LEMMA SameActions ==
  (ExecWorks <=> Engine!Works) /\ (Exec!DrainTerminal <=> Engine!DrainTerminal)
  BY DEF ExecWorks, Engine!Works, Exec!SubmitBuy, Engine!SubmitBuy, Exec!SubmitSell, Engine!SubmitSell,
         Exec!RejectBuy, Engine!RejectBuy, Exec!RejectSell, Engine!RejectSell,
         Exec!Reject, Engine!Reject, Exec!Enqueue, Engine!Enqueue,
         Exec!NewOrder, Engine!NewOrder, Exec!Unacceptable,
         Engine!Unacceptable, Exec!Refused, Engine!Refused,
         Exec!PartialSchedules, Engine!PartialSchedules, Exec!SaleSchedules,
         Engine!SaleSchedules, Exec!NoPosition, Engine!NoPosition, Exec!Tick,
         Engine!Tick, Exec!DrainTerminal, Engine!DrainTerminal, Exec!Scan,
         Engine!Scan, Exec!Profit, Engine!Profit, Exec!After, Engine!After,
         Exec!Staying, Engine!Staying, Exec!CashIn, Engine!CashIn, Exec!Held,
         Engine!Held, Exec!Unlocked, Engine!Unlocked, Exec!Ended, Engine!Ended,
         Exec!Lapsing, Engine!Lapsing, Exec!Counted, Engine!Counted,
         Exec!StatusAfter, Engine!StatusAfter, Exec!Batch, Engine!Batch,
         Exec!TimedOut, Engine!TimedOut, Exec!Waited, Engine!Waited,
         Exec!FillPrice, Engine!FillPrice, Exec!Ending, Engine!Ending,
         Exec!Sells, Engine!Sells, Exec!Buys, Engine!Buys, Exec!Unfilled,
         Engine!Unfilled, Exec!Released, Engine!Released, Exec!Slippage,
         Engine!Slippage, Exec!Proceeds, Engine!Proceeds, Exec!Live,
         Engine!Live, Exec!Max, Engine!Max, Exec!Cardinality,
         Engine!Cardinality, Exec!SumFunction, Engine!SumFunction,
         Exec!SumFunctionOnSet, Engine!SumFunctionOnSet,
         Exec!FoldFunctionOnSet, Engine!FoldFunctionOnSet, Exec!MapThenFoldSet,
         Engine!MapThenFoldSet, Exec!IsFiniteSet, Engine!IsFiniteSet

LEMMA SameSizes ==
  ASSUME NEW S
  PROVE  Engine!Cardinality(S) = Cardinality(S) /\ (Engine!IsFiniteSet(S) <=> IsFiniteSet(S))
  BY DEF Engine!Cardinality, Cardinality, Engine!IsFiniteSet, IsFiniteSet

LEMMA EngineAssumptions ==
  Engine!EngineParameters /\ Engine!WholeShares /\ Engine!FinitelyMany
  BY LoopParameters, SimulatorParameters, SameSizes
     DEF Engine!EngineParameters, Engine!WholeShares, Engine!FinitelyMany

(* A run that begins has the configuration and the files.                  *)
Starts ==
  /\ counter' = files.execution
  /\ pending' = << >> /\ terminal' = {} /\ overwritten' = << >>
  /\ open' = [q \in Questions |-> Exec!NoPosition]
  /\ realized' = 0 /\ available' = Capital /\ pendingCash' = 0
  /\ stats' = [s \in DOMAIN stats |-> 0]
  /\ params' = params /\ files' = files /\ boots' = boots + 1

SameFile == files'.execution = files.execution

(* Every step of the loop leaves the simulator and its file alone, or is   *)
(* one step of it, which drains it only when its rows are written, or      *)
(* starts it again.                                                        *)
LEMMA LoopDrives ==
  ASSUME IInv, [Next]_vars, files.execution \in Nat
  PROVE  \/ UNCHANGED execVars /\ SameFile
         \/ ExecWorks /\ SameFile
         \/ Exec!DrainTerminal /\ files'.execution = files.execution + Cardinality(terminal)
         \/ Starts
<1>f. DOMAIN files = {"detected", "lifecycles", "trades", "orders", "positions", "execution"}
  BY DEF IInv, FilesOK
<1>p. /\ \A q \in DOMAIN todo : todo[q] \in Prices
      /\ \A q \in DOMAIN finishing : finishing[q] \in Prices
  BY DEF IInv, TrackOK
<1>1. CASE Fetch \/ LostRound \/ Reap \/ Audit \/ AuditEnds \/ SavePortfolio
  BY <1>1 DEF Fetch, LostRound, Reap, Audit, AuditEnds, SavePortfolio, fileVars, SameFile
<1>2. ASSUME NEW q \in Questions, ObserveNew(q) PROVE ExecWorks /\ SameFile
  <2>1. todo[q] \in Prices /\ (Exec!SubmitBuy(q, todo[q]) \/ Exec!RejectBuy(todo[q]))
    BY <1>2, <1>p DEF ObserveNew
  <2>2. files' = files
    BY <1>2 DEF ObserveNew, fileVars
  <2> QED
    BY <2>1, <2>2 DEF ExecWorks, SameFile
<1>3. ASSUME NEW q \in Questions, ObserveKnown(q) PROVE UNCHANGED execVars /\ SameFile
  BY <1>3 DEF ObserveKnown, fileVars, SameFile
<1>4. ASSUME NEW q \in Questions, OnClose(q) PROVE ExecWorks /\ SameFile
  <2>1. /\ finishing[q] \in Prices
        /\ Exec!SubmitSell(q, finishing[q]) \/ Exec!RejectSell(q, finishing[q])
    BY <1>4, <1>p DEF OnClose
  <2>2. files' = files
    BY <1>4 DEF OnClose, fileVars
  <2> QED
    BY <2>1, <2>2 DEF ExecWorks, SameFile
<1>5. CASE OnScan
  BY <1>5 DEF OnScan, fileVars, ExecWorks, SameFile
<1>6. CASE AppendRows
  BY <1>6, <1>f DEF AppendRows, Written, SameFile
<1>7. CASE AppendOrders
  <2>1. files'.execution = files.execution + Cardinality(terminal)
    BY <1>7, <1>f DEF AppendOrders
  <2>2. CASE terminal = {}
    <3>1. Cardinality(terminal) = 0
      BY <2>2, FS_EmptySet
    <3> QED
      BY <1>7, <2>1, <2>2, <3>1 DEF AppendOrders, SameFile
  <2>3. CASE terminal # {}
    BY <1>7, <2>1, <2>3 DEF AppendOrders
  <2> QED
    BY <2>2, <2>3
<1>8. CASE Stop \/ Kill
  BY <1>8 DEF Stop, Kill, Restart, Starts
<1>9. CASE UNCHANGED vars
  BY <1>9 DEF vars, fileVars, SameFile
<1> QED
  BY <1>1, <1>2, <1>3, <1>4, <1>5, <1>6, <1>7, <1>8, <1>9 DEF Next, Step

(* The simulator's invariant and the numbers of its orders: each is of an  *)
(* order that is pending, has ended or has its row in the file.            *)
EngineOK ==
  /\ Engine!IInv /\ Engine!Told
  /\ files.execution \in Nat
  /\ files.execution + Engine!Undrained = counter

LEMMA EngineBegins ==
  Engine!JustStarted => Engine!IInv /\ Engine!Told /\ Engine!Undrained = 0
  BY EngineAssumptions, Engine!StartHolds, Engine!ToldAtStart

LEMMA EngineBeginsNext ==
  Engine!JustStarted' => Engine!IInv' /\ Engine!Told' /\ (Engine!Undrained = 0)'
  BY EngineBegins, PTL

LEMMA EngineNumbers ==
  ASSUME EngineOK
  PROVE  /\ Engine!Undrained \in Nat /\ counter \in Nat
         /\ Cardinality(terminal) \in Nat
         /\ Engine!Cardinality(terminal) = Cardinality(terminal)
         /\ files.execution \in 0 .. MaxOrders
<1>1. Engine!Undrained \in Nat /\ counter \in Nat /\ Engine!Cardinality(terminal) \in Nat
  BY EngineAssumptions, Engine!UndrainedIs DEF EngineOK
<1>2. counter \in 0 .. MaxOrders
  BY DEF EngineOK, Engine!IInv, Engine!TypeOK
<1> QED
  BY <1>1, <1>2, SameSizes, SimulatorParameters DEF EngineOK

LEMMA EngineInit == Init => EngineOK
<1> SUFFICES ASSUME Init PROVE EngineOK
  OBVIOUS
<1>1. Engine!JustStarted
  BY SimulatorParameters
     DEF Init, Exec!Init, Engine!JustStarted, Exec!NoPosition, Engine!NoPosition
<1>2. files.execution = 0 /\ counter = 0
  BY DEF Init, NoRows, Exec!Init
<1> QED
  BY <1>1, <1>2, EngineBegins DEF EngineOK

LEMMA EngineNext == IInv /\ EngineOK /\ [Next]_vars => EngineOK'
<1> SUFFICES ASSUME IInv, EngineOK, [Next]_vars PROVE EngineOK'
  OBVIOUS
<1>n. /\ Engine!Undrained \in Nat /\ counter \in Nat /\ Cardinality(terminal) \in Nat
      /\ Engine!Cardinality(terminal) = Cardinality(terminal)
      /\ files.execution \in 0 .. MaxOrders /\ files.execution \in Nat
      /\ files.execution + Engine!Undrained = counter
      /\ Engine!IInv /\ Engine!Told
  BY EngineNumbers DEF EngineOK
<1>1. CASE UNCHANGED execVars /\ SameFile
  <2>1. UNCHANGED Engine!vars
    BY <1>1 DEF execVars, Engine!vars
  <2>2. Engine!IInv'
    BY <1>n, <2>1, EngineAssumptions, Engine!StepHolds
  <2>3. Engine!Told' /\ Engine!Undrained' = Engine!Undrained
    BY <1>n, <1>1 DEF execVars, Engine!Told, Engine!EndsOnce, Engine!Undrained
  <2> QED
    BY <1>1, <1>n, <2>2, <2>3 DEF EngineOK, SameFile, execVars
<1>2. CASE ExecWorks /\ SameFile
  <2>1. Engine!Works
    BY <1>2, SameActions
  <2>2. Engine!IInv'
    BY <1>n, <2>1, EngineAssumptions, Engine!StepHolds DEF Engine!Works, Engine!Next
  <2>3. /\ Engine!Told' /\ counter' \in Nat /\ Engine!Undrained' \in Nat
        /\ counter' - counter = Engine!Undrained' - Engine!Undrained
    BY <1>n, <2>1, EngineAssumptions, Engine!ToldAtWork
  <2>4. files'.execution + Engine!Undrained' = counter'
    BY <1>2, <1>n, <2>3 DEF SameFile
  <2> QED
    BY <1>2, <1>n, <2>2, <2>3, <2>4 DEF EngineOK, SameFile
<1>3. CASE Exec!DrainTerminal /\ files'.execution = files.execution + Cardinality(terminal)
  <2>1. Engine!DrainTerminal
    BY <1>3, SameActions
  <2>2. Engine!IInv'
    BY <1>n, <2>1, EngineAssumptions, Engine!StepHolds DEF Engine!Next
  <2>3. /\ Engine!Told' /\ counter' = counter /\ Engine!Undrained' \in Nat
        /\ Engine!Undrained = Engine!Undrained' + Cardinality(terminal)
    BY <1>n, <2>1, EngineAssumptions, Engine!ToldDrained
  <2> QED
    BY <1>3, <1>n, <2>2, <2>3 DEF EngineOK
<1>4. CASE Starts
  <2>1. Engine!JustStarted'
    <3>1. params \in Params /\ DOMAIN stats = {"total", "filled", "cancelled", "expired", "rejected"}
      BY <1>n DEF Engine!IInv, Engine!TypeOK
    <3> QED
      BY <1>4, <1>n, <3>1
         DEF Starts, Engine!JustStarted, Exec!NoPosition, Engine!NoPosition
  <2>2. Engine!IInv' /\ Engine!Told' /\ Engine!Undrained' = 0
    BY <2>1, EngineBeginsNext
  <2> QED
    BY <1>4, <1>n, <2>2 DEF EngineOK, Starts
<1> QED
  BY <1>1, <1>2, <1>3, <1>4, <1>n, LoopDrives

LEMMA EngineInvariance == Spec => []EngineOK
  BY EngineInit, EngineNext, ScanInvariance, PTL DEF Spec

LEMMA SamePromises ==
  /\ Exec!TypeOK <=> Engine!TypeOK
  /\ Exec!MoneyIsConserved <=> Engine!MoneyIsConserved
  /\ Exec!ReservedIsPending <=> Engine!ReservedIsPending
  /\ Exec!EndsInTime <=> Engine!EndsInTime
  /\ Exec!EndedAsReported <=> Engine!EndedAsReported
  /\ Exec!SalesKeepPositions <=> Engine!SalesKeepPositions
  /\ Exec!StatsAddUp <=> Engine!StatsAddUp
  BY DEF Exec!TypeOK, Engine!TypeOK, Exec!Orders, Engine!Orders, Exec!Live, Engine!Live,
         Exec!Gone, Engine!Gone, Exec!Positions, Engine!Positions,
         Exec!MoneyIsConserved, Engine!MoneyIsConserved, Exec!CostIn, Engine!CostIn,
         Exec!OnSale, Engine!OnSale, Exec!ReservedIsPending, Engine!ReservedIsPending,
         Exec!Reserve, Engine!Reserve, Exec!EndsInTime, Engine!EndsInTime,
         Exec!EndedAsReported, Engine!EndedAsReported,
         Exec!SalesKeepPositions, Engine!SalesKeepPositions,
         Exec!NoPosition, Engine!NoPosition, Exec!StatsAddUp, Engine!StatsAddUp,
         Exec!Cardinality, Engine!Cardinality, Exec!IsFiniteSet, Engine!IsFiniteSet,
         Exec!SumFunction, Engine!SumFunction, Exec!SumFunctionOnSet,
         Engine!SumFunctionOnSet, Exec!FoldFunctionOnSet, Engine!FoldFunctionOnSet,
         Exec!MapThenFoldSet, Engine!MapThenFoldSet

(* What the simulator promises by itself it promises in the loop, over any *)
(* number of stops, kills and starts with nothing but the configuration    *)
(* and the row count.                                                      *)
THEOREM SimulatorKeepsPromises ==
  Spec => [](/\ Exec!TypeOK /\ Exec!MoneyIsConserved /\ Exec!ReservedIsPending
             /\ Exec!EndsInTime /\ Exec!EndedAsReported
             /\ Exec!SalesKeepPositions /\ Exec!StatsAddUp)
<1>1. EngineOK => /\ Exec!TypeOK /\ Exec!MoneyIsConserved /\ Exec!ReservedIsPending
                  /\ Exec!EndsInTime /\ Exec!EndedAsReported
                  /\ Exec!SalesKeepPositions /\ Exec!StatsAddUp
  BY SamePromises DEF EngineOK, Engine!IInv
<1> QED
  BY <1>1, EngineInvariance, PTL

(* Whatever the loop does is a step of the simulator or leaves it alone,   *)
(* but for a start of the program.                                         *)
THEOREM LoopRunsSimulator == Spec => Exec!Init /\ [][Exec!Next \/ Starts]_execVars
<1>1. IInv /\ EngineOK /\ [Next]_vars => [Exec!Next \/ Starts]_execVars
  <2>1. ExecWorks => Exec!Next
    BY DEF ExecWorks, Exec!Next
  <2>2. Exec!DrainTerminal => Exec!Next
    BY DEF Exec!Next
  <2> QED
    BY <2>1, <2>2, LoopDrives DEF EngineOK
<1>2. Init => Exec!Init
  BY DEF Init
<1> QED
  BY <1>1, <1>2, ScanInvariance, EngineInvariance, PTL DEF Spec

(* The numbers of the simulator's orders: every one is the number of an    *)
(* order that is pending or has ended, or of a row of the file.            *)
LEMMA NumbersHaveOrders ==
  EngineOK => files.execution + Cardinality(terminal) + Cardinality(DOMAIN pending) = counter
<1> SUFFICES ASSUME EngineOK
             PROVE  files.execution + Cardinality(terminal) + Cardinality(DOMAIN pending) = counter
  OBVIOUS
<1>1. Engine!Undrained = Cardinality(terminal) + Cardinality(DOMAIN pending)
  BY SameSizes DEF Engine!Undrained
<1>2. Cardinality(DOMAIN pending) \in Nat /\ Cardinality(terminal) \in Nat
  BY SameSizes, EngineAssumptions, Engine!UndrainedIs DEF EngineOK
<1> QED
  BY <1>1, <1>2 DEF EngineOK

--------------------------------------------------------------------------------
(* The numbers of the orders *)

(* What a scan has sold and bought and not written yet.                    *)
ToWrite(steps, rows) == IF phase \in {Idle, "observe", "close", "detected", "lifecycles", "trades", "closes"} \cup steps
                        THEN rows ELSE << >>

Closes == ToWrite({}, events.closes)
Opens  == ToWrite({"positions", "opens"}, events.opens)

UpTo(rows, n)  == \A i \in DOMAIN rows : rows[i].id <= n
Distinct(rows) == \A i, j \in DOMAIN rows : rows[i].id = rows[j].id => i = j
Apart(r, s)    == \A i \in DOMAIN r : \A j \in DOMAIN s : r[i].id # s[j].id

(* Between scans nothing is left to write; and while no run was killed,    *)
(* every number up to the last stands in one row, written or not.          *)
Numbered(written, closes, opens, n) ==
  /\ Len(written) + Len(closes) + Len(opens) = n
  /\ UpTo(written, n) /\ UpTo(closes, n) /\ UpTo(opens, n)
  /\ Distinct(written) /\ Distinct(closes) /\ Distinct(opens)
  /\ Apart(written, closes) /\ Apart(written, opens) /\ Apart(closes, opens)

NumbersOK ==
  /\ phase = Idle => events = NoEvents
  /\ ~ killed => Numbered(files.orders, Closes, Opens, paper.counter)

LEMMA NumbersAreNat ==
  ASSUME NEW r \in Seq(Rows)
  PROVE  \A i \in DOMAIN r : r[i].id \in Nat
<1>1. \A i \in DOMAIN r : r[i] \in Rows
  OBVIOUS
<1> QED
  BY <1>1 DEF Rows

LEMMA NextNumber ==
  ASSUME NEW n \in Nat, NEW r \in Seq(Rows), NEW q \in Questions, NEW side \in {"Buy", "Sell"},
         NEW s \in Seq(Rows), UpTo(r, n), UpTo(s, n), Distinct(r), Apart(r, s)
  PROVE  LET t == Append(r, Row(n + 1, q, side))
         IN  t \in Seq(Rows) /\ Len(t) = Len(r) + 1 /\ UpTo(t, n + 1) /\ Distinct(t)
             /\ Apart(t, s) /\ UpTo(s, n + 1)
<1> DEFINE x == Row(n + 1, q, side)
           t == Append(r, x)
<1>1. x \in Rows /\ x.id = n + 1
  BY DEF Row, Rows
<1> HIDE DEF x
<1>2. /\ t \in Seq(Rows) /\ Len(t) = Len(r) + 1 /\ DOMAIN t = 1 .. Len(r) + 1
      /\ DOMAIN r = 1 .. Len(r) /\ Len(r) \in Nat
      /\ \A i \in DOMAIN r : t[i] = r[i]
      /\ t[Len(r) + 1] = x
  BY <1>1
<1>3. \A i \in DOMAIN r : r[i].id \in Nat
  BY NumbersAreNat
<1>4. \A i \in DOMAIN s : s[i].id \in Nat
  BY NumbersAreNat
<1> HIDE DEF t
<1>5. UpTo(t, n + 1) /\ UpTo(s, n + 1)
  <2>1. \A i \in DOMAIN r : r[i].id <= n + 1
    BY <1>3 DEF UpTo
  <2>2. \A i \in DOMAIN s : s[i].id <= n + 1
    BY <1>4 DEF UpTo
  <2>3. \A i \in DOMAIN t : t[i].id <= n + 1
    BY <1>1, <1>2, <2>1
  <2> QED
    BY <2>2, <2>3 DEF UpTo
<1>6. Distinct(t)
  BY <1>1, <1>2, <1>3 DEF UpTo, Distinct
<1>7. Apart(t, s)
  BY <1>1, <1>2, <1>4 DEF UpTo, Apart
<1> QED
  BY <1>2, <1>5, <1>6, <1>7 DEF t, x

LEMMA AppendedRows ==
  ASSUME NEW r \in Seq(Rows), NEW s \in Seq(Rows), NEW t \in Seq(Rows), NEW n \in Nat,
         Numbered(r, s, t, n)
  PROVE  Numbered(r \o s, << >>, t, n)
<1>1. /\ r \o s \in Seq(Rows) /\ Len(r \o s) = Len(r) + Len(s)
      /\ DOMAIN r = 1 .. Len(r) /\ DOMAIN s = 1 .. Len(s) /\ DOMAIN (r \o s) = 1 .. Len(r) + Len(s)
      /\ Len(r) \in Nat /\ Len(s) \in Nat
      /\ \A i \in 1 .. Len(r) + Len(s) : (r \o s)[i] = IF i <= Len(r) THEN r[i] ELSE s[i - Len(r)]
  OBVIOUS
<1>2. ASSUME NEW i \in DOMAIN (r \o s)
      PROVE  \/ i \in DOMAIN r /\ (r \o s)[i] = r[i]
             \/ i > Len(r) /\ i - Len(r) \in DOMAIN s /\ (r \o s)[i] = s[i - Len(r)]
  BY <1>1
<1> DEFINE u == r \o s
<1> HIDE DEF u
<1>3. UpTo(u, n)
  BY <1>2 DEF Numbered, UpTo, u
<1>4. Distinct(u)
  <2> SUFFICES ASSUME NEW i \in DOMAIN u, NEW j \in DOMAIN u, u[i].id = u[j].id
               PROVE  i = j
    BY DEF Distinct
  <2>1. /\ \/ i \in DOMAIN r /\ u[i] = r[i]
           \/ i > Len(r) /\ i - Len(r) \in DOMAIN s /\ u[i] = s[i - Len(r)]
        /\ \/ j \in DOMAIN r /\ u[j] = r[j]
           \/ j > Len(r) /\ j - Len(r) \in DOMAIN s /\ u[j] = s[j - Len(r)]
    BY <1>2 DEF u
  <2>2. /\ \A k, l \in DOMAIN r : r[k].id = r[l].id => k = l
        /\ \A k, l \in DOMAIN s : s[k].id = s[l].id => k = l
        /\ \A k \in DOMAIN r : \A l \in DOMAIN s : r[k].id # s[l].id
    BY DEF Numbered, Distinct, Apart
  <2>3. i \in Int /\ j \in Int
    BY <1>1 DEF u
  <2> QED
    BY <1>1, <2>1, <2>2, <2>3
<1>5. Apart(u, t)
  BY <1>2 DEF Numbered, Apart, u
<1>6. UpTo(<< >>, n) /\ Distinct(<< >>) /\ Apart(u, << >>) /\ Apart(<< >>, t) /\ Len(<< >>) = 0
  BY DEF UpTo, Distinct, Apart
<1>7. Len(u) + 0 + Len(t) = n
  BY <1>1 DEF Numbered, u
<1> QED
  BY <1>3, <1>4, <1>5, <1>6, <1>7 DEF Numbered, u

LEMMA NumbersInit == Init => NumbersOK
<1> SUFFICES ASSUME Init PROVE NumbersOK
  OBVIOUS
<1>1. /\ phase = "idle" /\ events = NoEvents /\ files.orders = << >> /\ paper.counter = 0
  BY DEF Init, Idle, NoRows, NewBooks
<1>2. Closes = << >> /\ Opens = << >>
  BY <1>1 DEF Closes, Opens, ToWrite, NoEvents
<1> QED
  BY <1>1, <1>2 DEF NumbersOK, Numbered, UpTo, Distinct, Apart

(* A step that leaves the rows alone, and what is left to write of them.   *)
LEMMA NumbersStay ==
  ASSUME NumbersOK, files'.orders = files.orders, Closes' = Closes, Opens' = Opens,
         paper'.counter = paper.counter, killed' = killed, phase' # Idle \/ events' = NoEvents
  PROVE  NumbersOK'
  BY DEF NumbersOK

LEMMA NumbersNext == IInv /\ NumbersOK /\ [Next]_vars => NumbersOK'
<1> SUFFICES ASSUME IInv, NumbersOK, [Next]_vars PROVE NumbersOK'
  OBVIOUS
<1>i. IInv'
  BY NextHolds
<1>p. /\ events.closes \in Seq(Rows) /\ events.opens \in Seq(Rows) /\ files.orders \in Seq(Rows)
      /\ paper.counter \in Nat
  BY DEF IInv, EventsOK, FilesOK, Sound, Books
<1>d. DOMAIN events = {"detected", "lifecycles", "trades", "closes", "opens"}
      /\ DOMAIN files = {"detected", "lifecycles", "trades", "orders", "positions", "execution"}
  BY DEF IInv, EventsOK, FilesOK
<1>1. CASE Fetch
  <2>1. /\ phase = "idle" /\ phase' = "observe" /\ events' = events /\ paper' = paper
        /\ files' = files /\ killed' = killed
    BY <1>1 DEF Fetch, bookVars, fileVars, runVars, Idle
  <2>2. Closes' = Closes /\ Opens' = Opens
    BY <2>1 DEF Closes, Opens, ToWrite, Idle
  <2> QED
    BY <2>1, <2>2, NumbersStay DEF Idle
<1>2. CASE LostRound
  BY <1>2, NumbersStay DEF LostRound, bookVars, fileVars, runVars, Closes, Opens, ToWrite, NumbersOK
<1>3. ASSUME NEW q \in Questions, ObserveNew(q) PROVE NumbersOK'
  <2> DEFINE p == todo[q]
             refused == RiskRefuses(paper, p)
             r == Row(paper.counter + 1, q, "Buy")
  <2>1. /\ phase = "observe" /\ phase' = phase /\ files' = files /\ killed' = killed
        /\ paper' = IF refused THEN paper ELSE Opened(paper, q, p)
        /\ events' = [events EXCEPT !.detected = events.detected + 1,
                        !.opens = IF refused THEN events.opens
                                  ELSE Append(events.opens, Row(paper'.counter, q, "Buy"))]
    BY <1>3 DEF ObserveNew, fileVars, runVars
  <2>2. Opened(paper, q, p).counter = paper.counter + 1
    BY DEF Opened, IInv, Sound, Books
  <2> HIDE DEF refused
  <2>3. /\ Closes = events.closes /\ Opens = events.opens
        /\ Closes' = events'.closes /\ Opens' = events'.opens /\ events'.closes = events.closes
    BY <1>d, <2>1 DEF Closes, Opens, ToWrite
  <2>4. CASE refused
    BY <1>d, <2>1, <2>3, <2>4, NumbersStay DEF Idle
  <2>5. CASE ~ refused
    <3>1. events'.opens = Append(events.opens, r) /\ paper'.counter = paper.counter + 1
      BY <1>d, <2>1, <2>2, <2>5
    <3>2. ASSUME ~ killed
          PROVE  Numbered(files.orders, events.closes, Append(events.opens, r), paper.counter + 1)
      <4>1. Numbered(files.orders, events.closes, events.opens, paper.counter)
        BY <2>3, <3>2 DEF NumbersOK
      <4>2. /\ Apart(events.opens, files.orders) /\ Apart(events.opens, events.closes)
        BY <4>1 DEF Numbered, Apart
      <4>3. /\ Len(Append(events.opens, r)) = Len(events.opens) + 1
            /\ UpTo(Append(events.opens, r), paper.counter + 1) /\ Distinct(Append(events.opens, r))
            /\ Apart(Append(events.opens, r), files.orders) /\ UpTo(files.orders, paper.counter + 1)
        BY <1>p, <4>1, <4>2, NextNumber DEF Numbered
      <4>4. Apart(Append(events.opens, r), events.closes) /\ UpTo(events.closes, paper.counter + 1)
        BY <1>p, <4>1, <4>2, NextNumber DEF Numbered
      <4> HIDE DEF r
      <4>5. Apart(files.orders, Append(events.opens, r)) /\ Apart(events.closes, Append(events.opens, r))
        BY <4>3, <4>4 DEF Apart
      <4>6. Len(files.orders) \in Nat /\ Len(events.closes) \in Nat /\ Len(events.opens) \in Nat
        BY <1>p
      <4>7. Len(files.orders) + Len(events.closes) + Len(events.opens) = paper.counter
        BY <4>1, Zenon DEF Numbered
      <4>8. Len(files.orders) + Len(events.closes) + Len(Append(events.opens, r)) = paper.counter + 1
        <5>1. Len(Append(events.opens, r)) = Len(events.opens) + 1
          BY <4>3
        <5> DEFINE a == Len(files.orders)
                   b == Len(events.closes)
                   c == Len(events.opens)
                   n == paper.counter
        <5>2. a + b + c = n /\ a \in Nat /\ b \in Nat /\ c \in Nat /\ n \in Nat
          BY <1>p, <4>6, <4>7, Zenon
        <5> HIDE DEF a, b, c, n
        <5>3. a + b + (c + 1) = n + 1
          BY <5>2
        <5> QED
          BY <5>1, <5>3, Zenon DEF a, b, c, n
      <4> QED
        BY <4>1, <4>3, <4>4, <4>5, <4>8, Zenon DEF Numbered
    <3> HIDE DEF r
    <3> QED
      BY <2>1, <2>3, <3>1, <3>2 DEF NumbersOK, Idle
  <2> QED
    BY <2>4, <2>5
<1>4. ASSUME NEW q \in Questions, ObserveKnown(q) PROVE NumbersOK'
  <2>1. /\ phase = "observe" /\ phase' = phase /\ files' = files /\ killed' = killed
        /\ events' = events /\ paper' = Marked(paper, q, todo[q])
    BY <1>4 DEF ObserveKnown, fileVars, runVars
  <2>2. Marked(paper, q, todo[q]).counter = paper.counter
    BY DEF Marked, IInv, Sound, Books
  <2> QED
    BY <2>1, <2>2, NumbersStay DEF Closes, Opens, ToWrite, Idle
<1>5. CASE Reap
  <2>1. /\ phase = "observe" /\ phase' = "close" /\ files' = files /\ killed' = killed
        /\ paper' = paper /\ events' = [events EXCEPT !.lifecycles = Cardinality(Ended)]
    BY <1>5 DEF Reap, fileVars, runVars
  <2>2. events'.closes = events.closes /\ events'.opens = events.opens
    BY <1>d, <2>1
  <2> QED
    BY <2>1, <2>2, NumbersStay DEF Closes, Opens, ToWrite, Idle
<1>6. ASSUME NEW q \in Questions, OnClose(q) PROVE NumbersOK'
  <2> DEFINE p == finishing[q]
             closing == CanClose(paper, q)
             r == Row(paper.counter + 1, q, "Sell")
             ended == IF q \in DOMAIN trades.open THEN Append(events.trades, trades.open[q])
                      ELSE events.trades
  <2>1. /\ phase = "close" /\ phase' = phase /\ files' = files /\ killed' = killed
        /\ paper' = AfterClose(paper, q, p)
        /\ events' = [events EXCEPT !.trades = ended,
                        !.closes = IF closing THEN Append(events.closes, Row(paper'.counter, q, "Sell"))
                                   ELSE events.closes]
    BY <1>6 DEF OnClose, fileVars, runVars
  <2>2. /\ closing => AfterClose(paper, q, p).counter = paper.counter + 1
        /\ ~ closing => AfterClose(paper, q, p).counter = paper.counter
    BY DEF AfterClose, Closed, IInv, Sound, Books
  <2> HIDE DEF closing, p, ended
  <2>3. /\ Closes = events.closes /\ Opens = events.opens
        /\ Closes' = events'.closes /\ Opens' = events'.opens /\ events'.opens = events.opens
    BY <1>d, <2>1 DEF Closes, Opens, ToWrite
  <2>4. CASE ~ closing
    BY <1>d, <2>1, <2>2, <2>3, <2>4, NumbersStay DEF Idle
  <2>5. CASE closing
    <3>1. events'.closes = Append(events.closes, r) /\ paper'.counter = paper.counter + 1
      BY <1>d, <2>1, <2>2, <2>5
    <3>2. ASSUME ~ killed
          PROVE  Numbered(files.orders, Append(events.closes, r), events.opens, paper.counter + 1)
      <4>1. Numbered(files.orders, events.closes, events.opens, paper.counter)
        BY <2>3, <3>2 DEF NumbersOK
      <4>2. Apart(events.closes, files.orders) /\ Apart(events.closes, events.opens)
        BY <4>1 DEF Numbered, Apart
      <4>3. /\ Len(Append(events.closes, r)) = Len(events.closes) + 1
            /\ UpTo(Append(events.closes, r), paper.counter + 1) /\ Distinct(Append(events.closes, r))
            /\ Apart(Append(events.closes, r), files.orders) /\ UpTo(files.orders, paper.counter + 1)
        BY <1>p, <4>1, <4>2, NextNumber DEF Numbered
      <4>4. Apart(Append(events.closes, r), events.opens) /\ UpTo(events.opens, paper.counter + 1)
        BY <1>p, <4>1, <4>2, NextNumber DEF Numbered
      <4> HIDE DEF r
      <4>5. Apart(files.orders, Append(events.closes, r))
        BY <4>3 DEF Apart
      <4>6. Len(files.orders) \in Nat /\ Len(events.closes) \in Nat /\ Len(events.opens) \in Nat
        BY <1>p
      <4>7. Len(files.orders) + Len(events.closes) + Len(events.opens) = paper.counter
        BY <4>1, Zenon DEF Numbered
      <4>8. Len(files.orders) + Len(Append(events.closes, r)) + Len(events.opens) = paper.counter + 1
        <5>1. Len(Append(events.closes, r)) = Len(events.closes) + 1
          BY <4>3
        <5> DEFINE a == Len(files.orders)
                   b == Len(events.closes)
                   c == Len(events.opens)
                   n == paper.counter
        <5>2. a + b + c = n /\ a \in Nat /\ b \in Nat /\ c \in Nat /\ n \in Nat
          BY <1>p, <4>6, <4>7, Zenon
        <5> HIDE DEF a, b, c, n
        <5>3. a + (b + 1) + c = n + 1
          BY <5>2
        <5> QED
          BY <5>1, <5>3, Zenon DEF a, b, c, n
      <4> QED
        BY <4>1, <4>3, <4>4, <4>5, <4>8, Zenon DEF Numbered
    <3> HIDE DEF r
    <3> QED
      BY <2>1, <2>3, <3>1, <3>2 DEF NumbersOK, Idle
  <2> QED
    BY <2>4, <2>5
<1>7. CASE OnScan
  <2>1. /\ phase = "close" /\ phase' = "detected" /\ files' = files /\ killed' = killed
        /\ events' = events /\ paper' = Revalued(paper)
    BY <1>7 DEF OnScan, fileVars, runVars, Steps
  <2>2. Revalued(paper).counter = paper.counter
    BY DEF Revalued, IInv, Sound, Books
  <2> QED
    BY <2>1, <2>2, NumbersStay DEF Closes, Opens, ToWrite, Idle
<1>8. CASE AppendRows
  <2>1. /\ phase \in {"detected", "lifecycles", "trades", "closes", "positions", "opens"}
        /\ files' = Written /\ phase' = NextStep /\ events' = events /\ paper' = paper
        /\ killed' = killed
    BY <1>8 DEF AppendRows, bookVars, runVars
  <2>2. CASE phase = "closes"
    <3>1. phase' = "positions"
      BY <2>1, <2>2, NextPhase
    <3>2. files'.orders = files.orders \o events.closes
      BY <1>d, <2>1, <2>2 DEF Written
    <3>3. /\ Closes = events.closes /\ Opens = events.opens
          /\ Closes' = << >> /\ Opens' = events.opens
      BY <2>1, <2>2, <3>1 DEF Closes, Opens, ToWrite, Idle
    <3>4. ~ killed => Numbered(files.orders \o events.closes, << >>, events.opens, paper.counter)
      BY <1>p, <3>3, AppendedRows DEF NumbersOK
    <3> QED
      BY <2>1, <3>1, <3>2, <3>3, <3>4 DEF NumbersOK, Idle
  <2>3. CASE phase = "opens"
    <3>1. phase' = "portfolio"
      BY <2>1, <2>3, NextPhase
    <3>2. files'.orders = files.orders \o events.opens
      BY <1>d, <2>1, <2>3 DEF Written
    <3>3. /\ Closes = << >> /\ Opens = events.opens /\ Closes' = << >> /\ Opens' = << >>
      BY <2>1, <2>3, <3>1 DEF Closes, Opens, ToWrite, Idle
    <3>4. ASSUME ~ killed PROVE Numbered(files.orders \o events.opens, << >>, << >>, paper.counter)
      <4>1. Numbered(files.orders, << >>, events.opens, paper.counter)
        BY <3>3, <3>4 DEF NumbersOK
      <4>2. Numbered(files.orders, events.opens, << >>, paper.counter)
        <5>1. Len(files.orders) \in Nat /\ Len(events.opens) \in Nat /\ Len(<< >>) = 0
          BY <1>p
        <5> DEFINE a == Len(files.orders)
                   b == Len(<< >>)
                   c == Len(events.opens)
                   n == paper.counter
        <5>3. a + b + c = n /\ a \in Nat /\ b = 0 /\ c \in Nat /\ n \in Nat
          BY <1>p, <4>1, <5>1, Zenon DEF Numbered
        <5> HIDE DEF a, b, c, n
        <5>4. a + c + b = n
          BY <5>3
        <5>2. Len(files.orders) + Len(events.opens) + Len(<< >>) = paper.counter
          BY <5>4, Zenon DEF a, b, c, n
        <5> QED
          BY <4>1, <5>1, <5>2 DEF Numbered, Apart
      <4>3. << >> \in Seq(Rows)
        OBVIOUS
      <4> QED
        BY <1>p, <4>2, <4>3, AppendedRows
    <3> QED
      BY <2>1, <3>1, <3>2, <3>3, <3>4 DEF NumbersOK, Idle
  <2>4. CASE phase \in {"detected", "lifecycles", "trades", "positions"}
    <3>1. phase' \in {"lifecycles", "trades", "closes", "opens"} /\ (phase = "positions" <=> phase' = "opens")
      BY <2>1, <2>4, NextPhase
    <3>2. files'.orders = files.orders
      BY <1>d, <2>1, <2>4 DEF Written
    <3>3. Closes' = Closes /\ Opens' = Opens
      BY <2>1, <2>4, <3>1 DEF Closes, Opens, ToWrite, Idle
    <3> QED
      BY <2>1, <3>1, <3>2, <3>3, NumbersStay DEF Idle
  <2> QED
    BY <2>1, <2>2, <2>3, <2>4
<1>9. CASE SavePortfolio
  <2>1. /\ phase = "portfolio" /\ phase' = "orders" /\ files' = files /\ killed' = killed
        /\ events' = events /\ paper' = paper
    BY <1>9, NextPhase DEF SavePortfolio, bookVars, runVars
  <2> QED
    BY <2>1, NumbersStay DEF Closes, Opens, ToWrite, Idle
<1>10. CASE AppendOrders
  <2>1. /\ phase = "orders" /\ phase' = "idle" /\ events' = NoEvents /\ paper' = paper
        /\ files' = [files EXCEPT !.execution = files.execution + Cardinality(terminal)]
        /\ killed' = killed
    BY <1>10 DEF AppendOrders, runVars, Idle
  <2>2. files'.orders = files.orders
    BY <1>d, <2>1
  <2>3. Closes = << >> /\ Opens = << >> /\ Closes' = << >> /\ Opens' = << >>
    BY <2>1 DEF Closes, Opens, ToWrite, Idle, NoEvents
  <2> QED
    BY <2>1, <2>2, <2>3, NumbersStay
<1>11. CASE Stop
  <2>1. /\ phase = "idle" /\ phase' = "idle" /\ events' = NoEvents /\ files' = files
        /\ paper' = NewBooks(Len(files.orders)) /\ killed' = killed
    BY <1>11 DEF Stop, Restart, Idle
  <2>2. events = NoEvents
    BY <2>1 DEF NumbersOK, Idle
  <2>3. Closes = << >> /\ Opens = << >> /\ Closes' = << >> /\ Opens' = << >>
    BY <2>1, <2>2 DEF Closes, Opens, ToWrite, NoEvents
  <2>4. ~ killed => Numbered(files.orders, << >>, << >>, paper.counter)
    BY <2>3 DEF NumbersOK
  <2>5. paper'.counter = Len(files.orders)
    BY <2>1 DEF NewBooks
  <2>6. ~ killed => Len(files.orders) = paper.counter
    <3>1. Len(files.orders) \in Nat /\ Len(<< >>) = 0
      BY <1>p
    <3> QED
      BY <2>4, <3>1 DEF Numbered
  <2> QED
    BY <2>1, <2>3, <2>4, <2>5, <2>6 DEF NumbersOK
<1>12. CASE Kill
  BY <1>12 DEF Kill, Restart, NumbersOK
<1>13. CASE Audit \/ AuditEnds \/ UNCHANGED vars
  BY <1>13, NumbersStay DEF Audit, AuditEnds, vars, bookVars, fileVars, runVars, Closes, Opens, ToWrite, NumbersOK
<1> QED
  BY <1>1, <1>2, <1>3, <1>4, <1>5, <1>6, <1>7, <1>8, <1>9, <1>10, <1>11, <1>12, <1>13 DEF Next, Step

(* "Recovered from the row count to avoid duplicates": over any number of  *)
(* runs that were not killed, no number stands in two rows of the orders.  *)
THEOREM NumbersAreUnique == Spec => []PaperNumbersUnique
<1>1. NumbersOK => PaperNumbersUnique
  BY DEF NumbersOK, Numbered, Distinct, PaperNumbersUnique
<1>2. Spec => []NumbersOK
  BY InitHolds, NextHolds, NumbersInit, NumbersNext, PTL DEF Spec
<1> QED
  BY <1>1, <1>2, PTL

--------------------------------------------------------------------------------
(* Counting the rows of a file *)

Picked(rows, from, kind) == { i \in (from + 1) .. Len(rows) : rows[i] \in kind }
Count(rows, from, kind)  == Cardinality(Picked(rows, from, kind))

LEMMA CountIsNat ==
  ASSUME NEW r \in Seq(Rows), NEW from \in Nat, NEW kind
  PROVE  /\ IsFiniteSet(Picked(r, from, kind))
         /\ Count(r, from, kind) \in Nat
         /\ Count(r, 0, kind) <= Len(r)
<1>1. Len(r) \in Nat /\ from + 1 \in Int
  OBVIOUS
<1>2. IsFiniteSet((from + 1) .. Len(r))
  BY <1>1, FS_Interval
<1>3. IsFiniteSet(Picked(r, from, kind))
  BY <1>2, FS_Subset DEF Picked
<1>4. Count(r, 0, kind) <= Len(r)
  <2>1. IsFiniteSet(1 .. Len(r)) /\ Cardinality(1 .. Len(r)) = Len(r)
    BY <1>1, FS_Interval
  <2>2. Picked(r, 0, kind) \in SUBSET (1 .. Len(r))
    BY DEF Picked
  <2> QED
    BY <2>1, <2>2, FS_Subset DEF Count
<1> QED
  BY <1>3, <1>4, FS_CardinalityType DEF Count

LEMMA CountOfNone ==
  ASSUME NEW kind, NEW r, NEW from, Picked(r, from, kind) = {}
  PROVE  Count(r, from, kind) = 0
  BY FS_EmptySet DEF Count

LEMMA CountOfEmpty ==
  ASSUME NEW kind, NEW from \in Nat
  PROVE  Count(<< >>, from, kind) = 0
<1>1. Picked(<< >>, from, kind) = {}
  BY DEF Picked
<1> QED
  BY <1>1, CountOfNone

(* All rows are of the kind, or none is.                                   *)
LEMMA CountAll ==
  ASSUME NEW r \in Seq(Rows), NEW kind, \A i \in DOMAIN r : r[i] \in kind
  PROVE  Count(r, 0, kind) = Len(r)
<1>1. Len(r) \in Nat /\ DOMAIN r = 1 .. Len(r)
  OBVIOUS
<1>2. Picked(r, 0, kind) = 1 .. Len(r)
  BY <1>1 DEF Picked
<1> QED
  BY <1>1, <1>2, FS_Interval DEF Count

LEMMA CountNone ==
  ASSUME NEW r \in Seq(Rows), NEW kind, \A i \in DOMAIN r : r[i] \notin kind
  PROVE  Count(r, 0, kind) = 0
<1>1. Picked(r, 0, kind) = {}
  BY DEF Picked
<1> QED
  BY <1>1, CountOfNone

LEMMA CountAppend ==
  ASSUME NEW r \in Seq(Rows), NEW x \in Rows, NEW from \in 0 .. Len(r), NEW kind
  PROVE  Count(Append(r, x), from, kind) = Count(r, from, kind) + (IF x \in kind THEN 1 ELSE 0)
<1> DEFINE t == Append(r, x)
           n == Len(r) + 1
<1>1. /\ Len(t) = n /\ Len(r) \in Nat /\ n \in Nat /\ from \in Nat
      /\ \A i \in 1 .. Len(r) : t[i] = r[i]
      /\ t[n] = x
  OBVIOUS
<1>2. n \notin Picked(r, from, kind)
  BY <1>1 DEF Picked
<1>3. Picked(t, from, kind) = IF x \in kind THEN Picked(r, from, kind) \cup {n} ELSE Picked(r, from, kind)
  <2> HIDE DEF t
  <2> QED
    BY <1>1 DEF Picked
<1>4. IsFiniteSet(Picked(r, from, kind)) /\ Count(r, from, kind) \in Nat
  BY <1>1, CountIsNat
<1>5. Cardinality(Picked(r, from, kind) \cup {n}) = Count(r, from, kind) + 1
  BY <1>2, <1>4, FS_AddElement DEF Count
<1> QED
  BY <1>3, <1>4, <1>5 DEF Count

LEMMA CountConcat ==
  ASSUME NEW r \in Seq(Rows), NEW s \in Seq(Rows), NEW from \in 0 .. Len(r), NEW kind
  PROVE  Count(r \o s, from, kind) = Count(r, from, kind) + Count(s, 0, kind)
<1> DEFINE t == r \o s
           old == Picked(r, from, kind)
           new == Picked(s, 0, kind)
           moved == { i \in (Len(r) + 1) .. Len(t) : t[i] \in kind }
<1>1. /\ Len(t) = Len(r) + Len(s) /\ Len(r) \in Nat /\ Len(s) \in Nat /\ from \in Nat
      /\ \A i \in 1 .. Len(r) : t[i] = r[i]
      /\ \A i \in 1 .. Len(s) : t[Len(r) + i] = s[i]
  OBVIOUS
<1>2. IsFiniteSet(old) /\ IsFiniteSet(new) /\ Cardinality(old) \in Nat /\ Cardinality(new) \in Nat
  BY <1>1, CountIsNat DEF Count
<1> HIDE DEF t
<1>3. Picked(t, from, kind) = old \cup moved /\ old \cap moved = {}
  BY <1>1 DEF Picked
<1>4. IsFiniteSet(moved) /\ Cardinality(moved) = Cardinality(new)
  <2> DEFINE f == [i \in new |-> Len(r) + i]
  <2>1. \A i \in new : Len(r) + i \in moved
    BY <1>1 DEF Picked
  <2>2. \A i, j \in new : Len(r) + i = Len(r) + j => i = j
    BY <1>1 DEF Picked
  <2>3. ASSUME NEW m \in moved PROVE \E i \in new : Len(r) + i = m
    <3>1. m - Len(r) \in 1 .. Len(s) /\ Len(r) + (m - Len(r)) = m
      BY <1>1
    <3>2. m - Len(r) \in new
      BY <1>1, <3>1 DEF Picked
    <3> QED
      BY <3>1, <3>2
  <2> HIDE DEF new, moved
  <2>4. f \in Bijection(new, moved)
    BY <2>1, <2>2, <2>3 DEF Bijection, Injection, Surjection, IsInjective
  <2>5. ExistsBijection(new, moved)
    BY <2>4 DEF ExistsBijection
  <2> QED
    BY <1>2, <2>5, FS_Bijection
<1>5. Cardinality(old \cup moved) = Cardinality(old) + Cardinality(new)
  <2> HIDE DEF old, moved, new
  <2>1. Cardinality(old \cap moved) = 0
    BY <1>3, FS_EmptySet
  <2>2. Cardinality(old \cup moved)
          = Cardinality(old) + Cardinality(moved) - Cardinality(old \cap moved)
    BY <1>2, <1>4, FS_Union
  <2> QED
    BY <1>2, <1>4, <2>1, <2>2
<1>6. /\ Count(t, from, kind) = Cardinality(old \cup moved)
      /\ Count(r, from, kind) = Cardinality(old) /\ Count(s, 0, kind) = Cardinality(new)
  BY <1>3, Zenon DEF Count
<1> QED
  BY <1>5, <1>6, Zenon DEF t

--------------------------------------------------------------------------------
(* What the files tell *)

(* The rows of a file that a scan has produced and not written yet.        *)
Left(steps, n) == IF phase \in {Idle, "observe", "close"} \cup steps THEN n ELSE 0

DetectedLeft  == Left({"detected"}, events.detected)
EndedLeft     == Left({"detected", "lifecycles"}, events.lifecycles)
TradesLeft    == Left({"detected", "lifecycles", "trades"}, Len(events.trades))
PositionsLeft == Left({"detected", "lifecycles", "trades", "closes", "positions"}, Len(events.closes))

(* What was bought in this scan, and what of it is not written yet.        *)
Asked(rows) == { rows[i].question : i \in DOMAIN rows }
Fresh == Asked(Opens)

SideOf(side)    == { r \in Rows : r.side = side }
OrdersOf(q, side) == { r \in Rows : r.question = q /\ r.side = side }

RowsOK ==
  /\ files.detected \in Nat /\ files.lifecycles \in Nat /\ files.positions \in Nat
  /\ events.detected \in Nat /\ events.lifecycles \in Nat
  /\ \A i \in DOMAIN events.closes : events.closes[i].side = "Sell"
  /\ \A i \in DOMAIN events.opens : events.opens[i].side = "Buy"
  /\ bootRows \in 0 .. Len(files.orders)
  /\ phase = "observe" => events.lifecycles = 0

(* What is bought in a scan is not sold in it: it is in the scan's report, *)
(* and too young to be closed.                                             *)
FreshOK ==
  /\ phase = "observe" =>
       /\ DOMAIN todo \subseteq seen
       /\ \A q \in Asked(events.opens) : q \in Tracked /\ q \in seen /\ tracker[q].age = 0
  /\ phase = "close" => Asked(events.opens) \cap DOMAIN finishing = {}

(* A row that follows from another is not written before it: what is       *)
(* tracked was found, what is being closed has ended.                      *)
Lags ==
  /\ files.lifecycles <= files.detected
  /\ files.lifecycles + EndedLeft + Cardinality(Tracked) <= files.detected + DetectedLeft
  /\ Len(files.trades) <= files.lifecycles
  /\ Len(files.trades) + TradesLeft + Cardinality(DOMAIN finishing) <= files.lifecycles + EndedLeft
  /\ trades.total = Len(files.trades) + TradesLeft

Sold   == Count(files.orders, 0, SideOf("Sell")) + Len(Closes)
Bought == Count(files.orders, 0, SideOf("Buy"))

(* Every sale is of a purchase an earlier scan has written, and what is    *)
(* held is bought and not sold.                                            *)
Sales ==
  /\ files.positions <= Count(files.orders, 0, SideOf("Sell"))
  /\ files.positions + PositionsLeft <= Sold
  /\ ~ killed => files.positions + PositionsLeft = Sold
  /\ Sold + Cardinality(paper.questions \ Fresh) <= Bought

(* The rows of a run, written or not, replay to what it holds.             *)
InRun(kind) == Count(files.orders, bootRows, kind) + Count(Closes, 0, kind) + Count(Opens, 0, kind)

Replay ==
  \A q \in Questions :
    InRun(OrdersOf(q, "Buy")) = InRun(OrdersOf(q, "Sell")) + (IF q \in paper.questions THEN 1 ELSE 0)

AuditedOK ==
  audited # NoAudit => /\ phase \notin {"observe", "close"}
                       /\ files.positions + PositionsLeft <= audited

SavedOK == phase \in {Idle, "orders"} /\ saved # << >> => saved = Figures(paper)

--------------------------------------------------------------------------------
(* What a step does to the rows *)

SameCounts == files'.detected = files.detected /\ files'.lifecycles = files.lifecycles
SameTrades == files'.trades = files.trades
SameOrders == files'.orders = files.orders
SamePositions == files'.positions = files.positions
SameFiles == SameCounts /\ SameTrades /\ SameOrders /\ SamePositions

SameFound == DetectedLeft' = DetectedLeft /\ EndedLeft' = EndedLeft
SameEnds  == TradesLeft' = TradesLeft /\ PositionsLeft' = PositionsLeft
SameRows  == Closes' = Closes /\ Opens' = Opens

SameBooks ==
  /\ DOMAIN tracker' = Tracked /\ DOMAIN finishing' = DOMAIN finishing
  /\ trades'.total = trades.total /\ paper'.questions = paper.questions

SameRun == bootRows' = bootRows /\ killed' = killed

Quiet == SameFiles /\ SameFound /\ SameEnds /\ SameRows /\ SameBooks /\ SameRun

BuyStep(q) ==
  /\ SameFiles /\ SameRun /\ SameEnds /\ Closes' = Closes
  /\ q \in Questions /\ q \notin Tracked /\ DOMAIN tracker' = Tracked \cup {q}
  /\ DetectedLeft' = DetectedLeft + 1 /\ EndedLeft' = EndedLeft
  /\ DOMAIN finishing' = DOMAIN finishing /\ trades'.total = trades.total
  /\ \/ Opens' = Opens /\ paper'.questions = paper.questions
     \/ /\ q \notin paper.questions /\ paper'.questions = paper.questions \cup {q}
        /\ \E n \in Nat : Opens' = Append(Opens, Row(n, q, "Buy"))

SaleStep(q) ==
  /\ SameFiles /\ SameRun /\ SameFound /\ Opens' = Opens
  /\ q \in Questions /\ q \in DOMAIN finishing /\ DOMAIN finishing' = DOMAIN finishing \ {q}
  /\ q \notin Fresh
  /\ DOMAIN tracker' = Tracked
  /\ TradesLeft' = TradesLeft + 1 /\ trades'.total = trades.total + 1
  /\ \/ /\ q \notin paper.questions /\ paper'.questions = paper.questions
        /\ Closes' = Closes /\ PositionsLeft' = PositionsLeft
     \/ /\ q \in paper.questions /\ paper'.questions = paper.questions \ {q}
        /\ PositionsLeft' = PositionsLeft + 1
        /\ \E n \in Nat : Closes' = Append(Closes, Row(n, q, "Sell"))

ReapStep ==
  /\ SameFiles /\ SameRun /\ SameEnds /\ SameRows /\ DetectedLeft' = DetectedLeft
  /\ EndedLeft = 0 /\ EndedLeft' = Cardinality(Ended)
  /\ Ended \subseteq Tracked /\ DOMAIN tracker' = Tracked \ Ended
  /\ DOMAIN finishing = {} /\ DOMAIN finishing' = Ended
  /\ trades'.total = trades.total /\ paper'.questions = paper.questions

WriteDetected ==
  /\ SameTrades /\ SameOrders /\ SamePositions /\ SameEnds /\ SameRows
  /\ files'.detected = files.detected + DetectedLeft /\ DetectedLeft' = 0
  /\ files'.lifecycles = files.lifecycles /\ EndedLeft' = EndedLeft

WriteEnded ==
  /\ SameTrades /\ SameOrders /\ SamePositions /\ SameEnds /\ SameRows
  /\ files'.lifecycles = files.lifecycles + EndedLeft /\ EndedLeft' = 0
  /\ files'.detected = files.detected /\ DetectedLeft = 0 /\ DetectedLeft' = 0

WriteTrades ==
  /\ SameCounts /\ SameOrders /\ SamePositions /\ SameFound /\ SameRows
  /\ EndedLeft = 0
  /\ Len(files'.trades) = Len(files.trades) + TradesLeft /\ TradesLeft' = 0
  /\ PositionsLeft' = PositionsLeft

WriteCloses ==
  /\ SameCounts /\ SameTrades /\ SamePositions /\ SameFound /\ SameEnds
  /\ files'.orders = files.orders \o Closes /\ Closes' = << >> /\ Opens' = Opens

WritePositions ==
  /\ SameCounts /\ SameTrades /\ SameOrders /\ SameFound /\ SameRows
  /\ files'.positions = files.positions + PositionsLeft /\ PositionsLeft' = 0
  /\ Closes = << >> /\ TradesLeft' = TradesLeft

WriteOpens ==
  /\ SameCounts /\ SameTrades /\ SamePositions /\ SameFound /\ SameEnds
  /\ files'.orders = files.orders \o Opens /\ Opens' = << >>
  /\ Closes = << >> /\ Closes' = << >>

WriteStep ==
  /\ SameBooks /\ SameRun
  /\ \/ WriteDetected \/ WriteEnded \/ WriteTrades \/ WriteCloses \/ WritePositions \/ WriteOpens

RestartStep ==
  /\ SameFiles
  /\ DetectedLeft' = 0 /\ EndedLeft' = 0 /\ TradesLeft' = 0 /\ PositionsLeft' = 0
  /\ Closes' = << >> /\ Opens' = << >>
  /\ DOMAIN tracker' = {} /\ DOMAIN finishing' = {} /\ paper'.questions = {}
  /\ trades'.total = Len(files.trades) /\ bootRows' = Len(files.orders)
  /\ ~ killed' => PositionsLeft = 0 /\ Closes = << >> /\ ~ killed

LEMMA LeftIs ==
  /\ phase \in {Idle, "observe", "close"} =>
       /\ DetectedLeft = events.detected /\ EndedLeft = events.lifecycles
       /\ TradesLeft = Len(events.trades) /\ PositionsLeft = Len(events.closes)
       /\ Closes = events.closes /\ Opens = events.opens
  /\ events = NoEvents =>
       /\ DetectedLeft = 0 /\ EndedLeft = 0 /\ TradesLeft = 0 /\ PositionsLeft = 0
       /\ Closes = << >> /\ Opens = << >>
<1>1. phase \in {Idle, "observe", "close"} =>
        /\ DetectedLeft = events.detected /\ EndedLeft = events.lifecycles
        /\ TradesLeft = Len(events.trades) /\ PositionsLeft = Len(events.closes)
        /\ Closes = events.closes /\ Opens = events.opens
  BY DEF DetectedLeft, EndedLeft, TradesLeft, PositionsLeft, Left, Closes, Opens, ToWrite
<1>2. events = NoEvents =>
        /\ events.detected = 0 /\ events.lifecycles = 0 /\ Len(events.trades) = 0
        /\ Len(events.closes) = 0 /\ events.closes = << >> /\ events.opens = << >>
  BY DEF NoEvents
<1>3. events = NoEvents =>
       /\ DetectedLeft = 0 /\ EndedLeft = 0 /\ TradesLeft = 0 /\ PositionsLeft = 0
       /\ Closes = << >> /\ Opens = << >>
  BY <1>2 DEF DetectedLeft, EndedLeft, TradesLeft, PositionsLeft, Left, Closes, Opens, ToWrite
<1> QED
  BY <1>1, <1>3

LEMMA LeftIsNext ==
  /\ phase' \in {Idle, "observe", "close"} =>
       /\ DetectedLeft' = events'.detected /\ EndedLeft' = events'.lifecycles
       /\ TradesLeft' = Len(events'.trades) /\ PositionsLeft' = Len(events'.closes)
       /\ Closes' = events'.closes /\ Opens' = events'.opens
  /\ events' = NoEvents =>
       /\ DetectedLeft' = 0 /\ EndedLeft' = 0 /\ TradesLeft' = 0 /\ PositionsLeft' = 0
       /\ Closes' = << >> /\ Opens' = << >>
<1>1. phase' \in {Idle, "observe", "close"} =>
        /\ DetectedLeft' = events'.detected /\ EndedLeft' = events'.lifecycles
        /\ TradesLeft' = Len(events'.trades) /\ PositionsLeft' = Len(events'.closes)
        /\ Closes' = events'.closes /\ Opens' = events'.opens
  BY DEF DetectedLeft, EndedLeft, TradesLeft, PositionsLeft, Left, Closes, Opens, ToWrite
<1>2. events' = NoEvents =>
        /\ events'.detected = 0 /\ events'.lifecycles = 0 /\ Len(events'.trades) = 0
        /\ Len(events'.closes) = 0 /\ events'.closes = << >> /\ events'.opens = << >>
  BY DEF NoEvents
<1>3. events' = NoEvents =>
       /\ DetectedLeft' = 0 /\ EndedLeft' = 0 /\ TradesLeft' = 0 /\ PositionsLeft' = 0
       /\ Closes' = << >> /\ Opens' = << >>
  BY <1>2 DEF DetectedLeft, EndedLeft, TradesLeft, PositionsLeft, Left, Closes, Opens, ToWrite
<1> QED
  BY <1>1, <1>3

LEMMA Buys ==
  ASSUME NEW q \in Questions, IInv, ObserveNew(q)
  PROVE  BuyStep(q)
<1> DEFINE p == todo[q]
           refused == RiskRefuses(paper, p)
<1>1. /\ phase = "observe" /\ q \in DOMAIN todo \ Tracked
      /\ tracker' = Put(tracker, q, [age |-> 0, price |-> p])
      /\ trades' = Traded(q)
      /\ paper' = IF refused THEN paper ELSE Opened(paper, q, p)
      /\ events' = [events EXCEPT !.detected = events.detected + 1,
                      !.opens = IF refused THEN events.opens
                                ELSE Append(events.opens, Row(paper'.counter, q, "Buy"))]
      /\ phase' = phase /\ finishing' = finishing /\ files' = files
      /\ bootRows' = bootRows /\ killed' = killed
  BY DEF ObserveNew, fileVars, runVars
<1>2. DOMAIN tracker' = Tracked \cup {q}
  BY <1>1 DEF Put, Tracked
<1>3. trades'.total = trades.total
  <2>1. trades' = trades \/ trades' = [trades EXCEPT !.counter = trades.counter + 1,
                                         !.open = Put(trades.open, q, trades.counter + 1)]
    BY <1>1 DEF Traded
  <2> QED
    BY <2>1 DEF IInv, TradesOK
<1>4. /\ events'.detected = events.detected + 1 /\ events'.lifecycles = events.lifecycles
      /\ events'.trades = events.trades /\ events'.closes = events.closes
      /\ events'.opens = IF refused THEN events.opens
                         ELSE Append(events.opens, Row(paper'.counter, q, "Buy"))
  BY <1>1 DEF IInv, EventsOK
<1>5. /\ q \notin paper.questions
      /\ ~ refused => paper'.questions = paper.questions \cup {q} /\ paper'.counter \in Nat
  <2>1. DOMAIN finishing = {}
    BY <1>1 DEF IInv, PhaseOK
  <2>2. q \notin paper.questions
    BY <1>1, <2>1 DEF IInv, Follows
  <2>3. p \in Nat
    BY <1>1, LoopParameters DEF IInv, TrackOK
  <2> HIDE DEF p
  <2>4. ~ refused => Sound(paper', Questions) /\ paper'.questions = paper.questions \cup {q}
    BY <1>1, <2>2, <2>3, OpenedSound DEF IInv
  <2> QED
    BY <2>2, <2>4 DEF Sound, Books
<1> HIDE DEF refused, p
<1>6. /\ DetectedLeft' = DetectedLeft + 1 /\ EndedLeft' = EndedLeft /\ SameEnds /\ Closes' = Closes
      /\ Opens = events.opens /\ Opens' = events'.opens
  BY <1>1, <1>4, LeftIs, LeftIsNext DEF SameEnds
<1>7. SameFiles /\ SameRun
  BY <1>1 DEF SameFiles, SameCounts, SameTrades, SameOrders, SamePositions, SameRun
<1>8. \/ Opens' = Opens /\ paper'.questions = paper.questions
      \/ /\ q \notin paper.questions /\ paper'.questions = paper.questions \cup {q}
         /\ \E n \in Nat : Opens' = Append(Opens, Row(n, q, "Buy"))
  BY <1>1, <1>4, <1>5, <1>6
<1> QED
  BY <1>1, <1>2, <1>3, <1>6, <1>7, <1>8 DEF BuyStep

LEMMA Sells ==
  ASSUME NEW q \in Questions, IInv, FreshOK, OnClose(q)
  PROVE  SaleStep(q)
<1> DEFINE p == finishing[q]
           closing == CanClose(paper, q)
<1>1. /\ phase = "close" /\ q \in DOMAIN finishing
      /\ finishing' = Drop(finishing, q)
      /\ trades' = IF q \in DOMAIN trades.open
                   THEN [trades EXCEPT !.open = Drop(trades.open, q), !.total = trades.total + 1]
                   ELSE trades
      /\ paper' = AfterClose(paper, q, p)
      /\ events' = [events EXCEPT
                      !.trades = IF q \in DOMAIN trades.open THEN Append(events.trades, trades.open[q])
                                 ELSE events.trades,
                      !.closes = IF closing THEN Append(events.closes, Row(paper'.counter, q, "Sell"))
                                 ELSE events.closes]
      /\ phase' = phase /\ tracker' = tracker /\ files' = files
      /\ bootRows' = bootRows /\ killed' = killed
  BY DEF OnClose, fileVars, runVars
<1>2. q \in DOMAIN trades.open /\ trades.open[q] \in Nat
  BY <1>1 DEF IInv, Follows, TradesOK
<1>3. trades'.total = trades.total + 1
  BY <1>1, <1>2 DEF IInv, TradesOK
<1>4. /\ events'.detected = events.detected /\ events'.lifecycles = events.lifecycles
      /\ events'.opens = events.opens
      /\ events'.trades = Append(events.trades, trades.open[q])
      /\ events'.closes = IF closing THEN Append(events.closes, Row(paper'.counter, q, "Sell"))
                          ELSE events.closes
  BY <1>1, <1>2 DEF IInv, EventsOK
<1>5. /\ paper'.questions = paper.questions \ {q} /\ paper'.counter \in Nat
      /\ closing <=> q \in paper.questions
  <2>1. p \in Nat
    BY <1>1, LoopParameters DEF IInv, TrackOK
  <2> HIDE DEF p
  <2>2. Sound(paper', Questions) /\ paper'.questions = paper.questions \ {q}
    BY <1>1, <2>1, AfterCloseSound DEF IInv
  <2>3. closing <=> q \in paper.questions
    BY DEF IInv, Sound, ListsAgree, CanClose, In
  <2> QED
    BY <2>2, <2>3 DEF Sound, Books
<1>6. /\ Len(events'.trades) = Len(events.trades) + 1
      /\ closing => Len(events'.closes) = Len(events.closes) + 1
  BY <1>2, <1>4 DEF IInv, EventsOK
<1> HIDE DEF closing, p
<1>7. /\ SameFound /\ Opens' = Opens /\ Opens = events.opens /\ TradesLeft' = TradesLeft + 1
      /\ Closes = events.closes /\ Closes' = events'.closes
      /\ PositionsLeft = Len(events.closes) /\ PositionsLeft' = Len(events'.closes)
  BY <1>1, <1>4, <1>6, LeftIs, LeftIsNext DEF SameFound
<1>8. SameFiles /\ SameRun /\ DOMAIN tracker' = Tracked /\ DOMAIN finishing' = DOMAIN finishing \ {q}
  BY <1>1 DEF SameFiles, SameCounts, SameTrades, SameOrders, SamePositions, SameRun, Tracked, Drop
<1>9. q \notin Fresh
  BY <1>1, <1>7 DEF FreshOK, Fresh
<1>10. \/ /\ q \notin paper.questions /\ paper'.questions = paper.questions
          /\ Closes' = Closes /\ PositionsLeft' = PositionsLeft
       \/ /\ q \in paper.questions /\ paper'.questions = paper.questions \ {q}
          /\ PositionsLeft' = PositionsLeft + 1
          /\ \E n \in Nat : Closes' = Append(Closes, Row(n, q, "Sell"))
  <2>1. CASE closing
    <3>1. Closes' = Append(Closes, Row(paper'.counter, q, "Sell"))
      BY <1>4, <1>7, <2>1
    <3>2. \E n \in Nat : Closes' = Append(Closes, Row(n, q, "Sell"))
      BY <1>5, <3>1
    <3> QED
      BY <1>5, <1>6, <1>7, <2>1, <3>2
  <2>2. CASE ~ closing
    BY <1>4, <1>5, <1>7, <2>2
  <2> QED
    BY <2>1, <2>2
<1> QED
  BY <1>1, <1>3, <1>7, <1>8, <1>9, <1>10 DEF SaleStep

LEMMA Reaps == IInv /\ RowsOK /\ Reap => ReapStep
<1> SUFFICES ASSUME IInv, RowsOK, Reap PROVE ReapStep
  OBVIOUS
<1>1. /\ phase = "observe" /\ phase' = "close"
      /\ finishing' = [q \in Ended |-> tracker[q].price]
      /\ tracker' = [q \in Tracked \ Ended |-> tracker[q]]
      /\ events' = [events EXCEPT !.lifecycles = Cardinality(Ended)]
      /\ trades' = trades /\ paper' = paper /\ files' = files
      /\ bootRows' = bootRows /\ killed' = killed
  BY DEF Reap, fileVars, runVars
<1>2. /\ events'.detected = events.detected /\ events'.lifecycles = Cardinality(Ended)
      /\ events'.trades = events.trades /\ events'.closes = events.closes
      /\ events'.opens = events.opens
  BY <1>1 DEF IInv, EventsOK
<1>3. /\ SameEnds /\ SameRows /\ DetectedLeft' = DetectedLeft
      /\ EndedLeft = 0 /\ EndedLeft' = Cardinality(Ended)
  BY <1>1, <1>2, LeftIs, LeftIsNext DEF SameEnds, SameRows, RowsOK
<1>4. SameFiles /\ SameRun
  BY <1>1 DEF SameFiles, SameCounts, SameTrades, SameOrders, SamePositions, SameRun
<1>5. Ended \subseteq Tracked /\ DOMAIN finishing = {}
  BY <1>1 DEF Ended, IInv, PhaseOK
<1> QED
  BY <1>1, <1>3, <1>4, <1>5 DEF ReapStep

LEMMA Writes == IInv /\ AppendRows => WriteStep
<1> SUFFICES ASSUME IInv, AppendRows PROVE WriteStep
  OBVIOUS
<1> USE DEF SameFiles, SameCounts, SameTrades, SameOrders, SamePositions, SameFound, SameEnds, SameRows
<1>1. /\ phase \in {"detected", "lifecycles", "trades", "closes", "positions", "opens"}
      /\ files' = Written /\ phase' = NextStep
      /\ tracker' = tracker /\ finishing' = finishing /\ trades' = trades
      /\ paper' = paper /\ events' = events
      /\ bootRows' = bootRows /\ killed' = killed
  BY DEF AppendRows, scanVars, bookVars, runVars
<1>2. SameBooks /\ SameRun
  BY <1>1 DEF SameBooks, SameRun, Tracked
<1>d. DOMAIN files = {"detected", "lifecycles", "trades", "orders", "positions", "execution"}
  BY DEF IInv, FilesOK
<1>t. events.trades \in Seq(Nat) /\ files.trades \in Seq(Nat)
  BY DEF IInv, EventsOK, FilesOK
<1>3. CASE phase = "detected"
  <2>1. phase' = "lifecycles"
    BY <1>1, <1>3, NextPhase
  <2>2. files' = [files EXCEPT !.detected = files.detected + events.detected]
    BY <1>1, <1>3 DEF Written
  <2>3. DetectedLeft = events.detected /\ DetectedLeft' = 0 /\ EndedLeft' = EndedLeft /\ SameEnds /\ SameRows
    BY <1>1, <1>3, <2>1 DEF DetectedLeft, EndedLeft, TradesLeft, PositionsLeft, Left, Closes, Opens, ToWrite, Idle
  <2> QED
    BY <1>d, <1>2, <2>2, <2>3 DEF WriteStep, WriteDetected
<1>4. CASE phase = "lifecycles"
  <2>1. phase' = "trades"
    BY <1>1, <1>4, NextPhase
  <2>2. files' = [files EXCEPT !.lifecycles = files.lifecycles + events.lifecycles]
    BY <1>1, <1>4 DEF Written
  <2>3. /\ DetectedLeft = 0 /\ DetectedLeft' = 0 /\ EndedLeft = events.lifecycles /\ EndedLeft' = 0
        /\ SameEnds /\ SameRows
    BY <1>1, <1>4, <2>1 DEF DetectedLeft, EndedLeft, TradesLeft, PositionsLeft, Left, Closes, Opens, ToWrite, Idle
  <2> QED
    BY <1>d, <1>2, <2>2, <2>3 DEF WriteStep, WriteEnded
<1>5. CASE phase = "trades"
  <2>1. phase' = "closes"
    BY <1>1, <1>5, NextPhase
  <2>2. files' = [files EXCEPT !.trades = files.trades \o events.trades]
    BY <1>1, <1>5 DEF Written
  <2>3. /\ EndedLeft = 0 /\ SameFound /\ TradesLeft = Len(events.trades) /\ TradesLeft' = 0
        /\ PositionsLeft' = PositionsLeft /\ SameRows
    BY <1>1, <1>5, <2>1 DEF DetectedLeft, EndedLeft, TradesLeft, PositionsLeft, Left, Closes, Opens, ToWrite, Idle
  <2>4. Len(files.trades \o events.trades) = Len(files.trades) + Len(events.trades)
    BY <1>t
  <2>5. files'.trades = files.trades \o events.trades /\ SameCounts /\ SameOrders /\ SamePositions
    BY <1>d, <2>2
  <2> QED
    BY <1>2, <2>3, <2>4, <2>5 DEF WriteStep, WriteTrades
<1>6. CASE phase = "closes"
  <2>1. phase' = "positions"
    BY <1>1, <1>6, NextPhase
  <2>2. files' = [files EXCEPT !.orders = files.orders \o events.closes]
    BY <1>1, <1>6 DEF Written
  <2>3. /\ SameFound /\ SameEnds /\ Closes = events.closes /\ Closes' = << >> /\ Opens' = Opens
    BY <1>1, <1>6, <2>1 DEF DetectedLeft, EndedLeft, TradesLeft, PositionsLeft, Left, Closes, Opens, ToWrite, Idle
  <2> QED
    BY <1>d, <1>2, <2>2, <2>3 DEF WriteStep, WriteCloses
<1>7. CASE phase = "positions"
  <2>1. phase' = "opens"
    BY <1>1, <1>7, NextPhase
  <2>2. files' = [files EXCEPT !.positions = files.positions + Len(events.closes)]
    BY <1>1, <1>7 DEF Written
  <2>3. /\ SameFound /\ SameRows /\ Closes = << >> /\ TradesLeft' = TradesLeft
        /\ PositionsLeft = Len(events.closes) /\ PositionsLeft' = 0
    BY <1>1, <1>7, <2>1 DEF DetectedLeft, EndedLeft, TradesLeft, PositionsLeft, Left, Closes, Opens, ToWrite, Idle
  <2> QED
    BY <1>d, <1>2, <2>2, <2>3 DEF WriteStep, WritePositions
<1>8. CASE phase = "opens"
  <2>1. phase' = "portfolio"
    BY <1>1, <1>8, NextPhase
  <2>2. files' = [files EXCEPT !.orders = files.orders \o events.opens]
    BY <1>1, <1>8 DEF Written
  <2>3. /\ SameFound /\ SameEnds /\ Closes = << >> /\ Closes' = << >>
        /\ Opens = events.opens /\ Opens' = << >>
    BY <1>1, <1>8, <2>1 DEF DetectedLeft, EndedLeft, TradesLeft, PositionsLeft, Left, Closes, Opens, ToWrite, Idle
  <2> QED
    BY <1>d, <1>2, <2>2, <2>3 DEF WriteStep, WriteOpens
<1> QED
  BY <1>1, <1>3, <1>4, <1>5, <1>6, <1>7, <1>8

LEMMA Restarts == IInv /\ NumbersOK /\ (Stop \/ Kill) => RestartStep
<1> SUFFICES ASSUME IInv, NumbersOK, Stop \/ Kill PROVE RestartStep
  OBVIOUS
<1>1. /\ tracker' = << >> /\ finishing' = << >>
      /\ trades' = [open |-> << >>, counter |-> Len(files.trades), total |-> Len(files.trades)]
      /\ paper' = NewBooks(Len(files.orders))
      /\ events' = NoEvents /\ files' = files /\ bootRows' = Len(files.orders)
  BY DEF Stop, Kill, Restart
<1>2. ~ killed' => events = NoEvents /\ ~ killed
  BY DEF Stop, Kill, NumbersOK
<1>3. paper'.questions = {} /\ trades'.total = Len(files.trades)
  BY <1>1 DEF NewBooks
<1> QED
  BY <1>1, <1>2, <1>3, LeftIs, LeftIsNext
     DEF RestartStep, SameFiles, SameCounts, SameTrades, SameOrders, SamePositions

(* Steps that move no row.                                                 *)
LEMMA Waits ==
  ASSUME IInv, NumbersOK,
         \/ Fetch \/ LostRound \/ OnScan \/ SavePortfolio \/ AppendOrders
         \/ Audit \/ AuditEnds \/ UNCHANGED vars
         \/ \E q \in Questions : ObserveKnown(q)
  PROVE  Quiet
<1> USE DEF SameFiles, SameCounts, SameTrades, SameOrders, SamePositions, SameFound, SameEnds,
            SameRows, SameBooks, SameRun
<1>1. CASE Fetch \/ LostRound
  <2>1. /\ phase \in {Idle, "observe"} /\ phase' \in {Idle, "observe"}
        /\ tracker' = Aged /\ finishing' = finishing /\ trades' = trades /\ paper' = paper
        /\ events' = events /\ files' = files /\ bootRows' = bootRows /\ killed' = killed
    BY <1>1 DEF Fetch, LostRound, bookVars, fileVars, runVars
  <2>2. DOMAIN tracker' = Tracked
    BY <2>1 DEF Aged
  <2> QED
    BY <2>1, <2>2, LeftIs, LeftIsNext DEF Quiet
<1>2. CASE OnScan
  <2>1. /\ phase = "close" /\ phase' = "detected" /\ paper' = Revalued(paper)
        /\ tracker' = tracker /\ finishing' = finishing /\ trades' = trades
        /\ events' = events /\ files' = files /\ bootRows' = bootRows /\ killed' = killed
    BY <1>2 DEF OnScan, fileVars, runVars, Steps
  <2>2. paper'.questions = paper.questions
    BY <2>1, RevaluedSound DEF IInv
  <2>3. SameFound /\ SameEnds /\ SameRows
    BY <2>1 DEF DetectedLeft, EndedLeft, TradesLeft, PositionsLeft, Left, Closes, Opens, ToWrite
  <2> QED
    BY <2>1, <2>2, <2>3 DEF Quiet, Tracked
<1>3. CASE SavePortfolio
  <2>1. /\ phase = "portfolio" /\ phase' = "orders"
        /\ tracker' = tracker /\ finishing' = finishing /\ trades' = trades /\ paper' = paper
        /\ events' = events /\ files' = files /\ bootRows' = bootRows /\ killed' = killed
    BY <1>3, NextPhase DEF SavePortfolio, scanVars, bookVars, runVars
  <2>2. SameFound /\ SameEnds /\ SameRows
    BY <2>1 DEF DetectedLeft, EndedLeft, TradesLeft, PositionsLeft, Left, Closes, Opens, ToWrite, Idle
  <2> QED
    BY <2>1, <2>2 DEF Quiet, Tracked
<1>4. CASE AppendOrders
  <2>1. /\ phase = "orders" /\ phase' = Idle /\ events' = NoEvents
        /\ files' = [files EXCEPT !.execution = files.execution + Cardinality(terminal)]
        /\ tracker' = tracker /\ finishing' = finishing /\ trades' = trades /\ paper' = paper
        /\ bootRows' = bootRows /\ killed' = killed
    BY <1>4 DEF AppendOrders, scanVars, runVars
  <2>2. SameFiles
    BY <2>1 DEF IInv, FilesOK
  <2>3. /\ DetectedLeft = 0 /\ EndedLeft = 0 /\ TradesLeft = 0 /\ PositionsLeft = 0
        /\ Closes = << >> /\ Opens = << >>
    BY <2>1 DEF DetectedLeft, EndedLeft, TradesLeft, PositionsLeft, Left, Closes, Opens, ToWrite, Idle
  <2> QED
    BY <2>1, <2>2, <2>3, LeftIsNext DEF Quiet, Tracked
<1>5. CASE Audit \/ AuditEnds \/ UNCHANGED vars
  <2>1. /\ phase' = phase /\ tracker' = tracker /\ finishing' = finishing /\ trades' = trades
        /\ paper' = paper /\ events' = events /\ files' = files
        /\ bootRows' = bootRows /\ killed' = killed
    BY <1>5 DEF Audit, AuditEnds, vars, scanVars, bookVars, fileVars, runVars
  <2>2. SameFound /\ SameEnds /\ SameRows
    BY <2>1 DEF DetectedLeft, EndedLeft, TradesLeft, PositionsLeft, Left, Closes, Opens, ToWrite
  <2> QED
    BY <2>1, <2>2 DEF Quiet, Tracked
<1>6. ASSUME NEW q \in Questions, ObserveKnown(q) PROVE Quiet
  <2>1. /\ phase = "observe" /\ phase' = phase /\ q \in DOMAIN todo /\ q \in Tracked
        /\ tracker' = [tracker EXCEPT ![q] = [tracker[q] EXCEPT !.price = todo[q]]]
        /\ paper' = Marked(paper, q, todo[q])
        /\ finishing' = finishing /\ trades' = trades
        /\ events' = events /\ files' = files /\ bootRows' = bootRows /\ killed' = killed
    BY <1>6 DEF ObserveKnown, fileVars, runVars
  <2>2. paper'.questions = paper.questions
    <3>1. todo[q] \in Nat
      BY <2>1, LoopParameters DEF IInv, TrackOK
    <3> QED
      BY <2>1, <3>1, MarkedSound DEF IInv
  <2>3. DOMAIN tracker' = Tracked
    BY <2>1 DEF Tracked
  <2> QED
    BY <2>1, <2>2, <2>3, LeftIs, LeftIsNext DEF Quiet
<1> QED
  BY <1>1, <1>2, <1>3, <1>4, <1>5, <1>6

(* Every step of the loop does one of these.                               *)
LEMMA StepMoves ==
  ASSUME IInv, NumbersOK, RowsOK, FreshOK, [Next]_vars
  PROVE  \/ Quiet \/ ReapStep \/ WriteStep \/ RestartStep
         \/ \E q \in Questions : BuyStep(q) \/ SaleStep(q)
<1>1. CASE \E q \in Questions : ObserveNew(q)
  BY <1>1, Buys
<1>2. CASE \E q \in Questions : OnClose(q)
  BY <1>2, Sells
<1>3. CASE Reap
  BY <1>3, Reaps
<1>4. CASE AppendRows
  BY <1>4, Writes
<1>5. CASE Stop \/ Kill
  BY <1>5, Restarts
<1>6. CASE \/ Fetch \/ LostRound \/ OnScan \/ SavePortfolio \/ AppendOrders
           \/ Audit \/ AuditEnds \/ UNCHANGED vars
           \/ \E q \in Questions : ObserveKnown(q)
  BY <1>6, Waits
<1> QED
  BY <1>1, <1>2, <1>3, <1>4, <1>5, <1>6 DEF Next, Step

--------------------------------------------------------------------------------
(* The shapes of the rows, and what was bought in this scan *)

LEMMA RowsInit == Init => RowsOK /\ FreshOK
<1> SUFFICES ASSUME Init PROVE RowsOK /\ FreshOK
  OBVIOUS
<1>1. /\ phase = "idle" /\ events = NoEvents /\ files = NoRows /\ bootRows = 0
  BY DEF Init, Idle
<1> QED
  BY <1>1 DEF RowsOK, FreshOK, NoEvents, NoRows

LEMMA OrdersGrow ==
  ASSUME IInv, AppendRows, RowsOK
  PROVE  /\ files'.detected \in Nat /\ files'.lifecycles \in Nat /\ files'.positions \in Nat
         /\ 0 .. Len(files.orders) \subseteq 0 .. Len(files'.orders)
<1>1. phase \in {"detected", "lifecycles", "trades", "closes", "positions", "opens"} /\ files' = Written
  BY DEF AppendRows
<1>d. DOMAIN files = {"detected", "lifecycles", "trades", "orders", "positions", "execution"}
  BY DEF IInv, FilesOK
<1>2. /\ events.closes \in Seq(Rows) /\ events.opens \in Seq(Rows) /\ files.orders \in Seq(Rows)
      /\ Len(events.closes) \in Nat /\ Len(events.opens) \in Nat /\ Len(files.orders) \in Nat
      /\ Len(files.orders \o events.closes) = Len(files.orders) + Len(events.closes)
      /\ Len(files.orders \o events.opens) = Len(files.orders) + Len(events.opens)
  BY DEF IInv, EventsOK, FilesOK
<1>3. CASE phase \in {"closes", "opens"}
  <2>1. /\ files'.detected = files.detected /\ files'.lifecycles = files.lifecycles
        /\ files'.positions = files.positions
        /\ files'.orders \in {files.orders \o events.closes, files.orders \o events.opens}
    BY <1>1, <1>d, <1>3 DEF Written
  <2>2. \E k \in Nat : Len(files'.orders) = Len(files.orders) + k
    <3>1. CASE files'.orders = files.orders \o events.closes
      BY <1>2, <3>1
    <3>2. CASE files'.orders = files.orders \o events.opens
      BY <1>2, <3>2
    <3> QED
      BY <2>1, <3>1, <3>2
  <2>3. 0 .. Len(files.orders) \subseteq 0 .. Len(files'.orders)
    BY <1>2, <2>2
  <2> QED
    BY <2>1, <2>3 DEF RowsOK
<1>4. CASE phase = "detected"
  <2>1. files' = [files EXCEPT !.detected = files.detected + events.detected]
    BY <1>1, <1>4 DEF Written
  <2> QED
    BY <1>d, <2>1 DEF RowsOK
<1>5. CASE phase = "lifecycles"
  <2>1. files' = [files EXCEPT !.lifecycles = files.lifecycles + events.lifecycles]
    BY <1>1, <1>5 DEF Written
  <2> QED
    BY <1>d, <2>1 DEF RowsOK
<1>6. CASE phase = "trades"
  <2>1. files' = [files EXCEPT !.trades = files.trades \o events.trades]
    BY <1>1, <1>6 DEF Written
  <2> QED
    BY <1>d, <2>1 DEF RowsOK
<1>7. CASE phase = "positions"
  <2>1. files' = [files EXCEPT !.positions = files.positions + Len(events.closes)]
    BY <1>1, <1>7 DEF Written
  <2> QED
    BY <1>d, <1>2, <2>1 DEF RowsOK
<1> QED
  BY <1>1, <1>3, <1>4, <1>5, <1>6, <1>7

LEMMA EndedIsFinite ==
  ASSUME IInv
  PROVE  /\ IsFiniteSet(Tracked) /\ IsFiniteSet(Ended) /\ IsFiniteSet(DOMAIN finishing)
         /\ Cardinality(Ended) \in Nat
<1>1. Tracked \subseteq Questions /\ Ended \subseteq Questions /\ DOMAIN finishing \subseteq Questions
  BY DEF IInv, TrackOK, Ended
<1>2. IsFiniteSet(Tracked) /\ IsFiniteSet(Ended) /\ IsFiniteSet(DOMAIN finishing)
  BY <1>1, FS_Subset, LoopParameters
<1> QED
  BY <1>2, FS_CardinalityType

LEMMA RowsNext == IInv /\ NumbersOK /\ RowsOK /\ [Next]_vars => RowsOK'
<1> SUFFICES ASSUME IInv, NumbersOK, RowsOK, [Next]_vars PROVE RowsOK'
  OBVIOUS
<1>1. CASE Fetch
  <2>1. phase = Idle /\ events' = events /\ files' = files /\ bootRows' = bootRows
    BY <1>1 DEF Fetch, bookVars, fileVars, runVars
  <2>2. events = NoEvents
    BY <2>1 DEF NumbersOK
  <2> QED
    BY <2>1, <2>2 DEF RowsOK, NoEvents
<1>2. CASE LostRound
  BY <1>2 DEF LostRound, bookVars, fileVars, runVars, RowsOK
<1>3. ASSUME NEW q \in Questions, ObserveNew(q) PROVE RowsOK'
  <2>1. /\ phase = "observe" /\ phase' = phase /\ files' = files /\ bootRows' = bootRows
        /\ events' = [events EXCEPT !.detected = events.detected + 1,
                        !.opens = IF RiskRefuses(paper, todo[q]) THEN events.opens
                                  ELSE Append(events.opens, Row(paper'.counter, q, "Buy"))]
    BY <1>3 DEF ObserveNew, fileVars, runVars
  <2>2. /\ events'.detected = events.detected + 1 /\ events'.lifecycles = events.lifecycles
        /\ events'.closes = events.closes
        /\ events'.opens \in {events.opens, Append(events.opens, Row(paper'.counter, q, "Buy"))}
    BY <2>1 DEF IInv, EventsOK
  <2>3. \A i \in DOMAIN events'.opens : events'.opens[i].side = "Buy"
    <3> DEFINE x == Row(paper'.counter, q, "Buy")
    <3>1. x.side = "Buy"
      BY DEF Row
    <3> HIDE DEF x
    <3>2. events.opens \in Seq(Rows)
      BY DEF IInv, EventsOK
    <3>3. \A i \in DOMAIN Append(events.opens, x) : Append(events.opens, x)[i].side = "Buy"
      BY <3>1, <3>2 DEF RowsOK
    <3> QED
      BY <2>2, <3>3 DEF RowsOK, x
  <2> QED
    BY <2>1, <2>2, <2>3 DEF RowsOK
<1>4. ASSUME NEW q \in Questions, ObserveKnown(q) PROVE RowsOK'
  BY <1>4 DEF ObserveKnown, fileVars, runVars, RowsOK
<1>5. CASE Reap
  <2>1. /\ phase' = "close" /\ files' = files /\ bootRows' = bootRows
        /\ events' = [events EXCEPT !.lifecycles = Cardinality(Ended)]
    BY <1>5 DEF Reap, fileVars, runVars
  <2>2. /\ events'.detected = events.detected /\ events'.lifecycles = Cardinality(Ended)
        /\ events'.closes = events.closes /\ events'.opens = events.opens
    BY <2>1 DEF IInv, EventsOK
  <2> QED
    BY <2>1, <2>2, EndedIsFinite DEF RowsOK
<1>6. ASSUME NEW q \in Questions, OnClose(q) PROVE RowsOK'
  <2>1. /\ phase = "close" /\ phase' = phase /\ files' = files /\ bootRows' = bootRows
        /\ events' = [events EXCEPT
                        !.trades = IF q \in DOMAIN trades.open THEN Append(events.trades, trades.open[q])
                                   ELSE events.trades,
                        !.closes = IF CanClose(paper, q)
                                   THEN Append(events.closes, Row(paper'.counter, q, "Sell"))
                                   ELSE events.closes]
    BY <1>6 DEF OnClose, fileVars, runVars
  <2>2. /\ events'.detected = events.detected /\ events'.lifecycles = events.lifecycles
        /\ events'.opens = events.opens
        /\ events'.closes \in {events.closes, Append(events.closes, Row(paper'.counter, q, "Sell"))}
    BY <2>1 DEF IInv, EventsOK
  <2>3. \A i \in DOMAIN events'.closes : events'.closes[i].side = "Sell"
    <3> DEFINE x == Row(paper'.counter, q, "Sell")
    <3>1. x.side = "Sell"
      BY DEF Row
    <3> HIDE DEF x
    <3>2. events.closes \in Seq(Rows)
      BY DEF IInv, EventsOK
    <3>3. \A i \in DOMAIN Append(events.closes, x) : Append(events.closes, x)[i].side = "Sell"
      BY <3>1, <3>2 DEF RowsOK
    <3> QED
      BY <2>2, <3>3 DEF RowsOK, x
  <2> QED
    BY <2>1, <2>2, <2>3 DEF RowsOK
<1>7. CASE OnScan
  BY <1>7 DEF OnScan, fileVars, runVars, Steps, RowsOK
<1>8. CASE AppendRows
  <2>1. phase' # "observe" /\ events' = events /\ bootRows' = bootRows
    BY <1>8, NextPhase DEF AppendRows, bookVars, runVars
  <2> QED
    BY <1>8, <2>1, OrdersGrow DEF RowsOK
<1>9. CASE SavePortfolio
  <2>1. phase' = "orders" /\ events' = events /\ files' = files /\ bootRows' = bootRows
    BY <1>9, NextPhase DEF SavePortfolio, bookVars, runVars
  <2> QED
    BY <2>1 DEF RowsOK
<1>10. CASE AppendOrders
  <2>1. /\ phase' = Idle /\ events' = NoEvents /\ bootRows' = bootRows
        /\ files' = [files EXCEPT !.execution = files.execution + Cardinality(terminal)]
    BY <1>10 DEF AppendOrders, runVars
  <2>2. /\ files'.detected = files.detected /\ files'.lifecycles = files.lifecycles
        /\ files'.positions = files.positions /\ files'.orders = files.orders
    BY <2>1 DEF IInv, FilesOK
  <2> QED
    BY <2>1, <2>2 DEF RowsOK, NoEvents
<1>11. CASE Stop \/ Kill
  <2>1. /\ phase' = Idle /\ events' = NoEvents /\ files' = files /\ bootRows' = Len(files.orders)
    BY <1>11 DEF Stop, Kill, Restart
  <2>2. Len(files.orders) \in Nat
    BY DEF IInv, FilesOK
  <2> QED
    BY <2>1, <2>2 DEF RowsOK, NoEvents, Idle
<1>12. CASE Audit \/ AuditEnds \/ UNCHANGED vars
  BY <1>12 DEF Audit, AuditEnds, vars, bookVars, fileVars, runVars, RowsOK
<1> QED
  BY <1>1, <1>2, <1>3, <1>4, <1>5, <1>6, <1>7, <1>8, <1>9, <1>10, <1>11, <1>12 DEF Next, Step

LEMMA AskedOne ==
  ASSUME NEW r \in Seq(Rows), NEW x \in Rows
  PROVE  Asked(Append(r, x)) = Asked(r) \cup {x.question}
<1>1. /\ DOMAIN Append(r, x) = 1 .. Len(r) + 1 /\ DOMAIN r = 1 .. Len(r) /\ Len(r) \in Nat
      /\ \A i \in DOMAIN r : Append(r, x)[i] = r[i]
      /\ Append(r, x)[Len(r) + 1] = x
  OBVIOUS
<1> DEFINE t == Append(r, x)
<1> HIDE DEF t
<1>2. \A i \in DOMAIN t : i \in DOMAIN r \/ i = Len(r) + 1
  BY <1>1 DEF t
<1>3. \A i \in DOMAIN r : i \in DOMAIN t
  BY <1>1 DEF t
<1>4. Len(r) + 1 \in DOMAIN t
  BY <1>1 DEF t
<1> QED
  BY <1>1, <1>2, <1>3, <1>4 DEF Asked, t

(* A scan asks for no more questions than it has purchases.                *)
LEMMA AskedAreFew ==
  ASSUME NEW r \in Seq(Rows)
  PROVE  IsFiniteSet(Asked(r)) /\ Cardinality(Asked(r)) <= Len(r)
<1> DEFINE f == [i \in 1 .. Len(r) |-> r[i].question]
<1>1. Len(r) \in Nat /\ DOMAIN r = 1 .. Len(r)
  OBVIOUS
<1>2. f \in Surjection(1 .. Len(r), Asked(r))
  BY <1>1 DEF Surjection, Asked
<1>3. ExistsSurjection(1 .. Len(r), Asked(r))
  BY <1>2 DEF ExistsSurjection
<1>4. IsFiniteSet(1 .. Len(r))
  BY <1>1, FS_Interval
<1>5. IsFiniteSet(Asked(r))
  BY <1>2, <1>4, FS_Surjection
<1> QED
  BY <1>1, <1>3, <1>5, FS_SurjCardinalityBound

LEMMA FreshNext == IInv /\ NumbersOK /\ FreshOK /\ [Next]_vars => FreshOK'
<1> SUFFICES ASSUME IInv, NumbersOK, FreshOK, [Next]_vars PROVE FreshOK'
  OBVIOUS
<1>1. CASE Fetch
  <2>1. /\ phase = Idle /\ phase' = "observe" /\ events' = events /\ DOMAIN todo' = seen'
    BY <1>1 DEF Fetch, bookVars
  <2>2. Asked(events'.opens) = {}
    BY <2>1 DEF NumbersOK, NoEvents, Asked
  <2> QED
    BY <2>1, <2>2 DEF FreshOK
<1>2. ASSUME NEW q \in Questions, ObserveNew(q) PROVE FreshOK'
  <2> DEFINE x == Row(paper'.counter, q, "Buy")
  <2>1. /\ phase = "observe" /\ phase' = phase /\ q \in DOMAIN todo /\ q \notin Tracked
        /\ tracker' = Put(tracker, q, [age |-> 0, price |-> todo[q]])
        /\ todo' = Drop(todo, q) /\ seen' = seen
        /\ events' = [events EXCEPT !.detected = events.detected + 1,
                        !.opens = IF RiskRefuses(paper, todo[q]) THEN events.opens
                                  ELSE Append(events.opens, x)]
    BY <1>2 DEF ObserveNew
  <2>2. /\ DOMAIN tracker' = Tracked \cup {q} /\ tracker'[q].age = 0
        /\ \A y \in Tracked : tracker'[y] = tracker[y]
        /\ DOMAIN todo' \subseteq DOMAIN todo
    BY <2>1 DEF Put, Drop, Tracked
  <2>3. events'.opens \in {events.opens, Append(events.opens, x)} /\ events.opens \in Seq(Rows)
    BY <2>1 DEF IInv, EventsOK
  <2>4. Asked(events'.opens) \subseteq Asked(events.opens) \cup {q}
    <3>1. IInv'
      BY NextHolds
    <3>2. x \in Rows /\ x.question = q
      BY <3>1 DEF IInv, Sound, Books, Row, Rows
    <3> HIDE DEF x
    <3> QED
      BY <2>3, <3>2, AskedOne
  <2> QED
    BY <2>1, <2>2, <2>4 DEF FreshOK, Tracked
<1>3. ASSUME NEW q \in Questions, ObserveKnown(q) PROVE FreshOK'
  <2>1. /\ phase = "observe" /\ phase' = phase /\ q \in Tracked
        /\ tracker' = [tracker EXCEPT ![q] = [tracker[q] EXCEPT !.price = todo[q]]]
        /\ todo' = Drop(todo, q) /\ seen' = seen /\ events' = events
    BY <1>3 DEF ObserveKnown
  <2>2. DOMAIN tracker' = Tracked /\ DOMAIN todo' \subseteq DOMAIN todo
    BY <2>1 DEF Tracked, Drop
  <2>3. \A y \in Tracked : tracker'[y].age = tracker[y].age
    <3>1. tracker \in [Tracked -> Tracks] /\ tracker[q] \in Tracks
      BY <2>1 DEF IInv, TrackOK
    <3>2. [tracker[q] EXCEPT !.price = todo[q]].age = tracker[q].age
      BY <3>1 DEF Tracks
    <3> QED
      BY <2>1, <3>1, <3>2
  <2> QED
    BY <2>1, <2>2, <2>3 DEF FreshOK, Tracked
<1>4. CASE Reap
  <2>1. /\ phase = "observe" /\ phase' = "close" /\ DOMAIN finishing' = Ended
        /\ events' = [events EXCEPT !.lifecycles = Cardinality(Ended)]
    BY <1>4 DEF Reap
  <2>2. events'.opens = events.opens
    BY <2>1 DEF IInv, EventsOK
  <2>3. \A q \in Asked(events.opens) : q \notin Ended
    BY <2>1, LoopParameters DEF FreshOK, Ended
  <2> QED
    BY <2>1, <2>2, <2>3 DEF FreshOK
<1>5. ASSUME NEW q \in Questions, OnClose(q) PROVE FreshOK'
  <2>1. /\ phase = "close" /\ phase' = phase /\ finishing' = Drop(finishing, q)
        /\ events'.opens = events.opens
    BY <1>5 DEF OnClose, IInv, EventsOK
  <2> QED
    BY <2>1 DEF FreshOK, Drop
<1>6. CASE AppendRows \/ SavePortfolio
  BY <1>6, NextPhase DEF AppendRows, SavePortfolio, FreshOK
<1>7. CASE LostRound \/ OnScan \/ AppendOrders \/ Stop \/ Kill
  BY <1>7 DEF LostRound, OnScan, AppendOrders, Stop, Kill, Restart, Steps, Idle, FreshOK
<1>8. CASE Audit \/ AuditEnds \/ UNCHANGED vars
  BY <1>8 DEF Audit, AuditEnds, vars, scanVars, bookVars, FreshOK, Tracked
<1> QED
  BY <1>1, <1>2, <1>3, <1>4, <1>5, <1>6, <1>7, <1>8 DEF Next, Step

--------------------------------------------------------------------------------
(* No file runs ahead *)

LEMMA LeftIsNat ==
  ASSUME IInv, RowsOK
  PROVE  /\ DetectedLeft \in Nat /\ EndedLeft \in Nat /\ TradesLeft \in Nat /\ PositionsLeft \in Nat
         /\ Closes \in Seq(Rows) /\ Opens \in Seq(Rows)
         /\ \A i \in DOMAIN Closes : Closes[i].side = "Sell"
         /\ \A i \in DOMAIN Opens : Opens[i].side = "Buy"
         /\ Len(files.trades) \in Nat /\ files.orders \in Seq(Rows)
<1>1. /\ events.detected \in Nat /\ events.lifecycles \in Nat
      /\ Len(events.trades) \in Nat /\ Len(events.closes) \in Nat
      /\ events.closes \in Seq(Rows) /\ events.opens \in Seq(Rows)
  BY DEF RowsOK, IInv, EventsOK
<1>2. DetectedLeft \in Nat /\ EndedLeft \in Nat /\ TradesLeft \in Nat /\ PositionsLeft \in Nat
  BY <1>1 DEF DetectedLeft, EndedLeft, TradesLeft, PositionsLeft, Left
<1>3. Closes \in {events.closes, << >>} /\ Opens \in {events.opens, << >>}
  BY DEF Closes, Opens, ToWrite
<1>4. << >> \in Seq(Rows) /\ DOMAIN << >> = {}
  OBVIOUS
<1>5. /\ \A i \in DOMAIN Closes : Closes[i].side = "Sell"
      /\ \A i \in DOMAIN Opens : Opens[i].side = "Buy"
  BY <1>3, <1>4 DEF RowsOK
<1>6. Closes \in Seq(Rows) /\ Opens \in Seq(Rows)
  BY <1>1, <1>3, <1>4
<1>7. Len(files.trades) \in Nat /\ files.orders \in Seq(Rows)
  BY DEF IInv, FilesOK
<1> QED
  BY <1>2, <1>5, <1>6, <1>7

LEMMA LagsInit == Init => Lags
<1> SUFFICES ASSUME Init PROVE Lags
  OBVIOUS
<1>1. /\ events = NoEvents /\ files = NoRows /\ tracker = << >> /\ finishing = << >>
      /\ trades.total = 0
  BY DEF Init
<1> QED
  BY <1>1, LeftIs, FS_EmptySet DEF Lags, NoRows, Tracked

LEMMA LagsNext ==
  ASSUME IInv, NumbersOK, RowsOK, FreshOK, Lags, [Next]_vars
  PROVE  Lags'
<1> DEFINE n == Cardinality(Tracked)
           m == Cardinality(DOMAIN finishing)
           k == Len(files.trades)
           j == trades.total
<1>n. /\ DetectedLeft \in Nat /\ EndedLeft \in Nat /\ TradesLeft \in Nat
      /\ k \in Nat /\ files.lifecycles \in Nat /\ files.detected \in Nat
  BY LeftIsNat DEF RowsOK
<1>f. IsFiniteSet(Tracked) /\ IsFiniteSet(DOMAIN finishing) /\ n \in Nat /\ m \in Nat
      /\ IsFiniteSet(Ended) /\ Cardinality(Ended) \in Nat
  BY EndedIsFinite, FS_CardinalityType
<1>l. /\ files.lifecycles <= files.detected
      /\ files.lifecycles + EndedLeft + n <= files.detected + DetectedLeft
      /\ k <= files.lifecycles
      /\ k + TradesLeft + m <= files.lifecycles + EndedLeft
      /\ j = k + TradesLeft
  BY DEF Lags
<1> USE DEF SameFiles, SameCounts, SameTrades, SameFound, SameEnds, SameBooks
<1>1. CASE Quiet
  BY <1>1, <1>l DEF Quiet, Lags, Tracked
<1>2. ASSUME NEW q \in Questions, BuyStep(q) PROVE Lags'
  <2>1. Cardinality(DOMAIN tracker') = n + 1
    BY <1>2, <1>f, FS_AddElement DEF BuyStep
  <2>2. /\ SameFiles /\ DetectedLeft' = DetectedLeft + 1 /\ EndedLeft' = EndedLeft
        /\ TradesLeft' = TradesLeft /\ trades'.total = trades.total
        /\ Cardinality(DOMAIN finishing') = m
    BY <1>2 DEF BuyStep
  <2> HIDE DEF n, m, k, j
  <2>3. files.lifecycles + EndedLeft + (n + 1) <= files.detected + (DetectedLeft + 1)
    BY <1>n, <1>f, <1>l
  <2> QED
    BY <1>l, <2>1, <2>2, <2>3 DEF Lags, Tracked, k, j
<1>3. ASSUME NEW q \in Questions, SaleStep(q) PROVE Lags'
  <2>1. Cardinality(DOMAIN finishing') = m - 1
    BY <1>3, <1>f, FS_RemoveElement DEF SaleStep
  <2>2. /\ SameFiles /\ SameFound /\ TradesLeft' = TradesLeft + 1
        /\ trades'.total = trades.total + 1 /\ Cardinality(DOMAIN tracker') = n
    BY <1>3 DEF SaleStep
  <2> HIDE DEF n, m
  <2> HIDE DEF k, j
  <2>3. k + (TradesLeft + 1) + (m - 1) <= files.lifecycles + EndedLeft
    BY <1>n, <1>f, <1>l
  <2>4. j + 1 = k + (TradesLeft + 1)
    BY <1>n, <1>l
  <2> QED
    BY <1>l, <2>1, <2>2, <2>3, <2>4 DEF Lags, Tracked, k, j
<1>4. CASE ReapStep
  <2>1. Cardinality(DOMAIN tracker') = n - Cardinality(Ended)
    <3>1. Tracked \cap Ended = Ended
      BY <1>4 DEF ReapStep
    <3>2. Cardinality(Tracked \ Ended) = Cardinality(Tracked) - Cardinality(Tracked \cap Ended)
      BY <1>f, FS_Difference
    <3> QED
      BY <1>4, <3>1, <3>2 DEF ReapStep
  <2>2. m = 0 /\ Cardinality(DOMAIN finishing') = Cardinality(Ended)
    BY <1>4, FS_EmptySet DEF ReapStep
  <2>3. /\ SameFiles /\ DetectedLeft' = DetectedLeft /\ EndedLeft = 0
        /\ EndedLeft' = Cardinality(Ended) /\ TradesLeft' = TradesLeft
        /\ trades'.total = trades.total
    BY <1>4 DEF ReapStep
  <2> HIDE DEF n, m
  <2> QED
    BY <1>n, <1>f, <1>l, <2>1, <2>2, <2>3 DEF Lags, Tracked
<1>5. CASE WriteStep
  <2>1. /\ Cardinality(DOMAIN tracker') = n /\ Cardinality(DOMAIN finishing') = m
        /\ trades'.total = trades.total
    BY <1>5 DEF WriteStep
  <2> HIDE DEF n, m
  <2>2. CASE WriteDetected
    BY <1>n, <1>f, <1>l, <2>1, <2>2 DEF WriteDetected, Lags, Tracked
  <2>3. CASE WriteEnded
    BY <1>n, <1>f, <1>l, <2>1, <2>3 DEF WriteEnded, Lags, Tracked
  <2>4. CASE WriteTrades
    BY <1>n, <1>f, <1>l, <2>1, <2>4 DEF WriteTrades, Lags, Tracked
  <2>5. CASE WriteCloses \/ WritePositions \/ WriteOpens
    BY <1>n, <1>f, <1>l, <2>1, <2>5 DEF WriteCloses, WritePositions, WriteOpens, Lags, Tracked
  <2> QED
    BY <1>5, <2>2, <2>3, <2>4, <2>5 DEF WriteStep
<1>6. CASE RestartStep
  <2>1. Cardinality(DOMAIN tracker') = 0 /\ Cardinality(DOMAIN finishing') = 0
    BY <1>6, FS_EmptySet DEF RestartStep
  <2> QED
    BY <1>6, <1>n, <1>l, <2>1 DEF RestartStep, Lags, Tracked
<1> QED
  BY <1>1, <1>2, <1>3, <1>4, <1>5, <1>6, StepMoves

--------------------------------------------------------------------------------
(* Sales follow purchases, closed positions follow sales *)

LEMMA RowIs ==
  ASSUME NEW n \in Nat, NEW q \in Questions, NEW side \in {"Buy", "Sell"}
  PROVE  /\ Row(n, q, side) \in Rows
         /\ Row(n, q, side).question = q /\ Row(n, q, side).side = side
  BY DEF Row, Rows

(* A finite set of questions, and its size.                                *)
LEMMA QuestionsCount ==
  ASSUME NEW Q, Q \subseteq Questions
  PROVE  IsFiniteSet(Q) /\ Cardinality(Q) \in Nat
<1>1. IsFiniteSet(Q)
  BY LoopParameters, FS_Subset
<1> QED
  BY <1>1, FS_CardinalityType

LEMMA HeldAreQuestions == IInv => paper.questions \subseteq Questions
  BY DEF IInv, Sound, Books

LEMMA SalesInit == Init => Sales
<1> SUFFICES ASSUME Init PROVE Sales
  OBVIOUS
<1>1. /\ events = NoEvents /\ files.positions = 0 /\ files.orders = << >> /\ paper.questions = {}
  BY DEF Init, NoRows, NewBooks
<1>2. Closes = << >> /\ PositionsLeft = 0
  BY <1>1, LeftIs
<1>3. /\ Count(<< >>, 0, SideOf("Sell")) = 0 /\ Count(<< >>, 0, SideOf("Buy")) = 0
      /\ Len(<< >>) = 0
  BY CountOfEmpty
<1>4. Cardinality(paper.questions \ Fresh) = 0
  <2>1. paper.questions \ Fresh = {}
    BY <1>1
  <2> QED
    BY <2>1, FS_EmptySet
<1> QED
  BY <1>1, <1>2, <1>3, <1>4 DEF Sales, Sold, Bought

(* All rows still to be written as closes are sales, the others purchases. *)
LEMMA SidesCount ==
  ASSUME IInv, RowsOK
  PROVE  /\ Count(Closes, 0, SideOf("Sell")) = Len(Closes) /\ Count(Closes, 0, SideOf("Buy")) = 0
         /\ Count(Opens, 0, SideOf("Buy")) = Len(Opens) /\ Count(Opens, 0, SideOf("Sell")) = 0
<1>1. /\ Closes \in Seq(Rows) /\ \A i \in DOMAIN Closes : Closes[i].side = "Sell"
      /\ Opens \in Seq(Rows) /\ \A i \in DOMAIN Opens : Opens[i].side = "Buy"
  BY LeftIsNat
<1>2. /\ \A i \in DOMAIN Closes : Closes[i] \in Rows
      /\ \A i \in DOMAIN Opens : Opens[i] \in Rows
  BY <1>1
<1>3. /\ \A i \in DOMAIN Closes : Closes[i] \in SideOf("Sell") /\ Closes[i] \notin SideOf("Buy")
      /\ \A i \in DOMAIN Opens : Opens[i] \in SideOf("Buy") /\ Opens[i] \notin SideOf("Sell")
  BY <1>1, <1>2 DEF SideOf
<1> QED
  BY <1>1, <1>3, CountAll, CountNone

LEMMA SalesNext ==
  ASSUME IInv, NumbersOK, RowsOK, FreshOK, Sales, [Next]_vars
  PROVE  Sales'
<1> DEFINE s == Count(files.orders, 0, SideOf("Sell"))
           b == Count(files.orders, 0, SideOf("Buy"))
           l == Len(Closes)
           c == Cardinality(paper.questions \ Fresh)
           r == files.positions
           x == PositionsLeft
<1>n. s \in Nat /\ b \in Nat /\ l \in Nat /\ c \in Nat /\ r \in Nat /\ x \in Nat
  <2>1. files.orders \in Seq(Rows) /\ Closes \in Seq(Rows) /\ PositionsLeft \in Nat
    BY LeftIsNat
  <2>2. s \in Nat /\ b \in Nat
    BY <2>1, CountIsNat
  <2>3. c \in Nat
    BY HeldAreQuestions, QuestionsCount
  <2> QED
    BY <2>1, <2>2, <2>3 DEF RowsOK
<1>t. /\ files.orders \in Seq(Rows) /\ Closes \in Seq(Rows) /\ Opens \in Seq(Rows)
      /\ 0 \in 0 .. Len(files.orders)
  BY LeftIsNat
<1>s. /\ r <= s /\ r + x <= s + l /\ (~ killed => r + x = s + l) /\ s + l + c <= b
  BY DEF Sales, Sold, Bought
<1> HIDE DEF s, b, l, c, r, x
<1>i. /\ files'.positions <= Count(files'.orders, 0, SideOf("Sell"))
      /\ files'.positions + PositionsLeft' <= Count(files'.orders, 0, SideOf("Sell")) + Len(Closes')
      /\ ~ killed' => files'.positions + PositionsLeft'
                        = Count(files'.orders, 0, SideOf("Sell")) + Len(Closes')
      /\ Count(files'.orders, 0, SideOf("Sell")) + Len(Closes') + Cardinality(paper'.questions \ Fresh')
           <= Count(files'.orders, 0, SideOf("Buy"))
      => Sales'
  BY DEF Sales, Sold, Bought
<1> USE DEF SameFiles, SameOrders, SamePositions, SameEnds, SameRows, SameBooks, SameRun
<1>1. CASE Quiet \/ ReapStep \/ (WriteStep /\ (WriteDetected \/ WriteEnded \/ WriteTrades))
  <2>1. /\ files'.orders = files.orders /\ files'.positions = files.positions
        /\ PositionsLeft' = PositionsLeft /\ Closes' = Closes /\ Opens' = Opens
        /\ paper'.questions = paper.questions /\ killed' = killed
    BY <1>1 DEF Quiet, ReapStep, WriteStep, WriteDetected, WriteEnded, WriteTrades
  <2>2. Fresh' = Fresh
    BY <2>1 DEF Fresh
  <2> QED
    BY <1>i, <1>s, <2>1, <2>2 DEF s, b, l, c, r, x
<1>2. ASSUME NEW q \in Questions, BuyStep(q) PROVE Sales'
  <2>1. /\ files'.orders = files.orders /\ files'.positions = files.positions
        /\ PositionsLeft' = PositionsLeft /\ Closes' = Closes /\ killed' = killed
    BY <1>2 DEF BuyStep
  <2>2. paper'.questions \ Fresh' \subseteq paper.questions \ Fresh
    <3>1. CASE Opens' = Opens /\ paper'.questions = paper.questions
      BY <3>1 DEF Fresh
    <3>2. CASE paper'.questions = paper.questions \cup {q}
               /\ \E n \in Nat : Opens' = Append(Opens, Row(n, q, "Buy"))
      <4>1. Fresh' = Fresh \cup {q}
        BY <1>t, <3>2, RowIs, AskedOne DEF Fresh
      <4> QED
        BY <3>2, <4>1
    <3> QED
      BY <1>2, <3>1, <3>2 DEF BuyStep
  <2>3. Cardinality(paper'.questions \ Fresh') <= c /\ Cardinality(paper'.questions \ Fresh') \in Nat
    <3>1. IsFiniteSet(paper.questions \ Fresh)
      BY HeldAreQuestions, QuestionsCount
    <3>2. paper'.questions \ Fresh' \in SUBSET (paper.questions \ Fresh)
      BY <2>2
    <3>3. Cardinality(paper'.questions \ Fresh') <= Cardinality(paper.questions \ Fresh)
      BY <3>1, <3>2, FS_Subset
    <3>4. IsFiniteSet(paper'.questions \ Fresh')
      BY <3>1, <3>2, FS_Subset
    <3>5. Cardinality(paper'.questions \ Fresh') \in Nat
      BY <3>4, FS_CardinalityType
    <3> QED
      BY <3>3, <3>5 DEF c
  <2> DEFINE d == Cardinality(paper'.questions \ Fresh')
  <2> HIDE DEF d
  <2>4. s + l + d <= b
    BY <1>n, <1>s, <2>3 DEF d
  <2> QED
    BY <1>i, <1>s, <2>1, <2>4 DEF s, b, l, r, x, d
<1>3. ASSUME NEW q \in Questions, SaleStep(q) PROVE Sales'
  <2>1. /\ files'.orders = files.orders /\ files'.positions = files.positions
        /\ Opens' = Opens /\ killed' = killed /\ Fresh' = Fresh /\ q \notin Fresh
    BY <1>3 DEF SaleStep, Fresh
  <2>2. CASE /\ q \notin paper.questions /\ paper'.questions = paper.questions
             /\ Closes' = Closes /\ PositionsLeft' = PositionsLeft
    BY <1>i, <1>s, <2>1, <2>2 DEF s, b, l, c, r, x
  <2>3. CASE /\ q \in paper.questions /\ paper'.questions = paper.questions \ {q}
             /\ PositionsLeft' = PositionsLeft + 1
             /\ \E n \in Nat : Closes' = Append(Closes, Row(n, q, "Sell"))
    <3>1. Len(Closes') = l + 1
      BY <1>t, <2>3, RowIs DEF l
    <3>2. Cardinality(paper'.questions \ Fresh') = c - 1
      <4>1. paper'.questions \ Fresh' = (paper.questions \ Fresh) \ {q} /\ q \in paper.questions \ Fresh
        BY <2>1, <2>3
      <4>2. IsFiniteSet(paper.questions \ Fresh)
        BY HeldAreQuestions, QuestionsCount
      <4> QED
        BY <4>1, <4>2, FS_RemoveElement DEF c
    <3>3. /\ r + (x + 1) <= s + (l + 1) /\ (~ killed => r + (x + 1) = s + (l + 1))
          /\ s + (l + 1) + (c - 1) <= b
      BY <1>n, <1>s
    <3> QED
      BY <1>i, <1>s, <2>1, <2>3, <3>1, <3>2, <3>3 DEF s, b, r, x
  <2> QED
    BY <1>3, <2>2, <2>3 DEF SaleStep
<1>4. CASE WriteStep /\ WriteCloses
  <2>1. /\ files'.orders = files.orders \o Closes /\ files'.positions = files.positions
        /\ PositionsLeft' = PositionsLeft /\ Closes' = << >> /\ Opens' = Opens
        /\ paper'.questions = paper.questions /\ killed' = killed /\ Len(<< >>) = 0
    BY <1>4 DEF WriteStep, WriteCloses
  <2>2. Count(files'.orders, 0, SideOf("Sell")) = s + l /\ Count(files'.orders, 0, SideOf("Buy")) = b
    <3>1. Count(Closes, 0, SideOf("Sell")) = l /\ Count(Closes, 0, SideOf("Buy")) = 0
      BY SidesCount DEF l
    <3>2. /\ Count(files'.orders, 0, SideOf("Sell")) = s + Count(Closes, 0, SideOf("Sell"))
          /\ Count(files'.orders, 0, SideOf("Buy")) = b + Count(Closes, 0, SideOf("Buy"))
      BY <1>t, <2>1, CountConcat DEF s, b
    <3> QED
      BY <1>n, <3>1, <3>2
  <2>3. Fresh' = Fresh
    BY <2>1 DEF Fresh
  <2>4. r <= s + l /\ r + x <= s + l + 0 /\ (~ killed => r + x = s + l + 0) /\ s + l + 0 + c <= b
    BY <1>n, <1>s
  <2> QED
    BY <1>i, <2>1, <2>2, <2>3, <2>4 DEF c, r, x
<1>5. CASE WriteStep /\ WritePositions
  <2>1. /\ files'.orders = files.orders /\ files'.positions = r + x
        /\ PositionsLeft' = 0 /\ Closes = << >> /\ Closes' = << >> /\ Opens' = Opens
        /\ paper'.questions = paper.questions /\ killed' = killed /\ Len(<< >>) = 0 /\ l = 0
    BY <1>5 DEF WriteStep, WritePositions, l, r, x
  <2>2. Fresh' = Fresh
    BY <2>1 DEF Fresh
  <2>3. r + x <= s /\ r + x + 0 <= s + 0 /\ (~ killed => r + x + 0 = s + 0) /\ s + 0 + c <= b
    BY <1>n, <1>s, <2>1
  <2> QED
    BY <1>i, <2>1, <2>2, <2>3 DEF s, b, c
<1>6. CASE WriteStep /\ WriteOpens
  <2> DEFINE o == Len(Opens)
             d == Cardinality(paper.questions)
  <2>1. /\ files'.orders = files.orders \o Opens /\ files'.positions = files.positions
        /\ PositionsLeft' = PositionsLeft /\ Closes' = << >> /\ Closes = << >> /\ Opens' = << >>
        /\ paper'.questions = paper.questions /\ killed' = killed /\ Len(<< >>) = 0 /\ l = 0
    BY <1>6 DEF WriteStep, WriteOpens, l
  <2>2. Count(files'.orders, 0, SideOf("Sell")) = s /\ Count(files'.orders, 0, SideOf("Buy")) = b + o
    <3>1. Count(Opens, 0, SideOf("Sell")) = 0 /\ Count(Opens, 0, SideOf("Buy")) = o
      BY SidesCount
    <3>2. /\ Count(files'.orders, 0, SideOf("Sell")) = s + Count(Opens, 0, SideOf("Sell"))
          /\ Count(files'.orders, 0, SideOf("Buy")) = b + Count(Opens, 0, SideOf("Buy"))
      BY <1>t, <2>1, CountConcat DEF s, b
    <3> QED
      BY <1>n, <3>1, <3>2
  <2>3. Cardinality(paper'.questions \ Fresh') = d
    <3>1. Fresh' = {}
      BY <2>1 DEF Fresh, Asked
    <3>2. paper'.questions \ Fresh' = paper.questions
      BY <2>1, <3>1
    <3> QED
      BY <3>2
  <2>4. d <= c + o /\ d \in Nat /\ o \in Nat
    <3> DEFINE A == paper.questions \ Fresh
               U == A \cup Fresh
    <3>1. IsFiniteSet(A) /\ Cardinality(A) \in Nat /\ d \in Nat
      BY HeldAreQuestions, QuestionsCount
    <3>2. IsFiniteSet(Fresh) /\ Cardinality(Fresh) <= o
      BY <1>t, AskedAreFew DEF Fresh
    <3>3. Cardinality(Fresh) \in Nat /\ o \in Nat
      BY <1>t, <3>2, FS_CardinalityType
    <3>4. IsFiniteSet(U) /\ Cardinality(U) = Cardinality(A) + Cardinality(Fresh)
      <4>1. Cardinality(A \cap Fresh) = 0
        <5>1. A \cap Fresh = {}
          OBVIOUS
        <5> QED
          BY <5>1, FS_EmptySet
      <4> HIDE DEF A
      <4>2. Cardinality(U) = Cardinality(A) + Cardinality(Fresh) - Cardinality(A \cap Fresh)
            /\ IsFiniteSet(U)
        BY <3>1, <3>2, FS_Union
      <4> HIDE DEF U
      <4> QED
        BY <3>1, <3>3, <4>1, <4>2
    <3>5. paper.questions \in SUBSET U
      OBVIOUS
    <3>6. d <= Cardinality(U)
      <4> HIDE DEF U
      <4> QED
        BY <3>4, <3>5, FS_Subset
    <3> QED
      BY <3>1, <3>2, <3>3, <3>4, <3>6 DEF c
  <2> HIDE DEF o, d
  <2>5. r + x <= s + 0 /\ (~ killed => r + x = s + 0) /\ s + 0 + d <= b + o
    BY <1>n, <1>s, <2>1, <2>4
  <2> QED
    BY <1>i, <1>s, <2>1, <2>2, <2>3, <2>5 DEF r, x
<1>7. CASE RestartStep
  <2>1. /\ files'.orders = files.orders /\ files'.positions = files.positions
        /\ PositionsLeft' = 0 /\ Closes' = << >> /\ paper'.questions = {} /\ Len(<< >>) = 0
        /\ ~ killed' => x = 0 /\ l = 0 /\ ~ killed
    BY <1>7 DEF RestartStep, x, l
  <2>2. Cardinality(paper'.questions \ Fresh') = 0
    <3>1. paper'.questions \ Fresh' = {}
      BY <2>1
    <3> QED
      BY <3>1, FS_EmptySet
  <2>3. /\ r <= s /\ r + 0 <= s + 0 /\ (~ killed' => r + 0 = s + 0) /\ s + 0 + 0 <= b
    BY <1>n, <1>s, <2>1
  <2> QED
    BY <1>i, <2>1, <2>2, <2>3 DEF s, b, r
<1> QED
  BY <1>1, <1>2, <1>3, <1>4, <1>5, <1>6, <1>7, StepMoves DEF WriteStep

--------------------------------------------------------------------------------
(* The rows of a run replay to its positions *)

LEMMA InRunStays ==
  ASSUME IInv, RowsOK, NEW kind, Quiet \/ ReapStep \/ WriteStep
  PROVE  InRun(kind)' = InRun(kind)
<1> USE DEF SameFiles, SameOrders, SameRows, SameRun
<1>t. /\ files.orders \in Seq(Rows) /\ Closes \in Seq(Rows) /\ Opens \in Seq(Rows)
      /\ bootRows \in 0 .. Len(files.orders) /\ bootRows \in Nat
  BY LeftIsNat DEF RowsOK
<1>e. Count(<< >>, 0, kind) = 0
  BY CountOfEmpty
<1> DEFINE a == Count(files.orders, bootRows, kind)
           b == Count(Closes, 0, kind)
           c == Count(Opens, 0, kind)
<1>n. a \in Nat /\ b \in Nat /\ c \in Nat
  BY <1>t, CountIsNat
<1>1. CASE files'.orders = files.orders /\ Closes' = Closes /\ Opens' = Opens /\ bootRows' = bootRows
  BY <1>1 DEF InRun
<1>2. CASE /\ files'.orders = files.orders \o Closes /\ Closes' = << >> /\ Opens' = Opens
           /\ bootRows' = bootRows
  <2>1. Count(files'.orders, bootRows, kind) = a + b
    BY <1>t, <1>2, CountConcat
  <2>2. InRun(kind)' = (a + b) + 0 + c
    BY <1>e, <1>2, <2>1 DEF InRun
  <2>3. InRun(kind) = a + b + c
    BY DEF InRun
  <2> HIDE DEF a, b, c
  <2> QED
    BY <1>n, <2>2, <2>3
<1>3. CASE /\ files'.orders = files.orders \o Opens /\ Opens' = << >> /\ Closes' = << >>
           /\ Closes = << >> /\ bootRows' = bootRows
  <2>1. Count(files'.orders, bootRows, kind) = a + c
    BY <1>t, <1>3, CountConcat
  <2>2. InRun(kind)' = (a + c) + 0 + 0
    BY <1>e, <1>3, <2>1 DEF InRun
  <2>3. InRun(kind) = a + b + c /\ b = 0
    BY <1>e, <1>3 DEF InRun
  <2> HIDE DEF a, b, c
  <2> QED
    BY <1>n, <2>2, <2>3
<1>4. CASE Quiet \/ ReapStep
  BY <1>1, <1>4 DEF Quiet, ReapStep
<1>5. CASE WriteStep
  BY <1>1, <1>2, <1>3, <1>5
     DEF WriteStep, WriteDetected, WriteEnded, WriteTrades, WriteCloses, WritePositions, WriteOpens
<1> QED
  BY <1>4, <1>5

LEMMA OrdersOfIs ==
  ASSUME NEW n \in Nat, NEW q \in Questions, NEW x \in Questions
  PROVE  /\ Row(n, q, "Buy") \in OrdersOf(x, "Buy") <=> x = q
         /\ Row(n, q, "Buy") \notin OrdersOf(x, "Sell")
         /\ Row(n, q, "Sell") \in OrdersOf(x, "Sell") <=> x = q
         /\ Row(n, q, "Sell") \notin OrdersOf(x, "Buy")
<1>1. /\ Row(n, q, "Buy") \in Rows /\ Row(n, q, "Buy").question = q /\ Row(n, q, "Buy").side = "Buy"
      /\ Row(n, q, "Sell") \in Rows /\ Row(n, q, "Sell").question = q /\ Row(n, q, "Sell").side = "Sell"
  BY RowIs
<1> QED
  BY <1>1 DEF OrdersOf

LEMMA ReplayInit == Init => Replay
<1> SUFFICES ASSUME Init, NEW q \in Questions
             PROVE  InRun(OrdersOf(q, "Buy"))
                      = InRun(OrdersOf(q, "Sell")) + (IF q \in paper.questions THEN 1 ELSE 0)
  BY DEF Replay
<1>1. /\ events = NoEvents /\ files.orders = << >> /\ bootRows = 0 /\ paper.questions = {}
  BY DEF Init, NoRows, NewBooks
<1>2. Closes = << >> /\ Opens = << >>
  BY <1>1, LeftIs
<1>3. InRun(OrdersOf(q, "Buy")) = 0 /\ InRun(OrdersOf(q, "Sell")) = 0
  BY <1>1, <1>2, CountOfEmpty DEF InRun
<1> QED
  BY <1>1, <1>3

LEMMA ReplayNext ==
  ASSUME IInv, NumbersOK, RowsOK, FreshOK, Replay, [Next]_vars
  PROVE  Replay'
<1> SUFFICES ASSUME NEW x \in Questions
             PROVE  InRun(OrdersOf(x, "Buy"))'
                      = InRun(OrdersOf(x, "Sell"))' + (IF x \in paper'.questions THEN 1 ELSE 0)
  BY DEF Replay
<1> DEFINE buys == OrdersOf(x, "Buy")
           sales == OrdersOf(x, "Sell")
           m == InRun(buys)
           n == InRun(sales)
<1>r. m = n + (IF x \in paper.questions THEN 1 ELSE 0)
  BY DEF Replay
<1>t. /\ files.orders \in Seq(Rows) /\ Closes \in Seq(Rows) /\ Opens \in Seq(Rows)
      /\ bootRows \in 0 .. Len(files.orders) /\ bootRows \in Nat
      /\ 0 \in 0 .. Len(Closes) /\ 0 \in 0 .. Len(Opens)
  BY LeftIsNat DEF RowsOK
<1> HIDE DEF buys, sales
<1>c. ASSUME NEW kind
      PROVE  /\ InRun(kind) \in Nat
             /\ Count(files.orders, bootRows, kind) \in Nat
             /\ Count(Closes, 0, kind) \in Nat /\ Count(Opens, 0, kind) \in Nat
  <2>1. /\ Count(files.orders, bootRows, kind) \in Nat
        /\ Count(Closes, 0, kind) \in Nat /\ Count(Opens, 0, kind) \in Nat
    BY <1>t, CountIsNat
  <2> QED
    BY <2>1 DEF InRun
<1>n. m \in Nat /\ n \in Nat
  BY <1>c
<1>1. CASE Quiet \/ ReapStep \/ WriteStep
  <2>1. InRun(buys)' = m /\ InRun(sales)' = n
    BY <1>1, InRunStays DEF buys, sales
  <2>2. paper'.questions = paper.questions
    BY <1>1 DEF Quiet, ReapStep, WriteStep, SameBooks
  <2> QED
    BY <1>r, <2>1, <2>2 DEF buys, sales
<1>2. ASSUME NEW q \in Questions, BuyStep(q)
      PROVE  InRun(buys)' = InRun(sales)' + (IF x \in paper'.questions THEN 1 ELSE 0)
  <2>1. files'.orders = files.orders /\ Closes' = Closes /\ bootRows' = bootRows
    BY <1>2 DEF BuyStep, SameFiles, SameOrders, SameRun
  <2>2. CASE Opens' = Opens /\ paper'.questions = paper.questions
    <3>1. InRun(buys)' = m /\ InRun(sales)' = n
      BY <2>1, <2>2 DEF InRun, buys, sales
    <3> QED
      BY <1>r, <2>2, <3>1
  <2>3. ASSUME q \notin paper.questions, paper'.questions = paper.questions \cup {q},
               NEW k \in Nat, Opens' = Append(Opens, Row(k, q, "Buy"))
        PROVE  InRun(buys)' = InRun(sales)' + (IF x \in paper'.questions THEN 1 ELSE 0)
    <3> DEFINE one == IF x = q THEN 1 ELSE 0
    <3>1. Row(k, q, "Buy") \in Rows
      BY RowIs
    <3>2. /\ Row(k, q, "Buy") \in buys <=> x = q
          /\ Row(k, q, "Buy") \notin sales
      BY OrdersOfIs DEF buys, sales
    <3>3. /\ Count(Opens', 0, buys) = Count(Opens, 0, buys) + one
          /\ Count(Opens', 0, sales) = Count(Opens, 0, sales)
      <4>1. /\ Count(Opens', 0, buys)
                 = Count(Opens, 0, buys) + (IF Row(k, q, "Buy") \in buys THEN 1 ELSE 0)
            /\ Count(Opens', 0, sales)
                 = Count(Opens, 0, sales) + (IF Row(k, q, "Buy") \in sales THEN 1 ELSE 0)
        BY <1>t, <2>3, <3>1, CountAppend
      <4> QED
        BY <1>c, <3>2, <4>1
    <3>4. InRun(buys)' = m + one /\ InRun(sales)' = n
      <4> DEFINE a == Count(files.orders, bootRows, buys)
                 b == Count(Closes, 0, buys)
                 c == Count(Opens, 0, buys)
      <4>1. InRun(buys)' = a + b + (c + one) /\ m = a + b + c
        BY <2>1, <3>3 DEF InRun, buys
      <4>2. a \in Nat /\ b \in Nat /\ c \in Nat /\ one \in Nat
        BY <1>c
      <4>3. InRun(sales)' = n
        BY <2>1, <3>3 DEF InRun, sales
      <4> HIDE DEF a, b, c, one, m, n
      <4> QED
        BY <4>1, <4>2, <4>3
    <3> HIDE DEF m, n
    <3> QED
      BY <1>r, <1>n, <2>3, <3>4
  <2> QED
    BY <1>2, <2>2, <2>3 DEF BuyStep
<1>3. ASSUME NEW q \in Questions, SaleStep(q)
      PROVE  InRun(buys)' = InRun(sales)' + (IF x \in paper'.questions THEN 1 ELSE 0)
  <2>1. files'.orders = files.orders /\ Opens' = Opens /\ bootRows' = bootRows
    BY <1>3 DEF SaleStep, SameFiles, SameOrders, SameRun
  <2>2. CASE Closes' = Closes /\ paper'.questions = paper.questions
    <3>1. InRun(buys)' = m /\ InRun(sales)' = n
      BY <2>1, <2>2 DEF InRun, buys, sales
    <3> QED
      BY <1>r, <2>2, <3>1
  <2>3. ASSUME q \in paper.questions, paper'.questions = paper.questions \ {q},
               NEW k \in Nat, Closes' = Append(Closes, Row(k, q, "Sell"))
        PROVE  InRun(buys)' = InRun(sales)' + (IF x \in paper'.questions THEN 1 ELSE 0)
    <3> DEFINE one == IF x = q THEN 1 ELSE 0
    <3>1. Row(k, q, "Sell") \in Rows
      BY RowIs
    <3>2. /\ Row(k, q, "Sell") \in sales <=> x = q
          /\ Row(k, q, "Sell") \notin buys
      BY OrdersOfIs DEF buys, sales
    <3>3. /\ Count(Closes', 0, sales) = Count(Closes, 0, sales) + one
          /\ Count(Closes', 0, buys) = Count(Closes, 0, buys)
      <4>1. /\ Count(Closes', 0, buys)
                 = Count(Closes, 0, buys) + (IF Row(k, q, "Sell") \in buys THEN 1 ELSE 0)
            /\ Count(Closes', 0, sales)
                 = Count(Closes, 0, sales) + (IF Row(k, q, "Sell") \in sales THEN 1 ELSE 0)
        BY <1>t, <2>3, <3>1, CountAppend
      <4> QED
        BY <1>c, <3>2, <4>1
    <3>4. InRun(sales)' = n + one /\ InRun(buys)' = m
      <4> DEFINE a == Count(files.orders, bootRows, sales)
                 b == Count(Closes, 0, sales)
                 c == Count(Opens, 0, sales)
      <4>1. InRun(sales)' = a + (b + one) + c /\ n = a + b + c
        BY <2>1, <3>3 DEF InRun, sales
      <4>2. a \in Nat /\ b \in Nat /\ c \in Nat /\ one \in Nat
        BY <1>c
      <4>3. InRun(buys)' = m
        BY <2>1, <3>3 DEF InRun, buys
      <4> HIDE DEF a, b, c, one, m, n
      <4> QED
        BY <4>1, <4>2, <4>3
    <3> HIDE DEF m, n
    <3> QED
      BY <1>r, <1>n, <2>3, <3>4
  <2> QED
    BY <1>3, <2>2, <2>3 DEF SaleStep
<1>4. CASE RestartStep
  <2>1. /\ files'.orders = files.orders /\ Closes' = << >> /\ Opens' = << >>
        /\ bootRows' = Len(files.orders) /\ paper'.questions = {}
    BY <1>4 DEF RestartStep, SameFiles, SameOrders
  <2>2. ASSUME NEW kind PROVE InRun(kind)' = 0
    <3>1. Len(files.orders) \in Nat
      BY <1>t
    <3>2. Picked(files.orders, Len(files.orders), kind) = {}
      BY <3>1 DEF Picked
    <3>3. Count(files.orders, Len(files.orders), kind) = 0
      BY <3>2, CountOfNone
    <3> QED
      BY <2>1, <3>3, CountOfEmpty DEF InRun
  <2>3. InRun(buys)' = 0 /\ InRun(sales)' = 0
    BY <2>2 DEF buys, sales
  <2> QED
    BY <2>1, <2>3 DEF buys, sales
<1> QED
  BY <1>1, <1>2, <1>3, <1>4, StepMoves DEF buys, sales

--------------------------------------------------------------------------------
(* What an audit has counted, and the portfolio's last row *)

LEMMA AuditedNext ==
  ASSUME IInv, NumbersOK, RowsOK, FreshOK, Sales, AuditedOK, [Next]_vars
  PROVE  AuditedOK'
<1>n. PositionsLeft \in Nat /\ files.positions \in Nat
  BY LeftIsNat DEF RowsOK
<1>1. CASE Audit
  <2>1. /\ phase \in Range(Steps) /\ phase' = phase /\ audited' = Len(files.orders)
        /\ files' = files /\ events' = events
    BY <1>1 DEF Audit, fileVars, bookVars
  <2>2. phase \notin {"observe", "close"}
    BY <2>1 DEF Steps, Range
  <2>3. files.positions + PositionsLeft <= Len(files.orders)
    <3>1. /\ Bought \in Nat /\ Bought <= Len(files.orders) /\ Sold \in Int
          /\ Cardinality(paper.questions \ Fresh) \in Nat /\ Len(files.orders) \in Nat
      <4>1. files.orders \in Seq(Rows) /\ Closes \in Seq(Rows)
        BY LeftIsNat
      <4>2. /\ Bought \in Nat /\ Bought <= Len(files.orders)
            /\ Count(files.orders, 0, SideOf("Sell")) \in Nat
        BY <4>1, CountIsNat DEF Bought
      <4>3. Sold \in Int
        BY <4>1, <4>2 DEF Sold
      <4> QED
        BY <4>1, <4>2, <4>3, HeldAreQuestions, QuestionsCount
    <3>2. /\ files.positions + PositionsLeft <= Sold
          /\ Sold + Cardinality(paper.questions \ Fresh) <= Bought
      BY DEF Sales
    <3> QED
      BY <1>n, <3>1, <3>2
  <2>4. PositionsLeft' = PositionsLeft
    BY <2>1 DEF PositionsLeft, Left
  <2> QED
    BY <2>1, <2>2, <2>3, <2>4 DEF AuditedOK
<1>2. CASE AuditEnds
  BY <1>2 DEF AuditEnds, AuditedOK
<1>3. CASE Fetch \/ LostRound
  <2>1. \/ audited' = NoAudit
        \/ phase' = phase /\ files' = files /\ events' = events /\ audited' = audited
    BY <1>3 DEF Fetch, LostRound, fileVars, bookVars
  <2>2. phase' = phase /\ events' = events => PositionsLeft' = PositionsLeft
    BY DEF PositionsLeft, Left
  <2> QED
    BY <2>1, <2>2 DEF AuditedOK
<1>4. CASE Reap \/ OnScan \/ \E q \in Questions : ObserveNew(q) \/ ObserveKnown(q) \/ OnClose(q)
  <2>1. phase \in {"observe", "close"} /\ audited' = audited
    BY <1>4 DEF Reap, OnScan, ObserveNew, ObserveKnown, OnClose
  <2> QED
    BY <2>1 DEF AuditedOK
<1>5. CASE AppendRows
  <2>1. phase' \notin {"observe", "close"} /\ audited' = audited
    BY <1>5, NextPhase DEF AppendRows
  <2>2. files'.positions + PositionsLeft' = files.positions + PositionsLeft
    <3>1. WriteStep
      BY <1>5, Writes
    <3>2. \/ files'.positions = files.positions /\ PositionsLeft' = PositionsLeft
          \/ files'.positions = files.positions + PositionsLeft /\ PositionsLeft' = 0
      BY <3>1 DEF WriteStep, WriteDetected, WriteEnded, WriteTrades, WriteCloses, WritePositions,
                  WriteOpens, SamePositions, SameEnds
    <3> QED
      BY <1>n, <3>2
  <2> QED
    BY <2>1, <2>2 DEF AuditedOK
<1>6. CASE SavePortfolio \/ AppendOrders \/ UNCHANGED vars
  <2>1. audited' = audited /\ (phase' = phase \/ phase' \notin {"observe", "close"})
    BY <1>6, NextPhase DEF SavePortfolio, AppendOrders, vars, Idle
  <2>2. files'.positions = files.positions /\ PositionsLeft' = PositionsLeft
    BY <1>6, Waits DEF Quiet, SameFiles, SamePositions, SameEnds
  <2> QED
    BY <2>1, <2>2 DEF AuditedOK
<1>7. CASE Stop \/ Kill
  <2>1. phase' = Idle /\ audited' = audited
    BY <1>7 DEF Stop, Kill, Restart
  <2>2. files'.positions = files.positions /\ PositionsLeft' = 0
    BY <1>7, Restarts DEF RestartStep, SameFiles, SamePositions
  <2>3. audited # NoAudit => audited \in Nat
    BY DEF IInv, AuditOK
  <2> QED
    BY <1>n, <2>1, <2>2, <2>3 DEF AuditedOK, Idle
<1> QED
  BY <1>1, <1>2, <1>3, <1>4, <1>5, <1>6, <1>7 DEF Next, Step

LEMMA SavedNext == SavedOK /\ [Next]_vars => SavedOK'
<1> SUFFICES ASSUME SavedOK, [Next]_vars PROVE SavedOK'
  OBVIOUS
<1>1. CASE SavePortfolio
  BY <1>1 DEF SavePortfolio, bookVars, SavedOK
<1>2. CASE AppendOrders \/ LostRound \/ Audit \/ AuditEnds \/ UNCHANGED vars
  BY <1>2 DEF AppendOrders, LostRound, Audit, AuditEnds, vars, bookVars, fileVars, SavedOK
<1>3. CASE Stop \/ Kill
  BY <1>3 DEF Stop, Kill, Restart, SavedOK
<1>4. CASE AppendRows
  BY <1>4, NextPhase DEF AppendRows, SavedOK, Idle
<1>5. CASE \/ Fetch \/ Reap \/ OnScan
           \/ \E q \in Questions : ObserveNew(q) \/ ObserveKnown(q) \/ OnClose(q)
  BY <1>5 DEF Fetch, Reap, OnScan, ObserveNew, ObserveKnown, OnClose, Steps, SavedOK, Idle
<1> QED
  BY <1>1, <1>2, <1>3, <1>4, <1>5 DEF Next, Step

FilesInv == RowsOK /\ FreshOK /\ Lags /\ Sales /\ Replay /\ AuditedOK /\ SavedOK

LEMMA FilesInvariance == Spec => [](IInv /\ NumbersOK /\ FilesInv)
<1>1. Init => IInv /\ NumbersOK /\ FilesInv
  <2>1. Init => AuditedOK /\ SavedOK
    BY DEF Init, AuditedOK, SavedOK
  <2> QED
    BY <2>1, InitHolds, NumbersInit, RowsInit, LagsInit, SalesInit, ReplayInit DEF FilesInv
<1>2. IInv /\ NumbersOK /\ FilesInv /\ [Next]_vars => (IInv /\ NumbersOK /\ FilesInv)'
  <2> SUFFICES ASSUME IInv, NumbersOK, FilesInv, [Next]_vars PROVE (IInv /\ NumbersOK /\ FilesInv)'
    OBVIOUS
  <2>1. RowsOK /\ FreshOK /\ Lags /\ Sales /\ Replay /\ AuditedOK /\ SavedOK
    BY DEF FilesInv
  <2>2. IInv' /\ NumbersOK'
    BY NextHolds, NumbersNext
  <2>3. RowsOK' /\ FreshOK' /\ Lags' /\ Sales'
    BY <2>1, RowsNext, FreshNext, LagsNext, SalesNext
  <2>4. Replay' /\ AuditedOK' /\ SavedOK'
    BY <2>1, ReplayNext, AuditedNext, SavedNext
  <2> QED
    BY <2>2, <2>3, <2>4 DEF FilesInv
<1> QED
  BY <1>1, <1>2, PTL DEF Spec

LEMMA RowsArePicked ==
  ASSUME IInv, RowsOK
  PROVE  /\ \A side \in {"Buy", "Sell"} : Of(side) = Picked(files.orders, 0, SideOf(side))
         /\ \A side \in {"Buy", "Sell"} : \A q \in Questions :
              RowsOf(q, side) = Picked(files.orders, bootRows, OrdersOf(q, side))
<1>1. /\ files.orders \in Seq(Rows) /\ DOMAIN files.orders = 1 .. Len(files.orders)
      /\ bootRows \in Nat /\ \A i \in 1 .. Len(files.orders) : files.orders[i] \in Rows
      /\ (bootRows + 1) .. Len(files.orders) \subseteq 1 .. Len(files.orders)
  BY LeftIsNat DEF RowsOK
<1>2. \A side \in {"Buy", "Sell"} : Of(side) = Picked(files.orders, 0, SideOf(side))
  BY <1>1 DEF Of, Picked, SideOf
<1>3. \A side \in {"Buy", "Sell"} : \A q \in Questions :
        RowsOf(q, side) = Picked(files.orders, bootRows, OrdersOf(q, side))
  BY <1>1 DEF RowsOf, Picked, OrdersOf
<1> QED
  BY <1>2, <1>3

(* Storage's files, wherever a run was killed: no row stands in one before *)
(* the row it follows from, the audit that counts the orders and then the  *)
(* closed positions before the next scan begins finds no inconsistency,    *)
(* and the simulator's numbers are those of its rows and its orders.       *)
THEOREM FilesStayBehind == Spec => []NoFileRunsAhead
<1>1. IInv /\ NumbersOK /\ FilesInv /\ EngineOK => NoFileRunsAhead
  <2> SUFFICES ASSUME IInv, FilesInv, EngineOK PROVE NoFileRunsAhead
    OBVIOUS
  <2>1. RowsOK /\ Lags /\ Sales /\ AuditedOK
    BY DEF FilesInv
  <2> DEFINE s == Cardinality(Of("Sell"))
             b == Cardinality(Of("Buy"))
             c == Cardinality(paper.questions \ Fresh)
             l == Len(Closes)
  <2>2. s = Count(files.orders, 0, SideOf("Sell")) /\ b = Count(files.orders, 0, SideOf("Buy"))
    BY <2>1, RowsArePicked DEF Count
  <2>3. files.positions <= s /\ s + l + c <= b
    BY <2>1, <2>2 DEF Sales, Sold, Bought
  <2>4. /\ s \in Nat /\ b \in Nat /\ c \in Nat /\ l \in Nat
        /\ PositionsLeft \in Nat /\ files.positions \in Nat
    <3>1. files.orders \in Seq(Rows) /\ Closes \in Seq(Rows) /\ PositionsLeft \in Nat
      BY <2>1, LeftIsNat
    <3>2. s \in Nat /\ b \in Nat
      BY <2>2, <3>1, CountIsNat
    <3>3. c \in Nat
      BY HeldAreQuestions, QuestionsCount
    <3> QED
      BY <2>1, <3>1, <3>2, <3>3 DEF RowsOK
  <2>5. audited # NoAudit => files.positions + PositionsLeft <= audited /\ audited \in Nat
    BY <2>1 DEF AuditedOK, IInv, AuditOK
  <2> HIDE DEF s, b, c, l
  <2>6. s <= b /\ (audited # NoAudit => files.positions <= audited)
    BY <2>3, <2>4, <2>5
  <2> QED
    BY <2>1, <2>3, <2>6, NumbersHaveOrders DEF NoFileRunsAhead, Lags, s, b
<1> QED
  BY <1>1, FilesInvariance, EngineInvariance, PTL

(* What Storage has written between scans of runs that were not killed     *)
(* tells what the strategy's engines hold in memory.                       *)
THEOREM FilesTellTheBooks == Spec => []FilesFollowBooks
<1>1. IInv /\ NumbersOK /\ FilesInv => FilesFollowBooks
  <2> SUFFICES ASSUME IInv, NumbersOK, FilesInv, phase = Idle, ~ killed
               PROVE  /\ \A q \in Questions :
                           Cardinality(RowsOf(q, "Buy")) - Cardinality(RowsOf(q, "Sell"))
                             = IF q \in paper.questions THEN 1 ELSE 0
                      /\ files.positions = Cardinality(Of("Sell"))
                      /\ trades.total = Len(files.trades)
                      /\ saved # << >> => saved = Figures(paper)
    BY DEF FilesFollowBooks
  <2>1. RowsOK /\ Lags /\ Sales /\ Replay /\ SavedOK
    BY DEF FilesInv
  <2>2. Closes = << >> /\ Opens = << >> /\ TradesLeft = 0 /\ PositionsLeft = 0
    BY LeftIs DEF NumbersOK
  <2>3. files.orders \in Seq(Rows) /\ bootRows \in Nat /\ Len(files.trades) \in Nat
        /\ files.positions \in Nat
    BY <2>1, LeftIsNat DEF RowsOK
  <2>4. ASSUME NEW q \in Questions
        PROVE  Cardinality(RowsOf(q, "Buy")) - Cardinality(RowsOf(q, "Sell"))
                 = IF q \in paper.questions THEN 1 ELSE 0
    <3> DEFINE m == Count(files.orders, bootRows, OrdersOf(q, "Buy"))
               n == Count(files.orders, bootRows, OrdersOf(q, "Sell"))
    <3>1. Cardinality(RowsOf(q, "Buy")) = m /\ Cardinality(RowsOf(q, "Sell")) = n
      BY <2>1, RowsArePicked DEF Count
    <3>2. m \in Nat /\ n \in Nat
      BY <2>3, CountIsNat
    <3>3. m + 0 + 0 = n + 0 + 0 + (IF q \in paper.questions THEN 1 ELSE 0)
      BY <2>1, <2>2, CountOfEmpty DEF Replay, InRun
    <3> HIDE DEF m, n
    <3> QED
      BY <3>1, <3>2, <3>3
  <2>5. files.positions = Cardinality(Of("Sell"))
    <3> DEFINE s == Count(files.orders, 0, SideOf("Sell"))
    <3>1. Cardinality(Of("Sell")) = s
      BY <2>1, RowsArePicked DEF Count
    <3>2. s \in Nat
      BY <2>3, CountIsNat
    <3>3. files.positions + 0 = s + 0
      BY <2>1, <2>2 DEF Sales, Sold
    <3> HIDE DEF s
    <3> QED
      BY <2>3, <3>1, <3>2, <3>3
  <2>6. trades.total = Len(files.trades)
    BY <2>1, <2>2, <2>3 DEF Lags
  <2>7. saved # << >> => saved = Figures(paper)
    BY <2>1 DEF SavedOK
  <2> QED
    BY <2>4, <2>5, <2>6, <2>7
<1> QED
  BY <1>1, FilesInvariance, PTL

================================================================================
