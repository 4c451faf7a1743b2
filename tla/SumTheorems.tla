----------------------------- MODULE SumTheorems -----------------------------
(***************************************************************************)
(* What sums over finite sets are: SumFunctionOnSet is a recursion over    *)
(* subsets, and these lemmas give its value on the empty set and with one  *)
(* element more, whatever element the recursion takes first.  Induction is *)
(* stated over sets, so that a fact can be proved by naming the set of     *)
(* those it holds of.                                                      *)
(***************************************************************************)
EXTENDS Integers, FiniteSets, Functions, FiniteSetTheorems, WellFoundedInduction, TLAPS

LEMMA LeastNatural ==
  ASSUME NEW B \in SUBSET Nat, B # {}
  PROVE  \E n \in B : \A m \in B : n <= m
<1> DEFINE R == OpToRel(<, Nat)
<1>1. IsWellFoundedOn(R, Nat)
  BY NatLessThanWellFounded
<1>2. \A x, y \in Nat : <<x, y>> \in R <=> x < y
  BY DEF OpToRel
<1> HIDE DEF R
<1>3. PICK n \in B : \A m \in B : ~ (<<m, n>> \in R)
  BY <1>1, WFMin
<1>4. \A m \in B : n <= m
  <2> TAKE m \in B
  <2>1. m \in Nat /\ n \in Nat
    OBVIOUS
  <2>2. ~ (m < n)
    BY <1>2, <1>3, <2>1
  <2> QED
    BY <2>1, <2>2
<1> QED
  BY <1>4

(* Induction over the natural numbers.                                     *)
LEMMA InductionOnNat ==
  ASSUME NEW G \in SUBSET Nat, 0 \in G, \A n \in G : n + 1 \in G
  PROVE  G = Nat
<1> SUFFICES ASSUME Nat \ G # {} PROVE FALSE
  OBVIOUS
<1>1. PICK n \in Nat \ G : \A m \in Nat \ G : n <= m
  BY LeastNatural
<1>2. n # 0 /\ n - 1 \in Nat
  BY <1>1
<1>3. n - 1 \in G
  BY <1>1, <1>2
<1> QED
  BY <1>1, <1>2, <1>3

(* Induction over the subsets of a finite set.                             *)
LEMMA InductionOnSubsets ==
  ASSUME NEW S, IsFiniteSet(S), NEW G, {} \in G,
         \A T \in SUBSET S : \A x \in S \ T : T \in G => T \cup {x} \in G
  PROVE  SUBSET S \subseteq G
<1> DEFINE N == { n \in Nat : \A T \in SUBSET S : Cardinality(T) = n => T \in G }
<1>f. \A T \in SUBSET S : IsFiniteSet(T) /\ Cardinality(T) \in Nat
  BY FS_Subset, FS_CardinalityType
<1>1. 0 \in N
  BY <1>f, FS_EmptySet
<1>2. ASSUME NEW n \in N PROVE n + 1 \in N
  <2>n. n \in Nat
    OBVIOUS
  <2>1. ASSUME NEW T \in SUBSET S, Cardinality(T) = n + 1 PROVE T \in G
    <3>e. Cardinality({}) = 0
      BY FS_EmptySet
    <3>1. T # {}
      BY <2>n, <2>1, <3>e
    <3>2. PICK x \in T : TRUE
      BY <3>1
    <3>x. IsFiniteSet(T)
      BY <1>f
    <3>y. Cardinality(T \ {x}) = Cardinality(T) - 1
      BY <3>x, <3>2, FS_RemoveElement
    <3>3. Cardinality(T \ {x}) = n /\ T \ {x} \in SUBSET S
      BY <2>n, <2>1, <3>y
    <3>4. T \ {x} \in G /\ x \in S \ (T \ {x})
      BY <3>3
    <3>5. (T \ {x}) \cup {x} = T
      OBVIOUS
    <3> QED
      BY <3>3, <3>4, <3>5
  <2> QED
    BY <2>1
<1>3. N = Nat
  BY <1>1, <1>2, InductionOnNat
<1> QED
  BY <1>3, <1>f

--------------------------------------------------------------------------------
(* The recursion has a value *)

Pick(T) == CHOOSE x \in T : TRUE

Adds(g, f, D) ==
  g = [T \in D |-> IF T = {} THEN 0 ELSE f[Pick(T)] + g[T \ {Pick(T)}]]

LEMMA PickIsIn == ASSUME NEW T, T # {} PROVE Pick(T) \in T
  BY DEF Pick

LEMMA SumExists ==
  ASSUME NEW S, IsFiniteSet(S), NEW f
  PROVE  \E g : Adds(g, f, SUBSET S)
<1> DEFINE D(n) == { T \in SUBSET S : Cardinality(T) <= n }
           N == { n \in Nat : \E g : Adds(g, f, D(n)) }
<1>f. \A T \in SUBSET S : IsFiniteSet(T) /\ Cardinality(T) \in Nat
  BY FS_Subset, FS_CardinalityType
<1>1. 0 \in N
  <2>1. \A T \in D(0) : T = {}
    BY <1>f, FS_EmptySet
  <2>2. Adds([T \in D(0) |-> 0], f, D(0))
    BY <2>1 DEF Adds
  <2> QED
    BY <2>2
<1>2. ASSUME NEW n \in N PROVE n + 1 \in N
  <2>n. n \in Nat
    OBVIOUS
  <2>1. PICK g : Adds(g, f, D(n))
    OBVIOUS
  <2>d. \A T \in D(n) : T \in D(n + 1)
    BY <2>n, <1>f
  <2>s. \A T \in D(n + 1) : T # {} => T \ {Pick(T)} \in D(n)
    <3> TAKE T \in D(n + 1)
    <3> HAVE T # {}
    <3>1. Pick(T) \in T
      BY PickIsIn
    <3>2. T \in SUBSET S /\ IsFiniteSet(T) /\ Cardinality(T) \in Nat /\ Cardinality(T) <= n + 1
      BY <1>f
    <3>3. Cardinality(T \ {Pick(T)}) = Cardinality(T) - 1
      BY <3>1, <3>2, FS_RemoveElement
    <3> QED
      BY <2>n, <3>2, <3>3
  <2> HIDE DEF D
  <2> DEFINE h == [T \in D(n + 1) |-> IF T = {} THEN 0 ELSE f[Pick(T)] + g[T \ {Pick(T)}]]
  <2>2. \A T \in D(n) : T \in D(n + 1) /\ h[T] = g[T]
    <3>1. ASSUME NEW T \in D(n) PROVE g[T] = (IF T = {} THEN 0 ELSE f[Pick(T)] + g[T \ {Pick(T)}])
      BY <2>1 DEF Adds
    <3>2. ASSUME NEW T \in D(n + 1)
          PROVE h[T] = (IF T = {} THEN 0 ELSE f[Pick(T)] + g[T \ {Pick(T)}])
      OBVIOUS
    <3> QED
      BY <2>d, <3>1, <3>2
  <2>4. \A T \in D(n + 1) : T # {} => h[T \ {Pick(T)}] = g[T \ {Pick(T)}]
    BY <2>2, <2>s
  <2>5. h = [T \in D(n + 1) |-> IF T = {} THEN 0 ELSE f[Pick(T)] + h[T \ {Pick(T)}]]
    BY <2>4
  <2>6. Adds(h, f, D(n + 1))
    BY <2>5 DEF Adds
  <2> QED
    BY <2>n, <2>6
<1>3. N = Nat
  BY <1>1, <1>2, InductionOnNat
<1>4. Cardinality(S) \in N
  BY <1>f, <1>3
<1>5. D(Cardinality(S)) = SUBSET S
  BY <1>f, FS_Subset
<1> QED
  BY <1>4, <1>5

Agree(g, h, R) == \A T \in SUBSET R : g[T] = h[T]

LEMMA SumIsUnique ==
  ASSUME NEW S, IsFiniteSet(S), NEW f, NEW R \in SUBSET S, NEW g, NEW h,
         Adds(g, f, SUBSET S), Adds(h, f, SUBSET R)
  PROVE  Agree(g, h, R)
<1> SUFFICES \A T \in SUBSET R : g[T] = h[T]
  BY DEF Agree
<1> DEFINE N == { n \in Nat : \A T \in SUBSET R : Cardinality(T) = n => g[T] = h[T] }
<1>f. \A T \in SUBSET R : IsFiniteSet(T) /\ Cardinality(T) \in Nat /\ T \in SUBSET S
  BY FS_Subset, FS_CardinalityType
<1>1. 0 \in N
  BY <1>f, FS_EmptySet DEF Adds
<1>2. ASSUME NEW n \in N PROVE n + 1 \in N
  <2>n. n \in Nat
    OBVIOUS
  <2>1. ASSUME NEW T \in SUBSET R, Cardinality(T) = n + 1 PROVE g[T] = h[T]
    <3>1. T # {} /\ IsFiniteSet(T)
      BY <1>f, <2>n, <2>1, FS_EmptySet
    <3>p. Pick(T) \in T
      BY <3>1, PickIsIn
    <3>y. Cardinality(T \ {Pick(T)}) = Cardinality(T) - 1
      BY <3>1, <3>p, FS_RemoveElement
    <3>2. T \ {Pick(T)} \in SUBSET R /\ Cardinality(T \ {Pick(T)}) = n
      BY <2>n, <2>1, <3>y
    <3>3. g[T \ {Pick(T)}] = h[T \ {Pick(T)}]
      BY <3>2
    <3> QED
      BY <1>f, <3>1, <3>3 DEF Adds
  <2> QED
    BY <2>1
<1>3. N = Nat
  BY <1>1, <1>2, InductionOnNat
<1> QED
  BY <1>3, <1>f

(* SumFunctionOnSet is that recursion.                                     *)
LEMMA SumIsRecursion ==
  ASSUME NEW S, IsFiniteSet(S), NEW f
  PROVE  \E g : Adds(g, f, SUBSET S) /\ SumFunctionOnSet(f, S) = g[S]
<1> DEFINE g == CHOOSE g : Adds(g, f, SUBSET S)
<1>1. Adds(g, f, SUBSET S)
  BY SumExists
<1>2. SumFunctionOnSet(f, S) = g[S]
  BY DEF SumFunctionOnSet, FoldFunctionOnSet, MapThenFoldSet, Adds, Pick
<1> QED
  BY <1>1, <1>2

--------------------------------------------------------------------------------
(* What a sum is *)

LEMMA SumOfNone ==
  ASSUME NEW f
  PROVE  SumFunctionOnSet(f, {}) = 0
<1>1. PICK g : Adds(g, f, SUBSET {}) /\ SumFunctionOnSet(f, {}) = g[{}]
  BY SumIsRecursion, FS_EmptySet
<1> QED
  BY <1>1 DEF Adds

LEMMA SumTakesOne ==
  ASSUME NEW S, IsFiniteSet(S), S # {}, NEW f
  PROVE  SumFunctionOnSet(f, S) = f[Pick(S)] + SumFunctionOnSet(f, S \ {Pick(S)})
<1>1. PICK rest \in SUBSET S : rest = S \ {Pick(S)}
  OBVIOUS
<1>f. IsFiniteSet(rest)
  BY FS_Subset
<1>2. PICK g : Adds(g, f, SUBSET S) /\ SumFunctionOnSet(f, S) = g[S]
  BY SumIsRecursion
<1>3. PICK h : Adds(h, f, SUBSET rest) /\ SumFunctionOnSet(f, rest) = h[rest]
  BY <1>f, SumIsRecursion
<1>u. Agree(g, h, rest)
  BY <1>2, <1>3, SumIsUnique
<1>4. g[rest] = h[rest]
  BY <1>u DEF Agree
<1>5. g[S] = f[Pick(S)] + g[rest]
  BY <1>1, <1>2 DEF Adds
<1> QED
  BY <1>1, <1>2, <1>3, <1>4, <1>5

LEMMA SumIsInt ==
  ASSUME NEW S, IsFiniteSet(S), NEW f, \A x \in S : f[x] \in Int
  PROVE  \A T \in SUBSET S : SumFunctionOnSet(f, T) \in Int
<1> DEFINE N == { n \in Nat : \A T \in SUBSET S : Cardinality(T) = n => SumFunctionOnSet(f, T) \in Int }
<1>f. \A T \in SUBSET S : IsFiniteSet(T) /\ Cardinality(T) \in Nat
  BY FS_Subset, FS_CardinalityType
<1>1. 0 \in N
  BY <1>f, FS_EmptySet, SumOfNone
<1>2. ASSUME NEW n \in N PROVE n + 1 \in N
  <2>n. n \in Nat
    OBVIOUS
  <2>1. ASSUME NEW T \in SUBSET S, Cardinality(T) = n + 1 PROVE SumFunctionOnSet(f, T) \in Int
    <3>e. Cardinality({}) = 0
      BY FS_EmptySet
    <3>c. T # {}
      BY <2>n, <2>1, <3>e
    <3>1. T # {} /\ IsFiniteSet(T)
      BY <1>f, <3>c
    <3>p. Pick(T) \in T
      BY <3>1, PickIsIn
    <3>y. Cardinality(T \ {Pick(T)}) = Cardinality(T) - 1
      BY <3>1, <3>p, FS_RemoveElement
    <3>2. T \ {Pick(T)} \in SUBSET S /\ Cardinality(T \ {Pick(T)}) = n
      BY <2>n, <2>1, <3>y
    <3>3. SumFunctionOnSet(f, T) = f[Pick(T)] + SumFunctionOnSet(f, T \ {Pick(T)})
      BY <3>1, SumTakesOne
    <3> QED
      BY <3>2, <3>3, <3>p
  <2> QED
    BY <2>n, <2>1
<1>3. N = Nat
  BY <1>1, <1>2, InductionOnNat
<1> QED
  BY <1>3, <1>f

(* The sum with one element more, whichever the recursion takes first.     *)
LEMMA SumAddsOne ==
  ASSUME NEW S, IsFiniteSet(S), NEW f, \A x \in S : f[x] \in Int
  PROVE  \A T \in SUBSET S : \A x \in S \ T :
           SumFunctionOnSet(f, T \cup {x}) = SumFunctionOnSet(f, T) + f[x]
<1> DEFINE Sum(T) == SumFunctionOnSet(f, T)
           Good(T) == \A x \in S \ T : Sum(T \cup {x}) = Sum(T) + f[x]
           N == { n \in Nat : \A T \in SUBSET S : Cardinality(T) = n => Good(T) }
<1>f. \A T \in SUBSET S : IsFiniteSet(T) /\ Cardinality(T) \in Nat /\ Sum(T) \in Int
  BY FS_Subset, FS_CardinalityType, SumIsInt
<1>t. \A T \in SUBSET S : T # {} => Pick(T) \in T /\ Sum(T) = f[Pick(T)] + Sum(T \ {Pick(T)})
  BY <1>f, SumTakesOne, PickIsIn
<1>0. Sum({}) = 0
  BY SumOfNone
<1> HIDE DEF Sum
<1>1. 0 \in N
  <2>1. ASSUME NEW T \in SUBSET S, Cardinality(T) = 0, NEW x \in S \ T PROVE Sum(T \cup {x}) = Sum(T) + f[x]
    <3>1. T = {}
      BY <1>f, <2>1, FS_EmptySet
    <3>2. T \cup {x} = {x} /\ {x} \in SUBSET S /\ {x} # {}
      BY <3>1
    <3>3. Pick({x}) = x /\ {x} \ {Pick({x})} = {}
      BY <1>t, <3>2
    <3>4. Sum({x}) = f[x] + Sum({})
      BY <1>t, <3>2, <3>3
    <3> QED
      BY <1>0, <3>1, <3>2, <3>4
  <2> QED
    BY <2>1
<1>2. ASSUME NEW n \in N PROVE n + 1 \in N
  <2>n. n \in Nat
    OBVIOUS
  <2>1. ASSUME NEW T \in SUBSET S, Cardinality(T) = n + 1, NEW x \in S \ T
        PROVE  Sum(T \cup {x}) = Sum(T) + f[x]
    <3> DEFINE U == T \cup {x}
               y == Pick(U)
    <3>1. y \in U /\ Sum(U) = f[y] + Sum(U \ {y})
      BY <1>t
    <3>2. CASE y = x
      <4>1. U \ {y} = T
        BY <3>2
      <4> QED
        BY <1>f, <3>1, <3>2, <4>1
    <3>3. CASE y # x
      <4>1. y \in T /\ U \ {y} = (T \ {y}) \cup {x} /\ (T \ {y}) \cup {y} = T
        BY <3>1, <3>3
      <4> HIDE DEF y, U
      <4>2. Cardinality(T \ {y}) = Cardinality(T) - 1
        BY <1>f, <4>1, FS_RemoveElement
      <4>3. T \ {y} \in SUBSET S /\ Cardinality(T \ {y}) = n
        BY <2>n, <2>1, <4>2
      <4>4. Good(T \ {y})
        BY <4>3
      <4>5. Sum((T \ {y}) \cup {x}) = Sum(T \ {y}) + f[x]
        BY <4>4
      <4>6. Sum(T) = Sum(T \ {y}) + f[y]
        BY <4>1, <4>4
      <4>7. Sum(T \ {y}) \in Int /\ f[x] \in Int /\ f[y] \in Int
        BY <1>f, <4>1, <4>3
      <4>8. Sum(U) = f[y] + Sum((T \ {y}) \cup {x})
        BY <3>1, <4>1
      <4>9. Sum(U) = Sum(T) + f[x]
        BY <4>5, <4>6, <4>7, <4>8
      <4> QED
        BY <4>9 DEF U
    <3> QED
      BY <3>2, <3>3
  <2> QED
    BY <2>n, <2>1
<1>3. N = Nat
  BY <1>1, <1>2, InductionOnNat
<1>4. \A T \in SUBSET S : Good(T)
  BY <1>3, <1>f
<1> QED
  BY <1>4 DEF Sum

LEMMA SumEquals ==
  ASSUME NEW S, IsFiniteSet(S), NEW f, NEW g, \A x \in S : f[x] \in Int /\ f[x] = g[x]
  PROVE  SumFunctionOnSet(f, S) = SumFunctionOnSet(g, S)
<1> DEFINE G == { T \in SUBSET S : SumFunctionOnSet(f, T) = SumFunctionOnSet(g, T) }
<1>1. {} \in G
  BY SumOfNone
<1>2. ASSUME NEW T \in SUBSET S, NEW x \in S \ T, T \in G PROVE T \cup {x} \in G
  <2>1. SumFunctionOnSet(f, T \cup {x}) = SumFunctionOnSet(f, T) + f[x]
    BY SumAddsOne
  <2>2. SumFunctionOnSet(g, T \cup {x}) = SumFunctionOnSet(g, T) + g[x]
    BY SumAddsOne
  <2>3. T \cup {x} \in SUBSET S /\ f[x] = g[x]
    OBVIOUS
  <2> QED
    BY <1>2, <2>1, <2>2, <2>3
<1>3. SUBSET S \subseteq G
  <2> HIDE DEF G
  <2> QED
    BY <1>1, <1>2, InductionOnSubsets
<1> QED
  BY <1>3

(* The sum of sums.                                                        *)
LEMMA SumOfSums ==
  ASSUME NEW S, IsFiniteSet(S), NEW f, NEW g, NEW h,
         \A x \in S : f[x] \in Int /\ g[x] \in Int /\ h[x] = f[x] + g[x]
  PROVE  SumFunctionOnSet(h, S) = SumFunctionOnSet(f, S) + SumFunctionOnSet(g, S)
<1> DEFINE F(T) == SumFunctionOnSet(f, T)
           E(T) == SumFunctionOnSet(g, T)
           H(T) == SumFunctionOnSet(h, T)
           G == { T \in SUBSET S : H(T) = F(T) + E(T) }
<1>i. (\A x \in S : f[x] \in Int) /\ (\A x \in S : g[x] \in Int) /\ (\A x \in S : h[x] \in Int)
  OBVIOUS
<1>t. \A T \in SUBSET S : F(T) \in Int /\ E(T) \in Int
  BY SumIsInt
<1>0. F({}) = 0 /\ E({}) = 0 /\ H({}) = 0
  BY SumOfNone
<1>p. ASSUME NEW k, \A x \in S : k[x] \in Int
      PROVE  \A T \in SUBSET S : \A x \in S \ T :
               SumFunctionOnSet(k, T \cup {x}) = SumFunctionOnSet(k, T) + k[x]
  BY ONLY <1>p, IsFiniteSet(S), SumAddsOne
<1>a. \A T \in SUBSET S : \A x \in S \ T : F(T \cup {x}) = F(T) + f[x]
  BY ONLY <1>p, <1>i
<1>b. \A T \in SUBSET S : \A x \in S \ T : E(T \cup {x}) = E(T) + g[x]
  BY ONLY <1>p, <1>i
<1>c. \A T \in SUBSET S : \A x \in S \ T : H(T \cup {x}) = H(T) + h[x]
  BY ONLY <1>p, <1>i
<1> HIDE DEF F, E, H
<1>1. {} \in G
  BY <1>0
<1>2. ASSUME NEW T \in SUBSET S, NEW x \in S \ T, T \in G PROVE T \cup {x} \in G
  <2>1. H(T \cup {x}) = F(T \cup {x}) + E(T \cup {x})
    BY <1>2, <1>a, <1>b, <1>c, <1>t
  <2>2. T \cup {x} \in SUBSET S
    OBVIOUS
  <2> QED
    BY <2>1, <2>2
<1>3. SUBSET S \subseteq G
  <2> HIDE DEF G
  <2> QED
    BY <1>1, <1>2, InductionOnSubsets
<1> QED
  BY <1>3 DEF F, E, H

(* The sum over two sets that have nothing in common.                      *)
LEMMA SumOfUnion ==
  ASSUME NEW S, IsFiniteSet(S), NEW f, \A x \in S : f[x] \in Int,
         NEW A \in SUBSET S
  PROVE  SumFunctionOnSet(f, S) = SumFunctionOnSet(f, A) + SumFunctionOnSet(f, S \ A)
<1> DEFINE Sum(T) == SumFunctionOnSet(f, T)
           R == S \ A
           G == { T \in SUBSET R : Sum(A \cup T) = Sum(A) + Sum(T) }
<1>t. \A T \in SUBSET S : Sum(T) \in Int
  BY SumIsInt
<1>0. Sum({}) = 0
  BY SumOfNone
<1>a. \A T \in SUBSET S : \A x \in S \ T : Sum(T \cup {x}) = Sum(T) + f[x]
  BY SumAddsOne
<1> HIDE DEF Sum
<1>1. {} \in G
  <2>1. A \cup {} = A
    OBVIOUS
  <2> QED
    BY <1>0, <1>t, <2>1
<1>2. ASSUME NEW T \in SUBSET R, NEW x \in R \ T, T \in G PROVE T \cup {x} \in G
  <2>1. Sum((A \cup T) \cup {x}) = Sum(A \cup T) + f[x]
    <3>1. A \cup T \in SUBSET S /\ x \in S \ (A \cup T)
      OBVIOUS
    <3> QED
      BY <1>a, <3>1
  <2>2. Sum(T \cup {x}) = Sum(T) + f[x]
    BY <1>a
  <2>3. A \cup (T \cup {x}) = (A \cup T) \cup {x} /\ T \cup {x} \in SUBSET R
    OBVIOUS
  <2>4. Sum(A \cup T) = Sum(A) + Sum(T) /\ Sum(A) \in Int /\ Sum(T) \in Int /\ f[x] \in Int
    BY <1>2, <1>t
  <2>6. Sum(A \cup (T \cup {x})) = Sum(A \cup T) + f[x]
    BY <2>1, <2>3
  <2>5. Sum(A \cup (T \cup {x})) = Sum(A) + Sum(T \cup {x})
    BY <2>2, <2>4, <2>6
  <2> QED
    BY <2>3, <2>5
<1>3. SUBSET R \subseteq G
  <2>1. IsFiniteSet(R)
    BY FS_Subset
  <2> HIDE DEF G, R
  <2> QED
    BY <1>1, <1>2, <2>1, InductionOnSubsets
<1>4. R \in G /\ A \cup R = S
  BY <1>3
<1>5. Sum(S) = Sum(A) + Sum(R)
  BY <1>4
<1> QED
  BY <1>5 DEF Sum

(* A sum of natural numbers is one.                                        *)
LEMMA SumIsNat ==
  ASSUME NEW S, IsFiniteSet(S), NEW f, \A x \in S : f[x] \in Nat
  PROVE  SumFunctionOnSet(f, S) \in Nat
<1> DEFINE Sum(T) == SumFunctionOnSet(f, T)
           G == { T \in SUBSET S : Sum(T) \in Nat }
<1>i. \A x \in S : f[x] \in Int
  OBVIOUS
<1>a. \A T \in SUBSET S : \A x \in S \ T : Sum(T \cup {x}) = Sum(T) + f[x]
  BY <1>i, SumAddsOne
<1>0. Sum({}) = 0
  BY SumOfNone
<1> HIDE DEF Sum
<1>1. {} \in G
  BY <1>0
<1>2. ASSUME NEW T \in SUBSET S, NEW x \in S \ T, T \in G PROVE T \cup {x} \in G
  BY <1>2, <1>a
<1>3. SUBSET S \subseteq G
  <2> HIDE DEF G
  <2> QED
    BY <1>1, <1>2, InductionOnSubsets
<1> QED
  BY <1>3 DEF Sum

LEMMA SumOfZeros ==
  ASSUME NEW S, IsFiniteSet(S), NEW f, \A x \in S : f[x] = 0
  PROVE  SumFunctionOnSet(f, S) = 0
<1> DEFINE Sum(T) == SumFunctionOnSet(f, T)
           G == { T \in SUBSET S : Sum(T) = 0 }
<1>i. \A x \in S : f[x] \in Int
  OBVIOUS
<1>a. \A T \in SUBSET S : \A x \in S \ T : Sum(T \cup {x}) = Sum(T) + f[x]
  BY <1>i, SumAddsOne
<1>0. Sum({}) = 0
  BY SumOfNone
<1> HIDE DEF Sum
<1>1. {} \in G
  BY <1>0
<1>2. ASSUME NEW T \in SUBSET S, NEW x \in S \ T, T \in G PROVE T \cup {x} \in G
  BY <1>2, <1>a
<1>3. SUBSET S \subseteq G
  <2> HIDE DEF G
  <2> QED
    BY <1>1, <1>2, InductionOnSubsets
<1> QED
  BY <1>3 DEF Sum

(* The sum with a new element, and with the value of one element changed.  *)
LEMMA SumWithNew ==
  ASSUME NEW S, IsFiniteSet(S), NEW x, x \notin S, NEW f, NEW g,
         \A y \in S : f[y] \in Int /\ g[y] = f[y], g[x] \in Int
  PROVE  SumFunctionOnSet(g, S \cup {x}) = SumFunctionOnSet(f, S) + g[x]
<1>1. IsFiniteSet(S \cup {x}) /\ S \in SUBSET (S \cup {x}) /\ x \in (S \cup {x}) \ S
  BY FS_AddElement
<1>2. \A y \in S \cup {x} : g[y] \in Int
  OBVIOUS
<1>3. SumFunctionOnSet(g, S \cup {x}) = SumFunctionOnSet(g, S) + g[x]
  BY <1>1, <1>2, SumAddsOne
<1>4. SumFunctionOnSet(f, S) = SumFunctionOnSet(g, S)
  BY SumEquals
<1> QED
  BY <1>3, <1>4

LEMMA SumWithChange ==
  ASSUME NEW S, IsFiniteSet(S), NEW x \in S, NEW f, NEW g,
         \A y \in S : f[y] \in Int /\ g[y] \in Int,
         \A y \in S \ {x} : g[y] = f[y]
  PROVE  SumFunctionOnSet(g, S) = SumFunctionOnSet(f, S) - f[x] + g[x]
<1>1. PICK R \in SUBSET S : R = S \ {x}
  OBVIOUS
<1>2. IsFiniteSet(R) /\ x \in S \ R /\ R \cup {x} = S
  BY <1>1, FS_Subset
<1>3. /\ \A y \in S : f[y] \in Int
      /\ \A y \in S : g[y] \in Int
  OBVIOUS
<1>4. SumFunctionOnSet(f, R \cup {x}) = SumFunctionOnSet(f, R) + f[x]
  BY <1>2, <1>3, SumAddsOne
<1>5. SumFunctionOnSet(g, R \cup {x}) = SumFunctionOnSet(g, R) + g[x]
  BY <1>2, <1>3, SumAddsOne
<1>6. SumFunctionOnSet(f, R) = SumFunctionOnSet(g, R)
  BY <1>1, <1>2, <1>3, SumEquals
<1>7. SumFunctionOnSet(f, R) \in Int
  BY <1>3, SumIsInt
<1>8. f[x] \in Int /\ g[x] \in Int
  OBVIOUS
<1>9. SumFunctionOnSet(f, S) = SumFunctionOnSet(f, R) + f[x]
  BY ONLY <1>2, <1>4
<1>10. SumFunctionOnSet(g, S) = SumFunctionOnSet(g, R) + g[x]
  BY ONLY <1>2, <1>5
<1> QED
  BY ONLY <1>6, <1>7, <1>8, <1>9, <1>10

(* The sum of what is nothing outside a part is the sum over that part.    *)
LEMMA SumOverPart ==
  ASSUME NEW S, IsFiniteSet(S), NEW A \in SUBSET S, NEW f, NEW g,
         \A x \in A : f[x] \in Int /\ g[x] = f[x],
         \A x \in S \ A : g[x] = 0
  PROVE  SumFunctionOnSet(g, S) = SumFunctionOnSet(f, A)
<1>1. \A x \in S : g[x] \in Int
  OBVIOUS
<1>2. IsFiniteSet(A) /\ IsFiniteSet(S \ A)
  BY FS_Subset
<1>3. SumFunctionOnSet(g, S) = SumFunctionOnSet(g, A) + SumFunctionOnSet(g, S \ A)
  BY <1>1, SumOfUnion
<1>4. SumFunctionOnSet(g, S \ A) = 0
  BY <1>2, SumOfZeros
<1>5. SumFunctionOnSet(f, A) = SumFunctionOnSet(g, A)
  BY <1>2, SumEquals
<1>6. SumFunctionOnSet(f, A) \in Int
  <2>1. \A x \in A : f[x] \in Int
    OBVIOUS
  <2> QED
    BY ONLY <1>2, <2>1, SumIsInt
<1> QED
  BY ONLY <1>3, <1>4, <1>5, <1>6

(* What balances for each element balances in the sum.                     *)
LEMMA SumsBalance ==
  ASSUME NEW S, IsFiniteSet(S),
         NEW a, NEW b, NEW c, NEW d, NEW u, NEW v, NEW w,
         \A x \in S : a[x] \in Int /\ b[x] \in Int /\ c[x] \in Int /\ d[x] \in Int,
         \A x \in S : u[x] \in Int /\ v[x] \in Int /\ w[x] \in Int,
         \A x \in S : a[x] + b[x] + c[x] + d[x] = u[x] + v[x] + w[x]
  PROVE  SumFunctionOnSet(a, S) + SumFunctionOnSet(b, S) + SumFunctionOnSet(c, S)
           + SumFunctionOnSet(d, S)
         = SumFunctionOnSet(u, S) + SumFunctionOnSet(v, S) + SumFunctionOnSet(w, S)
<1> DEFINE ab == [x \in S |-> a[x] + b[x]]
           abc == [x \in S |-> ab[x] + c[x]]
           abcd == [x \in S |-> abc[x] + d[x]]
           uv == [x \in S |-> u[x] + v[x]]
           uvw == [x \in S |-> uv[x] + w[x]]
           Sum(f) == SumFunctionOnSet(f, S)
<1>1. /\ \A x \in S : a[x] \in Int /\ b[x] \in Int /\ ab[x] = a[x] + b[x]
      /\ \A x \in S : ab[x] \in Int /\ c[x] \in Int /\ abc[x] = ab[x] + c[x]
      /\ \A x \in S : abc[x] \in Int /\ d[x] \in Int /\ abcd[x] = abc[x] + d[x]
      /\ \A x \in S : u[x] \in Int /\ v[x] \in Int /\ uv[x] = u[x] + v[x]
      /\ \A x \in S : uv[x] \in Int /\ w[x] \in Int /\ uvw[x] = uv[x] + w[x]
  OBVIOUS
<1>2. \A x \in S : abcd[x] \in Int /\ abcd[x] = uvw[x]
  OBVIOUS
<1> HIDE DEF ab, abc, abcd, uv, uvw
<1>3. Sum(ab) = Sum(a) + Sum(b)
  BY ONLY <1>1, IsFiniteSet(S), SumOfSums
<1>4. Sum(abc) = Sum(ab) + Sum(c)
  BY ONLY <1>1, IsFiniteSet(S), SumOfSums
<1>5. Sum(abcd) = Sum(abc) + Sum(d)
  BY ONLY <1>1, IsFiniteSet(S), SumOfSums
<1>6. Sum(uv) = Sum(u) + Sum(v)
  BY ONLY <1>1, IsFiniteSet(S), SumOfSums
<1>7. Sum(uvw) = Sum(uv) + Sum(w)
  BY ONLY <1>1, IsFiniteSet(S), SumOfSums
<1>8. Sum(abcd) = Sum(uvw)
  BY ONLY <1>2, IsFiniteSet(S), SumEquals
<1> HIDE DEF Sum
<1>9. Sum(a) + Sum(b) + Sum(c) + Sum(d) = Sum(u) + Sum(v) + Sum(w)
  BY ONLY <1>3, <1>4, <1>5, <1>6, <1>7, <1>8
<1> QED
  BY <1>9 DEF Sum
================================================================================
