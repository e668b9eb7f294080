------------------------------- MODULE Sums -------------------------------
(***************************************************************************)
(* What the proofs need of SumFunctionOnSet(f, S), the sum of f[x] for the *)
(* x in the finite set S: it does not depend on the order in which the     *)
(* library's definition takes the elements.  Induction over a finite set   *)
(* is a lemma about sets of sets here, so that it can be cited.  At the    *)
(* end, facts of arithmetic that the provers need step by step.            *)
(***************************************************************************)
EXTENDS Integers, FiniteSetTheorems, TLAPS

\* A set Q of subsets of S that has every subset whose strict subsets it has,
\* has S.
LEMMA SubsetInduction ==
    ASSUME NEW S, IsFiniteSet(S), NEW Q,
           \A T \in SUBSET S : (\A U \in SUBSET T : U # T => U \in Q) => T \in Q
    PROVE  S \in Q
<1>1. SUFFICES ASSUME S \notin Q PROVE FALSE
  OBVIOUS
<1> DEFINE Bad == {T \in SUBSET S : T \notin Q}
<1>2. IsWellFoundedOn(StrictSubsetOrdering(S), SUBSET S)
  BY FS_StrictSubsetOrderingWellFounded, FS_FiniteSubsetsOfFinite
<1>3. Bad \subseteq SUBSET S /\ Bad # {}
  BY <1>1
<1>4. \E T \in Bad : \A U \in Bad : ~ (<<U, T>> \in StrictSubsetOrdering(S))
  <2> HIDE DEF Bad
  <2> QED BY <1>2, <1>3, WFMin
<1>5. PICK T \in Bad : \A U \in Bad : <<U, T>> \notin StrictSubsetOrdering(S)
  BY <1>4
<1>6. \A U \in SUBSET T : U # T => U \in Q
  BY <1>5 DEF StrictSubsetOrdering
<1> QED BY <1>5, <1>6

\* A set Q of subsets of S that has the empty set and, with a set, the set and
\* one more element of S, has S.
LEMMA AddInduction ==
    ASSUME NEW S, IsFiniteSet(S), NEW Q, {} \in Q,
           \A T \in SUBSET S : \A x \in S \ T : T \in Q => T \union {x} \in Q
    PROVE  S \in Q
<1>1. ASSUME NEW T \in SUBSET S, \A U \in SUBSET T : U # T => U \in Q
      PROVE  T \in Q
  <2>1. CASE T = {}
    BY <2>1
  <2>2. CASE T # {}
    <3>1. PICK x \in T : TRUE
      BY <2>2
    <3>2. T \ {x} \in SUBSET T /\ T \ {x} # T /\ (T \ {x}) \union {x} = T
      BY <3>1
    <3>3. T \ {x} \in Q /\ T \ {x} \in SUBSET S /\ x \in S \ (T \ {x})
      BY <1>1, <3>1, <3>2
    <3> QED BY <3>2, <3>3
  <2> QED BY <2>1, <2>2
<1> QED BY <1>1, SubsetInduction

\* A set that has 0 and, with a number, the next one, has all natural numbers.
LEMMA NumberInduction ==
    ASSUME NEW Q, 0 \in Q, \A n \in Nat : n \in Q => n + 1 \in Q
    PROVE  Nat \subseteq Q
<1> DEFINE Bad == Nat \ Q
<1>1. SUFFICES ASSUME Bad # {} PROVE FALSE
  OBVIOUS
<1>2. PICK n \in Bad : \A m \in Bad : ~ (<<m, n>> \in OpToRel(<, Nat))
  BY <1>1, WFMin, NatLessThanWellFounded
<1>3. \A m \in Bad : ~ (m < n)
  BY <1>2 DEF OpToRel
<1>4. n \in Nat \ {0} /\ n \notin Q /\ n - 1 \in Nat /\ n - 1 < n
  OBVIOUS
<1>5. n - 1 \in Q
  BY <1>3, <1>4
<1>6. (n - 1) + 1 \in Q
  BY <1>4, <1>5
<1> QED BY <1>4, <1>6

-----------------------------------------------------------------------------
(* The equation of the definition.                                         *)

Taken(s) == CHOOSE x \in s : TRUE

\* The function of the library's definition.
IsIter(f, S, it) ==
    it = [s \in SUBSET S |-> IF s = {} THEN 0 ELSE f[Taken(s)] + it[s \ {Taken(s)}]]

\* The element that is taken next is one of the set.
LEMMA TakenIn == \A s : s # {} => Taken(s) \in s
BY DEF Taken

\* There is one such function, so its value at S is the sum.
LEMMA SumIsIter ==
    ASSUME NEW f, NEW S, NEW it, IsIter(f, S, it),
           \A jt : IsIter(f, S, jt) => jt = it
    PROVE  SumFunctionOnSet(f, S) = it[S]
BY DEF SumFunctionOnSet, FoldFunctionOnSet, MapThenFoldSet, IsIter, Taken

\* Two such functions have the same value at every subset.
LEMMA IterUnique ==
    ASSUME NEW f, NEW S, IsFiniteSet(S), NEW it, IsIter(f, S, it),
           NEW jt, IsIter(f, S, jt)
    PROVE  jt = it
<1> DEFINE Q == {s \in SUBSET S : jt[s] = it[s]}
<1>1. ASSUME NEW s \in SUBSET S PROVE s \in Q
  <2>1. ASSUME NEW T \in SUBSET s, \A U \in SUBSET T : U # T => U \in Q
        PROVE  T \in Q
    <3>1. T \in SUBSET S
      OBVIOUS
    <3>2. CASE T = {}
      BY <3>1, <3>2 DEF IsIter
    <3>3. CASE T # {}
      <4>1. T \ {Taken(T)} \in SUBSET T /\ T \ {Taken(T)} # T
        BY <3>3, TakenIn
      <4>2. it[T \ {Taken(T)}] = jt[T \ {Taken(T)}]
        BY <4>1, <2>1
      <4> QED BY <3>1, <3>3, <4>2 DEF IsIter
    <3> QED BY <3>2, <3>3
  <2>2. IsFiniteSet(s)
    BY FS_Subset
  <2> HIDE DEF Q
  <2> QED BY <2>1, <2>2, SubsetInduction
<1> QED BY <1>1 DEF IsIter

\* The sum takes an element out and adds the sum of the rest.
LEMMA SumEquation ==
    ASSUME NEW f, NEW S, IsFiniteSet(S)
    PROVE  SumFunctionOnSet(f, S) =
             IF S = {} THEN 0
             ELSE f[Taken(S)] + SumFunctionOnSet(f, S \ {Taken(S)})
<1> DEFINE Sum(s) == SumFunctionOnSet(f, s)
           Step(s) == IF s = {} THEN 0 ELSE f[Taken(s)] + Sum(s \ {Taken(s)})
           Q == {s \in SUBSET S : Sum(s) = Step(s)}
<1>1. ASSUME NEW T \in SUBSET S, \A U \in SUBSET T : U # T => U \in Q
      PROVE  T \in Q
  <2> DEFINE it == [s \in SUBSET T |-> Step(s)]
  <2>1. IsIter(f, T, it)
    <3>1. ASSUME NEW s \in SUBSET T, s # {}
          PROVE  it[s \ {Taken(s)}] = Sum(s \ {Taken(s)})
      <4> DEFINE u == s \ {Taken(s)}
      <4>1. u \in SUBSET T /\ u # T
        BY <3>1, TakenIn
      <4>2. Sum(u) = Step(u)
        BY <4>1, <1>1
      <4>3. it[u] = Step(u)
        <5> HIDE DEF u, Step
        <5> QED BY <4>1
      <4> HIDE DEF Sum, Step, u, it
      <4> QED BY <4>2, <4>3 DEF u
    <3>2. it = [s \in SUBSET T |->
                  IF s = {} THEN 0 ELSE f[Taken(s)] + it[s \ {Taken(s)}]]
      <4>1. \A s \in SUBSET T :
              Step(s) = IF s = {} THEN 0 ELSE f[Taken(s)] + it[s \ {Taken(s)}]
        <5> HIDE DEF it, Sum
        <5> QED BY <3>1
      <4> HIDE DEF Step
      <4> QED BY <4>1
    <3> HIDE DEF it
    <3> QED BY <3>2 DEF IsIter
  <2>2. IsFiniteSet(T)
    BY FS_Subset
  <2>3. Sum(T) = it[T]
    <3> HIDE DEF it
    <3> QED BY <2>1, <2>2, SumIsIter, IterUnique
  <2>4. it[T] = Step(T)
    <3> HIDE DEF Step
    <3> QED OBVIOUS
  <2> HIDE DEF Sum, Step, it
  <2> QED BY <2>3, <2>4
<1>2. S \in Q
  <2> HIDE DEF Q
  <2> QED BY <1>1, SubsetInduction
<1> QED BY <1>2
-----------------------------------------------------------------------------
(* Laws of sums.                                                           *)

\* Nothing adds up to 0.
LEMMA SumEmpty == \A f : SumFunctionOnSet(f, {}) = 0
BY FS_EmptySet, SumEquation

\* A sum of integers is one.
LEMMA SumInt ==
    ASSUME NEW S, IsFiniteSet(S), NEW f, \A x \in S : f[x] \in Int
    PROVE  SumFunctionOnSet(f, S) \in Int
<1> DEFINE Q == {T \in SUBSET S : SumFunctionOnSet(f, T) \in Int}
<1>1. ASSUME NEW T \in SUBSET S, \A U \in SUBSET T : U # T => U \in Q
      PROVE  T \in Q
  <2>1. IsFiniteSet(T)
    BY FS_Subset
  <2>2. CASE T = {}
    BY <2>2, SumEmpty
  <2>3. CASE T # {}
    <3>1. Taken(T) \in T
      BY <2>3, TakenIn
    <3>2. SumFunctionOnSet(f, T) = f[Taken(T)] + SumFunctionOnSet(f, T \ {Taken(T)})
      BY <2>1, <2>3, SumEquation
    <3>3. SumFunctionOnSet(f, T \ {Taken(T)}) \in Int
      BY <1>1, <3>1
    <3> QED BY <3>1, <3>2, <3>3
  <2> QED BY <2>2, <2>3
<1>2. S \in Q
  <2> HIDE DEF Q
  <2> QED BY <1>1, SubsetInduction
<1> QED BY <1>2

\* Any element may be taken out first.
LEMMA SumOut ==
    ASSUME NEW S, IsFiniteSet(S), NEW f, \A x \in S : f[x] \in Int, NEW a \in S
    PROVE  SumFunctionOnSet(f, S) = f[a] + SumFunctionOnSet(f, S \ {a})
<1> DEFINE Sum(s) == SumFunctionOnSet(f, s)
           Q == {T \in SUBSET S : \A x \in T : Sum(T) = f[x] + Sum(T \ {x})}
<1>0. ASSUME NEW T \in SUBSET S PROVE IsFiniteSet(T) /\ Sum(T) \in Int
  BY FS_Subset, SumInt
<1>1. ASSUME NEW T \in SUBSET S, \A U \in SUBSET T : U # T => U \in Q
      PROVE  T \in Q
  <2> SUFFICES ASSUME NEW x \in T PROVE Sum(T) = f[x] + Sum(T \ {x})
    OBVIOUS
  <2> DEFINE y == Taken(T)
  <2>1. y \in T
    BY TakenIn
  <2>2. Sum(T) = f[y] + Sum(T \ {y})
    BY <1>0, SumEquation
  <2>3. CASE x = y
    BY <2>2, <2>3
  <2>4. CASE x # y
    <3> HIDE DEF y, Sum
    <3>1. T \ {y} \in Q /\ T \ {x} \in Q
      BY <1>1, <2>1
    <3>2. Sum(T \ {y}) = f[x] + Sum((T \ {y}) \ {x})
      BY <3>1, <2>4
    <3>3. Sum(T \ {x}) = f[y] + Sum((T \ {x}) \ {y})
      BY <3>1, <2>1, <2>4
    <3>4. (T \ {y}) \ {x} = (T \ {x}) \ {y} /\ (T \ {x}) \ {y} \in SUBSET S
      OBVIOUS
    <3>5. Sum((T \ {x}) \ {y}) \in Int /\ f[x] \in Int /\ f[y] \in Int
      BY <3>4, <1>0, <2>1
    <3> DEFINE u == Sum((T \ {x}) \ {y})
    <3>6. Sum(T) = f[y] + (f[x] + u) /\ Sum(T \ {x}) = f[y] + u
      BY <3>2, <3>3, <3>4, <2>2
    <3>7. u \in Int /\ f[x] \in Int /\ f[y] \in Int
      BY <3>5
    <3> HIDE DEF u
    <3> QED BY <3>6, <3>7
  <2> QED BY <2>3, <2>4
<1>2. S \in Q
  <2> HIDE DEF Q
  <2> QED BY <1>1, SubsetInduction
<1> QED BY <1>2

\* The form induction by one element uses.
LEMMA SumAdd ==
    ASSUME NEW S, IsFiniteSet(S), NEW f, \A x \in S : f[x] \in Int,
           NEW T \in SUBSET S, NEW a \in S \ T
    PROVE  SumFunctionOnSet(f, T \union {a}) = f[a] + SumFunctionOnSet(f, T)
<1>1. (T \union {a}) \ {a} = T /\ T \union {a} \in SUBSET S
  OBVIOUS
<1>2. IsFiniteSet(T \union {a})
  BY <1>1, FS_Subset
<1> QED BY <1>1, <1>2, SumOut

\* Functions that agree on the set have the same sum.
LEMMA SumSame ==
    ASSUME NEW S, IsFiniteSet(S), NEW f, NEW g,
           \A x \in S : f[x] \in Int /\ g[x] = f[x]
    PROVE  SumFunctionOnSet(g, S) = SumFunctionOnSet(f, S)
<1> DEFINE Q == {T \in SUBSET S : SumFunctionOnSet(g, T) = SumFunctionOnSet(f, T)}
<1>1. {} \in Q
  BY SumEmpty
<1>2. ASSUME NEW T \in SUBSET S, NEW x \in S \ T, T \in Q PROVE T \union {x} \in Q
  <2>1. /\ SumFunctionOnSet(f, T \union {x}) = f[x] + SumFunctionOnSet(f, T)
        /\ SumFunctionOnSet(g, T \union {x}) = g[x] + SumFunctionOnSet(g, T)
    BY SumAdd
  <2> QED BY <1>2, <2>1
<1>3. S \in Q
  <2> HIDE DEF Q
  <2> QED BY <1>1, <1>2, AddInduction
<1> QED BY <1>3

\* What holds between the terms, up to a constant, holds between the sums, up
\* to as many.
LEMMA SumLinear ==
    ASSUME NEW S, IsFiniteSet(S), NEW f, NEW g,
           \A x \in S : f[x] \in Int /\ g[x] \in Int,
           NEW p \in Int, NEW q \in Int, NEW c \in Int,
           \A x \in S : p * f[x] <= q * g[x] + c
    PROVE  p * SumFunctionOnSet(f, S) <=
             q * SumFunctionOnSet(g, S) + c * Cardinality(S)
<1> DEFINE F(s) == SumFunctionOnSet(f, s)
           G(s) == SumFunctionOnSet(g, s)
           Q == {T \in SUBSET S : p * F(T) <= q * G(T) + c * Cardinality(T)}
<1>0. ASSUME NEW T \in SUBSET S
      PROVE  IsFiniteSet(T) /\ F(T) \in Int /\ G(T) \in Int /\ Cardinality(T) \in Nat
  BY FS_Subset, SumInt, FS_CardinalityType
<1>1. {} \in Q
  BY SumEmpty, FS_EmptySet
<1>2. ASSUME NEW T \in SUBSET S, NEW x \in S \ T, T \in Q PROVE T \union {x} \in Q
  <2>1. F(T \union {x}) = f[x] + F(T) /\ G(T \union {x}) = g[x] + G(T)
    BY SumAdd
  <2>2. Cardinality(T \union {x}) = Cardinality(T) + 1
    BY <1>0, FS_AddElement
  <2>3. p * F(T) <= q * G(T) + c * Cardinality(T)
    BY <1>2
  <2>4. p * f[x] <= q * g[x] + c /\ f[x] \in Int /\ g[x] \in Int
    OBVIOUS
  <2> DEFINE a == f[x]
             b == g[x]
             A == F(T)
             B == G(T)
             n == Cardinality(T)
  <2>5. a \in Int /\ b \in Int /\ A \in Int /\ B \in Int /\ n \in Nat
    BY <1>0, <2>4
  <2>6. p * A <= q * B + c * n /\ p * a <= q * b + c
    BY <2>3, <2>4
  <2>7. p * (a + A) <= q * (b + B) + c * (n + 1)
    <3> HIDE DEF a, b, A, B, n
    <3>1. /\ p * (a + A) = p * a + p * A
          /\ q * (b + B) = q * b + q * B
          /\ c * (n + 1) = c * n + c
      BY <2>5
    <3> DEFINE pa == p * a  pA == p * A  qb == q * b  qB == q * B  cn == c * n
    <3>2. pa \in Int /\ pA \in Int /\ qb \in Int /\ qB \in Int /\ cn \in Int
      BY <2>5
    <3>3. pA <= qB + cn /\ pa <= qb + c
      BY <2>6
    <3>4. pa + pA <= qb + qB + (cn + c)
      <4> HIDE DEF pa, pA, qb, qB, cn
      <4> QED BY <3>2, <3>3
    <3> QED BY <3>1, <3>4
  <2>8. p * F(T \union {x}) <= q * G(T \union {x}) + c * Cardinality(T \union {x})
    BY <2>1, <2>2, <2>7
  <2> QED BY <2>8
<1>3. S \in Q
  <2> HIDE DEF Q
  <2> QED BY <1>1, <1>2, AddInduction
<1> QED BY <1>3

\* Larger terms have a larger sum.
LEMMA SumLeq ==
    ASSUME NEW S, IsFiniteSet(S), NEW f, NEW g,
           \A x \in S : f[x] \in Int /\ g[x] \in Int /\ f[x] <= g[x]
    PROVE  SumFunctionOnSet(f, S) <= SumFunctionOnSet(g, S)
<1>1. /\ SumFunctionOnSet(f, S) \in Int
      /\ SumFunctionOnSet(g, S) \in Int
      /\ Cardinality(S) \in Nat
  BY SumInt, FS_CardinalityType
<1>2. \A x \in S : f[x] \in Int /\ g[x] \in Int
  OBVIOUS
<1> DEFINE one == 1  zero == 0
<1>3. one \in Int /\ zero \in Int /\ \A x \in S : one * f[x] <= one * g[x] + zero
  BY <1>2
<1>4. one * SumFunctionOnSet(f, S) <= one * SumFunctionOnSet(g, S) + zero * Cardinality(S)
  <2> HIDE DEF one, zero
  <2> QED BY <1>2, <1>3, SumLinear
<1> QED BY <1>1, <1>4

\* A sum of natural numbers is one.
LEMMA SumNat ==
    ASSUME NEW S, IsFiniteSet(S), NEW f, \A x \in S : f[x] \in Nat
    PROVE  SumFunctionOnSet(f, S) \in Nat
<1> DEFINE Q == {T \in SUBSET S : SumFunctionOnSet(f, T) \in Nat}
<1>1. {} \in Q
  BY SumEmpty
<1>2. ASSUME NEW T \in SUBSET S, NEW x \in S \ T, T \in Q PROVE T \union {x} \in Q
  <2>1. SumFunctionOnSet(f, T \union {x}) = f[x] + SumFunctionOnSet(f, T)
    BY SumAdd
  <2> QED BY <1>2, <2>1
<1>3. S \in Q
  <2> HIDE DEF Q
  <2> QED BY <1>1, <1>2, AddInduction
<1> QED BY <1>3

\* A sum of zeros is 0.
LEMMA SumZero ==
    ASSUME NEW S, IsFiniteSet(S), NEW f, \A x \in S : f[x] = 0
    PROVE  SumFunctionOnSet(f, S) = 0
<1> DEFINE Q == {T \in SUBSET S : SumFunctionOnSet(f, T) = 0}
<1>1. {} \in Q
  BY SumEmpty
<1>2. ASSUME NEW T \in SUBSET S, NEW x \in S \ T, T \in Q PROVE T \union {x} \in Q
  <2>1. SumFunctionOnSet(f, T \union {x}) = f[x] + SumFunctionOnSet(f, T)
    BY SumAdd
  <2> QED BY <1>2, <2>1
<1>3. S \in Q
  <2> HIDE DEF Q
  <2> QED BY <1>1, <1>2, AddInduction
<1> QED BY <1>3

\* No term is more than the sum, when none is negative.
LEMMA SumMember ==
    ASSUME NEW S, IsFiniteSet(S), NEW f, \A x \in S : f[x] \in Nat, NEW a \in S
    PROVE  f[a] <= SumFunctionOnSet(f, S)
<1>1. SumFunctionOnSet(f, S) = f[a] + SumFunctionOnSet(f, S \ {a})
  BY SumOut
<1>2. SumFunctionOnSet(f, S \ {a}) \in Nat
  BY FS_RemoveElement, SumNat
<1> QED BY <1>1, <1>2

\* One term changes.
LEMMA SumOneChanged ==
    ASSUME NEW S, IsFiniteSet(S), NEW f, NEW g, NEW a \in S,
           \A x \in S : f[x] \in Int /\ g[x] \in Int,
           \A x \in S : x # a => g[x] = f[x]
    PROVE  SumFunctionOnSet(g, S) = SumFunctionOnSet(f, S) + g[a] - f[a]
<1> DEFINE R == S \ {a}
<1>1. IsFiniteSet(R)
  BY FS_RemoveElement
<1>2. SumFunctionOnSet(g, R) = SumFunctionOnSet(f, R) /\ SumFunctionOnSet(f, R) \in Int
  BY <1>1, SumSame, SumInt
<1>3. /\ SumFunctionOnSet(f, S) = f[a] + SumFunctionOnSet(f, R)
      /\ SumFunctionOnSet(g, S) = g[a] + SumFunctionOnSet(g, R)
  BY SumOut
<1> QED BY <1>2, <1>3

\* The sum of sums is the sum of both.
LEMMA SumPlus ==
    ASSUME NEW S, IsFiniteSet(S), NEW f, NEW g, NEW h,
           \A x \in S : f[x] \in Int /\ g[x] \in Int /\ h[x] = f[x] + g[x]
    PROVE  SumFunctionOnSet(h, S) = SumFunctionOnSet(f, S) + SumFunctionOnSet(g, S)
<1> DEFINE F(s) == SumFunctionOnSet(f, s)
           G(s) == SumFunctionOnSet(g, s)
           H(s) == SumFunctionOnSet(h, s)
           Q == {T \in SUBSET S : H(T) = F(T) + G(T)}
<1>1. {} \in Q
  BY SumEmpty
<1>2. ASSUME NEW T \in SUBSET S, NEW x \in S \ T, T \in Q PROVE T \union {x} \in Q
  <2>1. /\ F(T \union {x}) = f[x] + F(T)
        /\ G(T \union {x}) = g[x] + G(T)
        /\ H(T \union {x}) = h[x] + H(T)
    BY SumAdd
  <2>2. F(T) \in Int /\ G(T) \in Int
    BY FS_Subset, SumInt
  <2>3. h[x] = f[x] + g[x] /\ f[x] \in Int /\ g[x] \in Int /\ H(T) = F(T) + G(T)
    BY <1>2
  <2> HIDE DEF F, G, H
  <2> QED BY <2>1, <2>2, <2>3
<1>3. S \in Q
  <2> HIDE DEF Q
  <2> QED BY <1>1, <1>2, AddInduction
<1> QED BY <1>3

\* Two sets without a common element.
LEMMA SumUnion ==
    ASSUME NEW A, NEW B, IsFiniteSet(A), IsFiniteSet(B), A \intersect B = {},
           NEW f, \A x \in A \union B : f[x] \in Int
    PROVE  SumFunctionOnSet(f, A \union B) =
             SumFunctionOnSet(f, A) + SumFunctionOnSet(f, B)
<1> DEFINE Sum(s) == SumFunctionOnSet(f, s)
           Q == {T \in SUBSET B : Sum(A \union T) = Sum(A) + Sum(T)}
<1>0. Sum(A) \in Int
  BY SumInt
<1>1. {} \in Q
  <2>1. A \union {} = A
    OBVIOUS
  <2> QED BY <2>1, <1>0, SumEmpty
<1>2. ASSUME NEW T \in SUBSET B, NEW x \in B \ T, T \in Q PROVE T \union {x} \in Q
  <2>1. IsFiniteSet(A \union B) /\ IsFiniteSet(T)
    BY FS_Union, FS_Subset
  <2>2. A \union T \in SUBSET (A \union B) /\ x \in (A \union B) \ (A \union T)
    OBVIOUS
  <2>3. Sum((A \union T) \union {x}) = f[x] + Sum(A \union T)
    <3> DEFINE V == A \union B
               W == A \union T
    <3>1. IsFiniteSet(V) /\ W \in SUBSET V /\ x \in V \ W /\ \A y \in V : f[y] \in Int
      BY <2>1, <2>2
    <3>2. SumFunctionOnSet(f, W \union {x}) = f[x] + SumFunctionOnSet(f, W)
      <4> HIDE DEF V, W
      <4> QED BY <3>1, SumAdd
    <3> QED BY <3>2
  <2>4. Sum(T \union {x}) = f[x] + Sum(T)
    BY SumAdd
  <2>5. Sum(T) \in Int /\ f[x] \in Int
    BY <2>1, SumInt
  <2>6. A \union (T \union {x}) = (A \union T) \union {x}
    OBVIOUS
  <2>7. Sum(A \union T) = Sum(A) + Sum(T)
    BY <1>2
  <2> HIDE DEF Sum
  <2>8. Sum(A \union (T \union {x})) = f[x] + (Sum(A) + Sum(T))
    BY <2>3, <2>6, <2>7
  <2>9. Sum(A \union (T \union {x})) = Sum(A) + Sum(T \union {x})
    BY <2>8, <2>4, <2>5, <1>0
  <2> QED BY <2>9
<1>3. B \in Q
  <2> HIDE DEF Q
  <2> QED BY <1>1, <1>2, AddInduction
<1> QED BY <1>3

\* A part of the terms is no more than all of them, when none is negative.
LEMMA SumSubset ==
    ASSUME NEW S, IsFiniteSet(S), NEW f, \A x \in S : f[x] \in Nat, NEW T \in SUBSET S
    PROVE  SumFunctionOnSet(f, T) <= SumFunctionOnSet(f, S)
<1> DEFINE R == S \ T
<1>1. IsFiniteSet(T) /\ IsFiniteSet(R) /\ T \intersect R = {} /\ T \union R = S
  BY FS_Subset
<1>2. SumFunctionOnSet(f, T) \in Nat /\ SumFunctionOnSet(f, R) \in Nat
  BY <1>1, SumNat
<1> HIDE DEF R
<1>3. SumFunctionOnSet(f, T \union R) = SumFunctionOnSet(f, T) + SumFunctionOnSet(f, R)
  <2>1. \A x \in T \union R : f[x] \in Int
    BY <1>1
  <2> QED BY <1>1, <2>1, SumUnion
<1> DEFINE a == SumFunctionOnSet(f, T)
           b == SumFunctionOnSet(f, R)
<1>4. SumFunctionOnSet(f, S) = a + b /\ a \in Nat /\ b \in Nat
  BY <1>1, <1>2, <1>3
<1> HIDE DEF a, b
<1>5. a <= SumFunctionOnSet(f, S)
  BY <1>4
<1> QED BY <1>5 DEF a

-----------------------------------------------------------------------------
(* Products and quotients.                                                 *)

\* The quotient of natural numbers.
LEMMA Quotient ==
    ASSUME NEW n \in Nat, NEW d \in Nat \ {0}
    PROVE  /\ n \div d \in Nat
           /\ d * (n \div d) <= n
           /\ n < d * (n \div d) + d
           /\ n = d * (n \div d) + (n % d)
           /\ n % d \in 0 .. d - 1
  <1>1. n \div d \in Int
    OBVIOUS
  <1>2. n % d \in 0 .. d - 1
    OBVIOUS
  <1>3. n = d * (n \div d) + (n % d)
    OBVIOUS
  <1>4. n \div d \in Nat
    OBVIOUS
  <1> DEFINE x == d * (n \div d)
             y == n % d
  <1>5. x \in Int /\ y \in 0 .. d - 1 /\ n = x + y
    BY <1>1, <1>2, <1>3
  <1> HIDE DEF x, y
  <1>6. x <= n /\ n < x + d
    BY <1>5
  <1> QED BY <1>2, <1>3, <1>4, <1>6 DEF x

\* Products keep the order.
LEMMA Monotone ==
    ASSUME NEW d \in Nat, NEW a \in Int, NEW b \in Int, a <= b
    PROVE  d * a <= d * b
  OBVIOUS

\* The quotient is the only number with its bounds.
LEMMA OneQuotient ==
    ASSUME NEW n \in Nat, NEW d \in Nat \ {0}, NEW q \in Int, d * q <= n, n < d * q + d
    PROVE  q = n \div d
  <1> DEFINE p == n \div d
  <1>1. p \in Nat /\ d * p <= n /\ n < d * p + d
    BY Quotient
  <1> HIDE DEF p
  <1>2. ASSUME q + 1 <= p PROVE FALSE
    <2>1. d * (q + 1) <= d * p
      BY <1>1, <1>2, Monotone
    <2>2. d * (q + 1) = d * q + d
      OBVIOUS
    <2>3. d * q \in Int /\ d * p \in Int
      BY <1>1
    <2> QED BY <1>1, <2>1, <2>2, <2>3
  <1>3. ASSUME p + 1 <= q PROVE FALSE
    <2>1. d * (p + 1) <= d * q
      BY <1>1, <1>3, Monotone
    <2>2. d * (p + 1) = d * p + d
      BY <1>1
    <2>3. d * q \in Int /\ d * p \in Int
      BY <1>1
    <2> QED BY <1>1, <2>1, <2>2, <2>3
  <1>4. q = p
    BY <1>1, <1>2, <1>3
  <1> QED BY <1>4 DEF p

\* A larger number has no smaller quotient.
LEMMA QuotientsInOrder ==
    ASSUME NEW n \in Nat, NEW m \in Nat, NEW d \in Nat \ {0}, n <= m
    PROVE  n \div d <= m \div d
  <1> DEFINE p == n \div d
             q == m \div d
  <1>1. p \in Nat /\ q \in Nat /\ d * p <= n /\ m < d * q + d
    BY Quotient
  <1> HIDE DEF p, q
  <1>2. ASSUME q + 1 <= p PROVE FALSE
    <2>1. d * (q + 1) <= d * p
      BY <1>1, <1>2, Monotone
    <2>2. d * (q + 1) = d * q + d
      BY <1>1
    <2>3. d * q \in Int /\ d * p \in Int
      BY <1>1
    <2> QED BY <1>1, <2>1, <2>2, <2>3
  <1>3. p <= q
    BY <1>1, <1>2
  <1> QED BY <1>3 DEF p, q

\* A factor can be taken away.
LEMMA Cancel ==
    ASSUME NEW d \in Nat \ {0}, NEW x \in Int, NEW y \in Int, d * x < d * y
    PROVE  x < y
  <1>1. ASSUME y <= x PROVE FALSE
    <2>1. d * y <= d * x /\ d * x \in Int /\ d * y \in Int
      BY <1>1, Monotone
    <2> QED BY <2>1
  <1> QED BY <1>1
=============================================================================
