---------------------------- MODULE SumTheorems ----------------------------
(***************************************************************************)
(* Facts about SumFunction and SumFunctionOnSet of the community module    *)
(* Functions, for sums of integers over finite sets.  They are stated for  *)
(* functions, not operators, so that the provers can instantiate them.     *)
(*                                                                         *)
(* Induction is over sets: a set of numbers, or a family of subsets, that  *)
(* is closed under the induction step is everything.                       *)
(***************************************************************************)
EXTENDS Functions, Integers, FiniteSets, FiniteSetTheorems, WellFoundedInduction, TLAPS

\* A set of natural numbers with 0 and all successors is all of them.
LEMMA NumbersInduction ==
  ASSUME NEW P \in SUBSET Nat, 0 \in P, \A n \in P : n + 1 \in P
  PROVE  P = Nat
<1> DEFINE R == OpToRel(<, Nat)
           T == Nat \ P
<1>1. \A m, n \in Nat : <<m, n>> \in R <=> m < n
  BY DEF OpToRel
<1>2. SUFFICES ASSUME T # {} PROVE FALSE
  OBVIOUS
<1>3. IsWellFoundedOn(R, Nat) /\ T \subseteq Nat
  BY NatLessThanWellFounded
<1> HIDE DEF R
<1>4. PICK x \in T : \A y \in T : ~(<<y, x>> \in R)
  <2> HIDE DEF T
  <2> QED
    BY <1>2, <1>3, WFMin
<1>5. x \in Nat /\ x # 0
  OBVIOUS
<1>6. x - 1 \in Nat /\ x - 1 < x /\ (x - 1) + 1 = x
  BY <1>5
<1>7. x - 1 \in T
  BY <1>6
<1> QED
  BY <1>1, <1>4, <1>5, <1>6, <1>7

\* A family of subsets of a finite set that has every subset whenever it has all
\* those with one element less has them all.
LEMMA SubsetInduction ==
  ASSUME NEW S, IsFiniteSet(S), NEW F \in SUBSET (SUBSET S),
         \A T \in SUBSET S : (\A x \in T : T \ {x} \in F) => T \in F
  PROVE  F = SUBSET S
<1> DEFINE P == {n \in Nat : \A T \in SUBSET S : Cardinality(T) = n => T \in F}
<1>1. \A T \in SUBSET S : IsFiniteSet(T) /\ Cardinality(T) \in Nat
  BY FS_Subset, FS_CardinalityType
<1>2. 0 \in P
  BY <1>1, FS_EmptySet
<1>3. ASSUME NEW n \in P PROVE n + 1 \in P
  <2>1. SUFFICES ASSUME NEW T \in SUBSET S, Cardinality(T) = n + 1 PROVE T \in F
    OBVIOUS
  <2>2. ASSUME NEW x \in T PROVE T \ {x} \in F
    <3>1. T \ {x} \in SUBSET S /\ Cardinality(T \ {x}) = n
      BY <1>1, <2>1, FS_RemoveElement
    <3> QED
      BY <3>1
  <2> QED
    BY <2>2
<1>4. P = Nat
  <2>1. P \in SUBSET Nat
    OBVIOUS
  <2> HIDE DEF P
  <2> QED
    BY <1>2, <1>3, <2>1, NumbersInduction
<1> QED
  BY <1>1, <1>4
-----------------------------------------------------------------------------
(* The sum is well defined.                                                *)

Some(s) == CHOOSE x \in s : TRUE

\* What the recursion behind the sum says of the function h of subsets of S.
Unfolded(f, S, h) ==
  [s \in SUBSET S |-> IF s = {} THEN 0 ELSE f[Some(s)] + h[s \ {Some(s)}]]

Parts(f, S) == CHOOSE h : h = Unfolded(f, S, h)

\* The sum is what the recursion says of the whole set.
LEMMA SumIsPart ==
  ASSUME NEW f, NEW S
  PROVE  SumFunctionOnSet(f, S) = Parts(f, S)[S]
BY DEF SumFunctionOnSet, FoldFunctionOnSet, MapThenFoldSet, Parts, Unfolded, Some

\* Over a finite set there is a function that satisfies the recursion.
LEMMA PartsExist ==
  ASSUME NEW f, NEW S, IsFiniteSet(S)
  PROVE  Parts(f, S) = Unfolded(f, S, Parts(f, S))
<1> DEFINE Right(h, n) ==
             \A s \in SUBSET S : Cardinality(s) <= n => h[s] = Unfolded(f, S, h)[s]
           P == {n \in Nat : \E h : h = [s \in SUBSET S |-> h[s]] /\ Right(h, n)}
<1>1. \A s \in SUBSET S : IsFiniteSet(s) /\ Cardinality(s) \in Nat
  BY FS_Subset, FS_CardinalityType
<1>2. 0 \in P
  <2> DEFINE h == [s \in SUBSET S |-> 0]
  <2>1. ASSUME NEW s \in SUBSET S, Cardinality(s) <= 0 PROVE h[s] = Unfolded(f, S, h)[s]
    <3>1. s = {}
      BY <1>1, <2>1, FS_EmptySet
    <3> QED
      BY <3>1 DEF Unfolded
  <2>2. h = [s \in SUBSET S |-> h[s]]
    OBVIOUS
  <2> HIDE DEF h
  <2> QED
    BY <2>1, <2>2
<1>3. ASSUME NEW n \in P PROVE n + 1 \in P
  <2>1. PICK h : h = [s \in SUBSET S |-> h[s]] /\ Right(h, n)
    OBVIOUS
  <2> DEFINE g == Unfolded(f, S, h)
  <2>2. g = [s \in SUBSET S |-> g[s]]
    BY DEF Unfolded
  <2>3. ASSUME NEW s \in SUBSET S, Cardinality(s) <= n + 1
        PROVE  g[s] = Unfolded(f, S, g)[s]
    <3>1. CASE s = {}
      BY <3>1 DEF Unfolded
    <3>2. CASE s # {}
      <4> DEFINE r == s \ {Some(s)}
      <4>1. Some(s) \in s
        BY <3>2 DEF Some
      <4>2. r \in SUBSET S /\ Cardinality(r) = Cardinality(s) - 1
        BY <1>1, <4>1, FS_RemoveElement
      <4>3. Cardinality(r) <= n
        BY <1>1, <2>3, <4>2
      <4>4. h[r] = g[r]
        BY <2>1, <4>2, <4>3
      <4>5. g[s] = f[Some(s)] + h[r]
        BY <3>2 DEF Unfolded
      <4>6. Unfolded(f, S, g)[s] = f[Some(s)] + g[r]
        <5> HIDE DEF g
        <5> QED
          BY <3>2 DEF Unfolded
      <4> QED
        BY <4>4, <4>5, <4>6
    <3> QED
      BY <3>1, <3>2
  <2>4. Right(g, n + 1)
    BY <2>3
  <2> HIDE DEF g, Right
  <2> QED
    BY <2>2, <2>4
<1>4. P = Nat
  <2> HIDE DEF P
  <2>1. P \in SUBSET Nat
    BY DEF P
  <2> QED
    BY <1>2, <1>3, <2>1, NumbersInduction
<1>5. Cardinality(S) \in P
  BY <1>1, <1>4
<1>6. PICK h : h = [s \in SUBSET S |-> h[s]] /\ Right(h, Cardinality(S))
  BY <1>5
<1>7. \A s \in SUBSET S : h[s] = Unfolded(f, S, h)[s]
  <2>1. \A s \in SUBSET S : Cardinality(s) <= Cardinality(S)
    BY FS_Subset
  <2> QED
    BY <1>6, <2>1
<1>8. h = Unfolded(f, S, h)
  BY <1>6, <1>7 DEF Unfolded
<1> QED
  BY <1>8 DEF Parts

\* So each part of the sum is computed from a smaller one.
LEMMA Part ==
  ASSUME NEW f, NEW S, IsFiniteSet(S), NEW s \in SUBSET S
  PROVE  Parts(f, S)[s] = IF s = {} THEN 0 ELSE f[Some(s)] + Parts(f, S)[s \ {Some(s)}]
<1>1. Unfolded(f, S, Parts(f, S))[s]
        = IF s = {} THEN 0 ELSE f[Some(s)] + Parts(f, S)[s \ {Some(s)}]
  BY DEF Unfolded
<1> QED
  BY <1>1, PartsExist

\* The parts of the sum of a set are those of the sum of a subset.
LEMMA PartOfSubset ==
  ASSUME NEW f, NEW S, IsFiniteSet(S), NEW T \in SUBSET S
  PROVE  Parts(f, S)[T] = SumFunctionOnSet(f, T)
<1> DEFINE F == {s \in SUBSET T : Parts(f, S)[s] = Parts(f, T)[s]}
<1>1. IsFiniteSet(T)
  BY FS_Subset
<1>2. ASSUME NEW s \in SUBSET T, \A x \in s : s \ {x} \in F PROVE s \in F
  <2>1. s # {} => Some(s) \in s
    BY DEF Some
  <2>2. s # {} => s \ {Some(s)} \in F
    BY <1>2, <2>1
  <2> QED
    BY <1>1, <2>2, Part
<1>3. F \in SUBSET (SUBSET T)
  OBVIOUS
<1>4. F = SUBSET T
  <2> HIDE DEF F
  <2> QED
    BY <1>1, <1>2, <1>3, SubsetInduction
<1>5. Parts(f, S)[T] = Parts(f, T)[T]
  BY <1>4
<1> QED
  BY <1>5, SumIsPart

\* The sum is that of one element, some chosen one, and of the others.
LEMMA SumUnfolded ==
  ASSUME NEW f, NEW S, IsFiniteSet(S)
  PROVE  SumFunctionOnSet(f, S)
           = IF S = {} THEN 0 ELSE f[Some(S)] + SumFunctionOnSet(f, S \ {Some(S)})
<1>1. Parts(f, S)[S] = IF S = {} THEN 0 ELSE f[Some(S)] + Parts(f, S)[S \ {Some(S)}]
  BY Part
<1>2. S \ {Some(S)} \in SUBSET S
  OBVIOUS
<1> QED
  BY <1>1, <1>2, PartOfSubset

\* The sum over nothing is 0.
LEMMA SumOnEmpty ==
  ASSUME NEW f
  PROVE  SumFunctionOnSet(f, {}) = 0
BY SumUnfolded, FS_EmptySet
-----------------------------------------------------------------------------
(* Sums of integers.                                                       *)

\* A finite sum of integers is an integer.
LEMMA SumOnType ==
  ASSUME NEW S, IsFiniteSet(S), NEW f, \A x \in S : f[x] \in Int
  PROVE  SumFunctionOnSet(f, S) \in Int
<1> DEFINE F == {T \in SUBSET S : SumFunctionOnSet(f, T) \in Int}
<1>1. ASSUME NEW T \in SUBSET S, \A x \in T : T \ {x} \in F PROVE T \in F
  <2>1. IsFiniteSet(T)
    BY FS_Subset
  <2>2. T # {} => Some(T) \in T
    BY DEF Some
  <2>3. CASE T = {}
    BY <2>3, SumOnEmpty
  <2>4. CASE T # {}
    <3>1. SumFunctionOnSet(f, T) = f[Some(T)] + SumFunctionOnSet(f, T \ {Some(T)})
      BY <2>1, <2>4, SumUnfolded
    <3>2. f[Some(T)] \in Int /\ SumFunctionOnSet(f, T \ {Some(T)}) \in Int
      BY <1>1, <2>2, <2>4
    <3> QED
      BY <3>1, <3>2
  <2> QED
    BY <2>3, <2>4
<1>2. F \in SUBSET (SUBSET S)
  OBVIOUS
<1>3. F = SUBSET S
  <2> HIDE DEF F
  <2> QED
    BY <1>1, <1>2, SubsetInduction
<1> QED
  BY <1>3

\* Any element may be taken out of the sum.
LEMMA SumOnRemove ==
  ASSUME NEW S, IsFiniteSet(S), NEW f, \A x \in S : f[x] \in Int, NEW y \in S
  PROVE  SumFunctionOnSet(f, S) = f[y] + SumFunctionOnSet(f, S \ {y})
<1> DEFINE Sum(T) == SumFunctionOnSet(f, T)
           F == {T \in SUBSET S : \A x \in T : Sum(T) = f[x] + Sum(T \ {x})}
<1>1. ASSUME NEW T \in SUBSET S PROVE IsFiniteSet(T) /\ Sum(T) \in Int
  BY FS_Subset, SumOnType
<1>2. ASSUME NEW T \in SUBSET S, \A x \in T : T \ {x} \in F PROVE T \in F
  <2>1. SUFFICES ASSUME NEW x \in T PROVE Sum(T) = f[x] + Sum(T \ {x})
    OBVIOUS
  <2> DEFINE c == Some(T)
             U == T \ {c}
  <2>2. c \in T
    BY DEF Some
  <2>3. Sum(T) = f[c] + Sum(U)
    BY <1>1, SumUnfolded
  <2>4. CASE x = c
    BY <2>3, <2>4
  <2>5. CASE x # c
    <3>1. Sum(U) = f[x] + Sum(U \ {x})
      <4>1. U \in F /\ x \in U
        BY <1>2, <2>2, <2>5
      <4> QED
        BY <4>1
    <3> DEFINE V == T \ {x}
    <3>2. U \ {x} = V \ {c}
      OBVIOUS
    <3>3. V \in F /\ c \in V
      BY <1>2, <2>2, <2>5
    <3>4. Sum(V) = f[c] + Sum(V \ {c})
      BY <3>3
    <3>5. U \in SUBSET S /\ V \in SUBSET S /\ V \ {c} \in SUBSET S
      OBVIOUS
    <3> QED
      <4>1. /\ f[x] \in Int /\ f[c] \in Int
            /\ Sum(U) \in Int /\ Sum(V) \in Int /\ Sum(V \ {c}) \in Int /\ Sum(T) \in Int
        BY <1>1, <2>2, <3>5
      <4>2. Sum(U \ {x}) = Sum(V \ {c})
        BY <3>2
      <4> HIDE DEF Sum
      <4> QED
        BY <2>3, <3>1, <3>4, <4>1, <4>2
  <2> QED
    BY <2>4, <2>5
<1>3. F \in SUBSET (SUBSET S)
  OBVIOUS
<1>4. F = SUBSET S
  <2> HIDE DEF F
  <2> QED
    BY <1>2, <1>3, SubsetInduction
<1> QED
  BY <1>4

\* Functions that agree on a set have the same sum over it.
LEMMA SumOnEqual ==
  ASSUME NEW S, IsFiniteSet(S), NEW f, NEW g, \A x \in S : f[x] = g[x]
  PROVE  SumFunctionOnSet(f, S) = SumFunctionOnSet(g, S)
<1> DEFINE F == {T \in SUBSET S : SumFunctionOnSet(f, T) = SumFunctionOnSet(g, T)}
<1>1. ASSUME NEW T \in SUBSET S, \A x \in T : T \ {x} \in F PROVE T \in F
  <2>1. IsFiniteSet(T)
    BY FS_Subset
  <2>2. CASE T = {}
    BY <2>2, SumOnEmpty
  <2>3. CASE T # {}
    <3>1. Some(T) \in T
      BY <2>3 DEF Some
    <3>2. /\ f[Some(T)] = g[Some(T)]
          /\ SumFunctionOnSet(f, T \ {Some(T)}) = SumFunctionOnSet(g, T \ {Some(T)})
      BY <1>1, <3>1
    <3>3. /\ SumFunctionOnSet(f, T) = f[Some(T)] + SumFunctionOnSet(f, T \ {Some(T)})
          /\ SumFunctionOnSet(g, T) = g[Some(T)] + SumFunctionOnSet(g, T \ {Some(T)})
      BY <2>1, <2>3, SumUnfolded
    <3> QED
      BY <3>2, <3>3
  <2> QED
    BY <2>2, <2>3
<1>2. F \in SUBSET (SUBSET S)
  OBVIOUS
<1>3. F = SUBSET S
  <2> HIDE DEF F
  <2> QED
    BY <1>1, <1>2, SubsetInduction
<1> QED
  BY <1>3
-----------------------------------------------------------------------------
(* The sum of a function over its whole domain.                            *)

\* A sum of integers is an integer.
LEMMA SumType ==
  ASSUME NEW S, IsFiniteSet(S), NEW f \in [S -> Int]
  PROVE  SumFunction(f) \in Int
BY SumOnType DEF SumFunction

\* Changing the function in one place changes the sum by as much.
LEMMA SumChanged ==
  ASSUME NEW S, IsFiniteSet(S), NEW f \in [S -> Int], NEW g \in [S -> Int], NEW y \in S,
         \A x \in S : x # y => g[x] = f[x]
  PROVE  SumFunction(g) = SumFunction(f) + (g[y] - f[y])
<1>1. IsFiniteSet(S \ {y})
  BY FS_RemoveElement
<1>2. SumFunctionOnSet(f, S \ {y}) = SumFunctionOnSet(g, S \ {y})
  BY <1>1, SumOnEqual
<1>3. /\ SumFunction(f) = f[y] + SumFunctionOnSet(f, S \ {y})
      /\ SumFunction(g) = g[y] + SumFunctionOnSet(g, S \ {y})
  BY SumOnRemove DEF SumFunction
<1>4. SumFunctionOnSet(f, S \ {y}) \in Int
  BY <1>1, SumOnType
<1>5. f[y] \in Int /\ g[y] \in Int
  OBVIOUS
<1> QED
  BY <1>2, <1>3, <1>4, <1>5

\* A sum of zeros is 0.
LEMMA SumOfZeros ==
  ASSUME NEW S, IsFiniteSet(S), NEW f \in [S -> {0}]
  PROVE  SumFunction(f) = 0
<1> DEFINE F == {T \in SUBSET S : SumFunctionOnSet(f, T) = 0}
<1>1. ASSUME NEW T \in SUBSET S, \A x \in T : T \ {x} \in F PROVE T \in F
  <2>1. IsFiniteSet(T)
    BY FS_Subset
  <2>2. CASE T = {}
    BY <2>2, SumOnEmpty
  <2>3. CASE T # {}
    <3>1. Some(T) \in T
      BY <2>3 DEF Some
    <3>2. f[Some(T)] = 0 /\ SumFunctionOnSet(f, T \ {Some(T)}) = 0
      BY <1>1, <3>1
    <3> QED
      BY <2>1, <2>3, <3>2, SumUnfolded
  <2> QED
    BY <2>2, <2>3
<1>2. F \in SUBSET (SUBSET S)
  OBVIOUS
<1>3. F = SUBSET S
  <2> HIDE DEF F
  <2> QED
    BY <1>1, <1>2, SubsetInduction
<1> QED
  BY <1>3 DEF SumFunction

\* A sum of natural numbers is one, and none of them exceeds it.
LEMMA SumOfNaturals ==
  ASSUME NEW S, IsFiniteSet(S), NEW f \in [S -> Nat]
  PROVE  /\ SumFunction(f) \in Nat
         /\ \A x \in S : f[x] <= SumFunction(f)
<1> DEFINE F == {T \in SUBSET S : SumFunctionOnSet(f, T) \in Nat}
<1>1. ASSUME NEW T \in SUBSET S, \A x \in T : T \ {x} \in F PROVE T \in F
  <2>1. IsFiniteSet(T)
    BY FS_Subset
  <2>2. CASE T = {}
    BY <2>2, SumOnEmpty
  <2>3. CASE T # {}
    <3>1. Some(T) \in T
      BY <2>3 DEF Some
    <3>2. f[Some(T)] \in Nat /\ SumFunctionOnSet(f, T \ {Some(T)}) \in Nat
      BY <1>1, <3>1
    <3>3. f[Some(T)] + SumFunctionOnSet(f, T \ {Some(T)}) \in Nat
      BY <3>2
    <3> QED
      BY <2>1, <2>3, <3>3, SumUnfolded
  <2> QED
    BY <2>2, <2>3
<1>2. F \in SUBSET (SUBSET S)
  OBVIOUS
<1>3. F = SUBSET S
  <2> HIDE DEF F
  <2> QED
    BY <1>1, <1>2, SubsetInduction
<1>4. SumFunction(f) \in Nat
  BY <1>3 DEF SumFunction
<1>5. ASSUME NEW x \in S PROVE f[x] <= SumFunction(f)
  <2>1. SumFunction(f) = f[x] + SumFunctionOnSet(f, S \ {x})
    BY SumOnRemove DEF SumFunction
  <2>2. S \ {x} \in F
    BY <1>3
  <2>3. SumFunctionOnSet(f, S \ {x}) \in Nat /\ f[x] \in Nat
    BY <2>2
  <2> QED
    BY <2>1, <2>3
<1> QED
  BY <1>4, <1>5

\* A sum is no greater than another if none of its terms is.
LEMMA SumsOrdered ==
  ASSUME NEW S, IsFiniteSet(S), NEW f \in [S -> Int], NEW g \in [S -> Int],
         \A x \in S : f[x] <= g[x]
  PROVE  SumFunction(f) <= SumFunction(g)
<1> DEFINE F == {T \in SUBSET S : SumFunctionOnSet(f, T) <= SumFunctionOnSet(g, T)}
<1>1. ASSUME NEW T \in SUBSET S, \A x \in T : T \ {x} \in F PROVE T \in F
  <2>1. IsFiniteSet(T)
    BY FS_Subset
  <2>2. CASE T = {}
    BY <2>2, SumOnEmpty
  <2>3. CASE T # {}
    <3>1. Some(T) \in T
      BY <2>3 DEF Some
    <3>2. IsFiniteSet(T \ {Some(T)}) /\ T \ {Some(T)} \subseteq S
      BY <2>1, FS_Subset
    <3>3. PICK a \in Int, b \in Int, c \in Int, d \in Int :
            /\ a = f[Some(T)] /\ b = g[Some(T)]
            /\ c = SumFunctionOnSet(f, T \ {Some(T)}) /\ d = SumFunctionOnSet(g, T \ {Some(T)})
      BY <3>1, <3>2, SumOnType
    <3>4. a <= b /\ c <= d
      BY <1>1, <3>1, <3>3
    <3>5. SumFunctionOnSet(f, T) = a + c /\ SumFunctionOnSet(g, T) = b + d
      BY <2>1, <2>3, <3>3, SumUnfolded
    <3>6. a + c <= b + d
      BY <3>4
    <3> QED
      BY <3>5, <3>6
  <2> QED
    BY <2>2, <2>3
<1>2. F \in SUBSET (SUBSET S)
  OBVIOUS
<1>3. F = SUBSET S
  <2> HIDE DEF F
  <2> QED
    BY <1>1, <1>2, SubsetInduction
<1> QED
  BY <1>3 DEF SumFunction
=============================================================================
