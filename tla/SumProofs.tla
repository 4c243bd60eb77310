------------------------------- MODULE SumProofs -------------------------------
(***************************************************************************)
(* Sums over finite sets, as the models take them from the community       *)
(* modules: what a recursive fold adds up to does not depend on the order  *)
(* in which it picks the elements.  The induction is over a set of natural *)
(* numbers, or of subsets, with a least counterexample.                    *)
(***************************************************************************)
EXTENDS Integers, FiniteSets, FiniteSetsExt, FiniteSetTheorems,
        WellFoundedInduction, TLAPS

(* The sum of the values f takes on the elements of S. *)
Sum(f, S) == MapThenSumSet(LAMBDA x : f[x], S)

(* A set of naturals has a least element.                                    *)
LEMMA LeastNat ==
    ASSUME NEW T, T \subseteq Nat, T # {}
    PROVE  \E x \in T : \A y \in T : x <= y
<1> DEFINE R == OpToRel(<, Nat)
<1>1. IsWellFoundedOn(R, Nat)
  BY NatLessThanWellFounded
<1>2. \A x, y \in Nat : y < x => <<y, x>> \in R
  BY DEF OpToRel
<1> HIDE DEF R
<1>3. PICK x \in T : \A y \in T : <<y, x>> \notin R
  BY <1>1, WFMin
<1>4. ASSUME NEW y \in T PROVE x <= y
  <2>1. x \in Nat /\ y \in Nat
    OBVIOUS
  <2>2. ~(y < x)
    BY <1>2, <1>3, <2>1
  <2> QED BY <2>1, <2>2
<1> QED BY <1>4

(* A set of numbers with 0 and the successor of each of its numbers is all   *)
(* of them.                                                                  *)
LEMMA AllNumbers ==
    ASSUME NEW N, 0 \in N, \A n \in Nat : n \in N => n + 1 \in N
    PROVE  \A n \in Nat : n \in N
<1> SUFFICES ASSUME Nat \ N # {} PROVE FALSE
  OBVIOUS
<1>1. PICK m \in Nat \ N : \A y \in Nat \ N : m <= y
  BY LeastNat
<1>2. m # 0 /\ m - 1 \in Nat /\ ~(m <= m - 1)
  BY <1>1
<1>3. m - 1 \in N /\ (m - 1) + 1 = m
  BY <1>1, <1>2
<1> QED BY <1>1, <1>2, <1>3

(* What holds of a finite set whenever it holds of its proper subsets holds  *)
(* of every finite set.                                                      *)
LEMMA AllSubsets ==
    ASSUME NEW U, IsFiniteSet(U), NEW G,
           \A s \in SUBSET U : (\A t \in SUBSET s : t # s => t \in G) => s \in G
    PROVE  \A s \in SUBSET U : s \in G
<1> DEFINE N == {n \in Nat : \A s \in SUBSET U : Cardinality(s) <= n => s \in G}
<1>1. \A s \in SUBSET U : IsFiniteSet(s) /\ Cardinality(s) \in Nat
  BY FS_Subset, FS_CardinalityType
<1>2. \A s \in SUBSET U : \A t \in SUBSET s :
         t # s => Cardinality(t) < Cardinality(s) /\ t \in SUBSET U
  <2> SUFFICES ASSUME NEW s \in SUBSET U, NEW t \in SUBSET s, t # s
               PROVE  Cardinality(t) < Cardinality(s) /\ t \in SUBSET U
    OBVIOUS
  <2>1. IsFiniteSet(s) /\ Cardinality(s) \in Nat /\ Cardinality(t) \in Nat
    BY <1>1
  <2>2. Cardinality(t) <= Cardinality(s) /\ Cardinality(t) # Cardinality(s)
    BY <2>1, FS_Subset
  <2> QED BY <2>1, <2>2
<1>3. 0 \in N
  <2> SUFFICES ASSUME NEW s \in SUBSET U, Cardinality(s) <= 0 PROVE s \in G
    OBVIOUS
  <2>1. \A t \in SUBSET s : t # s => FALSE
    BY <1>1, <1>2
  <2> QED BY <2>1
<1>4. ASSUME NEW n \in Nat, n \in N PROVE n + 1 \in N
  <2> SUFFICES ASSUME NEW s \in SUBSET U, Cardinality(s) <= n + 1 PROVE s \in G
    OBVIOUS
  <2>1. ASSUME NEW t \in SUBSET s, t # s PROVE t \in G
    <3>1. Cardinality(t) < Cardinality(s) /\ t \in SUBSET U
      BY <1>2, <2>1
    <3>2. Cardinality(t) <= n
      BY <1>1, <3>1
    <3> QED BY <1>4, <3>1, <3>2
  <2> QED BY <2>1
<1>5. \A n \in Nat : n \in N
  <2> HIDE DEF N
  <2> QED BY <1>3, <1>4, AllNumbers
<1> SUFFICES ASSUME NEW s \in SUBSET U PROVE s \in G
  OBVIOUS
<1>6. Cardinality(s) \in N /\ Cardinality(s) <= Cardinality(s)
  BY <1>1, <1>5
<1> QED BY <1>6

-------------------------------------------------------------------------------
(* The fold. *)

(* The element a fold takes next, and the equation it is the solution of.    *)
Picked(s) == CHOOSE x \in s : TRUE
Adds(f, g, s) == IF s = {} THEN 0 ELSE f[Picked(s)] + g[s \ {Picked(s)}]
Sums(f, U, g) == g = [s \in SUBSET U |-> Adds(f, g, s)]

(* The fold takes an element of the set.                                     *)
LEMMA PickedIn == ASSUME NEW s, s # {} PROVE Picked(s) \in s
<1> QED BY DEF Picked

(* There is a solution: set by set, in the order of their sizes.             *)
LEMMA SumsExist ==
    ASSUME NEW U, IsFiniteSet(U), NEW f, \A x \in U : f[x] \in Int
    PROVE  \E g \in [SUBSET U -> Int] : Sums(f, U, g)
<1> DEFINE Upto(g, n) == \A s \in SUBSET U : Cardinality(s) <= n => g[s] = Adds(f, g, s)
<1> DEFINE N == {n \in Nat : \E g \in [SUBSET U -> Int] : Upto(g, n)}
<1>1. \A s \in SUBSET U : IsFiniteSet(s) /\ Cardinality(s) \in Nat
  BY FS_Subset, FS_CardinalityType
<1>2. \A s \in SUBSET U : s # {} =>
         /\ Picked(s) \in U /\ s \ {Picked(s)} \in SUBSET U
         /\ Cardinality(s \ {Picked(s)}) = Cardinality(s) - 1
  BY <1>1, PickedIn, FS_RemoveElement
<1>3. 0 \in N
  <2> DEFINE g == [s \in SUBSET U |-> 0]
  <2>1. \A s \in SUBSET U : Cardinality(s) <= 0 => s = {}
    BY <1>1, FS_EmptySet
  <2>2. g \in [SUBSET U -> Int] /\ Upto(g, 0)
    BY <2>1 DEF Adds
  <2> QED BY <2>2
<1>4. ASSUME NEW n \in Nat, n \in N PROVE n + 1 \in N
  <2>1. PICK g \in [SUBSET U -> Int] : Upto(g, n)
    BY <1>4
  <2> DEFINE h == [s \in SUBSET U |-> IF Cardinality(s) <= n THEN g[s] ELSE Adds(f, g, s)]
  <2>2. \A s \in SUBSET U : Adds(f, g, s) \in Int
    <3> SUFFICES ASSUME NEW s \in SUBSET U, s # {}
                 PROVE  f[Picked(s)] + g[s \ {Picked(s)}] \in Int
      BY DEF Adds
    <3>1. f[Picked(s)] \in Int /\ g[s \ {Picked(s)}] \in Int
      BY <1>2
    <3> QED BY <3>1
  <2>3. h \in [SUBSET U -> Int]
    BY <2>2
  <2>4. ASSUME NEW s \in SUBSET U, Cardinality(s) <= n + 1 PROVE h[s] = Adds(f, h, s)
    <3>1. h[s] = Adds(f, g, s)
      BY <2>1
    <3>2. CASE s = {}
      BY <3>1, <3>2 DEF Adds
    <3>3. CASE s # {}
      <4>1. s \ {Picked(s)} \in SUBSET U /\ Cardinality(s \ {Picked(s)}) <= n
        BY <1>1, <1>2, <2>4, <3>3
      <4>2. h[s \ {Picked(s)}] = g[s \ {Picked(s)}]
        BY <4>1
      <4> QED BY <3>1, <3>3, <4>2 DEF Adds
    <3> QED BY <3>2, <3>3
  <2> HIDE DEF h
  <2>5. Upto(h, n + 1)
    BY <2>4
  <2> QED BY <2>3, <2>5
<1>5. \A n \in Nat : n \in N
  <2> HIDE DEF N
  <2> QED BY <1>3, <1>4, AllNumbers
<1>6. Cardinality(U) \in N
  BY <1>1, <1>5
<1>7. PICK g \in [SUBSET U -> Int] : Upto(g, Cardinality(U))
  BY <1>6
<1>8. \A s \in SUBSET U : Cardinality(s) <= Cardinality(U)
  BY FS_Subset
<1>9. \A s \in SUBSET U : g[s] = Adds(f, g, s)
  BY <1>7, <1>8
<1>10. g = [s \in SUBSET U |-> Adds(f, g, s)]
  BY <1>7, <1>9
<1> QED BY <1>7, <1>10 DEF Sums

(* Two solutions agree where they are both defined and add the same values.  *)
LEMMA SumsAgree ==
    ASSUME NEW U, NEW V, NEW W, IsFiniteSet(W), W \subseteq U, W \subseteq V,
           NEW f, NEW e, \A x \in W : f[x] = e[x],
           NEW g, NEW h, Sums(f, U, g), Sums(e, V, h)
    PROVE  \A s \in SUBSET W : g[s] = h[s]
<1> DEFINE G == {s \in SUBSET W : g[s] = h[s]}
<1>1. ASSUME NEW s \in SUBSET W, \A t \in SUBSET s : t # s => t \in G PROVE s \in G
  <2>1. g[s] = Adds(f, g, s) /\ h[s] = Adds(e, h, s)
    <3>1. s \in SUBSET U /\ s \in SUBSET V
      OBVIOUS
    <3> QED BY <3>1 DEF Sums
  <2>2. CASE s = {}
    BY <2>1, <2>2 DEF Adds
  <2>3. CASE s # {}
    <3>1. Picked(s) \in s /\ Picked(s) \in W
      BY <2>3, PickedIn
    <3>2. s \ {Picked(s)} \in G
      BY <1>1, <3>1
    <3> QED BY <2>1, <2>3, <3>1, <3>2 DEF Adds
  <2> QED BY <2>2, <2>3
<1>2. \A s \in SUBSET W : s \in G
  <2> HIDE DEF G
  <2> QED BY <1>1, AllSubsets
<1> QED BY <1>2

(* On the subsets of a finite set, Sum is one solution.                      *)
Solves(f, U, g) == /\ g \in [SUBSET U -> Int] /\ Sums(f, U, g)
                   /\ \A S \in SUBSET U : Sum(f, S) = g[S]
(* The fold of a finite set is what the equation says.                       *)
LEMMA SumSolves ==
    ASSUME NEW U, IsFiniteSet(U), NEW f, \A x \in U : f[x] \in Int
    PROVE  \E g : Solves(f, U, g)
<1>1. PICK g \in [SUBSET U -> Int] : Sums(f, U, g)
  BY SumsExist
<1>2. ASSUME NEW S \in SUBSET U PROVE Sum(f, S) = g[S]
  <2> DEFINE it == CHOOSE h : h = [s \in SUBSET S |->
                      IF s = {} THEN 0
                      ELSE f[CHOOSE x \in s : TRUE] + h[s \ {CHOOSE x \in s : TRUE}]]
  <2>1. IsFiniteSet(S) /\ \A x \in S : f[x] \in Int
    BY FS_Subset
  <2>2. \E h : Sums(f, S, h)
    BY <2>1, SumsExist
  <2>3. Sums(f, S, it)
    BY <2>2 DEF Sums, Adds, Picked
  <2>4. Sum(f, S) = it[S]
    BY DEF Sum, MapThenSumSet, MapThenFoldSet
  <2> HIDE DEF it
  <2>5. \A s \in SUBSET S : it[s] = g[s]
    BY <1>1, <2>1, <2>3, SumsAgree
  <2> QED BY <2>4, <2>5
<1> QED BY <1>1, <1>2 DEF Solves

-------------------------------------------------------------------------------
(* What a sum is, without its order. *)

(* Nothing adds up to zero.                                                  *)
LEMMA SumEmpty == ASSUME NEW f PROVE Sum(f, {}) = 0
<1>1. IsFiniteSet({}) /\ \A x \in {} : f[x] \in Int
  BY FS_EmptySet
<1>2. PICK g : Solves(f, {}, g)
  BY <1>1, SumSolves
<1> QED BY <1>2 DEF Solves, Sums, Adds

(* Integers add up to an integer.                                            *)
LEMMA SumInt ==
    ASSUME NEW S, IsFiniteSet(S), NEW f, \A x \in S : f[x] \in Int
    PROVE  Sum(f, S) \in Int
<1>1. PICK g : Solves(f, S, g)
  BY SumSolves
<1> QED BY <1>1 DEF Solves

(* A new element adds its value, whichever element the fold would pick.      *)
LEMMA SumAdd ==
    ASSUME NEW S, IsFiniteSet(S), NEW x, x \notin S,
           NEW f, \A y \in S \cup {x} : f[y] \in Int
    PROVE  Sum(f, S \cup {x}) = Sum(f, S) + f[x]
<1> DEFINE U == S \cup {x}
<1>1. IsFiniteSet(U)
  BY FS_AddElement
<1>2. PICK g : Solves(f, U, g)
  <2> HIDE DEF U
  <2>1. \A y \in U : f[y] \in Int
    BY DEF U
  <2> QED BY <1>1, <2>1, SumSolves
<1> USE DEF Solves
<1> DEFINE G == {s \in SUBSET U : \A y \in U \ s : g[s \cup {y}] = g[s] + f[y]}
<1>3. ASSUME NEW s \in SUBSET U, \A t \in SUBSET s : t # s => t \in G PROVE s \in G
  <2> SUFFICES ASSUME NEW y \in U \ s PROVE g[s \cup {y}] = g[s] + f[y]
    OBVIOUS
  <2> DEFINE c == Picked(s \cup {y})
  <2>1. c \in s \cup {y}
    <3>1. s \cup {y} # {}
      OBVIOUS
    <3> QED BY <3>1, PickedIn
  <2>2. g[s \cup {y}] = f[c] + g[(s \cup {y}) \ {c}]
    <3>1. s \cup {y} \in SUBSET U /\ s \cup {y} # {}
      OBVIOUS
    <3> QED BY <1>2, <3>1 DEF Sums, Adds
  <2> HIDE DEF c
  <2>3. f[y] \in Int /\ f[c] \in Int /\ g[s] \in Int
    BY <1>2, <2>1
  <2>4. CASE c = y
    <3>1. (s \cup {y}) \ {c} = s
      BY <2>4
    <3>2. g[s \cup {y}] = f[y] + g[s]
      BY <2>2, <2>4, <3>1
    <3> QED BY <2>3, <3>2
  <2>5. CASE c # y
    <3>1. c \in s /\ s \ {c} # s /\ s \ {c} \in SUBSET U
      BY <2>1, <2>5
    <3>2. s \ {c} \in G
      BY <1>3, <3>1
    <3>3. (s \cup {y}) \ {c} = (s \ {c}) \cup {y} /\ (s \ {c}) \cup {c} = s
      BY <2>5, <3>1
    <3>4. g[(s \ {c}) \cup {y}] = g[s \ {c}] + f[y]
      BY <3>2
    <3>5. g[(s \ {c}) \cup {c}] = g[s \ {c}] + f[c]
      BY <3>1, <3>2
    <3>6. g[s \ {c}] \in Int
      BY <1>2, <3>1
    <3>7. g[s \cup {y}] = f[c] + (g[s \ {c}] + f[y]) /\ g[s] = g[s \ {c}] + f[c]
      BY <2>2, <3>3, <3>4, <3>5
    <3> QED BY <2>3, <3>6, <3>7
  <2> QED BY <2>4, <2>5
<1>4. \A s \in SUBSET U : s \in G
  <2> HIDE DEF G, U
  <2> QED BY <1>1, <1>3, AllSubsets
<1>5. g[S \cup {x}] = g[S] + f[x]
  BY <1>4
<1> QED BY <1>2, <1>5

(* Only the values on the set count.                                         *)
LEMMA SumSame ==
    ASSUME NEW S, IsFiniteSet(S), NEW f, NEW e,
           \A x \in S : f[x] \in Int /\ e[x] = f[x]
    PROVE  Sum(e, S) = Sum(f, S)
<1>0. \A x \in S : f[x] \in Int /\ e[x] \in Int
  OBVIOUS
<1>1. PICK g : Solves(f, S, g)
  BY <1>0, SumSolves
<1>2. PICK h : Solves(e, S, h)
  BY <1>0, SumSolves
<1>3. \A s \in SUBSET S : g[s] = h[s]
  BY <1>1, <1>2, SumsAgree DEF Solves
<1> QED BY <1>1, <1>2, <1>3 DEF Solves

(* A sum takes any of its elements apart.                                    *)
LEMMA SumTake ==
    ASSUME NEW S, IsFiniteSet(S), NEW x \in S, NEW f, \A y \in S : f[y] \in Int
    PROVE  /\ Sum(f, S) = Sum(f, S \ {x}) + f[x]
           /\ Sum(f, S \ {x}) \in Int
<1>1. IsFiniteSet(S \ {x}) /\ x \notin S \ {x} /\ (S \ {x}) \cup {x} = S
  BY FS_RemoveElement
<1>2. Sum(f, (S \ {x}) \cup {x}) = Sum(f, S \ {x}) + f[x]
  <2>1. \A y \in (S \ {x}) \cup {x} : f[y] \in Int
    BY <1>1
  <2> QED BY <1>1, <2>1, SumAdd
<1>3. Sum(f, S \ {x}) \in Int
  BY <1>1, SumInt
<1> QED BY <1>1, <1>2, <1>3

(* Where no value is negative, a sum is not, and grows with its set.         *)
LEMMA SumGrows ==
    ASSUME NEW T, IsFiniteSet(T), NEW f, \A x \in T : f[x] \in Nat
    PROVE  \A S \in SUBSET T : Sum(f, S) \in Nat /\ Sum(f, S) <= Sum(f, T)
<1> DEFINE G == {s \in SUBSET T : \A S \in SUBSET s :
                    Sum(f, S) \in Nat /\ Sum(f, S) <= Sum(f, s)}
<1>1. ASSUME NEW s \in SUBSET T, \A t \in SUBSET s : t # s => t \in G PROVE s \in G
  <2>0. IsFiniteSet(s) /\ \A x \in s : f[x] \in Int /\ f[x] >= 0
    BY FS_Subset
  <2>1. Sum(f, s) \in Nat
    <3>1. CASE s = {}
      BY <3>1, SumEmpty
    <3>2. CASE s # {}
      <4>1. PICK x \in s : TRUE
        BY <3>2
      <4>2. Sum(f, s \ {x}) \in Nat
        <5>1. s \ {x} \in G
          BY <1>1, <4>1
        <5> QED BY <5>1
      <4>3. Sum(f, s) = Sum(f, s \ {x}) + f[x]
        BY <2>0, SumTake
      <4> QED BY <2>0, <4>2, <4>3
    <3> QED BY <3>1, <3>2
  <2>2. ASSUME NEW S \in SUBSET s PROVE Sum(f, S) \in Nat /\ Sum(f, S) <= Sum(f, s)
    <3>1. CASE S = s
      BY <2>1, <3>1
    <3>2. CASE S # s
      <4>1. PICK x \in s : x \notin S
        BY <3>2
      <4>2. s \ {x} \in G /\ S \in SUBSET (s \ {x})
        BY <1>1, <4>1
      <4>3. Sum(f, S) \in Nat /\ Sum(f, S) <= Sum(f, s \ {x})
        BY <4>2
      <4>4. Sum(f, s) = Sum(f, s \ {x}) + f[x] /\ Sum(f, s \ {x}) \in Int
        BY <2>0, SumTake
      <4> QED BY <2>0, <2>1, <4>3, <4>4
    <3> QED BY <3>1, <3>2
  <2> QED BY <2>2
<1>2. \A s \in SUBSET T : s \in G
  <2> HIDE DEF G
  <2> QED BY <1>1, AllSubsets
<1> QED BY <1>2

(* Elements worth nothing can be left out.                                   *)
LEMMA SumZeros ==
    ASSUME NEW T, IsFiniteSet(T), NEW S \in SUBSET T,
           NEW f, \A x \in T : f[x] \in Int, \A x \in T \ S : f[x] = 0
    PROVE  Sum(f, T) = Sum(f, S)
<1> DEFINE G == {s \in SUBSET T : S \subseteq s => Sum(f, s) = Sum(f, S)}
<1>1. ASSUME NEW s \in SUBSET T, \A t \in SUBSET s : t # s => t \in G PROVE s \in G
  <2> SUFFICES ASSUME S \subseteq s, s # S PROVE Sum(f, s) = Sum(f, S)
    OBVIOUS
  <2>1. PICK x \in s : x \notin S
    OBVIOUS
  <2>2. IsFiniteSet(s) /\ \A y \in s : f[y] \in Int
    BY FS_Subset
  <2>3. s \ {x} \in G /\ S \subseteq s \ {x}
    BY <1>1, <2>1
  <2>4. Sum(f, s) = Sum(f, s \ {x}) + f[x] /\ Sum(f, s \ {x}) \in Int
    BY <2>2, SumTake
  <2>5. f[x] = 0 /\ Sum(f, s \ {x}) = Sum(f, S)
    BY <2>1, <2>3
  <2> QED BY <2>4, <2>5
<1>2. \A s \in SUBSET T : s \in G
  <2> HIDE DEF G
  <2> QED BY <1>1, AllSubsets
<1> QED BY <1>2
===============================================================================
