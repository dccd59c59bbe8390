------------------------------ MODULE SumTheorems ------------------------------
(***************************************************************************)
(* Facts about SumFunctionOnSet of the community module Functions, with    *)
(* their proofs.                                                           *)
(*                                                                         *)
(* The sum is defined by recursion over the subsets of a finite set, and   *)
(* an induction theorem that takes the induction hypothesis as an operator *)
(* cannot be used by the provers.  The inductions here are of first order: *)
(* the subsets (or the numbers) for which a fact fails form a set, which   *)
(* has a least member if it is not empty.                                  *)
(***************************************************************************)
EXTENDS Integers, Functions, FiniteSetTheorems, TLAPS

--------------------------------------------------------------------------------
(* Least counterexamples *)

LEMMA SmallestNumber ==
    ASSUME NEW T, T \subseteq Nat, T # {}
    PROVE  \E n \in T : \A m \in T : n <= m
<1>1. PICK n \in T : \A m \in T : ~ (<<m, n>> \in OpToRel(<, Nat))
  BY WFMin, NatLessThanWellFounded, Zenon
<1>2. \A m \in T : ~ (m < n)
  BY <1>1 DEF OpToRel
<1> QED
  BY <1>2

LEMMA SmallestSubset ==
    ASSUME NEW S, IsFiniteSet(S), NEW T, T \subseteq SUBSET S, T # {}
    PROVE  \E x \in T : \A y \in T : y \subseteq x => y = x
<1>1. T \subseteq FiniteSubsetsOf(S)
  BY FS_FiniteSubsetsOfFinite
<1>2. PICK x \in T : \A y \in T : ~ (<<y, x>> \in StrictSubsetOrdering(S))
  BY <1>1, WFMin, FS_StrictSubsetOrderingWellFounded, Zenon
<1> QED
  BY <1>2 DEF StrictSubsetOrdering

\* What holds of 0, and of n + 1 if of n, holds of every natural number.
LEMMA NumbersByInduction ==
    ASSUME NEW P, 0 \in P, \A n \in Nat : n \in P => n + 1 \in P
    PROVE  Nat \subseteq P
<1> SUFFICES ASSUME Nat \ P # {} PROVE FALSE
  OBVIOUS
<1>1. PICK n \in Nat \ P : \A m \in Nat \ P : n <= m
  BY SmallestNumber
<1>2. n # 0 /\ n - 1 \in Nat /\ n = (n - 1) + 1
  BY <1>1
<1>3. n - 1 \in P
  BY <1>1, <1>2
<1> QED
  BY <1>1, <1>2, <1>3

--------------------------------------------------------------------------------
(* The recursive definition *)

\* The member that the sum of a set adds first.
First(T) == CHOOSE x \in T : TRUE

\* g is the sum of f over every member of D, a set of subsets.
SumsOn(f, D, g) ==
    g = [s \in D |-> IF s = {} THEN 0 ELSE f[First(s)] + g[s \ {First(s)}]]

SumsOf(f, S, g) == SumsOn(f, SUBSET S, g)

\* There is such a function g: by induction on the size of the subsets.
LEMMA SumsExist ==
    ASSUME NEW S, IsFiniteSet(S), NEW f
    PROVE  \E g : SumsOf(f, S, g)
<1> DEFINE Upto(n) == {s \in SUBSET S : Cardinality(s) <= n}
           P == {n \in Nat : \E g : SumsOn(f, Upto(n), g)}
<1>1. \A s \in SUBSET S : IsFiniteSet(s) /\ Cardinality(s) \in Nat
  BY FS_Subset, FS_CardinalityType
<1>2. \A s \in SUBSET S : s # {} =>
         /\ First(s) \in s
         /\ s \ {First(s)} \in SUBSET S
         /\ Cardinality(s \ {First(s)}) = Cardinality(s) - 1
  BY <1>1, FS_RemoveElement DEF First
<1>3. 0 \in P
  <2> DEFINE g == [s \in Upto(0) |-> 0]
  <2>1. \A s \in Upto(0) : s = {}
    BY <1>1, FS_EmptySet
  <2>2. SumsOn(f, Upto(0), g)
    BY <2>1 DEF SumsOn
  <2> QED
    BY <2>2
<1>4. ASSUME NEW n \in Nat, n \in P
      PROVE  n + 1 \in P
  <2>1. PICK g : SumsOn(f, Upto(n), g)
    BY <1>4
  <2> DEFINE h == [s \in Upto(n + 1) |->
                     IF Cardinality(s) <= n THEN g[s] ELSE f[First(s)] + g[s \ {First(s)}]]
  <2>2. \A s \in Upto(n) : /\ s \in Upto(n + 1)
                           /\ h[s] = g[s]
                           /\ g[s] = IF s = {} THEN 0 ELSE f[First(s)] + g[s \ {First(s)}]
    <3>1. \A s \in Upto(n) : s \in Upto(n + 1) /\ Cardinality(s) <= n
      BY <1>1
    <3>2. \A s \in Upto(n) : h[s] = g[s]
      BY <3>1
    <3>3. \A s \in Upto(n) : g[s] = IF s = {} THEN 0 ELSE f[First(s)] + g[s \ {First(s)}]
      BY <2>1, Zenon DEF SumsOn
    <3> QED
      BY <3>1, <3>2, <3>3
  <2>3. \A s \in Upto(n + 1) : s # {} => s \ {First(s)} \in Upto(n)
    BY <1>1, <1>2
  <2>4. \A s \in Upto(n + 1) :
           h[s] = IF s = {} THEN 0 ELSE f[First(s)] + h[s \ {First(s)}]
    <3> SUFFICES ASSUME NEW s \in Upto(n + 1)
                 PROVE  h[s] = IF s = {} THEN 0 ELSE f[First(s)] + h[s \ {First(s)}]
      OBVIOUS
    <3>1. s # {} => h[s \ {First(s)}] = g[s \ {First(s)}]
      BY <2>2, <2>3
    <3>2. CASE Cardinality(s) <= n
      <4>1. s \in Upto(n)
        BY <3>2
      <4> QED
        BY <2>2, <3>1, <4>1, Zenon
    <3>3. CASE ~(Cardinality(s) <= n)
      <4>1. s # {}
        BY <3>3, FS_EmptySet
      <4>2. h[s] = f[First(s)] + g[s \ {First(s)}]
        BY <3>3
      <4> QED
        BY <3>1, <4>1, <4>2
    <3> QED
      BY <3>2, <3>3
  <2>5. h = [s \in Upto(n + 1) |-> h[s]]
    OBVIOUS
  <2> HIDE DEF h
  <2>6. SumsOn(f, Upto(n + 1), h)
    BY <2>4, <2>5 DEF SumsOn
  <2> QED
    BY <2>6
<1>5. Nat \subseteq P
  <2> HIDE DEF P
  <2> QED
    BY <1>3, <1>4, NumbersByInduction
<1>6. Cardinality(S) \in P
  BY <1>1, <1>5
<1>7. Upto(Cardinality(S)) = SUBSET S
  BY <1>1, FS_Subset
<1> QED
  BY <1>6, <1>7 DEF SumsOf

LEMMA SumIsRecursive ==
    ASSUME NEW S, IsFiniteSet(S), NEW f
    PROVE  \E g : /\ SumsOf(f, S, g)
                  /\ SumFunctionOnSet(f, S) = g[S]
<1> DEFINE g == CHOOSE h : SumsOf(f, S, h)
<1>1. SumsOf(f, S, g)
  BY SumsExist
<1>2. SumFunctionOnSet(f, S) = g[S]
  BY DEF SumFunctionOnSet, FoldFunctionOnSet, MapThenFoldSet, SumsOf, SumsOn, First
<1> QED
  BY <1>1, <1>2

\* The sum of a subset does not depend on the set that the recursion started from.
LEMMA SumsAgree ==
    ASSUME NEW S, IsFiniteSet(S), NEW T \in SUBSET S, NEW f, NEW g, NEW h,
           SumsOf(f, S, g), SumsOf(f, T, h)
    PROVE  \A s \in SUBSET T : g[s] = h[s]
<1> DEFINE Wrong == {s \in SUBSET T : g[s] # h[s]}
<1> SUFFICES ASSUME Wrong # {} PROVE FALSE
  OBVIOUS
<1>1. IsFiniteSet(T)
  BY FS_Subset
<1>2. PICK s \in Wrong : \A r \in Wrong : r \subseteq s => r = s
  <2>1. Wrong \subseteq SUBSET T
    OBVIOUS
  <2> HIDE DEF Wrong
  <2> QED
    BY <1>1, <2>1, SmallestSubset
<1>3. /\ g[s] = IF s = {} THEN 0 ELSE f[First(s)] + g[s \ {First(s)}]
      /\ h[s] = IF s = {} THEN 0 ELSE f[First(s)] + h[s \ {First(s)}]
  BY Zenon DEF SumsOf, SumsOn
<1>4. s # {}
  BY <1>2, <1>3
<1>5. First(s) \in s
  BY <1>4 DEF First
<1>6. g[s \ {First(s)}] = h[s \ {First(s)}]
  BY <1>2, <1>5
<1> QED
  BY <1>2, <1>3, <1>4, <1>6

LEMMA SumOfNone == ASSUME NEW f PROVE SumFunctionOnSet(f, {}) = 0
<1>1. PICK g : SumsOf(f, {}, g) /\ SumFunctionOnSet(f, {}) = g[{}]
  BY SumIsRecursive, FS_EmptySet
<1> QED
  BY <1>1 DEF SumsOf, SumsOn

LEMMA SumOfFirst ==
    ASSUME NEW S, IsFiniteSet(S), S # {}, NEW f
    PROVE  SumFunctionOnSet(f, S) = f[First(S)] + SumFunctionOnSet(f, S \ {First(S)})
<1>1. PICK T \in SUBSET S : T = S \ {First(S)} /\ IsFiniteSet(T)
  BY FS_RemoveElement
<1>2. PICK g : SumsOf(f, S, g) /\ SumFunctionOnSet(f, S) = g[S]
  BY SumIsRecursive
<1>3. PICK h : SumsOf(f, T, h) /\ SumFunctionOnSet(f, T) = h[T]
  BY <1>1, SumIsRecursive
<1>4. g[T] = h[T]
  <2>1. \A s \in SUBSET T : g[s] = h[s]
    BY <1>1, <1>2, <1>3, SumsAgree
  <2> QED
    BY <2>1
<1>5. g[S] = f[First(S)] + g[T]
  BY <1>1, <1>2 DEF SumsOf, SumsOn
<1> QED
  BY <1>1, <1>2, <1>3, <1>4, <1>5

--------------------------------------------------------------------------------
(* Laws of the sum *)

\* A sum of integers is an integer, and any member can be taken out of it.
LEMMA SumTakeOut ==
    ASSUME NEW S, IsFiniteSet(S), NEW f, \A x \in S : f[x] \in Int
    PROVE  /\ SumFunctionOnSet(f, S) \in Int
           /\ \A x \in S : SumFunctionOnSet(f, S) = f[x] + SumFunctionOnSet(f, S \ {x})
<1> DEFINE Good(T) == /\ SumFunctionOnSet(f, T) \in Int
                      /\ \A x \in T : SumFunctionOnSet(f, T) = f[x] + SumFunctionOnSet(f, T \ {x})
           Wrong == {T \in SUBSET S : ~Good(T)}
<1> SUFFICES ASSUME Wrong # {} PROVE FALSE
  OBVIOUS
<1>1. PICK T \in Wrong : \A U \in Wrong : U \subseteq T => U = T
  <2>1. Wrong \subseteq SUBSET S
    OBVIOUS
  <2> HIDE DEF Wrong
  <2> QED
    BY <2>1, SmallestSubset
<1>2. IsFiniteSet(T) /\ T \in SUBSET S /\ ~Good(T)
  BY FS_Subset
<1>3. \A U \in SUBSET T : U # T => Good(U)
  BY <1>1, <1>2
<1>4. T # {}
  BY <1>2, SumOfNone
<1> DEFINE c == First(T)
<1>5. c \in T
  BY <1>4 DEF First
<1>6. SumFunctionOnSet(f, T) = f[c] + SumFunctionOnSet(f, T \ {c})
  BY <1>2, <1>4, SumOfFirst
<1> HIDE DEF c
<1>7. T \ {c} \in SUBSET T /\ T \ {c} # T
  BY <1>5
<1>8. Good(T \ {c})
  BY <1>3, <1>7
<1>9. SumFunctionOnSet(f, T) \in Int
  BY <1>2, <1>5, <1>6, <1>8
<1>10. ASSUME NEW x \in T
       PROVE  SumFunctionOnSet(f, T) = f[x] + SumFunctionOnSet(f, T \ {x})
  <2>1. CASE x = c
    BY <1>6, <2>1
  <2>2. CASE x # c
    <3>1. T \ {x} \in SUBSET T /\ T \ {x} # T
      OBVIOUS
    <3>2. Good(T \ {x})
      BY <1>3, <3>1
    <3>3. SumFunctionOnSet(f, T \ {c}) = f[x] + SumFunctionOnSet(f, (T \ {c}) \ {x})
      BY <1>8, <2>2
    <3>4. SumFunctionOnSet(f, T \ {x}) = f[c] + SumFunctionOnSet(f, (T \ {x}) \ {c})
      BY <1>5, <2>2, <3>2
    <3>5. (T \ {x}) \ {c} = (T \ {c}) \ {x}
      OBVIOUS
    <3>6. SumFunctionOnSet(f, (T \ {c}) \ {x}) \in Int
      <4>1. (T \ {c}) \ {x} \in SUBSET T /\ (T \ {c}) \ {x} # T
        BY <1>5
      <4> QED
        BY <1>3, <4>1
    <3>7. f[x] \in Int /\ f[c] \in Int
      BY <1>2, <1>5
    <3> DEFINE rest == SumFunctionOnSet(f, (T \ {c}) \ {x})
    <3>8. SumFunctionOnSet(f, T) = f[c] + (f[x] + rest)
      BY <1>6, <3>3, Zenon
    <3>9. SumFunctionOnSet(f, T \ {x}) = f[c] + rest
      BY <3>4, <3>5, Zenon
    <3>10. f[c] + (f[x] + rest) = f[x] + (f[c] + rest)
      <4> HIDE DEF rest
      <4>1. rest \in Int
        BY <3>6 DEF rest
      <4> QED
        BY <3>7, <4>1
    <3> QED
      BY <3>8, <3>9, <3>10, Zenon
  <2> QED
    BY <2>1, <2>2
<1> QED
  BY <1>2, <1>9, <1>10

\* The sum depends on nothing but the values at the members of the set.
LEMMA SumOfEquals ==
    ASSUME NEW S, IsFiniteSet(S), NEW f, NEW g, \A x \in S : f[x] = g[x]
    PROVE  SumFunctionOnSet(f, S) = SumFunctionOnSet(g, S)
<1> DEFINE Wrong == {T \in SUBSET S : SumFunctionOnSet(f, T) # SumFunctionOnSet(g, T)}
<1> SUFFICES ASSUME Wrong # {} PROVE FALSE
  OBVIOUS
<1>1. PICK T \in Wrong : \A U \in Wrong : U \subseteq T => U = T
  <2>1. Wrong \subseteq SUBSET S
    OBVIOUS
  <2> HIDE DEF Wrong
  <2> QED
    BY <2>1, SmallestSubset
<1>2. IsFiniteSet(T) /\ T # {}
  BY FS_Subset, SumOfNone
<1>3. First(T) \in T
  BY <1>2 DEF First
<1>4. SumFunctionOnSet(f, T \ {First(T)}) = SumFunctionOnSet(g, T \ {First(T)})
  BY <1>1, <1>3
<1>5. /\ SumFunctionOnSet(f, T) = f[First(T)] + SumFunctionOnSet(f, T \ {First(T)})
      /\ SumFunctionOnSet(g, T) = g[First(T)] + SumFunctionOnSet(g, T \ {First(T)})
  BY <1>2, SumOfFirst
<1> QED
  BY <1>1, <1>3, <1>4, <1>5

LEMMA SumOfZeros ==
    ASSUME NEW S, IsFiniteSet(S), NEW f, \A x \in S : f[x] = 0
    PROVE  SumFunctionOnSet(f, S) = 0
<1> DEFINE Wrong == {T \in SUBSET S : SumFunctionOnSet(f, T) # 0}
<1> SUFFICES ASSUME Wrong # {} PROVE FALSE
  OBVIOUS
<1>1. PICK T \in Wrong : \A U \in Wrong : U \subseteq T => U = T
  <2>1. Wrong \subseteq SUBSET S
    OBVIOUS
  <2> HIDE DEF Wrong
  <2> QED
    BY <2>1, SmallestSubset
<1>2. IsFiniteSet(T) /\ T # {}
  BY FS_Subset, SumOfNone
<1>3. First(T) \in T /\ f[First(T)] = 0
  BY <1>2 DEF First
<1>4. SumFunctionOnSet(f, T \ {First(T)}) = 0
  BY <1>1, <1>3
<1>5. SumFunctionOnSet(f, T) = f[First(T)] + SumFunctionOnSet(f, T \ {First(T)})
  BY <1>2, SumOfFirst
<1> QED
  BY <1>1, <1>3, <1>4, <1>5

\* A change at one member changes the sum by as much.
LEMMA SumOfChange ==
    ASSUME NEW S, IsFiniteSet(S), NEW x \in S, NEW f, NEW g,
           \A y \in S : f[y] \in Int /\ g[y] \in Int,
           \A y \in S \ {x} : f[y] = g[y]
    PROVE  SumFunctionOnSet(g, S) = SumFunctionOnSet(f, S) + (g[x] - f[x])
<1>1. IsFiniteSet(S \ {x})
  BY FS_RemoveElement
<1>2. /\ SumFunctionOnSet(f, S) = f[x] + SumFunctionOnSet(f, S \ {x})
      /\ SumFunctionOnSet(g, S) = g[x] + SumFunctionOnSet(g, S \ {x})
  BY SumTakeOut
<1>3. SumFunctionOnSet(f, S \ {x}) = SumFunctionOnSet(g, S \ {x})
  BY <1>1, SumOfEquals
<1>4. SumFunctionOnSet(f, S \ {x}) \in Int
  BY <1>1, SumTakeOut
<1>5. f[x] \in Int /\ g[x] \in Int
  OBVIOUS
<1> QED
  BY <1>2, <1>3, <1>4, <1>5

\* One more member.
LEMMA SumWithOneMore ==
    ASSUME NEW S, IsFiniteSet(S), NEW x, x \notin S, NEW f, \A y \in S \cup {x} : f[y] \in Int
    PROVE  SumFunctionOnSet(f, S \cup {x}) = SumFunctionOnSet(f, S) + f[x]
<1>1. IsFiniteSet(S \cup {x}) /\ (S \cup {x}) \ {x} = S
  BY FS_AddElement
<1>2. SumFunctionOnSet(f, S \cup {x}) = f[x] + SumFunctionOnSet(f, S)
  BY <1>1, SumTakeOut
<1>3. SumFunctionOnSet(f, S) \in Int /\ f[x] \in Int
  BY SumTakeOut
<1> QED
  BY <1>2, <1>3

\* g is the function f on S but for its value at key, new or known, which has grown by step.
GrowsAt(f, g, S, key, step) ==
    /\ IsFiniteSet(S) /\ step \in Int
    /\ \A x \in S : f[x] \in Int
    /\ \A x \in S \ {key} : g[x] = f[x]
    /\ g[key] = (IF key \in S THEN f[key] ELSE 0) + step

\* What one step adds to the value at a key it adds to the sum.
LEMMA SumOfStep ==
    ASSUME NEW f, NEW g, NEW S, NEW key, NEW step, GrowsAt(f, g, S, key, step)
    PROVE  SumFunctionOnSet(g, S \cup {key}) = SumFunctionOnSet(f, S) + step
<1> USE DEF GrowsAt
<1>1. CASE key \in S
  <2>1. S \cup {key} = S
    BY <1>1
  <2>2. \A x \in S : f[x] \in Int /\ g[x] \in Int
    BY <1>1
  <2>3. SumFunctionOnSet(g, S) = SumFunctionOnSet(f, S) + (g[key] - f[key])
    BY ONLY IsFiniteSet(S), <1>1, <2>2, \A x \in S \ {key} : g[x] = f[x], SumOfChange
  <2>4. g[key] - f[key] = step
    BY <1>1
  <2> QED
    BY <2>1, <2>3, <2>4
<1>2. CASE key \notin S
  <2>1. \A x \in S \cup {key} : g[x] \in Int
    BY <1>2
  <2>2. SumFunctionOnSet(g, S \cup {key}) = SumFunctionOnSet(g, S) + g[key]
    BY <1>2, <2>1, SumWithOneMore
  <2>3. \A x \in S : f[x] = g[x]
    BY <1>2
  <2>4. SumFunctionOnSet(f, S) = SumFunctionOnSet(g, S)
    BY <2>3, SumOfEquals
  <2>5. g[key] = step
    BY <1>2
  <2> QED
    BY <2>2, <2>4, <2>5
<1> QED
  BY <1>1, <1>2

\* Renaming the members leaves the sum as it is.
LEMMA SumOfRenamed ==
    ASSUME NEW S, IsFiniteSet(S), NEW T, NEW p \in Bijection(S, T), NEW f, NEW g,
           \A x \in S : f[x] = g[p[x]] /\ f[x] \in Int
    PROVE  SumFunctionOnSet(f, S) = SumFunctionOnSet(g, T)
<1> DEFINE Image(U) == {p[x] : x \in U}
           Wrong == {U \in SUBSET S : SumFunctionOnSet(f, U) # SumFunctionOnSet(g, Image(U))}
<1>1. /\ p \in [S -> T]
      /\ \A x, y \in S : x # y => p[x] # p[y]
      /\ \A t \in T : \E x \in S : p[x] = t
  BY DEF Bijection, Injection, Surjection, IsInjective
<1>2. Image(S) = T
  BY <1>1
<1> SUFFICES ASSUME Wrong # {} PROVE FALSE
  BY <1>2
<1>3. PICK U \in Wrong : \A V \in Wrong : V \subseteq U => V = U
  <2>1. Wrong \subseteq SUBSET S
    OBVIOUS
  <2> HIDE DEF Wrong
  <2> QED
    BY <2>1, SmallestSubset
<1>4. IsFiniteSet(U) /\ U \in SUBSET S
  BY FS_Subset
<1>5. U # {}
  <2>1. Image({}) = {}
    OBVIOUS
  <2> QED
    BY <2>1, <1>3, SumOfNone
<1>6. PICK x \in U : TRUE
  BY <1>5
<1>7. IsFiniteSet(Image(U)) /\ p[x] \in Image(U)
  <2> DEFINE q == [y \in U |-> p[y]]
  <2>1. q \in Surjection(U, Image(U))
    BY DEF Surjection
  <2> HIDE DEF q
  <2>2. IsFiniteSet(Image(U))
    BY <1>4, <2>1, FS_Surjection
  <2> QED
    BY <2>2
<1>8. Image(U) \ {p[x]} = Image(U \ {x})
  BY <1>1, <1>4
<1>9. \A t \in Image(U) : g[t] \in Int
  BY <1>4
<1>10. SumFunctionOnSet(f, U) = f[x] + SumFunctionOnSet(f, U \ {x})
  BY <1>4, SumTakeOut
<1>11. SumFunctionOnSet(g, Image(U)) = g[p[x]] + SumFunctionOnSet(g, Image(U) \ {p[x]})
  <2> HIDE DEF Image
  <2> QED
    BY <1>7, <1>9, SumTakeOut
<1>12. SumFunctionOnSet(f, U \ {x}) = SumFunctionOnSet(g, Image(U \ {x}))
  BY <1>3, <1>4
<1> QED
  BY <1>3, <1>4, <1>8, <1>10, <1>11, <1>12

LEMMA OneMoreTime == \A n, d \in Int : (n + 1) * d = n * d + d /\ n * d \in Int
OBVIOUS

LEMMA ProductGrows ==
    ASSUME NEW c \in Nat, NEW n \in Nat, c <= n, NEW d \in Nat
    PROVE  /\ c * d \in Nat /\ n * d \in Nat /\ c * d <= n * d
           /\ (c + 1) * d = c * d + d /\ (n + 1) * d = n * d + d
<1>1. PICK k \in Nat : n = c + k
  BY n - c \in Nat
<1>2. (c + k) * d = c * d + k * d /\ c * d \in Nat /\ k * d \in Nat
  OBVIOUS
<1>3. (c + 1) * d = c * d + d /\ (n + 1) * d = n * d + d
  OBVIOUS
<1> QED
  BY <1>1, <1>2, <1>3

\* Two sums differ by no more than their terms do; twice the difference, for halves of a unit.
LEMMA SumsDiffer ==
    ASSUME NEW S, IsFiniteSet(S), NEW f, NEW g, NEW d \in Int,
           \A x \in S : f[x] \in Int /\ g[x] \in Int /\ 2 * (f[x] - g[x]) \in -d .. d
    PROVE  2 * (SumFunctionOnSet(f, S) - SumFunctionOnSet(g, S))
             \in -(Cardinality(S) * d) .. Cardinality(S) * d
<1> DEFINE Good(T) == 2 * (SumFunctionOnSet(f, T) - SumFunctionOnSet(g, T))
                        \in -(Cardinality(T) * d) .. Cardinality(T) * d
           Wrong == {T \in SUBSET S : ~Good(T)}
<1> SUFFICES ASSUME Wrong # {} PROVE FALSE
  BY FS_Subset
<1>1. PICK T \in Wrong : \A U \in Wrong : U \subseteq T => U = T
  <2>1. Wrong \subseteq SUBSET S
    OBVIOUS
  <2> HIDE DEF Wrong
  <2> QED
    BY <2>1, SmallestSubset
<1>2. IsFiniteSet(T) /\ T \in SUBSET S /\ ~Good(T)
  BY FS_Subset
<1>3. T # {}
  <2>1. SumFunctionOnSet(f, {}) = 0 /\ SumFunctionOnSet(g, {}) = 0 /\ Cardinality({}) = 0
    BY SumOfNone, FS_EmptySet
  <2>2. Good({})
    BY <2>1
  <2> QED
    BY <1>2, <2>2
<1>4. PICK x \in T : TRUE
  BY <1>3
<1>5. Good(T \ {x})
  BY <1>1, <1>2
<1> DEFINE n == Cardinality(T \ {x})
           a == SumFunctionOnSet(f, T \ {x})
           b == SumFunctionOnSet(g, T \ {x})
<1>6. IsFiniteSet(T \ {x}) /\ n \in Nat /\ Cardinality(T) = n + 1
  <2>1. IsFiniteSet(T \ {x}) /\ n = Cardinality(T) - 1
    BY <1>2, <1>4, FS_RemoveElement
  <2>2. n \in Nat /\ Cardinality(T) \in Nat
    BY <1>2, <2>1, FS_CardinalityType
  <2> HIDE DEF n
  <2> QED
    BY <2>1, <2>2
<1>7. /\ SumFunctionOnSet(f, T) = f[x] + a /\ SumFunctionOnSet(g, T) = g[x] + b
      /\ a \in Int /\ b \in Int
  <2>1. \A y \in T : f[y] \in Int /\ g[y] \in Int
    BY <1>2
  <2> QED
    BY <1>2, <1>6, <2>1, SumTakeOut
<1>8. 2 * (a - b) \in -(n * d) .. n * d
  BY <1>5
<1>9. (n + 1) * d = n * d + d /\ n * d \in Int
  <2> HIDE DEF n
  <2>1. n \in Int
    BY <1>6
  <2> QED
    BY <2>1, OneMoreTime
<1>10. f[x] \in Int /\ g[x] \in Int /\ 2 * (f[x] - g[x]) \in -d .. d
  BY <1>2
<1> DEFINE nd == n * d
<1>11. Good(T) <=> 2 * (f[x] + a - (g[x] + b)) \in -(nd + d) .. nd + d
  BY <1>6, <1>7, <1>9
<1> HIDE DEF n, a, b, nd, Good
<1>12. 2 * (a - b) \in -nd .. nd /\ nd \in Int
  BY <1>8, <1>9 DEF nd
<1> QED
  BY <1>2, <1>7, <1>10, <1>11, <1>12
================================================================================
