------------------------ MODULE ConfidenceChecksProofs ------------------------
(***************************************************************************)
(* What an answer is scored from and what moves the score: for every       *)
(* answer, every result, weight, threshold, tolerance, budget and retry.   *)
(*                                                                         *)
(* First, facts about finite data: induction (stated of sets and not of    *)
(* predicates: what is to be proved of each number is that the set of the  *)
(* numbers it holds of is all of Nat), sums over a set, quotients. Then    *)
(* what the score is: the means of the components and of their signals are *)
(* such sums. Then what the comparison of two results is: its rounds build *)
(* up a pairing of the rows. Then the signals each check can emit. Two     *)
(* invariants follow: IInv says at every stage which signals can have      *)
(* failed, ChecksInv which signals there can be at all; the theorems are   *)
(* what they say of the score.                                             *)
(***************************************************************************)
EXTENDS ConfidenceChecks, FiniteSetTheorems, WellFoundedInduction, TLAPS

-----------------------------------------------------------------------------
(* Induction.                                                              *)

Below == {p \in Nat \X Nat : p[1] < p[2]}

\* The order of the numbers is well-founded.
LEMMA BelowIsWellFounded == IsWellFoundedOn(Below, Nat)
<1>1. Below = OpToRel(<, Nat)
  BY DEF Below, OpToRel
<1> QED
  BY <1>1, NatLessThanWellFounded

\* A set of numbers has a least one.
LEMMA LeastNumber ==
  ASSUME NEW T \in SUBSET Nat, T # {}
  PROVE  \E m \in T : \A n \in T : m <= n
<1>1. PICK m \in T : \A n \in T : <<n, m>> \notin Below
  BY WFMin, BelowIsWellFounded
<1>2. ASSUME NEW n \in T, n < m
      PROVE  <<n, m>> \in Below
  BY <1>2 DEF Below
<1>3. \A n \in T : ~(n < m)
  BY <1>1, <1>2
<1>4. \A n \in T : m <= n
  BY <1>3
<1> QED
  BY <1>4

\* A set of numbers with a bound has a greatest one.
LEMMA GreatestNumber ==
  ASSUME NEW n \in Nat, NEW T \in SUBSET (0 .. n), T # {}
  PROVE  \E m \in T : \A i \in T : i <= m
<1> DEFINE U == {n - i : i \in T}
<1>1. \A i \in T : i \in Int /\ n - i \in Nat
  OBVIOUS
<1>6. U \in SUBSET Nat /\ U # {}
  BY <1>1, Zenon
<1>2. PICK u \in U : \A v \in U : u <= v
  BY <1>6, LeastNumber
<1>3. PICK m \in T : u = n - m
  BY <1>2
<1>4. \A i \in T : n - m <= n - i
  BY <1>2, <1>3
<1>5. \A i \in T : i <= m
  BY <1>4
<1> QED
  BY <1>5

\* What Min and Max of the community modules are.
LEMMA MinIsLeast ==
  ASSUME NEW T \in SUBSET Nat, T # {}
  PROVE  Min(T) \in T /\ \A i \in T : Min(T) <= i
<1>1. \E m \in T : \A i \in T : m <= i
  BY LeastNumber
<1> QED
  BY <1>1, Zenon DEF Min

\* The less of two.
LEMMA MinOfTwo ==
  ASSUME NEW a \in Nat, NEW b \in Nat
  PROVE  Min({a, b}) = IF a <= b THEN a ELSE b
<1>1. {a, b} \in SUBSET Nat /\ {a, b} # {}
  OBVIOUS
<1>2. Min({a, b}) \in {a, b} /\ \A i \in {a, b} : Min({a, b}) <= i
  BY <1>1, MinIsLeast
<1> QED
  BY <1>2

\* The greatest of numbers that have a bound.
LEMMA MaxIsGreatest ==
  ASSUME NEW n \in Nat, NEW T \in SUBSET (0 .. n), T # {}
  PROVE  Max(T) \in T /\ \A i \in T : i <= Max(T)
<1>1. PICK m \in T : \A i \in T : i <= m
  BY GreatestNumber
<1>2. \A i \in T : m >= i
  BY <1>1
<1>3. Max(T) \in T /\ \A i \in T : Max(T) >= i
  BY <1>2, Zenon DEF Max
<1>4. \A i \in T : i \in Int
  OBVIOUS
<1>5. Max(T) \in Int
  BY <1>3, <1>4
<1> QED
  BY <1>3, <1>4, <1>5

\* What holds of 0 and, with a number, of the next one holds of all.
LEMMA Induction ==
  ASSUME NEW T, 0 \in T, \A n \in Nat : n \in T => n + 1 \in T
  PROVE  Nat \subseteq T
<1> SUFFICES ASSUME Nat \ T # {}
             PROVE  FALSE
  OBVIOUS
<1>1. PICK m \in Nat \ T : \A n \in Nat \ T : m <= n
  BY LeastNumber
<1>2. m # 0 /\ m - 1 \in Nat
  BY <1>1
<1>3. m - 1 \notin Nat \ T
  BY <1>1, <1>2
<1>4. (m - 1) + 1 \in T
  BY <1>2, <1>3
<1> QED
  BY <1>1, <1>4

\* What holds of {} and, with a set, of one with another element of S holds of
\* each part of S.
LEMMA InductionOnParts ==
  ASSUME NEW S, IsFiniteSet(S), NEW F, {} \in F,
         \A T \in SUBSET S : \A x \in S \ T : T \in F => T \cup {x} \in F
  PROVE  SUBSET S \subseteq F
<1> DEFINE N == {n \in Nat : \A T \in SUBSET S : Cardinality(T) = n => T \in F}
<1>1. \A T \in SUBSET S : IsFiniteSet(T) /\ Cardinality(T) \in Nat
  BY FS_Subset, FS_CardinalityType
<1>2. 0 \in N
  BY <1>1, FS_EmptySet
<1>3. ASSUME NEW n \in Nat, n \in N
      PROVE  n + 1 \in N
  <2> SUFFICES ASSUME NEW T \in SUBSET S, Cardinality(T) = n + 1
               PROVE  T \in F
    OBVIOUS
  <2>1. PICK x : x \in T
    <3>1. Cardinality(T) # 0 /\ IsFiniteSet(T)
      BY <1>1
    <3> QED
      BY <3>1, FS_EmptySet
  <2>2. Cardinality(T \ {x}) = n
    <3>1. Cardinality(T \ {x}) = Cardinality(T) - 1
      BY <1>1, <2>1, FS_RemoveElement
    <3> QED
      BY <3>1
  <2>3. T \ {x} \in F
    BY <1>3, <2>2
  <2>4. T = (T \ {x}) \cup {x} /\ x \in S \ (T \ {x})
    BY <2>1
  <2> QED
    BY <2>3, <2>4
<1>4. Nat \subseteq N
  BY <1>2, <1>3, Induction
<1> QED
  BY <1>1, <1>4

-----------------------------------------------------------------------------
(* Sums. MapThenSumSet takes the elements of a set in the order of CHOOSE; *)
(* a sum does not depend on it.                                            *)

Some(s) == CHOOSE x \in s : TRUE

\* g gives the sum of h over each part of S, in the order of CHOOSE.
IsTotal(g, h, S) ==
  g = [s \in SUBSET S |-> IF s = {} THEN 0 ELSE h[Some(s)] + g[s \ {Some(s)}]]

\* The sum of h over S.
Total(h, S) == (CHOOSE g : IsTotal(g, h, S))[S]

\* A set that is not empty has the element Some takes.
LEMMA SomeIsOne == \A s : s # {} => Some(s) \in s
BY DEF Some

\* There is such a g: each part is summed from one that is smaller.
LEMMA TotalsExist ==
  ASSUME NEW S, IsFiniteSet(S), NEW h
  PROVE  \E g : IsTotal(g, h, S)
<1> DEFINE Small(n) == {s \in SUBSET S : Cardinality(s) <= n}
           Rest(s) == s \ {Some(s)}
           Sums(g, n) ==
             g = [s \in Small(n) |-> IF s = {} THEN 0 ELSE h[Some(s)] + g[Rest(s)]]
           N == {n \in Nat : \E g : Sums(g, n)}
<1>1. \A s \in SUBSET S : IsFiniteSet(s) /\ Cardinality(s) \in Nat
  BY FS_Subset, FS_CardinalityType
<1>2. 0 \in N
  <2> DEFINE g == [s \in Small(0) |-> 0]
  <2>1. \A s \in Small(0) : s = {}
    BY <1>1, FS_EmptySet
  <2>2. Sums(g, 0)
    BY <2>1
  <2> QED
    BY <2>2
<1>3. ASSUME NEW n \in Nat, n \in N
      PROVE  n + 1 \in N
  <2>1. PICK g : Sums(g, n)
    BY <1>3
  <2> DEFINE k == [s \in Small(n + 1) |-> IF s = {} THEN 0 ELSE h[Some(s)] + g[Rest(s)]]
  <2>2. ASSUME NEW s \in Small(n + 1), s # {}
        PROVE  Rest(s) \in Small(n)
    <3>1. Cardinality(Rest(s)) = Cardinality(s) - 1
      BY <1>1, <2>2, SomeIsOne, FS_RemoveElement
    <3> QED
      BY <1>1, <3>1
  <2>3. \A s \in Small(n) : s \in Small(n + 1) /\ k[s] = g[s]
    <3>1. \A s \in Small(n) : s \in Small(n + 1)
      BY <1>1
    <3>2. \A s \in Small(n) : g[s] = IF s = {} THEN 0 ELSE h[Some(s)] + g[Rest(s)]
      BY <2>1
    <3> QED
      BY <3>1, <3>2
  <2>4. \A s \in Small(n + 1) :
          k[s] = IF s = {} THEN 0 ELSE h[Some(s)] + k[Rest(s)]
    BY <2>2, <2>3
  <2>5. Sums(k, n + 1)
    BY <2>4
  <2>6. n + 1 \in Nat
    OBVIOUS
  <2> HIDE DEF k, Sums
  <2> QED
    BY <2>5, <2>6
<1>4. Cardinality(S) \in N
  <2> HIDE DEF N
  <2>1. Nat \subseteq N
    BY <1>2, <1>3, Induction
  <2> QED
    BY <1>1, <2>1
<1>5. Small(Cardinality(S)) = SUBSET S
  BY <1>1, FS_Subset
<1> QED
  BY <1>4, <1>5 DEF IsTotal

\* Two such functions agree on the sets on which they add the same.
LEMMA TotalsAgree ==
  ASSUME NEW S, IsFiniteSet(S), NEW g, NEW h, IsTotal(g, h, S),
         NEW U, NEW k, NEW l, IsTotal(k, l, U),
         NEW A \in SUBSET (S \cap U), \A x \in A : h[x] = l[x]
  PROVE  g[A] = k[A]
<1> DEFINE N == {n \in Nat : \A T \in SUBSET A : Cardinality(T) = n => g[T] = k[T]}
<1>1. \A T \in SUBSET S : IsFiniteSet(T) /\ Cardinality(T) \in Nat
  BY FS_Subset, FS_CardinalityType
<1>2. 0 \in N
  <2>1. g[{}] = 0 /\ k[{}] = 0
    BY DEF IsTotal
  <2> QED
    BY <1>1, <2>1, FS_EmptySet
<1>3. ASSUME NEW n \in Nat, n \in N
      PROVE  n + 1 \in N
  <2> SUFFICES ASSUME NEW T \in SUBSET A, Cardinality(T) = n + 1
               PROVE  g[T] = k[T]
    OBVIOUS
  <2>1. T # {} /\ Some(T) \in T
    BY FS_EmptySet, SomeIsOne
  <2>2. Cardinality(T \ {Some(T)}) = n
    BY <1>1, <2>1, FS_RemoveElement
  <2>3. g[T \ {Some(T)}] = k[T \ {Some(T)}]
    BY <1>3, <2>2
  <2>4. /\ g[T] = h[Some(T)] + g[T \ {Some(T)}]
        /\ k[T] = l[Some(T)] + k[T \ {Some(T)}]
    BY <2>1 DEF IsTotal
  <2> QED
    BY <2>1, <2>3, <2>4
<1>4. Nat \subseteq N
  <2> HIDE DEF N
  <2> QED
    BY <1>2, <1>3, Induction
<1> QED
  BY <1>1, <1>4

\* A sum is what such a function gives.
LEMMA TotalIs ==
  ASSUME NEW S, IsFiniteSet(S), NEW h
  PROVE  \E g : IsTotal(g, h, S) /\ Total(h, S) = g[S]
BY TotalsExist, Zenon DEF Total

\* Any such function gives the sum.
LEMMA TotalIsGiven ==
  ASSUME NEW S, IsFiniteSet(S), NEW h, NEW g, IsTotal(g, h, S)
  PROVE  Total(h, S) = g[S]
<1>1. PICK k : IsTotal(k, h, S) /\ Total(h, S) = k[S]
  BY TotalIs
<1> QED
  BY <1>1, TotalsAgree

\* A sum depends only on what is summed.
LEMMA TotalOfEquals ==
  ASSUME NEW S, IsFiniteSet(S), NEW h, NEW l, \A x \in S : h[x] = l[x]
  PROVE  Total(h, S) = Total(l, S)
<1>1. PICK g : IsTotal(g, h, S) /\ Total(h, S) = g[S]
  BY TotalIs
<1>2. PICK k : IsTotal(k, l, S) /\ Total(l, S) = k[S]
  BY TotalIs
<1> QED
  BY <1>1, <1>2, TotalsAgree

\* Nothing adds up to 0.
LEMMA TotalOfNone ==
  ASSUME NEW h
  PROVE  Total(h, {}) = 0
<1>1. PICK g : IsTotal(g, h, {}) /\ Total(h, {}) = g[{}]
  BY TotalIs, FS_EmptySet
<1> QED
  BY <1>1 DEF IsTotal

\* One element is taken out, the one the fold takes.
LEMMA TotalTakesSome ==
  ASSUME NEW S, IsFiniteSet(S), S # {}, NEW h
  PROVE  Total(h, S) = h[Some(S)] + Total(h, S \ {Some(S)})
<1> DEFINE R == S \ {Some(S)}
<1>1. IsFiniteSet(R)
  BY FS_RemoveElement
<1>2. PICK g : IsTotal(g, h, S) /\ Total(h, S) = g[S]
  BY TotalIs
<1>3. PICK k : IsTotal(k, h, R) /\ Total(h, R) = k[R]
  BY <1>1, TotalIs
<1>4. g[R] = k[R]
  BY <1>1, <1>2, <1>3, TotalsAgree
<1>5. g[S] = h[Some(S)] + g[R]
  BY <1>2 DEF IsTotal
<1> HIDE DEF R
<1>6. Total(h, S) = h[Some(S)] + Total(h, R)
  BY <1>2, <1>3, <1>4, <1>5
<1> QED
  BY <1>6 DEF R

\* A sum of integers is one.
LEMMA TotalIsAnInteger ==
  ASSUME NEW S, IsFiniteSet(S), NEW h, \A x \in S : h[x] \in Int
  PROVE  Total(h, S) \in Int
<1> DEFINE N == {n \in Nat :
                 \A T \in SUBSET S : Cardinality(T) = n => Total(h, T) \in Int}
<1>1. \A T \in SUBSET S : IsFiniteSet(T) /\ Cardinality(T) \in Nat
  BY FS_Subset, FS_CardinalityType
<1>2. 0 \in N
  BY <1>1, FS_EmptySet, TotalOfNone
<1>3. ASSUME NEW n \in Nat, n \in N
      PROVE  n + 1 \in N
  <2> SUFFICES ASSUME NEW T \in SUBSET S, Cardinality(T) = n + 1
               PROVE  Total(h, T) \in Int
    OBVIOUS
  <2>1. T # {} /\ Some(T) \in T
    BY FS_EmptySet, SomeIsOne
  <2>2. Cardinality(T \ {Some(T)}) = n
    BY <1>1, <2>1, FS_RemoveElement
  <2>3. Total(h, T \ {Some(T)}) \in Int /\ h[Some(T)] \in Int
    BY <1>3, <2>1, <2>2
  <2>4. Total(h, T) = h[Some(T)] + Total(h, T \ {Some(T)})
    BY <1>1, <2>1, TotalTakesSome
  <2> QED
    BY <2>3, <2>4
<1>4. Nat \subseteq N
  <2> HIDE DEF N
  <2> QED
    BY <1>2, <1>3, Induction
<1> QED
  BY <1>1, <1>4

\* Any one element can be taken out.
LEMMA TotalTakesAny ==
  ASSUME NEW S, IsFiniteSet(S), NEW h, \A x \in S : h[x] \in Int, NEW x \in S
  PROVE  Total(h, S) = h[x] + Total(h, S \ {x})
<1> DEFINE N == {n \in Nat : \A T \in SUBSET S : Cardinality(T) = n =>
                    \A y \in T : Total(h, T) = h[y] + Total(h, T \ {y})}
<1>1. \A T \in SUBSET S : IsFiniteSet(T) /\ Cardinality(T) \in Nat /\ Total(h, T) \in Int
  BY FS_Subset, FS_CardinalityType, TotalIsAnInteger
<1>2. 0 \in N
  BY <1>1, FS_EmptySet
<1>3. ASSUME NEW n \in Nat, n \in N
      PROVE  n + 1 \in N
  <2> SUFFICES ASSUME NEW T \in SUBSET S, Cardinality(T) = n + 1, NEW y \in T
               PROVE  Total(h, T) = h[y] + Total(h, T \ {y})
    OBVIOUS
  <2> DEFINE z == Some(T)
  <2>1. z \in T /\ Total(h, T) = h[z] + Total(h, T \ {z})
    BY <1>1, SomeIsOne, TotalTakesSome
  <2>2. CASE y = z
    BY <2>1, <2>2
  <2>3. CASE y # z
    <3> HIDE DEF z
    <3>1. Cardinality(T \ {z}) = n /\ Cardinality(T \ {y}) = n
      <4>1. IsFiniteSet(T) /\ (n + 1) - 1 = n
        BY <1>1
      <4>2. Cardinality(T \ {z}) = Cardinality(T) - 1
        BY <2>1, <4>1, FS_RemoveElement
      <4>3. Cardinality(T \ {y}) = Cardinality(T) - 1
        BY <4>1, FS_RemoveElement
      <4> QED
        BY <4>1, <4>2, <4>3
    <3>2. Total(h, T \ {z}) = h[y] + Total(h, (T \ {z}) \ {y})
      BY <1>3, <2>3, <3>1
    <3>3. Total(h, T \ {y}) = h[z] + Total(h, (T \ {y}) \ {z})
      BY <1>3, <2>1, <2>3, <3>1
    <3>4. (T \ {z}) \ {y} = (T \ {y}) \ {z}
      OBVIOUS
    <3>5. h[y] \in Int /\ h[z] \in Int /\ Total(h, (T \ {y}) \ {z}) \in Int
      BY <1>1, <2>1
    <3>6. \A a, b, c \in Int : a + (b + c) = b + (a + c)
      OBVIOUS
    <3>7. Total(h, T) = h[z] + (h[y] + Total(h, (T \ {y}) \ {z}))
      BY <2>1, <3>2, <3>4, Zenon
    <3>8. Total(h, T) = h[y] + (h[z] + Total(h, (T \ {y}) \ {z}))
      BY <3>5, <3>6, <3>7
    <3> QED
      BY <3>3, <3>8, Zenon
  <2> QED
    BY <2>2, <2>3
<1>4. Nat \subseteq N
  <2> HIDE DEF N
  <2> QED
    BY <1>2, <1>3, Induction
<1> QED
  BY <1>1, <1>4

\* Summands that are no greater have a sum that is no greater.
LEMMA TotalIsMonotonic ==
  ASSUME NEW S, IsFiniteSet(S), NEW h, \A x \in S : h[x] \in Int,
         NEW l, \A x \in S : l[x] \in Int, \A x \in S : h[x] <= l[x]
  PROVE  Total(h, S) <= Total(l, S)
<1> DEFINE F == {T \in SUBSET S : Total(h, T) <= Total(l, T)}
<1>1. \A T \in SUBSET S : IsFiniteSet(T) /\ Total(h, T) \in Int /\ Total(l, T) \in Int
  BY FS_Subset, TotalIsAnInteger
<1>2. {} \in F
  BY TotalOfNone
<1>3. ASSUME NEW T \in SUBSET S, NEW x \in S \ T, T \in F
      PROVE  T \cup {x} \in F
  <2> DEFINE U == T \cup {x}
  <2>1. U \ {x} = T /\ U \in SUBSET S /\ x \in U
    OBVIOUS
  <2>2. Total(h, U) = h[x] + Total(h, T) /\ Total(l, U) = l[x] + Total(l, T)
    BY <1>1, <2>1, TotalTakesAny
  <2> QED
    BY <1>1, <1>3, <2>1, <2>2
<1>4. SUBSET S \subseteq F
  <2> HIDE DEF F
  <2> QED
    BY <1>2, <1>3, InductionOnParts
<1> QED
  BY <1>4

\* The sum of a constant.
LEMMA TotalOfConstant ==
  ASSUME NEW S, IsFiniteSet(S), NEW b \in Int, NEW h, \A x \in S : h[x] = b
  PROVE  Total(h, S) = b * Cardinality(S)
<1> DEFINE F == {T \in SUBSET S : Total(h, T) = b * Cardinality(T)}
<1>1. \A T \in SUBSET S : IsFiniteSet(T) /\ Cardinality(T) \in Nat
  BY FS_Subset, FS_CardinalityType
<1>2. {} \in F
  BY TotalOfNone, FS_EmptySet
<1>3. ASSUME NEW T \in SUBSET S, NEW x \in S \ T, T \in F
      PROVE  T \cup {x} \in F
  <2> DEFINE U == T \cup {x}
  <2>1. U \ {x} = T /\ U \in SUBSET S /\ x \in U
    OBVIOUS
  <2>2. Total(h, U) = b + Total(h, T)
    BY <1>1, <2>1, TotalTakesAny
  <2>3. Cardinality(U) = Cardinality(T) + 1
    BY <1>1, FS_AddElement
  <2>4. b * (Cardinality(T) + 1) = b + b * Cardinality(T)
    BY <1>1
  <2> QED
    BY <1>3, <2>1, <2>2, <2>3, <2>4
<1>4. SUBSET S \subseteq F
  <2> HIDE DEF F
  <2> QED
    BY <1>2, <1>3, InductionOnParts
<1> QED
  BY <1>4

\* Parts of what is not negative have a sum that is no greater.
LEMMA TotalOfPart ==
  ASSUME NEW S, IsFiniteSet(S), NEW h, \A x \in S : h[x] \in Nat, NEW A \in SUBSET S
  PROVE  Total(h, A) \in Nat /\ Total(h, A) <= Total(h, S)
<1> DEFINE F == {T \in SUBSET S : Total(h, T) \in Nat /\ Total(h, T \cap A) \in Nat
                                 /\ Total(h, T \cap A) <= Total(h, T)}
<1>1. \A T \in SUBSET S : IsFiniteSet(T) /\ \A x \in T : h[x] \in Int
  BY FS_Subset
<1>2. {} \in F
  BY TotalOfNone
<1>3. ASSUME NEW T \in SUBSET S, NEW x \in S \ T, T \in F
      PROVE  T \cup {x} \in F
  <2> DEFINE U == T \cup {x}
  <2>1. U \in SUBSET S /\ U \ {x} = T /\ x \in U
    OBVIOUS
  <2>2. Total(h, U) = h[x] + Total(h, T)
    <3>1. IsFiniteSet(U) /\ \A y \in U : h[y] \in Int
      BY <1>1, <2>1
    <3> QED
      BY <2>1, <3>1, TotalTakesAny
  <2>3. CASE x \in A
    <3>1. (U \cap A) \ {x} = T \cap A /\ U \cap A \in SUBSET S /\ x \in U \cap A
      BY <2>3
    <3>2. Total(h, U \cap A) = h[x] + Total(h, T \cap A)
      BY <1>1, <3>1, TotalTakesAny
    <3> QED
      BY <1>3, <2>1, <2>2, <3>2
  <2>4. CASE x \notin A
    <3>1. U \cap A = T \cap A
      BY <2>4
    <3> QED
      BY <1>3, <2>1, <2>2, <3>1
  <2> QED
    BY <2>3, <2>4
<1>4. SUBSET S \subseteq F
  <2> HIDE DEF F
  <2> QED
    BY <1>2, <1>3, InductionOnParts
<1>5. S \in F /\ S \cap A = A
  BY <1>4
<1> QED
  BY <1>5

\* What counts for nothing may be left out.
LEMMA TotalWithoutZeros ==
  ASSUME NEW S, IsFiniteSet(S), NEW h, \A x \in S : h[x] \in Int,
         NEW A \in SUBSET S, \A x \in S \ A : h[x] = 0
  PROVE  Total(h, S) = Total(h, A)
<1> DEFINE F == {T \in SUBSET (S \ A) : Total(h, A \cup T) = Total(h, A)}
<1>1. \A T \in SUBSET (S \ A) : IsFiniteSet(A \cup T) /\ \A x \in A \cup T : h[x] \in Int
  <2>1. \A T \in SUBSET (S \ A) : A \cup T \in SUBSET S
    OBVIOUS
  <2> QED
    BY <2>1, FS_Subset
<1>2. {} \in F
  OBVIOUS
<1>3. ASSUME NEW T \in SUBSET (S \ A), NEW x \in (S \ A) \ T, T \in F
      PROVE  T \cup {x} \in F
  <2> DEFINE U == A \cup (T \cup {x})
  <2>1. U \ {x} = A \cup T /\ x \in U /\ T \cup {x} \in SUBSET (S \ A)
    OBVIOUS
  <2>2. IsFiniteSet(U) /\ \A y \in U : h[y] \in Int
    BY <1>1, <2>1
  <2>3. Total(h, U) = h[x] + Total(h, A \cup T)
    <3> HIDE DEF U
    <3> QED
      BY <2>1, <2>2, TotalTakesAny
  <2>4. h[x] = 0
    BY <1>3
  <2>5. Total(h, A \cup T) \in Int
    BY <1>1, TotalIsAnInteger
  <2>6. Total(h, A \cup T) = Total(h, A)
    BY <1>3
  <2> HIDE DEF U
  <2>7. Total(h, U) = Total(h, A)
    BY <2>3, <2>4, <2>5, <2>6
  <2> QED
    BY <2>1, <2>7 DEF U
<1>4. IsFiniteSet(S \ A)
  BY FS_Subset
<1>5. SUBSET (S \ A) \subseteq F
  <2> DEFINE R == S \ A
  <2>1. IsFiniteSet(R) /\ \A T \in SUBSET R : \A x \in R \ T : T \in F => T \cup {x} \in F
    BY <1>3, <1>4
  <2> HIDE DEF F, R
  <2>2. SUBSET R \subseteq F
    BY <1>2, <2>1, InductionOnParts
  <2> QED
    BY <2>2 DEF R
<1>6. S \ A \in F /\ A \cup (S \ A) = S
  BY <1>5
<1> QED
  BY <1>6

\* The sum of multiples.
LEMMA TotalOfMultiples ==
  ASSUME NEW S, IsFiniteSet(S), NEW b \in Int, NEW h, \A x \in S : h[x] \in Int,
         NEW l, \A x \in S : l[x] = b * h[x]
  PROVE  Total(l, S) = b * Total(h, S)
<1> DEFINE F == {T \in SUBSET S : Total(l, T) = b * Total(h, T)}
<1>0. \A x \in S : l[x] \in Int
  OBVIOUS
<1>1. \A T \in SUBSET S : IsFiniteSet(T) /\ Total(h, T) \in Int
  BY FS_Subset, TotalIsAnInteger
<1>2. {} \in F
  BY TotalOfNone
<1>3. ASSUME NEW T \in SUBSET S, NEW x \in S \ T, T \in F
      PROVE  T \cup {x} \in F
  <2> DEFINE U == T \cup {x}
  <2>1. U \ {x} = T /\ U \in SUBSET S /\ x \in U
    OBVIOUS
  <2>2. Total(h, U) = h[x] + Total(h, T)
    BY <1>1, <2>1, TotalTakesAny
  <2>3. Total(l, U) = l[x] + Total(l, T)
    <3>1. IsFiniteSet(U) /\ \A y \in U : l[y] \in Int
      BY <1>0, <1>1, <2>1
    <3> HIDE DEF U
    <3> QED
      BY <2>1, <3>1, TotalTakesAny
  <2>4. \A m, n \in Int : b * (m + n) = b * m + b * n
    OBVIOUS
  <2>5. h[x] \in Int /\ Total(h, T) \in Int /\ l[x] = b * h[x]
        /\ Total(l, T) = b * Total(h, T)
    BY <1>1, <1>3
  <2>6. b * (h[x] + Total(h, T)) = b * h[x] + b * Total(h, T)
    BY <2>4, <2>5
  <2>7. Total(l, U) = b * Total(h, U)
    BY <2>2, <2>3, <2>5, <2>6, Zenon
  <2> QED
    BY <2>1, <2>7
<1>4. SUBSET S \subseteq F
  <2> HIDE DEF F
  <2> QED
    BY <1>2, <1>3, InductionOnParts
<1> QED
  BY <1>4

-----------------------------------------------------------------------------
(* Division.                                                               *)

\* What division returns.
LEMMA Quotient ==
  ASSUME NEW a \in Int, NEW b \in Nat \ {0}
  PROVE  /\ a \div b \in Int
         /\ b * (a \div b) <= a
         /\ a < b * (a \div b) + b
OBVIOUS

\* It is the greatest such number.
LEMMA QuotientIsGreatest ==
  ASSUME NEW a \in Int, NEW b \in Nat \ {0}, NEW q \in Int, b * q <= a
  PROVE  q <= a \div b
<1> DEFINE p == a \div b
<1>1. p \in Int /\ a < b * p + b
  BY Quotient
<1> HIDE DEF p
<1>2. b * q < b * p + b
  BY <1>1
<1>3. b * (q - p - 1) < 0
  BY <1>1, <1>2
<1>4. q - p - 1 < 0
  BY <1>1, <1>3
<1> QED
  BY <1>1, <1>4 DEF p

-----------------------------------------------------------------------------
(* Rounding.                                                               *)

\* What round returns: the nearest integer, halves up.
LEMMA RoundedIs ==
  ASSUME NEW n \in Nat, NEW d \in Nat \ {0}
  PROVE  /\ Rounded(n, d) \in Int
         /\ 2 * (d * Rounded(n, d)) <= 2 * n + d
         /\ 2 * n < 2 * (d * Rounded(n, d)) + d
         /\ \A q \in Int : 2 * (d * q) <= 2 * n + d => q <= Rounded(n, d)
<1> DEFINE r == Rounded(n, d)
           a == 2 * n + d
           b == 2 * d
<1>1. a \in Int /\ b \in Nat \ {0} /\ r = a \div b
  BY DEF Rounded
<1> HIDE DEF r, a, b
<1>2. /\ r \in Int /\ b * r <= a /\ a < b * r + b
      /\ \A q \in Int : b * q <= a => q <= r
  BY <1>1, Quotient, QuotientIsGreatest
<1>3. \A q \in Int : b * q = 2 * (d * q)
  BY DEF b
<1>4. 2 * (d * r) <= a /\ a < 2 * (d * r) + b
  BY <1>2, <1>3
<1>5. d * r \in Int
  BY <1>2
<1>6. 2 * n < 2 * (d * r) + d
  BY <1>4, <1>5 DEF a, b
<1> QED
  BY <1>2, <1>3, <1>4, <1>6 DEF r, a

\* A quotient between bounds.
LEMMA RoundedIsBounded ==
  ASSUME NEW n \in Nat, NEW d \in Nat \ {0}, NEW m \in Nat, n <= d * m
  PROVE  Rounded(n, d) \in 0 .. m
<1> DEFINE r == Rounded(n, d)
<1>1. r \in Int /\ 2 * (d * r) <= 2 * n + d
      /\ \A q \in Int : 2 * (d * q) <= 2 * n + d => q <= r
  BY RoundedIs
<1> HIDE DEF r
<1>2. 0 <= r
  BY <1>1
<1>3. d * r \in Int /\ d * m \in Int /\ d * (r - m) = d * r - d * m
  BY <1>1
<1>4. 2 * (d * r) <= 2 * (d * m) + d
  BY <1>1, <1>3
<1>5. 2 * (d * (r - m)) <= d
  BY <1>3, <1>4
<1>6. ASSUME r - m >= 1
      PROVE  FALSE
  <2>1. d * (r - m) >= d
    BY <1>1, <1>6
  <2> QED
    BY <1>1, <1>5, <2>1
<1> QED
  BY <1>1, <1>2, <1>6 DEF r

\* The smaller of two fractions is rounded to what is no greater.
LEMMA RoundedIsMonotonic ==
  ASSUME NEW n \in Nat, NEW d \in Nat \ {0}, NEW m \in Nat, NEW e \in Nat \ {0},
         n * e <= m * d
  PROVE  Rounded(n, d) <= Rounded(m, e)
<1> DEFINE r == Rounded(n, d)
<1>1. r \in Int /\ 2 * (d * r) <= 2 * n + d
  BY RoundedIs
<1> HIDE DEF r
<1>2. d * r \in Int /\ e * r \in Int
  BY <1>1
<1>3. e * (2 * (d * r)) <= e * (2 * n + d)
  BY <1>1, <1>2
<1>4. e * (2 * (d * r)) = 2 * (d * (e * r)) /\ e * (2 * n + d) = 2 * (n * e) + e * d
  BY <1>1
<1>5. 2 * (d * (e * r)) <= 2 * (m * d) + e * d
  BY <1>1, <1>2, <1>3, <1>4
<1>6. d * (2 * (e * r)) <= d * (2 * m + e)
  BY <1>1, <1>2, <1>5
<1>7. 2 * (e * r) <= 2 * m + e
  BY <1>2, <1>6
<1> QED
  BY <1>1, <1>7, RoundedIs DEF r

\* What is added to a fraction moves it by no more than what is added, rounded up.
LEMMA RoundedMoves ==
  ASSUME NEW n \in Nat, NEW m \in Nat, NEW d \in Nat \ {0}, NEW k \in Nat, n <= m + d * k
  PROVE  Rounded(n, d) <= Rounded(m, d) + k
<1> DEFINE r == Rounded(n, d)
<1>1. r \in Int /\ 2 * (d * r) <= 2 * n + d
  BY RoundedIs
<1> HIDE DEF r
<1>2. d * r \in Int /\ d * k \in Int /\ d * (r - k) = d * r - d * k
  BY <1>1
<1>3. 2 * (d * (r - k)) <= 2 * m + d
  BY <1>1, <1>2
<1>4. r - k <= Rounded(m, d) /\ Rounded(m, d) \in Int
  BY <1>1, <1>3, RoundedIs
<1> QED
  BY <1>1, <1>4 DEF r

-----------------------------------------------------------------------------
(* What the score is: the components, their sums and their mean.           *)

\* The sums of the scoring are totals: that of the scores of signals,
LEMMA SumOfScores ==
  ASSUME NEW A
  PROVE  MapThenSumSet(SignalScore, A)
           = Total([x \in A |-> SignalScore(x)], A)
<1> DEFINE h == [x \in A |-> SignalScore(x)]
           Term(s, g) == SignalScore(Some(s)) + g[s \ {Some(s)}]
           Adds(g) == g = [s \in SUBSET A |-> IF s = {} THEN 0 ELSE Term(s, g)]
<1>1. \A s \in SUBSET A : s # {} => h[Some(s)] = SignalScore(Some(s))
  BY SomeIsOne
<1>2. \A g : Adds(g) <=> IsTotal(g, h, A)
  BY <1>1 DEF IsTotal
<1>3. MapThenSumSet(SignalScore, A) = (CHOOSE g : Adds(g))[A]
  BY DEF MapThenSumSet, MapThenFoldSet, Some
<1> HIDE DEF Adds, h
<1>4. (CHOOSE g : Adds(g)) = (CHOOSE g : IsTotal(g, h, A))
  BY <1>2, Zenon
<1> QED
  BY <1>3, <1>4 DEF Total, h

\* that of the weights of components,
LEMMA SumOfWeights ==
  ASSUME NEW A, NEW components
  PROVE  LET Weight(c) == components[c].weight
         IN  MapThenSumSet(Weight, A)
                 = Total([x \in A |-> components[x].weight], A)
<1> DEFINE Weight(c) == components[c].weight
           h == [x \in A |-> components[x].weight]
           Term(s, g) == Weight(Some(s)) + g[s \ {Some(s)}]
           Adds(g) == g = [s \in SUBSET A |-> IF s = {} THEN 0 ELSE Term(s, g)]
<1>1. \A s \in SUBSET A : s # {} => h[Some(s)] = Weight(Some(s))
  BY SomeIsOne
<1>2. \A g : Adds(g) <=> IsTotal(g, h, A)
  BY <1>1 DEF IsTotal
<1>3. MapThenSumSet(Weight, A) = (CHOOSE g : Adds(g))[A]
  BY DEF MapThenSumSet, MapThenFoldSet, Some
<1> HIDE DEF Adds, h, Weight
<1>4. (CHOOSE g : Adds(g)) = (CHOOSE g : IsTotal(g, h, A))
  BY <1>2, Zenon
<1> QED
  BY <1>3, <1>4 DEF Total, h, Weight

\* and that of their weighted scores.
LEMMA SumOfContributions ==
  ASSUME NEW A, NEW components
  PROVE  LET Contribution(c) == components[c].score * components[c].weight
         IN  MapThenSumSet(Contribution, A)
                 = Total([x \in A |-> components[x].score * components[x].weight], A)
<1> DEFINE Contribution(c) == components[c].score * components[c].weight
           h == [x \in A |-> components[x].score * components[x].weight]
           Term(s, g) == Contribution(Some(s)) + g[s \ {Some(s)}]
           Adds(g) == g = [s \in SUBSET A |-> IF s = {} THEN 0 ELSE Term(s, g)]
<1>1. \A s \in SUBSET A : s # {} => h[Some(s)] = Contribution(Some(s))
  BY SomeIsOne
<1>2. \A g : Adds(g) <=> IsTotal(g, h, A)
  BY <1>1 DEF IsTotal
<1>3. MapThenSumSet(Contribution, A) = (CHOOSE g : Adds(g))[A]
  BY DEF MapThenSumSet, MapThenFoldSet, Some
<1> HIDE DEF Adds, h, Contribution
<1>4. (CHOOSE g : Adds(g)) = (CHOOSE g : IsTotal(g, h, A))
  BY <1>2, Zenon
<1> QED
  BY <1>3, <1>4 DEF Total, h, Contribution

\* There are seven components, and those with codes are among them.
LEMMA ComponentsAreFinite == IsFiniteSet(Components)
/\ DOMAIN CodesOf \subseteq Components
<1>1. Components = (((((({} \cup {"sql_syntax_validity"}) \cup {"guardrail_approval"})
                       \cup {"schema_coverage"}) \cup {"result_sanity"})
                       \cup {"semantic_alignment"}) \cup {"multi_query_agreement"})
                       \cup {"model_reported_confidence"}
  BY DEF Components, DefaultWeights
<1>2. \A S, x : IsFiniteSet(S) => IsFiniteSet(S \cup {x})
  BY FS_AddElement
<1>3. IsFiniteSet(Components)
  BY <1>1, <1>2, FS_EmptySet
<1>4. DOMAIN CodesOf \subseteq Components
  BY DEF CodesOf, Components, DefaultWeights
<1> QED
  BY <1>3, <1>4

\* A group of signals has one of the statuses.
LEMMA GroupedStatusIs ==
  ASSUME NEW group, \A s \in group : s.status \in Statuses
  PROVE  /\ GroupedStatus(group) \in Statuses
         /\ GroupedStatus(group) = "failed" <=> \E s \in group : s.status = "failed"
<1> DEFINE statuses == {u.status : u \in group}
           Is(status) ==
             \/ status = "failed" /\ "failed" \in statuses
             \/ status = "warning" /\ "warning" \in statuses /\ "failed" \notin statuses
             \/ /\ status = "unavailable" /\ "unavailable" \in statuses
                /\ statuses \cap {"failed", "warning"} = {}
             \/ status = "passed" /\ statuses \subseteq {"passed", "not_applicable"}
<1>1. statuses \subseteq Statuses
      /\ ("failed" \in statuses <=> \E s \in group : s.status = "failed")
  OBVIOUS
<1> HIDE DEF statuses
<1>2. \E status \in Statuses : Is(status)
  BY <1>1 DEF Statuses
<1>3. \A status : Is(status) => (status = "failed" <=> "failed" \in statuses)
  OBVIOUS
<1> HIDE DEF Is
<1>4. (CHOOSE status \in Statuses : Is(status)) \in Statuses
      /\ Is(CHOOSE status \in Statuses : Is(status))
  BY <1>2, Zenon
<1>5. GroupedStatus(group) = CHOOSE status \in Statuses : Is(status)
  BY DEF GroupedStatus, Is, statuses
<1> QED
  BY <1>1, <1>3, <1>4, <1>5

\* The score a signal counts with is a score.
LEMMA SignalScoreIs ==
  ASSUME NEW s \in Signals
  PROVE  SignalScore(s) \in 0 .. Full
<1>1. s.score \in 0 .. Full
  BY DEF Signals
<1> DEFINE cap == 7500
<1>2. \A n \in 0 .. Full : n \in Nat /\ cap \in Nat
  BY DEF Full
<1> HIDE DEF cap
<1>4. Min({s.score, cap}) = IF s.score <= cap THEN s.score ELSE cap
  BY <1>1, <1>2, MinOfTwo
<1>3. 0 \in 0 .. Full /\ 7500 \in 0 .. Full
  BY DEF Full
<1> QED
  BY <1>1, <1>3, <1>4, ScoringAssumption DEF SignalScore, cap

\* What the mean of the scores of signals is.
LEMMA MeanOfSignals ==
  ASSUME NEW A \in SUBSET Signals, IsFiniteSet(A), A # {}
  PROVE  /\ MapThenSumSet(SignalScore, A) \in Nat
         /\ Cardinality(A) \in Nat \ {0}
         /\ MapThenSumSet(SignalScore, A) <= Cardinality(A) * Full
         /\ Rounded(MapThenSumSet(SignalScore, A), Cardinality(A)) \in 0 .. Full
<1> DEFINE h == [s \in A |-> SignalScore(s)]
           b == [s \in A |-> Full]
           zero == [s \in A |-> 0]
           sum == MapThenSumSet(SignalScore, A)
<1>1. Full \in Nat
  BY DEF Full
<1>2. \A s \in A : h[s] \in 0 .. Full
  BY SignalScoreIs
<1>3. \A s \in A : h[s] \in Int /\ 0 <= h[s] /\ h[s] <= Full /\ b[s] = Full /\ zero[s] = 0
  BY <1>1, <1>2
<1>4. sum = Total(h, A)
  BY SumOfScores
<1> HIDE DEF h, b, zero
<1>5. Total(h, A) \in Int /\ Total(zero, A) <= Total(h, A) /\ Total(h, A) <= Total(b, A)
  BY <1>1, <1>3, TotalIsAnInteger, TotalIsMonotonic
<1>6. Total(zero, A) = 0 * Cardinality(A) /\ Total(b, A) = Full * Cardinality(A)
  BY <1>1, <1>3, TotalOfConstant
<1>7. Cardinality(A) \in Nat \ {0}
  BY FS_CardinalityType, FS_EmptySet
<1> HIDE DEF sum
<1>8. sum \in Nat /\ sum <= Cardinality(A) * Full
  BY <1>1, <1>4, <1>5, <1>6, <1>7
<1> QED
  BY <1>1, <1>7, <1>8, RoundedIsBounded DEF sum

ComponentSet == [status : Statuses, score : 0 .. Full, weight : Nat]

\* What is made of the signals of a component is a component.
LEMMA GroupedIs ==
  ASSUME NEW all \in SUBSET Signals, IsFiniteSet(all), NEW c \in DOMAIN CodesOf,
         NEW weight \in Nat
  PROVE  Grouped(c, all, weight) \in ComponentSet
<1> DEFINE sigs == {s \in all : s.code \in CodesOf[c]}
           applicable == {s \in sigs : s.status # "not_applicable"}
<1>1. 0 \in 0 .. Full /\ UnavailableScore \in 0 .. Full
      /\ NotApplicableScore \in 0 .. Full
  <2>1. 0 \in 0 .. Full
    BY DEF Full
  <2> QED
    BY <2>1, ScoringAssumption
<1>2. GroupedStatus(sigs) \in Statuses
  BY GroupedStatusIs DEF Signals
<1>3. ASSUME applicable # {}
      PROVE  Rounded(MapThenSumSet(SignalScore, applicable), Cardinality(applicable))
               \in 0 .. Full
  <2>1. applicable \in SUBSET Signals /\ IsFiniteSet(applicable)
    BY FS_Subset
  <2> HIDE DEF applicable
  <2> QED
    BY <1>3, <2>1, MeanOfSignals
<1>4. "unavailable" \in Statuses /\ "not_applicable" \in Statuses
  BY DEF Statuses
<1> QED
  BY <1>1, <1>2, <1>3, <1>4 DEF Grouped, Component, ComponentSet

\* Components have a status, a score and a weight.
LEMMA ComponentsOfIs ==
  ASSUME NEW sigs \in SUBSET Signals, IsFiniteSet(sigs),
         NEW weights \in [Components -> Nat],
         NEW reported \in 0 .. Full
  PROVE  ComponentsOf(sigs, weights, reported) \in [Components -> ComponentSet]
<1>1. \A c \in Components : weights[c] \in Nat
  OBVIOUS
<1>2. \A c \in DOMAIN CodesOf : Grouped(c, sigs, weights[c]) \in ComponentSet
  BY <1>1, GroupedIs, ComponentsAreFinite
<1>3. "passed" \in Statuses /\ Full \in 0 .. Full
  BY DEF Statuses, Full
<1>4. \A c \in Components : /\ Component("passed", reported, weights[c]) \in ComponentSet
                             /\ Component("passed", Full, weights[c]) \in ComponentSet
  BY <1>1, <1>3 DEF Component, ComponentSet
<1> QED
  BY <1>2, <1>4 DEF ComponentsOf

WeightOf(components) == [c \in Components |-> components[c].weight]
ContributionOf(components) ==
  [c \in Components |-> components[c].score * components[c].weight]
WeightSum(components) == Total(WeightOf(components), Components)
ScoreSum(components) == Total(ContributionOf(components), Components)
Mean(components) == Rounded(ScoreSum(components), WeightSum(components))

\* What the components that have a weight add up to is what all do.
LEMMA SumsOfComponents ==
  ASSUME NEW components \in [Components -> ComponentSet]
  PROVE  LET weighed == {c \in Components : components[c].weight > 0}
             Weight(c) == components[c].weight
             Contribution(c) == components[c].score * components[c].weight
         IN  /\ MapThenSumSet(Weight, weighed) = WeightSum(components)
             /\ MapThenSumSet(Contribution, weighed) = ScoreSum(components)
<1> DEFINE weighed == {c \in Components : components[c].weight > 0}
           Weight(c) == components[c].weight
           Contribution(c) == components[c].score * components[c].weight
           w == WeightOf(components)
           v == ContributionOf(components)
           x == [c \in weighed |-> components[c].weight]
           y == [c \in weighed |-> components[c].score * components[c].weight]
<1>1. weighed \in SUBSET Components /\ IsFiniteSet(weighed) /\ IsFiniteSet(Components)
  BY ComponentsAreFinite, FS_Subset
<1>2. \A c \in Components : components[c].weight \in Nat /\ components[c].score \in Nat
  BY DEF ComponentSet
<1>3. \A c \in Components : w[c] \in Int /\ v[c] \in Int
  BY <1>2 DEF WeightOf, ContributionOf
<1>4. \A c \in Components \ weighed : w[c] = 0 /\ v[c] = 0
  BY <1>2 DEF WeightOf, ContributionOf
<1>5. \A c \in weighed : w[c] = x[c] /\ v[c] = y[c]
  BY DEF WeightOf, ContributionOf
<1>6. MapThenSumSet(Weight, weighed) = Total(x, weighed)
  <2> HIDE DEF weighed
  <2> QED
    BY <1>1, SumOfWeights
<1>7. MapThenSumSet(Contribution, weighed) = Total(y, weighed)
  <2> HIDE DEF weighed
  <2> QED
    BY <1>1, SumOfContributions
<1> HIDE DEF weighed, w, v, x, y
<1>8. Total(w, Components) = Total(w, weighed) /\ Total(v, Components) = Total(v, weighed)
  BY <1>1, <1>3, <1>4, TotalWithoutZeros
<1>9. Total(w, weighed) = Total(x, weighed) /\ Total(v, weighed) = Total(y, weighed)
  BY <1>1, <1>5, TotalOfEquals
<1> QED
  BY <1>6, <1>7, <1>8, <1>9 DEF WeightSum, ScoreSum, w, v, weighed

Blocks(components) ==
  \E c \in Components : components[c].weight > 0 /\ components[c].status = "failed"

Weighs(components) == \E c \in Components : components[c].weight > 0

BandOfComponents(components) ==
  IF Blocks(components) THEN "blocked" ELSE Band(Mean(components))

\* What a score is.
LEMMA ScoredIs ==
  ASSUME NEW sigs, NEW weights, NEW reported,
         ComponentsOf(sigs, weights, reported) \in [Components -> ComponentSet]
  PROVE  LET components == ComponentsOf(sigs, weights, reported)
             scored == Scored(sigs, weights, reported)
         IN  IF (sigs # {} /\ \A s \in sigs : s.status = "not_applicable")
               \/ ~Weighs(components)
             THEN scored.score = None /\ scored.band = "not_applicable"
             ELSE scored.score = Mean(components)
             /\ scored.band = BandOfComponents(components)
<1> DEFINE components == ComponentsOf(sigs, weights, reported)
           weighed == {c \in Components : components[c].weight > 0}
           Weight(c) == components[c].weight
           Contribution(c) == components[c].score * components[c].weight
           total == MapThenSumSet(Weight, weighed)
           score == Rounded(MapThenSumSet(Contribution, weighed), total)
           band ==
             IF \E c \in weighed :
               components[c].status = "failed" THEN "blocked" ELSE Band(score)
<1>1. total = WeightSum(components)
      /\ MapThenSumSet(Contribution, weighed) = ScoreSum(components)
  <2> HIDE DEF components
  <2> QED
    BY SumsOfComponents DEF components
<1>2. score = Mean(components)
  BY <1>1 DEF Mean
<1>3. Scored(sigs, weights, reported) =
        IF sigs # {} /\ \A s \in sigs : s.status = "not_applicable"
        THEN Summary("not_applicable", None, "not_applicable")
        ELSE IF weighed = {} THEN Summary("unavailable", None, "not_applicable")
        ELSE IF band = "blocked" THEN Summary("failed", score, band)
        ELSE IF \E c \in Components : components[c].status = "unavailable"
        THEN Summary("unavailable", score, band)
        ELSE Summary("passed", score, band)
  BY DEF Scored
<1> HIDE DEF components, total, score
<1>4. weighed = {} <=> ~Weighs(components)
  BY DEF Weighs
<1>5. band = BandOfComponents(components)
  BY <1>2 DEF BandOfComponents, Blocks
<1> HIDE DEF weighed, band
<1> QED
  BY <1>2, <1>3, <1>4, <1>5 DEF Summary, components

-----------------------------------------------------------------------------
(* What moves the mean.                                                    *)

\* The numbers of a component, and what it adds to the sums.
LEMMA ComponentNumbers ==
  ASSUME NEW components \in [Components -> ComponentSet]
  PROVE  \A c \in Components :
           /\ components[c].weight \in Nat /\ components[c].score \in Nat
           /\ components[c].score <= Full
           /\ components[c].score * components[c].weight \in Nat
           /\ components[c].score * components[c].weight <= Full * components[c].weight
           /\ WeightOf(components)[c] = components[c].weight
           /\ ContributionOf(components)[c] = components[c].score * components[c].weight
<1> TAKE c \in Components
<1> DEFINE w == components[c].weight
           n == components[c].score
<1>1. w \in Nat /\ n \in 0 .. Full /\ Full \in Nat
  <2>1. components[c] \in ComponentSet
    OBVIOUS
  <2>2. w \in Nat /\ n \in 0 .. Full
    BY <2>1 DEF ComponentSet
  <2>3. Full \in Nat
    BY DEF Full
  <2> QED
    BY <2>2, <2>3
<1> HIDE DEF w, n
<1>2. n \in Nat /\ n <= Full
  BY <1>1
<1>3. \A i, j, k \in Nat : i <= j => i * k \in Nat /\ i * k <= j * k
  OBVIOUS
<1>4. n * w \in Nat /\ n * w <= Full * w
  BY <1>1, <1>2, <1>3
<1>5. WeightOf(components)[c] = w /\ ContributionOf(components)[c] = n * w
  BY DEF WeightOf, ContributionOf, w, n
<1> QED
  BY <1>1, <1>2, <1>4, <1>5 DEF w, n

\* The sums over the components, and over those but one.
LEMMA SumsWithout ==
  ASSUME NEW components \in [Components -> ComponentSet], NEW c \in Components
  PROVE  LET W == Total(WeightOf(components), Components \ {c})
             S == Total(ContributionOf(components), Components \ {c})
         IN  /\ W \in Nat /\ S \in Nat /\ S <= Full * W
             /\ WeightSum(components) = components[c].weight + W
             /\ ScoreSum(components) = components[c].score * components[c].weight + S
<1> DEFINE C == Components
           R == Components \ {c}
           w == WeightOf(components)
           v == ContributionOf(components)
           m == [d \in C |-> Full * w[d]]
           zero == [d \in C |-> 0]
<1>1. IsFiniteSet(C) /\ IsFiniteSet(R) /\ R \in SUBSET C /\ Full \in Nat
  BY ComponentsAreFinite, FS_Subset DEF Full
<1>2. \A d \in C : w[d] \in Nat /\ v[d] \in Nat /\ v[d] <= Full * w[d]
  BY ComponentNumbers
<1>3. w[c] = components[c].weight /\ v[c] = components[c].score * components[c].weight
  BY ComponentNumbers
<1> HIDE DEF w, v
<1>4. \A d \in C : w[d] \in Int /\ v[d] \in Int /\ m[d] = Full * w[d] /\ m[d] \in Int
  BY <1>1, <1>2
<1> HIDE DEF C, R, m
<1>5. /\ Total(w, R) \in Nat /\ Total(v, R) \in Nat
  BY <1>1, <1>2, TotalOfPart
<1>6. Total(v, R) <= Total(m, R) /\ Total(m, R) = Full * Total(w, R)
  <2>1. \A d \in R : w[d] \in Int /\ v[d] \in Int /\ m[d] = Full * w[d] /\ m[d] \in Int
        /\ v[d] <= m[d]
    BY <1>1, <1>2, <1>4
  <2>2. Total(v, R) <= Total(m, R)
    BY <1>1, <2>1, TotalIsMonotonic
  <2>3. Full \in Int
    BY <1>1
  <2>4. Total(m, R) = Full * Total(w, R)
    BY <1>1, <2>1, <2>3, TotalOfMultiples
  <2> QED
    BY <2>2, <2>4
<1>7. Total(w, C) = w[c] + Total(w, R) /\ Total(v, C) = v[c] + Total(v, R)
  <2>1. \A d \in C : w[d] \in Int
    BY <1>4
  <2>2. \A d \in C : v[d] \in Int
    BY <1>4
  <2>3. c \in C /\ R = C \ {c}
    BY DEF C, R
  <2>4. Total(w, C) = w[c] + Total(w, C \ {c})
    BY <1>1, <2>1, <2>3, TotalTakesAny
  <2>5. Total(v, C) = v[c] + Total(v, C \ {c})
    BY <1>1, <2>2, <2>3, TotalTakesAny
  <2> QED
    BY <2>3, <2>4, <2>5
<1>8. Total(w, Components \ {c}) = Total(w, R) /\ Total(v, Components \ {c}) = Total(v, R)
      /\ WeightSum(components) = Total(w, C) /\ ScoreSum(components) = Total(v, C)
  BY DEF WeightSum, ScoreSum, C, R, w, v
<1>9. Total(v, R) <= Full * Total(w, R)
  BY <1>6
<1> QED
  BY <1>3, <1>5, <1>7, <1>8, <1>9 DEF w, v

\* A mean of scores is a score.
LEMMA MeanIsBounded ==
  ASSUME NEW components \in [Components -> ComponentSet], Weighs(components)
  PROVE  /\ WeightSum(components) \in Nat \ {0} /\ ScoreSum(components) \in Nat
         /\ ScoreSum(components) <= WeightSum(components) * Full
         /\ Mean(components) \in 0 .. Full
<1>1. PICK c \in Components : components[c].weight > 0
  BY DEF Weighs
<1> DEFINE W == Total(WeightOf(components), Components \ {c})
           S == Total(ContributionOf(components), Components \ {c})
           w == components[c].weight
           v == components[c].score * components[c].weight
           sw == WeightSum(components)
           ss == ScoreSum(components)
<1>2. W \in Nat /\ S \in Nat /\ S <= Full * W /\ sw = w + W /\ ss = v + S
  BY SumsWithout
<1>3. w \in Nat /\ v \in Nat /\ v <= Full * w /\ w > 0 /\ Full \in Nat
  BY <1>1, ComponentNumbers DEF Full
<1> HIDE DEF W, S, w, v, sw, ss
<1>4. sw \in Nat \ {0} /\ ss \in Nat
  BY <1>2, <1>3
<1>5. Full * (w + W) = Full * w + Full * W
  BY <1>2, <1>3
<1>6. ss <= Full * (w + W)
  BY <1>2, <1>3, <1>5
<1>7. ss <= sw * Full
  BY <1>2, <1>3, <1>4, <1>6
<1>8. Rounded(ss, sw) \in 0 .. Full
  BY <1>3, <1>4, <1>7, RoundedIsBounded
<1> QED
  BY <1>4, <1>7, <1>8 DEF Mean, sw, ss

\* Components that are the same but for c.
Differ(a, b, c) == \A d \in Components \ {c} : a[d] = b[d]

\* The sums over two such sets of components differ in c alone.
LEMMA SumsOfTheSame ==
  ASSUME NEW a \in [Components -> ComponentSet], NEW b \in [Components -> ComponentSet],
         NEW c \in Components, Differ(a, b, c)
  PROVE  \E W, S \in Nat :
           /\ S <= Full * W
           /\ WeightSum(a) = a[c].weight + W /\ WeightSum(b) = b[c].weight + W
           /\ ScoreSum(a) = a[c].score * a[c].weight + S
           /\ ScoreSum(b) = b[c].score * b[c].weight + S
<1> DEFINE R == Components \ {c}
<1>1. IsFiniteSet(R)
  BY ComponentsAreFinite, FS_Subset
<1>2. \A d \in R : /\ WeightOf(a)[d] = WeightOf(b)[d]
                   /\ ContributionOf(a)[d] = ContributionOf(b)[d]
  BY DEF Differ, WeightOf, ContributionOf
<1> HIDE DEF R
<1>3. /\ Total(WeightOf(a), R) = Total(WeightOf(b), R)
      /\ Total(ContributionOf(a), R) = Total(ContributionOf(b), R)
  BY <1>1, <1>2, TotalOfEquals
<1>4. LET W == Total(WeightOf(a), R)
          S == Total(ContributionOf(a), R)
      IN  /\ W \in Nat /\ S \in Nat /\ S <= Full * W
          /\ WeightSum(a) = a[c].weight + W
          /\ ScoreSum(a) = a[c].score * a[c].weight + S
  BY SumsWithout DEF R
<1>5. LET W == Total(WeightOf(b), R)
          S == Total(ContributionOf(b), R)
      IN  /\ WeightSum(b) = b[c].weight + W
          /\ ScoreSum(b) = b[c].score * b[c].weight + S
  BY SumsWithout DEF R
<1> QED
  BY <1>3, <1>4, <1>5

\* The thresholds are numbers, in their order.
LEMMA ThresholdsAre ==
  /\ HighThreshold \in 0 .. Full /\ MediumThreshold \in 0 .. Full
     /\ LowThreshold \in 0 .. Full
  /\ HighThreshold \in Int /\ MediumThreshold \in Int /\ LowThreshold \in Int
  /\ HighThreshold > MediumThreshold /\ MediumThreshold > LowThreshold
<1>1. HighThreshold \in 0 .. Full /\ MediumThreshold \in 0 .. Full
      /\ LowThreshold \in 0 .. Full
  BY ScoringAssumption
<1>2. \A n \in 0 .. Full : n \in Int
  OBVIOUS
<1> QED
  BY <1>1, <1>2, ScoringAssumption

\* A higher mean never falls into a worse band.
LEMMA BandIsMonotonic ==
  ASSUME NEW x \in Int, NEW y \in Int, x <= y
  PROVE  Rank[Band(x)] <= Rank[Band(y)]
<1>1. /\ HighThreshold \in Int /\ MediumThreshold \in Int /\ LowThreshold \in Int
      /\ HighThreshold > MediumThreshold /\ MediumThreshold > LowThreshold
  BY ThresholdsAre
<1>2. Rank["blocked"] = 0 /\ Rank["low"] = 1 /\ Rank["medium"] = 2 /\ Rank["high"] = 3
  BY DEF Rank
<1> QED
  BY <1>1, <1>2 DEF Band

\* A component that scores less, with the weight it has, lowers the mean.
LEMMA LowerScore ==
  ASSUME NEW a \in [Components -> ComponentSet], NEW b \in [Components -> ComponentSet],
         NEW c \in Components, Differ(a, b, c), a[c].weight = b[c].weight,
         a[c].score <= b[c].score \/ a[c].weight = 0, Weighs(b)
  PROVE  Mean(a) <= Mean(b)
<1>1. PICK W, S \in Nat :
           /\ WeightSum(a) = a[c].weight + W /\ WeightSum(b) = b[c].weight + W
           /\ ScoreSum(a) = a[c].score * a[c].weight + S
           /\ ScoreSum(b) = b[c].score * b[c].weight + S
  BY SumsOfTheSame
<1>2. a[c].weight \in Nat /\ a[c].score \in Nat /\ b[c].score \in Nat
  BY ComponentNumbers
<1>3. a[c].score * a[c].weight <= b[c].score * b[c].weight
  <2>1. \A i, j, k \in Nat : i <= j \/ k = 0 => i * k <= j * k
    OBVIOUS
  <2> QED
    BY <1>2, <2>1
<1>4. WeightSum(b) \in Nat \ {0} /\ ScoreSum(b) \in Nat /\ Weighs(a)
  <2>1. Weighs(a)
    BY DEF Weighs, Differ
  <2> QED
    BY <2>1, MeanIsBounded
<1>5. WeightSum(a) = WeightSum(b) /\ ScoreSum(a) \in Nat
  BY <1>1, <1>4, MeanIsBounded
<1>6. ScoreSum(a) <= ScoreSum(b)
  <2>1. a[c].score * a[c].weight \in Nat /\ b[c].score * b[c].weight \in Nat
    BY ComponentNumbers
  <2> QED
    BY <1>1, <1>3, <2>1
<1>7. \A i, j, k \in Nat : i <= j => i * k <= j * k
  OBVIOUS
<1>8. ScoreSum(a) * WeightSum(b) <= ScoreSum(b) * WeightSum(a)
  BY <1>4, <1>5, <1>6, <1>7
<1> QED
  BY <1>4, <1>5, <1>8, RoundedIsMonotonic DEF Mean

\* A component that comes to have a weight lowers the mean or leaves it below its score.
LEMMA NewWeight ==
  ASSUME NEW a \in [Components -> ComponentSet], NEW b \in [Components -> ComponentSet],
         NEW c \in Components, Differ(a, b, c), b[c].weight = 0, Weighs(b)
  PROVE  Mean(a) <= Mean(b) \/ Mean(a) <= a[c].score
<1>1. PICK W, S \in Nat :
           /\ WeightSum(a) = a[c].weight + W /\ WeightSum(b) = b[c].weight + W
           /\ ScoreSum(a) = a[c].score * a[c].weight + S
           /\ ScoreSum(b) = b[c].score * b[c].weight + S
  BY SumsOfTheSame
<1> DEFINE u == a[c].score
           w == a[c].weight
<1>2. u \in Nat /\ w \in Nat /\ b[c].score \in Nat
  BY ComponentNumbers
<1>3. WeightSum(b) = W /\ ScoreSum(b) = S /\ W \in Nat \ {0}
  <2>1. b[c].score * b[c].weight = 0
    BY <1>2
  <2> QED
    BY <1>1, <2>1, MeanIsBounded
<1>4. WeightSum(a) = w + W /\ ScoreSum(a) = u * w + S
  BY <1>1
<1> HIDE DEF u, w
<1>5. u * w \in Nat /\ u * W \in Nat /\ w + W \in Nat \ {0} /\ u * w + S \in Nat
  BY <1>2, <1>3
<1>6. CASE u * W <= S
  <2>1. (u * w) * W = (u * W) * w /\ (u * w + S) * W = (u * w) * W + S * W
        /\ S * (w + W) = S * w + S * W
    BY <1>2, <1>3
  <2>2. (u * W) * w <= S * w
    BY <1>2, <1>5, <1>6
  <2>3. (u * w + S) * W <= S * (w + W)
    BY <1>2, <1>3, <1>5, <2>1, <2>2
  <2>4. Rounded(u * w + S, w + W) <= Rounded(S, W)
    BY <1>3, <1>5, <2>3, RoundedIsMonotonic
  <2> QED
    BY <1>3, <1>4, <2>4 DEF Mean
<1>7. CASE S <= u * W
  <2>1. u * w + S <= (w + W) * u
    <3>1. (w + W) * u = u * w + u * W
      BY <1>2, <1>3
    <3> QED
      BY <1>5, <1>7, <3>1
  <2>2. Rounded(u * w + S, w + W) \in 0 .. u
    BY <1>2, <1>5, <2>1, RoundedIsBounded
  <2>3. Mean(a) \in 0 .. u
    BY <1>4, <2>2 DEF Mean
  <2> QED
    BY <1>2, <2>3 DEF u
<1> QED
  BY <1>5, <1>6, <1>7

\* What is scored.
LEMMA ScoredIsASummary ==
  ASSUME NEW all \in SUBSET Signals, IsFiniteSet(all),
         NEW weights \in [Components -> Nat],
         NEW reported \in 0 .. Full
  PROVE  Scored(all, weights, reported) \in Summaries
<1> DEFINE components == ComponentsOf(all, weights, reported)
           scored == Scored(all, weights, reported)
           none == all # {} /\ \A s \in all : s.status = "not_applicable"
<1>1. components \in [Components -> ComponentSet]
  BY ComponentsOfIs
<1>2. IF none \/ ~Weighs(components)
      THEN scored.score = None /\ scored.band = "not_applicable"
      ELSE scored.score = Mean(components) /\ scored.band = BandOfComponents(components)
  BY <1>1, ScoredIs
<1>3. \E status \in {"passed", "failed", "unavailable", "not_applicable"} :
        \E score, band : scored = Summary(status, score, band)
  BY DEF Scored
<1> HIDE DEF scored, none, components
<1>4. BandOfComponents(components) \in {"high", "medium", "low", "blocked"}
  BY DEF BandOfComponents, Band
<1>5. Weighs(components) => Mean(components) \in 0 .. Full
  BY <1>1, MeanIsBounded
<1>6. scored.score \in {None} \cup 0 .. Full
      /\ scored.band \in {"high", "medium", "low", "blocked", "not_applicable"}
  BY <1>2, <1>4, <1>5
<1>7. scored \in Summaries
  BY <1>3, <1>6 DEF Summary, Summaries
<1> QED
  BY <1>7 DEF scored

-----------------------------------------------------------------------------
(* A check that is unavailable.                                            *)

\* Settings that score a check that was tried in vain no higher than one that did
\* not apply, than half of what a check that passed gives, and than what an alignment
\* has when it fails, and lower than every band but "blocked". The defaults are such
\* (0.35, 0.35, 0.55, 0.50); core/config.py does not require it.
PrudentSettings ==
  /\ UnavailableScore <= NotApplicableScore
  /\ UnavailableScore <= Full \div 2 /\ UnavailableScore <= FailThreshold
  /\ UnavailableScore < LowThreshold

\* What was tried and came out well scores no less than what is unavailable.
Tried(all) ==
  \A t \in all : t.status \in {"passed", "warning"} => UnavailableScore <= t.score

\* Codes belong to one component.
LEMMA CodesAreApart ==
  \A c, d \in DOMAIN CodesOf : c # d => CodesOf[c] \cap CodesOf[d] = {}
<1>1. /\ SchemaCodes \cap SanityCodes = {} /\ SchemaCodes \cap SemanticCodes = {}
      /\ SchemaCodes \cap MultiQueryCodes = {}
  BY DEF SchemaCodes, SanityCodes, PercentageCodes, SemanticCodes, MultiQueryCodes
<1>2. SanityCodes \cap SemanticCodes = {} /\ SanityCodes \cap MultiQueryCodes = {}
  BY DEF SanityCodes, PercentageCodes, SemanticCodes, MultiQueryCodes
<1>3. SemanticCodes \cap MultiQueryCodes = {}
  BY DEF SemanticCodes, MultiQueryCodes
<1>4. /\ DOMAIN CodesOf
           = {"schema_coverage", "result_sanity", "semantic_alignment",
              "multi_query_agreement"}
      /\ CodesOf["schema_coverage"] = SchemaCodes
         /\ CodesOf["result_sanity"] = SanityCodes
      /\ CodesOf["semantic_alignment"] = SemanticCodes
      /\ CodesOf["multi_query_agreement"] = MultiQueryCodes
  BY DEF CodesOf
<1> QED
  BY <1>1, <1>2, <1>3, <1>4

\* The score of what is unavailable is a number.
LEMMA UnavailableScoreIs == UnavailableScore \in 0 .. Full /\ UnavailableScore \in Nat
<1>1. \A n \in 0 .. Full : n \in Nat
  OBVIOUS
<1> QED
  BY <1>1, ScoringAssumption

\* A mean of scores none of which is below that of the unavailable is not lifted by it.
LEMMA MeanWithUnavailable ==
  ASSUME NEW A \in SUBSET Signals, IsFiniteSet(A), A # {},
         \A t \in A : UnavailableScore <= SignalScore(t),
         NEW s \in Signals \ A, s.status = "unavailable"
  PROVE  LET B == A \cup {s}
         IN  Rounded(MapThenSumSet(SignalScore, B), Cardinality(B))
               <= Rounded(MapThenSumSet(SignalScore, A), Cardinality(A))
<1> DEFINE B == A \cup {s}
           U == UnavailableScore
           h == [t \in B |-> SignalScore(t)]
           k == [t \in A |-> SignalScore(t)]
           b == [t \in A |-> U]
           x == MapThenSumSet(SignalScore, A)
           y == MapThenSumSet(SignalScore, B)
           n == Cardinality(A)
<1>1. IsFiniteSet(B) /\ Cardinality(B) = n + 1 /\ n \in Nat \ {0}
  BY FS_AddElement, FS_CardinalityType, FS_EmptySet
<1>2. \A t \in B : h[t] \in Int
  BY SignalScoreIs
<1>3. \A t \in A : k[t] = h[t] /\ k[t] \in Int /\ b[t] = U /\ b[t] \in Int /\ b[t] <= k[t]
  BY SignalScoreIs, UnavailableScoreIs
<1>4. h[s] = U
  BY DEF SignalScore
<1>5. x = Total(k, A) /\ y = Total(h, B)
  BY <1>1, SumOfScores
<1>6. B \ {s} = A /\ s \in B
  OBVIOUS
<1>13. x \in Nat /\ y \in Nat
  <2>1. x \in Nat
    BY MeanOfSignals
  <2>2. B \in SUBSET Signals /\ B # {}
    OBVIOUS
  <2>3. y \in Nat
    <3> HIDE DEF B
    <3> QED
      BY <1>1, <2>2, MeanOfSignals
  <2> QED
    BY <2>1, <2>3
<1> HIDE DEF h, k, b, x, y, n, U, B
<1>7. y = h[s] + Total(h, A)
  BY <1>1, <1>2, <1>5, <1>6, TotalTakesAny
<1>8. Total(h, A) = Total(k, A)
  BY <1>3, TotalOfEquals
<1>9. Total(b, A) <= Total(k, A) /\ Total(b, A) = U * n
  <2>1. U \in Int
    BY UnavailableScoreIs DEF U
  <2>2. Total(b, A) <= Total(k, A)
    BY <1>3, TotalIsMonotonic
  <2>3. Total(b, A) = U * n
    BY <1>3, <2>1, TotalOfConstant DEF n
  <2> QED
    BY <2>2, <2>3
<1>10. y = U + x /\ U * n <= x /\ U \in Nat
  BY <1>4, <1>5, <1>7, <1>8, <1>9, UnavailableScoreIs DEF U
<1>11. y * n <= x * (n + 1)
  <2>1. (U + x) * n = U * n + x * n /\ x * (n + 1) = x + x * n /\ x * n \in Int
        /\ U * n \in Int
    BY <1>1, <1>10, <1>13
  <2> QED
    BY <1>10, <1>13, <2>1
<1>12. Rounded(y, n + 1) <= Rounded(x, n)
  BY <1>1, <1>11, <1>13, RoundedIsMonotonic
<1> QED
  BY <1>1, <1>12 DEF x, y, n, B

\* What an unavailable signal does to the component that looks at it.
LEMMA GroupWithUnavailable ==
  ASSUME PrudentSettings, NEW all \in SUBSET Signals, IsFiniteSet(all), Tried(all),
         NEW s \in all, s.status = "unavailable",
         NEW c \in DOMAIN CodesOf, s.code \in CodesOf[c], NEW weight \in Nat
  PROVE  LET a == Grouped(c, all, weight)
             b == Grouped(c, all \ {s}, weight)
         IN  /\ a.status = "failed" <=> b.status = "failed"
             /\ \/ a.weight = b.weight /\ (a.status # "failed" => a.score <= b.score)
                \/ b.weight = 0 /\ a.score <= UnavailableScore /\ a.status # "failed"
                   /\ b.status # "failed"
<1> DEFINE a == Grouped(c, all, weight)
           b == Grouped(c, all \ {s}, weight)
           G == {t \in all : t.code \in CodesOf[c]}
           H == {t \in all \ {s} : t.code \in CodesOf[c]}
           A == {t \in G : t.status # "not_applicable"}
           B == {t \in H : t.status # "not_applicable"}
<1>1. A # {} /\ A = B \cup {s} /\ s \notin B /\ H = G \ {s} /\ s \in G
  OBVIOUS
<1>2. IsFiniteSet(B) /\ B \in SUBSET Signals /\ G \in SUBSET Signals
      /\ H \in SUBSET Signals /\ s \in Signals \ B
  BY FS_Subset
<1>3. a = Component(GroupedStatus(G),
                    Rounded(MapThenSumSet(SignalScore, A), Cardinality(A)), weight)
  BY <1>1 DEF Grouped
<1>4. b = IF B # {}
          THEN Component(GroupedStatus(H),
                         Rounded(MapThenSumSet(SignalScore, B), Cardinality(B)), weight)
          ELSE IF c \notin Critical THEN Component("not_applicable", 0, 0)
          ELSE IF H = {} THEN Component("unavailable", UnavailableScore, weight)
          ELSE Component("not_applicable", NotApplicableScore, weight)
  BY DEF Grouped
<1>5. /\ GroupedStatus(G) = "failed" <=> \E t \in G : t.status = "failed"
      /\ GroupedStatus(H) = "failed" <=> \E t \in H : t.status = "failed"
  <2>1. \A t \in Signals : t.status \in Statuses
    BY DEF Signals
  <2> HIDE DEF G, H
  <2> QED
    BY <1>2, <2>1, GroupedStatusIs
<1>6. GroupedStatus(G) = "failed" <=> GroupedStatus(H) = "failed"
  BY <1>1, <1>5
<1>7. CASE B # {}
  <2>1. b = Component(GroupedStatus(H),
                      Rounded(MapThenSumSet(SignalScore, B), Cardinality(B)), weight)
    BY <1>4, <1>7
  <2>2. ASSUME GroupedStatus(G) # "failed"
        PROVE  a.score <= b.score
    <3>1. \A t \in B : UnavailableScore <= SignalScore(t)
      <4> SUFFICES ASSUME NEW t \in B
                   PROVE  UnavailableScore <= SignalScore(t)
        OBVIOUS
      <4>1. t \in Signals /\ t.status \in {"passed", "warning", "unavailable"}
        BY <1>2, <1>5, <2>2 DEF Signals, Statuses
      <4>2. t.status \in {"passed", "warning"} => UnavailableScore <= t.score
        BY DEF Tried
      <4> HIDE DEF B
      <4>3. CASE t.status = "unavailable"
        BY <4>3, UnavailableScoreIs DEF SignalScore
      <4>4. CASE t.status = "passed"
        BY <4>2, <4>4 DEF SignalScore
      <4>5. CASE t.status = "warning"
        <5> DEFINE cap == 7500
        <5>1. t.score \in 0 .. Full
          BY <4>1 DEF Signals
        <5>2. \A n \in 0 .. Full : n \in Nat /\ cap \in Nat
          BY DEF Full
        <5>3. UnavailableScore <= cap
          BY UnavailableScoreIs DEF PrudentSettings, Full
        <5>4. SignalScore(t) = Min({t.score, cap})
          BY <4>5 DEF SignalScore
        <5> HIDE DEF cap
        <5> QED
          BY <4>2, <4>5, <5>1, <5>2, <5>3, <5>4, MinOfTwo
      <4> QED
        BY <4>1, <4>3, <4>4, <4>5
    <3> HIDE DEF A, B
    <3>2. Rounded(MapThenSumSet(SignalScore, A), Cardinality(A))
            <= Rounded(MapThenSumSet(SignalScore, B), Cardinality(B))
      BY <1>1, <1>2, <1>7, <3>1, MeanWithUnavailable
    <3> QED
      BY <1>3, <2>1, <3>2 DEF Component
  <2> HIDE DEF a, b, A, B, G, H
  <2>3. a.status = GroupedStatus(G) /\ b.status = GroupedStatus(H) /\ a.weight = b.weight
    BY <1>3, <2>1 DEF Component
  <2> QED
    BY <1>6, <2>2, <2>3 DEF a, b
<1>8. CASE B = {}
  <2>1. A = {s}
    BY <1>1, <1>8
  <2>2. a.score = UnavailableScore
    <3>1. IsFiniteSet(A) /\ Cardinality(A) = 1
      BY <2>1, FS_Singleton
    <3> DEFINE h == [t \in A |-> SignalScore(t)]
    <3>2. MapThenSumSet(SignalScore, A) = Total(h, A)
      BY <3>1, SumOfScores
    <3>3. \A t \in A : h[t] = UnavailableScore
      BY <2>1 DEF SignalScore
    <3> HIDE DEF h, A
    <3>4. Total(h, A) = UnavailableScore * 1
      BY <3>1, <3>3, TotalOfConstant, UnavailableScoreIs
    <3>5. Rounded(UnavailableScore, 1) = UnavailableScore
      BY UnavailableScoreIs DEF Rounded
    <3>6. a.score = Rounded(MapThenSumSet(SignalScore, A), Cardinality(A))
      BY <1>3 DEF Component
    <3>7. MapThenSumSet(SignalScore, A) = UnavailableScore
      BY <3>2, <3>4, UnavailableScoreIs
    <3> QED
      BY <3>1, <3>5, <3>6, <3>7
  <2>3. \A t \in H : t.status = "not_applicable"
    BY <1>8
  <2>4. GroupedStatus(G) # "failed"
    BY <1>1, <1>5, <2>3
  <2> HIDE DEF a, b, A, B, G, H
  <2>5. a.status # "failed" /\ a.weight = weight
    BY <1>3, <2>4 DEF Component
  <2>6. \/ b = Component("not_applicable", 0, 0)
        \/ b = Component("unavailable", UnavailableScore, weight)
        \/ b = Component("not_applicable", NotApplicableScore, weight)
    BY <1>4, <1>8
  <2>7. b.status # "failed"
        /\ \/ b.weight = 0
           \/ b.weight = weight /\ b.score \in {UnavailableScore, NotApplicableScore}
    BY <2>6 DEF Component
  <2>8. \A v \in {UnavailableScore, NotApplicableScore} : UnavailableScore <= v
    BY UnavailableScoreIs DEF PrudentSettings
  <2>9. a.score <= UnavailableScore
    BY <2>2, UnavailableScoreIs
  <2> QED
    BY <2>2, <2>5, <2>7, <2>8, <2>9 DEF a, b
<1> QED
  BY <1>7, <1>8

\* The components that do not look at a signal do not change without it.
LEMMA OthersStay ==
  ASSUME NEW all \in SUBSET Signals, NEW s \in all, NEW weights, NEW reported,
         NEW d \in Components,
         ~(d \in DOMAIN CodesOf /\ s.code \in CodesOf[d])
  PROVE  ComponentsOf(all, weights, reported)[d]
           = ComponentsOf(all \ {s}, weights, reported)[d]
<1>1. CASE d \notin DOMAIN CodesOf
  BY <1>1 DEF ComponentsOf
<1>2. CASE d \in DOMAIN CodesOf
  <2>1. {t \in all : t.code \in CodesOf[d]} = {t \in all \ {s} : t.code \in CodesOf[d]}
    BY <1>2
  <2>2. Grouped(d, all, weights[d]) = Grouped(d, all \ {s}, weights[d])
    BY <2>1 DEF Grouped
  <2> QED
    BY <1>2, <2>2 DEF ComponentsOf
<1> QED
  BY <1>1, <1>2

\* Components that are the same, or differ in one that blocks neither time.
LEMMA BandsCompare ==
  ASSUME NEW a \in [Components -> ComponentSet], NEW b \in [Components -> ComponentSet],
         Weighs(a), Weighs(b), Blocks(b) => Blocks(a),
         ~Blocks(a) => (Mean(a) <= Mean(b) \/ Mean(a) < LowThreshold)
  PROVE  Rank[BandOfComponents(a)] <= Rank[BandOfComponents(b)]
<1>1. Mean(a) \in Int /\ Mean(b) \in Int
  BY MeanIsBounded
<1>2. /\ Rank["blocked"] = 0 /\ \A band \in DOMAIN Rank : Rank[band] \in Nat
      /\ \A x \in Int : Band(x) \in DOMAIN Rank
  BY DEF Rank, Band
<1>3. CASE Blocks(a)
  <2>1. BandOfComponents(a) = "blocked" /\ BandOfComponents(b) \in DOMAIN Rank
    BY <1>1, <1>2, <1>3 DEF BandOfComponents, Rank
  <2>2. Rank[BandOfComponents(b)] \in Nat
    BY <1>2, <2>1
  <2> QED
    BY <1>2, <2>1, <2>2
<1>4. CASE ~Blocks(a)
  <2>1. BandOfComponents(a) = Band(Mean(a)) /\ BandOfComponents(b) = Band(Mean(b))
    BY <1>4 DEF BandOfComponents
  <2>2. CASE Mean(a) <= Mean(b)
    BY <1>1, <2>1, <2>2, BandIsMonotonic
  <2>3. CASE Mean(a) < LowThreshold
    <3>1. Band(Mean(a)) = "blocked"
      BY <1>1, <2>3, ThresholdsAre DEF Band
    <3>2. Rank[Band(Mean(b))] \in Nat
      BY <1>1, <1>2
    <3> QED
      BY <1>2, <2>1, <3>1, <3>2
  <2> QED
    BY <1>4, <2>2, <2>3
<1> QED
  BY <1>3, <1>4

\* An answer is in no better band for a check that was tried in vain.
LEMMA UnavailableDoesNotLift ==
  ASSUME PrudentSettings, NEW all \in SUBSET Signals, IsFiniteSet(all), Tried(all),
         NEW s \in all, s.status = "unavailable",
         NEW weights \in [Components -> Nat], NEW reported \in 0 .. Full,
         Scored(all \ {s}, weights, reported).band \in DOMAIN Rank
  PROVE  Rank[Scored(all, weights, reported).band]
           <= Rank[Scored(all \ {s}, weights, reported).band]
<1> DEFINE rest == all \ {s}
           a == ComponentsOf(all, weights, reported)
           b == ComponentsOf(rest, weights, reported)
<1>1. rest \in SUBSET Signals /\ IsFiniteSet(rest)
  BY FS_Subset
<1>2. a \in [Components -> ComponentSet] /\ b \in [Components -> ComponentSet]
  <2> HIDE DEF rest
  <2> QED
    BY <1>1, ComponentsOfIs
<1>3. ~(rest # {} /\ \A t \in rest : t.status = "not_applicable") /\ Weighs(b)
      /\ Scored(rest, weights, reported).band = BandOfComponents(b)
  <2>1. "not_applicable" \notin DOMAIN Rank
    BY DEF Rank
  <2> HIDE DEF rest
  <2> QED
    BY <1>2, <2>1, ScoredIs DEF rest
<1>4. ~(\A t \in all : t.status = "not_applicable")
  OBVIOUS
<1>5. \A c \in Components : a[c].weight \in Nat /\ b[c].weight \in Nat
      /\ a[c].score \in Nat /\ b[c].score \in Nat
  BY <1>2, ComponentNumbers
<1>6. CASE \E c \in DOMAIN CodesOf : s.code \in CodesOf[c]
  <2>1. PICK c \in DOMAIN CodesOf : s.code \in CodesOf[c]
    BY <1>6
  <2>2. c \in Components /\ weights[c] \in Nat
    BY ComponentsAreFinite
  <2>3. a[c] = Grouped(c, all, weights[c]) /\ b[c] = Grouped(c, rest, weights[c])
    BY <2>1, <2>2 DEF ComponentsOf
  <2>4. /\ a[c].status = "failed" <=> b[c].status = "failed"
        /\ \/ a[c].weight = b[c].weight
              /\ (a[c].status # "failed" => a[c].score <= b[c].score)
           \/ b[c].weight = 0 /\ a[c].score <= UnavailableScore
              /\ a[c].status # "failed" /\ b[c].status # "failed"
    BY <2>1, <2>2, <2>3, GroupWithUnavailable
  <2>5. Differ(a, b, c)
    <3> SUFFICES ASSUME NEW d \in Components \ {c}
                 PROVE  a[d] = b[d]
      BY DEF Differ
    <3>1. ~(d \in DOMAIN CodesOf /\ s.code \in CodesOf[d])
      BY <2>1, CodesAreApart
    <3> QED
      BY <3>1, OthersStay
  <2> HIDE DEF a, b
  <2>6. Weighs(a)
    <3>1. PICK d \in Components : b[d].weight > 0
      BY <1>3 DEF Weighs
    <3>2. a[d].weight > 0
      <4>1. CASE d = c
        BY <1>5, <2>2, <2>4, <3>1, <4>1
      <4>2. CASE d # c
        BY <2>5, <3>1, <4>2 DEF Differ
      <4> QED
        BY <4>1, <4>2
    <3> QED
      BY <3>2 DEF Weighs
  <2>7. Blocks(b) => Blocks(a)
    <3> SUFFICES ASSUME NEW d \in Components, b[d].weight > 0, b[d].status = "failed"
                 PROVE  a[d].weight > 0 /\ a[d].status = "failed"
      BY DEF Blocks
    <3>1. CASE d = c
      BY <1>5, <2>2, <2>4, <3>1
    <3>2. CASE d # c
      BY <2>5, <3>2 DEF Differ
    <3> QED
      BY <3>1, <3>2
  <2>8. ASSUME ~Blocks(a)
        PROVE  Mean(a) <= Mean(b) \/ Mean(a) < LowThreshold
    <3>1. a[c].status = "failed" => a[c].weight = 0
      BY <1>5, <2>2, <2>8 DEF Blocks
    <3>2. CASE a[c].weight = b[c].weight
               /\ (a[c].status # "failed" => a[c].score <= b[c].score)
      BY <1>2, <1>3, <2>2, <2>5, <3>1, <3>2, LowerScore
    <3>3. CASE b[c].weight = 0 /\ a[c].score <= UnavailableScore
      <4>1. Mean(a) <= Mean(b) \/ Mean(a) <= a[c].score
        BY <1>2, <1>3, <2>2, <2>5, <3>3, NewWeight
      <4>2. Mean(a) \in Int
        BY <1>2, <2>6, MeanIsBounded
      <4> QED
        BY <1>5, <2>2, <3>3, <4>1, <4>2, ThresholdsAre,
           UnavailableScoreIs DEF PrudentSettings
    <3> QED
      BY <2>4, <3>2, <3>3
  <2>9. Scored(all, weights, reported).band = BandOfComponents(a)
    BY <1>2, <1>4, <2>6, ScoredIs DEF a
  <2>10. Rank[BandOfComponents(a)] <= Rank[BandOfComponents(b)]
    BY <1>2, <1>3, <2>6, <2>7, <2>8, BandsCompare
  <2> QED
    BY <1>3, <2>9, <2>10 DEF rest
<1>7. CASE ~\E c \in DOMAIN CodesOf : s.code \in CodesOf[c]
  <2>1. ASSUME NEW d \in Components
        PROVE  a[d] = b[d]
    <3>1. ~(d \in DOMAIN CodesOf /\ s.code \in CodesOf[d])
      BY <1>7
    <3> QED
      BY <3>1, OthersStay
  <2> HIDE DEF a, b
  <2>2. a = b
    BY <1>2, <2>1
  <2>3. Scored(all, weights, reported).band = BandOfComponents(a)
    BY <1>2, <1>3, <1>4, <2>2, ScoredIs DEF a
  <2>4. Rank[BandOfComponents(a)] <= Rank[BandOfComponents(b)]
    <3>1. Mean(a) \in Int
      BY <1>2, <1>3, <2>2, MeanIsBounded
    <3> QED
      BY <1>2, <1>3, <2>2, <3>1, BandsCompare
  <2> QED
    BY <1>3, <2>3, <2>4 DEF rest
<1> QED
  BY <1>6, <1>7

-----------------------------------------------------------------------------
(* The model's own confidence.                                             *)

\* The thresholds are far apart.
Gap == 300
SeparateBands ==
  HighThreshold - MediumThreshold >= Gap /\ MediumThreshold - LowThreshold >= Gap

\* A mean that is higher by less than the gap is at most one band better.
LEMMA BandsAreWide ==
  ASSUME SeparateBands, NEW x \in Int, NEW y \in Int, x <= y + 299
  PROVE  Rank[Band(x)] - Rank[Band(y)] <= 1
<1>1. Rank["blocked"] = 0 /\ Rank["low"] = 1 /\ Rank["medium"] = 2 /\ Rank["high"] = 3
  BY DEF Rank
<1> QED
  BY <1>1, ThresholdsAre DEF Band, SeparateBands, Gap

\* Under the default weights the components that always count weigh 67.
LEMMA DefaultWeighing ==
  ASSUME NEW all \in SUBSET Signals, IsFiniteSet(all), NEW reported \in 0 .. Full
  PROVE  LET components == ComponentsOf(all, DefaultWeights, reported)
         IN  Weighs(components) /\ 67 <= WeightSum(components)
<1> DEFINE components == ComponentsOf(all, DefaultWeights, reported)
           w == WeightOf(components)
           D1 == Components \ {"sql_syntax_validity"}
           D2 == D1 \ {"guardrail_approval"}
           D3 == D2 \ {"schema_coverage"}
           D4 == D3 \ {"result_sanity"}
           D5 == D4 \ {"model_reported_confidence"}
<1>1. /\ DefaultWeights["sql_syntax_validity"] = 10
      /\ DefaultWeights["guardrail_approval"] = 15
      /\ DefaultWeights["schema_coverage"] = 20 /\ DefaultWeights["result_sanity"] = 20
      /\ DefaultWeights["model_reported_confidence"] = 2
      /\ DefaultWeights \in [Components -> Nat]
      /\ {"sql_syntax_validity", "guardrail_approval", "schema_coverage", "result_sanity",
          "model_reported_confidence"} \subseteq Components
      /\ DOMAIN CodesOf
           = {"schema_coverage", "result_sanity", "semantic_alignment",
              "multi_query_agreement"}
  BY DEF DefaultWeights, Components, CodesOf
<1>2. components \in [Components -> ComponentSet]
  BY <1>1, ComponentsOfIs
<1>3. \A c \in Critical : \A weight : Grouped(c, all, weight).weight = weight
  BY DEF Grouped, Component
<1>4. /\ components["sql_syntax_validity"].weight = 10
      /\ components["guardrail_approval"].weight = 15
      /\ components["schema_coverage"].weight = 20
      /\ components["result_sanity"].weight = 20
      /\ components["model_reported_confidence"].weight = 2
  BY <1>1, <1>3 DEF ComponentsOf, Component, Critical
<1> HIDE DEF components
<1>5. \A c \in Components : w[c] \in Nat /\ w[c] = components[c].weight
  BY <1>2, ComponentNumbers
<1>6. \A c \in Components : w[c] \in Int
  BY <1>5
<1> HIDE DEF w
<1>7. Total(w, Components) = w["sql_syntax_validity"] + Total(w, D1)
  BY <1>1, <1>6, ComponentsAreFinite, TotalTakesAny
<1>8. Total(w, D1) = w["guardrail_approval"] + Total(w, D2)
  <2>1. IsFiniteSet(D1) /\ "guardrail_approval" \in D1 /\ \A c \in D1 : w[c] \in Int
    BY <1>1, <1>6, ComponentsAreFinite, FS_Subset
  <2> HIDE DEF D1
  <2> QED
    BY <2>1, TotalTakesAny
<1>9. Total(w, D2) = w["schema_coverage"] + Total(w, D3)
  <2>1. IsFiniteSet(D2) /\ "schema_coverage" \in D2 /\ \A c \in D2 : w[c] \in Int
    BY <1>1, <1>6, ComponentsAreFinite, FS_Subset
  <2> HIDE DEF D2
  <2> QED
    BY <2>1, TotalTakesAny
<1>10. Total(w, D3) = w["result_sanity"] + Total(w, D4)
  <2>1. IsFiniteSet(D3) /\ "result_sanity" \in D3 /\ \A c \in D3 : w[c] \in Int
    BY <1>1, <1>6, ComponentsAreFinite, FS_Subset
  <2> HIDE DEF D3
  <2> QED
    BY <2>1, TotalTakesAny
<1>11. Total(w, D4) = w["model_reported_confidence"] + Total(w, D5)
  <2>1. IsFiniteSet(D4) /\ "model_reported_confidence" \in D4
        /\ \A c \in D4 : w[c] \in Int
    BY <1>1, <1>6, ComponentsAreFinite, FS_Subset
  <2> HIDE DEF D4
  <2> QED
    BY <2>1, TotalTakesAny
<1>12. Total(w, D5) \in Nat
  <2>1. D5 \in SUBSET Components
    OBVIOUS
  <2> HIDE DEF D5
  <2> QED
    BY <1>5, <2>1, ComponentsAreFinite, TotalOfPart
<1> HIDE DEF D1, D2, D3, D4, D5
<1>13. Total(w, Components) = 10 + (15 + (20 + (20 + (2 + Total(w, D5)))))
  BY <1>1, <1>4, <1>5, <1>7, <1>8, <1>9, <1>10, <1>11
<1>14. 67 <= WeightSum(components)
  BY <1>12, <1>13 DEF WeightSum, w
<1>15. Weighs(components)
  BY <1>1, <1>4 DEF Weighs
<1> QED
  BY <1>14, <1>15 DEF components

\* The model's own confidence moves the mean by less than the gap of the bands.
LEMMA ReportMovesTheMean ==
  ASSUME NEW all \in SUBSET Signals, IsFiniteSet(all), NEW r \in 0 .. Full,
         NEW q \in 0 .. Full
  PROVE  Mean(ComponentsOf(all, DefaultWeights, r))
           <= Mean(ComponentsOf(all, DefaultWeights, q)) + 299
<1> DEFINE c == "model_reported_confidence"
           a == ComponentsOf(all, DefaultWeights, r)
           b == ComponentsOf(all, DefaultWeights, q)
<1>1. c \in Components /\ c \notin DOMAIN CodesOf /\ DefaultWeights[c] = 2
      /\ DefaultWeights \in [Components -> Nat]
  BY DEF DefaultWeights, Components, CodesOf
<1>2. a \in [Components -> ComponentSet] /\ b \in [Components -> ComponentSet]
  BY <1>1, ComponentsOfIs
<1>3. a[c] = Component("passed", r, 2) /\ b[c] = Component("passed", q, 2)
  BY <1>1 DEF ComponentsOf
<1>4. Differ(a, b, c)
  BY DEF Differ, ComponentsOf
<1>5. Weighs(a) /\ 67 <= WeightSum(a) /\ Weighs(b)
  BY DefaultWeighing
<1> HIDE DEF a, b, c
<1>6. PICK W, S \in Nat :
           /\ WeightSum(a) = a[c].weight + W /\ WeightSum(b) = b[c].weight + W
           /\ ScoreSum(a) = a[c].score * a[c].weight + S
           /\ ScoreSum(b) = b[c].score * b[c].weight + S
  BY <1>1, <1>2, <1>4, SumsOfTheSame
<1>7. a[c].weight = 2 /\ b[c].weight = 2 /\ a[c].score = r /\ b[c].score = q
  BY <1>3 DEF Component
<1>8. WeightSum(a) = WeightSum(b) /\ ScoreSum(a) = r * 2 + S /\ ScoreSum(b) = q * 2 + S
  BY <1>6, <1>7
<1>9. WeightSum(b) \in Nat \ {0} /\ ScoreSum(b) \in Nat /\ ScoreSum(a) \in Nat
  BY <1>2, <1>5, MeanIsBounded
<1>10. ScoreSum(a) <= ScoreSum(b) + 20000
  <2>1. r \in Int /\ q \in Int /\ r * 2 <= q * 2 + 20000
    BY DEF Full
  <2> QED
    BY <1>6, <1>8, <2>1
<1>11. ScoreSum(a) <= ScoreSum(b) + WeightSum(b) * 299
  BY <1>5, <1>8, <1>9, <1>10
<1>12. Rounded(ScoreSum(a), WeightSum(b)) <= Rounded(ScoreSum(b), WeightSum(b)) + 299
  BY <1>9, <1>11, RoundedMoves
<1> QED
  BY <1>8, <1>12 DEF Mean, a, b

\* The model's own confidence moves the band of an answer by one at most.
LEMMA ReportMovesTheBand ==
  ASSUME SeparateBands, NEW all \in SUBSET Signals, IsFiniteSet(all),
         NEW r \in 0 .. Full, NEW q \in 0 .. Full,
         Scored(all, DefaultWeights, q).band \in DOMAIN Rank
  PROVE  Rank[Scored(all, DefaultWeights, r).band]
           - Rank[Scored(all, DefaultWeights, q).band] <= 1
<1> DEFINE a == ComponentsOf(all, DefaultWeights, r)
           b == ComponentsOf(all, DefaultWeights, q)
           none == all # {} /\ \A s \in all : s.status = "not_applicable"
<1>1. DefaultWeights \in [Components -> Nat] /\ "not_applicable" \notin DOMAIN Rank
  BY DEF DefaultWeights, Components, Rank
<1>2. a \in [Components -> ComponentSet] /\ b \in [Components -> ComponentSet]
  BY <1>1, ComponentsOfIs
<1>3. Weighs(a) /\ Weighs(b)
  BY DefaultWeighing
<1>4. Blocks(a) <=> Blocks(b)
  <2>1. \A d \in Components : a[d].weight = b[d].weight /\ a[d].status = b[d].status
    BY DEF ComponentsOf, Component
  <2> HIDE DEF a, b
  <2> QED
    BY <2>1 DEF Blocks
<1>5. Mean(a) <= Mean(b) + 299
  BY ReportMovesTheMean
<1>6. ~none
  BY <1>1, <1>2, ScoredIs
<1>7. Scored(all, DefaultWeights, r).band = BandOfComponents(a)
      /\ Scored(all, DefaultWeights, q).band = BandOfComponents(b)
  BY <1>2, <1>3, <1>6, ScoredIs
<1> HIDE DEF a, b
<1>8. Mean(a) \in Int /\ Mean(b) \in Int
  BY <1>2, <1>3, MeanIsBounded
<1>9. Rank[BandOfComponents(a)] - Rank[BandOfComponents(b)] <= 1
  <2>1. CASE Blocks(a)
    BY <1>4, <2>1 DEF BandOfComponents, Rank
  <2>2. CASE ~Blocks(a)
    BY <1>4, <1>5, <1>8, <2>2, BandsAreWide DEF BandOfComponents
  <2> QED
    BY <2>1, <2>2
<1> QED
  BY <1>7, <1>9

-----------------------------------------------------------------------------
(* The comparison of two results.                                          *)

Start(right) == [left |-> right, outcome |-> "agreement"]

\* g gives the state after the rows at each set of places of left.
IsMatching(g, left, right) ==
  g = [s \in SUBSET DOMAIN left |->
         IF s = {} THEN Start(right) ELSE MatchRow(g[s \ {Max(s)}], left[Max(s)])]

\* There is such a function: each round needs the state of the one before it.
LEMMA MatchingsExist ==
  ASSUME NEW left, NEW right, NEW n \in Nat, DOMAIN left = 1 .. n
  PROVE  \E g : IsMatching(g, left, right)
<1> DEFINE Rest(s) == s \ {Max(s)}
           Places(m) == SUBSET (1 .. m)
           Matches(g, m) ==
             g = [s \in Places(m) |->
                     IF s = {} THEN Start(right) ELSE MatchRow(g[Rest(s)], left[Max(s)])]
           N == {m \in Nat : \E g : Matches(g, m)}
<1>1. 0 \in N
  <2> DEFINE g == [s \in Places(0) |-> Start(right)]
  <2>1. \A s \in Places(0) : s = {}
    OBVIOUS
  <2>2. Matches(g, 0)
    BY <2>1
  <2> QED
    BY <2>2
<1>2. ASSUME NEW m \in Nat, m \in N
      PROVE  m + 1 \in N
  <2>1. PICK g : Matches(g, m)
    BY <1>2
  <2> DEFINE k == [s \in Places(m + 1) |->
                      IF s = {} THEN Start(right) ELSE MatchRow(g[Rest(s)], left[Max(s)])]
  <2>2. ASSUME NEW s \in Places(m + 1), s # {}
        PROVE  Rest(s) \in Places(m)
    <3>1. Max(s) \in s /\ \A i \in s : i <= Max(s)
      <4>1. s \in SUBSET (0 .. m + 1) /\ m + 1 \in Nat
        OBVIOUS
      <4> QED
        BY <2>2, <4>1, MaxIsGreatest
    <3>2. \A i \in s : i \in Int /\ 1 <= i /\ i <= m + 1
      OBVIOUS
    <3> HIDE DEF Places
    <3>3. \A i \in Rest(s) : i \in 1 .. m
      BY <3>1, <3>2
    <3> QED
      BY <3>3 DEF Places
  <2>3. \A s \in Places(m) : s \in Places(m + 1) /\ k[s] = g[s]
    <3>1. \A s \in Places(m) : s \in Places(m + 1)
      OBVIOUS
    <3>2. \A s \in Places(m) :
            g[s] = IF s = {} THEN Start(right) ELSE MatchRow(g[Rest(s)], left[Max(s)])
      BY <2>1
    <3> QED
      BY <3>1, <3>2
  <2>4. \A s \in Places(m + 1) :
          k[s] = IF s = {} THEN Start(right) ELSE MatchRow(k[Rest(s)], left[Max(s)])
    BY <2>2, <2>3
  <2>5. Matches(k, m + 1)
    BY <2>4
  <2>6. m + 1 \in Nat
    OBVIOUS
  <2> HIDE DEF k, Matches
  <2> QED
    BY <2>5, <2>6
<1>3. n \in N
  <2> HIDE DEF N
  <2> QED
    BY <1>1, <1>2, Induction
<1> QED
  BY <1>3 DEF IsMatching

\* The fold of compare_result_sets is the last value of such a function.
LEMMA CompareRowsMatches ==
  ASSUME NEW left, NEW right, NEW n \in Nat, DOMAIN left = 1 .. n
  PROVE  \E g : IsMatching(g, left, right)
         /\ CompareRows(left, right) = g[DOMAIN left].outcome
<1>1. \E g : IsMatching(g, left, right)
  BY MatchingsExist
<1>2. CompareRows(left, right)
        = (CHOOSE g : IsMatching(g, left, right))[DOMAIN left].outcome
  BY DEF CompareRows, FoldLeft, MapThenFoldSet, IsMatching, Start
<1> QED
  BY <1>1, <1>2, Zenon

\* Two rows are equal, different, or raise.
LEMMA RowsComparedIs ==
  ASSUME NEW l, NEW r
  PROVE  RowsCompared(l, r) \in {"equal", "different", "raises"}
<1>1. \A a, b : ValuesCompared(a, b) \in {"equal", "different", "raises"}
  BY DEF ValuesCompared, DecimalsCompared, Verdict
<1> QED
  BY <1>1 DEF RowsCompared

\* What is left when the row at a place is taken out.
LEMMA RemoveAtIs ==
  ASSUME NEW T, NEW s \in Seq(T), NEW i \in DOMAIN s
  PROVE  /\ RemoveAt(s, i) \in Seq(T)
         /\ DOMAIN RemoveAt(s, i) = 1 .. (Len(s) - 1)
         /\ \A j \in DOMAIN RemoveAt(s, i) :
              RemoveAt(s, i)[j] = IF j < i THEN s[j] ELSE s[j + 1]
<1> DEFINE a == SubSeq(s, 1, i - 1)
           b == SubSeq(s, i + 1, Len(s))
<1>1. Len(s) \in Nat /\ i \in 1 .. Len(s)
  OBVIOUS
<1>2. a \in Seq(T) /\ Len(a) = i - 1 /\ \A j \in 1 .. (i - 1) : a[j] = s[j]
  BY <1>1
<1>3. b \in Seq(T) /\ Len(b) = Len(s) - i /\ \A j \in 1 .. (Len(s) - i) : b[j] = s[i + j]
  BY <1>1
<1> HIDE DEF a, b
<1>4. /\ a \o b \in Seq(T) /\ Len(a \o b) = Len(s) - 1
      /\ \A j \in 1 .. (Len(s) - 1) : (a \o b)[j] = IF j < i THEN s[j] ELSE s[j + 1]
  <2>1. /\ a \o b \in Seq(T) /\ Len(a \o b) = (i - 1) + (Len(s) - i)
        /\ \A j \in 1 .. (Len(a) + Len(b)) :
             (a \o b)[j] = IF j <= Len(a) THEN a[j] ELSE b[j - Len(a)]
    BY <1>2, <1>3
  <2>2. (i - 1) + (Len(s) - i) = Len(s) - 1
    BY <1>1
  <2> SUFFICES ASSUME NEW j \in 1 .. (Len(s) - 1)
               PROVE  (a \o b)[j] = IF j < i THEN s[j] ELSE s[j + 1]
    BY <2>1, <2>2
  <2>3. (a \o b)[j] = IF j <= i - 1 THEN a[j] ELSE b[j - (i - 1)]
    BY <1>2, <1>3, <2>1, <2>2
  <2>4. CASE j < i
    <3>1. j \in 1 .. (i - 1) /\ j <= i - 1
      BY <1>1, <2>4
    <3> QED
      BY <1>2, <2>3, <2>4, <3>1
  <2>5. CASE ~(j < i)
    <3>1. j - (i - 1) \in 1 .. (Len(s) - i) /\ ~(j <= i - 1) /\ i + (j - (i - 1)) = j + 1
      BY <1>1, <2>5
    <3> QED
      BY <1>3, <2>3, <2>5, <3>1
  <2> QED
    BY <2>4, <2>5
<1> DEFINE c == a \o b
<1>5. RemoveAt(s, i) = c
  BY DEF RemoveAt, a, b
<1> HIDE DEF c
<1>6. c \in Seq(T) /\ Len(c) = Len(s) - 1
  BY <1>4 DEF c
<1>7. DOMAIN c = 1 .. (Len(s) - 1)
  BY <1>6
<1>8. \A j \in DOMAIN c : c[j] = IF j < i THEN s[j] ELSE s[j + 1]
  BY <1>4, <1>7 DEF c
<1> QED
  BY <1>5, <1>6, <1>7, <1>8

\* Each of the first k rows has one of its own among those that are gone.
IsPairing(keep, pairing, rest, k, left, right) ==
  /\ keep \in [DOMAIN rest -> DOMAIN right] /\ pairing \in [1 .. k -> DOMAIN right]
  /\ \A i \in DOMAIN rest : rest[i] = right[keep[i]]
  /\ \A i, j \in DOMAIN rest : i # j => keep[i] # keep[j]
  /\ \A i \in 1 .. k : RowsCompared(left[i], right[pairing[i]]) = "equal"
  /\ \A i, j \in 1 .. k : i # j => pairing[i] # pairing[j]
  /\ \A i \in DOMAIN rest, j \in 1 .. k : keep[i] # pairing[j]

PairedSoFar(state, k, left, right) ==
  /\ state = [left |-> state.left, outcome |-> state.outcome]
  /\ state.left \in Seq({right[i] : i \in DOMAIN right})
  /\ state.outcome = "agreement" =>
       \E keep, pairing : IsPairing(keep, pairing, state.left, k, left, right)

\* A round pairs one row more, or it ends the agreement.
LEMMA RoundPairs ==
  ASSUME NEW left, NEW right, NEW k \in Nat, NEW state, PairedSoFar(state, k, left, right)
  PROVE  PairedSoFar(MatchRow(state, left[k + 1]), k + 1, left, right)
<1> DEFINE row == left[k + 1]
           next == MatchRow(state, row)
           rest == state.left
           hits == {i \in DOMAIN rest : RowsCompared(row, rest[i]) # "different"}
           first == Min(hits)
           T == {right[i] : i \in DOMAIN right}
<1>1. ASSUME next = state, state.outcome # "agreement"
      PROVE  PairedSoFar(next, k + 1, left, right)
  BY <1>1 DEF PairedSoFar
<1>2. ASSUME NEW outcome, outcome # "agreement", next = [state EXCEPT !.outcome = outcome]
      PROVE  PairedSoFar(next, k + 1, left, right)
  BY <1>2 DEF PairedSoFar
<1>3. ASSUME hits # {}, RowsCompared(row, rest[first]) # "raises",
             state.outcome = "agreement",
             next = [state EXCEPT !.left = RemoveAt(rest, first)]
      PROVE  PairedSoFar(next, k + 1, left, right)
  <2>1. rest \in Seq(T)
    BY DEF PairedSoFar
  <2>2. DOMAIN rest \in SUBSET Nat
    BY <2>1
  <2>3. first \in hits
    BY <1>3, <2>2, MinIsLeast
  <2>4. first \in DOMAIN rest /\ RowsCompared(row, rest[first]) = "equal"
    BY <1>3, <2>3, RowsComparedIs
  <2> HIDE DEF first, hits
  <2> DEFINE after == RemoveAt(rest, first)
             Old(j) == IF j < first THEN j ELSE j + 1
  <2>5. /\ after \in Seq(T) /\ DOMAIN after = 1 .. (Len(rest) - 1)
        /\ \A j \in DOMAIN after : after[j] = rest[Old(j)]
    <3> HIDE DEF rest, T
    <3> QED
      BY <2>1, <2>4, RemoveAtIs
  <2>6. Len(rest) \in Nat /\ DOMAIN rest = 1 .. Len(rest)
    BY <2>1
  <2>7. \A j \in DOMAIN after : Old(j) \in DOMAIN rest /\ Old(j) # first
    BY <2>4, <2>5, <2>6
  <2>8. \A i, j \in DOMAIN after : i # j => Old(i) # Old(j)
    BY <2>4, <2>5, <2>6
  <2> HIDE DEF after, Old
  <2>9. PICK keep, pairing : IsPairing(keep, pairing, rest, k, left, right)
    BY <1>3 DEF PairedSoFar
  <2> DEFINE kept == [j \in DOMAIN after |-> keep[Old(j)]]
             paired ==
               [i \in 1 .. (k + 1) |-> IF i = k + 1 THEN keep[first] ELSE pairing[i]]
  <2>10. \A i \in 1 .. (k + 1) : i = k + 1 \/ i \in 1 .. k
    OBVIOUS
  <2>11. /\ \A j \in DOMAIN after : kept[j] = keep[Old(j)]
         /\ paired[k + 1] = keep[first]
         /\ \A i \in 1 .. k : paired[i] = pairing[i] /\ i # k + 1
    BY <2>10
  <2>12. kept \in [DOMAIN after -> DOMAIN right]
         /\ paired \in [1 .. (k + 1) -> DOMAIN right]
    BY <2>4, <2>7, <2>9, <2>10 DEF IsPairing
  <2> HIDE DEF kept, paired
  <2>13. \A i \in DOMAIN after : after[i] = right[kept[i]]
    BY <2>5, <2>7, <2>9, <2>11 DEF IsPairing
  <2>14. \A i, j \in DOMAIN after : i # j => kept[i] # kept[j]
    BY <2>7, <2>8, <2>9, <2>11 DEF IsPairing
  <2>15. \A i \in 1 .. (k + 1) : RowsCompared(left[i], right[paired[i]]) = "equal"
    BY <2>4, <2>9, <2>10, <2>11 DEF IsPairing
  <2>16. \A i, j \in 1 .. (k + 1) : i # j => paired[i] # paired[j]
    BY <2>4, <2>9, <2>10, <2>11 DEF IsPairing
  <2>17. \A i \in DOMAIN after, j \in 1 .. (k + 1) : kept[i] # paired[j]
    BY <2>4, <2>7, <2>9, <2>10, <2>11 DEF IsPairing
  <2>18. IsPairing(kept, paired, after, k + 1, left, right)
    BY <2>12, <2>13, <2>14, <2>15, <2>16, <2>17 DEF IsPairing
  <2>19. next = [left |-> after, outcome |-> "agreement"]
    BY <1>3 DEF after, PairedSoFar
  <2> HIDE DEF next, rest
  <2> QED
    BY <2>5, <2>18, <2>19 DEF PairedSoFar
<1> HIDE DEF row
<1>4. \/ next = state /\ state.outcome # "agreement"
      \/ state.outcome = "agreement" /\
         \/ next = [state EXCEPT !.outcome = "disagreement"]
         \/ next = [state EXCEPT !.outcome = "raises"]
         \/ hits # {} /\ RowsCompared(row, rest[first]) # "raises" /\
            next = [state EXCEPT !.left = RemoveAt(rest, first)]
  BY DEF MatchRow, Unmatched
<1> HIDE DEF next, hits, rest, first
<1>5. PairedSoFar(next, k + 1, left, right)
  <2>1. "disagreement" # "agreement" /\ "raises" # "agreement"
    OBVIOUS
  <2>2. CASE next = [state EXCEPT !.outcome = "disagreement"]
    BY <1>2, <2>1, <2>2
  <2>3. CASE next = [state EXCEPT !.outcome = "raises"]
    BY <1>2, <2>1, <2>3
  <2>4. CASE /\ hits # {} /\ RowsCompared(row, rest[first]) # "raises"
             /\ state.outcome = "agreement"
             /\ next = [state EXCEPT !.left = RemoveAt(rest, first)]
    BY <1>3, <2>4
  <2>5. CASE next = state /\ state.outcome # "agreement"
    BY <1>1, <2>5
  <2> QED
    BY <1>4, <2>2, <2>3, <2>4, <2>5
<1> QED
  BY <1>5 DEF next, row

\* What is compared as the same can be paired one to one.
LEMMA AgreementIsAPairing ==
  ASSUME NEW T, NEW left \in Seq(T), NEW right \in Seq(T),
         CompareRows(left, right) = "agreement"
  PROVE  SameRows(left, right)
<1> DEFINE n == Len(left)
<1>1. n \in Nat /\ DOMAIN left = 1 .. n
  OBVIOUS
<1> HIDE DEF n
<1>2. PICK g : IsMatching(g, left, right) /\ CompareRows(left, right) = g[1 .. n].outcome
  BY <1>1, CompareRowsMatches
<1> DEFINE K == {k \in Nat : k <= n => PairedSoFar(g[1 .. k], k, left, right)}
<1>3. 0 \in K
  <2>1. g[1 .. 0] = Start(right)
    <3>1. 1 .. 0 = {}
      OBVIOUS
    <3> QED
      BY <1>2, <3>1 DEF IsMatching
  <2>2. right \in Seq({right[i] : i \in DOMAIN right})
    OBVIOUS
  <2> DEFINE keep == [i \in DOMAIN right |-> i]
             pairing == [i \in 1 .. 0 |-> i]
  <2>3. IsPairing(keep, pairing, right, 0, left, right)
    BY DEF IsPairing
  <2>4. PairedSoFar(Start(right), 0, left, right)
    <3> HIDE DEF keep, pairing
    <3> QED
      BY <2>2, <2>3 DEF PairedSoFar, Start
  <2> QED
    BY <2>1, <2>4
<1>4. ASSUME NEW k \in Nat, k \in K
      PROVE  k + 1 \in K
  <2> SUFFICES ASSUME k + 1 <= n
               PROVE  PairedSoFar(g[1 .. (k + 1)], k + 1, left, right)
    OBVIOUS
  <2>1. PairedSoFar(g[1 .. k], k, left, right)
    BY <1>1, <1>4
  <2>2. g[1 .. (k + 1)] = MatchRow(g[1 .. k], left[k + 1])
    <3>1. 1 .. (k + 1) \in SUBSET DOMAIN left /\ 1 .. (k + 1) # {}
      <4>1. k + 1 \in 1 .. (k + 1) /\ \A i \in 1 .. (k + 1) : i \in 1 .. n
        BY <1>1
      <4> QED
        BY <1>1, <4>1
    <3>2. Max(1 .. (k + 1)) = k + 1
      <4>1. 1 .. (k + 1) \in SUBSET (0 .. k + 1) /\ k + 1 \in Nat
            /\ k + 1 \in 1 .. (k + 1)
        OBVIOUS
      <4>2. Max(1 .. (k + 1)) \in 1 .. (k + 1)
            /\ \A i \in 1 .. (k + 1) : i <= Max(1 .. (k + 1))
        BY <3>1, <4>1, MaxIsGreatest
      <4> QED
        BY <4>1, <4>2
    <3>3. (1 .. (k + 1)) \ {k + 1} = 1 .. k
      OBVIOUS
    <3>4. g[1 .. (k + 1)]
            = MatchRow(g[(1 .. (k + 1)) \ {Max(1 .. (k + 1))}], left[Max(1 .. (k + 1))])
      BY <1>2, <3>1 DEF IsMatching
    <3> QED
      BY <3>2, <3>3, <3>4, Zenon
  <2> QED
    BY <2>1, <2>2, RoundPairs
<1>5. n \in K
  <2> HIDE DEF K
  <2> QED
    BY <1>1, <1>3, <1>4, Induction
<1>6. PairedSoFar(g[1 .. n], n, left, right) /\ g[1 .. n].outcome = "agreement"
  BY <1>1, <1>2, <1>5
<1>7. PICK keep, pairing : IsPairing(keep, pairing, g[1 .. n].left, n, left, right)
  BY <1>6 DEF PairedSoFar
<1> QED
  BY <1>1, <1>7 DEF IsPairing, SameRows

\* Normalized rows are a sequence.
LEMMA NormalizedRowsAre ==
  ASSUME NEW T, NEW result, result.rows \in Seq(T)
  PROVE  NormalizedRows(result)
           \in Seq({NormalizedRows(result)[i] : i \in DOMAIN NormalizedRows(result)})
<1> DEFINE rows == NormalizedRows(result)
<1>1. DOMAIN rows = 1 .. Len(result.rows)
  BY DEF NormalizedRows
<1>2. rows = [i \in DOMAIN rows |-> rows[i]]
  BY DEF NormalizedRows
<1>3. Len(result.rows) \in Nat
  OBVIOUS
<1> HIDE DEF rows
<1>4. rows \in Seq({rows[i] : i \in DOMAIN rows})
  BY <1>1, <1>2, <1>3
<1> QED
  BY <1>4 DEF rows

-----------------------------------------------------------------------------
(* Signals that fail: which checks can, and that a failed signal blocks.   *)

\* The codes that say something of the second opinion's rows.
VerdictCodes ==
  {"multi_query_result_agreement", "multi_query_result_disagreement",
   "multi_query_result_incomparable"}

\* The codes that fail before there is a second opinion.
FailureCodes ==
  {"negative_count_detected", "percentage_out_of_bounds", "semantic_alignment_mismatch"}

\* A signal from before the second opinion.
IsEarly(s) ==
  /\ s.status = "failed" => s.code \in FailureCodes
  /\ s.code \notin VerdictCodes

\* What the checks of a result return.
LEMMA DeterministicSignalsAreEarly ==
  ASSUME NEW r, NEW enabled, NEW s \in DeterministicSignals(r, enabled)
  PROVE  IsEarly(s)
<1> USE DEF Passed, Warning, Failed, Unavailable, NotApplicable, Signal, IsEarly,
            FailureCodes, VerdictCodes
<1>1. IsEarly(SchemaCoverage(r))
  BY DEF SchemaCoverage
<1>2. IsEarly(GeneratedMetadata(r))
  BY DEF GeneratedMetadata
<1>3. IsEarly(NegativeCount(r))
  BY DEF NegativeCount
<1>4. IsEarly(PercentageBounds(r))
  BY DEF PercentageBounds
<1>5. IsEarly(DateRange(r))
  BY DEF DateRange
<1>6. IsEarly(NullHeavy(r))
  BY DEF NullHeavy
<1>7. IsEarly(DuplicateAmplification(r))
  BY DEF DuplicateAmplification
<1>8. IsEarly(EmptyResult(r))
  BY DEF EmptyResult
<1>9. IsEarly(AggregationShape(r))
  BY DEF AggregationShape
<1>10. IsEarly(NotApplicable("deterministic_validation_disabled"))
  OBVIOUS
<1> QED
  BY <1>1, <1>2, <1>3, <1>4, <1>5, <1>6, <1>7, <1>8, <1>9, <1>10
     DEF DeterministicSignals

\* What the alignment returns.
LEMMA AlignmentSignalIsEarly ==
  ASSUME NEW alignment
  PROVE  IsEarly(AlignmentSignal(alignment))
<1>1. AlignmentStatus(alignment) \in {"failed", "passed", "warning"}
  BY DEF AlignmentStatus
<1> QED
  BY <1>1 DEF AlignmentSignal, Signal, IsEarly, FailureCodes, VerdictCodes

\* What the second opinion returns: a verdict only in time and of another query.
LEMMA JudgementIsEarned ==
  ASSUME NEW elapsed, NEW duration, NEW same, NEW result,
         Judgement(elapsed, duration, same, result) # None
  PROVE  LET signal == Judgement(elapsed, duration, same, result)
         IN  /\ signal.status = "failed"
                  => signal.code = "multi_query_result_disagreement"
             /\ signal.code \in VerdictCodes => ~Late(elapsed) /\ ~same
<1> DEFINE signal == Judgement(elapsed, duration, same, result)
<1>1. CASE \E code \in {"multi_query_timeout", "multi_query_secondary_execution_timeout",
                        "multi_query_not_independent"} : signal = Unavailable(code)
  BY <1>1 DEF Unavailable, Signal, VerdictCodes
<1>2. CASE /\ ~Late(elapsed) /\ ~same
           /\ \E outcome : signal = ComparisonSignal(outcome)
  BY <1>2 DEF ComparisonSignal, Passed, Failed, Warning, Signal
<1> QED
  BY <1>1, <1>2 DEF Judgement

\* A group of signals fails when one of them does.
LEMMA OneFailureFailsTheGroup ==
  ASSUME NEW group, NEW s \in group, s.status = "failed"
  PROVE  GroupedStatus(group) = "failed"
<1> DEFINE statuses == {u.status : u \in group}
           Is(status) ==
             \/ status = "failed" /\ "failed" \in statuses
             \/ status = "warning" /\ "warning" \in statuses /\ "failed" \notin statuses
             \/ /\ status = "unavailable" /\ "unavailable" \in statuses
                /\ statuses \cap {"failed", "warning"} = {}
             \/ status = "passed" /\ statuses \subseteq {"passed", "not_applicable"}
<1>1. "failed" \in statuses
  OBVIOUS
<1> HIDE DEF statuses
<1>2. "failed" \in Statuses /\ Is("failed")
  BY <1>1 DEF Statuses
<1>3. \A status \in Statuses : Is(status) => status = "failed"
  BY <1>1
<1>4. (CHOOSE status \in Statuses : Is(status)) = "failed"
  BY <1>2, <1>3
<1> QED
  BY <1>4 DEF GroupedStatus, statuses

\* The component that looks at a failed signal fails and keeps its weight.
LEMMA FailedComponent ==
  ASSUME NEW all, NEW s \in all, s.status = "failed",
         NEW c \in DOMAIN CodesOf, s.code \in CodesOf[c], NEW weight
  PROVE  /\ Grouped(c, all, weight).status = "failed"
         /\ Grouped(c, all, weight).weight = weight
<1> DEFINE group == {u \in all : u.code \in CodesOf[c]}
           applicable == {u \in group : u.status # "not_applicable"}
<1>1. s \in group /\ s \in applicable
  OBVIOUS
<1>2. GroupedStatus(group) = "failed"
  BY <1>1, OneFailureFailsTheGroup
<1>3. Grouped(c, all, weight) =
        Component(GroupedStatus(group),
                  Rounded(MapThenSumSet(SignalScore, applicable),
                          Cardinality(applicable)),
                  weight)
  BY <1>1 DEF Grouped
<1> QED
  BY <1>2, <1>3 DEF Component

\* Each code that fails is looked at by a component.
LEMMA FailuresAreLookedAt ==
  ASSUME NEW code \in FailureCodes \cup {"multi_query_result_disagreement"}
  PROVE  \E c \in DOMAIN CodesOf : c \in Components /\ code \in CodesOf[c]
<1>1. /\ {"result_sanity", "semantic_alignment",
          "multi_query_agreement"} \subseteq DOMAIN CodesOf
      /\ CodesOf["result_sanity"] = SanityCodes
      /\ CodesOf["semantic_alignment"] = SemanticCodes
      /\ CodesOf["multi_query_agreement"] = MultiQueryCodes
  BY DEF CodesOf
<1>2. {"result_sanity", "semantic_alignment",
       "multi_query_agreement"} \subseteq Components
  BY DEF Components, DefaultWeights
<1>3. CASE code \in {"negative_count_detected", "percentage_out_of_bounds"}
  BY <1>1, <1>2, <1>3 DEF SanityCodes, PercentageCodes
<1>4. CASE code = "semantic_alignment_mismatch"
  BY <1>1, <1>2, <1>4 DEF SemanticCodes
<1>5. CASE code = "multi_query_result_disagreement"
  BY <1>1, <1>2, <1>5 DEF MultiQueryCodes
<1> QED
  BY <1>3, <1>4, <1>5 DEF FailureCodes

\* Whatever the other components score, a failed one that has a weight blocks.
LEMMA FailureBlocks ==
  ASSUME NEW sigs, NEW weights, NEW reported, NEW s \in sigs, s.status = "failed",
         s.code \in FailureCodes \cup {"multi_query_result_disagreement"},
         \A c \in Components : weights[c] > 0
  PROVE  /\ Scored(sigs, weights, reported).status = "failed"
         /\ Scored(sigs, weights, reported).band = "blocked"
<1> DEFINE components == ComponentsOf(sigs, weights, reported)
           weighed == {c \in Components : components[c].weight > 0}
<1>1. PICK c \in DOMAIN CodesOf : c \in Components /\ s.code \in CodesOf[c]
  BY FailuresAreLookedAt
<1>2. components[c] = Grouped(c, sigs, weights[c])
  BY <1>1 DEF ComponentsOf
<1>3. c \in weighed /\ components[c].status = "failed"
  BY <1>1, <1>2, FailedComponent
<1>4. ~(sigs # {} /\ \A u \in sigs : u.status = "not_applicable")
  OBVIOUS
<1> HIDE DEF components
<1>5. \E score : Scored(sigs, weights, reported) = Summary("failed", score, "blocked")
  BY <1>3, <1>4 DEF Scored, components
<1> QED
  BY <1>5 DEF Summary

-----------------------------------------------------------------------------
(* The signals of the nine checks.                                         *)

\* A check that did not fail scores at least half, or more than what fails an alignment.
IsSolid(s) ==
  s.status \in {"passed", "warning"} => s.score >= Full \div 2 \/ s.score > FailThreshold

\* Which check has which code.
CheckOf ==
  [schema_coverage_unavailable |-> 1, schema_coverage_retrieval_unavailable |-> 1,
   schema_coverage_gap |-> 1, schema_coverage_passed |-> 1,
   generated_metadata_unavailable |-> 2, generated_metadata_mismatch |-> 2,
   generated_metadata_matches_ast |-> 2,
   negative_count_detected |-> 3, negative_count_passed |-> 3,
   negative_count_not_applicable |-> 3,
   percentage_out_of_bounds |-> 4, percentage_bounds_passed |-> 4,
   percentage_bounds_not_applicable |-> 4,
   date_range_configuration_unavailable |-> 5, date_outside_configured_range |-> 5,
   date_range_passed |-> 5, date_range_not_applicable |-> 5,
   null_heavy_output_column |-> 6, null_heavy_passed |-> 6,
   null_heavy_not_applicable |-> 6,
   possible_duplicate_amplification |-> 7, duplicate_amplification_passed |-> 7,
   duplicate_amplification_distinct_present |-> 7,
   duplicate_amplification_not_applicable |-> 7,
   duplicate_amplification_metadata_unavailable |-> 7,
   unexpected_empty_result |-> 8, empty_result_passed |-> 8,
   aggregation_shape_mismatch |-> 9, aggregation_shape_passed |-> 9,
   aggregation_shape_not_applicable |-> 9, aggregation_shape_metadata_unavailable |-> 9,
   deterministic_validation_disabled |-> 0]

CheckCodes == DOMAIN CheckOf

\* The codes of the checks are not those of the alignment or the second opinion.
LEMMA CheckCodesAreApart ==
  /\ CheckCodes \subseteq Codes
  /\ CheckCodes \cap SemanticCodes = {} /\ CheckCodes \cap MultiQueryCodes = {}
<1>1. CheckCodes = SchemaCodes \cup SanityCodes \cup {"deterministic_validation_disabled"}
  BY DEF CheckCodes, CheckOf, SchemaCodes, SanityCodes, PercentageCodes
<1>2. SemanticCodes \cap (SchemaCodes \cup SanityCodes) = {}
      /\ MultiQueryCodes \cap (SchemaCodes \cup SanityCodes) = {}
  <2>1. /\ DOMAIN CodesOf
             = {"schema_coverage", "result_sanity", "semantic_alignment",
                "multi_query_agreement"}
        /\ CodesOf["schema_coverage"] = SchemaCodes
           /\ CodesOf["result_sanity"] = SanityCodes
        /\ CodesOf["semantic_alignment"] = SemanticCodes
        /\ CodesOf["multi_query_agreement"] = MultiQueryCodes
    BY DEF CodesOf
  <2>2. /\ CodesOf["semantic_alignment"] \cap CodesOf["schema_coverage"] = {}
        /\ CodesOf["semantic_alignment"] \cap CodesOf["result_sanity"] = {}
        /\ CodesOf["multi_query_agreement"] \cap CodesOf["schema_coverage"] = {}
        /\ CodesOf["multi_query_agreement"] \cap CodesOf["result_sanity"] = {}
    BY <2>1, CodesAreApart
  <2> QED
    BY <2>1, <2>2
<1>3. "deterministic_validation_disabled" \notin SemanticCodes \cup MultiQueryCodes
  BY DEF SemanticCodes, MultiQueryCodes
<1>4. CheckCodes \subseteq Codes
  BY <1>1 DEF Codes
<1> QED
  BY <1>1, <1>2, <1>3, <1>4

\* Signals as the checks make them.
LEMMA SignalsMade ==
  ASSUME NEW code \in Codes
  PROVE  \A s \in {Passed(code), Warning(code), Failed(code), Unavailable(code),
                   NotApplicable(code)} :
           s \in Signals /\ IsSolid(s) /\ s.code = code
<1>1. 0 \in 0 .. Full /\ Full \in 0 .. Full /\ Full \div 2 \in 0 .. Full
      /\ Full >= Full \div 2
      /\ Full \div 2 >= Full \div 2
  BY DEF Full
<1> HIDE DEF Full
<1> QED
  BY <1>1 DEF Passed, Warning, Failed, Unavailable, NotApplicable, Signal, Signals,
     Statuses, IsSolid

IsOf(s, i) == s \in Signals /\ IsSolid(s) /\ s.code \in CheckCodes /\ CheckOf[s.code] = i

\* A signal with the code of a check is one of that check.
LEMMA SignalsOfCheck ==
  ASSUME NEW code \in CheckCodes
  PROVE  \A s \in {Passed(code), Warning(code), Failed(code), Unavailable(code),
                   NotApplicable(code)} :
           IsOf(s, CheckOf[code])
BY SignalsMade, CheckCodesAreApart DEF IsOf

\* Each check returns a signal of its own.
LEMMA ChecksMakeSignals ==
  ASSUME NEW r
  PROVE  /\ IsOf(SchemaCoverage(r), 1) /\ IsOf(GeneratedMetadata(r), 2)
         /\ IsOf(NegativeCount(r), 3) /\ IsOf(PercentageBounds(r), 4)
         /\ IsOf(DateRange(r), 5) /\ IsOf(NullHeavy(r), 6)
         /\ IsOf(DuplicateAmplification(r), 7) /\ IsOf(EmptyResult(r), 8)
         /\ IsOf(AggregationShape(r), 9)
         /\ IsOf(NotApplicable("deterministic_validation_disabled"), 0)
<1> DEFINE Made(code) ==
             {Passed(code), Warning(code), Failed(code), Unavailable(code),
              NotApplicable(code)}
           By(i, s) == \E code \in CheckCodes : s \in Made(code) /\ CheckOf[code] = i
<1>1. \A i, s : By(i, s) => IsOf(s, i)
  BY SignalsOfCheck
<1>2. By(1, SchemaCoverage(r))
  BY DEF SchemaCoverage, CheckCodes, CheckOf
<1>3. By(2, GeneratedMetadata(r))
  BY DEF GeneratedMetadata, CheckCodes, CheckOf
<1>4. By(3, NegativeCount(r))
  BY DEF NegativeCount, CheckCodes, CheckOf
<1>5. By(4, PercentageBounds(r))
  BY DEF PercentageBounds, CheckCodes, CheckOf
<1>6. By(5, DateRange(r))
  BY DEF DateRange, CheckCodes, CheckOf
<1>7. By(6, NullHeavy(r))
  BY DEF NullHeavy, CheckCodes, CheckOf
<1>8. By(7, DuplicateAmplification(r))
  BY DEF DuplicateAmplification, CheckCodes, CheckOf
<1>9. By(8, EmptyResult(r))
  BY DEF EmptyResult, CheckCodes, CheckOf
<1>10. By(9, AggregationShape(r))
  BY DEF AggregationShape, CheckCodes, CheckOf
<1>11. By(0, NotApplicable("deterministic_validation_disabled"))
  BY DEF CheckCodes, CheckOf
<1> HIDE DEF By
<1> QED
  BY <1>1, <1>2, <1>3, <1>4, <1>5, <1>6, <1>7, <1>8, <1>9, <1>10, <1>11

\* What the checks return together.
LEMMA DeterministicSignalsAreSound ==
  ASSUME NEW r, NEW enabled
  PROVE  LET made == DeterministicSignals(r, enabled)
         IN  /\ IsFiniteSet(made) /\ made \in SUBSET Signals
             /\ \A s, t \in made : s.code = t.code => s = t
             /\ \A s \in made : /\ IsSolid(s) /\ s.code \notin SemanticCodes
                                /\ s.code \notin MultiQueryCodes
<1> DEFINE made == DeterministicSignals(r, enabled)
           s1 == SchemaCoverage(r)
           s2 == GeneratedMetadata(r)
           s3 == NegativeCount(r)
           s4 == PercentageBounds(r)
           s5 == DateRange(r)
           s6 == NullHeavy(r)
           s7 == DuplicateAmplification(r)
           s8 == EmptyResult(r)
           s9 == AggregationShape(r)
           s0 == NotApplicable("deterministic_validation_disabled")
<1>1. made = {s0} \/ made = {s1, s2, s3, s4, s5, s6, s7, s8, s9}
  BY DEF DeterministicSignals
<1>2. /\ IsOf(s1, 1) /\ IsOf(s2, 2) /\ IsOf(s3, 3) /\ IsOf(s4, 4) /\ IsOf(s5, 5)
      /\ IsOf(s6, 6) /\ IsOf(s7, 7) /\ IsOf(s8, 8) /\ IsOf(s9, 9) /\ IsOf(s0, 0)
  BY ChecksMakeSignals
<1> HIDE DEF made, s1, s2, s3, s4, s5, s6, s7, s8, s9, s0
<1>3. IsFiniteSet(made)
  <2>1. IsFiniteSet({s0}) /\ IsFiniteSet({s1, s2, s3, s4, s5})
        /\ IsFiniteSet({s6, s7, s8, s9})
    <3>1. \A S, x : IsFiniteSet(S) => IsFiniteSet(S \cup {x})
      BY FS_AddElement
    <3>2. \A a, b, c, d : IsFiniteSet({a, b, c, d})
      <4> TAKE a, b, c, d
      <4>1. {a, b, c, d} = (({a} \cup {b}) \cup {c}) \cup {d}
        OBVIOUS
      <4>2. IsFiniteSet({a} \cup {b})
        BY <3>1, FS_Singleton
      <4>3. IsFiniteSet(({a} \cup {b}) \cup {c})
        BY <3>1, <4>2
      <4>4. IsFiniteSet((({a} \cup {b}) \cup {c}) \cup {d})
        BY <3>1, <4>3
      <4> QED
        BY <4>1, <4>4
    <3>3. {s1, s2, s3, s4, s5} = {s1, s2, s3, s4} \cup {s5}
      OBVIOUS
    <3>4. IsFiniteSet({s1, s2, s3, s4} \cup {s5})
      BY <3>1, <3>2
    <3> QED
      BY <3>2, <3>3, <3>4, FS_Singleton
  <2>2. {s1, s2, s3, s4, s5, s6, s7, s8, s9} = {s1, s2, s3, s4, s5} \cup {s6, s7, s8, s9}
    OBVIOUS
  <2>3. IsFiniteSet({s1, s2, s3, s4, s5} \cup {s6, s7, s8, s9})
    BY <2>1, FS_Union
  <2> QED
    BY <1>1, <2>1, <2>2, <2>3
<1>4. \A s \in made : \E i \in 0 .. 9 : IsOf(s, i)
  BY <1>1, <1>2
<1>5. ASSUME NEW s \in made, NEW t \in made, s.code = t.code
      PROVE  s = t
  <2>1. \A i, j : IsOf(s, i) /\ IsOf(t, j) => i = j
    BY <1>5 DEF IsOf
  <2>2. CASE made = {s0}
    BY <1>5, <2>2
  <2>3. CASE made = {s1, s2, s3, s4, s5, s6, s7, s8, s9}
    <3> DEFINE made9 == <<s1, s2, s3, s4, s5, s6, s7, s8, s9>>
    <3>1. \A i \in 1 .. 9 : IsOf(made9[i], i)
      BY <1>2
    <3>2. PICK i \in 1 .. 9, j \in 1 .. 9 : s = made9[i] /\ t = made9[j]
      <4>1. /\ made9[1] = s1 /\ made9[2] = s2 /\ made9[3] = s3 /\ made9[4] = s4
               /\ made9[5] = s5
            /\ made9[6] = s6 /\ made9[7] = s7 /\ made9[8] = s8 /\ made9[9] = s9
        OBVIOUS
      <4>2. {1, 2, 3, 4, 5, 6, 7, 8, 9} \subseteq 1 .. 9
        OBVIOUS
      <4> HIDE DEF made9
      <4>3. (\E i \in 1 .. 9 : s = made9[i]) /\ (\E j \in 1 .. 9 : t = made9[j])
        BY <2>3, <4>1, <4>2
      <4> QED
        BY <4>3
    <3> HIDE DEF made9
    <3> QED
      BY <2>1, <3>1, <3>2
  <2> QED
    BY <1>1, <2>2, <2>3
<1>6. \A s \in made : s \in Signals /\ IsSolid(s) /\ s.code \notin SemanticCodes
      /\ s.code \notin MultiQueryCodes
  BY <1>4, CheckCodesAreApart DEF IsOf
<1> QED
  BY <1>3, <1>5, <1>6 DEF made

-----------------------------------------------------------------------------
(* The signals of the alignment.                                           *)

\* The thresholds of the alignment are scores.
LEMMA AlignmentSettings ==
  PassThreshold \in 0 .. Full /\ FailThreshold \in 0 .. Full /\ LexicalCap \in 0 .. Full
  BY AlignmentAssumption

\* Questions have a similarity between nothing and all.
LEMMA LexicalSimilarityIs ==
  ASSUME NEW left, NEW right, IsFiniteSet(left), IsFiniteSet(right)
  PROVE  LexicalSimilarity(left, right) \in 0 .. Full
<1>1. CASE left = {} \/ right = {}
  <2>1. 0 \in 0 .. Full
    BY DEF Full
  <2> QED
    BY <1>1, <2>1, Zenon DEF LexicalSimilarity
<1>2. CASE left # {} /\ right # {}
  <2> DEFINE l == Cardinality(left)
             r == Cardinality(right)
             b == Cardinality(left \cap right)
  <2>1. l \in Nat \ {0} /\ r \in Nat \ {0}
    BY <1>2, FS_CardinalityType, FS_EmptySet
  <2>2. b \in Nat /\ b <= l /\ b <= r
    <3>1. IsFiniteSet(left \cap right) /\ left \cap right \subseteq left
          /\ left \cap right \subseteq right
      BY FS_Subset
    <3> QED
      BY <3>1, FS_CardinalityType, FS_Subset
  <2> HIDE DEF l, r, b
  <2>3. 2 * Full * b \in Nat /\ l + r \in Nat \ {0} /\ 2 * Full * b <= (l + r) * Full
        /\ Full \in Nat
    BY <2>1, <2>2 DEF Full
  <2>4. Rounded(2 * Full * b, l + r) \in 0 .. Full
    BY <2>3, RoundedIsBounded
  <2> QED
    BY <1>2, <2>4 DEF LexicalSimilarity, l, r, b
<1> QED
  BY <1>1, <1>2

\* What is made of an alignment is a signal of its own codes.
LEMMA AlignmentSignalIs ==
  ASSUME NEW alignment, alignment.score \in 0 .. Full
  PROVE  LET s == AlignmentSignal(alignment)
         IN  s \in Signals /\ IsSolid(s) /\ s.code \in SemanticCodes
<1> DEFINE s == AlignmentSignal(alignment)
           status == AlignmentStatus(alignment)
<1>1. status \in {"failed", "passed", "warning"}
      /\ (status # "failed" => ~(alignment.score <= FailThreshold))
  BY DEF AlignmentStatus
<1>2. status # "failed" => alignment.score > FailThreshold
  <2>1. alignment.score \in Int /\ FailThreshold \in Int
    BY AlignmentSettings
  <2> QED
    BY <1>1, <2>1
<1> HIDE DEF status
<1>3. \E code \in SemanticCodes : s = Signal(code, status, alignment.score)
  <2>1. /\ "semantic_alignment_passed" \in SemanticCodes
        /\ "semantic_alignment_mismatch" \in SemanticCodes
        /\ "semantic_alignment_uncertain" \in SemanticCodes
    BY DEF SemanticCodes
  <2>2. CASE status = "passed"
    BY <2>1, <2>2 DEF AlignmentSignal, status
  <2>3. CASE status = "failed"
    BY <2>1, <2>3 DEF AlignmentSignal, status
  <2>4. CASE status = "warning"
    BY <2>1, <2>4 DEF AlignmentSignal, status
  <2> QED
    BY <1>1, <2>2, <2>3, <2>4
<1> HIDE DEF s
<1>4. s.status = status /\ s.score = alignment.score /\ s.code \in SemanticCodes
  BY <1>3 DEF Signal
<1>5. s \in Signals
  <2>1. SemanticCodes \subseteq Codes
    BY DEF Codes
  <2> QED
    BY <1>1, <1>3, <2>1 DEF Signal, Signals, Statuses
<1> QED
  BY <1>2, <1>4, <1>5 DEF IsSolid, s

\* What either alignment scores.
LEMMA AlignmentScores ==
  ASSUME NEW o, NEW t, IsFiniteSet(o), IsFiniteSet(t)
  PROVE  /\ \A method : LexicalResult(method, o, t).score \in 0 .. Full
         /\ \A similarity \in 0 .. Full :
              EmbeddingResult(similarity, o, t).score \in 0 .. Full
<1> DEFINE l == LexicalSimilarity(o, t)
<1>1. l \in 0 .. Full
  BY LexicalSimilarityIs
<1> HIDE DEF l
<1>2. \A n \in 0 .. Full : n \in Nat
  BY DEF Full
<1>3. Min({l, LexicalCap}) \in 0 .. Full
  <2>1. l \in Nat /\ LexicalCap \in Nat
    BY <1>1, <1>2, AlignmentSettings
  <2>2. Min({l, LexicalCap}) = IF l <= LexicalCap THEN l ELSE LexicalCap
    BY <2>1, MinOfTwo
  <2> QED
    BY <1>1, <2>2, AlignmentSettings
<1>4. ASSUME NEW similarity \in 0 .. Full
      PROVE  Rounded(7 * similarity + 3 * l, 10) \in 0 .. Full
  <2>1. 7 * similarity + 3 * l \in Nat /\ 7 * similarity + 3 * l <= 10 * Full
        /\ Full \in Nat
    <3>1. similarity \in Nat /\ l \in Nat /\ similarity <= 10000 /\ l <= 10000
      BY <1>1, <1>2 DEF Full
    <3> QED
      BY <3>1 DEF Full
  <2>2. 10 \in Nat \ {0}
    OBVIOUS
  <2> DEFINE n == 7 * similarity + 3 * l
             d == 10
  <2>3. n \in Nat /\ n <= d * Full /\ d \in Nat \ {0}
    BY <2>1, <2>2
  <2> HIDE DEF n, d
  <2>4. Rounded(n, d) \in 0 .. Full
    BY <2>1, <2>3, RoundedIsBounded
  <2> QED
    BY <2>4 DEF n, d
<1> QED
  BY <1>3, <1>4 DEF LexicalResult, EmbeddingResult, Alignment, l

-----------------------------------------------------------------------------
(* The signals of the second opinion.                                      *)

\* Before the score: which codes a step can emit.
LEMMA UnavailableIs ==
  ASSUME NEW code \in SemanticCodes \cup MultiQueryCodes
  PROVE  /\ Unavailable(code) \in Signals /\ IsSolid(Unavailable(code))
            /\ Unavailable(code).code = code
         /\ NotApplicable(code) \in Signals /\ IsSolid(NotApplicable(code))
            /\ NotApplicable(code).code = code
<1>1. code \in Codes
  BY DEF Codes
<1> QED
  BY <1>1, SignalsMade

\* A failed translation is told by a code of the alignment.
LEMMA TranslationFailureIs ==
  ASSUME NEW failure \in TranslationFailures
  PROVE  failure \in SemanticCodes
BY DEF TranslationFailures, RetriedFailures, SemanticCodes

\* A closed gate emits a code of the second opinion.
LEMMA GateIs ==
  ASSUME Gate # None
  PROVE  Gate \in Signals /\ IsSolid(Gate) /\ Gate.code \in MultiQueryCodes
<1>1. \E code \in MultiQueryCodes : Gate = NotApplicable(code)
  <2>1. /\ "multi_query_disabled_by_budget" \in MultiQueryCodes
        /\ "multi_query_skipped_deterministic_failure" \in MultiQueryCodes
        /\ "multi_query_not_applicable_simple_lookup" \in MultiQueryCodes
        /\ "multi_query_primary_result_too_large" \in MultiQueryCodes
    BY DEF MultiQueryCodes
  <2> QED
    BY <2>1 DEF Gate
<1> QED
  BY <1>1, UnavailableIs

\* A judgement has a code of the second opinion, and agrees only if the results do.
LEMMA JudgementIs ==
  ASSUME NEW elapsed, NEW duration, NEW same, NEW result,
         Judgement(elapsed, duration, same, result) # None
  PROVE  LET s == Judgement(elapsed, duration, same, result)
         IN  /\ s \in Signals /\ IsSolid(s) /\ s.code \in MultiQueryCodes
             /\ s.code = "multi_query_result_agreement" =>
                  CompareResultSets(scenario.r.result, result) = "agreement"
<1> DEFINE s == Judgement(elapsed, duration, same, result)
           outcome == CompareResultSets(scenario.r.result, result)
<1>1. /\ "multi_query_timeout" \in MultiQueryCodes
      /\ "multi_query_secondary_execution_timeout" \in MultiQueryCodes
      /\ "multi_query_not_independent" \in MultiQueryCodes
      /\ "multi_query_result_agreement" \in MultiQueryCodes
      /\ "multi_query_result_disagreement" \in MultiQueryCodes
      /\ "multi_query_result_incomparable" \in MultiQueryCodes
      /\ MultiQueryCodes \subseteq Codes
  BY DEF MultiQueryCodes, Codes
<1> HIDE DEF outcome
<1>2. \/ \E code \in {"multi_query_timeout", "multi_query_secondary_execution_timeout",
                      "multi_query_not_independent"} : s = Unavailable(code)
      \/ s = ComparisonSignal(outcome)
  BY DEF Judgement, outcome
<1> HIDE DEF s
<1>3. CASE \E code \in {"multi_query_timeout", "multi_query_secondary_execution_timeout",
                        "multi_query_not_independent"} : s = Unavailable(code)
  <2>1. PICK code \in MultiQueryCodes : s = Unavailable(code)
             /\ code # "multi_query_result_agreement"
    BY <1>1, <1>3
  <2> QED
    BY <2>1, UnavailableIs DEF s, outcome
<1>4. CASE s = ComparisonSignal(outcome)
  <2>1. CASE outcome = "agreement"
    <3>1. s = Passed("multi_query_result_agreement")
      BY <1>4, <2>1 DEF ComparisonSignal
    <3>2. "multi_query_result_agreement" \in Codes
      BY <1>1
    <3> QED
      BY <1>1, <2>1, <3>1, <3>2, SignalsMade DEF s, outcome
  <2>2. CASE outcome = "disagreement"
    <3>1. s = Failed("multi_query_result_disagreement")
      BY <1>4, <2>2 DEF ComparisonSignal
    <3>2. "multi_query_result_disagreement" \in Codes
      BY <1>1
    <3> QED
      BY <1>1, <3>1, <3>2, SignalsMade DEF s, outcome
  <2>3. CASE outcome \notin {"agreement", "disagreement"}
    <3>1. s = Warning("multi_query_result_incomparable")
      BY <1>4, <2>3 DEF ComparisonSignal
    <3>2. "multi_query_result_incomparable" \in Codes
      BY <1>1
    <3> QED
      BY <1>1, <3>1, <3>2, SignalsMade DEF s, outcome
  <2> QED
    BY <2>1, <2>2, <2>3
<1> QED
  BY <1>2, <1>3, <1>4

-----------------------------------------------------------------------------
(* The first invariant: what can have failed, and what was asked for.      *)

BeforeTheSecond == {"deterministic", "semantic", "align", "second"}
DuringTheSecond == {"generate", "execute"}
Stages == BeforeTheSecond \cup DuringTheSecond \cup {"score", "scored", "raised"}

\* The second opinion so far, with the retries its generation took.
AlternateInv ==
  /\ alternate =
       [elapsed |-> alternate.elapsed, retries |-> alternate.retries,
        same |-> alternate.same, result |-> alternate.result]
  /\ alternate.elapsed \in Nat /\ alternate.retries \in Nat
  /\ stage = "execute" => alternate.retries <= AlternateRetries

\* Only four codes ever fail, one of them only by the second opinion.
SignalsInv ==
  \A s \in signals :
    s.status = "failed"
      => s.code \in FailureCodes \cup {"multi_query_result_disagreement"}

\* Before the second opinion is asked for there is none, while it is, nothing has
\* failed; what came of it is as SecondOpinionIsEarned says.
SecondInv ==
  /\ stage \in BeforeTheSecond => alternate = None /\ \A s \in signals : IsEarly(s)
  /\ stage \in DuringTheSecond =>
       /\ AlternateInv
       /\ \A s \in signals : s.status # "failed" /\ s.code \notin VerdictCodes
  /\ SecondOpinionIsEarned

SummaryInv ==
  summary # None =>
    /\ stage = "scored"
    /\ \E reported \in Reports : summary = Scored(signals, scenario.weights, reported)

IInv ==
  /\ stage \in Stages
  /\ SignalsInv /\ SecondInv /\ SummaryInv

\* The stages are distinct, and so are their groups.
LEMMA Initially ==
  ASSUME Init
  PROVE  IInv
BY DEF Init, IInv, SignalsInv, SecondInv, SecondOpinionIsEarned, SummaryInv, Stages,
       BeforeTheSecond, DuringTheSecond

\* A step that leads to stages before the second opinion, or past it without one.
LEMMA EarlyStep ==
  ASSUME IInv, stage \in BeforeTheSecond,
         stage' \in BeforeTheSecond \cup {"score", "raised"},
         UNCHANGED <<scenario, alternate, summary>>,
         \A s \in signals' : s \in signals \/ IsEarly(s)
  PROVE  IInv'
<1>1. alternate' = None /\ \A s \in signals' : IsEarly(s)
  BY DEF IInv, SecondInv
<1>2. SignalsInv'
  BY <1>1 DEF SignalsInv, IsEarly
<1>3. SecondInv'
  BY <1>1 DEF SecondInv, SecondOpinionIsEarned, DuringTheSecond, BeforeTheSecond
<1>4. SummaryInv'
  BY DEF IInv, SummaryInv, BeforeTheSecond
<1> QED
  BY <1>2, <1>3, <1>4 DEF IInv, Stages

\* The deterministic checks keep it.
LEMMA DeterministicKeepsIInv ==
  ASSUME IInv, Deterministic
  PROVE  IInv'
<1>1. \A s \in signals' : IsEarly(s)
  BY DeterministicSignalsAreEarly DEF Deterministic
<1> QED
  BY <1>1, EarlyStep DEF Deterministic, BeforeTheSecond

\* So does the translation of the query.
LEMMA TranslationKeepsIInv ==
  ASSUME IInv, TranslationRetried \/ TranslationFails \/ Translated
  PROVE  IInv'
<1>1. CASE TranslationRetried
  BY <1>1, EarlyStep DEF TranslationRetried, BeforeTheSecond
<1>2. CASE TranslationFails
  <2>1. PICK failure \in TranslationFailures : Emit(Unavailable(failure), "second")
    BY <1>2 DEF TranslationFails
  <2>2. IsEarly(Unavailable(failure))
    BY <2>1 DEF TranslationFailures, RetriedFailures, Unavailable, Signal, IsEarly,
                VerdictCodes
  <2> QED
    BY <1>2, <2>1, <2>2, EarlyStep DEF TranslationFails, Emit, BeforeTheSecond
<1>3. CASE Translated
  BY <1>3, EarlyStep DEF Translated, BeforeTheSecond
<1> QED
  BY <1>1, <1>2, <1>3

\* So does the alignment.
LEMMA AlignmentKeepsIInv ==
  ASSUME IInv, AlignByWords \/ AlignByEmbeddings \/ EmbeddingBreaks
  PROVE  IInv'
<1>1. ASSUME NEW alignment, stage = "align", Aligned(alignment)
      PROVE  IInv'
  BY <1>1, AlignmentSignalIsEarly, EarlyStep DEF Aligned, Emit, BeforeTheSecond
<1>2. CASE EmbeddingBreaks
  BY <1>2, EarlyStep DEF EmbeddingBreaks, BeforeTheSecond
<1> QED
  BY <1>1, <1>2 DEF AlignByWords, AlignByEmbeddings

\* So does a second opinion that is not asked for.
LEMMA NotAskedKeepsIInv ==
  ASSUME IInv, NotAsked
  PROVE  IInv'
<1>1. CASE scenario.second = "disabled"
  BY <1>1, EarlyStep DEF NotAsked, BeforeTheSecond
<1>2. CASE scenario.second # "disabled"
  <2>1. Gate # None /\ Emit(Gate, "score")
    BY <1>2 DEF NotAsked
  <2>2. IsEarly(Gate)
    BY <2>1 DEF Gate, NotApplicable, Signal, IsEarly, VerdictCodes
  <2> QED
    BY <2>1, <2>2, EarlyStep DEF NotAsked, Emit, BeforeTheSecond
<1> QED
  BY <1>1, <1>2

\* It is asked for while nothing has failed.
LEMMA AskKeepsIInv ==
  ASSUME IInv, Ask
  PROVE  IInv'
<1>1. /\ stage = "second" /\ stage' = "generate" /\ ~HasFailed
      /\ alternate' = [elapsed |-> 0, retries |-> 0, same |-> FALSE, result |-> None]
      /\ UNCHANGED <<scenario, signals, summary>>
  <2>1. Gate = None => ~HasFailed
    <3>1. {"multi_query_disabled_by_budget", "multi_query_skipped_deterministic_failure"}
            \subseteq Codes
      BY DEF Codes, MultiQueryCodes
    <3>2. \A code \in Codes : NotApplicable(code) # None
      BY NoneAssumption DEF NotApplicable, Signal, Signals, Statuses, Full
    <3>3. /\ NotApplicable("multi_query_disabled_by_budget") # None
          /\ NotApplicable("multi_query_skipped_deterministic_failure") # None
      BY <3>1, <3>2
    <3> QED
      BY <3>3 DEF Gate
  <2> QED
    BY <2>1 DEF Ask
<1>2. \A s \in signals : s.status # "failed" /\ s.code \notin VerdictCodes
  BY <1>1 DEF IInv, SecondInv, BeforeTheSecond, HasFailed, IsEarly
<1>3. AlternateInv'
  BY <1>1 DEF AlternateInv
<1>4. SecondInv'
  BY <1>1, <1>2, <1>3
     DEF SecondInv, SecondOpinionIsEarned, DuringTheSecond, BeforeTheSecond, VerdictCodes
<1>5. SignalsInv' /\ SummaryInv'
  BY <1>1 DEF IInv, SignalsInv, SummaryInv
<1> QED
  BY <1>1, <1>4, <1>5 DEF IInv, Stages, DuringTheSecond

\* A step that ends the second opinion with a signal, or with an exception.
LEMMA SecondEnds ==
  ASSUME IInv, stage \in DuringTheSecond, stage' \in {"score", "raised"},
         NEW signal, signals' \subseteq signals \cup {signal},
         signal.status = "failed" => signal.code = "multi_query_result_disagreement",
         signal.code \in VerdictCodes /\ signal \in signals' =>
           /\ alternate'.elapsed <= TimeLimit
           /\ alternate'.retries <= AlternateRetries
           /\ ~alternate'.same,
         UNCHANGED <<scenario, summary>>
  PROVE  IInv'
<1>1. \A s \in signals : s.status # "failed" /\ s.code \notin VerdictCodes
  BY DEF IInv, SecondInv
<1>2. SecondInv'
  BY <1>1 DEF SecondInv, SecondOpinionIsEarned, DuringTheSecond, BeforeTheSecond,
     VerdictCodes
<1>3. SignalsInv'
  BY <1>1 DEF SignalsInv
<1>4. SummaryInv'
  BY DEF IInv, SummaryInv, DuringTheSecond
<1> QED
  BY <1>2, <1>3, <1>4 DEF IInv, Stages

\* So does an attempt at the second opinion that fails, asked for again or not.
LEMMA AlternateFailsKeepsIInv ==
  ASSUME IInv, AlternateFails
  PROVE  IInv'
<1>1. ASSUME NEW code \in {"multi_query_generation_unavailable",
                          "multi_query_secondary_blocked",
                          "multi_query_secondary_plan_unavailable",
                          "multi_query_secondary_execution_unavailable"},
             stage \in DuringTheSecond, Emit(Unavailable(code), "score")
      PROVE  IInv'
  <2>1. Unavailable(code).status # "failed" /\ Unavailable(code).code \notin VerdictCodes
    BY DEF Unavailable, Signal, VerdictCodes
  <2> QED
    BY <1>1, <2>1, SecondEnds DEF Emit
<1> QED
  BY <1>1 DEF AlternateFails, DuringTheSecond

\* Only a complete draft in time and within its retries is executed.
LEMMA AlternateGeneratedKeepsIInv ==
  ASSUME IInv, AlternateGenerated
  PROVE  IInv'
<1>1. stage = "generate" /\ AlternateInv
  BY DEF AlternateGenerated, IInv, SecondInv, DuringTheSecond
<1>2. PICK d \in Durations, retries \in 0 .. ProviderRetries :
        /\ alternate' = [alternate EXCEPT !.elapsed = d, !.retries = retries]
        /\ \/ \E code \in {"multi_query_timeout", "multi_query_retry_budget_exceeded",
                           "multi_query_generation_incomplete"} :
                Emit(Unavailable(code), "score")
           \/ /\ retries <= AlternateRetries
              /\ stage' = "execute" /\ UNCHANGED <<scenario, signals, summary>>
  <2>1. PICK d \in Durations, retries \in 0 .. ProviderRetries, complete \in BOOLEAN :
          /\ alternate' = [alternate EXCEPT !.elapsed = d, !.retries = retries]
          /\ IF Late(d) THEN Emit(Unavailable("multi_query_timeout"), "score")
             ELSE IF retries > AlternateRetries
             THEN Emit(Unavailable("multi_query_retry_budget_exceeded"), "score")
             ELSE IF ~complete
             THEN Emit(Unavailable("multi_query_generation_incomplete"), "score")
             ELSE stage' = "execute" /\ UNCHANGED <<scenario, signals, summary>>
    BY DEF AlternateGenerated
  <2>2. retries \in Int /\ AlternateRetries \in Int
    BY ChecksAssumption
  <2>3. ~(retries > AlternateRetries) => retries <= AlternateRetries
    BY <2>2
  <2> QED
    BY <2>1, <2>3
<1>3. CASE \E code \in {"multi_query_timeout", "multi_query_retry_budget_exceeded",
                        "multi_query_generation_incomplete"} :
             Emit(Unavailable(code), "score")
  <2>1. PICK code \in {"multi_query_timeout", "multi_query_retry_budget_exceeded",
                      "multi_query_generation_incomplete"} : Emit(Unavailable(code),
                      "score")
    BY <1>3
  <2>2. Unavailable(code).status # "failed" /\ Unavailable(code).code \notin VerdictCodes
    BY DEF Unavailable, Signal, VerdictCodes
  <2> QED
    BY <1>1, <2>1, <2>2, SecondEnds DEF Emit, DuringTheSecond
<1>4. CASE /\ retries <= AlternateRetries
           /\ stage' = "execute" /\ UNCHANGED <<scenario, signals, summary>>
  <2>1. d \in Nat /\ retries \in Nat
    BY ChecksAssumption
  <2>2. alternate' = [elapsed |-> d, retries |-> retries,
                      same |-> alternate.same, result |-> alternate.result]
    BY <1>1, <1>2 DEF AlternateInv
  <2>3. AlternateInv'
    BY <1>4, <2>1, <2>2 DEF AlternateInv
  <2>4. \A s \in signals : s.status # "failed" /\ s.code \notin VerdictCodes
    BY <1>1 DEF IInv, SecondInv, DuringTheSecond
  <2>5. SecondInv'
    BY <1>4, <2>3, <2>4
       DEF SecondInv, SecondOpinionIsEarned, DuringTheSecond, BeforeTheSecond,
       VerdictCodes
  <2>6. SignalsInv' /\ SummaryInv'
    BY <1>1, <1>4 DEF IInv, SignalsInv, SummaryInv
  <2> QED
    BY <1>4, <2>5, <2>6 DEF IInv, Stages, DuringTheSecond
<1> QED
  BY <1>2, <1>3, <1>4

\* So do the rows of the second opinion.
LEMMA AlternateExecutedKeepsIInv ==
  ASSUME IInv, AlternateExecuted
  PROVE  IInv'
<1>1. stage = "execute" /\ AlternateInv
  BY DEF AlternateExecuted, IInv, SecondInv, DuringTheSecond
<1>2. PICK d \in Durations, same \in BOOLEAN,
           result \in Opinions[scenario.opinions], duration \in Durations :
        /\ alternate' = [alternate EXCEPT !.elapsed = alternate.elapsed + d,
                                          !.same = same, !.result = result]
        /\ IF Judgement(alternate.elapsed + d, duration, same, result) = None
           THEN stage' = "raised" /\ UNCHANGED <<scenario, signals, summary>>
           ELSE Emit(Judgement(alternate.elapsed + d, duration, same, result), "score")
  BY DEF AlternateExecuted
<1> DEFINE elapsed == alternate.elapsed + d
           judgement == Judgement(elapsed, duration, same, result)
<1>3. elapsed \in Nat
  BY <1>1, ChecksAssumption DEF AlternateInv
<1>4. alternate' = [elapsed |-> elapsed, retries |-> alternate.retries,
                    same |-> same, result |-> result]
  <2> HIDE DEF elapsed
  <2>1. alternate'
          = [alternate EXCEPT !.elapsed = elapsed, !.same = same, !.result = result]
    BY <1>2 DEF elapsed
  <2> QED
    BY <1>1, <2>1 DEF AlternateInv
<1>5. CASE judgement = None
  <2>1. stage' = "raised" /\ UNCHANGED <<scenario, signals, summary>>
    BY <1>2, <1>5
  <2>2. \A s \in signals : s.status # "failed" /\ s.code \notin VerdictCodes
    BY <1>1 DEF IInv, SecondInv, DuringTheSecond
  <2>3. SecondInv'
    BY <2>1, <2>2
       DEF SecondInv, SecondOpinionIsEarned, DuringTheSecond, BeforeTheSecond,
       VerdictCodes
  <2>4. SignalsInv' /\ SummaryInv'
    BY <1>1, <2>1 DEF IInv, SignalsInv, SummaryInv
  <2> QED
    BY <2>1, <2>3, <2>4 DEF IInv, Stages
<1>6. CASE judgement # None
  <2>1. /\ judgement.status = "failed"
             => judgement.code = "multi_query_result_disagreement"
        /\ judgement.code \in VerdictCodes => ~Late(elapsed) /\ ~same
    BY <1>6, JudgementIsEarned
  <2>2. Emit(judgement, "score")
    BY <1>2, <1>6
  <2> HIDE DEF judgement, elapsed
  <2>3. judgement.code \in VerdictCodes =>
          /\ alternate'.elapsed <= TimeLimit
          /\ alternate'.retries <= AlternateRetries
          /\ ~alternate'.same
    BY <1>1, <1>3, <1>4, <2>1, ChecksAssumption DEF Late, AlternateInv
  <2> QED
    BY <1>1, <2>1, <2>2, <2>3, SecondEnds DEF Emit, DuringTheSecond
<1> QED
  BY <1>5, <1>6

\* So does the score: failed signals block.
LEMMA ScoreKeepsIInv ==
  ASSUME IInv, Score
  PROVE  IInv'
<1>1. /\ stage' = "scored" /\ UNCHANGED <<scenario, signals, alternate>>
      /\ \E reported \in Reports : summary' = Scored(signals, scenario.weights, reported)
  BY DEF Score
<1>2. SummaryInv'
  BY <1>1 DEF SummaryInv
<1>3. SecondInv' /\ SignalsInv'
  BY <1>1 DEF IInv, SecondInv, SignalsInv, SecondOpinionIsEarned, DuringTheSecond,
              BeforeTheSecond
<1> QED
  BY <1>1, <1>2, <1>3 DEF IInv, Stages

\* So does what changes nothing.
LEMMA Stuttering ==
  ASSUME IInv, UNCHANGED vars
  PROVE  IInv'
BY DEF vars, IInv, SignalsInv, SecondInv, SecondOpinionIsEarned, AlternateInv, SummaryInv

\* Which signals there can be at each stage, and what the score is a score of.
THEOREM ChecksInvariant == Spec => []IInv
<1>1. Init => IInv
  BY Initially
<1>2. IInv /\ [Next]_vars => IInv'
  BY DeterministicKeepsIInv, TranslationKeepsIInv, AlignmentKeepsIInv, NotAskedKeepsIInv,
     AskKeepsIInv, AlternateFailsKeepsIInv, AlternateGeneratedKeepsIInv,
     AlternateExecutedKeepsIInv, ScoreKeepsIInv, Stuttering DEF Next
<1> QED
  BY <1>1, <1>2, PTL DEF Spec

-----------------------------------------------------------------------------
(* The second invariant: which signals there can be.                       *)

\* Types, and which codes there can be at each stage: those of the alignment once it
\* is over, those of the second opinion once that is.
TypeInv ==
  /\ scenario \in Scenarios
  /\ stage \in Stages
  /\ attempts \in 0 .. AlignmentRetries
  /\ stage = "align" => translated \in Translations
  /\ alternate # None \/ stage \in DuringTheSecond
       => alternate.retries \in 0 .. ProviderRetries
  /\ (summary # None) = (stage = "scored")
  /\ summary # None => summary \in Summaries

SignalsAreSound ==
  /\ IsFiniteSet(signals) /\ signals \in SUBSET Signals
  /\ \A s, t \in signals : s.code = t.code => s = t
  /\ \A s \in signals : IsSolid(s)
  /\ stage \in {"semantic", "align"} => \A s \in signals : s.code \notin SemanticCodes
  /\ stage \in BeforeTheSecond \cup DuringTheSecond =>
       \A s \in signals : s.code \notin MultiQueryCodes

\* Agreement is the outcome of comparing the two results.
AgreementInv ==
  (\E s \in signals : s.code = "multi_query_result_agreement") =>
    /\ IsResult(alternate.result)
    /\ CompareResultSets(scenario.r.result, alternate.result) = "agreement"

ChecksInv == TypeInv /\ SignalsAreSound /\ AgreementInv

\* Emission keeps what the signals are: the new one has a code of its stage.
LEMMA SignalEmitted ==
  ASSUME SignalsAreSound, NEW signal \in Signals, IsSolid(signal),
         signals' = signals \cup {signal},
         \/ stage \in {"semantic", "align"} /\ signal.code \in SemanticCodes
            /\ stage' = "second"
         \/ stage \in {"second", "generate", "execute"}
            /\ signal.code \in MultiQueryCodes /\ stage' = "score"
  PROVE  SignalsAreSound'
<1>1. \A s \in signals : s.code # signal.code
  BY DEF SignalsAreSound, BeforeTheSecond, DuringTheSecond
<1>2. IsFiniteSet(signals')
  BY FS_AddElement DEF SignalsAreSound
<1>3. signals' \in SUBSET Signals /\ \A s \in signals' : IsSolid(s)
  BY DEF SignalsAreSound
<1>4. \A s, t \in signals' : s.code = t.code => s = t
  BY <1>1 DEF SignalsAreSound
<1>5. SemanticCodes \cap MultiQueryCodes = {}
  BY DEF SemanticCodes, MultiQueryCodes
<1>6. stage' \in BeforeTheSecond \cup DuringTheSecond
        => \A s \in signals' : s.code \notin MultiQueryCodes
  BY <1>5 DEF SignalsAreSound, BeforeTheSecond, DuringTheSecond
<1>7. stage' \notin {"semantic", "align"}
  OBVIOUS
<1> QED
  BY <1>2, <1>3, <1>4, <1>6, <1>7 DEF SignalsAreSound

\* A step without a signal.
LEMMA NoSignal ==
  ASSUME SignalsAreSound, UNCHANGED signals,
         stage \in BeforeTheSecond \cup DuringTheSecond,
         stage' \in {"semantic", "align"} => stage \in {"semantic", "align"}
  PROVE  SignalsAreSound'
BY DEF SignalsAreSound

\* At first there are none.
LEMMA SignalsAreSoundInitially ==
  ASSUME Init
  PROVE  SignalsAreSound
BY FS_EmptySet DEF Init, SignalsAreSound

HasAgreement(sigs) == \E s \in sigs : s.code = "multi_query_result_agreement"

\* There is no agreement before the second opinion is over.
LEMMA NoAgreementYet ==
  ASSUME SignalsAreSound, stage \in BeforeTheSecond \cup DuringTheSecond
  PROVE  ~HasAgreement(signals)
<1>1. "multi_query_result_agreement" \in MultiQueryCodes
  BY DEF MultiQueryCodes
<1> QED
  BY <1>1 DEF SignalsAreSound, HasAgreement

\* A step before the score, whatever it does to the signals.
LEMMA UnscoredStep ==
  ASSUME TypeInv, stage # "scored", stage' \in Stages \ {"scored"},
         UNCHANGED <<scenario, summary>>,
         attempts' \in 0 .. AlignmentRetries,
         stage' = "align" => translated' \in Translations,
         alternate' # None \/ stage' \in DuringTheSecond =>
           alternate'.retries \in 0 .. ProviderRetries
  PROVE  TypeInv'
BY DEF TypeInv

\* A step that emits nothing and leaves the second opinion alone.
LEMMA SilentStep ==
  ASSUME ChecksInv, stage \in BeforeTheSecond \cup DuringTheSecond,
         stage' \in Stages \ {"scored"}, UNCHANGED <<scenario, summary, signals>>,
         stage' \in {"semantic", "align"} => stage \in {"semantic", "align"},
         attempts' \in 0 .. AlignmentRetries,
         stage' = "align" => translated' \in Translations,
         alternate' # None \/ stage' \in DuringTheSecond =>
           alternate'.retries \in 0 .. ProviderRetries
  PROVE  ChecksInv'
<1>1. SignalsAreSound'
  BY NoSignal DEF ChecksInv
<1>2. ~HasAgreement(signals')
  BY NoAgreementYet DEF ChecksInv
<1>3. TypeInv'
  BY UnscoredStep DEF ChecksInv, BeforeTheSecond, DuringTheSecond
<1> QED
  BY <1>1, <1>2, <1>3 DEF ChecksInv, AgreementInv, HasAgreement

\* A step that emits a signal.
LEMMA EmittingStep ==
  ASSUME ChecksInv, stage \in BeforeTheSecond \cup DuringTheSecond,
         NEW signal \in Signals, IsSolid(signal),
         NEW next, Emit(signal, next), next \in {"second", "score"},
         \/ /\ stage \in {"semantic", "align"} /\ next = "second"
            /\ signal.code \in SemanticCodes
         \/ /\ stage \in {"second", "generate", "execute"} /\ next = "score"
            /\ signal.code \in MultiQueryCodes,
         signal.code = "multi_query_result_agreement" =>
           /\ IsResult(alternate'.result)
           /\ CompareResultSets(scenario.r.result, alternate'.result) = "agreement",
         attempts' \in 0 .. AlignmentRetries,
         alternate' # None => alternate'.retries \in 0 .. ProviderRetries
  PROVE  ChecksInv'
<1>1. signals' = signals \cup {signal} /\ stage' = next /\ UNCHANGED <<scenario, summary>>
  BY DEF Emit
<1>2. SignalsAreSound'
  BY <1>1, SignalEmitted DEF ChecksInv
<1>3. ~HasAgreement(signals)
  BY NoAgreementYet DEF ChecksInv
<1>4. AgreementInv'
  BY <1>1, <1>3 DEF AgreementInv, HasAgreement
<1>5. TypeInv'
  <2>1. stage' \in Stages \ {"scored"} /\ stage # "scored" /\ stage' # "align"
        /\ stage' \notin DuringTheSecond
    BY <1>1 DEF Stages, BeforeTheSecond, DuringTheSecond
  <2> QED
    BY <1>1, <2>1, UnscoredStep DEF ChecksInv
<1> QED
  BY <1>2, <1>4, <1>5 DEF ChecksInv

\* The first state has the invariant.
LEMMA InitialChecks ==
  ASSUME Init
  PROVE  ChecksInv
<1>1. SignalsAreSound
  BY SignalsAreSoundInitially
<1>2. TypeInv
  BY ChecksAssumption DEF Init, TypeInv, Stages, BeforeTheSecond, DuringTheSecond
<1> QED
  BY <1>1, <1>2 DEF Init, ChecksInv, AgreementInv

\* The deterministic checks emit one signal each.
LEMMA DeterministicKeepsTheChecks ==
  ASSUME ChecksInv, Deterministic
  PROVE  ChecksInv'
<1>1. /\ IsFiniteSet(signals') /\ signals' \in SUBSET Signals
      /\ \A s, t \in signals' : s.code = t.code => s = t
      /\ \A s \in signals' : /\ IsSolid(s) /\ s.code \notin SemanticCodes
                             /\ s.code \notin MultiQueryCodes
  BY DeterministicSignalsAreSound DEF Deterministic
<1>2. stage = "deterministic" /\ stage' \in {"semantic", "second"}
      /\ UNCHANGED <<scenario, attempts, translated, alternate, summary>>
  BY DEF Deterministic
<1>3. SignalsAreSound'
  BY <1>1 DEF SignalsAreSound
<1>4. ~HasAgreement(signals')
  <2>1. "multi_query_result_agreement" \in MultiQueryCodes
    BY DEF MultiQueryCodes
  <2> QED
    BY <1>1, <2>1 DEF HasAgreement
<1>5. TypeInv'
  BY <1>2 DEF ChecksInv, TypeInv, Stages, BeforeTheSecond, DuringTheSecond
<1> QED
  BY <1>3, <1>4, <1>5 DEF ChecksInv, AgreementInv, HasAgreement

\* The translator is asked again, fails or translates.
LEMMA TranslationKeepsTheChecks ==
  ASSUME ChecksInv, TranslationRetried \/ TranslationFails \/ Translated
  PROVE  ChecksInv'
<1>1. stage = "semantic" /\ alternate' = alternate /\ stage \in BeforeTheSecond
  BY DEF TranslationRetried, TranslationFails, Translated, BeforeTheSecond
<1>2. attempts \in 0 .. AlignmentRetries
      /\ (alternate # None => alternate.retries \in 0 .. ProviderRetries)
  BY DEF ChecksInv, TypeInv
<1>3. CASE TranslationRetried
  <2>1. attempts' \in 0 .. AlignmentRetries
    BY <1>2, <1>3, ChecksAssumption DEF TranslationRetried
  <2>2. stage' = "semantic" /\ UNCHANGED <<scenario, summary, signals>>
    BY <1>1, <1>3 DEF TranslationRetried
  <2> QED
    BY <1>1, <1>2, <2>1, <2>2, SilentStep DEF Stages, BeforeTheSecond, DuringTheSecond
<1>4. CASE TranslationFails
  <2>1. PICK failure \in TranslationFailures : Emit(Unavailable(failure), "second")
    BY <1>4 DEF TranslationFails
  <2>2. failure \in SemanticCodes
    BY TranslationFailureIs
  <2>3. /\ Unavailable(failure) \in Signals /\ IsSolid(Unavailable(failure))
        /\ Unavailable(failure).code = failure
    BY <2>2, UnavailableIs
  <2>4. failure # "multi_query_result_agreement"
    BY <2>2 DEF SemanticCodes
  <2>5. attempts' = attempts
    BY <1>4 DEF TranslationFails
  <2> QED
    BY <1>1, <1>2, <2>1, <2>2, <2>3, <2>4, <2>5, EmittingStep
<1>5. CASE Translated
  <2>1. stage' = "align" /\ translated' \in Translations
        /\ UNCHANGED <<scenario, summary, signals, attempts>>
    BY <1>5 DEF Translated
  <2> QED
    BY <1>1, <1>2, <2>1, SilentStep DEF Stages, BeforeTheSecond, DuringTheSecond
<1> QED
  BY <1>3, <1>4, <1>5

\* An alignment emits one signal, or the embedding service breaks.
LEMMA AlignmentKeepsTheChecks ==
  ASSUME ChecksInv, AlignByWords \/ AlignByEmbeddings \/ EmbeddingBreaks
  PROVE  ChecksInv'
<1>1. stage = "align" /\ UNCHANGED <<attempts, translated, alternate>>
      /\ stage \in BeforeTheSecond
  BY DEF AlignByWords, AlignByEmbeddings, EmbeddingBreaks, Aligned, BeforeTheSecond
<1>2. attempts \in 0 .. AlignmentRetries
      /\ (alternate # None => alternate.retries \in 0 .. ProviderRetries)
  BY DEF ChecksInv, TypeInv
<1>3. IsFiniteSet(scenario.question) /\ IsFiniteSet(translated)
  BY <1>1, ScenariosAssumption DEF ChecksInv, TypeInv
<1>4. ASSUME NEW alignment, alignment.score \in 0 .. Full, Aligned(alignment)
      PROVE  ChecksInv'
  <2>1. Emit(AlignmentSignal(alignment), "second")
    BY <1>4 DEF Aligned
  <2>2. /\ AlignmentSignal(alignment) \in Signals /\ IsSolid(AlignmentSignal(alignment))
        /\ AlignmentSignal(alignment).code \in SemanticCodes
    BY <1>4, AlignmentSignalIs
  <2>3. AlignmentSignal(alignment).code # "multi_query_result_agreement"
    BY <2>2 DEF SemanticCodes
  <2> QED
    BY <1>1, <1>2, <2>1, <2>2, <2>3, EmittingStep
<1>5. CASE AlignByWords
  <2>1. PICK method : Aligned(LexicalResult(method, scenario.question, translated))
    BY <1>5 DEF AlignByWords
  <2> QED
    BY <1>3, <1>4, <2>1, AlignmentScores
<1>6. CASE AlignByEmbeddings
  <2>1. PICK similarity \in Similarities :
          Aligned(EmbeddingResult(similarity, scenario.question, translated))
    BY <1>6 DEF AlignByEmbeddings
  <2>2. similarity \in 0 .. Full
    BY ChecksAssumption
  <2> QED
    BY <1>3, <1>4, <2>1, <2>2, AlignmentScores
<1>7. CASE EmbeddingBreaks
  <2>1. stage' = "raised" /\ UNCHANGED <<scenario, summary, signals>>
    BY <1>7 DEF EmbeddingBreaks
  <2> QED
    BY <1>1, <1>2, <2>1, SilentStep DEF Stages, BeforeTheSecond, DuringTheSecond
<1> QED
  BY <1>5, <1>6, <1>7

\* The second opinion is not asked for, or it begins.
LEMMA AskingKeepsTheChecks ==
  ASSUME ChecksInv, NotAsked \/ Ask
  PROVE  ChecksInv'
<1>1. stage = "second" /\ attempts' = attempts /\ stage \in BeforeTheSecond
  BY DEF NotAsked, Ask, BeforeTheSecond
<1>2. attempts \in 0 .. AlignmentRetries
      /\ (alternate # None => alternate.retries \in 0 .. ProviderRetries)
  BY DEF ChecksInv, TypeInv
<1>3. CASE NotAsked /\ scenario.second = "disabled"
  <2>1. stage' = "score" /\ UNCHANGED <<scenario, summary, signals, alternate>>
    BY <1>3 DEF NotAsked
  <2> QED
    BY <1>1, <1>2, <2>1, SilentStep DEF Stages, BeforeTheSecond, DuringTheSecond
<1>4. CASE NotAsked /\ scenario.second # "disabled"
  <2>1. Gate # None /\ Emit(Gate, "score") /\ alternate' = alternate
    BY <1>4 DEF NotAsked
  <2>2. Gate \in Signals /\ IsSolid(Gate) /\ Gate.code \in MultiQueryCodes
    BY <2>1, GateIs
  <2>3. Gate.code # "multi_query_result_agreement"
    BY <2>1 DEF Gate, NotApplicable, Signal
  <2> QED
    BY <1>1, <1>2, <2>1, <2>2, <2>3, EmittingStep
<1>5. CASE Ask
  <2>1. /\ stage' = "generate" /\ UNCHANGED <<scenario, summary, signals>>
        /\ alternate' = [elapsed |-> 0, retries |-> 0, same |-> FALSE, result |-> None]
    BY <1>5 DEF Ask
  <2>2. alternate'.retries \in 0 .. ProviderRetries
    BY <2>1, ChecksAssumption
  <2> QED
    BY <1>1, <1>2, <2>1, <2>2, SilentStep DEF Stages, BeforeTheSecond, DuringTheSecond
<1> QED
  BY <1>3, <1>4, <1>5

\* The second opinion ends with a signal that says nothing of its rows.
LEMMA UnavailableEnds ==
  ASSUME ChecksInv, stage \in DuringTheSecond,
         NEW code \in {"multi_query_generation_unavailable",
                       "multi_query_secondary_blocked",
                       "multi_query_secondary_plan_unavailable",
                       "multi_query_secondary_execution_unavailable",
                       "multi_query_timeout", "multi_query_retry_budget_exceeded",
                       "multi_query_generation_incomplete"},
         Emit(Unavailable(code), "score"), attempts' = attempts,
         alternate' # None => alternate'.retries \in 0 .. ProviderRetries
  PROVE  ChecksInv'
<1>1. code \in MultiQueryCodes /\ code # "multi_query_result_agreement"
  BY DEF MultiQueryCodes
<1>2. /\ Unavailable(code) \in Signals /\ IsSolid(Unavailable(code))
      /\ Unavailable(code).code = code
  BY <1>1, UnavailableIs
<1>3. attempts' \in 0 .. AlignmentRetries
  BY DEF ChecksInv, TypeInv
<1>4. stage \in {"second", "generate", "execute"}
  BY DEF DuringTheSecond
<1> QED
  BY <1>1, <1>2, <1>3, <1>4, EmittingStep

\* The second opinion fails.
LEMMA AlternateFailsKeepsTheChecks ==
  ASSUME ChecksInv, AlternateFails
  PROVE  ChecksInv'
<1>1. UNCHANGED <<attempts, alternate>> /\ stage \in DuringTheSecond
  BY DEF AlternateFails, DuringTheSecond
<1>2. alternate # None => alternate.retries \in 0 .. ProviderRetries
  BY DEF ChecksInv, TypeInv
<1>3. \E code \in {"multi_query_generation_unavailable",
                   "multi_query_secondary_blocked",
                   "multi_query_secondary_plan_unavailable",
                   "multi_query_secondary_execution_unavailable"} :
        Emit(Unavailable(code), "score")
  BY DEF AlternateFails
<1> QED
  BY <1>1, <1>2, <1>3, UnavailableEnds

\* Its query arrives.
LEMMA AlternateGeneratedKeepsTheChecks ==
  ASSUME IInv, ChecksInv, AlternateGenerated
  PROVE  ChecksInv'
<1>1. stage = "generate" /\ AlternateInv /\ stage \in DuringTheSecond
      /\ attempts' = attempts
  BY DEF AlternateGenerated, IInv, SecondInv, DuringTheSecond
<1>2. PICK d \in Durations, retries \in 0 .. ProviderRetries :
        /\ alternate' = [alternate EXCEPT !.elapsed = d, !.retries = retries]
        /\ \/ \E code \in {"multi_query_timeout", "multi_query_retry_budget_exceeded",
                           "multi_query_generation_incomplete"} :
                Emit(Unavailable(code), "score")
           \/ stage' = "execute" /\ UNCHANGED <<scenario, signals, summary>>
  BY DEF AlternateGenerated
<1>3. alternate' = [elapsed |-> d, retries |-> retries,
                    same |-> alternate.same, result |-> alternate.result]
  BY <1>1, <1>2 DEF AlternateInv
<1>4. alternate'.retries \in 0 .. ProviderRetries
  BY <1>3
<1>5. CASE \E code \in {"multi_query_timeout", "multi_query_retry_budget_exceeded",
                        "multi_query_generation_incomplete"} :
             Emit(Unavailable(code), "score")
  BY <1>1, <1>4, <1>5, UnavailableEnds
<1>6. CASE stage' = "execute" /\ UNCHANGED <<scenario, signals, summary>>
  <2>1. attempts' \in 0 .. AlignmentRetries
    BY <1>1 DEF ChecksInv, TypeInv
  <2> QED
    BY <1>1, <1>4, <1>6, <2>1, SilentStep DEF Stages, BeforeTheSecond, DuringTheSecond
<1> QED
  BY <1>2, <1>5, <1>6

\* Its rows arrive; only here can there be agreement.
LEMMA AlternateExecutedKeepsTheChecks ==
  ASSUME IInv, ChecksInv, AlternateExecuted
  PROVE  ChecksInv'
<1>1. stage = "execute" /\ AlternateInv /\ stage \in DuringTheSecond
      /\ attempts' = attempts
  BY DEF AlternateExecuted, IInv, SecondInv, DuringTheSecond
<1>2. PICK result \in Opinions[scenario.opinions] : \E elapsed, duration, same :
        /\ alternate' = [alternate EXCEPT !.elapsed = elapsed, !.same = same,
                                          !.result = result]
        /\ IF Judgement(elapsed, duration, same, result) = None
           THEN stage' = "raised" /\ UNCHANGED <<scenario, signals, summary>>
           ELSE Emit(Judgement(elapsed, duration, same, result), "score")
  <2>1. PICK d \in Durations, same \in BOOLEAN, result \in Opinions[scenario.opinions],
             duration \in Durations :
          LET elapsed == alternate.elapsed + d
              judgement == Judgement(elapsed, duration, same, result)
          IN  /\ alternate' = [alternate EXCEPT !.elapsed = elapsed, !.same = same,
                                                !.result = result]
              /\ IF judgement = None
                 THEN stage' = "raised" /\ UNCHANGED <<scenario, signals, summary>>
                 ELSE Emit(judgement, "score")
    BY DEF AlternateExecuted
  <2> QED
    BY <2>1
<1>0. PICK elapsed, duration, same :
        /\ alternate' = [alternate EXCEPT !.elapsed = elapsed, !.same = same,
                                          !.result = result]
        /\ IF Judgement(elapsed, duration, same, result) = None
           THEN stage' = "raised" /\ UNCHANGED <<scenario, signals, summary>>
           ELSE Emit(Judgement(elapsed, duration, same, result), "score")
  BY <1>2
<1> DEFINE judgement == Judgement(elapsed, duration, same, result)
<1>3. alternate' = [elapsed |-> elapsed, retries |-> alternate.retries,
                    same |-> same, result |-> result]
  BY <1>1, <1>0 DEF AlternateInv
<1>4. alternate'.retries \in 0 .. ProviderRetries /\ alternate'.result = result
  BY <1>1, <1>3 DEF ChecksInv, TypeInv
<1>5. attempts' \in 0 .. AlignmentRetries
  BY <1>1 DEF ChecksInv, TypeInv
<1>6. IsResult(result)
  BY ScenariosAssumption DEF ChecksInv, TypeInv
<1>7. CASE judgement = None
  BY <1>1, <1>0, <1>4, <1>5, <1>7, SilentStep DEF Stages, BeforeTheSecond, DuringTheSecond
<1>8. CASE judgement # None
  <2>1. /\ judgement \in Signals /\ IsSolid(judgement)
           /\ judgement.code \in MultiQueryCodes
        /\ judgement.code = "multi_query_result_agreement" =>
             CompareResultSets(scenario.r.result, result) = "agreement"
    BY <1>8, JudgementIs
  <2>2. Emit(judgement, "score")
    BY <1>0, <1>8
  <2> HIDE DEF judgement
  <2> QED
    BY <1>1, <1>4, <1>5, <1>6, <2>1, <2>2, EmittingStep
<1> QED
  BY <1>7, <1>8

\* The score is one of the summaries.
LEMMA ScoreKeepsTheChecks ==
  ASSUME ChecksInv, Score
  PROVE  ChecksInv'
<1>1. /\ stage = "score" /\ stage' = "scored"
      /\ UNCHANGED <<scenario, signals, attempts, translated, alternate>>
  BY DEF Score
<1>2. PICK reported \in Reports : summary' = Scored(signals, scenario.weights, reported)
  BY DEF Score
<1>3. summary' \in Summaries
  <2>1. scenario.weights \in [Components -> 0 .. 100] /\ reported \in 0 .. Full
    BY ScenariosAssumption, ChecksAssumption DEF ChecksInv, TypeInv
  <2>2. scenario.weights \in [Components -> Nat]
    BY <2>1
  <2>3. IsFiniteSet(signals) /\ signals \in SUBSET Signals
    BY DEF ChecksInv, SignalsAreSound
  <2> QED
    BY <1>2, <2>1, <2>2, <2>3, ScoredIsASummary
<1>4. summary' # None
  BY <1>3, SummariesAssumption
<1>5. TypeInv'
  BY <1>1, <1>3, <1>4 DEF ChecksInv, TypeInv, Stages, DuringTheSecond
<1>6. SignalsAreSound'
  BY <1>1 DEF ChecksInv, SignalsAreSound, BeforeTheSecond, DuringTheSecond
<1> QED
  BY <1>1, <1>5, <1>6 DEF ChecksInv, AgreementInv

\* Nothing happens.
LEMMA StutteringKeepsTheChecks ==
  ASSUME ChecksInv, UNCHANGED vars
  PROVE  ChecksInv'
BY DEF vars, ChecksInv, TypeInv, SignalsAreSound, AgreementInv

\* Signals are those of their checks, each once, and agreement is the outcome of a
\* comparison, at every stage of every answer.
THEOREM SoundChecks == Spec => [](IInv /\ ChecksInv)
<1>1. Init => ChecksInv
  BY InitialChecks
<1>2. IInv /\ ChecksInv /\ [Next]_vars => ChecksInv'
  BY DeterministicKeepsTheChecks, TranslationKeepsTheChecks, AlignmentKeepsTheChecks,
     AskingKeepsTheChecks, AlternateFailsKeepsTheChecks,
     AlternateGeneratedKeepsTheChecks, AlternateExecutedKeepsTheChecks,
     ScoreKeepsTheChecks, StutteringKeepsTheChecks DEF Next
<1> QED
  BY <1>1, <1>2, ChecksInvariant, PTL DEF Spec

-----------------------------------------------------------------------------
(* The theorems.                                                           *)

\* A failed check blocks the answer, for every weighing of the components, every
\* score and every threshold.
THEOREM FailuresBlock == Spec => []FailureIsNeverOutvoted
<1>1. IInv => FailureIsNeverOutvoted
  <2> SUFFICES ASSUME IInv, summary # None, Weighed,
                      NEW s \in signals, s.status = "failed"
               PROVE  summary.status = "failed" /\ summary.band = "blocked"
    BY DEF FailureIsNeverOutvoted
  <2>1. PICK reported \in Reports : summary = Scored(signals, scenario.weights, reported)
    BY DEF IInv, SummaryInv
  <2>2. s.code \in FailureCodes \cup {"multi_query_result_disagreement"}
    BY DEF IInv, SignalsInv
  <2> QED
    BY <2>1, <2>2, FailureBlocks DEF Weighed
<1> QED
  BY <1>1, ChecksInvariant, PTL

\* The second opinion is asked for and listened to on its terms, for every budget.
THEOREM SecondOpinionsAreEarned == Spec => []SecondOpinionIsEarned
<1>1. IInv => SecondOpinionIsEarned
  BY DEF IInv, SecondInv
<1> QED
  BY <1>1, ChecksInvariant, PTL

\* Types, retries within their limits, one signal for a code, and a summary exactly
\* when the answer is scored.
THEOREM ChecksTypeCorrectness == Spec => []TypeOK
<1>1. ChecksInv => TypeOK
  <2> SUFFICES ASSUME ChecksInv
               PROVE  TypeOK
    OBVIOUS
  <2>1. \A c \in Components : scenario.weights[c] \in 0 .. 100
    BY ScenariosAssumption DEF ChecksInv, TypeInv
  <2>2. signals \subseteq Signals /\ \A s, t \in signals : s.code = t.code => s = t
    BY DEF ChecksInv, SignalsAreSound
  <2>3. stage \in {"deterministic", "semantic", "align", "second", "generate", "execute",
                   "score", "scored", "raised"}
    BY DEF ChecksInv, TypeInv, Stages, BeforeTheSecond, DuringTheSecond
  <2> QED
    BY <2>1, <2>2, <2>3 DEF TypeOK, ChecksInv, TypeInv
<1> QED
  BY <1>1, SoundChecks, PTL

\* A check that was tried in vain never lifts an answer into a better band, whatever
\* the weights and whatever the other checks said, for every prudent choice of settings.
THEOREM UnavailabilityNeverHelps ==
  ASSUME PrudentSettings
  PROVE  Spec => []UnavailableNeverHelps
<1>1. ChecksInv => UnavailableNeverHelps
  <2> SUFFICES ASSUME ChecksInv, NEW s \in signals, NEW reported \in Reports,
                      s.status = "unavailable",
                      BandOf(signals \ {s}, reported) \in DOMAIN Rank
               PROVE  Rank[BandOf(signals, reported)]
                        <= Rank[BandOf(signals \ {s}, reported)]
    BY DEF UnavailableNeverHelps
  <2>1. signals \in SUBSET Signals /\ IsFiniteSet(signals)
    BY DEF ChecksInv, SignalsAreSound
  <2>2. scenario.weights \in [Components -> Nat]
    <3>1. scenario.weights \in [Components -> 0 .. 100]
      BY ScenariosAssumption DEF ChecksInv, TypeInv
    <3> QED
      BY <3>1
  <2>3. reported \in 0 .. Full
    BY ChecksAssumption
  <2>4. Tried(signals)
    <3>1. \A t \in signals : IsSolid(t) /\ t.score \in Int
      BY DEF ChecksInv, SignalsAreSound, Signals
    <3>2. UnavailableScore \in Int /\ FailThreshold \in Int /\ Full \div 2 \in Int
      BY UnavailableScoreIs, AlignmentSettings DEF Full
    <3>3. UnavailableScore <= Full \div 2 /\ UnavailableScore <= FailThreshold
      BY DEF PrudentSettings
    <3> DEFINE half == Full \div 2
    <3> HIDE DEF half
    <3>4. \A t \in signals : t.status \in {"passed", "warning"} =>
             t.score >= half \/ t.score > FailThreshold
      BY <3>1 DEF IsSolid, half
    <3>5. half \in Int /\ UnavailableScore <= half
      BY <3>2, <3>3 DEF half
    <3> QED
      BY <3>1, <3>2, <3>3, <3>4, <3>5 DEF Tried
  <2> QED
    BY <2>1, <2>2, <2>3, <2>4, UnavailableDoesNotLift DEF BandOf
<1> QED
  BY <1>1, SoundChecks, PTL

\* Under the default weights no confidence of the model's own moves an answer by more
\* than one band, whatever the other signals are, when the bands are three hundredths
\* apart.
THEOREM TheModelsReportIsAuxiliary ==
  ASSUME SeparateBands
  PROVE  Spec => []ModelReportIsAuxiliary
<1>1. IInv /\ ChecksInv => ModelReportIsAuxiliary
  <2> SUFFICES ASSUME IInv, ChecksInv, summary # None, scenario.weights = DefaultWeights,
                      summary.band \in DOMAIN Rank, NEW reported \in Reports
               PROVE  Rank[BandOf(signals, reported)] - Rank[summary.band] <= 1
    BY DEF ModelReportIsAuxiliary
  <2>1. PICK q \in Reports : summary = Scored(signals, DefaultWeights, q)
    BY DEF IInv, SummaryInv
  <2>2. signals \in SUBSET Signals /\ IsFiniteSet(signals)
    BY DEF ChecksInv, SignalsAreSound
  <2>3. reported \in 0 .. Full /\ q \in 0 .. Full
    BY ChecksAssumption
  <2> QED
    BY <2>1, <2>2, <2>3, ReportMovesTheBand DEF BandOf
<1> QED
  BY <1>1, SoundChecks, PTL

\* Agreement is announced only for complete results with the same columns whose rows
\* can be paired one to one, for results of every size and every tolerance.
THEOREM AgreementMeansTheSameRows == Spec => []AgreementIsSound
<1>1. ChecksInv => AgreementIsSound
  <2> SUFFICES ASSUME ChecksInv, HasAgreement(signals)
               PROVE  LET primary == scenario.r.result
                          second == alternate.result
                      IN  /\ ~primary.truncated /\ ~second.truncated
                          /\ FoldedColumns(primary) = FoldedColumns(second)
                          /\ Len(primary.rows) = Len(second.rows)
                          /\ SameRows(NormalizedRows(primary), NormalizedRows(second))
    BY DEF AgreementIsSound, HasAgreement
  <2> DEFINE primary == scenario.r.result
             second == alternate.result
             left == NormalizedRows(primary)
             right == NormalizedRows(second)
  <2>1. IsResult(second) /\ CompareResultSets(primary, second) = "agreement"
    BY DEF ChecksInv, AgreementInv, HasAgreement
  <2>2. IsResult(primary)
    BY ScenariosAssumption DEF ChecksInv, TypeInv
  <2> HIDE DEF primary, second
  <2>3. /\ ~primary.truncated /\ ~second.truncated
        /\ FoldedColumns(primary) = FoldedColumns(second)
        /\ Len(primary.rows) = Len(second.rows)
        /\ CompareRows(left, right) = "agreement"
    BY <2>1, Zenon DEF CompareResultSets
  <2>4. left \in Seq({left[i] : i \in DOMAIN left})
    <3>1. PICK S : primary.rows \in Seq(S)
      BY <2>2, Zenon DEF IsResult
    <3> QED
      BY <3>1, NormalizedRowsAre, Zenon
  <2>5. right \in Seq({right[i] : i \in DOMAIN right})
    <3>1. PICK S : second.rows \in Seq(S)
      BY <2>1, Zenon DEF IsResult
    <3> QED
      BY <3>1, NormalizedRowsAre, Zenon
  <2> HIDE DEF left, right
  <2> DEFINE T == {left[i] : i \in DOMAIN left} \cup {right[i] : i \in DOMAIN right}
  <2>6. left \in Seq(T) /\ right \in Seq(T)
    BY <2>4, <2>5
  <2> HIDE DEF T
  <2>7. SameRows(left, right)
    BY <2>3, <2>6, AgreementIsAPairing
  <2> QED
    BY <2>3, <2>7 DEF primary, second, left, right
<1> QED
  BY <1>1, SoundChecks, PTL
=============================================================================
