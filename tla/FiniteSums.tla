------------------------------ MODULE FiniteSums ------------------------------
(***************************************************************************)
(* Facts about SumFunctionOnSet of the community module Functions, the     *)
(* sums of confidences, weights, trades and gaps of the model, for finite  *)
(* sets of any size.  The library's induction theorems take a predicate as *)
(* an operator; here induction is over a set: every nonempty set of        *)
(* subsets of a finite set has a minimal element.                          *)
(***************************************************************************)
EXTENDS Integers, Functions, FiniteSetTheorems, TLAPS

(***************************************************************************)
(* Induction                                                               *)
(***************************************************************************)
\* A nonempty set of natural numbers has a least element.
LEMMA LeastNumber ==
  ASSUME NEW N, N \subseteq Nat, N # {}
  PROVE  \E k \in N : \A n \in N : k <= n
<1> DEFINE R == OpToRel(<, Nat)
<1>1. IsWellFoundedOn(R, Nat)
  BY NatLessThanWellFounded
<1>2. \A n, k \in Nat : <<n, k>> \in R <=> n < k
  BY DEF OpToRel
<1> HIDE DEF R
<1>3. PICK k \in N : \A n \in N : ~ (<<n, k>> \in R)
  BY <1>1, WFMin
<1>4. ASSUME NEW n \in N
      PROVE  k <= n
  <2>1. n \in Nat /\ k \in Nat
    OBVIOUS
  <2>2. ~ (<<n, k>> \in R)
    BY <1>3
  <2>3. ~ (n < k)
    BY <1>2, <2>1, <2>2, Zenon
  <2> QED BY <2>1, <2>3
<1> QED BY <1>4

\* A nonempty set of subsets of a finite set has a minimal one.
LEMMA MinimalSubset ==
  ASSUME NEW S, IsFiniteSet(S), NEW B, B \subseteq SUBSET S, B # {}
  PROVE  \E T \in B : \A x \in T : T \ {x} \notin B
<1> DEFINE sizes == {Cardinality(T) : T \in B}
<1>1. \A T \in B : IsFiniteSet(T) /\ Cardinality(T) \in Nat
  BY FS_Subset, FS_CardinalityType
<1>2. sizes \subseteq Nat /\ sizes # {}
  BY <1>1
<1>3. PICK k \in sizes : \A n \in sizes : k <= n
  <2> HIDE DEF sizes
  <2> QED BY <1>2, LeastNumber
<1>4. PICK T \in B : k = Cardinality(T)
  OBVIOUS
<1>5. ASSUME NEW x \in T, T \ {x} \in B
      PROVE  FALSE
  <2>1. Cardinality(T \ {x}) = Cardinality(T) - 1
    BY <1>1, FS_RemoveElement
  <2>2. Cardinality(T) <= Cardinality(T \ {x})
    BY <1>3, <1>4, <1>5
  <2> QED BY <1>1, <2>1, <2>2
<1> QED BY <1>5

\* A set of numbers that holds 0 and, with n, n + 1, holds them all.
LEMMA NumberInduction ==
  ASSUME NEW N, 0 \in N, \A n \in Nat : n \in N => n + 1 \in N
  PROVE  \A n \in Nat : n \in N
<1> SUFFICES ASSUME NEW m \in Nat, m \notin N
             PROVE  FALSE
  OBVIOUS
<1> DEFINE B == {n \in Nat : n \notin N}
<1>1. B \subseteq Nat /\ B # {}
  OBVIOUS
<1>2. PICK k \in B : \A n \in B : k <= n
  <2> HIDE DEF B
  <2> QED BY <1>1, LeastNumber
<1>3. k \in Nat /\ k # 0
  BY <1>2
<1>4. k - 1 \in Nat /\ k - 1 \notin B
  BY <1>2, <1>3
<1> QED BY <1>2, <1>3, <1>4

\* A set of subsets that holds {} and, with T, every T \cup {x}, holds all.
LEMMA SubsetInduction ==
  ASSUME NEW S, IsFiniteSet(S), NEW P, {} \in P,
         \A T \in SUBSET S : \A x \in S \ T : T \in P => T \cup {x} \in P
  PROVE  S \in P
<1> SUFFICES ASSUME S \notin P
             PROVE  FALSE
  OBVIOUS
<1> DEFINE B == {T \in SUBSET S : T \notin P}
<1>1. B \subseteq SUBSET S /\ B # {}
  OBVIOUS
<1>2. PICK T \in B : \A x \in T : T \ {x} \notin B
  <2> HIDE DEF B
  <2> QED BY <1>1, MinimalSubset
<1>3. PICK x \in T : TRUE
  BY <1>2
<1>4. T \ {x} \in P /\ x \in S \ (T \ {x}) /\ T \ {x} \in SUBSET S
  BY <1>2, <1>3
<1>5. (T \ {x}) \cup {x} = T
  BY <1>3
<1> QED BY <1>2, <1>4, <1>5

(***************************************************************************)
(* The recursion of a sum                                                  *)
(***************************************************************************)
Chosen(S) == CHOOSE x \in S : TRUE

\* What the recursive function of a sum is at s.
SumStep(f, g, s) == IF s = {} THEN 0 ELSE f[Chosen(s)] + g[s \ {Chosen(s)}]

IsSum(f, S, g) == g = [s \in SUBSET S |-> SumStep(f, g, s)]

LEMMA ChosenIsElement ==
  ASSUME NEW S, S # {}
  PROVE  Chosen(S) \in S
BY DEF Chosen

\* A sum is the value of a function that satisfies the recursion, when there
\* is one.
LEMMA SumIsFixpoint ==
  ASSUME NEW f, NEW S, \E g : IsSum(f, S, g)
  PROVE  \E g : IsSum(f, S, g) /\ SumFunctionOnSet(f, S) = g[S]
<1> DEFINE h == CHOOSE g : IsSum(f, S, g)
<1>1. IsSum(f, S, h)
  OBVIOUS
<1>2. SumFunctionOnSet(f, S) = h[S]
  BY DEF SumFunctionOnSet, FoldFunctionOnSet, MapThenFoldSet, IsSum, SumStep, Chosen
<1> QED BY <1>1, <1>2

LEMMA SumExists ==
  ASSUME NEW f, NEW S, IsFiniteSet(S)
  PROVE  \E g : IsSum(f, S, g)
<1> DEFINE UpTo(n, g) ==
      \A s \in SUBSET S : Cardinality(s) <= n => g[s] = SumStep(f, g, s)
<1> DEFINE N == {n \in Nat : \E g : UpTo(n, g)}
<1>1. \A s \in SUBSET S : IsFiniteSet(s) /\ Cardinality(s) \in Nat
  BY FS_Subset, FS_CardinalityType
<1>2. \A s \in SUBSET S : Cardinality(s) = 0 <=> s = {}
  BY <1>1, FS_EmptySet
<1>3. \A s \in SUBSET S : s # {} =>
        /\ s \ {Chosen(s)} \in SUBSET S
        /\ Cardinality(s \ {Chosen(s)}) = Cardinality(s) - 1
  BY <1>1, ChosenIsElement, FS_RemoveElement
<1>4. 0 \in N
  <2> DEFINE zero == [s \in SUBSET S |-> 0]
  <2>1. UpTo(0, zero)
    <3> SUFFICES ASSUME NEW s \in SUBSET S, Cardinality(s) <= 0
                 PROVE  zero[s] = SumStep(f, zero, s)
      OBVIOUS
    <3>1. s = {}
      BY <1>1, <1>2
    <3> QED BY <3>1 DEF SumStep
  <2> QED BY <2>1
<1>5. ASSUME NEW n \in Nat, n \in N
      PROVE  n + 1 \in N
  <2>1. PICK g : UpTo(n, g)
    BY <1>5
  <2> DEFINE h == [s \in SUBSET S |-> SumStep(f, g, s)]
  <2>2. UpTo(n + 1, h)
    <3> SUFFICES ASSUME NEW s \in SUBSET S, Cardinality(s) <= n + 1
                 PROVE  h[s] = SumStep(f, h, s)
      OBVIOUS
    <3>1. CASE s = {}
      BY <3>1 DEF SumStep
    <3>2. CASE s # {}
      <4> DEFINE r == s \ {Chosen(s)}
      <4>1. r \in SUBSET S /\ Cardinality(r) <= n
        BY <1>1, <1>3, <3>2
      <4>2. h[r] = g[r]
        BY <2>1, <4>1
      <4> QED BY <3>2, <4>2 DEF SumStep
    <3> QED BY <3>1, <3>2
  <2>3. \E k : UpTo(n + 1, k)
    <3> HIDE DEF UpTo, h
    <3> QED BY <2>2
  <2> QED BY <2>3
<1>6. Cardinality(S) \in N
  <2> HIDE DEF N
  <2> QED BY <1>1, <1>4, <1>5, NumberInduction
<1>7. PICK g : UpTo(Cardinality(S), g)
  BY <1>6
<1>8. \A s \in SUBSET S : g[s] = SumStep(f, g, s)
  BY <1>1, <1>7, FS_Subset
<1> DEFINE h == [s \in SUBSET S |-> g[s]]
<1>9. ASSUME NEW s \in SUBSET S
      PROVE  h[s] = SumStep(f, h, s)
  BY <1>3, <1>8 DEF SumStep
<1>10. IsSum(f, S, h)
  BY <1>9 DEF IsSum
<1> QED BY <1>10

LEMMA SumsAgree ==
  ASSUME NEW f, NEW S, IsFiniteSet(S), NEW T \in SUBSET S, NEW g, IsSum(f, S, g),
         NEW h, IsSum(f, T, h)
  PROVE  \A s \in SUBSET T : g[s] = h[s]
<1> DEFINE B == {s \in SUBSET T : g[s] # h[s]}
<1> SUFFICES ASSUME B # {}
             PROVE  FALSE
  OBVIOUS
<1>1. IsFiniteSet(T) /\ B \subseteq SUBSET T
  BY FS_Subset
<1>2. PICK s \in B : \A x \in s : s \ {x} \notin B
  <2> HIDE DEF B
  <2> QED BY <1>1, MinimalSubset
<1>3. g[s] = SumStep(f, g, s) /\ h[s] = SumStep(f, h, s)
  BY DEF IsSum
<1>4. CASE s = {}
  BY <1>2, <1>3, <1>4 DEF SumStep
<1>5. CASE s # {}
  <2>1. Chosen(s) \in s
    BY <1>5, ChosenIsElement
  <2>2. g[s \ {Chosen(s)}] = h[s \ {Chosen(s)}]
    BY <1>2, <2>1
  <2> QED BY <1>2, <1>3, <1>5, <2>2 DEF SumStep
<1> QED BY <1>4, <1>5

LEMMA SumOfNone ==
  ASSUME NEW f
  PROVE  SumFunctionOnSet(f, {}) = 0
<1>1. PICK g : IsSum(f, {}, g) /\ SumFunctionOnSet(f, {}) = g[{}]
  BY SumExists, SumIsFixpoint, FS_EmptySet
<1> QED BY <1>1 DEF IsSum, SumStep

LEMMA SumOfChosen ==
  ASSUME NEW f, NEW S, IsFiniteSet(S), S # {}
  PROVE  SumFunctionOnSet(f, S) =
           f[Chosen(S)] + SumFunctionOnSet(f, S \ {Chosen(S)})
<1> DEFINE T == S \ {Chosen(S)}
<1>1. IsFiniteSet(T) /\ T \in SUBSET S
  BY FS_Subset
<1>2. PICK g : IsSum(f, S, g) /\ SumFunctionOnSet(f, S) = g[S]
  BY SumExists, SumIsFixpoint
<1>3. PICK h : IsSum(f, T, h) /\ SumFunctionOnSet(f, T) = h[T]
  BY <1>1, SumExists, SumIsFixpoint
<1>4. g[T] = h[T]
  BY <1>1, <1>2, <1>3, SumsAgree
<1>5. g[S] = f[Chosen(S)] + g[T]
  BY <1>2 DEF IsSum, SumStep
<1> QED BY <1>2, <1>3, <1>4, <1>5

(***************************************************************************)
(* What a proof about sums uses: none of them mentions Chosen              *)
(***************************************************************************)
LEMMA SumIsInteger ==
  ASSUME NEW S, IsFiniteSet(S), NEW f, \A x \in S : f[x] \in Int
  PROVE  SumFunctionOnSet(f, S) \in Int
<1> DEFINE B == {T \in SUBSET S : SumFunctionOnSet(f, T) \notin Int}
<1> SUFFICES ASSUME B # {}
             PROVE  FALSE
  OBVIOUS
<1>1. PICK T \in B : \A x \in T : T \ {x} \notin B
  <2>1. B \subseteq SUBSET S
    OBVIOUS
  <2> HIDE DEF B
  <2> QED BY <2>1, MinimalSubset
<1>2. IsFiniteSet(T)
  BY FS_Subset
<1>3. CASE T = {}
  BY <1>1, <1>3, SumOfNone
<1>4. CASE T # {}
  <2> DEFINE x == Chosen(T)
  <2>1. x \in T
    BY <1>4, ChosenIsElement
  <2> HIDE DEF x
  <2>2. f[x] \in Int /\ SumFunctionOnSet(f, T \ {x}) \in Int
    BY <1>1, <2>1
  <2>3. SumFunctionOnSet(f, T) = f[x] + SumFunctionOnSet(f, T \ {x})
    BY <1>2, <1>4, SumOfChosen DEF x
  <2> QED BY <1>1, <2>2, <2>3
<1> QED BY <1>3, <1>4

\* Any element of the set may be taken out first.
LEMMA SumWithout ==
  ASSUME NEW S, IsFiniteSet(S), NEW f, \A x \in S : f[x] \in Int, NEW a \in S
  PROVE  SumFunctionOnSet(f, S) = f[a] + SumFunctionOnSet(f, S \ {a})
<1> DEFINE Sum(T) == SumFunctionOnSet(f, T)
<1> DEFINE B == {T \in SUBSET S : \E x \in T : Sum(T) # f[x] + Sum(T \ {x})}
<1> SUFFICES ASSUME B # {}
             PROVE  FALSE
  OBVIOUS
<1>1. PICK T \in B : \A x \in T : T \ {x} \notin B
  <2>1. B \subseteq SUBSET S
    OBVIOUS
  <2> HIDE DEF B
  <2> QED BY <2>1, MinimalSubset
<1>2. PICK x \in T : Sum(T) # f[x] + Sum(T \ {x})
  BY <1>1
<1>3. T # {} /\ \A U \in SUBSET T : IsFiniteSet(U)
  BY <1>2, FS_Subset
<1> DEFINE c == Chosen(T)
<1>4. c \in T
  BY <1>3, ChosenIsElement
<1>5. Sum(T) = f[c] + Sum(T \ {c})
  BY <1>3, SumOfChosen
<1> HIDE DEF c
<1>6. c # x
  BY <1>2, <1>5
<1>7. Sum(T \ {c}) = f[x] + Sum((T \ {c}) \ {x})
  BY <1>1, <1>4, <1>6
<1>8. Sum(T \ {x}) = f[c] + Sum((T \ {x}) \ {c})
  BY <1>1, <1>2, <1>4, <1>6
<1>9. (T \ {x}) \ {c} = (T \ {c}) \ {x}
  OBVIOUS
<1> DEFINE rest == Sum((T \ {c}) \ {x})
<1>10. f[c] \in Int /\ f[x] \in Int /\ rest \in Int
  <2>1. \A U \in SUBSET T : Sum(U) \in Int
    BY <1>3, SumIsInteger
  <2> QED BY <1>4, <2>1
<1>11. Sum(T) = f[c] + (f[x] + rest)
  BY <1>5, <1>7
<1>12. Sum(T \ {x}) = f[c] + rest
  BY <1>8, <1>9
<1> HIDE DEF Sum, rest
<1>13. Sum(T) = f[x] + Sum(T \ {x})
  BY <1>10, <1>11, <1>12
<1> QED BY <1>2, <1>13

\* A sum grows with its terms; equal terms give equal sums.
LEMMA SumIsMonotonic ==
  ASSUME NEW S, IsFiniteSet(S), NEW f, NEW g,
         \A x \in S : f[x] \in Int /\ g[x] \in Int /\ f[x] <= g[x]
  PROVE  SumFunctionOnSet(f, S) <= SumFunctionOnSet(g, S)
<1> DEFINE P == {T \in SUBSET S : SumFunctionOnSet(f, T) <= SumFunctionOnSet(g, T)}
<1>1. {} \in P
  BY SumOfNone
<1>2. ASSUME NEW T \in SUBSET S, NEW x \in S \ T, T \in P
      PROVE  T \cup {x} \in P
  <2> DEFINE U == T \cup {x}
  <2>1. IsFiniteSet(T) /\ IsFiniteSet(U) /\ U \ {x} = T /\ U \in SUBSET S
    BY FS_Subset
  <2>2. /\ SumFunctionOnSet(f, U) = f[x] + SumFunctionOnSet(f, U \ {x})
        /\ SumFunctionOnSet(g, U) = g[x] + SumFunctionOnSet(g, U \ {x})
    BY <2>1, SumWithout
  <2>3. SumFunctionOnSet(f, T) \in Int /\ SumFunctionOnSet(g, T) \in Int
    BY <2>1, SumIsInteger
  <2>4. SumFunctionOnSet(f, T) <= SumFunctionOnSet(g, T)
    BY <1>2
  <2>5. SumFunctionOnSet(f, U) <= SumFunctionOnSet(g, U)
    BY <2>1, <2>2, <2>3, <2>4
  <2> QED BY <2>1, <2>5
<1> HIDE DEF P
<1>3. S \in P
  BY <1>1, <1>2, SubsetInduction
<1> QED BY <1>3 DEF P

LEMMA SumOfEqualTerms ==
  ASSUME NEW S, IsFiniteSet(S), NEW f, NEW g, \A x \in S : f[x] \in Int /\ f[x] = g[x]
  PROVE  SumFunctionOnSet(f, S) = SumFunctionOnSet(g, S)
<1>1. /\ SumFunctionOnSet(f, S) <= SumFunctionOnSet(g, S)
      /\ SumFunctionOnSet(g, S) <= SumFunctionOnSet(f, S)
  BY SumIsMonotonic
<1>2. SumFunctionOnSet(f, S) \in Int /\ SumFunctionOnSet(g, S) \in Int
  BY SumIsInteger
<1> QED BY <1>1, <1>2

LEMMA SumIsNatural ==
  ASSUME NEW S, IsFiniteSet(S), NEW f, \A x \in S : f[x] \in Nat
  PROVE  SumFunctionOnSet(f, S) \in Nat
<1> DEFINE P == {T \in SUBSET S : SumFunctionOnSet(f, T) \in Nat}
<1>1. {} \in P
  BY SumOfNone
<1>2. ASSUME NEW T \in SUBSET S, NEW x \in S \ T, T \in P
      PROVE  T \cup {x} \in P
  <2> DEFINE U == T \cup {x}
  <2>1. IsFiniteSet(U) /\ U \ {x} = T /\ U \in SUBSET S
    BY FS_Subset
  <2>2. SumFunctionOnSet(f, U) = f[x] + SumFunctionOnSet(f, U \ {x})
    BY <2>1, SumWithout
  <2>3. SumFunctionOnSet(f, T) \in Nat /\ f[x] \in Nat
    BY <1>2
  <2> QED BY <2>1, <2>2, <2>3
<1> HIDE DEF P
<1>3. S \in P
  BY <1>1, <1>2, SubsetInduction
<1> QED BY <1>3 DEF P

\* The sum over a set is the sum over its two parts.
LEMMA SumOfParts ==
  ASSUME NEW S, IsFiniteSet(S), NEW f, \A x \in S : f[x] \in Int, NEW A \in SUBSET S
  PROVE  SumFunctionOnSet(f, S) = SumFunctionOnSet(f, A) + SumFunctionOnSet(f, S \ A)
<1> DEFINE Sum(T) == SumFunctionOnSet(f, T)
<1> DEFINE P == {T \in SUBSET A : Sum(S) = Sum(T) + Sum(S \ T)}
<1>1. \A T \in SUBSET S : IsFiniteSet(T) /\ Sum(T) \in Int
  BY FS_Subset, SumIsInteger
<1>2. {} \in P
  <2>1. S \ {} = S
    OBVIOUS
  <2> QED BY <1>1, <2>1, SumOfNone
<1>3. ASSUME NEW T \in SUBSET A, NEW x \in A \ T, T \in P
      PROVE  T \cup {x} \in P
  <2> DEFINE U == T \cup {x}
  <2>1. U \ {x} = T /\ U \in SUBSET S /\ S \ T \in SUBSET S /\ S \ U \in SUBSET S
        /\ (S \ T) \ {x} = S \ U
    OBVIOUS
  <2>2. Sum(U) = f[x] + Sum(U \ {x})
    BY <1>1, <2>1, SumWithout
  <2>3. Sum(S \ T) = f[x] + Sum((S \ T) \ {x})
    BY <1>1, <2>1, SumWithout
  <2>4. /\ Sum(S) = Sum(T) + Sum(S \ T)
        /\ Sum(S) \in Int /\ Sum(T) \in Int /\ Sum(S \ U) \in Int /\ f[x] \in Int
    BY <1>1, <1>3, <2>1
  <2>5. Sum(U) = f[x] + Sum(T) /\ Sum(S \ T) = f[x] + Sum(S \ U)
    BY <2>1, <2>2, <2>3
  <2>6. Sum(S) = Sum(U) + Sum(S \ U)
    <3> HIDE DEF Sum, U
    <3> QED BY <2>4, <2>5
  <2> QED BY <2>6
<1>4. A \in P
  <2>1. IsFiniteSet(A)
    BY FS_Subset
  <2> HIDE DEF P
  <2> QED BY <1>2, <1>3, <2>1, SubsetInduction
<1> QED BY <1>4

\* The sum of two functions, and of a function times a number.
LEMMA SumOfSums ==
  ASSUME NEW S, IsFiniteSet(S), NEW f, NEW g, NEW h,
         \A x \in S : f[x] \in Int /\ g[x] \in Int /\ h[x] = f[x] + g[x]
  PROVE  SumFunctionOnSet(h, S) = SumFunctionOnSet(f, S) + SumFunctionOnSet(g, S)
<1> DEFINE P == {T \in SUBSET S : SumFunctionOnSet(h, T) =
                   SumFunctionOnSet(f, T) + SumFunctionOnSet(g, T)}
<1>1. {} \in P
  BY SumOfNone
<1>2. ASSUME NEW T \in SUBSET S, NEW x \in S \ T, T \in P
      PROVE  T \cup {x} \in P
  <2> DEFINE U == T \cup {x}
  <2>1. IsFiniteSet(T) /\ IsFiniteSet(U) /\ U \ {x} = T /\ U \in SUBSET S
    BY FS_Subset
  <2>2. /\ SumFunctionOnSet(f, U) = f[x] + SumFunctionOnSet(f, U \ {x})
        /\ SumFunctionOnSet(g, U) = g[x] + SumFunctionOnSet(g, U \ {x})
        /\ SumFunctionOnSet(h, U) = h[x] + SumFunctionOnSet(h, U \ {x})
    BY <2>1, SumWithout
  <2>3. SumFunctionOnSet(f, T) \in Int /\ SumFunctionOnSet(g, T) \in Int
    BY <2>1, SumIsInteger
  <2>4. SumFunctionOnSet(h, T) = SumFunctionOnSet(f, T) + SumFunctionOnSet(g, T)
    BY <1>2
  <2>5. f[x] \in Int /\ g[x] \in Int /\ h[x] = f[x] + g[x]
    OBVIOUS
  <2>6. /\ SumFunctionOnSet(f, U) = f[x] + SumFunctionOnSet(f, T)
        /\ SumFunctionOnSet(g, U) = g[x] + SumFunctionOnSet(g, T)
        /\ SumFunctionOnSet(h, U) = h[x] + SumFunctionOnSet(h, T)
    BY <2>1, <2>2
  <2>7. SumFunctionOnSet(h, U) = SumFunctionOnSet(f, U) + SumFunctionOnSet(g, U)
    <3> HIDE DEF U
    <3> QED BY <2>3, <2>4, <2>5, <2>6
  <2> QED BY <2>1, <2>7
<1> HIDE DEF P
<1>3. S \in P
  BY <1>1, <1>2, SubsetInduction
<1> QED BY <1>3 DEF P

\* The two facts about products that the provers need told.
LEMMA Distributes ==
  ASSUME NEW c \in Int, NEW m \in Int, NEW n \in Int
  PROVE  c * (m + n) = c * m + c * n
OBVIOUS

LEMMA ProductIsMonotonic ==
  ASSUME NEW a \in Int, NEW b \in Int, NEW c \in Nat, a <= b
  PROVE  a * c \in Int /\ b * c \in Int /\ a * c <= b * c
<1>1. (b - a) * c \in Nat
  <2>1. b - a \in Nat
    OBVIOUS
  <2> QED BY <2>1
<1>2. (b - a) * c = b * c - a * c
  OBVIOUS
<1> QED BY <1>1, <1>2

LEMMA SumOfMultiples ==
  ASSUME NEW S, IsFiniteSet(S), NEW c \in Int, NEW f, NEW h,
         \A x \in S : f[x] \in Int /\ h[x] = c * f[x]
  PROVE  SumFunctionOnSet(h, S) = c * SumFunctionOnSet(f, S)
<1> DEFINE P == {T \in SUBSET S : SumFunctionOnSet(h, T) = c * SumFunctionOnSet(f, T)}
<1>1. {} \in P
  BY SumOfNone
<1>2. ASSUME NEW T \in SUBSET S, NEW x \in S \ T, T \in P
      PROVE  T \cup {x} \in P
  <2> DEFINE U == T \cup {x}
  <2>1. IsFiniteSet(T) /\ IsFiniteSet(U) /\ U \ {x} = T /\ U \in SUBSET S
    BY FS_Subset
  <2>2. \A y \in S : f[y] \in Int /\ h[y] \in Int
    OBVIOUS
  <2>3. /\ SumFunctionOnSet(f, U) = f[x] + SumFunctionOnSet(f, U \ {x})
        /\ SumFunctionOnSet(h, U) = h[x] + SumFunctionOnSet(h, U \ {x})
    BY <2>1, <2>2, SumWithout
  <2>4. SumFunctionOnSet(f, T) \in Int /\ f[x] \in Int
    BY <2>1, <2>2, SumIsInteger
  <2>5. SumFunctionOnSet(h, U) = c * f[x] + c * SumFunctionOnSet(f, T)
    BY <1>2, <2>1, <2>3
  <2>6. c * (f[x] + SumFunctionOnSet(f, T)) = c * f[x] + c * SumFunctionOnSet(f, T)
    BY <2>4, Distributes
  <2>7. SumFunctionOnSet(f, U) = f[x] + SumFunctionOnSet(f, T)
    BY <2>1, <2>3
  <2>8. SumFunctionOnSet(h, U) = c * SumFunctionOnSet(f, U)
    <3> HIDE DEF U
    <3> QED BY <2>5, <2>6, <2>7
  <2> QED BY <2>1, <2>8
<1> HIDE DEF P
<1>3. S \in P
  BY <1>1, <1>2, SubsetInduction
<1> QED BY <1>3 DEF P

LEMMA SumOfZeros ==
  ASSUME NEW S, IsFiniteSet(S), NEW f, \A x \in S : f[x] = 0
  PROVE  SumFunctionOnSet(f, S) = 0
<1> DEFINE P == {T \in SUBSET S : SumFunctionOnSet(f, T) = 0}
<1>1. {} \in P
  BY SumOfNone
<1>2. ASSUME NEW T \in SUBSET S, NEW x \in S \ T, T \in P
      PROVE  T \cup {x} \in P
  <2> DEFINE U == T \cup {x}
  <2>1. IsFiniteSet(U) /\ U \ {x} = T /\ U \in SUBSET S
    BY FS_Subset
  <2>2. SumFunctionOnSet(f, U) = f[x] + SumFunctionOnSet(f, U \ {x})
    BY <2>1, SumWithout
  <2>3. SumFunctionOnSet(f, U) = 0
    BY <1>2, <2>1, <2>2
  <2> QED BY <2>1, <2>3
<1> HIDE DEF P
<1>3. S \in P
  BY <1>1, <1>2, SubsetInduction
<1> QED BY <1>3 DEF P

\* No term of a sum of naturals is more than the sum.
LEMMA TermIsAtMostSum ==
  ASSUME NEW S, IsFiniteSet(S), NEW f, \A x \in S : f[x] \in Nat, NEW a \in S
  PROVE  SumFunctionOnSet(f, S) \in Nat /\ f[a] <= SumFunctionOnSet(f, S)
<1>1. SumFunctionOnSet(f, S) = f[a] + SumFunctionOnSet(f, S \ {a})
  BY SumWithout
<1>2. SumFunctionOnSet(f, S \ {a}) \in Nat
  <2>1. IsFiniteSet(S \ {a})
    BY FS_Subset
  <2> QED BY <2>1, SumIsNatural
<1> QED BY <1>1, <1>2

\* A sum is no more than as many times the bound of its terms.
LEMMA SumIsBounded ==
  ASSUME NEW S, IsFiniteSet(S), NEW c \in Nat, NEW f,
         \A x \in S : f[x] \in Int /\ -c <= f[x] /\ f[x] <= c
  PROVE  /\ SumFunctionOnSet(f, S) \in Int /\ Cardinality(S) \in Nat
         /\ -(c * Cardinality(S)) <= SumFunctionOnSet(f, S)
         /\ SumFunctionOnSet(f, S) <= c * Cardinality(S)
<1> DEFINE Sum(T) == SumFunctionOnSet(f, T)
           n(T) == Cardinality(T)
           P == {T \in SUBSET S : -(c * n(T)) <= Sum(T) /\ Sum(T) <= c * n(T)}
<1>1. \A T \in SUBSET S : IsFiniteSet(T) /\ n(T) \in Nat /\ Sum(T) \in Int
  BY FS_Subset, FS_CardinalityType, SumIsInteger
<1>2. {} \in P
  BY SumOfNone, FS_EmptySet
<1>3. ASSUME NEW T \in SUBSET S, NEW x \in S \ T, T \in P
      PROVE  T \cup {x} \in P
  <2> DEFINE U == T \cup {x}
  <2>1. U \in SUBSET S /\ U \ {x} = T
    OBVIOUS
  <2>2. Sum(U) = f[x] + Sum(T)
    BY <1>1, <2>1, SumWithout
  <2>3. n(U) = n(T) + 1
    BY <1>1, FS_AddElement
  <2>4. c * n(U) = c * n(T) + c /\ c * n(T) \in Int
    <3>1. n(T) \in Nat
      BY <1>1
    <3> HIDE DEF n, U
    <3>2. c * (n(T) + 1) = c * n(T) + c * 1 /\ c * n(T) \in Int
      BY <3>1, Distributes
    <3> QED BY <2>3, <3>1, <3>2
  <2>5. -(c * n(T)) <= Sum(T) /\ Sum(T) <= c * n(T) /\ Sum(T) \in Int
    BY <1>1, <1>3
  <2>6. -(c * n(U)) <= Sum(U) /\ Sum(U) <= c * n(U)
    <3> HIDE DEF n, Sum, U
    <3> QED BY <2>2, <2>4, <2>5
  <2> QED BY <2>1, <2>6
<1>4. S \in P
  <2> HIDE DEF P
  <2> QED BY <1>2, <1>3, SubsetInduction
<1>5. Sum(S) \in Int /\ n(S) \in Nat /\ c * n(S) \in Int
  BY <1>1
<1> QED BY <1>4, <1>5
\* When one term changes, the sum changes by as much.
LEMMA SumWithOneChange ==
  ASSUME NEW S, IsFiniteSet(S), NEW a \in S, NEW f, NEW g,
         \A x \in S : f[x] \in Int /\ g[x] \in Int, \A x \in S \ {a} : g[x] = f[x]
  PROVE  /\ SumFunctionOnSet(f, S) \in Int
         /\ SumFunctionOnSet(g, S) = SumFunctionOnSet(f, S) + g[a] - f[a]
<1> DEFINE rest == S \ {a}
<1>1. IsFiniteSet(rest) /\ \A x \in rest : f[x] \in Int /\ g[x] \in Int /\ f[x] = g[x]
  BY FS_Subset
<1>2. SumFunctionOnSet(f, rest) = SumFunctionOnSet(g, rest) /\ SumFunctionOnSet(f, rest) \in Int
  BY <1>1, SumOfEqualTerms, SumIsInteger
<1>3. /\ SumFunctionOnSet(f, S) = f[a] + SumFunctionOnSet(f, rest)
      /\ SumFunctionOnSet(g, S) = g[a] + SumFunctionOnSet(g, rest)
  BY SumWithout
<1> QED BY <1>2, <1>3
=============================================================================
