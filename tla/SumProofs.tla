------------------------------ MODULE SumProofs ------------------------------
(***************************************************************************)
(* Sums over finite sets, as the models write them with MapThenSumSet and  *)
(* SumFunction: the recursion they stand for has a value, which does not   *)
(* depend on the order in which elements are chosen.  Induction is stated  *)
(* of a set of subsets or numbers, so that it can be cited.                *)
(***************************************************************************)
EXTENDS Integers, FiniteSets, Functions, SequenceTheorems, FiniteSetTheorems,
        WellFoundedInduction, TLAPS

\* A set of naturals that is not empty has a least element.
LEMMA LeastExists ==
    ASSUME NEW S \in SUBSET Nat, S # {}
    PROVE  \E x \in S : \A y \in S : x <= y
<1> DEFINE less == OpToRel(<, Nat)
<1>1. less = {ss \in Nat \X Nat : ss[1] < ss[2]}
  BY DEF OpToRel
<1>2. IsWellFoundedOn(less, Nat)
  BY NatLessThanWellFounded
<1> HIDE DEF less
<1>3. PICK x \in S : \A y \in S : ~ (<<y, x>> \in less)
  BY <1>2, WFMin
<1>4. \A y \in S : <<y, x>> \in Nat \X Nat
  OBVIOUS
<1>5. \A y \in S : ~ (y < x)
  BY <1>1, <1>3, <1>4
<1>6. \A y \in S : x <= y
  BY <1>5
<1>7. QED
  BY <1>6

\* Induction over the naturals.
LEMMA NatInd ==
    ASSUME NEW good \in SUBSET Nat, 0 \in good, \A n \in good : n + 1 \in good
    PROVE  good = Nat
<1> SUFFICES ASSUME Nat \ good # {} PROVE FALSE
  OBVIOUS
<1>1. PICK n \in Nat \ good : \A m \in Nat \ good : n <= m
  BY LeastExists
<1>2. n - 1 \in Nat /\ n - 1 \in good
  BY <1>1
<1>3. QED
  BY <1>1, <1>2

\* Induction over the subsets of a finite set, from those they contain.
LEMMA SubsetInd ==
    ASSUME NEW S, IsFiniteSet(S), NEW good \in SUBSET SUBSET S,
           \A T \in SUBSET S : (\A U \in SUBSET T : U # T => U \in good) => T \in good
    PROVE  good = SUBSET S
<1> SUFFICES ASSUME (SUBSET S) \ good # {} PROVE FALSE
  OBVIOUS
<1> DEFINE R == StrictSubsetOrdering(S)
<1>1. IsWellFoundedOn(R, SUBSET S)
  <2>1. IsWellFoundedOn(R, FiniteSubsetsOf(S))
    BY FS_StrictSubsetOrderingWellFounded
  <2>2. FiniteSubsetsOf(S) = SUBSET S
    BY FS_FiniteSubsetsOfFinite
  <2> QED BY <2>1, <2>2
<1>2. \A T, U \in SUBSET S : <<U, T>> \in R <=> U \subseteq T /\ U # T
  BY DEF StrictSubsetOrdering
<1> HIDE DEF R
<1> DEFINE bad == (SUBSET S) \ good
<1>3. PICK T \in bad : \A U \in bad : ~ (<<U, T>> \in R)
  <2>1. bad \subseteq SUBSET S /\ bad # {}
    OBVIOUS
  <2> HIDE DEF bad
  <2> QED BY <1>1, <2>1, WFMin
<1>4. \A U \in SUBSET T : U # T => U \in good
  BY <1>2, <1>3
<1>5. QED
  BY <1>3, <1>4

\* Induction over the subsets of a finite set, element by element.
LEMMA ElementInd ==
    ASSUME NEW S, IsFiniteSet(S), NEW good \in SUBSET SUBSET S, {} \in good,
           \A T \in good : \A x \in S \ T : T \cup {x} \in good
    PROVE  good = SUBSET S
<1>1. \A T \in SUBSET S : (\A U \in SUBSET T : U # T => U \in good) => T \in good
  <2> SUFFICES ASSUME NEW T \in SUBSET S, T # {}, \A U \in SUBSET T : U # T => U \in good
               PROVE  T \in good
    OBVIOUS
  <2>1. PICK x \in T : TRUE
    OBVIOUS
  <2>2. T \ {x} \in SUBSET T /\ T \ {x} # T
    BY <2>1
  <2>3. T \ {x} \in good /\ x \in S \ (T \ {x})
    BY <2>2
  <2>4. (T \ {x}) \cup {x} \in good
    BY <2>3
  <2>5. (T \ {x}) \cup {x} = T
    OBVIOUS
  <2>6. QED
    BY <2>4, <2>5
<1>2. QED
  BY <1>1, SubsetInd

-----------------------------------------------------------------------------
(* The recursion behind a sum of w over S.                                 *)
Any(s) == CHOOSE x \in s : TRUE
Step(w, S, g) == [s \in SUBSET S |-> IF s = {} THEN 0 ELSE w[Any(s)] + g[s \ {Any(s)}]]
Sums(w, S) == CHOOSE g : g = Step(w, S, g)

LEMMA AnyIs == \A s : s # {} => Any(s) \in s
BY DEF Any

LEMMA SumIs ==
    ASSUME NEW w, NEW S PROVE SumFunctionOnSet(w, S) = Sums(w, S)[S]
BY DEF SumFunctionOnSet, FoldFunctionOnSet, MapThenFoldSet, Sums, Step, Any

\* The recursion has a solution: one for subsets of each size.
LEMMA SumsExist ==
    ASSUME NEW w, NEW S, IsFiniteSet(S)
    PROVE  Sums(w, S) = Step(w, S, Sums(w, S))
<1> DEFINE Small(n) == {s \in SUBSET S : Cardinality(s) <= n}
           Part(n, g) == [s \in Small(n) |-> IF s = {} THEN 0 ELSE w[Any(s)] + g[s \ {Any(s)}]]
           good == {n \in Nat : \E g : g = Part(n, g)}
<1>1. \A s \in SUBSET S : IsFiniteSet(s) /\ Cardinality(s) \in Nat /\ Cardinality(s) <= Cardinality(S)
  BY FS_Subset, FS_CardinalityType
<1>2. \A s \in SUBSET S : s # {} =>
         s \ {Any(s)} \in SUBSET S /\ Cardinality(s \ {Any(s)}) = Cardinality(s) - 1
  BY <1>1, AnyIs, FS_RemoveElement
<1>3. 0 \in good
  <2> DEFINE g == [s \in Small(0) |-> 0]
  <2>1. \A s \in Small(0) : s = {}
    BY <1>1, FS_EmptySet
  <2>2. g = Part(0, g)
    BY <2>1
  <2>3. QED
    BY <2>2
<1>4. ASSUME NEW n \in good PROVE n + 1 \in good
  <2>1. PICK g : g = Part(n, g)
    OBVIOUS
  <2> DEFINE h == [s \in Small(n + 1) |->
                      IF s \in Small(n) THEN g[s]
                      ELSE IF s = {} THEN 0 ELSE w[Any(s)] + g[s \ {Any(s)}]]
  <2>2. ASSUME NEW s \in Small(n + 1), s # {}
        PROVE  h[s] = w[Any(s)] + h[s \ {Any(s)}]
    <3>1. s \ {Any(s)} \in Small(n) /\ s \ {Any(s)} \in Small(n + 1)
      BY <1>1, <1>2, <2>2
    <3>2. h[s \ {Any(s)}] = g[s \ {Any(s)}]
      BY <3>1
    <3>3. s \in Small(n) => g[s] = w[Any(s)] + g[s \ {Any(s)}]
      BY <2>1, <2>2
    <3> QED
      BY <2>2, <3>2, <3>3
  <2>3. {} \in Small(n + 1) => h[{}] = 0
    <3>1. {} \in Small(n) => g[{}] = 0
      BY <2>1
    <3> QED
      BY <3>1
  <2>4. h = Part(n + 1, h)
    <3> HIDE DEF Small
    <3>1. \A s \in Small(n + 1) : h[s] = Part(n + 1, h)[s]
      <4> SUFFICES ASSUME NEW s \in Small(n + 1) PROVE h[s] = Part(n + 1, h)[s]
        OBVIOUS
      <4>1. CASE s = {}
        BY <2>3, <4>1
      <4>2. CASE s # {}
        BY <2>2, <4>2
      <4> QED BY <4>1, <4>2
    <3> QED BY <3>1
  <2> HIDE DEF h, Part
  <2>5. \E f : f = Part(n + 1, f)
    BY <2>4
  <2>6. QED
    BY <2>5
<1> HIDE DEF good
<1>5. Cardinality(S) \in good
  <2>1. good = Nat
    BY <1>3, <1>4, NatInd DEF good
  <2> QED BY <2>1, FS_CardinalityType
<1>6. Small(Cardinality(S)) = SUBSET S
  BY <1>1
<1>7. \E g : g = Step(w, S, g)
  BY <1>5, <1>6 DEF good, Step
<1> QED
  BY <1>7 DEF Sums

\* On a subset, the solution for a set is the one for the subset, and only the
\* values of w there matter.
LEMMA SumsAgree ==
    ASSUME NEW S, IsFiniteSet(S), NEW T \in SUBSET S, NEW w, NEW v, \A x \in T : w[x] = v[x]
    PROVE  Sums(w, S)[T] = Sums(v, T)[T]
<1> DEFINE F == Sums(w, S)
           G == Sums(v, T)
           good == {U \in SUBSET T : F[U] = G[U]}
<1>1. IsFiniteSet(T)
  BY FS_Subset
<1>2. F = Step(w, S, F) /\ G = Step(v, T, G)
  BY <1>1, SumsExist
<1> HIDE DEF F, G
<1>3. ASSUME NEW U \in SUBSET T, \A W \in SUBSET U : W # U => W \in good
      PROVE  U \in good
  <2>1. F[U] = IF U = {} THEN 0 ELSE w[Any(U)] + F[U \ {Any(U)}]
    BY <1>2 DEF Step
  <2>2. G[U] = IF U = {} THEN 0 ELSE v[Any(U)] + G[U \ {Any(U)}]
    BY <1>2 DEF Step
  <2>3. CASE U = {}
    BY <2>1, <2>2, <2>3
  <2>4. CASE U # {}
    <3>1. Any(U) \in U
      BY <2>4, AnyIs
    <3>2. U \ {Any(U)} \in good
      BY <1>3, <3>1
    <3>3. w[Any(U)] = v[Any(U)]
      BY <3>1
    <3> QED BY <2>1, <2>2, <2>4, <3>2, <3>3
  <2> QED BY <2>3, <2>4
<1> HIDE DEF good
<1>4. good = SUBSET T
  <2>1. good \in SUBSET SUBSET T
    BY DEF good
  <2> QED BY <1>1, <1>3, <2>1, SubsetInd
<1> QED
  BY <1>4 DEF good, F, G

-----------------------------------------------------------------------------
(* What a sum is, and how it changes with its set.                         *)

LEMMA SumOfNone == \A w : SumFunctionOnSet(w, {}) = 0
<1> SUFFICES ASSUME NEW w PROVE SumFunctionOnSet(w, {}) = 0
  OBVIOUS
<1>1. Sums(w, {}) = Step(w, {}, Sums(w, {}))
  BY SumsExist, FS_EmptySet
<1>2. Sums(w, {})[{}] = 0
  BY <1>1 DEF Step
<1> QED
  BY <1>2, SumIs

LEMMA SumOfChosen ==
    ASSUME NEW S, IsFiniteSet(S), S # {}, NEW w
    PROVE  SumFunctionOnSet(w, S) = w[Any(S)] + SumFunctionOnSet(w, S \ {Any(S)})
<1>1. Sums(w, S) = Step(w, S, Sums(w, S))
  BY SumsExist
<1>2. Sums(w, S)[S] = w[Any(S)] + Sums(w, S)[S \ {Any(S)}]
  BY <1>1 DEF Step
<1>3. Sums(w, S)[S \ {Any(S)}] = Sums(w, S \ {Any(S)})[S \ {Any(S)}]
  BY SumsAgree
<1> QED
  BY <1>2, <1>3, SumIs

\* Only the values on the set matter.
LEMMA SumOfSame ==
    ASSUME NEW S, IsFiniteSet(S), NEW w, NEW v, \A x \in S : w[x] = v[x]
    PROVE  SumFunctionOnSet(w, S) = SumFunctionOnSet(v, S)
<1>1. Sums(w, S)[S] = Sums(v, S)[S]
  BY SumsAgree
<1> QED
  BY <1>1, SumIs

LEMMA SumType ==
    ASSUME NEW S, IsFiniteSet(S), NEW w, \A x \in S : w[x] \in Int
    PROVE  \A T \in SUBSET S : SumFunctionOnSet(w, T) \in Int
<1> DEFINE good == {T \in SUBSET S : SumFunctionOnSet(w, T) \in Int}
<1>1. ASSUME NEW T \in SUBSET S, \A U \in SUBSET T : U # T => U \in good
      PROVE  T \in good
  <2>1. CASE T = {}
    BY <2>1, SumOfNone
  <2>2. CASE T # {}
    <3>1. Any(T) \in T /\ IsFiniteSet(T)
      BY <2>2, AnyIs, FS_Subset
    <3>2. T \ {Any(T)} \in good
      BY <1>1, <3>1
    <3>3. SumFunctionOnSet(w, T) = w[Any(T)] + SumFunctionOnSet(w, T \ {Any(T)})
      BY <2>2, <3>1, SumOfChosen
    <3> QED BY <3>1, <3>2, <3>3
  <2> QED BY <2>1, <2>2
<1> HIDE DEF good
<1>2. good = SUBSET S
  <2>1. good \in SUBSET SUBSET S
    BY DEF good
  <2> QED BY <1>1, <2>1, SubsetInd
<1> QED
  BY <1>2 DEF good

\* Any element may be taken first.
LEMMA SumWithout ==
    ASSUME NEW S, IsFiniteSet(S), NEW w, \A x \in S : w[x] \in Int
    PROVE  \A T \in SUBSET S : \A x \in T :
              SumFunctionOnSet(w, T) = w[x] + SumFunctionOnSet(w, T \ {x})
<1> DEFINE good == {T \in SUBSET S : \A x \in T :
                        SumFunctionOnSet(w, T) = w[x] + SumFunctionOnSet(w, T \ {x})}
<1>1. ASSUME NEW T \in SUBSET S, \A U \in SUBSET T : U # T => U \in good
      PROVE  T \in good
  <2> SUFFICES ASSUME NEW x \in T
               PROVE  SumFunctionOnSet(w, T) = w[x] + SumFunctionOnSet(w, T \ {x})
    OBVIOUS
  <2> DEFINE a == Any(T)
  <2>1. a \in T /\ IsFiniteSet(T)
    BY AnyIs, FS_Subset
  <2>2. SumFunctionOnSet(w, T) = w[a] + SumFunctionOnSet(w, T \ {a})
    BY <2>1, SumOfChosen
  <2> HIDE DEF a
  <2>3. CASE x = a
    BY <2>2, <2>3
  <2>4. CASE x # a
    <3>1. T \ {a} \in good /\ T \ {x} \in good
      BY <1>1, <2>1
    <3>2. SumFunctionOnSet(w, T \ {a}) = w[x] + SumFunctionOnSet(w, (T \ {a}) \ {x})
      BY <2>4, <3>1
    <3>3. SumFunctionOnSet(w, T \ {x}) = w[a] + SumFunctionOnSet(w, (T \ {x}) \ {a})
      BY <2>1, <2>4, <3>1
    <3>4. (T \ {x}) \ {a} = (T \ {a}) \ {x} /\ (T \ {a}) \ {x} \in SUBSET S
      OBVIOUS
    <3>5. SumFunctionOnSet(w, (T \ {a}) \ {x}) \in Int
      BY <3>4, SumType
    <3>6. w[a] \in Int /\ w[x] \in Int
      BY <2>1
    <3>7. SumFunctionOnSet(w, T) = w[a] + (w[x] + SumFunctionOnSet(w, (T \ {a}) \ {x}))
      BY <2>2, <3>2, Zenon
    <3>8. SumFunctionOnSet(w, T \ {x}) = w[a] + SumFunctionOnSet(w, (T \ {a}) \ {x})
      BY <3>3, <3>4, Zenon
    <3>9. \A p, q, r \in Int : p + (q + r) = q + (p + r)
      OBVIOUS
    <3> DEFINE r == SumFunctionOnSet(w, (T \ {a}) \ {x})
    <3> HIDE DEF r
    <3>10. w[a] + (w[x] + r) = w[x] + (w[a] + r)
      BY <3>5, <3>6, <3>9 DEF r
    <3> QED BY <3>7, <3>8, <3>10 DEF r
  <2> QED BY <2>3, <2>4
<1> HIDE DEF good
<1>2. good = SUBSET S
  <2>1. good \in SUBSET SUBSET S
    BY DEF good
  <2> QED BY <1>1, <2>1, SubsetInd
<1> QED
  BY <1>2 DEF good

LEMMA SumWith ==
    ASSUME NEW S, IsFiniteSet(S), NEW a, a \notin S, NEW w,
           w[a] \in Int, \A x \in S : w[x] \in Int
    PROVE  SumFunctionOnSet(w, S \cup {a}) = w[a] + SumFunctionOnSet(w, S)
<1> DEFINE T == S \cup {a}
<1>1. IsFiniteSet(T) /\ \A x \in T : w[x] \in Int
  BY FS_AddElement
<1>2. T \in SUBSET T /\ a \in T /\ T \ {a} = S
  OBVIOUS
<1> HIDE DEF T
<1>3. SumFunctionOnSet(w, T) = w[a] + SumFunctionOnSet(w, T \ {a})
  BY <1>1, <1>2, SumWithout
<1> QED
  BY <1>2, <1>3 DEF T

-----------------------------------------------------------------------------
(* Sums compared.                                                          *)

\* What ElementInd needs of a finite set whose values are integers.
LEMMA SumGrows ==
    ASSUME NEW S, IsFiniteSet(S), NEW w, \A x \in S : w[x] \in Int,
           NEW T \in SUBSET S, NEW a \in S \ T
    PROVE  /\ SumFunctionOnSet(w, T \cup {a}) = w[a] + SumFunctionOnSet(w, T)
           /\ SumFunctionOnSet(w, T) \in Int /\ w[a] \in Int
<1>1. IsFiniteSet(T) /\ \A x \in T : w[x] \in Int
  BY FS_Subset
<1>2. w[a] \in Int /\ a \notin T
  OBVIOUS
<1>3. SumFunctionOnSet(w, T \cup {a}) = w[a] + SumFunctionOnSet(w, T)
  BY <1>1, <1>2, SumWith
<1> QED
  BY <1>2, <1>3, SumType

LEMMA SumOrder ==
    ASSUME NEW S, IsFiniteSet(S), NEW w, NEW v,
           \A x \in S : w[x] \in Int /\ v[x] \in Int /\ w[x] <= v[x]
    PROVE  SumFunctionOnSet(w, S) <= SumFunctionOnSet(v, S)
<1> DEFINE good == {T \in SUBSET S : SumFunctionOnSet(w, T) <= SumFunctionOnSet(v, T)}
<1>1. {} \in good
  BY SumOfNone
<1>2. ASSUME NEW T \in good, NEW a \in S \ T PROVE T \cup {a} \in good
  <2>1. SumFunctionOnSet(w, T) <= SumFunctionOnSet(v, T) /\ w[a] <= v[a]
    OBVIOUS
  <2>2. /\ SumFunctionOnSet(w, T \cup {a}) = w[a] + SumFunctionOnSet(w, T)
        /\ SumFunctionOnSet(w, T) \in Int /\ w[a] \in Int
    BY SumGrows
  <2>3. /\ SumFunctionOnSet(v, T \cup {a}) = v[a] + SumFunctionOnSet(v, T)
        /\ SumFunctionOnSet(v, T) \in Int /\ v[a] \in Int
    BY SumGrows
  <2> QED BY <2>1, <2>2, <2>3
<1> HIDE DEF good
<1>3. good = SUBSET S
  <2>1. good \in SUBSET SUBSET S
    BY DEF good
  <2> QED BY <1>1, <1>2, <2>1, ElementInd
<1> QED
  BY <1>3 DEF good

LEMMA SumOfSums ==
    ASSUME NEW S, IsFiniteSet(S), NEW u, NEW v, NEW w,
           \A x \in S : v[x] \in Int /\ w[x] \in Int /\ u[x] = v[x] + w[x]
    PROVE  SumFunctionOnSet(u, S) = SumFunctionOnSet(v, S) + SumFunctionOnSet(w, S)
<1> DEFINE good == {T \in SUBSET S : SumFunctionOnSet(u, T)
                                        = SumFunctionOnSet(v, T) + SumFunctionOnSet(w, T)}
<1>0. \A x \in S : u[x] \in Int
  OBVIOUS
<1>1. {} \in good
  BY SumOfNone
<1>2. ASSUME NEW T \in good, NEW a \in S \ T PROVE T \cup {a} \in good
  <2>1. SumFunctionOnSet(u, T) = SumFunctionOnSet(v, T) + SumFunctionOnSet(w, T) /\ u[a] = v[a] + w[a]
    OBVIOUS
  <2>2. SumFunctionOnSet(u, T \cup {a}) = u[a] + SumFunctionOnSet(u, T)
    BY <1>0, SumGrows
  <2>3. /\ SumFunctionOnSet(v, T \cup {a}) = v[a] + SumFunctionOnSet(v, T)
        /\ SumFunctionOnSet(v, T) \in Int /\ v[a] \in Int
    BY SumGrows
  <2>4. /\ SumFunctionOnSet(w, T \cup {a}) = w[a] + SumFunctionOnSet(w, T)
        /\ SumFunctionOnSet(w, T) \in Int /\ w[a] \in Int
    BY SumGrows
  <2> QED BY <2>1, <2>2, <2>3, <2>4
<1> HIDE DEF good
<1>3. good = SUBSET S
  <2>1. good \in SUBSET SUBSET S
    BY DEF good
  <2> QED BY <1>1, <1>2, <2>1, ElementInd
<1> QED
  BY <1>3 DEF good

LEMMA SumOfMultiples ==
    ASSUME NEW S, IsFiniteSet(S), NEW u, NEW w, NEW k \in Int,
           \A x \in S : w[x] \in Int /\ u[x] = k * w[x]
    PROVE  SumFunctionOnSet(u, S) = k * SumFunctionOnSet(w, S)
<1> DEFINE good == {T \in SUBSET S : SumFunctionOnSet(u, T) = k * SumFunctionOnSet(w, T)}
<1>0. \A x \in S : u[x] \in Int
  OBVIOUS
<1>1. {} \in good
  BY SumOfNone
<1>2. ASSUME NEW T \in good, NEW a \in S \ T PROVE T \cup {a} \in good
  <2>1. SumFunctionOnSet(u, T) = k * SumFunctionOnSet(w, T) /\ u[a] = k * w[a]
    OBVIOUS
  <2>2. SumFunctionOnSet(u, T \cup {a}) = u[a] + SumFunctionOnSet(u, T)
    BY <1>0, SumGrows
  <2>3. /\ SumFunctionOnSet(w, T \cup {a}) = w[a] + SumFunctionOnSet(w, T)
        /\ SumFunctionOnSet(w, T) \in Int /\ w[a] \in Int
    BY SumGrows
  <2>4. \A p, q \in Int : k * (p + q) = k * p + k * q
    OBVIOUS
  <2>5. k * (w[a] + SumFunctionOnSet(w, T)) = k * w[a] + k * SumFunctionOnSet(w, T)
    BY <2>3, <2>4
  <2> QED BY <2>1, <2>2, <2>3, <2>5
<1> HIDE DEF good
<1>3. good = SUBSET S
  <2>1. good \in SUBSET SUBSET S
    BY DEF good
  <2> QED BY <1>1, <1>2, <2>1, ElementInd
<1> QED
  BY <1>3 DEF good

\* As many times the same.
LEMMA SumOfEqual ==
    ASSUME NEW S, IsFiniteSet(S), NEW w, NEW k \in Int, \A x \in S : w[x] = k
    PROVE  SumFunctionOnSet(w, S) = k * Cardinality(S)
<1> DEFINE good == {T \in SUBSET S : SumFunctionOnSet(w, T) = k * Cardinality(T)}
<1>0. \A x \in S : w[x] \in Int
  OBVIOUS
<1>1. {} \in good
  BY SumOfNone, FS_EmptySet
<1>2. ASSUME NEW T \in good, NEW a \in S \ T PROVE T \cup {a} \in good
  <2>1. SumFunctionOnSet(w, T) = k * Cardinality(T) /\ w[a] = k
    OBVIOUS
  <2>2. SumFunctionOnSet(w, T \cup {a}) = w[a] + SumFunctionOnSet(w, T)
    BY <1>0, SumGrows
  <2>3. IsFiniteSet(T) /\ Cardinality(T) \in Nat /\ Cardinality(T \cup {a}) = Cardinality(T) + 1
    BY FS_Subset, FS_CardinalityType, FS_AddElement
  <2>4. \A n \in Nat : k * (n + 1) = k + k * n
    OBVIOUS
  <2>5. k * (Cardinality(T) + 1) = k + k * Cardinality(T)
    BY <2>3, <2>4
  <2> QED BY <2>1, <2>2, <2>3, <2>5
<1> HIDE DEF good
<1>3. good = SUBSET S
  <2>1. good \in SUBSET SUBSET S
    BY DEF good
  <2> QED BY <1>1, <1>2, <2>1, ElementInd
<1> QED
  BY <1>3 DEF good

LEMMA SumOfNaturals ==
    ASSUME NEW S, IsFiniteSet(S), NEW w, \A x \in S : w[x] \in Nat
    PROVE  SumFunctionOnSet(w, S) \in Nat
<1> DEFINE good == {T \in SUBSET S : SumFunctionOnSet(w, T) \in Nat}
<1>0. \A x \in S : w[x] \in Int
  OBVIOUS
<1>1. {} \in good
  BY SumOfNone
<1>2. ASSUME NEW T \in good, NEW a \in S \ T PROVE T \cup {a} \in good
  <2>1. SumFunctionOnSet(w, T) \in Nat /\ w[a] \in Nat
    OBVIOUS
  <2>2. SumFunctionOnSet(w, T \cup {a}) = w[a] + SumFunctionOnSet(w, T)
    BY <1>0, SumGrows
  <2> QED BY <2>1, <2>2
<1> HIDE DEF good
<1>3. good = SUBSET S
  <2>1. good \in SUBSET SUBSET S
    BY DEF good
  <2> QED BY <1>1, <1>2, <2>1, ElementInd
<1> QED
  BY <1>3 DEF good

\* A sum over disjoint parts.
LEMMA SumOfParts ==
    ASSUME NEW S, IsFiniteSet(S), NEW w, \A x \in S : w[x] \in Int,
           NEW A \in SUBSET S, NEW B \in SUBSET S, A \cap B = {}
    PROVE  SumFunctionOnSet(w, A \cup B) = SumFunctionOnSet(w, A) + SumFunctionOnSet(w, B)
<1> DEFINE good == {T \in SUBSET B : SumFunctionOnSet(w, A \cup T)
                                        = SumFunctionOnSet(w, A) + SumFunctionOnSet(w, T)}
<1>0. IsFiniteSet(B) /\ SumFunctionOnSet(w, A) \in Int
  BY FS_Subset, SumType
<1>1. {} \in good
  <2>1. A \cup {} = A
    OBVIOUS
  <2> QED BY <1>0, <2>1, SumOfNone
<1>2. ASSUME NEW T \in good, NEW a \in B \ T PROVE T \cup {a} \in good
  <2>1. SumFunctionOnSet(w, A \cup T) = SumFunctionOnSet(w, A) + SumFunctionOnSet(w, T)
    OBVIOUS
  <2>2. A \cup T \in SUBSET S /\ a \in S \ (A \cup T) /\ T \in SUBSET S /\ a \in S \ T
    OBVIOUS
  <2>3. /\ SumFunctionOnSet(w, (A \cup T) \cup {a}) = w[a] + SumFunctionOnSet(w, A \cup T)
        /\ w[a] \in Int
    <3> DEFINE X == A \cup T
    <3>1. X \in SUBSET S /\ a \in S \ X
      BY <2>2
    <3> HIDE DEF X
    <3>2. SumFunctionOnSet(w, X \cup {a}) = w[a] + SumFunctionOnSet(w, X) /\ w[a] \in Int
      BY <3>1, SumGrows
    <3> QED BY <3>2 DEF X
  <2>4. /\ SumFunctionOnSet(w, T \cup {a}) = w[a] + SumFunctionOnSet(w, T)
        /\ SumFunctionOnSet(w, T) \in Int
    BY <2>2, SumGrows
  <2>5. (A \cup T) \cup {a} = A \cup (T \cup {a})
    OBVIOUS
  <2>6. SumFunctionOnSet(w, A \cup (T \cup {a})) = w[a] + SumFunctionOnSet(w, A \cup T)
    BY <2>3, <2>5
  <2> QED BY <1>0, <2>1, <2>3, <2>4, <2>6
<1> HIDE DEF good
<1>3. good = SUBSET B
  <2>1. good \in SUBSET SUBSET B
    BY DEF good
  <2> QED BY <1>0, <1>1, <1>2, <2>1, ElementInd
<1> QED
  BY <1>3 DEF good

LEMMA SumOfPart ==
    ASSUME NEW S, IsFiniteSet(S), NEW w, \A x \in S : w[x] \in Nat, NEW T \in SUBSET S
    PROVE  SumFunctionOnSet(w, T) \in Nat /\ SumFunctionOnSet(w, T) <= SumFunctionOnSet(w, S)
<1>1. IsFiniteSet(T) /\ IsFiniteSet(S \ T)
  BY FS_Subset
<1>2. SumFunctionOnSet(w, T) \in Nat /\ SumFunctionOnSet(w, S \ T) \in Nat
  BY <1>1, SumOfNaturals
<1>3. SumFunctionOnSet(w, T \cup (S \ T)) = SumFunctionOnSet(w, T) + SumFunctionOnSet(w, S \ T)
  BY SumOfParts
<1>4. T \cup (S \ T) = S
  OBVIOUS
<1>5. \A p, q \in Nat : p <= p + q
  OBVIOUS
<1>6. SumFunctionOnSet(w, T) <= SumFunctionOnSet(w, T) + SumFunctionOnSet(w, S \ T)
  BY <1>2, <1>5
<1>7. SumFunctionOnSet(w, S) = SumFunctionOnSet(w, T) + SumFunctionOnSet(w, S \ T)
  BY <1>3, <1>4, Zenon
<1> QED
  BY <1>2, <1>6, <1>7, Zenon

\* A sum over other names.
LEMMA SumRenamed ==
    ASSUME NEW S, IsFiniteSet(S), NEW w, NEW v, NEW f,
           \A x, y \in S : f[x] = f[y] => x = y,
           \A x \in S : w[x] \in Int /\ v[f[x]] = w[x]
    PROVE  SumFunctionOnSet(v, {f[x] : x \in S}) = SumFunctionOnSet(w, S)
<1> DEFINE Of(T) == {f[x] : x \in T}
           good == {T \in SUBSET S : /\ IsFiniteSet(Of(T))
                                     /\ SumFunctionOnSet(v, Of(T)) = SumFunctionOnSet(w, T)}
<1>1. {} \in good
  <2>1. Of({}) = {}
    OBVIOUS
  <2> QED BY <2>1, SumOfNone, FS_EmptySet
<1>2. ASSUME NEW T \in good, NEW a \in S \ T PROVE T \cup {a} \in good
  <2>1. Of(T \cup {a}) = Of(T) \cup {f[a]} /\ f[a] \notin Of(T)
    OBVIOUS
  <2>2. IsFiniteSet(Of(T)) /\ SumFunctionOnSet(v, Of(T)) = SumFunctionOnSet(w, T)
    OBVIOUS
  <2>3. \A y \in Of(T) : v[y] \in Int
    OBVIOUS
  <2>4. v[f[a]] = w[a] /\ w[a] \in Int
    OBVIOUS
  <2> HIDE DEF Of
  <2>5. SumFunctionOnSet(v, Of(T) \cup {f[a]}) = v[f[a]] + SumFunctionOnSet(v, Of(T))
    BY <2>1, <2>2, <2>3, <2>4, SumWith
  <2>6. SumFunctionOnSet(w, T \cup {a}) = w[a] + SumFunctionOnSet(w, T)
    BY SumGrows
  <2>7. IsFiniteSet(Of(T) \cup {f[a]})
    BY <2>2, FS_AddElement
  <2> QED BY <2>1, <2>2, <2>4, <2>5, <2>6, <2>7
<1> HIDE DEF good
<1>3. good = SUBSET S
  <2>1. good \in SUBSET SUBSET S
    BY DEF good
  <2> QED BY <1>1, <1>2, <2>1, ElementInd
<1> QED
  BY <1>3 DEF good

LEMMA ImageOfFinite ==
    ASSUME NEW S, IsFiniteSet(S), NEW f
    PROVE  /\ IsFiniteSet({f[x] : x \in S})
           /\ Cardinality({f[x] : x \in S}) <= Cardinality(S)
<1> DEFINE T == {f[x] : x \in S}
           g == [x \in S |-> f[x]]
<1>1. g \in Surjection(S, T)
  BY DEF Surjection
<1> HIDE DEF g, T
<1>2. IsFiniteSet(T) /\ Cardinality(T) <= Cardinality(S)
  BY <1>1, FS_Surjection
<1> QED
  BY <1>2 DEF T

\* Whatever satisfies the recursion is the sum.
LEMMA SumIsUnique ==
    ASSUME NEW S, IsFiniteSet(S), NEW w, NEW F, F = Step(w, S, F)
    PROVE  F[S] = SumFunctionOnSet(w, S)
<1> DEFINE G == Sums(w, S)
           good == {T \in SUBSET S : F[T] = G[T]}
<1>1. G = Step(w, S, G)
  BY SumsExist
<1> HIDE DEF G
<1>2. ASSUME NEW T \in SUBSET S, \A U \in SUBSET T : U # T => U \in good
      PROVE  T \in good
  <2>1. /\ F[T] = IF T = {} THEN 0 ELSE w[Any(T)] + F[T \ {Any(T)}]
        /\ G[T] = IF T = {} THEN 0 ELSE w[Any(T)] + G[T \ {Any(T)}]
    BY <1>1 DEF Step
  <2>2. T # {} => T \ {Any(T)} \in good
    BY <1>2, AnyIs
  <2> QED BY <2>1, <2>2
<1> HIDE DEF good
<1>3. good = SUBSET S
  <2>1. good \in SUBSET SUBSET S
    BY DEF good
  <2> QED BY <1>2, <2>1, SubsetInd
<1> QED
  BY <1>3, SumIs DEF good, G

\* What is zero need not be summed.
LEMMA SumOfSupport ==
    ASSUME NEW S, IsFiniteSet(S), NEW w, \A x \in S : w[x] \in Int,
           NEW A \in SUBSET S, \A x \in S \ A : w[x] = 0
    PROVE  SumFunctionOnSet(w, S) = SumFunctionOnSet(w, A)
<1> DEFINE B == S \ A
<1>1. B \in SUBSET S /\ A \cap B = {} /\ A \cup B = S /\ \A x \in B : w[x] = 0
  OBVIOUS
<1> HIDE DEF B
<1>2. IsFiniteSet(B) /\ Cardinality(B) \in Nat
  BY <1>1, FS_Subset, FS_CardinalityType
<1>3. SumFunctionOnSet(w, B) = 0
  <2> DEFINE k == 0
  <2>1. k \in Int /\ (\A x \in B : w[x] = k) /\ \A m \in Nat : k * m = 0
    BY <1>1
  <2> HIDE DEF k
  <2>2. SumFunctionOnSet(w, B) = k * Cardinality(B)
    BY <1>2, <2>1, SumOfEqual
  <2> QED BY <1>2, <2>1, <2>2
<1>4. SumFunctionOnSet(w, A \cup B) = SumFunctionOnSet(w, A) + SumFunctionOnSet(w, B)
  BY <1>1, SumOfParts
<1>5. SumFunctionOnSet(w, A) \in Int
  BY SumType
<1>6. SumFunctionOnSet(w, A \cup B) = SumFunctionOnSet(w, A)
  BY <1>3, <1>4, <1>5
<1> QED
  BY <1>1, <1>6

\* Shares of a total, rounded: the sum is off by no more than half for each.
LEMMA SumOfShares ==
    ASSUME NEW S, IsFiniteSet(S), NEW u, NEW w, NEW c \in Int, NEW t \in Int,
           \A x \in S : u[x] \in Int /\ w[x] \in Int /\ 2 * t * u[x] <= 2 * c * w[x] + t
    PROVE  2 * t * SumFunctionOnSet(u, S) <= 2 * c * SumFunctionOnSet(w, S) + t * Cardinality(S)
<1> DEFINE a == 2 * t
           b == 2 * c
           p == [x \in S |-> a * u[x]]
           q == [x \in S |-> b * w[x]]
           r == [x \in S |-> t]
           s == [x \in S |-> q[x] + r[x]]
<1>1. a \in Int /\ b \in Int
  OBVIOUS
<1>2. \A x \in S : /\ p[x] \in Int /\ q[x] \in Int /\ r[x] = t /\ s[x] \in Int /\ p[x] <= s[x]
                   /\ p[x] = a * u[x] /\ q[x] = b * w[x] /\ s[x] = q[x] + r[x] /\ r[x] \in Int
  OBVIOUS
<1> HIDE DEF p, q, r, s, a, b
<1>3. SumFunctionOnSet(p, S) = a * SumFunctionOnSet(u, S)
  <2>1. \A x \in S : u[x] \in Int /\ p[x] = a * u[x]
    BY <1>2
  <2> QED BY <1>1, <2>1, SumOfMultiples
<1>4. SumFunctionOnSet(q, S) = b * SumFunctionOnSet(w, S)
  <2>1. \A x \in S : w[x] \in Int /\ q[x] = b * w[x]
    BY <1>2
  <2> QED BY <1>1, <2>1, SumOfMultiples
<1>5. SumFunctionOnSet(r, S) = t * Cardinality(S)
  BY <1>2, SumOfEqual
<1>6. SumFunctionOnSet(s, S) = SumFunctionOnSet(q, S) + SumFunctionOnSet(r, S)
  BY <1>2, SumOfSums
<1>7. SumFunctionOnSet(p, S) <= SumFunctionOnSet(s, S)
  BY <1>2, SumOrder
<1>8. a * SumFunctionOnSet(u, S) <= b * SumFunctionOnSet(w, S) + t * Cardinality(S)
  BY <1>3, <1>4, <1>5, <1>6, <1>7
<1> QED
  BY <1>8 DEF a, b

-----------------------------------------------------------------------------
(* Sums of sequences.                                                      *)

\* A concatenation, item by item.
LEMMA ConcatIs ==
    ASSUME NEW T, NEW x \in Seq(T), NEW y \in Seq(T)
    PROVE  x \o y = [i \in 1..(Len(x) + Len(y)) |-> IF i <= Len(x) THEN x[i] ELSE y[i - Len(x)]]
<1> DEFINE z == x \o y
<1>1. /\ z \in Seq(T) /\ Len(z) = Len(x) + Len(y)
      /\ \A i \in 1..(Len(x) + Len(y)) : z[i] = IF i <= Len(x) THEN x[i] ELSE y[i - Len(x)]
  BY ConcatProperties
<1> HIDE DEF z
<1>2. z = [i \in 1..Len(z) |-> z[i]]
  BY <1>1
<1>3. QED
  BY <1>1, <1>2 DEF z

\* Numbers are summed up wherever they stand.
LEMMA SumShifted ==
    ASSUME NEW m \in Nat, NEW n \in Nat, NEW t, NEW u,
           \A i \in 1..n : t[i] \in Int /\ u[i + m] = t[i]
    PROVE  SumFunctionOnSet(u, (m + 1)..(m + n)) = SumFunctionOnSet(t, 1..n)
<1> DEFINE N == 1..n
           B == (m + 1)..(m + n)
           f == [i \in N |-> i + m]
<1>1. /\ \A i, j \in N : f[i] = f[j] => i = j
      /\ \A i \in N : t[i] \in Int /\ u[f[i]] = t[i]
  OBVIOUS
<1>2. IsFiniteSet(N)
  BY FS_Interval
<1>3. \A j \in B : j - m \in N /\ f[j - m] = j
  OBVIOUS
<1>4. \A i \in N : f[i] \in B
  OBVIOUS
<1> HIDE DEF N, B, f
<1>5. B = {f[i] : i \in N}
  BY <1>3, <1>4
<1>6. SumFunctionOnSet(u, {f[i] : i \in N}) = SumFunctionOnSet(t, N)
  BY <1>1, <1>2, SumRenamed
<1>7. QED
  BY <1>5, <1>6 DEF N, B

\* A sequence of integers sums up to what its parts sum up to.
LEMMA SumOfConcat ==
    ASSUME NEW s \in Seq(Int), NEW t \in Seq(Int)
    PROVE  /\ SumFunction(s \o t) = SumFunction(s) + SumFunction(t)
           /\ SumFunction(s) \in Int /\ SumFunction(t) \in Int
<1> DEFINE u == s \o t
           m == Len(s)
           n == Len(t)
           A == 1..m
           B == (m + 1)..(m + n)
           S == 1..(m + n)
<1>1. /\ m \in Nat /\ n \in Nat /\ DOMAIN s = 1..m /\ DOMAIN t = 1..n
      /\ DOMAIN u = 1..(m + n)
      /\ \A i \in 1..m : s[i] \in Int /\ u[i] = s[i]
      /\ \A i \in 1..n : t[i] \in Int /\ u[i + m] = t[i]
  OBVIOUS
<1> HIDE DEF u, m, n
<1>2. IsFiniteSet(1..(m + n)) /\ IsFiniteSet(1..m) /\ IsFiniteSet(1..n)
  BY <1>1, FS_Interval
<1>3. \A i \in 1..(m + n) : u[i] \in Int
  <2> TAKE i \in 1..(m + n)
  <2>1. CASE i <= m
    BY <2>1, <1>1
  <2>2. CASE i > m
    <3>1. i - m \in 1..n /\ i = (i - m) + m
      BY <2>2, <1>1
    <3>2. QED
      BY <3>1, <1>1
  <2>3. QED
    BY <2>1, <2>2, <1>1
<1>4. A \in SUBSET S /\ B \in SUBSET S /\ A \cap B = {} /\ A \cup B = S
  BY <1>1
<1>5. SumFunctionOnSet(u, A \cup B) = SumFunctionOnSet(u, A) + SumFunctionOnSet(u, B)
  <2>1. /\ IsFiniteSet(S) /\ A \in SUBSET S /\ B \in SUBSET S /\ A \cap B = {}
        /\ \A i \in S : u[i] \in Int
    BY <1>2, <1>3, <1>4
  <2> HIDE DEF A, B, S
  <2>2. QED
    BY <2>1, SumOfParts
<1>6. SumFunctionOnSet(u, A) = SumFunctionOnSet(s, A)
  BY <1>1, <1>2, SumOfSame
<1>7. SumFunctionOnSet(u, B) = SumFunctionOnSet(t, 1..n)
  BY <1>1, SumShifted
<1>8. SumFunctionOnSet(s, A) \in Int /\ SumFunctionOnSet(t, 1..n) \in Int
  BY <1>1, <1>2, SumType
<1>9. QED
  BY <1>1, <1>4, <1>5, <1>6, <1>7, <1>8 DEF SumFunction, u

\* A single number sums up to itself.
LEMMA SumOfOne == \A x \in Int : SumFunction(<<x>>) = x
<1> SUFFICES ASSUME NEW x \in Int PROVE SumFunction(<<x>>) = x
  OBVIOUS
<1> DEFINE s == <<x>>
<1>1. DOMAIN s = {} \cup {1} /\ s[1] = x /\ 1 \notin {}
  OBVIOUS
<1> HIDE DEF s
<1>2. SumFunctionOnSet(s, {} \cup {1}) = s[1] + SumFunctionOnSet(s, {})
  BY <1>1, FS_EmptySet, SumWith
<1>3. QED
  BY <1>1, <1>2, SumOfNone DEF SumFunction, s
=============================================================================
