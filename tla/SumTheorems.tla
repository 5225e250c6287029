---------------------------- MODULE SumTheorems ----------------------------
(***************************************************************************)
(* Sums over finite sets, as SumFunction takes them: what the budget of    *)
(* capital_budget.py adds up over its tables. Every fact is shown at a     *)
(* least subset at which it could fail, which stands for induction.        *)
(***************************************************************************)
EXTENDS Integers, Functions, FiniteSetsExt, FiniteSetTheorems, TLAPS

\* G sums f over the sets in C, element by element in the order CHOOSE takes.
Sums(f, C, G) ==
    G = [s \in C |-> IF s = {} THEN 0
                     ELSE f[CHOOSE x \in s : TRUE] + G[s \ {CHOOSE x \in s : TRUE}]]

\* A set of subsets of a finite set has a member with no other below it: what stands
\* for induction on the subsets.
LEMMA SubsetMinimal ==
    ASSUME NEW S, IsFiniteSet(S), NEW C, C \subseteq SUBSET S, C # {}
    PROVE  \E T \in C : \A U \in C : U \subseteq T => U = T
<1>1. IsWellFoundedOn(StrictSubsetOrdering(S), SUBSET S)
  BY FS_StrictSubsetOrderingWellFounded, FS_FiniteSubsetsOfFinite
<1>2. PICK T \in C : \A U \in C : <<U, T>> \notin StrictSubsetOrdering(S)
  BY <1>1, WFMin
<1>3. ASSUME NEW U \in C, U \subseteq T
      PROVE  U = T
  <2>1. <<U, T>> \in (SUBSET S) \X (SUBSET S)
    OBVIOUS
  <2> QED
    BY <1>2, <1>3, <2>1 DEF StrictSubsetOrdering
<1> QED
  BY <1>3

\* The partial sums exist: the recursion over the subsets of a finite set has a solution.
LEMMA SumsExist ==
    ASSUME NEW S, IsFiniteSet(S), NEW f
    PROVE  \E G : Sums(f, SUBSET S, G)
<1> DEFINE Upto(T) == {U \in SUBSET S : Cardinality(U) <= Cardinality(T)}
           Bad == {T \in SUBSET S : ~\E G : Sums(f, Upto(T), G)}
<1>1. ASSUME NEW T \in SUBSET S
      PROVE  IsFiniteSet(T) /\ Cardinality(T) \in Nat
  BY FS_Subset, FS_CardinalityType
<1>2. SUFFICES Bad = {}
  <2>1. Upto(S) = SUBSET S
    BY FS_Subset
  <2> QED
    BY <1>2, <2>1
<1>3. SUFFICES ASSUME Bad # {} PROVE FALSE
  OBVIOUS
<1>7. PICK T \in Bad : \A U \in Bad : U \subseteq T => U = T
  <2>1. Bad \subseteq SUBSET S
    OBVIOUS
  <2> HIDE DEF Bad
  <2> QED
    BY <1>3, <2>1, SubsetMinimal
<1>4. CASE T = {}
  <2> DEFINE G == [s \in Upto(T) |-> 0]
  <2>1. ASSUME NEW U \in Upto(T)
        PROVE  U = {}
    BY <1>1, <1>4, FS_EmptySet
  <2>2. Sums(f, Upto(T), G)
    BY <2>1 DEF Sums
  <2> QED
    BY <2>2
<1>5. CASE T # {}
  <2>1. PICK x \in T : TRUE
    BY <1>5
  <2>2. T \ {x} \notin Bad /\ T \ {x} \in SUBSET S
    BY <1>7
  <2>3. PICK H : Sums(f, Upto(T \ {x}), H)
    BY <2>2
  <2>4. Cardinality(T \ {x}) = Cardinality(T) - 1
    BY <1>1, FS_RemoveElement
  <2> DEFINE pick(s) == CHOOSE y \in s : TRUE
             below == Upto(T \ {x})
             G == [s \in Upto(T) |-> IF s \in below THEN H[s]
                                     ELSE f[pick(s)] + H[s \ {pick(s)}]]
  <2>5. ASSUME NEW s \in Upto(T), s # {}
        PROVE  pick(s) \in s /\ s \ {pick(s)} \in below
    <3>1. pick(s) \in s
      BY <2>5
    <3>2. Cardinality(s \ {pick(s)}) = Cardinality(s) - 1
      BY <3>1, <1>1, FS_RemoveElement
    <3> QED
      BY <3>1, <3>2, <2>4, <1>1
  <2>6. ASSUME NEW s \in Upto(T)
        PROVE  G[s] = IF s = {} THEN 0 ELSE f[pick(s)] + G[s \ {pick(s)}]
    <3>1. CASE s \in below
      <4>1. H[s] = IF s = {} THEN 0 ELSE f[pick(s)] + H[s \ {pick(s)}]
        BY <2>3, <3>1 DEF Sums
      <4> HIDE DEF pick, below
      <4>2. s # {} => G[s \ {pick(s)}] = H[s \ {pick(s)}]
        <5>1. below \subseteq Upto(T)
          BY <2>4, <1>1 DEF below
        <5> QED
          BY <2>5, <5>1
      <4> QED
        BY <4>1, <4>2, <3>1
    <3>2. CASE s \notin below
      <4>1. s # {}
        <5>1. {} \in below
          BY <1>1, <2>4, FS_EmptySet, FS_CardinalityType
        <5> QED
          BY <3>2, <5>1
      <4>3. below \subseteq Upto(T)
        BY <2>4, <1>1
      <4> HIDE DEF pick, below
      <4>2. G[s \ {pick(s)}] = H[s \ {pick(s)}]
        BY <4>1, <2>5, <4>3
      <4> QED
        BY <4>1, <4>2, <3>2
    <3> QED
      BY <3>1, <3>2
  <2>7. Sums(f, Upto(T), G)
    <3>1. G = [s \in Upto(T) |-> IF s = {} THEN 0 ELSE f[pick(s)] + G[s \ {pick(s)}]]
      <4>1. G = [s \in Upto(T) |-> G[s]]
        OBVIOUS
      <4> HIDE DEF G, pick, Upto
      <4> QED
        BY <2>6, <4>1
    <3> HIDE DEF Upto, G
    <3> QED
      BY <3>1 DEF Sums
  <2> QED
    BY <2>7
<1> QED
  BY <1>4, <1>5

\* The partial sums of f, over every subset of its domain.
Partial(f) == CHOOSE G : Sums(f, SUBSET DOMAIN f, G)

\* SumFunction is the partial sum over the whole domain.
LEMMA SumIsPartial ==
    ASSUME NEW f
    PROVE  SumFunction(f) = Partial(f)[DOMAIN f]
BY DEF SumFunction, SumFunctionOnSet, FoldFunctionOnSet, MapThenFoldSet, Partial, Sums

\* The recursion of the partial sums, with some element taken first.
LEMMA PartialSums ==
    ASSUME NEW S, IsFiniteSet(S), NEW f, DOMAIN f = S
    PROVE  /\ Partial(f)[{}] = 0
           /\ \A T \in SUBSET S : T # {} =>
                \E x \in T : Partial(f)[T] = f[x] + Partial(f)[T \ {x}]
<1>1. Sums(f, SUBSET S, Partial(f))
  BY SumsExist DEF Partial
<1> DEFINE P == Partial(f)
<1> HIDE DEF P
<1>2. P = [s \in SUBSET S |-> IF s = {} THEN 0
                     ELSE f[CHOOSE x \in s : TRUE] + P[s \ {CHOOSE x \in s : TRUE}]]
  BY <1>1 DEF Sums, P
<1>3. P[{}] = 0
  BY <1>2
<1>4. ASSUME NEW T \in SUBSET S, T # {}
      PROVE  \E x \in T : P[T] = f[x] + P[T \ {x}]
  <2> DEFINE x == CHOOSE x \in T : TRUE
  <2>1. x \in T
    BY <1>4
  <2>2. P[T] = f[x] + P[T \ {x}]
    BY <1>2, <1>4
  <2> QED
    BY <2>1, <2>2
<1> QED
  BY <1>3, <1>4 DEF P

\* A partial sum of integers is an integer.
LEMMA PartialIsInt ==
    ASSUME NEW S, IsFiniteSet(S), NEW f \in [S -> Int]
    PROVE  \A T \in SUBSET S : Partial(f)[T] \in Int
<1> DEFINE Bad == {T \in SUBSET S : Partial(f)[T] \notin Int}
<1>1. SUFFICES ASSUME Bad # {} PROVE FALSE
  OBVIOUS
<1>2. PICK T \in Bad : \A U \in Bad : U \subseteq T => U = T
  <2>1. Bad \subseteq SUBSET S
    OBVIOUS
  <2> HIDE DEF Bad
  <2> QED
    BY <1>1, <2>1, SubsetMinimal
<1>3. T # {}
  <2>1. DOMAIN f = S
    OBVIOUS
  <2>2. Partial(f)[{}] = 0
    BY <2>1, PartialSums
  <2>3. Partial(f)[T] \notin Int
    OBVIOUS
  <2> QED
    BY <2>2, <2>3
<1>4. PICK x \in T : Partial(f)[T] = f[x] + Partial(f)[T \ {x}]
  BY <1>3, PartialSums
<1>5. Partial(f)[T \ {x}] \in Int
  BY <1>2
<1> QED
  BY <1>4, <1>5

\* Any element may be summed last.
LEMMA PartialRemove ==
    ASSUME NEW S, IsFiniteSet(S), NEW f \in [S -> Int]
    PROVE  \A T \in SUBSET S : \A y \in T : Partial(f)[T] = f[y] + Partial(f)[T \ {y}]
<1> DEFINE Bad == {T \in SUBSET S : \E y \in T : Partial(f)[T] # f[y] + Partial(f)[T \ {y}]}
<1>1. SUFFICES ASSUME Bad # {} PROVE FALSE
  OBVIOUS
<1>2. PICK T \in Bad : \A U \in Bad : U \subseteq T => U = T
  <2>1. Bad \subseteq SUBSET S
    OBVIOUS
  <2> HIDE DEF Bad
  <2> QED
    BY <1>1, <2>1, SubsetMinimal
<1>3. PICK y \in T : Partial(f)[T] # f[y] + Partial(f)[T \ {y}]
  OBVIOUS
<1>4. PICK x \in T : Partial(f)[T] = f[x] + Partial(f)[T \ {x}]
  BY <1>3, PartialSums
<1>5. x # y
  BY <1>3, <1>4
<1>6. Partial(f)[T \ {x}] = f[y] + Partial(f)[(T \ {x}) \ {y}]
  <2>1. T \ {x} \notin Bad /\ T \ {x} \in SUBSET S /\ y \in T \ {x}
    BY <1>2, <1>5
  <2> QED
    BY <2>1
<1>7. Partial(f)[T \ {y}] = f[x] + Partial(f)[(T \ {y}) \ {x}]
  <2>1. T \ {y} \notin Bad /\ T \ {y} \in SUBSET S /\ x \in T \ {y}
    BY <1>2, <1>5
  <2> QED
    BY <2>1
<1>8. (T \ {y}) \ {x} = (T \ {x}) \ {y} /\ (T \ {x}) \ {y} \in SUBSET S
  OBVIOUS
<1>9. Partial(f)[(T \ {x}) \ {y}] \in Int
  BY <1>8, PartialIsInt
<1>10. f[x] \in Int /\ f[y] \in Int
  OBVIOUS
<1> DEFINE p == Partial(f)[(T \ {x}) \ {y}]
<1>11. Partial(f)[T] = f[x] + (f[y] + p) /\ Partial(f)[T \ {y}] = f[x] + p
  BY <1>4, <1>6, <1>7, <1>8
<1> HIDE DEF p
<1> QED
  BY <1>3, <1>9, <1>10, <1>11 DEF p

\* A sum of integers is an integer, and any element may be summed last.
LEMMA SumRemove ==
    ASSUME NEW S, IsFiniteSet(S), NEW f \in [S -> Int], NEW y \in S
    PROVE  /\ SumFunction(f) \in Int
           /\ Partial(f)[S \ {y}] \in Int
           /\ SumFunction(f) = f[y] + Partial(f)[S \ {y}]
<1>1. DOMAIN f = S /\ S \in SUBSET S /\ S \ {y} \in SUBSET S
  OBVIOUS
<1>2. SumFunction(f) = Partial(f)[S]
  BY <1>1, SumIsPartial
<1>3. Partial(f)[S] \in Int /\ Partial(f)[S \ {y}] \in Int
  BY <1>1, PartialIsInt
<1>4. Partial(f)[S] = f[y] + Partial(f)[S \ {y}]
  BY <1>1, PartialRemove
<1> QED
  BY <1>2, <1>3, <1>4

\* A sum of integers is an integer.
LEMMA SumIsInt ==
    ASSUME NEW S, IsFiniteSet(S), NEW f \in [S -> Int]
    PROVE  SumFunction(f) \in Int
<1>1. DOMAIN f = S /\ S \in SUBSET S
  OBVIOUS
<1> QED
  BY <1>1, SumIsPartial, PartialIsInt

\* SumSplit for every part of the domain.
LEMMA PartialSplit ==
    ASSUME NEW S, IsFiniteSet(S),
           NEW h \in [S -> Int], NEW f \in [S -> Int], NEW g \in [S -> Int],
           NEW C \in SUBSET S,
           \A x \in C : h[x] <= f[x] + g[x]
    PROVE  Partial(h)[C] <= Partial(f)[C] + Partial(g)[C]
<1> DEFINE Bad == {T \in SUBSET C : ~(Partial(h)[T] <= Partial(f)[T] + Partial(g)[T])}
<1>1. SUFFICES ASSUME Bad # {} PROVE FALSE
  OBVIOUS
<1>2. PICK T \in Bad : \A U \in Bad : U \subseteq T => U = T
  <2>1. Bad \subseteq SUBSET S
    OBVIOUS
  <2> HIDE DEF Bad
  <2> QED
    BY <1>1, <2>1, SubsetMinimal
<1>3. T # {}
  <2>1. DOMAIN f = S /\ DOMAIN g = S /\ DOMAIN h = S
    OBVIOUS
  <2>2. Partial(f)[{}] = 0 /\ Partial(g)[{}] = 0 /\ Partial(h)[{}] = 0
    BY <2>1, PartialSums
  <2>3. ~(Partial(h)[T] <= Partial(f)[T] + Partial(g)[T])
    OBVIOUS
  <2> HIDE DEF Bad
  <2> QED
    BY <2>2, <2>3
<1>4. PICK x \in T : TRUE
  BY <1>3
<1>5. T \in SUBSET S /\ T \ {x} \in SUBSET S
  OBVIOUS
<1>6. T \ {x} \notin Bad /\ T \ {x} \in SUBSET C
  BY <1>2
<1>7. Partial(h)[T \ {x}] <= Partial(f)[T \ {x}] + Partial(g)[T \ {x}]
  BY <1>6
<1>8. /\ Partial(h)[T] = h[x] + Partial(h)[T \ {x}]
      /\ Partial(f)[T] = f[x] + Partial(f)[T \ {x}]
      /\ Partial(g)[T] = g[x] + Partial(g)[T \ {x}]
  BY <1>5, PartialRemove
<1>9. /\ Partial(h)[T \ {x}] \in Int
      /\ Partial(f)[T \ {x}] \in Int
      /\ Partial(g)[T \ {x}] \in Int
  BY <1>5, PartialIsInt
<1>10. h[x] \in Int /\ f[x] \in Int /\ g[x] \in Int /\ h[x] <= f[x] + g[x]
  OBVIOUS
<1>11. ~(Partial(h)[T] <= Partial(f)[T] + Partial(g)[T])
  OBVIOUS
<1> HIDE DEF Bad
<1> QED
  BY <1>7, <1>8, <1>9, <1>10, <1>11

\* A sum that is bounded pointwise by two others is bounded by their sum.
LEMMA SumSplit ==
    ASSUME NEW S, IsFiniteSet(S),
           NEW h \in [S -> Int], NEW f \in [S -> Int], NEW g \in [S -> Int],
           \A x \in S : h[x] <= f[x] + g[x]
    PROVE  SumFunction(h) <= SumFunction(f) + SumFunction(g)
<1>1. DOMAIN f = S /\ DOMAIN g = S /\ DOMAIN h = S /\ S \in SUBSET S
  OBVIOUS
<1> QED
  BY <1>1, PartialSplit, SumIsPartial

\* SumOfZeros for every part of the domain.
LEMMA PartialOfZeros ==
    ASSUME NEW S, IsFiniteSet(S), NEW z \in [S -> Int], \A x \in S : z[x] = 0
    PROVE  \A T \in SUBSET S : Partial(z)[T] = 0
<1>1. DOMAIN z = S
  OBVIOUS
<1> DEFINE Bad == {T \in SUBSET S : Partial(z)[T] # 0}
<1>2. SUFFICES ASSUME Bad # {} PROVE FALSE
  OBVIOUS
<1>3. PICK T \in Bad : \A U \in Bad : U \subseteq T => U = T
  <2>1. Bad \subseteq SUBSET S
    OBVIOUS
  <2> HIDE DEF Bad
  <2> QED
    BY <1>2, <2>1, SubsetMinimal
<1>4. T # {}
  BY <1>1, <1>3, PartialSums
<1>5. PICK x \in T : Partial(z)[T] = z[x] + Partial(z)[T \ {x}]
  BY <1>1, <1>4, PartialSums
<1>6. Partial(z)[T \ {x}] = 0
  BY <1>3
<1> QED
  BY <1>5, <1>6

\* Zeros sum to zero.
LEMMA SumOfZeros ==
    ASSUME NEW S, IsFiniteSet(S), NEW z \in [S -> Int], \A x \in S : z[x] = 0
    PROVE  SumFunction(z) = 0
<1>1. DOMAIN z = S /\ S \in SUBSET S
  OBVIOUS
<1> QED
  BY <1>1, SumIsPartial, PartialOfZeros

\* Sums grow with their summands.
LEMMA SumMonotone ==
    ASSUME NEW S, IsFiniteSet(S), NEW f \in [S -> Int], NEW g \in [S -> Int],
           \A x \in S : f[x] <= g[x]
    PROVE  SumFunction(f) <= SumFunction(g)
<1> DEFINE z == [x \in S |-> 0]
<1>1. SumFunction(z) = 0
  <2>1. z \in [S -> Int] /\ \A x \in S : z[x] = 0
    OBVIOUS
  <2> HIDE DEF z
  <2> QED
    BY <2>1, SumOfZeros
<1>2. SumFunction(f) <= SumFunction(g) + SumFunction(z)
  <2>1. z \in [S -> Int] /\ \A x \in S : f[x] <= g[x] + z[x]
    OBVIOUS
  <2> HIDE DEF z
  <2> QED
    BY <2>1, SumSplit
<1> HIDE DEF z
<1> QED
  BY <1>1, <1>2, SumIsInt

\* Functions that agree outside y have the same partial sum there.
LEMMA SumAgree ==
    ASSUME NEW S, IsFiniteSet(S), NEW f \in [S -> Int], NEW g \in [S -> Int],
           NEW y \in S, \A x \in S \ {y} : f[x] = g[x]
    PROVE  Partial(f)[S \ {y}] = Partial(g)[S \ {y}]
<1> DEFINE z == [x \in S |-> 0]
           C == S \ {y}
<1>1. z \in [S -> Int] /\ C \in SUBSET S /\ \A x \in S : z[x] = 0
  OBVIOUS
<1> HIDE DEF z, C
<1>2. Partial(z)[C] = 0
  BY <1>1, PartialOfZeros
<1>3. /\ \A x \in C : f[x] <= g[x] + z[x]
      /\ \A x \in C : g[x] <= f[x] + z[x]
  BY <1>1 DEF C
<1>4. /\ Partial(f)[C] <= Partial(g)[C] + Partial(z)[C]
      /\ Partial(g)[C] <= Partial(f)[C] + Partial(z)[C]
  BY <1>1, <1>3, PartialSplit
<1>5. Partial(f)[C] \in Int /\ Partial(g)[C] \in Int
  BY <1>1, PartialIsInt
<1> QED
  BY <1>2, <1>4, <1>5 DEF C

\* Changing one summand changes the sum by as much.
LEMMA SumUpdate ==
    ASSUME NEW S, IsFiniteSet(S), NEW f \in [S -> Int], NEW g \in [S -> Int],
           NEW y \in S, \A x \in S \ {y} : f[x] = g[x]
    PROVE  SumFunction(g) = SumFunction(f) - f[y] + g[y]
<1>1. Partial(f)[S \ {y}] = Partial(g)[S \ {y}]
  BY SumAgree
<1> QED
  BY <1>1, SumRemove
=============================================================================
