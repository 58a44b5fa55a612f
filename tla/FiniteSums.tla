------------------------------ MODULE FiniteSums ------------------------------
(***************************************************************************)
(* Sums over finite sets, for the proofs about ledgers and wallets: the    *)
(* running totals of the program are sums of the rows they stand for.      *)
(* SumFunctionOnSet(F, S) is defined by a recursive function over SUBSET S.*)
(* That it satisfies its own equation, and what follows from it, is proved *)
(* here by induction.  The induction theorems of the library take an       *)
(* operator; the two of this module take a set of the values for which the *)
(* claim holds, and rest on the well-foundedness of < on Nat.              *)
(***************************************************************************)
EXTENDS Integers, Functions, FiniteSets, FiniteSetTheorems, WellFoundedInduction, TLAPS

\* A set of naturals that is not empty has a least element.
LEMMA LeastNatural ==
    ASSUME NEW T, T \subseteq Nat, T # {}
    PROVE  \E m \in T : \A k \in T : m <= k
<1> DEFINE Less == OpToRel(<, Nat)
<1>1. IsWellFoundedOn(Less, Nat)
  BY NatLessThanWellFounded
<1>2. \A i, j \in Nat : i < j => <<i, j>> \in Less
  BY DEF OpToRel
<1> HIDE DEF Less
<1>3. PICK m \in T : \A k \in T : ~(<<k, m>> \in Less)
  BY <1>1, WFMin
<1>4. ASSUME NEW k \in T PROVE m <= k
  <2>1. k \in Nat /\ m \in Nat
    OBVIOUS
  <2>2. ~(k < m)
    BY <1>2, <1>3, <2>1
  <2> QED
    BY <2>1, <2>2
<1> QED
  BY <1>4

\* Induction over the subsets of a finite set: P holds of S if it holds of {} and
\* of every subset that it holds of whenever one element is taken out.
LEMMA SubsetInduction ==
    ASSUME NEW S, IsFiniteSet(S), NEW P, {} \in P,
           \A T \in SUBSET S : T # {} /\ (\A x \in T : T \ {x} \in P) => T \in P
    PROVE  S \in P
<1> SUFFICES ASSUME S \notin P PROVE FALSE
  OBVIOUS
<1> DEFINE Sizes == {Cardinality(T) : T \in (SUBSET S) \ P}
<1>1. Sizes \subseteq Nat
  BY FS_Subset, FS_CardinalityType
<1>2. Sizes # {}
  OBVIOUS
<1>3. PICK m \in Sizes : \A k \in Sizes : m <= k
  <2> HIDE DEF Sizes
  <2> QED BY <1>1, <1>2, LeastNatural
<1>4. PICK T \in SUBSET S : T \notin P /\ m = Cardinality(T)
  BY <1>3
<1>5. PICK x \in T : T \ {x} \notin P
  BY <1>4
<1>6. IsFiniteSet(T) /\ Cardinality(T) \in Nat
  BY FS_Subset, FS_CardinalityType
<1>7. Cardinality(T \ {x}) = Cardinality(T) - 1
  BY <1>6, FS_RemoveElement
<1>8. Cardinality(T \ {x}) \in Sizes
  BY <1>5
<1>9. m <= Cardinality(T \ {x})
  BY <1>3, <1>8
<1> QED
  BY <1>4, <1>6, <1>7, <1>9

-----------------------------------------------------------------------------
\* The element that the library's sum takes out of T first
Chosen(T) == CHOOSE x \in T : TRUE

\* g is the recursive function behind the sum of F over S.
IsSumOver(g, F, S) ==
    g = [T \in SUBSET S |-> IF T = {} THEN 0
                            ELSE F[CHOOSE x \in T : TRUE] + g[T \ {CHOOSE x \in T : TRUE}]]

\* A function with the equation of the sum exists: it is built on the subsets of
\* at most n elements, for n = 0, 1, ...
LEMMA SumExists ==
    ASSUME NEW S, IsFiniteSet(S), NEW F
    PROVE  \E g : IsSumOver(g, F, S)
<1> DEFINE UpTo(n) == {T \in SUBSET S : Cardinality(T) <= n}
           Pick(T) == CHOOSE x \in T : TRUE
           Eq(g, n) == g = [T \in UpTo(n) |-> IF T = {} THEN 0
                                              ELSE F[Pick(T)] + g[T \ {Pick(T)}]]
           Bad == {n \in Nat : ~ \E g : Eq(g, n)}
<1>0. \A T \in SUBSET S : /\ IsFiniteSet(T) /\ Cardinality(T) \in Nat
                          /\ T # {} => Pick(T) \in T /\ Cardinality(T \ {Pick(T)}) = Cardinality(T) - 1
                          /\ Cardinality(T) = 0 => T = {}
  <2> TAKE T \in SUBSET S
  <2>1. IsFiniteSet(T) /\ Cardinality(T) \in Nat
    BY FS_Subset, FS_CardinalityType
  <2>2. T # {} => Pick(T) \in T
    OBVIOUS
  <2> QED
    BY <2>1, <2>2, FS_RemoveElement, FS_EmptySet
<1>1. 0 \notin Bad
  <2> DEFINE g == [T \in UpTo(0) |-> 0]
  <2>1. Eq(g, 0)
    BY <1>0
  <2> QED
    BY <2>1
<1>2. ASSUME NEW n \in Nat, NEW g, Eq(g, n)
      PROVE  \E h : Eq(h, n + 1)
  <2> DEFINE h == [T \in UpTo(n + 1) |-> IF T = {} THEN 0
                                         ELSE F[Pick(T)] + g[T \ {Pick(T)}]]
  <2>1. ASSUME NEW T \in UpTo(n) PROVE h[T] = g[T]
    BY <1>0, <1>2
  <2>2. ASSUME NEW T \in UpTo(n + 1), T # {} PROVE T \ {Pick(T)} \in UpTo(n)
    BY <1>0, <2>2
  <2>3. ASSUME NEW T \in UpTo(n + 1)
        PROVE  h[T] = IF T = {} THEN 0 ELSE F[Pick(T)] + h[T \ {Pick(T)}]
    <3>1. CASE T = {}
      BY <3>1
    <3>2. CASE T # {}
      <4>1. h[T \ {Pick(T)}] = g[T \ {Pick(T)}]
        BY <2>1, <2>2, <3>2
      <4> QED
        BY <3>2, <4>1
    <3> QED
      BY <3>1, <3>2
  <2>4. h = [T \in UpTo(n + 1) |-> h[T]]
    OBVIOUS
  <2>5. Eq(h, n + 1)
    <3> HIDE DEF h, Pick, UpTo
    <3> QED
      BY <2>3, <2>4
  <2> QED
    BY <2>5
<1>3. Bad = {}
  <2> SUFFICES ASSUME Bad # {} PROVE FALSE
    OBVIOUS
  <2>1. PICK m \in Bad : \A k \in Bad : m <= k
    <3>1. Bad \subseteq Nat
      OBVIOUS
    <3> HIDE DEF Bad
    <3> QED
      BY <3>1, LeastNatural
  <2>2. m \in Nat /\ m # 0
    BY <1>1
  <2>3. m - 1 \in Nat /\ m = (m - 1) + 1 /\ ~(m <= m - 1)
    BY <2>2
  <2>4. m - 1 \notin Bad
    BY <2>1, <2>3
  <2>5. PICK g : Eq(g, m - 1)
    BY <2>3, <2>4
  <2>6. \E h : Eq(h, (m - 1) + 1)
    <3> HIDE DEF Eq
    <3> QED
      BY <1>2, <2>3, <2>5
  <2>7. \E h : Eq(h, m)
    <3> HIDE DEF Eq
    <3> QED
      BY <2>3, <2>6
  <2> QED
    BY <2>7
<1>4. PICK g : Eq(g, Cardinality(S))
  BY <1>0, <1>3
<1>5. UpTo(Cardinality(S)) = SUBSET S
  BY FS_Subset, <1>0
<1>6. IsSumOver(g, F, S)
  BY <1>4, <1>5 DEF IsSumOver
<1> QED
  BY <1>6

\* The library's sum is the value at S of such a function.
LEMMA SumIsOne ==
    ASSUME NEW S, IsFiniteSet(S), NEW F
    PROVE  \E g : IsSumOver(g, F, S) /\ SumFunctionOnSet(F, S) = g[S]
<1> DEFINE Body(h) == [T \in SUBSET S |-> IF T = {} THEN 0
                            ELSE F[CHOOSE x \in T : TRUE] + h[T \ {CHOOSE x \in T : TRUE}]]
           g == CHOOSE h : h = Body(h)
<1>1. PICK k : IsSumOver(k, F, S)
  BY SumExists
<1>1a. k = Body(k)
  BY <1>1 DEF IsSumOver
<1>2. g = Body(g)
  <2> HIDE DEF Body
  <2> QED
  BY <1>1a, Zenon
<1>3. SumFunctionOnSet(F, S) = g[S]
  BY DEF SumFunctionOnSet, FoldFunctionOnSet, MapThenFoldSet
<1> QED
  BY <1>2, <1>3 DEF IsSumOver


\* The functions behind the sums over S and over a subset T of it agree on T.
LEMMA SumIsUniform ==
    ASSUME NEW S, IsFiniteSet(S), NEW T \in SUBSET S, NEW F,
           NEW g, IsSumOver(g, F, S), NEW h, IsSumOver(h, F, T)
    PROVE  g[T] = h[T]
<1> DEFINE P == {U \in SUBSET T : g[U] = h[U]}
<1>1. /\ \A U \in SUBSET S : g[U] = IF U = {} THEN 0 ELSE F[Chosen(U)] + g[U \ {Chosen(U)}]
      /\ \A U \in SUBSET T : h[U] = IF U = {} THEN 0 ELSE F[Chosen(U)] + h[U \ {Chosen(U)}]
  BY DEF IsSumOver, Chosen
<1>2. {} \in P
  BY <1>1
<1>3. ASSUME NEW U \in SUBSET T, U # {}, \A x \in U : U \ {x} \in P
      PROVE  U \in P
  <2>1. Chosen(U) \in U
    BY <1>3 DEF Chosen
  <2>2. g[U \ {Chosen(U)}] = h[U \ {Chosen(U)}]
    BY <1>3, <2>1
  <2> QED
    BY <1>1, <1>3, <2>2
<1>4. IsFiniteSet(T)
  BY FS_Subset
<1>5. T \in P
  <2> HIDE DEF P
  <2> QED
    BY <1>2, <1>3, <1>4, SubsetInduction
<1> QED
  BY <1>5

\* Nothing adds up to zero.
LEMMA SumEmpty ==
    ASSUME NEW F
    PROVE  SumFunctionOnSet(F, {}) = 0
<1>1. PICK g : IsSumOver(g, F, {}) /\ SumFunctionOnSet(F, {}) = g[{}]
  BY SumIsOne, FS_EmptySet
<1> QED
  BY <1>1 DEF IsSumOver

\* The equation of the sum: the chosen element and the sum of the others.
LEMMA SumChosen ==
    ASSUME NEW S, IsFiniteSet(S), S # {}, NEW F
    PROVE  Chosen(S) \in S /\ SumFunctionOnSet(F, S) = F[Chosen(S)] + SumFunctionOnSet(F, S \ {Chosen(S)})
<1> DEFINE T == S \ {Chosen(S)}
<1>1. Chosen(S) \in S
  BY DEF Chosen
<1>2. PICK g : IsSumOver(g, F, S) /\ SumFunctionOnSet(F, S) = g[S]
  BY SumIsOne
<1>3. IsFiniteSet(T) /\ T \in SUBSET S
  BY FS_Subset
<1>4. PICK h : IsSumOver(h, F, T) /\ SumFunctionOnSet(F, T) = h[T]
  BY <1>3, SumIsOne
<1>5. g[T] = h[T]
  BY <1>2, <1>3, <1>4, SumIsUniform
<1>6. g[S] = F[Chosen(S)] + g[T]
  BY <1>2 DEF IsSumOver, Chosen
<1> QED
  BY <1>1, <1>2, <1>4, <1>5, <1>6

\* A sum of integers is an integer.
LEMMA SumInteger ==
    ASSUME NEW S, IsFiniteSet(S), NEW F, \A x \in S : F[x] \in Int
    PROVE  SumFunctionOnSet(F, S) \in Int
<1> DEFINE P == {T \in SUBSET S : SumFunctionOnSet(F, T) \in Int}
<1>1. {} \in P
  BY SumEmpty
<1>2. ASSUME NEW T \in SUBSET S, T # {}, \A x \in T : T \ {x} \in P
      PROVE  T \in P
  <2>1. IsFiniteSet(T)
    BY FS_Subset
  <2>2. Chosen(T) \in T /\ SumFunctionOnSet(F, T) = F[Chosen(T)] + SumFunctionOnSet(F, T \ {Chosen(T)})
    BY <1>2, <2>1, SumChosen
  <2>3. SumFunctionOnSet(F, T \ {Chosen(T)}) \in Int /\ F[Chosen(T)] \in Int
    BY <1>2, <2>2
  <2> QED
    BY <2>2, <2>3
<1>3. S \in P
  <2> HIDE DEF P
  <2> QED
    BY <1>1, <1>2, SubsetInduction
<1> QED
  BY <1>3

\* Any element may be taken out of a sum, not only the chosen one.
LEMMA SumRemove ==
    ASSUME NEW S, IsFiniteSet(S), NEW F, \A x \in S : F[x] \in Int, NEW x \in S
    PROVE  SumFunctionOnSet(F, S) = F[x] + SumFunctionOnSet(F, S \ {x})
<1> DEFINE P == {T \in SUBSET S : \A y \in T : SumFunctionOnSet(F, T) = F[y] + SumFunctionOnSet(F, T \ {y})}
<1>1. {} \in P
  OBVIOUS
<1>2. ASSUME NEW T \in SUBSET S, T # {}, \A y \in T : T \ {y} \in P
      PROVE  T \in P
  <2> DEFINE z == Chosen(T)
  <2>1. IsFiniteSet(T)
    BY FS_Subset
  <2>2. z \in T /\ SumFunctionOnSet(F, T) = F[z] + SumFunctionOnSet(F, T \ {z})
    BY <1>2, <2>1, SumChosen
  <2> HIDE DEF z
  <2>3. ASSUME NEW y \in T, y # z PROVE SumFunctionOnSet(F, T) = F[y] + SumFunctionOnSet(F, T \ {y})
    <3>1. SumFunctionOnSet(F, T \ {z}) = F[y] + SumFunctionOnSet(F, (T \ {z}) \ {y})
      BY <1>2, <2>2, <2>3
    <3>2. SumFunctionOnSet(F, T \ {y}) = F[z] + SumFunctionOnSet(F, (T \ {y}) \ {z})
      BY <1>2, <2>2, <2>3
    <3>3. SumFunctionOnSet(F, (T \ {z}) \ {y}) = SumFunctionOnSet(F, (T \ {y}) \ {z})
      <4>1. (T \ {z}) \ {y} = (T \ {y}) \ {z}
        OBVIOUS
      <4> QED
        BY <4>1
    <3>4. SumFunctionOnSet(F, (T \ {y}) \ {z}) \in Int
      <4>1. IsFiniteSet((T \ {y}) \ {z})
        BY <2>1, FS_Subset
      <4> QED
        BY <4>1, SumInteger
    <3>5. F[y] \in Int /\ F[z] \in Int
      BY <2>2
    <3> QED
      BY <2>2, <3>1, <3>2, <3>3, <3>4, <3>5
  <2> QED
    BY <2>2, <2>3
<1>3. S \in P
  <2> HIDE DEF P
  <2> QED
    BY <1>1, <1>2, SubsetInduction
<1> QED
  BY <1>3

\* The sum depends on the values over S alone.
LEMMA SumSame ==
    ASSUME NEW S, IsFiniteSet(S), NEW F, NEW G, \A x \in S : F[x] = G[x]
    PROVE  SumFunctionOnSet(F, S) = SumFunctionOnSet(G, S)
<1> DEFINE P == {T \in SUBSET S : SumFunctionOnSet(F, T) = SumFunctionOnSet(G, T)}
<1>1. {} \in P
  BY SumEmpty
<1>2. ASSUME NEW T \in SUBSET S, T # {}, \A x \in T : T \ {x} \in P
      PROVE  T \in P
  <2>1. IsFiniteSet(T)
    BY FS_Subset
  <2>2. Chosen(T) \in T /\ SumFunctionOnSet(F, T) = F[Chosen(T)] + SumFunctionOnSet(F, T \ {Chosen(T)})
                       /\ SumFunctionOnSet(G, T) = G[Chosen(T)] + SumFunctionOnSet(G, T \ {Chosen(T)})
    BY <1>2, <2>1, SumChosen
  <2> QED
    BY <1>2, <2>2
<1>3. S \in P
  <2> HIDE DEF P
  <2> QED
    BY <1>1, <1>2, SubsetInduction
<1> QED
  BY <1>3

\* Larger terms do not make a smaller sum.
LEMMA SumMonotone ==
    ASSUME NEW S, IsFiniteSet(S), NEW F, NEW G,
           \A x \in S : F[x] \in Int /\ G[x] \in Int /\ F[x] <= G[x]
    PROVE  SumFunctionOnSet(F, S) <= SumFunctionOnSet(G, S)
<1> DEFINE P == {T \in SUBSET S : SumFunctionOnSet(F, T) <= SumFunctionOnSet(G, T)}
<1>1. {} \in P
  BY SumEmpty
<1>2. ASSUME NEW T \in SUBSET S, T # {}, \A x \in T : T \ {x} \in P
      PROVE  T \in P
  <2>1. IsFiniteSet(T)
    BY FS_Subset
  <2>2. Chosen(T) \in T /\ SumFunctionOnSet(F, T) = F[Chosen(T)] + SumFunctionOnSet(F, T \ {Chosen(T)})
                       /\ SumFunctionOnSet(G, T) = G[Chosen(T)] + SumFunctionOnSet(G, T \ {Chosen(T)})
    BY <1>2, <2>1, SumChosen
  <2>3. IsFiniteSet(T \ {Chosen(T)})
    BY <2>1, FS_Subset
  <2>4. SumFunctionOnSet(F, T \ {Chosen(T)}) \in Int /\ SumFunctionOnSet(G, T \ {Chosen(T)}) \in Int
    BY <2>3, SumInteger
  <2>5. SumFunctionOnSet(F, T \ {Chosen(T)}) <= SumFunctionOnSet(G, T \ {Chosen(T)})
    BY <1>2, <2>2
  <2>6. F[Chosen(T)] \in Int /\ G[Chosen(T)] \in Int /\ F[Chosen(T)] <= G[Chosen(T)]
    BY <2>2
  <2> QED
    BY <2>2, <2>4, <2>5, <2>6
<1>3. S \in P
  <2> HIDE DEF P
  <2> QED
    BY <1>1, <1>2, SubsetInduction
<1> QED
  BY <1>3

\* A sum of naturals is a natural.
LEMMA SumNatural ==
    ASSUME NEW S, IsFiniteSet(S), NEW F, \A x \in S : F[x] \in Nat
    PROVE  SumFunctionOnSet(F, S) \in Nat
<1> DEFINE P == {T \in SUBSET S : SumFunctionOnSet(F, T) \in Nat}
<1>1. {} \in P
  BY SumEmpty
<1>2. ASSUME NEW T \in SUBSET S, T # {}, \A x \in T : T \ {x} \in P
      PROVE  T \in P
  <2>1. IsFiniteSet(T)
    BY FS_Subset
  <2>2. Chosen(T) \in T /\ SumFunctionOnSet(F, T) = F[Chosen(T)] + SumFunctionOnSet(F, T \ {Chosen(T)})
    BY <1>2, <2>1, SumChosen
  <2>3. SumFunctionOnSet(F, T \ {Chosen(T)}) \in Nat /\ F[Chosen(T)] \in Nat
    BY <1>2, <2>2
  <2> QED
    BY <2>2, <2>3
<1>3. S \in P
  <2> HIDE DEF P
  <2> QED
    BY <1>1, <1>2, SubsetInduction
<1> QED
  BY <1>3

\* Changing one term changes the sum by the difference.
LEMMA SumChange ==
    ASSUME NEW S, IsFiniteSet(S), NEW F, NEW G, NEW x \in S,
           \A y \in S : F[y] \in Int /\ G[y] \in Int,
           \A y \in S \ {x} : F[y] = G[y]
    PROVE  SumFunctionOnSet(G, S) = SumFunctionOnSet(F, S) - F[x] + G[x]
<1>1. IsFiniteSet(S \ {x})
  BY FS_Subset
<1>2. SumFunctionOnSet(F, S) = F[x] + SumFunctionOnSet(F, S \ {x}) /\ SumFunctionOnSet(G, S) = G[x] + SumFunctionOnSet(G, S \ {x})
  BY SumRemove
<1>3. SumFunctionOnSet(F, S \ {x}) = SumFunctionOnSet(G, S \ {x})
  BY <1>1, SumSame
<1>4. SumFunctionOnSet(F, S \ {x}) \in Int
  BY <1>1, SumInteger
<1> QED
  BY <1>2, <1>3, <1>4

\* A part of the terms adds up to no more than all of them.
LEMMA SumPart ==
    ASSUME NEW S, IsFiniteSet(S), NEW F, \A x \in S : F[x] \in Nat, NEW T \in SUBSET S
    PROVE  SumFunctionOnSet(F, T) <= SumFunctionOnSet(F, S)
<1> DEFINE P == {U \in SUBSET S : SumFunctionOnSet(F, U \cap T) <= SumFunctionOnSet(F, U)}
<1>1. {} \in P
  <2>1. {} \cap T = {}
    OBVIOUS
  <2> QED BY <2>1, SumEmpty
<1>2. ASSUME NEW U \in SUBSET S, U # {}, \A x \in U : U \ {x} \in P
      PROVE  U \in P
  <2>1. PICK x : x \in U
    BY <1>2
  <2>2. IsFiniteSet(U) /\ IsFiniteSet(U \ {x}) /\ IsFiniteSet(U \cap T) /\ IsFiniteSet((U \ {x}) \cap T)
    BY FS_Subset
  <2>3. SumFunctionOnSet(F, U) = F[x] + SumFunctionOnSet(F, U \ {x}) /\ F[x] \in Nat
    BY <2>1, <2>2, SumRemove
  <2>4. SumFunctionOnSet(F, U \cap T) \in Nat /\ SumFunctionOnSet(F, (U \ {x}) \cap T) \in Nat /\ SumFunctionOnSet(F, U \ {x}) \in Nat
    BY <2>2, SumNatural
  <2>5. SumFunctionOnSet(F, (U \ {x}) \cap T) <= SumFunctionOnSet(F, U \ {x})
    BY <1>2, <2>1
  <2>6. CASE x \in T
    <3>1. (U \cap T) \ {x} = (U \ {x}) \cap T
      OBVIOUS
    <3>2. SumFunctionOnSet(F, U \cap T) = F[x] + SumFunctionOnSet(F, (U \ {x}) \cap T)
      BY <2>1, <2>2, <2>6, <3>1, SumRemove
    <3> QED
      BY <2>3, <2>4, <2>5, <3>2
  <2>7. CASE x \notin T
    <3>1. U \cap T = (U \ {x}) \cap T
      BY <2>7
    <3>2. SumFunctionOnSet(F, U \cap T) = SumFunctionOnSet(F, (U \ {x}) \cap T)
      BY <3>1
    <3> QED
      BY <2>3, <2>4, <2>5, <3>2
  <2> QED
    BY <2>6, <2>7
<1>3. S \in P
  <2> HIDE DEF P
  <2> QED
    BY <1>1, <1>2, SubsetInduction
<1>4. S \cap T = T
  OBVIOUS
<1> QED
  BY <1>3, <1>4

\* What a sum misses of an added element.
LEMMA SumAdd ==
    ASSUME NEW S, IsFiniteSet(S), NEW F, NEW x, x \notin S,
           \A y \in S \cup {x} : F[y] \in Int
    PROVE  SumFunctionOnSet(F, S \cup {x}) = F[x] + SumFunctionOnSet(F, S)
<1>1. IsFiniteSet(S \cup {x})
  BY FS_AddElement
<1>2. (S \cup {x}) \ {x} = S
  OBVIOUS
<1>3. SumFunctionOnSet(F, S \cup {x}) = F[x] + SumFunctionOnSet(F, (S \cup {x}) \ {x})
  BY <1>1, SumRemove
<1> QED
  BY <1>2, <1>3

\* Terms that are zero add up to zero.
LEMMA SumZero ==
    ASSUME NEW S, IsFiniteSet(S), NEW F, \A x \in S : F[x] = 0
    PROVE  SumFunctionOnSet(F, S) = 0
<1> DEFINE P == {T \in SUBSET S : SumFunctionOnSet(F, T) = 0}
<1>1. {} \in P
  BY SumEmpty
<1>2. ASSUME NEW T \in SUBSET S, T # {}, \A x \in T : T \ {x} \in P
      PROVE  T \in P
  <2>1. IsFiniteSet(T)
    BY FS_Subset
  <2>2. Chosen(T) \in T /\ SumFunctionOnSet(F, T) = F[Chosen(T)] + SumFunctionOnSet(F, T \ {Chosen(T)})
    BY <1>2, <2>1, SumChosen
  <2>3. F[Chosen(T)] = 0 /\ SumFunctionOnSet(F, T \ {Chosen(T)}) = 0
    BY <1>2, <2>2
  <2> QED
    BY <2>2, <2>3
<1>3. S \in P
  <2> HIDE DEF P
  <2> QED
    BY <1>1, <1>2, SubsetInduction
<1> QED
  BY <1>3

-----------------------------------------------------------------------------
\* Induction over the naturals, for a set P of those the claim holds of.
LEMMA NaturalInduction ==
    ASSUME NEW P, 0 \in P, \A n \in Nat : n \in P => n + 1 \in P
    PROVE  \A n \in Nat : n \in P
<1> SUFFICES ASSUME Nat \ P # {} PROVE FALSE
  OBVIOUS
<1>1. PICK m \in Nat \ P : \A k \in Nat \ P : m <= k
  BY LeastNatural
<1>2. m # 0 /\ m - 1 \in Nat /\ (m - 1) + 1 = m
  BY <1>1
<1>3. m - 1 \in P
  BY <1>1, <1>2
<1> QED
  BY <1>1, <1>2, <1>3

\* A finite set of naturals has a bound.
LEMMA FiniteIsBounded ==
    ASSUME NEW S \in SUBSET Nat, IsFiniteSet(S)
    PROVE  \E n \in Nat : \A x \in S : x < n
<1> DEFINE P == {T \in SUBSET S : \E n \in Nat : \A x \in T : x < n}
<1>1. {} \in P
  OBVIOUS
<1>2. ASSUME NEW T \in SUBSET S, T # {}, \A x \in T : T \ {x} \in P
      PROVE  T \in P
  <2>1. PICK y \in T : TRUE
    BY <1>2
  <2>2. PICK n \in Nat : \A x \in T \ {y} : x < n
    BY <1>2
  <2> DEFINE m == IF y < n THEN n ELSE y + 1
  <2>3. m \in Nat /\ \A x \in T : x < m
    BY <2>1, <2>2
  <2> QED
    BY <2>3
<1>3. S \in P
  <2> HIDE DEF P
  <2> QED
    BY <1>1, <1>2, SubsetInduction
<1> QED
  BY <1>3
=============================================================================
