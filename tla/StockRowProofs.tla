--------------------------- MODULE StockRowProofs ---------------------------
(***************************************************************************)
(* What the operators of StockRow do to a row: they keep it a row, and     *)
(* they keep its holds covered by its stock.                               *)
(*                                                                         *)
(* The first part is about the sums the stock is added up with, that is    *)
(* what SumFunction of the community modules returns.  It picks the        *)
(* elements of the domain in an order of its own; the lemmas say that the  *)
(* order does not matter, and how a sum changes with the function or its   *)
(* domain.  They rest on the library's theorem that the subsets of a       *)
(* finite set are well founded: what does not hold for a set fails for a   *)
(* smallest one (MinimalSubset).                                           *)
(***************************************************************************)
EXTENDS StockRow, Functions, FiniteSets, Sequences, FiniteSetTheorems, TLAPS

\* A set of subsets has a member none of whose proper subsets is in it.
LEMMA MinimalSubset ==
  ASSUME NEW S, IsFiniteSet(S), NEW Bad, Bad \subseteq SUBSET S, Bad # {}
  PROVE  \E T \in Bad : \A U \in SUBSET T : U # T => U \notin Bad
<1> DEFINE R == StrictSubsetOrdering(S)
<1>1. IsWellFoundedOn(R, SUBSET S)
  BY FS_StrictSubsetOrderingWellFounded, FS_FiniteSubsetsOfFinite
<1>2. \E T \in Bad : \A U \in Bad : ~ (<<U, T>> \in R)
  <2> HIDE DEF R
  <2> QED
    BY <1>1, WFMin
<1> QED
  BY <1>2 DEF StrictSubsetOrdering

-----------------------------------------------------------------------------
(* The recursion behind SumFunction *)

First(s) == CHOOSE x \in s : TRUE
Rest(s) == s \ {First(s)}

\* g tells the sum of f over every subset of S.
Sums(f, S, g) ==
  g = [s \in SUBSET S |-> IF s = {} THEN 0 ELSE f[First(s)] + g[Rest(s)]]

SumOver(f, S) == (CHOOSE g : Sums(f, S, g))[S]

\* SumFunction, its folds expanded, is this recursion.
LEMMA SumIsSumOver ==
  ASSUME NEW f
  PROVE  SumFunction(f) = SumOver(f, DOMAIN f)
BY DEF SumFunction, SumFunctionOnSet, FoldFunctionOnSet, MapThenFoldSet, SumOver, Sums,
       First, Rest

\* Every non-empty set has a first element and a smaller rest.
LEMMA RestIsSmaller ==
  ASSUME NEW S, S # {}
  PROVE  /\ First(S) \in S /\ Rest(S) \subseteq S /\ Rest(S) # S
         /\ First(S) \notin Rest(S)
BY DEF First, Rest

\* What a solution of the recursion says of each set.
LEMMA SumsUnfold ==
  ASSUME NEW f, NEW S, NEW g, Sums(f, S, g)
  PROVE  /\ g[{}] = 0
         /\ \A U \in SUBSET S :
              U # {} => g[U] = f[First(U)] + g[Rest(U)] /\ Rest(U) \in SUBSET S
<1>1. \A U \in SUBSET S : g[U] = IF U = {} THEN 0 ELSE f[First(U)] + g[Rest(U)]
  BY DEF Sums
<1>2. {} \in SUBSET S
  OBVIOUS
<1> QED
  BY <1>1, <1>2, RestIsSmaller

\* Two functions that agree on a set have one sum over it.
LEMMA SumsAgree ==
  ASSUME NEW S, IsFiniteSet(S), NEW T, NEW f, NEW h, NEW g, NEW k,
         Sums(f, S, g), Sums(h, T, k),
         NEW W, W \subseteq S, W \subseteq T, \A x \in W : f[x] = h[x]
  PROVE  g[W] = k[W]
<1> DEFINE Bad == {U \in SUBSET W : g[U] # k[U]}
<1>1. SUFFICES ASSUME Bad # {} PROVE FALSE
  OBVIOUS
<1>2. IsFiniteSet(W)
  BY FS_Subset
<1>3. PICK U \in Bad : \A V \in SUBSET U : V # U => V \notin Bad
  <2>1. Bad \subseteq SUBSET W
    OBVIOUS
  <2> HIDE DEF Bad
  <2> QED
    BY <1>1, <1>2, <2>1, MinimalSubset
<1>4. U # {}
  <2>1. g[{}] = 0 /\ k[{}] = 0
    BY SumsUnfold
  <2> QED
    BY <2>1
<1>5. g[Rest(U)] = k[Rest(U)] /\ f[First(U)] = h[First(U)]
  BY <1>3, <1>4, RestIsSmaller
<1> QED
  BY <1>4, <1>5, SumsUnfold

\* The recursion has a solution.
LEMMA SumsExist ==
  ASSUME NEW S, IsFiniteSet(S), NEW f
  PROVE  \E g : Sums(f, S, g)
<1> DEFINE Bad == {U \in SUBSET S : ~ \E g : Sums(f, U, g)}
<1>1. SUFFICES ASSUME Bad # {} PROVE FALSE
  OBVIOUS
<1>2. PICK T \in Bad : \A U \in SUBSET T : U # T => U \notin Bad
  <2>1. Bad \subseteq SUBSET S
    OBVIOUS
  <2> HIDE DEF Bad
  <2> QED
    BY <1>1, <2>1, MinimalSubset
<1> DEFINE g == [s \in SUBSET T |-> IF s = {} THEN 0
                                    ELSE f[First(s)] + SumOver(f, Rest(s))]
<1>3. ASSUME NEW U \in SUBSET T, U # T
      PROVE  SumOver(f, U) = g[U]
  <2> DEFINE h == CHOOSE k : Sums(f, U, k)
  <2>1. Sums(f, U, h)
    BY <1>2, <1>3
  <2>2. SumOver(f, U) = h[U]
    BY DEF SumOver
  <2> HIDE DEF h
  <2>3. CASE U = {}
    BY <2>1, <2>2, <2>3, SumsUnfold
  <2>4. CASE U # {}
    <3> DEFINE V == Rest(U)
               k == CHOOSE j : Sums(f, V, j)
    <3>1. V \subseteq U /\ V \in SUBSET T /\ V # T
      BY <1>3, <2>4, RestIsSmaller
    <3>2. Sums(f, V, k)
      BY <1>2, <3>1
    <3>3. SumOver(f, V) = k[V]
      BY DEF SumOver
    <3> HIDE DEF k
    <3>4. IsFiniteSet(U)
      BY <1>2, FS_Subset
    <3>5. h[V] = k[V]
      BY <2>1, <3>1, <3>2, <3>4, SumsAgree
    <3>6. h[U] = f[First(U)] + h[V]
      BY <2>1, <2>4, SumsUnfold
    <3> QED
      BY <2>2, <2>4, <3>3, <3>5, <3>6
  <2> QED
    BY <2>3, <2>4
<1>4. \A s \in SUBSET T : s # {} => SumOver(f, Rest(s)) = g[Rest(s)]
  BY <1>3, RestIsSmaller
<1>5. Sums(f, T, g)
  BY <1>4 DEF Sums
<1> QED
  BY <1>2, <1>5

\* What is known of the sum of f over a finite set.
LEMMA SumOverSums ==
  ASSUME NEW S, IsFiniteSet(S), NEW f
  PROVE  \E g : Sums(f, S, g) /\ SumOver(f, S) = g[S]
BY SumsExist DEF SumOver

-----------------------------------------------------------------------------
(* What is summed *)

\* The sum over a part of S is what the recursion over S says of it.
LEMMA SumOverPart ==
  ASSUME NEW S, IsFiniteSet(S), NEW f, NEW g, Sums(f, S, g), NEW U \in SUBSET S
  PROVE  SumOver(f, U) = g[U]
<1>1. IsFiniteSet(U)
  BY FS_Subset
<1>2. PICK h : Sums(f, U, h) /\ SumOver(f, U) = h[U]
  BY <1>1, SumOverSums
<1> QED
  BY <1>1, <1>2, SumsAgree

\* Nothing adds up to 0, and a sum unfolds at its first element.
LEMMA SumOverFirst ==
  ASSUME NEW S, IsFiniteSet(S), NEW f
  PROVE  /\ SumOver(f, {}) = 0
         /\ S # {} => SumOver(f, S) = f[First(S)] + SumOver(f, Rest(S))
<1>1. PICK g : Sums(f, S, g) /\ SumOver(f, S) = g[S]
  BY SumOverSums
<1>2. SumOver(f, {}) = g[{}]
  BY <1>1, SumOverPart
<1>3. S # {} => SumOver(f, Rest(S)) = g[Rest(S)]
  BY <1>1, SumOverPart, RestIsSmaller
<1>4. g[{}] = 0
  BY <1>1, SumsUnfold
<1>5. S # {} => g[S] = f[First(S)] + g[Rest(S)]
  BY <1>1, SumsUnfold
<1> QED
  BY <1>1, <1>2, <1>3, <1>4, <1>5

\* The sum depends on the values over S only.
LEMMA SumOverAgree ==
  ASSUME NEW S, IsFiniteSet(S), NEW f, NEW h, \A x \in S : f[x] = h[x]
  PROVE  SumOver(f, S) = SumOver(h, S)
BY SumOverSums, SumsAgree

\* Integers add up to an integer.
LEMMA SumOverInt ==
  ASSUME NEW S, IsFiniteSet(S), NEW f, \A x \in S : f[x] \in Int
  PROVE  SumOver(f, S) \in Int
<1> DEFINE Bad == {U \in SUBSET S : SumOver(f, U) \notin Int}
<1>1. SUFFICES ASSUME Bad # {} PROVE FALSE
  OBVIOUS
<1>2. PICK U \in Bad : \A V \in SUBSET U : V # U => V \notin Bad
  <2>1. Bad \subseteq SUBSET S
    OBVIOUS
  <2> HIDE DEF Bad
  <2> QED
    BY <1>1, <2>1, MinimalSubset
<1>3. IsFiniteSet(U)
  BY FS_Subset
<1>4. U # {}
  <2>1. SumOver(f, {}) \in Int
    BY SumOverFirst
  <2> QED
    BY <1>2, <2>1
<1>5. SumOver(f, Rest(U)) \in Int /\ f[First(U)] \in Int
  BY <1>2, <1>4, RestIsSmaller
<1> QED
  BY <1>3, <1>4, <1>5, SumOverFirst

\* Any element may be taken out first.
LEMMA SumOverRemove ==
  ASSUME NEW S, IsFiniteSet(S), NEW f, \A x \in S : f[x] \in Int, NEW y \in S
  PROVE  SumOver(f, S) = f[y] + SumOver(f, S \ {y})
<1> DEFINE Bad == {U \in SUBSET S :
                     \E z \in U : SumOver(f, U) # f[z] + SumOver(f, U \ {z})}
<1>1. SUFFICES ASSUME Bad # {} PROVE FALSE
  OBVIOUS
<1>2. PICK U \in Bad : \A V \in SUBSET U : V # U => V \notin Bad
  <2>1. Bad \subseteq SUBSET S
    OBVIOUS
  <2> HIDE DEF Bad
  <2> QED
    BY <1>1, <2>1, MinimalSubset
<1>3. PICK z \in U : SumOver(f, U) # f[z] + SumOver(f, U \ {z})
  BY <1>2
<1> DEFINE x == First(U)
<1>4. x \in U /\ IsFiniteSet(U) /\ IsFiniteSet(U \ {z})
  BY RestIsSmaller, FS_Subset
<1>5. SumOver(f, U) = f[x] + SumOver(f, U \ {x})
  BY <1>4, SumOverFirst DEF Rest
<1>6. x # z
  BY <1>3, <1>5
<1> HIDE DEF x
<1>7. SumOver(f, U \ {x}) = f[z] + SumOver(f, (U \ {x}) \ {z})
  BY <1>2, <1>4, <1>6
<1>8. SumOver(f, U \ {z}) = f[x] + SumOver(f, (U \ {z}) \ {x})
  BY <1>2, <1>4, <1>6
<1>9. SumOver(f, (U \ {x}) \ {z}) = SumOver(f, (U \ {z}) \ {x})
  <2>1. (U \ {x}) \ {z} = (U \ {z}) \ {x}
    OBVIOUS
  <2> QED
    BY <2>1, Zenon
<1>10. /\ SumOver(f, (U \ {z}) \ {x}) \in Int
       /\ f[x] \in Int /\ f[z] \in Int
  BY <1>4, SumOverInt, FS_Subset
<1> QED
  BY <1>3, <1>5, <1>7, <1>8, <1>9, <1>10

\* Whatever adds up element by element, in any order, is the sum.
LEMMA SumOverUnique ==
  ASSUME NEW S, IsFiniteSet(S), NEW f, \A x \in S : f[x] \in Int,
         NEW G, G[{}] = 0,
         \A U \in SUBSET S : U # {} => \E x \in U : G[U] = f[x] + G[U \ {x}]
  PROVE  G[S] = SumOver(f, S)
<1> DEFINE Bad == {U \in SUBSET S : G[U] # SumOver(f, U)}
<1>1. SUFFICES ASSUME Bad # {} PROVE FALSE
  OBVIOUS
<1>2. PICK U \in Bad : \A V \in SUBSET U : V # U => V \notin Bad
  <2>1. Bad \subseteq SUBSET S
    OBVIOUS
  <2> HIDE DEF Bad
  <2> QED
    BY <1>1, <2>1, MinimalSubset
<1>3. U # {}
  <2>1. SumOver(f, {}) = 0
    BY SumOverFirst
  <2> QED
    BY <2>1
<1>4. PICK x \in U : G[U] = f[x] + G[U \ {x}]
  BY <1>3
<1>5. G[U \ {x}] = SumOver(f, U \ {x})
  BY <1>2
<1>6. SumOver(f, U) = f[x] + SumOver(f, U \ {x})
  <2>1. IsFiniteSet(U)
    BY FS_Subset
  <2>2. \A z \in U : f[z] \in Int
    OBVIOUS
  <2> QED
    BY <2>1, <2>2, SumOverRemove
<1> QED
  BY <1>4, <1>5, <1>6

-----------------------------------------------------------------------------
(* SumFunction *)

\* A function without arguments adds up to 0.
LEMMA SumEmpty ==
  ASSUME NEW f, DOMAIN f = {}
  PROVE  SumFunction(f) = 0
BY SumIsSumOver, SumOverFirst, FS_EmptySet

\* Integers add up to an integer.
LEMMA SumInt ==
  ASSUME NEW S, IsFiniteSet(S), NEW f \in [S -> Int]
  PROVE  SumFunction(f) \in Int
BY SumIsSumOver, SumOverInt

\* One value changes.
LEMMA SumChange ==
  ASSUME NEW S, NEW y, NEW f, NEW h, IsFiniteSet(S), f \in [S -> Int], h \in [S -> Int],
         y \in S, \A x \in S \ {y} : h[x] = f[x]
  PROVE  SumFunction(h) = SumFunction(f) - f[y] + h[y]
<1> DEFINE T == S \ {y}
<1>1. IsFiniteSet(T)
  BY FS_Subset
<1>2. SumOver(h, S) = h[y] + SumOver(h, T) /\ SumOver(f, S) = f[y] + SumOver(f, T)
  BY SumOverRemove
<1>3. SumOver(h, T) = SumOver(f, T) /\ SumOver(f, T) \in Int
  BY <1>1, SumOverAgree, SumOverInt
<1>4. SumFunction(h) = SumOver(h, S) /\ SumFunction(f) = SumOver(f, S)
  BY SumIsSumOver
<1> QED
  BY <1>2, <1>3, <1>4

\* What is left out counts as nothing.
LEMMA SumSelected ==
  ASSUME NEW S, IsFiniteSet(S), NEW T \in SUBSET S, NEW f \in [T -> Int],
         NEW h \in [S -> Int], \A x \in S : h[x] = IF x \in T THEN f[x] ELSE 0
  PROVE  SumFunction(f) = SumFunction(h)
<1> DEFINE G == [U \in SUBSET S |-> SumOver(f, U \intersect T)]
<1>1. G[{}] = 0
  <2>1. {} \intersect T = {} /\ SumOver(f, {}) = 0
    BY SumOverFirst
  <2> QED
    BY <2>1
<1>2. ASSUME NEW U \in SUBSET S, U # {}
      PROVE  \E x \in U : G[U] = h[x] + G[U \ {x}]
  <2>1. PICK x \in U : TRUE
    BY <1>2
  <2> DEFINE W == U \intersect T
  <2>2. IsFiniteSet(W) /\ (U \ {x}) \intersect T = W \ {x}
    BY FS_Subset
  <2>3. SumOver(f, W) \in Int
    BY <2>2, SumOverInt
  <2>4. CASE x \in T
    <3>1. SumOver(f, W) = f[x] + SumOver(f, W \ {x})
      BY <2>2, <2>4, SumOverRemove
    <3> QED
      BY <2>2, <2>4, <3>1
  <2>5. CASE x \notin T
    <3>1. (U \ {x}) \intersect T = W
      BY <2>5
    <3>2. G[U] = SumOver(f, W) /\ G[U \ {x}] = SumOver(f, W)
      BY <3>1, Zenon
    <3>3. h[x] = 0
      BY <2>5
    <3>4. G[U] = h[x] + G[U \ {x}]
      <4> HIDE DEF G, W
      <4> QED
        BY <2>3, <3>2, <3>3
    <3> QED
      BY <3>4
  <2> QED
    BY <2>4, <2>5
<1> HIDE DEF G
<1>3. G[S] = SumOver(h, S)
  BY <1>1, <1>2, SumOverUnique
<1>4. G[S] = SumOver(f, T)
  BY DEF G
<1> QED
  BY <1>3, <1>4, SumIsSumOver

\* Sums add up, and subtract.
LEMMA SumPlus ==
  ASSUME NEW S, IsFiniteSet(S), NEW f \in [S -> Int], NEW d \in [S -> Int],
         NEW h \in [S -> Int], NEW c \in {-1, 0, 1}, \A x \in S : h[x] = f[x] + c * d[x]
  PROVE  SumFunction(h) = SumFunction(f) + c * SumFunction(d)
<1> DEFINE G == [U \in SUBSET S |-> SumOver(f, U) + c * SumOver(d, U)]
<1>1. G[{}] = 0
  <2>1. SumOver(f, {}) = 0 /\ SumOver(d, {}) = 0
    BY SumOverFirst
  <2> QED
    BY <2>1
<1>2. ASSUME NEW U \in SUBSET S, U # {}
      PROVE  \E x \in U : G[U] = h[x] + G[U \ {x}]
  <2>1. PICK x \in U : TRUE
    BY <1>2
  <2>2. IsFiniteSet(U) /\ IsFiniteSet(U \ {x})
    BY FS_Subset
  <2>3. /\ SumOver(f, U) = f[x] + SumOver(f, U \ {x})
        /\ SumOver(d, U) = d[x] + SumOver(d, U \ {x})
    BY <2>2, SumOverRemove
  <2>4. SumOver(f, U \ {x}) \in Int /\ SumOver(d, U \ {x}) \in Int
    BY <2>2, SumOverInt
  <2>5. h[x] = f[x] + c * d[x] /\ f[x] \in Int /\ d[x] \in Int
    OBVIOUS
  <2>6. /\ G[U] = SumOver(f, U) + c * SumOver(d, U)
        /\ G[U \ {x}] = SumOver(f, U \ {x}) + c * SumOver(d, U \ {x})
    OBVIOUS
  <2>7. G[U] = h[x] + G[U \ {x}]
    <3> HIDE DEF G
    <3> QED
      BY <2>3, <2>4, <2>5, <2>6
  <2> QED
    BY <2>7
<1> HIDE DEF G
<1>3. G[S] = SumOver(h, S)
  BY <1>1, <1>2, SumOverUnique
<1>4. G[S] = SumOver(f, S) + c * SumOver(d, S)
  BY DEF G
<1> QED
  BY <1>3, <1>4, SumIsSumOver

\* Zeros add up to 0.
LEMMA SumZero ==
  ASSUME NEW S, IsFiniteSet(S), NEW f, f \in [S -> Int], \A x \in S : f[x] = 0
  PROVE  SumFunction(f) = 0
<1> DEFINE T == {}
           none == [x \in T |-> 0]
<1>1. T \in SUBSET S
  OBVIOUS
<1>2. none \in [T -> Int]
  OBVIOUS
<1>3. \A x \in S : f[x] = IF x \in T THEN none[x] ELSE 0
  OBVIOUS
<1>4. SumFunction(none) = 0
  BY SumEmpty
<1> HIDE DEF none, T
<1>5. SumFunction(none) = SumFunction(f)
  BY <1>1, <1>2, <1>3, SumSelected
<1> QED
  BY <1>4, <1>5

\* A sum with its sign turned, or of nothing.
LEMMA SumScaled ==
  ASSUME NEW S, IsFiniteSet(S), NEW d, d \in [S -> Int], NEW h, h \in [S -> Int],
         NEW c, c \in {-1, 0, 1}, \A x \in S : h[x] = c * d[x]
  PROVE  SumFunction(h) = c * SumFunction(d)
<1> DEFINE zero == [x \in S |-> 0]
<1>0. IsFiniteSet(S) /\ d \in [S -> Int] /\ h \in [S -> Int] /\ c \in {-1, 0, 1}
  OBVIOUS
<1>1. zero \in [S -> Int]
  OBVIOUS
<1>2. \A x \in S : zero[x] = 0
  OBVIOUS
<1> HIDE DEF zero
<1>3. \A x \in S : h[x] = zero[x] + c * d[x]
  BY <1>2
<1>4. SumFunction(zero) = 0
  BY <1>1, <1>2, SumZero
<1>5. SumFunction(h) = SumFunction(zero) + c * SumFunction(d)
  BY ONLY <1>0, <1>1, <1>3, SumPlus
<1>6. SumFunction(d) \in Int
  BY SumInt
<1> QED
  BY <1>4, <1>5, <1>6

\* What is nowhere negative does not add up to less than nothing.
LEMMA SumNat ==
  ASSUME NEW S, IsFiniteSet(S), NEW f \in [S -> Nat]
  PROVE  SumFunction(f) \in Nat
<1> DEFINE Bad == {U \in SUBSET S : SumOver(f, U) \notin Nat}
<1>1. SUFFICES ASSUME Bad # {} PROVE FALSE
  BY SumIsSumOver
<1>2. PICK U \in Bad : \A V \in SUBSET U : V # U => V \notin Bad
  <2>1. Bad \subseteq SUBSET S
    OBVIOUS
  <2> HIDE DEF Bad
  <2> QED
    BY <1>1, <2>1, MinimalSubset
<1>3. U # {} /\ IsFiniteSet(U)
  <2>1. SumOver(f, {}) \in Nat
    BY SumOverFirst
  <2> QED
    BY <2>1, FS_Subset
<1>4. SumOver(f, Rest(U)) \in Nat /\ f[First(U)] \in Nat
  BY <1>2, <1>3, RestIsSmaller
<1> QED
  BY <1>3, <1>4, SumOverFirst

-----------------------------------------------------------------------------
(* Sums over a sequence *)

\* What the elements of L are worth together.
Worth(L, value) == SumFunction([i \in DOMAIN L |-> value[L[i]]])

\* The elements of a sequence are finitely many, each worth an integer.
LEMMA WorthDomain ==
  ASSUME NEW E, NEW L \in Seq(E), NEW value \in [E -> Int]
  PROVE  /\ IsFiniteSet(DOMAIN L)
         /\ [i \in DOMAIN L |-> value[L[i]]] \in [DOMAIN L -> Int]
<1>1. DOMAIN L = 1..Len(L) /\ Len(L) \in Nat
  OBVIOUS
<1>2. IsFiniteSet(1..Len(L))
  BY <1>1, FS_Interval
<1> QED
  BY <1>1, <1>2

\* A sequence is worth an integer.
LEMMA WorthInt ==
  ASSUME NEW E, NEW L \in Seq(E), NEW value \in [E -> Int]
  PROVE  Worth(L, value) \in Int
BY WorthDomain, SumInt DEF Worth

\* The empty sequence is worth nothing.
LEMMA WorthEmpty ==
  ASSUME NEW value
  PROVE  Worth(<<>>, value) = 0
<1>1. DOMAIN [i \in DOMAIN <<>> |-> value[<<>>[i]]] = {}
  OBVIOUS
<1> QED
  BY <1>1, SumEmpty DEF Worth

\* One more element.
LEMMA WorthAppend ==
  ASSUME NEW E, NEW L \in Seq(E), NEW e \in E, NEW value \in [E -> Int]
  PROVE  Worth(Append(L, e), value) = Worth(L, value) + value[e]
<1> DEFINE S == DOMAIN L
           y == Len(L) + 1
           M == Append(L, e)
           T == DOMAIN M
           f == [i \in S |-> value[L[i]]]
           h == [i \in DOMAIN M |-> value[M[i]]]
<1>1. M \in Seq(E) /\ DOMAIN M = S \union {y} /\ y \notin S
  OBVIOUS
<1>2. (\A i \in S : M[i] = L[i]) /\ M[y] = e
  OBVIOUS
<1>3. IsFiniteSet(T) /\ f \in [S -> Int] /\ h \in [T -> Int]
  <2>1. f \in [S -> Int]
    BY WorthDomain
  <2>2. M \in Seq(E)
    BY <1>1
  <2> HIDE DEF M
  <2>3. IsFiniteSet(T) /\ h \in [T -> Int]
    BY <2>2, WorthDomain
  <2> QED
    BY <2>1, <2>3
<1>4. (\A x \in S : h[x] = f[x]) /\ h[y] = value[e]
  BY <1>1, <1>2
<1>5. y \in T /\ S = T \ {y}
  BY <1>1
<1> HIDE DEF S, y, f, h, M, T
<1>6. SumOver(h, T) = h[y] + SumOver(h, S)
  <2>1. SumOver(h, T) = h[y] + SumOver(h, T \ {y})
    BY <1>3, <1>5, SumOverRemove
  <2> QED
    BY <1>5, <2>1, Zenon
<1>7. SumOver(h, S) = SumOver(f, S) /\ SumOver(f, S) \in Int
  <2>1. IsFiniteSet(S)
    BY WorthDomain DEF S
  <2> QED
    BY <1>3, <1>4, <2>1, SumOverAgree, SumOverInt
<1>8. /\ Worth(M, value) = SumOver(h, T) /\ Worth(L, value) = SumOver(f, S)
  BY <1>3, SumIsSumOver DEF Worth, f, h, S, T
<1> QED
  BY <1>4, <1>6, <1>7, <1>8 DEF M

\* One element is replaced.
LEMMA WorthReplace ==
  ASSUME NEW E, NEW L \in Seq(E), NEW i \in DOMAIN L, NEW e \in E,
         NEW value \in [E -> Int]
  PROVE  Worth([L EXCEPT ![i] = e], value) = Worth(L, value) - value[L[i]] + value[e]
<1> DEFINE S == DOMAIN L
           M == [L EXCEPT ![i] = e]
           f == [j \in S |-> value[L[j]]]
           h == [j \in DOMAIN M |-> value[M[j]]]
<1>1. M \in Seq(E) /\ DOMAIN M = S
  OBVIOUS
<1>2. (\A j \in S \ {i} : M[j] = L[j]) /\ M[i] = e
  OBVIOUS
<1>3. IsFiniteSet(S) /\ f \in [S -> Int] /\ h \in [S -> Int]
  BY <1>1, WorthDomain
<1>4. (\A x \in S \ {i} : h[x] = f[x]) /\ h[i] = value[e] /\ f[i] = value[L[i]]
  BY <1>1, <1>2
<1>5. i \in S
  OBVIOUS
<1> HIDE DEF S, f, h, M
<1>6. SumFunction(h) = SumFunction(f) - f[i] + h[i]
  <2>1. \A x \in S \ {i} : h[x] = f[x]
    BY <1>4
  <2>2. IsFiniteSet(S)
    BY <1>3
  <2>3. f \in [S -> Int] /\ h \in [S -> Int]
    BY <1>3
  <2> QED
    BY <1>5, <2>1, <2>2, <2>3, SumChange
<1> QED
  BY <1>4, <1>6 DEF Worth, f, h, S, M

\* One sequence after the other.
LEMMA WorthConcat ==
  ASSUME NEW E, NEW L \in Seq(E), NEW M \in Seq(E), NEW value \in [E -> Int]
  PROVE  Worth(L \o M, value) = Worth(L, value) + Worth(M, value)
<1> DEFINE a == Len(L)
           A == 1..a
           B == 1..Len(M)
           K == L \o M
           At(U) == {a + i : i \in U}
           F == [i \in DOMAIN K |-> value[K[i]]]
           f == [i \in DOMAIN L |-> value[L[i]]]
           h == [i \in DOMAIN M |-> value[M[i]]]
           G == [U \in SUBSET B |-> SumOver(F, A \union At(U)) - SumOver(F, A)]
<1>1. /\ DOMAIN L = A /\ DOMAIN M = B /\ DOMAIN K = A \union At(B) /\ K \in Seq(E)
      /\ a \in Nat
  <2>1. /\ DOMAIN L = A /\ DOMAIN M = B /\ K \in Seq(E) /\ Len(K) = a + Len(M)
        /\ a \in Nat /\ Len(M) \in Nat
    OBVIOUS
  <2>2. DOMAIN K = 1..(a + Len(M))
    BY <2>1
  <2>3. ASSUME NEW i \in 1..(a + Len(M)), i \notin A PROVE i \in At(B)
    <3>1. i - a \in B /\ i = a + (i - a)
      BY <2>1, <2>3
    <3> QED
      BY <3>1
  <2>4. A \union At(B) \subseteq 1..(a + Len(M))
    BY <2>1
  <2> QED
    BY <2>1, <2>2, <2>3, <2>4
<1>2. /\ \A i \in A : K[i] = L[i]
      /\ \A i \in B : K[a + i] = M[i]
  OBVIOUS
<1>3. /\ IsFiniteSet(DOMAIN K) /\ F \in [DOMAIN K -> Int]
      /\ IsFiniteSet(A) /\ f \in [A -> Int]
      /\ IsFiniteSet(B) /\ h \in [B -> Int]
  <2>1. IsFiniteSet(DOMAIN K) /\ F \in [DOMAIN K -> Int]
    <3> HIDE DEF K
    <3> QED
      BY <1>1, WorthDomain
  <2>2. IsFiniteSet(DOMAIN L) /\ f \in [DOMAIN L -> Int]
    BY WorthDomain
  <2>3. IsFiniteSet(DOMAIN M) /\ h \in [DOMAIN M -> Int]
    BY WorthDomain
  <2> HIDE DEF A, B, F, f, h, K
  <2> QED
    BY <1>1, <2>1, <2>2, <2>3
<1>4. /\ \A i \in A : F[i] = f[i]
      /\ \A i \in B : F[a + i] = h[i]
  BY <1>1, <1>2
<1> HIDE DEF K, F, f, h
<1>5. G[{}] = 0
  <2>1. A \union At({}) = A
    OBVIOUS
  <2>2. SumOver(F, A) \in Int
    BY <1>1, <1>3, SumOverInt
  <2>3. G[{}] = SumOver(F, A \union At({})) - SumOver(F, A)
    OBVIOUS
  <2>4. SumOver(F, A \union At({})) = SumOver(F, A)
    BY <2>1, Zenon
  <2> HIDE DEF A, At, G
  <2> QED
    BY <2>2, <2>3, <2>4
<1>6. ASSUME NEW U \in SUBSET B, U # {}
      PROVE  \E x \in U : G[U] = h[x] + G[U \ {x}]
  <2>1. PICK x \in U : TRUE
    BY <1>6
  <2> DEFINE W == A \union At(U)
  <2>2. W \subseteq DOMAIN K /\ a + x \in W
    BY <1>1
  <2>3. A \union At(U \ {x}) = W \ {a + x}
    <3>1. a + x \notin A
      BY <1>1
    <3>2. At(U \ {x}) = At(U) \ {a + x}
      <4>1. \A i, j \in U : a + i = a + j => i = j
        BY <1>1
      <4> QED
        BY <4>1
    <3> HIDE DEF A, At
    <3> QED
      BY <3>1, <3>2
  <2>4. IsFiniteSet(W) /\ \A i \in W : F[i] \in Int
    BY <1>3, <2>2, FS_Subset
  <2>5. /\ G[U] = SumOver(F, W) - SumOver(F, A)
        /\ G[U \ {x}] = SumOver(F, A \union At(U \ {x})) - SumOver(F, A)
    OBVIOUS
  <2>6. F[a + x] = h[x] /\ h[x] \in Int
    BY <1>3, <1>4
  <2> HIDE DEF W, At, G
  <2>7. SumOver(F, W) = F[a + x] + SumOver(F, W \ {a + x})
    BY <2>2, <2>4, SumOverRemove
  <2>8. SumOver(F, A) \in Int /\ SumOver(F, W \ {a + x}) \in Int
    <3>1. IsFiniteSet(W \ {a + x})
      BY <2>4, FS_Subset
    <3> QED
      BY <1>1, <1>3, <2>4, <3>1, SumOverInt
  <2>9. G[U] = h[x] + G[U \ {x}]
    <3>1. SumOver(F, A \union At(U \ {x})) = SumOver(F, W \ {a + x})
      BY <2>3, Zenon
    <3> HIDE DEF A, a
    <3> QED
      BY <2>5, <2>6, <2>7, <2>8, <3>1
  <2> QED
    BY <2>9
<1>7. G[B] = SumOver(F, DOMAIN K) - SumOver(F, A)
  BY <1>1
<1> HIDE DEF G, B
<1>8. G[B] = SumOver(h, B)
  BY <1>3, <1>5, <1>6, SumOverUnique
<1>9. SumOver(F, A) = SumOver(f, A)
  <2>1. IsFiniteSet(A)
    BY <1>3
  <2>2. \A i \in A : F[i] = f[i]
    BY <1>4
  <2> QED
    BY ONLY <2>1, <2>2, SumOverAgree
<1>10. /\ Worth(L, value) = SumOver(f, A) /\ Worth(M, value) = SumOver(h, B)
       /\ Worth(K, value) = SumOver(F, DOMAIN K)
  BY <1>1, <1>3, SumIsSumOver DEF Worth, f, h, F
<1>11. SumOver(F, DOMAIN K) \in Int /\ SumOver(F, A) \in Int /\ SumOver(h, B) \in Int
  BY <1>1, <1>3, SumOverInt
<1> QED
  BY <1>7, <1>8, <1>9, <1>10, <1>11 DEF K

-----------------------------------------------------------------------------
(* Rows of stock *)

\* A greedy pass takes from every location a part of its capacity.
LEMMA SplitsBounds ==
  ASSUME NEW cap \in [Location -> Int], NEW q \in Nat, NEW take \in Splits(cap, q)
  PROVE  /\ take \in [Location -> Nat]
         /\ \A l \in Location : take[l] <= cap[l]
BY DEF Splits

\* A pass leaves a row whose locations each moved by what was taken there.
LEMMA PassesShape ==
  ASSUME NEW r \in Row, NEW cap \in [Location -> Int], NEW q \in Nat,
         NEW sq \in {-1, 0, 1}, NEW sl \in {-1, 0, 1},
         NEW out \in Passes(r, cap, q, sq, sl)
  PROVE  /\ out.location \in Location
         /\ \E take \in Splits(cap, q) : out.row = Taken(r, take, q, sq, sl)
<1>1. PICK p \in Splits(cap, q) \X r.rows :
             out = [row |-> Taken(r, p[1], q, sq, sl), location |-> p[2]]
  BY DEF Passes
<1>2. p[1] \in Splits(cap, q) /\ p[2] \in Location
  BY <1>1 DEF Row
<1> QED
  BY <1>1, <1>2

\* The capacities the greedy loops work with.
LEMMA Capacities ==
  ASSUME NEW r \in Row
  PROVE  FreeAt(r) \in [Location -> Int] /\ HeldAt(r) \in [Location -> Int]
BY DEF FreeAt, HeldAt, AtLeastZero, Row, Cell

\* Whatever is taken, a row stays a row.
LEMMA TakenType ==
  ASSUME NEW r \in Row, NEW take \in [Location -> Nat], NEW q \in Nat,
         NEW sq \in {-1, 0, 1}, NEW sl \in {-1, 0, 1}
  PROVE  Taken(r, take, q, sq, sl) \in Row
<1>1. \A l \in Location :
        [quantity |-> r.at[l].quantity + sq * take[l],
         locked |-> r.at[l].locked + sl * take[l]] \in Cell
  BY DEF Row, Cell
<1>2. r.quantity + sq * q \in Int /\ r.locked + sl * q \in Int
  BY DEF Row
<1> QED
  BY <1>1, <1>2 DEF Taken, Row

-----------------------------------------------------------------------------
\* lockOrderItemsStock never promises more than there is.
LEMMA LockKeepsCovered ==
  ASSUME NEW r \in Row, NEW q \in Nat, NEW out \in LockOutcomes(r, q)
  PROVE  /\ out.row \in Row /\ out.location \in Location
         /\ RowCovered(r) => RowCovered(out.row)
<1>1. out \in Passes(r, FreeAt(r), q, 0, 1) /\ r.quantity - r.locked >= q
  BY DEF LockOutcomes
<1>2. out.location \in Location
      /\ \E take \in Splits(FreeAt(r), q) : out.row = Taken(r, take, q, 0, 1)
  BY <1>1, PassesShape, Capacities
<1>3. PICK take \in Splits(FreeAt(r), q) : out.row = Taken(r, take, q, 0, 1)
  BY <1>2
<1>4. take \in [Location -> Nat] /\ \A l \in Location : take[l] <= FreeAt(r)[l]
  BY SplitsBounds, Capacities
<1>5. out.row \in Row
  BY <1>3, <1>4, TakenType
<1>6. ASSUME RowCovered(r) PROVE RowCovered(out.row)
  <2>1. Covered(out.row)
    BY <1>1, <1>3, <1>6 DEF RowCovered, Covered, Taken, Row
  <2>2. ASSUME NEW l \in Location PROVE Covered(out.row.at[l])
    <3>1. out.row.at[l] = [quantity |-> r.at[l].quantity + 0 * take[l],
                           locked |-> r.at[l].locked + 1 * take[l]]
      BY <1>3 DEF Taken, Row
    <3>2. Covered(r.at[l]) /\ r.at[l] \in Cell
      BY <1>6 DEF RowCovered, Row
    <3>3. take[l] \in Nat /\ take[l] <= AtLeastZero(r.at[l].quantity - r.at[l].locked)
      BY <1>4 DEF FreeAt
    <3> QED
      BY <3>1, <3>2, <3>3 DEF Covered, Cell, AtLeastZero
  <2> QED
    BY <2>1, <2>2 DEF RowCovered
<1> QED
  BY <1>2, <1>5, <1>6

\* Releasing and deducting take a hold away that is there, so neither makes a
\* hold negative; deducting takes as much of the stock as of the hold.
LEMMA HoldPassKeepsCovered ==
  ASSUME NEW r \in Row, NEW q \in Nat, NEW sq \in {-1, 0}, r.locked >= q,
         NEW out \in Passes(r, HeldAt(r), q, sq, -1)
  PROVE  /\ out.row \in Row /\ out.location \in Location
         /\ RowCovered(r) => RowCovered(out.row)
<1>1. out.location \in Location
      /\ \E take \in Splits(HeldAt(r), q) : out.row = Taken(r, take, q, sq, -1)
  BY PassesShape, Capacities
<1>2. PICK take \in Splits(HeldAt(r), q) : out.row = Taken(r, take, q, sq, -1)
  BY <1>1
<1>3. take \in [Location -> Nat] /\ \A l \in Location : take[l] <= HeldAt(r)[l]
  BY SplitsBounds, Capacities
<1>4. out.row \in Row
  BY <1>2, <1>3, TakenType
<1>5. ASSUME RowCovered(r) PROVE RowCovered(out.row)
  <2>1. Covered(out.row)
    BY <1>2, <1>5 DEF RowCovered, Covered, Taken, Row
  <2>2. ASSUME NEW l \in Location PROVE Covered(out.row.at[l])
    <3>1. out.row.at[l] = [quantity |-> r.at[l].quantity + sq * take[l],
                           locked |-> r.at[l].locked + (-1) * take[l]]
      BY <1>2 DEF Taken, Row
    <3>2. Covered(r.at[l]) /\ r.at[l] \in Cell
      BY <1>5 DEF RowCovered, Row
    <3>3. take[l] \in Nat /\ take[l] <= AtLeastZero(r.at[l].locked)
      BY <1>3 DEF HeldAt
    <3> QED
      BY <3>1, <3>2, <3>3 DEF Covered, Cell, AtLeastZero
  <2> QED
    BY <2>1, <2>2 DEF RowCovered
<1> QED
  BY <1>1, <1>4, <1>5

\* releaseOrderItemsStock keeps a row covered.
LEMMA ReleaseKeepsCovered ==
  ASSUME NEW r \in Row, NEW q \in Nat, NEW out \in ReleaseOutcomes(r, q)
  PROVE  /\ out.row \in Row /\ out.location \in Location
         /\ RowCovered(r) => RowCovered(out.row)
<1>1. r.locked >= q /\ out \in Passes(r, HeldAt(r), q, 0, -1)
  BY DEF ReleaseOutcomes
<1> QED
  BY <1>1, HoldPassKeepsCovered

\* deductOrderItemsStock keeps a row covered.
LEMMA DeductKeepsCovered ==
  ASSUME NEW r \in Row, NEW q \in Nat, NEW out \in DeductOutcomes(r, q)
  PROVE  /\ out.row \in Row /\ out.location \in Location
         /\ RowCovered(r) => RowCovered(out.row)
<1>1. r.locked >= q /\ out \in Passes(r, HeldAt(r), q, -1, -1)
  BY DEF DeductOutcomes
<1> QED
  BY <1>1, HoldPassKeepsCovered

-----------------------------------------------------------------------------
\* The inventory row of Moved, before the location row follows.
LEMMA RowRaised ==
  ASSUME NEW r \in Row, NEW h \in Location \union {NoLocation}, NEW delta \in Int
  PROVE  LET b == [r EXCEPT !.exists = TRUE, !.home = h, !.quantity = @ + delta]
         IN  /\ b \in Row /\ b.at = r.at /\ b.rows = r.rows /\ b.locked = r.locked
             /\ b.quantity = r.quantity + delta
<1> DEFINE n == r.quantity + delta
           b == [r EXCEPT !.exists = TRUE, !.home = h, !.quantity = n]
<1>1. n \in Int
  BY DEF Row
<1>2. [r EXCEPT !.exists = TRUE, !.home = h, !.quantity = @ + delta] = b
  OBVIOUS
<1> HIDE DEF n
<1>3. /\ b \in Row /\ b.at = r.at /\ b.rows = r.rows /\ b.locked = r.locked
      /\ b.quantity = n
  BY <1>1 DEF Row
<1> QED
  BY <1>2, <1>3 DEF n

\* A manual operation moves total and location together, to a row again.
LEMMA MovedType ==
  ASSUME NEW r \in Row, NEW l \in Location \union {NoLocation}, NEW delta \in Int
  PROVE  Moved(r, l, delta) \in Row
<1> DEFINE home == IF r.exists THEN r.home ELSE l
           base == [r EXCEPT !.exists = TRUE, !.home = home, !.quantity = @ + delta]
<1>0. home \in Location \union {NoLocation}
  BY DEF Row
<1>1. /\ base \in Row /\ base.at = r.at /\ base.rows = r.rows /\ base.locked = r.locked
      /\ base.quantity = r.quantity + delta
  <2> HIDE DEF home
  <2> QED
    BY <1>0, RowRaised
<1>2. Moved(r, l, delta) = CellChanged(base, l, delta)
  BY DEF Moved
<1>3. CASE l = NoLocation \/ delta = 0
  BY <1>1, <1>2, <1>3 DEF CellChanged
<1>4. CASE l # NoLocation /\ delta # 0
  <2> DEFINE cell == [r.at[l] EXCEPT !.quantity = @ + delta]
             at2 == [r.at EXCEPT ![l] = cell]
  <2>1. l \in Location /\ cell \in Cell
    BY <1>4 DEF Row, Cell
  <2>2. at2 \in [Location -> Cell] /\ base.rows \union {l} \in SUBSET Location
    BY <1>1, <2>1 DEF Row
  <2>3. CellChanged(base, l, delta) =
          [base EXCEPT !.rows = base.rows \union {l}, !.at = at2]
    BY <1>1, <1>4 DEF CellChanged
  <2> HIDE DEF base, at2
  <2>4. [base EXCEPT !.rows = base.rows \union {l}, !.at = at2] \in Row
    BY <1>1, <2>2 DEF Row
  <2> QED
    BY <1>2, <2>3, <2>4
<1> QED
  BY <1>3, <1>4

\* It keeps the holds covered when changeLocationStock accepts it and the total
\* stays above the hold: both checks are needed, and both are made.
LEMMA MovedKeepsCovered ==
  ASSUME NEW r \in Row, NEW l \in Location \union {NoLocation}, NEW delta \in Int,
         RowCovered(r), CellAccepts(r, l, delta), r.quantity + delta >= r.locked
  PROVE  RowCovered(Moved(r, l, delta))
<1> DEFINE home == IF r.exists THEN r.home ELSE l
           base == [r EXCEPT !.exists = TRUE, !.home = home, !.quantity = @ + delta]
<1>0. home \in Location \union {NoLocation}
  BY DEF Row
<1>1. /\ base \in Row /\ base.at = r.at /\ base.rows = r.rows /\ base.locked = r.locked
      /\ base.quantity = r.quantity + delta
  <2> HIDE DEF home
  <2> QED
    BY <1>0, RowRaised
<1>2. Moved(r, l, delta) = CellChanged(base, l, delta)
  BY DEF Moved
<1>3. Covered(base)
  BY <1>1 DEF RowCovered, Covered, Row
<1>4. CASE l = NoLocation \/ delta = 0
  BY <1>1, <1>2, <1>3, <1>4 DEF CellChanged, RowCovered
<1>5. CASE l # NoLocation /\ delta # 0
  <2> DEFINE cell == [r.at[l] EXCEPT !.quantity = @ + delta]
             at2 == [r.at EXCEPT ![l] = cell]
  <2>1. l \in Location /\ r.at[l] \in Cell /\ Covered(r.at[l])
    BY <1>5 DEF Row, RowCovered
  <2>2. Covered(cell)
    BY <2>1, <1>5 DEF CellAccepts, Covered, Cell
  <2>3. CellChanged(base, l, delta) =
          [base EXCEPT !.rows = base.rows \union {l}, !.at = at2]
    BY <1>1, <1>5 DEF CellChanged
  <2>4. \A k \in Location : at2[k] = IF k = l THEN cell ELSE r.at[k]
    BY <2>1 DEF Row
  <2>5. \A k \in Location : Covered(at2[k])
    BY <2>2, <2>4 DEF RowCovered
  <2> HIDE DEF base, at2
  <2>6. LET new == [base EXCEPT !.rows = base.rows \union {l}, !.at = at2]
        IN  new.at = at2 /\ new.quantity = base.quantity /\ new.locked = base.locked
    BY <1>1 DEF Row
  <2> QED
    BY <1>2, <1>3, <2>3, <2>5, <2>6 DEF RowCovered, Covered
<1> QED
  BY <1>4, <1>5

-----------------------------------------------------------------------------
(* Totals and location rows *)

\* What the location rows of r add up to.
QuantityAt(r) == SumFunction([l \in Location |-> r.at[l].quantity])
LockedAt(r) == SumFunction([l \in Location |-> r.at[l].locked])

\* What a row has at its locations adds up to integers.
LEMMA RowSumsInt ==
  ASSUME NEW r \in Row
  PROVE  QuantityAt(r) \in Int /\ LockedAt(r) \in Int
<1>1. /\ [l \in Location |-> r.at[l].quantity] \in [Location -> Int]
      /\ [l \in Location |-> r.at[l].locked] \in [Location -> Int]
  BY DEF Row, Cell
<1> QED
  BY <1>1, LocationAssumption, SumInt DEF QuantityAt, LockedAt

\* A greedy pass moves the totals and the location rows by the same amounts.
LEMMA PassesTotals ==
  ASSUME NEW r \in Row, NEW cap \in [Location -> Int], NEW q \in Nat,
         NEW sq \in {-1, 0, 1}, NEW sl \in {-1, 0, 1},
         NEW out \in Passes(r, cap, q, sq, sl)
  PROVE  /\ out.row.exists = r.exists /\ out.row.home = r.home
         /\ out.row.quantity = r.quantity + sq * q
         /\ out.row.locked = r.locked + sl * q
         /\ QuantityAt(out.row) = QuantityAt(r) + sq * q
         /\ LockedAt(out.row) = LockedAt(r) + sl * q
<1>1. PICK take \in Splits(cap, q) : out.row = Taken(r, take, q, sq, sl)
  BY PassesShape
<1>2. take \in [Location -> Nat] /\ SumFunction(take) = q
  BY SplitsBounds DEF Splits
<1>3. /\ out.row.exists = r.exists /\ out.row.home = r.home
      /\ out.row.quantity = r.quantity + sq * q
      /\ out.row.locked = r.locked + sl * q
      /\ \A l \in Location :
           /\ out.row.at[l].quantity = r.at[l].quantity + sq * take[l]
           /\ out.row.at[l].locked = r.at[l].locked + sl * take[l]
  BY <1>1 DEF Taken, Row
<1>4. take \in [Location -> Int] /\ IsFiniteSet(Location)
  BY <1>2, LocationAssumption
<1>5. out.row \in Row
  BY <1>1, <1>2, TakenType
<1>6. QuantityAt(out.row) = QuantityAt(r) + sq * q
  <2> DEFINE f == [l \in Location |-> r.at[l].quantity]
             h == [l \in Location |-> out.row.at[l].quantity]
  <2>1. f \in [Location -> Int] /\ h \in [Location -> Int]
    BY <1>5 DEF Row, Cell
  <2>2. \A l \in Location : h[l] = f[l] + sq * take[l]
    BY <1>3
  <2> HIDE DEF f, h
  <2>3. SumFunction(h) = SumFunction(f) + sq * SumFunction(take)
    BY <1>4, <2>1, <2>2, SumPlus
  <2> QED
    BY <1>2, <2>3 DEF QuantityAt, f, h
<1>7. LockedAt(out.row) = LockedAt(r) + sl * q
  <2> DEFINE f == [l \in Location |-> r.at[l].locked]
             h == [l \in Location |-> out.row.at[l].locked]
  <2>1. f \in [Location -> Int] /\ h \in [Location -> Int]
    BY <1>5 DEF Row, Cell
  <2>2. \A l \in Location : h[l] = f[l] + sl * take[l]
    BY <1>3
  <2> HIDE DEF f, h
  <2>3. SumFunction(h) = SumFunction(f) + sl * SumFunction(take)
    BY <1>4, <2>1, <2>2, SumPlus
  <2> QED
    BY <1>2, <2>3 DEF LockedAt, f, h
<1> QED
  BY <1>3, <1>6, <1>7

\* A manual operation moves the total, and the location row if it names one.
LEMMA MovedTotals ==
  ASSUME NEW r \in Row, NEW l \in Location \union {NoLocation}, NEW delta \in Int
  PROVE  LET m == Moved(r, l, delta)
         IN  /\ m.exists /\ m.home = IF r.exists THEN r.home ELSE l
             /\ m.quantity = r.quantity + delta /\ m.locked = r.locked
             /\ QuantityAt(m) = QuantityAt(r) + (IF l = NoLocation THEN 0 ELSE delta)
             /\ LockedAt(m) = LockedAt(r)
<1> DEFINE home == IF r.exists THEN r.home ELSE l
           base == [r EXCEPT !.exists = TRUE, !.home = home, !.quantity = @ + delta]
           m == Moved(r, l, delta)
<1>0. home \in Location \union {NoLocation}
  BY DEF Row
<1>1. /\ base \in Row /\ base.at = r.at /\ base.rows = r.rows /\ base.locked = r.locked
      /\ base.quantity = r.quantity + delta
  <2> HIDE DEF home
  <2> QED
    BY <1>0, RowRaised
<1>2. base.exists /\ base.home = home
  BY DEF Row
<1>3. m = CellChanged(base, l, delta)
  BY DEF Moved
<1>4. m \in Row
  BY MovedType
<1>5. /\ m.exists /\ m.home = home /\ m.quantity = r.quantity + delta
      /\ m.locked = r.locked
      /\ m.at = IF l = NoLocation \/ delta = 0 THEN r.at
                ELSE [r.at EXCEPT ![l].quantity = @ + delta]
  <2> HIDE DEF base, home, m
  <2>1. CASE l = NoLocation \/ delta = 0
    BY <1>1, <1>2, <1>3, <2>1 DEF CellChanged
  <2>2. CASE l # NoLocation /\ delta # 0
    <3>1. m = [base EXCEPT !.rows = base.rows \union {l},
                           !.at = [base.at EXCEPT ![l].quantity = @ + delta]]
      BY <1>3, <2>2 DEF CellChanged
    <3> QED
      BY <1>1, <1>2, <2>2, <3>1 DEF Row
  <2> QED
    BY <2>1, <2>2
<1> HIDE DEF base, home, m
<1>6. \A k \in Location :
        /\ m.at[k].locked = r.at[k].locked
        /\ m.at[k].quantity = r.at[k].quantity + (IF k = l THEN delta ELSE 0)
  BY <1>5, LocationAssumption DEF Row, Cell
<1>7. LockedAt(m) = LockedAt(r)
  <2>1. [k \in Location |-> m.at[k].locked] = [k \in Location |-> r.at[k].locked]
    BY <1>6
  <2> QED
    BY <2>1 DEF LockedAt
<1>8. QuantityAt(m) = QuantityAt(r) + (IF l = NoLocation THEN 0 ELSE delta)
  <2> DEFINE f == [k \in Location |-> r.at[k].quantity]
             h == [k \in Location |-> m.at[k].quantity]
  <2>1. f \in [Location -> Int] /\ h \in [Location -> Int] /\ IsFiniteSet(Location)
    BY <1>4, LocationAssumption DEF Row, Cell
  <2>2. \A k \in Location : h[k] = f[k] + (IF k = l THEN delta ELSE 0)
    BY <1>6
  <2> HIDE DEF f, h
  <2>3. CASE l \in Location
    <3>1. /\ \A k \in Location \ {l} : h[k] = f[k]
          /\ h[l] = f[l] + delta
      BY <2>1, <2>2, <2>3
    <3>2. SumFunction(h) = SumFunction(f) - f[l] + h[l]
      BY <2>1, <2>3, <3>1, SumChange
    <3>3. SumFunction(f) \in Int
      BY <2>1, SumInt
    <3> QED
      BY <2>1, <2>3, <3>1, <3>2, <3>3, LocationAssumption DEF QuantityAt, f, h
  <2>4. CASE l = NoLocation
    <3>1. h = f
      BY <2>1, <2>2, <2>4, LocationAssumption
    <3>2. SumFunction(f) \in Int
      BY <2>1, SumInt
    <3> QED
      BY <2>4, <3>1, <3>2 DEF QuantityAt, f, h
  <2> QED
    BY <2>3, <2>4
<1> QED
  BY <1>5, <1>7, <1>8 DEF m, home
=============================================================================
