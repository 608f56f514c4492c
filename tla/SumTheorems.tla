----------------------------- MODULE SumTheorems -----------------------------
(***************************************************************************)
(* Facts about SumFunctionOnSet(f, S), the sum of f[x] over the elements   *)
(* of a finite set S, which the ledger, the mail queues and the rate       *)
(* limits count with.  The definition is a recursive function on the       *)
(* subsets of S; every fact about it is proved by induction on finite      *)
(* sets, stated for sets of subsets: the set of those a fact holds of has  *)
(* the empty set in it and grows by any element.                           *)
(***************************************************************************)
EXTENDS Functions, FiniteSetTheorems, TLAPS

-----------------------------------------------------------------------------
(* Induction.                                                              *)

LEMMA SmallestSet ==
  ASSUME NEW S, IsFiniteSet(S), NEW Bad, Bad \subseteq SUBSET S, Bad # {}
  PROVE  \E T \in Bad : \A U \in Bad : U \subseteq T => U = T
<1>1. Bad \subseteq FiniteSubsetsOf(S)
  BY FS_Subset DEF FiniteSubsetsOf
<1>2. IsWellFoundedOn(StrictSubsetOrdering(S), FiniteSubsetsOf(S))
  BY FS_StrictSubsetOrderingWellFounded
<1>3. PICK T \in Bad : \A U \in Bad : ~(<<U, T>> \in StrictSubsetOrdering(S))
  BY <1>1, <1>2, WFMin
<1>4. ASSUME NEW U \in Bad, U \subseteq T
      PROVE  U = T
  BY <1>3, <1>4 DEF StrictSubsetOrdering
<1> QED
  BY <1>3, <1>4

LEMMA SetInduction ==
  ASSUME NEW S, IsFiniteSet(S), NEW Good, {} \in Good,
         \A T \in SUBSET S, x \in S : T \in Good /\ x \notin T => T \cup {x} \in Good
  PROVE  S \in Good
<1> DEFINE Bad == {T \in SUBSET S : T \notin Good}
<1> SUFFICES ASSUME S \notin Good PROVE FALSE
  OBVIOUS
<1>1. PICK T \in Bad : \A U \in Bad : U \subseteq T => U = T
  <2>1. S \in Bad /\ Bad \subseteq SUBSET S
    OBVIOUS
  <2> HIDE DEF Bad
  <2> QED
    BY <2>1, SmallestSet
<1>2. PICK x \in T : TRUE
  OBVIOUS
<1>3. T \ {x} \in Good
  <2>1. T \ {x} \subseteq T /\ T \ {x} # T /\ T \ {x} \in SUBSET S
    OBVIOUS
  <2> QED
    BY <1>1, <2>1
<1>4. T = (T \ {x}) \cup {x} /\ x \in S /\ x \notin T \ {x} /\ T \ {x} \in SUBSET S
  OBVIOUS
<1> QED
  BY <1>1, <1>3, <1>4

-----------------------------------------------------------------------------
(* The recursive function of the fold, which exists and is unique.         *)

\* The element the fold takes first.
FirstOf(S) == CHOOSE x \in S : TRUE
RestOf(S) == S \ {FirstOf(S)}

IsSum(sum, f, S) ==
  sum = [T \in SUBSET S |-> IF T = {} THEN 0 ELSE f[FirstOf(T)] + sum[RestOf(T)]]

LEMMA FirstIsIn ==
  ASSUME NEW S, S # {}
  PROVE  FirstOf(S) \in S /\ RestOf(S) \subseteq S /\ RestOf(S) # S
  BY DEF FirstOf, RestOf

LEMMA SumIsChosen ==
  ASSUME NEW f, NEW S
  PROVE  SumFunctionOnSet(f, S) = (CHOOSE sum : IsSum(sum, f, S))[S]
  BY DEF SumFunctionOnSet, FoldFunctionOnSet, MapThenFoldSet, IsSum, FirstOf, RestOf

LEMMA SumsAgree ==
  ASSUME NEW f, NEW S, IsFiniteSet(S), NEW T \in SUBSET S,
         NEW g, IsSum(g, f, S), NEW h, IsSum(h, f, T)
  PROVE  \A U \in SUBSET T : g[U] = h[U]
<1> DEFINE Bad == {U \in SUBSET T : g[U] # h[U]}
<1> SUFFICES ASSUME Bad # {} PROVE FALSE
  OBVIOUS
<1>1. PICK U \in Bad : \A V \in Bad : V \subseteq U => V = U
  <2>1. Bad \subseteq SUBSET T /\ IsFiniteSet(T)
    BY FS_Subset
  <2> HIDE DEF Bad
  <2> QED
    BY <2>1, SmallestSet
<1>2. U \in SUBSET T /\ U \in SUBSET S /\ g[U] # h[U]
  OBVIOUS
<1>3. U # {}
  BY <1>2 DEF IsSum
<1>4. RestOf(U) \in SUBSET T /\ g[RestOf(U)] = h[RestOf(U)]
  BY <1>1, <1>2, <1>3, FirstIsIn
<1>5. g[U] = f[FirstOf(U)] + g[RestOf(U)] /\ h[U] = f[FirstOf(U)] + h[RestOf(U)]
  BY <1>2, <1>3 DEF IsSum
<1> QED
  BY <1>2, <1>4, <1>5

LEMMA SumsExist ==
  ASSUME NEW f, NEW S, IsFiniteSet(S)
  PROVE  \E sum : IsSum(sum, f, S)
<1> DEFINE Bad == {T \in SUBSET S : ~\E sum : IsSum(sum, f, T)}
<1> SUFFICES ASSUME Bad # {} PROVE FALSE
  OBVIOUS
<1>1. PICK T \in Bad : \A U \in Bad : U \subseteq T => U = T
  <2>1. Bad \subseteq SUBSET S
    OBVIOUS
  <2> HIDE DEF Bad
  <2> QED
    BY <2>1, SmallestSet
<1>2. T \in SUBSET S /\ IsFiniteSet(T)
  BY FS_Subset
<1>3. \A U \in SUBSET T : U # T => \E sum : IsSum(sum, f, U)
  BY <1>1
<1> DEFINE G(U) == CHOOSE sum : IsSum(sum, f, U)
           g == [U \in SUBSET T |-> IF U = {} THEN 0 ELSE f[FirstOf(U)] + G(RestOf(U))[RestOf(U)]]
<1>4. \A U \in SUBSET T : U # T => IsSum(G(U), f, U)
  BY <1>3
<1>5. ASSUME NEW U \in SUBSET T, U # {}
      PROVE  g[RestOf(U)] = G(RestOf(U))[RestOf(U)]
  <2>1. RestOf(U) \in SUBSET T /\ RestOf(U) # T /\ IsFiniteSet(RestOf(U))
    BY <1>2, <1>5, FirstIsIn, FS_Subset
  <2>2. IsSum(G(RestOf(U)), f, RestOf(U))
    BY <1>4, <2>1
  <2>3. CASE RestOf(U) = {}
    BY <2>1, <2>2, <2>3 DEF IsSum
  <2>4. CASE RestOf(U) # {}
    <3> DEFINE V == RestOf(U)
    <3>1. V \in SUBSET T /\ V # {} /\ IsFiniteSet(V) /\ IsSum(G(V), f, V)
      BY <2>1, <2>2, <2>4
    <3> HIDE DEF V, G
    <3>2. RestOf(V) \in SUBSET V /\ RestOf(V) \in SUBSET T /\ RestOf(V) # T
      BY <3>1, FirstIsIn
    <3>3. IsSum(G(RestOf(V)), f, RestOf(V))
      BY <1>4, <3>2
    <3>4. G(V)[RestOf(V)] = G(RestOf(V))[RestOf(V)]
      BY <3>1, <3>2, <3>3, SumsAgree
    <3>5. G(V)[V] = f[FirstOf(V)] + G(V)[RestOf(V)]
      BY <3>1 DEF IsSum
    <3>6. g[V] = f[FirstOf(V)] + G(RestOf(V))[RestOf(V)]
      BY <3>1
    <3>7. g[V] = G(V)[V]
      BY <3>4, <3>5, <3>6
    <3> QED
      BY <3>7 DEF V
  <2> QED
    BY <2>3, <2>4
<1>6. g = [U \in SUBSET T |-> IF U = {} THEN 0 ELSE f[FirstOf(U)] + g[RestOf(U)]]
  <2> HIDE DEF G
  <2>1. ASSUME NEW U \in SUBSET T
        PROVE  g[U] = IF U = {} THEN 0 ELSE f[FirstOf(U)] + g[RestOf(U)]
    <3>1. g[U] = IF U = {} THEN 0 ELSE f[FirstOf(U)] + G(RestOf(U))[RestOf(U)]
      OBVIOUS
    <3> HIDE DEF g
    <3> QED
      BY <1>5, <3>1
  <2>2. g = [U \in SUBSET T |-> g[U]]
    OBVIOUS
  <2> HIDE DEF g
  <2> QED
    BY <2>1, <2>2
<1>7. IsSum(g, f, T)
  BY <1>6 DEF IsSum
<1> QED
  BY <1>1, <1>7

-----------------------------------------------------------------------------
(* What sums are.                                                          *)

LEMMA SumOfAny ==
  ASSUME NEW f, NEW S, IsFiniteSet(S), NEW T \in SUBSET S, NEW sum, IsSum(sum, f, S)
  PROVE  sum[T] = SumFunctionOnSet(f, T)
<1>1. IsFiniteSet(T)
  BY FS_Subset
<1>2. IsSum(CHOOSE h : IsSum(h, f, T), f, T)
  BY <1>1, SumsExist
<1>3. sum[T] = (CHOOSE h : IsSum(h, f, T))[T]
  BY <1>2, SumsAgree
<1> QED
  BY <1>3, SumIsChosen

\* A sum, one element at a time, in the order of the fold.
LEMMA SumByFirst ==
  ASSUME NEW f, NEW S, IsFiniteSet(S)
  PROVE  /\ SumFunctionOnSet(f, {}) = 0
         /\ S # {} => SumFunctionOnSet(f, S) = f[FirstOf(S)] + SumFunctionOnSet(f, RestOf(S))
<1>1. PICK sum : IsSum(sum, f, S)
  BY SumsExist
<1>2. sum[{}] = 0 /\ (S # {} => sum[S] = f[FirstOf(S)] + sum[RestOf(S)])
  BY <1>1 DEF IsSum
<1>3. S # {} => RestOf(S) \in SUBSET S
  BY FirstIsIn
<1> QED
  BY <1>1, <1>2, <1>3, SumOfAny

LEMMA SumEmpty ==
  ASSUME NEW f
  PROVE  SumFunctionOnSet(f, {}) = 0
  BY SumByFirst, FS_EmptySet

\* A sum grows by an element, whichever the fold takes first.
LEMMA SumGrows ==
  ASSUME NEW f, NEW S, IsFiniteSet(S), \A x \in S : f[x] \in Int
  PROVE  /\ SumFunctionOnSet(f, S) \in Int
         /\ \A y \in S : SumFunctionOnSet(f, S) = f[y] + SumFunctionOnSet(f, S \ {y})
<1> DEFINE Sum(T) == SumFunctionOnSet(f, T)
           Fact(T) == Sum(T) \in Int /\ \A y \in T : Sum(T) = f[y] + Sum(T \ {y})
           Bad == {T \in SUBSET S : ~Fact(T)}
<1> SUFFICES ASSUME Bad # {} PROVE FALSE
  OBVIOUS
<1>1. PICK T \in Bad : \A U \in Bad : U \subseteq T => U = T
  <2>1. Bad \subseteq SUBSET S
    OBVIOUS
  <2> HIDE DEF Bad
  <2> QED
    BY <2>1, SmallestSet
<1>2. T \in SUBSET S /\ IsFiniteSet(T) /\ ~Fact(T)
  BY FS_Subset
<1>3. \A U \in SUBSET T : U # T => Fact(U)
  BY <1>1
<1>4. T # {}
  <2>1. Sum({}) \in Int
    BY SumEmpty
  <2>2. Fact({})
    BY <2>1
  <2> QED
    BY <1>2, <2>2
<1> DEFINE x == FirstOf(T)
<1>5. /\ x \in T /\ T \ {x} \in SUBSET T /\ T \ {x} # T
      /\ Sum(T) = f[x] + Sum(T \ {x})
  BY <1>2, <1>4, FirstIsIn, SumByFirst DEF RestOf
<1> HIDE DEF x, Sum
<1>6. Sum(T \ {x}) \in Int /\ f[x] \in Int
  BY <1>2, <1>3, <1>5
<1>7. ASSUME NEW y \in T, y # x
      PROVE  Sum(T) = f[y] + Sum(T \ {y})
  <2>1. Sum(T \ {x}) = f[y] + Sum((T \ {x}) \ {y})
    BY <1>3, <1>5, <1>7
  <2>2. T \ {y} \in SUBSET T /\ T \ {y} # T /\ x \in T \ {y}
    BY <1>5, <1>7
  <2>3. Sum(T \ {y}) = f[x] + Sum((T \ {y}) \ {x})
    BY <1>3, <2>2
  <2>4. (T \ {x}) \ {y} = (T \ {y}) \ {x} /\ (T \ {x}) \ {y} \in SUBSET T /\ (T \ {x}) \ {y} # T
    BY <1>5
  <2>5. Sum((T \ {x}) \ {y}) \in Int /\ f[y] \in Int
    BY <1>2, <1>3, <2>4
  <2>6. Sum(T \ {y}) = f[x] + Sum((T \ {x}) \ {y})
    BY <2>3, <2>4
  <2> QED
    BY <1>5, <1>6, <2>1, <2>5, <2>6
<1>8. Sum(T) \in Int
  BY <1>5, <1>6
<1> QED
  BY <1>2, <1>5, <1>7, <1>8

LEMMA SumAdds ==
  ASSUME NEW f, NEW S, IsFiniteSet(S), NEW y, y \notin S, \A x \in S \cup {y} : f[x] \in Int
  PROVE  /\ SumFunctionOnSet(f, S \cup {y}) = SumFunctionOnSet(f, S) + f[y]
         /\ SumFunctionOnSet(f, S) \in Int /\ SumFunctionOnSet(f, S \cup {y}) \in Int
<1>1. IsFiniteSet(S \cup {y}) /\ (S \cup {y}) \ {y} = S
  BY FS_AddElement
<1>2. SumFunctionOnSet(f, S) \in Int
  BY SumGrows
<1>3. /\ SumFunctionOnSet(f, S \cup {y}) = f[y] + SumFunctionOnSet(f, (S \cup {y}) \ {y})
      /\ SumFunctionOnSet(f, S \cup {y}) \in Int
  BY <1>1, SumGrows
<1>4. SumFunctionOnSet(f, (S \cup {y}) \ {y}) = SumFunctionOnSet(f, S)
  BY <1>1
<1>5. f[y] \in Int
  OBVIOUS
<1> QED
  BY <1>2, <1>3, <1>4, <1>5

\* Functions that agree have the same sum, whatever else they are defined on.
LEMMA SumEqual ==
  ASSUME NEW f, NEW g, NEW S, IsFiniteSet(S), \A x \in S : f[x] \in Int /\ g[x] = f[x]
  PROVE  SumFunctionOnSet(g, S) = SumFunctionOnSet(f, S)
<1> DEFINE Good == {T \in SUBSET S : SumFunctionOnSet(g, T) = SumFunctionOnSet(f, T)}
<1>1. {} \in Good
  BY SumEmpty
<1>2. ASSUME NEW T \in SUBSET S, NEW x \in S, T \in Good, x \notin T
      PROVE  T \cup {x} \in Good
  <2>1. IsFiniteSet(T) /\ \A y \in T \cup {x} : f[y] \in Int /\ g[y] \in Int
    BY FS_Subset
  <2>2. SumFunctionOnSet(f, T \cup {x}) = SumFunctionOnSet(f, T) + f[x]
    BY <1>2, <2>1, SumAdds
  <2>3. SumFunctionOnSet(g, T \cup {x}) = SumFunctionOnSet(g, T) + g[x]
    BY <1>2, <2>1, SumAdds
  <2> QED
    BY <1>2, <2>2, <2>3
<1> HIDE DEF Good
<1>3. S \in Good
  BY <1>1, <1>2, SetInduction
<1> QED
  BY <1>3 DEF Good

\* A function no larger anywhere has a sum no larger.
LEMMA SumOrder ==
  ASSUME NEW f, NEW g, NEW S, IsFiniteSet(S),
         \A x \in S : f[x] \in Int /\ g[x] \in Int /\ f[x] <= g[x]
  PROVE  SumFunctionOnSet(f, S) <= SumFunctionOnSet(g, S)
<1> DEFINE Good == {T \in SUBSET S : SumFunctionOnSet(f, T) <= SumFunctionOnSet(g, T)}
<1>1. {} \in Good
  BY SumEmpty
<1>2. ASSUME NEW T \in SUBSET S, NEW x \in S, T \in Good, x \notin T
      PROVE  T \cup {x} \in Good
  <2>1. IsFiniteSet(T) /\ \A y \in T \cup {x} : f[y] \in Int /\ g[y] \in Int
    BY FS_Subset
  <2>2. /\ SumFunctionOnSet(f, T \cup {x}) = SumFunctionOnSet(f, T) + f[x]
        /\ SumFunctionOnSet(f, T) \in Int
    BY <1>2, <2>1, SumAdds
  <2>3. /\ SumFunctionOnSet(g, T \cup {x}) = SumFunctionOnSet(g, T) + g[x]
        /\ SumFunctionOnSet(g, T) \in Int
    BY <1>2, <2>1, SumAdds
  <2>4. f[x] \in Int /\ g[x] \in Int /\ f[x] <= g[x]
    OBVIOUS
  <2>5. SumFunctionOnSet(f, T) <= SumFunctionOnSet(g, T)
    BY <1>2
  <2>6. SumFunctionOnSet(f, T \cup {x}) <= SumFunctionOnSet(g, T \cup {x})
    BY <2>2, <2>3, <2>4, <2>5
  <2> QED
    BY <2>6
<1> HIDE DEF Good
<1>3. S \in Good
  BY <1>1, <1>2, SetInduction
<1> QED
  BY <1>3 DEF Good

\* The sum of two functions.
LEMMA SumPlus ==
  ASSUME NEW f, NEW g, NEW h, NEW S, IsFiniteSet(S),
         \A x \in S : f[x] \in Int /\ g[x] \in Int /\ h[x] = f[x] + g[x]
  PROVE  SumFunctionOnSet(h, S) = SumFunctionOnSet(f, S) + SumFunctionOnSet(g, S)
<1> DEFINE Good == {T \in SUBSET S : SumFunctionOnSet(h, T)
                                        = SumFunctionOnSet(f, T) + SumFunctionOnSet(g, T)}
<1>1. {} \in Good
  BY SumEmpty
<1>2. ASSUME NEW T \in SUBSET S, NEW x \in S, T \in Good, x \notin T
      PROVE  T \cup {x} \in Good
  <2>1. IsFiniteSet(T) /\ \A y \in T \cup {x} : f[y] \in Int /\ g[y] \in Int /\ h[y] \in Int
    BY FS_Subset
  <2>2. /\ SumFunctionOnSet(f, T \cup {x}) = SumFunctionOnSet(f, T) + f[x]
        /\ SumFunctionOnSet(f, T) \in Int
    BY <1>2, <2>1, SumAdds
  <2>3. /\ SumFunctionOnSet(g, T \cup {x}) = SumFunctionOnSet(g, T) + g[x]
        /\ SumFunctionOnSet(g, T) \in Int
    BY <1>2, <2>1, SumAdds
  <2>4. /\ SumFunctionOnSet(h, T \cup {x}) = SumFunctionOnSet(h, T) + h[x]
        /\ SumFunctionOnSet(h, T) \in Int
    BY <1>2, <2>1, SumAdds
  <2>5. f[x] \in Int /\ g[x] \in Int /\ h[x] = f[x] + g[x]
    OBVIOUS
  <2>6. SumFunctionOnSet(h, T) = SumFunctionOnSet(f, T) + SumFunctionOnSet(g, T)
    BY <1>2
  <2>7. SumFunctionOnSet(h, T \cup {x}) = SumFunctionOnSet(f, T \cup {x}) + SumFunctionOnSet(g, T \cup {x})
    BY <2>2, <2>3, <2>4, <2>5, <2>6
  <2> QED
    BY <2>7
<1> HIDE DEF Good
<1>3. S \in Good
  BY <1>1, <1>2, SetInduction
<1> QED
  BY <1>3 DEF Good

\* A function multiplied by a number.
LEMMA SumScaled ==
  ASSUME NEW f, NEW k \in Int, NEW h, NEW S, IsFiniteSet(S),
         \A x \in S : f[x] \in Int /\ h[x] = k * f[x]
  PROVE  SumFunctionOnSet(h, S) = k * SumFunctionOnSet(f, S)
<1> DEFINE Good == {T \in SUBSET S : SumFunctionOnSet(h, T) = k * SumFunctionOnSet(f, T)}
<1>1. {} \in Good
  BY SumEmpty
<1>2. ASSUME NEW T \in SUBSET S, NEW x \in S, T \in Good, x \notin T
      PROVE  T \cup {x} \in Good
  <2>1. IsFiniteSet(T) /\ \A y \in T \cup {x} : f[y] \in Int /\ h[y] \in Int
    BY FS_Subset
  <2>2. /\ SumFunctionOnSet(f, T \cup {x}) = SumFunctionOnSet(f, T) + f[x]
        /\ SumFunctionOnSet(f, T) \in Int
    BY <1>2, <2>1, SumAdds
  <2>3. /\ SumFunctionOnSet(h, T \cup {x}) = SumFunctionOnSet(h, T) + h[x]
    BY <1>2, <2>1, SumAdds
  <2>4. f[x] \in Int /\ h[x] = k * f[x] /\ SumFunctionOnSet(h, T) = k * SumFunctionOnSet(f, T)
    BY <1>2
  <2>5. \A a, b \in Int : k * (a + b) = k * a + k * b
    OBVIOUS
  <2>6. SumFunctionOnSet(h, T \cup {x}) = k * SumFunctionOnSet(f, T \cup {x})
    BY <2>2, <2>3, <2>4, <2>5
  <2> QED
    BY <2>6
<1> HIDE DEF Good
<1>3. S \in Good
  BY <1>1, <1>2, SetInduction
<1> QED
  BY <1>3 DEF Good

\* A function that changes at one place.
LEMMA SumChanges ==
  ASSUME NEW f, NEW g, NEW S, IsFiniteSet(S), NEW y \in S,
         \A x \in S : f[x] \in Int /\ g[x] \in Int /\ (x # y => g[x] = f[x])
  PROVE  /\ SumFunctionOnSet(g, S) = SumFunctionOnSet(f, S) + g[y] - f[y]
         /\ SumFunctionOnSet(f, S) \in Int
<1>1. SumFunctionOnSet(f, S) = f[y] + SumFunctionOnSet(f, S \ {y})
  BY SumGrows
<1>2. SumFunctionOnSet(g, S) = g[y] + SumFunctionOnSet(g, S \ {y})
  BY SumGrows
<1>3. IsFiniteSet(S \ {y}) /\ SumFunctionOnSet(f, S) \in Int
  BY FS_Subset, SumGrows
<1>4. SumFunctionOnSet(g, S \ {y}) = SumFunctionOnSet(f, S \ {y}) /\ SumFunctionOnSet(f, S \ {y}) \in Int
  BY <1>3, SumEqual, SumGrows
<1>5. f[y] \in Int /\ g[y] \in Int
  OBVIOUS
<1> QED
  BY <1>1, <1>2, <1>3, <1>4, <1>5

\* A sum over two sets that have nothing in common.
LEMMA SumSplits ==
  ASSUME NEW f, NEW S, IsFiniteSet(S), NEW R, IsFiniteSet(R), R \cap S = {},
         \A x \in R \cup S : f[x] \in Int
  PROVE  SumFunctionOnSet(f, R \cup S) = SumFunctionOnSet(f, R) + SumFunctionOnSet(f, S)
<1> DEFINE Good == {T \in SUBSET S : SumFunctionOnSet(f, R \cup T)
                                        = SumFunctionOnSet(f, R) + SumFunctionOnSet(f, T)}
<1>0. SumFunctionOnSet(f, R) \in Int
  BY SumGrows
<1>1. {} \in Good
  BY <1>0, SumEmpty
<1>2. ASSUME NEW T \in SUBSET S, NEW x \in S, T \in Good, x \notin T
      PROVE  T \cup {x} \in Good
  <2>1. IsFiniteSet(T) /\ IsFiniteSet(R \cup T)
    BY FS_Subset, FS_Union
  <2>2. /\ SumFunctionOnSet(f, T \cup {x}) = SumFunctionOnSet(f, T) + f[x]
        /\ SumFunctionOnSet(f, T) \in Int
    BY <1>2, <2>1, SumAdds
  <2>3. x \notin R \cup T /\ R \cup (T \cup {x}) = (R \cup T) \cup {x}
    BY <1>2
  <2>4. SumFunctionOnSet(f, (R \cup T) \cup {x}) = SumFunctionOnSet(f, R \cup T) + f[x]
    BY <2>1, <2>3, SumAdds
  <2>5. SumFunctionOnSet(f, R \cup (T \cup {x})) = SumFunctionOnSet(f, R \cup T) + f[x]
    BY <2>3, <2>4
  <2>6. f[x] \in Int /\ SumFunctionOnSet(f, R \cup T) = SumFunctionOnSet(f, R) + SumFunctionOnSet(f, T)
    BY <1>2
  <2>7. SumFunctionOnSet(f, R \cup (T \cup {x})) = SumFunctionOnSet(f, R) + SumFunctionOnSet(f, T \cup {x})
    BY <1>0, <2>2, <2>5, <2>6
  <2> QED
    BY <2>7
<1> HIDE DEF Good
<1>3. S \in Good
  BY <1>1, <1>2, SetInduction
<1> QED
  BY <1>3 DEF Good

\* Summed up, ones are the number of elements, and zeros nothing.
LEMMA SumCounts ==
  ASSUME NEW f, NEW S, IsFiniteSet(S), NEW C, C \subseteq S,
         \A x \in S : f[x] = IF x \in C THEN 1 ELSE 0
  PROVE  SumFunctionOnSet(f, S) = Cardinality(C)
<1> DEFINE Good == {T \in SUBSET S : SumFunctionOnSet(f, T) = Cardinality(C \cap T)}
<1>1. {} \in Good
  <2>1. C \cap {} = {}
    OBVIOUS
  <2> QED
    BY <2>1, SumEmpty, FS_EmptySet
<1>2. ASSUME NEW T \in SUBSET S, NEW x \in S, T \in Good, x \notin T
      PROVE  T \cup {x} \in Good
  <2>1. /\ IsFiniteSet(T) /\ IsFiniteSet(C \cap T) /\ Cardinality(C \cap T) \in Nat
        /\ \A y \in T \cup {x} : f[y] \in Int
    BY FS_Subset, FS_CardinalityType
  <2>2. SumFunctionOnSet(f, T \cup {x}) = SumFunctionOnSet(f, T) + f[x]
    BY <1>2, <2>1, SumAdds
  <2>3. CASE x \in C
    <3>1. C \cap (T \cup {x}) = (C \cap T) \cup {x} /\ x \notin C \cap T
      BY <1>2, <2>3
    <3>2. Cardinality((C \cap T) \cup {x}) = Cardinality(C \cap T) + 1
      BY <2>1, <3>1, FS_AddElement
    <3>3. Cardinality(C \cap (T \cup {x})) = Cardinality(C \cap T) + 1
      BY <3>1, <3>2
    <3> QED
      BY <1>2, <2>2, <2>3, <3>3
  <2>4. CASE x \notin C
    <3>1. C \cap (T \cup {x}) = C \cap T
      BY <2>4
    <3>2. SumFunctionOnSet(f, T \cup {x}) = Cardinality(C \cap T)
      BY <1>2, <2>1, <2>2, <2>4
    <3> QED
      BY <3>1, <3>2
  <2> QED
    BY <2>3, <2>4
<1> HIDE DEF Good
<1>3. S \in Good
  BY <1>1, <1>2, SetInduction
<1>4. C \cap S = C
  OBVIOUS
<1> QED
  BY <1>3, <1>4 DEF Good

\* A sum may be taken by groups first: group[k] is that of key k.
LEMMA SumByKeys ==
  ASSUME NEW f, NEW S, IsFiniteSet(S), \A x \in S : f[x] \in Int,
         NEW K, IsFiniteSet(K), NEW key, \A x \in S : key[x] \in K,
         NEW group, \A k \in K : \A x : x \in group[k] <=> x \in S /\ key[x] = k,
         NEW total, \A k \in K : total[k] = SumFunctionOnSet(f, group[k])
  PROVE  SumFunctionOnSet(total, K) = SumFunctionOnSet(f, S)
<1> DEFINE In(T, k) == {x \in T : key[x] = k}
           By(T) == [k \in K |-> SumFunctionOnSet(f, In(T, k))]
           Good == {T \in SUBSET S : SumFunctionOnSet(By(T), K) = SumFunctionOnSet(f, T)}
<1>0. ASSUME NEW T \in SUBSET S
      PROVE  /\ IsFiniteSet(T) /\ SumFunctionOnSet(f, T) \in Int
             /\ \A k \in K : IsFiniteSet(In(T, k)) /\ By(T)[k] \in Int
  <2>1. IsFiniteSet(T)
    BY FS_Subset
  <2>2. ASSUME NEW k \in K
        PROVE  IsFiniteSet(In(T, k)) /\ By(T)[k] \in Int
    <3>1. IsFiniteSet(In(T, k)) /\ \A x \in In(T, k) : f[x] \in Int
      BY <2>1, FS_Subset
    <3> HIDE DEF In
    <3>2. By(T)[k] = SumFunctionOnSet(f, In(T, k))
      OBVIOUS
    <3> QED
      BY <3>1, <3>2, SumGrows
  <2> QED
    BY <2>1, <2>2, SumGrows
<1>1. {} \in Good
  <2>1. \A k \in K : By({})[k] = 0
    <3>1. \A k \in K : In({}, k) = {}
      OBVIOUS
    <3> HIDE DEF In
    <3> QED
      BY <3>1, SumEmpty
  <2>2. SumFunctionOnSet(By({}), K) = Cardinality({})
    <3> HIDE DEF By
    <3> QED
      BY <2>1, SumCounts
  <2> QED
    BY <2>2, SumEmpty, FS_EmptySet
<1>2. ASSUME NEW T \in SUBSET S, NEW x \in S, T \in Good, x \notin T
      PROVE  T \cup {x} \in Good
  <2> DEFINE U == T \cup {x}
  <2>1. U \in SUBSET S /\ key[x] \in K /\ f[x] \in Int
    OBVIOUS
  <2>2. SumFunctionOnSet(f, U) = SumFunctionOnSet(f, T) + f[x]
    BY <1>0, <1>2, SumAdds
  <2>3. \A k \in K : k # key[x] => In(U, k) = In(T, k)
    OBVIOUS
  <2>4. In(U, key[x]) = In(T, key[x]) \cup {x} /\ x \notin In(T, key[x])
    BY <1>2
  <2>5. SumFunctionOnSet(f, In(T, key[x]) \cup {x}) = SumFunctionOnSet(f, In(T, key[x])) + f[x]
    <3>1. IsFiniteSet(In(T, key[x])) /\ \A y \in In(T, key[x]) \cup {x} : f[y] \in Int
      BY <1>0, <2>1
    <3> HIDE DEF In, U
    <3> QED
      BY <2>4, <3>1, SumAdds
  <2>6. /\ By(U)[key[x]] = By(T)[key[x]] + f[x]
        /\ \A k \in K : k # key[x] => By(U)[k] = By(T)[k]
    <3> HIDE DEF In, U
    <3> QED
      BY <2>1, <2>3, <2>4, <2>5
  <2>7. \A k \in K : By(T)[k] \in Int /\ By(U)[k] \in Int
    BY <1>0, <2>1
  <2> HIDE DEF By, U
  <2>8. /\ SumFunctionOnSet(By(U), K) = SumFunctionOnSet(By(T), K) + By(U)[key[x]] - By(T)[key[x]]
        /\ SumFunctionOnSet(By(T), K) \in Int
    BY <2>1, <2>6, <2>7, SumChanges
  <2>9. SumFunctionOnSet(By(U), K) = SumFunctionOnSet(By(T), K) + f[x]
    BY <2>1, <2>6, <2>7, <2>8
  <2>10. SumFunctionOnSet(By(T), K) = SumFunctionOnSet(f, T)
    BY <1>2
  <2>11. U \in Good
    BY <2>1, <2>2, <2>9, <2>10
  <2> QED
    BY <2>11 DEF U
<1>3. S \in Good
  <2> HIDE DEF Good
  <2> QED
    BY <1>1, <1>2, SetInduction
<1>4. \A k \in K : By(S)[k] \in Int /\ total[k] = By(S)[k]
  <2> SUFFICES ASSUME NEW k \in K PROVE By(S)[k] \in Int /\ total[k] = By(S)[k]
    OBVIOUS
  <2>1. group[k] = In(S, k)
    OBVIOUS
  <2> HIDE DEF In
  <2> QED
    BY <1>0, <2>1
<1>5. SumFunctionOnSet(total, K) = SumFunctionOnSet(By(S), K)
  <2> HIDE DEF By
  <2> QED
    BY <1>4, SumEqual
<1> QED
  BY <1>3, <1>5

\* group[k], for k in K, are the parts S falls into; total[k] is what f sums to
\* in each.
Partitions(group, K, S) ==
  /\ \A k \in K : \A x \in group[k] : x \in S
  /\ \A x \in S : \E k \in K : x \in group[k]
  /\ \A j, k \in K : \A x \in S : x \in group[j] /\ x \in group[k] => j = k

Totals(total, f, group, K) == \A k \in K : total[k] = SumFunctionOnSet(f, group[k])

LEMMA SumByGroups ==
  ASSUME NEW f, NEW S, IsFiniteSet(S), \A x \in S : f[x] \in Int,
         NEW K, IsFiniteSet(K), NEW group, Partitions(group, K, S),
         NEW total, Totals(total, f, group, K)
  PROVE  SumFunctionOnSet(total, K) = SumFunctionOnSet(f, S)
<1> DEFINE key == [x \in S |-> CHOOSE k \in K : x \in group[k]]
<1>1. \A x \in S : key[x] \in K /\ x \in group[key[x]]
  BY DEF Partitions
<1> HIDE DEF key
<1>2. \A k \in K : \A x : x \in group[k] <=> x \in S /\ key[x] = k
  BY <1>1 DEF Partitions
<1> QED
  BY <1>1, <1>2, SumByKeys DEF Totals

\* Nothing negative sums to nothing negative, and nothing in it is larger.
LEMMA SumOfNaturals ==
  ASSUME NEW f, NEW S, IsFiniteSet(S), \A x \in S : f[x] \in Nat
  PROVE  /\ SumFunctionOnSet(f, S) \in Nat
         /\ \A x \in S : f[x] <= SumFunctionOnSet(f, S)
<1> DEFINE zero == [x \in S |-> 0]
<1>1. ASSUME NEW T \in SUBSET S
      PROVE  SumFunctionOnSet(f, T) \in Nat
  <2>1. IsFiniteSet(T)
    BY FS_Subset
  <2>2. SumFunctionOnSet(zero, T) = Cardinality({})
    <3>1. \A x \in T : zero[x] = IF x \in {} THEN 1 ELSE 0
      OBVIOUS
    <3> HIDE DEF zero
    <3> QED
      BY <2>1, <3>1, SumCounts
  <2>3. SumFunctionOnSet(zero, T) <= SumFunctionOnSet(f, T)
    <3>1. \A x \in T : zero[x] \in Int /\ f[x] \in Int /\ zero[x] <= f[x]
      OBVIOUS
    <3> HIDE DEF zero
    <3> QED
      BY <2>1, <3>1, SumOrder
  <2>4. SumFunctionOnSet(f, T) \in Int
    BY <2>1, SumGrows
  <2> QED
    BY <2>2, <2>3, <2>4, FS_EmptySet
<1>2. ASSUME NEW x \in S
      PROVE  f[x] <= SumFunctionOnSet(f, S)
  <2>1. SumFunctionOnSet(f, S) = f[x] + SumFunctionOnSet(f, S \ {x})
    BY SumGrows
  <2>2. SumFunctionOnSet(f, S \ {x}) \in Nat /\ f[x] \in Nat
    BY <1>1
  <2> QED
    BY <2>1, <2>2
<1> QED
  BY <1>1, <1>2

\* The same number everywhere.
LEMMA SumConstant ==
  ASSUME NEW k \in Int, NEW f, NEW S, IsFiniteSet(S), \A x \in S : f[x] = k
  PROVE  SumFunctionOnSet(f, S) = k * Cardinality(S)
<1> DEFINE one == [x \in S |-> 1]
<1>1. \A x \in S : one[x] \in Int /\ f[x] = k * one[x] /\ one[x] = IF x \in S THEN 1 ELSE 0
  OBVIOUS
<1> HIDE DEF one
<1>2. SumFunctionOnSet(one, S) = Cardinality(S)
  BY <1>1, SumCounts
<1>3. SumFunctionOnSet(f, S) = k * SumFunctionOnSet(one, S)
  BY <1>1, SumScaled
<1> QED
  BY <1>2, <1>3

\* What is zero outside a part of a set sums up there.
LEMMA SumOnPart ==
  ASSUME NEW f, NEW g, NEW S, IsFiniteSet(S), NEW T \in SUBSET S,
         \A x \in S : f[x] \in Int,
         \A x \in T : g[x] = f[x], \A x \in S \ T : g[x] = 0
  PROVE  SumFunctionOnSet(g, S) = SumFunctionOnSet(f, T)
<1>1. IsFiniteSet(T) /\ IsFiniteSet(S \ T) /\ T \cap (S \ T) = {} /\ T \cup (S \ T) = S
  BY FS_Subset
<1>2. \A x \in S : g[x] \in Int
  OBVIOUS
<1>3. SumFunctionOnSet(g, S) = SumFunctionOnSet(g, T) + SumFunctionOnSet(g, S \ T)
  <2> DEFINE R == S \ T
  <2>1. IsFiniteSet(R) /\ R \cap T = {} /\ T \cup R = S /\ \A x \in T \cup R : g[x] \in Int
    BY <1>1, <1>2
  <2> HIDE DEF R
  <2>2. SumFunctionOnSet(g, T \cup R) = SumFunctionOnSet(g, T) + SumFunctionOnSet(g, R)
    BY <1>1, <2>1, SumSplits
  <2> QED
    BY <2>1, <2>2 DEF R
<1>4. SumFunctionOnSet(g, S \ T) = 0 * Cardinality(S \ T) /\ Cardinality(S \ T) \in Nat
  BY <1>1, SumConstant, FS_CardinalityType
<1>5. SumFunctionOnSet(g, T) = SumFunctionOnSet(f, T) /\ SumFunctionOnSet(f, T) \in Int
  BY <1>1, SumEqual, SumGrows
<1> QED
  BY <1>3, <1>4, <1>5

\* A sum over the values of an injection is one over its domain.
LEMMA SumRenamed ==
  ASSUME NEW D, IsFiniteSet(D), NEW S, IsFiniteSet(S), NEW name \in Bijection(D, S),
         NEW f, \A x \in S : f[x] \in Int,
         NEW g, \A k \in D : g[k] = f[name[k]]
  PROVE  SumFunctionOnSet(g, D) = SumFunctionOnSet(f, S)
<1> DEFINE group == [x \in S |-> {k \in D : name[k] = x}]
           total == [x \in S |-> SumFunctionOnSet(g, group[x])]
<1>1. /\ \A k \in D : name[k] \in S /\ g[k] \in Int
      /\ \A j, k \in D : name[j] = name[k] => j = k
      /\ \A x \in S : \E k \in D : name[k] = x
  BY DEF Bijection, Injection, Surjection, IsInjective
<1>2. \A x \in S : \A k : k \in group[x] <=> k \in D /\ name[k] = x
  OBVIOUS
<1>3. SumFunctionOnSet(total, S) = SumFunctionOnSet(g, D)
  <2>1. \A x \in S : total[x] = SumFunctionOnSet(g, group[x])
    OBVIOUS
  <2> HIDE DEF group, total
  <2> QED
    BY SMTT(30), <1>1, <1>2, <2>1, SumByKeys
<1>4. ASSUME NEW x \in S
      PROVE  total[x] = f[x]
  <2>1. PICK k \in D : name[k] = x
    BY <1>1
  <2>2. group[x] = {} \cup {k} /\ g[k] = f[x] /\ k \notin {}
    BY <1>1, <1>2, <2>1
  <2>3. /\ SumFunctionOnSet(g, {} \cup {k}) = SumFunctionOnSet(g, {}) + g[k]
        /\ SumFunctionOnSet(g, {}) = 0
    <3>1. \A y \in {} \cup {k} : g[y] \in Int
      BY <1>1
    <3> QED
      BY <3>1, SumAdds, SumEmpty, FS_EmptySet
  <2>4. total[x] = SumFunctionOnSet(g, group[x]) /\ f[x] \in Int
    OBVIOUS
  <2> HIDE DEF group, total
  <2> QED
    BY <2>2, <2>3, <2>4
<1>5. SumFunctionOnSet(total, S) = SumFunctionOnSet(f, S)
  <2> HIDE DEF total
  <2> QED
    BY <1>4, SumEqual
<1> QED
  BY <1>3, <1>5

=============================================================================
