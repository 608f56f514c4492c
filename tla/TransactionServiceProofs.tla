---------------------- MODULE TransactionServiceProofs ----------------------
(***************************************************************************)
(* Proofs about the group ledger.  First its arithmetic, for any draft: how *)
(* LedgerArithmetic divides an amount, that what it accepts balances, what *)
(* mergeBalances makes of balances that fit an int64, and that the         *)
(* suggestions of SettlementSuggestions settle any balances.  Then         *)
(* TransactionService, for any people, requests, calls and seeds: its      *)
(* types, who and what gets into the ledger, what a balances answer is     *)
(* made of and adds up to, and that it implements module Ledger.           *)
(***************************************************************************)
EXTENDS TransactionService, LedgerArithmetic, SettlementSuggestions, SumTheorems

-----------------------------------------------------------------------------
(* Division.                                                               *)

LEMMA Division ==
  ASSUME NEW x \in Int, NEW w \in Nat \ {0}
  PROVE  /\ x \div w \in Int /\ x % w \in 0..(w - 1)
         /\ x = w * (x \div w) + (x % w)
  OBVIOUS

LEMMA DivisionIsUnique ==
  ASSUME NEW w \in Nat \ {0}, NEW q \in Int, NEW r \in 0..(w - 1),
         NEW p \in Int, NEW s \in 0..(w - 1), w * q + r = w * p + s
  PROVE  q = p /\ r = s
<1>1. w * (q - p) = s - r
  OBVIOUS
<1>2. s - r < w /\ -w < s - r
  OBVIOUS
<1>3. CASE q - p >= 1
  <2>1. w * (q - p) >= w
    BY <1>3
  <2> QED
    BY <1>1, <1>2, <2>1
<1>4. CASE q - p <= -1
  <2>1. w * (q - p) <= -w
    BY <1>4
  <2> QED
    BY <1>1, <1>2, <2>1
<1>5. CASE q = p
  BY <1>1, <1>5
<1> QED
  BY <1>3, <1>4, <1>5

-----------------------------------------------------------------------------
(* Splits.                                                                 *)

\* What buildSplits hands to AllocateShares.
IntegerSplits(splits) ==
  /\ splits \in Seq(Range(splits))
  /\ \A i \in DOMAIN splits : splits[i].value \in Int

LEMMA SplitsAre ==
  ASSUME NEW amount \in Int, NEW splits, IntegerSplits(splits), AllocationInput(amount, splits)
  PROVE  /\ Len(splits) \in Nat \ {0} /\ DOMAIN splits = 1..Len(splits)
         /\ IsFiniteSet(DOMAIN splits) /\ Cardinality(DOMAIN splits) = Len(splits)
         /\ \A i \in DOMAIN splits : Weights(splits)[i] = splits[i].value /\ splits[i].value \in Nat \ {0}
         /\ amount \in Nat \ {0}
<1>1. Len(splits) \in Nat /\ DOMAIN splits = 1..Len(splits) /\ splits # <<>>
  BY DEF IntegerSplits, AllocationInput, ValidSplits
<1>2. Len(splits) # 0
  BY <1>1 DEF IntegerSplits
<1>3. IsFiniteSet(1..Len(splits)) /\ Cardinality(1..Len(splits)) = Len(splits)
  BY <1>1, <1>2, FS_Interval
<1>4. \A i \in DOMAIN splits : splits[i].value \in Nat \ {0}
  BY DEF IntegerSplits, AllocationInput, ValidSplits
<1> QED
  BY <1>1, <1>2, <1>3, <1>4 DEF AllocationInput, Weights

LEMMA WeightsSumUp ==
  ASSUME NEW amount \in Int, NEW splits, IntegerSplits(splits), AllocationInput(amount, splits)
  PROVE  Total(Weights(splits)) \in Nat \ {0}
<1> DEFINE w == Weights(splits)
<1>1. /\ DOMAIN w = DOMAIN splits /\ IsFiniteSet(DOMAIN w) /\ 1 \in DOMAIN w
      /\ \A i \in DOMAIN w : w[i] \in Nat \ {0}
  BY SplitsAre DEF Weights
<1> HIDE DEF w
<1>2. SumFunctionOnSet(w, DOMAIN w) \in Nat /\ w[1] <= SumFunctionOnSet(w, DOMAIN w)
  BY <1>1, SumOfNaturals
<1>3. Total(w) \in Nat \ {0}
  BY <1>1, <1>2 DEF Total, SumFunction
<1> QED
  BY <1>3 DEF w

LEMMA QuotientsAre ==
  ASSUME NEW amount \in Int, NEW splits, IntegerSplits(splits), AllocationInput(amount, splits),
         NEW i \in DOMAIN splits
  PROVE  /\ Quotient(amount, splits, i) \in Nat
         /\ Remainder(amount, splits, i) \in 0..(Total(Weights(splits)) - 1)
         /\ amount * splits[i].value
              = Total(Weights(splits)) * Quotient(amount, splits, i) + Remainder(amount, splits, i)
<1> DEFINE w == Total(Weights(splits))
           x == amount * splits[i].value
<1>1. w \in Nat \ {0} /\ amount \in Nat /\ splits[i].value \in Nat
  BY WeightsSumUp, SplitsAre
<1>2. x \in Nat
  BY <1>1
<1>3. Quotient(amount, splits, i) = x \div w /\ Remainder(amount, splits, i) = x % w
  BY DEF Quotient, Remainder
<1> HIDE DEF w, x
<1>4. x \div w \in Int /\ x % w \in 0..(w - 1) /\ x = w * (x \div w) + (x % w)
  BY <1>1, <1>2, Division
<1>5. x \div w \in Nat
  BY <1>1, <1>2
<1> QED
  BY <1>3, <1>4, <1>5 DEF w, x

\* What the quotients leave over is less than a unit for each split.
LEMMA LeftOver ==
  ASSUME NEW amount \in Int, NEW splits, IntegerSplits(splits), AllocationInput(amount, splits)
  PROVE  /\ Total([i \in DOMAIN splits |-> Quotient(amount, splits, i)]) \in Nat
         /\ amount - Total([i \in DOMAIN splits |-> Quotient(amount, splits, i)]) \in 0..(Len(splits) - 1)
         /\ Total(Weights(splits))
              * (amount - Total([i \in DOMAIN splits |-> Quotient(amount, splits, i)]))
              = SumFunctionOnSet([i \in DOMAIN splits |-> Remainder(amount, splits, i)], DOMAIN splits)
<1> DEFINE n == Len(splits)
           S == DOMAIN splits
           w == Total(Weights(splits))
           q == [i \in S |-> Quotient(amount, splits, i)]
           r == [i \in S |-> Remainder(amount, splits, i)]
           wq == [i \in S |-> w * q[i]]
           product == [i \in S |-> amount * splits[i].value]
           limit == [i \in S |-> w - 1]
           Sum(f) == SumFunctionOnSet(f, S)
<1>1. /\ n \in Nat \ {0} /\ IsFiniteSet(S) /\ Cardinality(S) = n /\ w \in Nat \ {0}
      /\ \A i \in S : /\ q[i] \in Nat /\ r[i] \in Int /\ 0 <= r[i] /\ r[i] <= w - 1
                      /\ wq[i] \in Int /\ wq[i] = w * q[i] /\ limit[i] = w - 1 /\ limit[i] \in Int
                      /\ product[i] = wq[i] + r[i]
                      /\ product[i] = amount * Weights(splits)[i] /\ Weights(splits)[i] \in Int
  <2>1. n \in Nat \ {0} /\ IsFiniteSet(S) /\ Cardinality(S) = n /\ w \in Nat \ {0}
    BY SplitsAre, WeightsSumUp
  <2>2. ASSUME NEW i \in S
        PROVE  /\ q[i] \in Nat /\ r[i] \in 0..(w - 1) /\ amount * splits[i].value = w * q[i] + r[i]
               /\ Weights(splits)[i] = splits[i].value /\ splits[i].value \in Int
    <3>1. Weights(splits)[i] = splits[i].value /\ splits[i].value \in Int
      BY SplitsAre
    <3>2. q[i] = Quotient(amount, splits, i) /\ r[i] = Remainder(amount, splits, i)
      OBVIOUS
    <3> QED
      BY <3>1, <3>2, QuotientsAre
  <2> HIDE DEF q, r, w
  <2> QED
    BY <2>1, <2>2
<1>2. Total(q) = Sum(q) /\ w = Sum(Weights(splits))
  BY DEF Total, SumFunction, Weights
<1> HIDE DEF n, S, w, q, r, wq, product, limit
<1>3. Sum(product) = amount * w
  BY <1>1, <1>2, SumScaled
<1>4. Sum(product) = Sum(wq) + Sum(r)
  BY <1>1, SumPlus
<1>5. Sum(wq) = w * Sum(q)
  BY <1>1, SumScaled
<1>6. Sum(r) \in Nat /\ Sum(q) \in Nat
  BY <1>1, SumOfNaturals
<1>7. Sum(r) <= Sum(limit)
  BY <1>1, SumOrder
<1>8. Sum(limit) = (w - 1) * n
  <2>1. w - 1 \in Int
    BY <1>1
  <2> QED
    BY <1>1, <2>1, SumConstant
<1> DEFINE left == amount - Sum(q)
<1>9. left \in Int /\ w * left = Sum(r)
  BY <1>1, <1>3, <1>4, <1>5, <1>6
<1>10. Sum(r) <= (w - 1) * n
  BY <1>7, <1>8
<1> HIDE DEF left, Sum
<1>11. left >= 0
  <2>1. ASSUME left <= -1 PROVE w * left <= -w
    BY <1>1, <1>9, <2>1
  <2> QED
    BY <1>1, <1>6, <1>9, <2>1
<1>12. left <= n - 1
  <2>1. (w - 1) * n = w * n - n
    BY <1>1
  <2>2. ASSUME left >= n PROVE w * left >= w * n
    BY <1>1, <1>9, <2>2
  <2> QED
    BY <1>1, <1>6, <1>9, <1>10, <2>1, <2>2
<1>13. amount - Total(q) = left /\ Total(q) = Sum(q)
  BY <1>2 DEF left
<1> QED
  <2>1. left \in 0..(n - 1) /\ Total(q) \in Nat /\ w * (amount - Total(q)) = Sum(r)
    BY <1>1, <1>6, <1>9, <1>11, <1>12, <1>13
  <2> QED
    BY <1>13, <2>1 DEF q, n, S, w, r, Sum

\* Which of two splits gets a unit first.
Precedes(amount, splits, i, j) ==
  \/ Remainder(amount, splits, i) > Remainder(amount, splits, j)
  \/ Remainder(amount, splits, i) = Remainder(amount, splits, j) /\ i < j

\* Ranks number the splits from 0, in that order.
LEMMA RanksNumber ==
  ASSUME NEW amount \in Int, NEW splits, IntegerSplits(splits), AllocationInput(amount, splits)
  PROVE  /\ \A i \in DOMAIN splits : Rank(amount, splits, i) \in 0..(Len(splits) - 1)
         /\ \A i, j \in DOMAIN splits :
              Rank(amount, splits, i) < Rank(amount, splits, j) <=> Precedes(amount, splits, i, j)
         /\ \A k \in 0..(Len(splits) - 1) : \E i \in DOMAIN splits : Rank(amount, splits, i) = k
<1> DEFINE n == Len(splits)
           S == DOMAIN splits
           R(i) == Rank(amount, splits, i)
           P(i, j) == Precedes(amount, splits, i, j)
           Ahead(i) == {j \in S : P(j, i)}
<1>1. /\ n \in Nat \ {0} /\ S = 1..n /\ IsFiniteSet(S) /\ Cardinality(S) = n
      /\ \A i \in S : Remainder(amount, splits, i) \in Int
  <2>1. \A i \in S : Remainder(amount, splits, i) \in Int
    BY QuotientsAre
  <2> QED
    BY <2>1, SplitsAre
<1>2. \A i \in S : R(i) = Cardinality(Ahead(i))
  BY DEF Rank, Precedes
<1>3. /\ \A i \in S : ~P(i, i)
      /\ \A i, j \in S : i # j => P(i, j) \/ P(j, i)
      /\ \A i, j, k \in S : P(i, j) /\ P(j, k) => P(i, k)
  BY <1>1 DEF Precedes
<1> HIDE DEF P, R, n
<1>4. ASSUME NEW i \in S
      PROVE  /\ IsFiniteSet(Ahead(i)) /\ i \notin Ahead(i)
             /\ R(i) \in 0..(n - 1)
  <2>1. i \notin Ahead(i) /\ Ahead(i) \in SUBSET (S \ {i}) /\ Ahead(i) \in SUBSET S
    BY <1>3
  <2>2. IsFiniteSet(S \ {i}) /\ Cardinality(S \ {i}) = n - 1
    BY <1>1, FS_RemoveElement
  <2>3. Cardinality(Ahead(i)) <= n - 1 /\ IsFiniteSet(Ahead(i))
    BY <2>1, <2>2, FS_Subset
  <2>4. Cardinality(Ahead(i)) \in Nat
    BY <2>3, FS_CardinalityType
  <2> QED
    BY <1>1, <1>2, <2>1, <2>3, <2>4
<1>5. ASSUME NEW i \in S, NEW j \in S, P(i, j)
      PROVE  R(i) < R(j)
  <2>1. Ahead(i) \cup {i} \in SUBSET Ahead(j)
    BY <1>3, <1>5
  <2>2. Cardinality(Ahead(i) \cup {i}) = Cardinality(Ahead(i)) + 1
    BY <1>4, FS_AddElement
  <2>3. Cardinality(Ahead(i) \cup {i}) <= Cardinality(Ahead(j))
    BY <1>4, <2>1, FS_Subset
  <2>4. R(i) + 1 <= R(j) /\ R(i) \in Int /\ R(j) \in Int
    BY <1>2, <1>4, <2>2, <2>3
  <2> QED
    BY <2>4
<1> HIDE DEF Ahead
<1>6. \A i, j \in S : R(i) < R(j) <=> P(i, j)
  BY <1>1, <1>3, <1>4, <1>5
<1>7. \A k \in 0..(n - 1) : \E i \in S : R(i) = k
  <2> DEFINE f == [i \in S |-> R(i)]
  <2>1. f \in Injection(S, 0..(n - 1))
    <3>1. f \in [S -> 0..(n - 1)]
      BY <1>4
    <3>2. \A i, j \in S : f[i] = f[j] => i = j
      BY <1>3, <1>4, <1>5
    <3> HIDE DEF f
    <3>3. IsInjective(f)
      BY <3>1, <3>2 DEF IsInjective
    <3> QED
      BY <3>1, <3>3 DEF Injection
  <2>2. IsFiniteSet(0..(n - 1)) /\ Cardinality(0..(n - 1)) = n
    BY <1>1, FS_Interval
  <2>3. f \in Surjection(S, 0..(n - 1))
    <3> HIDE DEF f
    <3> QED
      BY <1>1, <2>1, <2>2, FS_Injection
  <2> QED
    BY <2>3 DEF Surjection
<1> QED
  BY <1>4, <1>6, <1>7 DEF n, P, R

\* A ratio split pays every quotient out, and a unit more to the first so many
\* splits as there are units left over.
LEMMA RatioSharesAre ==
  ASSUME NEW amount \in Int, NEW splits, IntegerSplits(splits), AllocationInput(amount, splits),
         NEW i \in DOMAIN splits
  PROVE  RatioShares(amount, splits)[i] =
           Quotient(amount, splits, i)
             + IF Rank(amount, splits, i)
                    < amount - Total([j \in DOMAIN splits |-> Quotient(amount, splits, j)])
               THEN 1 ELSE 0
<1> DEFINE n == Len(splits)
           k == Rank(amount, splits, i)
           left == amount - Total([j \in DOMAIN splits |-> Quotient(amount, splits, j)])
           turns == {turn \in 0..(left - 1) : turn % n = k}
<1>1. n \in Nat \ {0} /\ left \in 0..(n - 1) /\ k \in 0..(n - 1)
  BY SplitsAre, LeftOver, RanksNumber
<1>2. RatioShares(amount, splits)[i] = Quotient(amount, splits, i) + Cardinality(turns)
  BY DEF RatioShares
<1> HIDE DEF n, k, left
<1>3. \A turn \in 0..(left - 1) : turn % n = turn
  BY <1>1
<1>4. turns = IF k < left THEN {k} ELSE {}
  BY <1>1, <1>3
<1>5. Cardinality(turns) = IF k < left THEN 1 ELSE 0
  BY <1>4, FS_Singleton, FS_EmptySet
<1> QED
  BY <1>2, <1>5 DEF k, left

\* AllocateShares, ratio: the shares sum to the amount.
LEMMA RatioSharesSumUp ==
  ASSUME NEW amount \in Int, NEW splits, IntegerSplits(splits), AllocationInput(amount, splits)
  PROVE  /\ RatioShares(amount, splits) \in [DOMAIN splits -> Nat]
         /\ Total(RatioShares(amount, splits)) = amount
<1> DEFINE n == Len(splits)
           S == DOMAIN splits
           R(i) == Rank(amount, splits, i)
           q == [i \in S |-> Quotient(amount, splits, i)]
           left == amount - Total(q)
           First == {i \in S : R(i) < left}
           extra == [i \in S |-> IF i \in First THEN 1 ELSE 0]
           ratio == RatioShares(amount, splits)
<1>1. n \in Nat \ {0} /\ IsFiniteSet(S) /\ left \in 0..(n - 1) /\ Total(q) \in Nat
  BY SplitsAre, LeftOver
<1>2. /\ \A i \in S : R(i) \in 0..(n - 1)
      /\ \A k \in 0..(n - 1) : \E i \in S : R(i) = k
      /\ \A i, j \in S : R(i) = R(j) => i = j
  <2>1. \A i, j \in S : i # j => Precedes(amount, splits, i, j) \/ Precedes(amount, splits, j, i)
    <3>1. S \subseteq Int /\ \A i \in S : Remainder(amount, splits, i) \in Int
      BY SplitsAre, QuotientsAre
    <3> HIDE DEF S
    <3> QED
      BY <3>1 DEF Precedes
  <2>2. \A i \in S : R(i) \in 0..(n - 1)
    BY RanksNumber
  <2>3. \A i, j \in S : i # j => R(i) < R(j) \/ R(j) < R(i)
    BY <2>1, RanksNumber
  <2>4. \A k \in 0..(n - 1) : \E i \in S : R(i) = k
    BY RanksNumber
  <2> HIDE DEF R, S, n
  <2> QED
    BY <2>2, <2>3, <2>4
<1>3. \A i \in S : q[i] \in Nat /\ ratio[i] = q[i] + extra[i] /\ extra[i] \in {0, 1}
  <2>1. \A i \in S : q[i] \in Nat
    BY QuotientsAre
  <2>2. \A i \in S : ratio[i] = Quotient(amount, splits, i) + IF R(i) < left THEN 1 ELSE 0
    BY RatioSharesAre
  <2> HIDE DEF R, left, ratio
  <2> QED
    BY <2>1, <2>2
<1>4. DOMAIN ratio = S /\ ratio = [i \in S |-> ratio[i]]
  BY DEF RatioShares
<1> HIDE DEF n, S, R, q, left, ratio
<1>5. Cardinality(First) = left
  <2> DEFINE f == [i \in First |-> R(i)]
  <2>1. f \in [First -> 0..(left - 1)] /\ IsFiniteSet(First)
    BY <1>1, <1>2, FS_Subset
  <2>2. \A i, j \in First : f[i] = f[j] => i = j
    BY <1>2
  <2>3. \A k \in 0..(left - 1) : \E i \in First : f[i] = k
    BY <1>1, <1>2
  <2> HIDE DEF f, First
  <2>4. ExistsBijection(First, 0..(left - 1))
    <3>1. f \in Injection(First, 0..(left - 1)) /\ f \in Surjection(First, 0..(left - 1))
      BY <2>1, <2>2, <2>3 DEF Injection, Surjection, IsInjective
    <3> QED
      BY <3>1 DEF ExistsBijection, Bijection
  <2>5. Cardinality(0..(left - 1)) = Cardinality(First)
    BY <2>1, <2>4, FS_Bijection
  <2>6. Cardinality(0..(left - 1)) = left
    BY <1>1, FS_Interval
  <2> QED
    BY <2>5, <2>6
<1>6. SumFunctionOnSet(extra, S) = left
  <2>1. \A i \in S : extra[i] = IF i \in First THEN 1 ELSE 0
    OBVIOUS
  <2>2. First \subseteq S
    OBVIOUS
  <2> HIDE DEF extra, First
  <2> QED
    BY <1>1, <1>5, <2>1, <2>2, SumCounts
<1>7. SumFunctionOnSet(ratio, S) = SumFunctionOnSet(q, S) + SumFunctionOnSet(extra, S)
  <2> HIDE DEF extra
  <2> QED
    BY <1>1, <1>3, SumPlus
<1>8. SumFunctionOnSet(q, S) = Total(q) /\ SumFunctionOnSet(ratio, S) = Total(ratio)
  BY <1>4 DEF Total, SumFunction, q
<1>9. ratio \in [S -> Nat]
  <2>1. \A i \in S : ratio[i] \in Nat
    BY <1>3
  <2> QED
    BY <1>4, <2>1
<1> QED
  BY <1>1, <1>6, <1>7, <1>8, <1>9 DEF S, left, ratio

\* int64 addition leaves a sum as it is when it fits.
LEMMA WrapKeepsInt64 ==
  ASSUME NEW n \in -(MaxInt + 1)..MaxInt
  PROVE  Wrap(n) = n
<1> DEFINE width == 2 * (MaxInt + 1)
<1>1. MaxInt \in Nat /\ width \in Nat \ {0} /\ n + MaxInt + 1 \in 0..(width - 1) /\ n \in Int
  BY MaxIntAssumption
<1>2. \A a \in Int, b \in Nat \ {0} : a \in 0..(b - 1) => a % b = a
  OBVIOUS
<1>3. (n + MaxInt + 1) % width = n + MaxInt + 1
  <2> HIDE DEF width
  <2> QED
    BY <1>1, <1>2
<1> QED
  BY <1>1, <1>3 DEF Wrap

\* AllocateShares: whenever it gives shares, there is one for each split, none
\* is negative, and they sum to the amount.
LEMMA SharesSumUp ==
  ASSUME NEW amount \in Int, NEW splits, IntegerSplits(splits),
         AllocateShares(amount, splits) # Failed
  PROVE  /\ AllocationInput(amount, splits)
         /\ AllocateShares(amount, splits) \in [DOMAIN splits -> Nat]
         /\ Total(AllocateShares(amount, splits)) = amount
<1>1. AllocationInput(amount, splits)
  BY DEF AllocateShares
<1>2. CASE splits[1].type = Fixed
  <2>1. AllocateShares(amount, splits) = Weights(splits) /\ Total(Weights(splits)) = amount
    BY <1>1, <1>2 DEF AllocateShares
  <2>2. Weights(splits) \in [DOMAIN splits -> Nat]
    <3>1. \A i \in DOMAIN splits : splits[i].value \in Nat
      BY <1>1, SplitsAre
    <3> QED
      BY <3>1 DEF Weights
  <2> QED
    BY <1>1, <2>1, <2>2
<1>3. CASE splits[1].type # Fixed
  <2>1. AllocateShares(amount, splits) = RatioShares(amount, splits)
    BY <1>1, <1>3 DEF AllocateShares
  <2> QED
    BY <1>1, <2>1, RatioSharesSumUp
<1> QED
  BY <1>2, <1>3

\* A split that is rounded up has a remainder: those with one are more than the
\* units left over.
LEMMA RoundedUpHasRemainder ==
  ASSUME NEW amount \in Int, NEW splits, IntegerSplits(splits), AllocationInput(amount, splits),
         NEW i \in DOMAIN splits,
         Rank(amount, splits, i)
           < amount - Total([j \in DOMAIN splits |-> Quotient(amount, splits, j)])
  PROVE  Remainder(amount, splits, i) > 0
<1> DEFINE S == DOMAIN splits
           w == Total(Weights(splits))
           r == [j \in S |-> Remainder(amount, splits, j)]
           left == amount - Total([j \in S |-> Quotient(amount, splits, j)])
           Rest == {j \in S : r[j] > 0}
           Ahead == {j \in S : Precedes(amount, splits, j, i)}
           one == [j \in S |-> IF j \in Rest THEN 1 ELSE 0]
           most == [j \in S |-> (w - 1) * one[j]]
<1>1. /\ w \in Nat \ {0} /\ IsFiniteSet(S) /\ left \in Nat
      /\ w * left = SumFunctionOnSet(r, S)
      /\ \A j \in S : r[j] = Remainder(amount, splits, j) /\ r[j] \in 0..(w - 1)
  <2>1. w \in Nat \ {0} /\ IsFiniteSet(S)
    BY SplitsAre, WeightsSumUp
  <2>2. left \in Nat /\ w * left = SumFunctionOnSet(r, S)
    <3>1. left \in 0..(Len(splits) - 1) /\ w * left = SumFunctionOnSet(r, S)
      BY LeftOver
    <3>2. Len(splits) \in Nat
      BY SplitsAre
    <3> HIDE DEF left
    <3> QED
      BY <3>1, <3>2
  <2>3. \A j \in S : r[j] = Remainder(amount, splits, j)
    OBVIOUS
  <2>4. \A j \in S : Remainder(amount, splits, j) \in 0..(w - 1)
    BY QuotientsAre
  <2> HIDE DEF w, r, left
  <2> QED
    BY <2>1, <2>2, <2>3, <2>4
<1>2. Rank(amount, splits, i) = Cardinality(Ahead)
  BY DEF Rank, Precedes
<1> SUFFICES ASSUME ~(Remainder(amount, splits, i) > 0) PROVE FALSE
  OBVIOUS
<1>3. r[i] = 0
  <2> HIDE DEF w, r
  <2> QED
    BY <1>1
<1>4. Rest \subseteq Ahead /\ Rest \subseteq S
  <2> HIDE DEF r
  <2> QED
    BY <1>1, <1>3 DEF Precedes
<1>5. Cardinality(Rest) <= Cardinality(Ahead) /\ Cardinality(Rest) \in Nat /\ Cardinality(Ahead) \in Nat
  <2>1. IsFiniteSet(Ahead) /\ IsFiniteSet(Rest)
    BY <1>1, <1>4, FS_Subset
  <2> QED
    BY <1>4, <2>1, FS_Subset, FS_CardinalityType
<1>6. SumFunctionOnSet(one, S) = Cardinality(Rest)
  <2>1. \A j \in S : one[j] = IF j \in Rest THEN 1 ELSE 0
    OBVIOUS
  <2> HIDE DEF one, Rest
  <2> QED
    BY <1>1, <1>4, <2>1, SumCounts
<1>7. /\ w - 1 \in Int
      /\ \A j \in S : one[j] \in Int /\ most[j] \in Int /\ most[j] = (w - 1) * one[j] /\ r[j] <= most[j]
  <2>1. \A j \in S : one[j] \in {0, 1} /\ (one[j] = 0 => r[j] = 0)
    <3> HIDE DEF w, r
    <3> QED
      BY <1>1
  <2>2. \A j \in S : most[j] = (w - 1) * one[j]
    OBVIOUS
  <2> HIDE DEF one, most, w, r, S
  <2>3. ASSUME NEW j \in S
        PROVE  one[j] \in Int /\ most[j] \in Int /\ r[j] <= most[j]
    <3>1. CASE one[j] = 0
      BY <1>1, <2>1, <2>2, <3>1
    <3>2. CASE one[j] = 1
      BY <1>1, <2>1, <2>2, <3>2
    <3> QED
      BY <2>1, <3>1, <3>2
  <2> QED
    BY <1>1, <2>2, <2>3
<1> HIDE DEF S, w, r, left, Rest, Ahead, one, most
<1>8. SumFunctionOnSet(r, S) <= (w - 1) * Cardinality(Rest)
  <2>1. SumFunctionOnSet(most, S) = (w - 1) * SumFunctionOnSet(one, S)
    BY <1>1, <1>7, SumScaled
  <2>2. SumFunctionOnSet(r, S) <= SumFunctionOnSet(most, S)
    BY <1>1, <1>7, SumOrder
  <2> QED
    BY <1>6, <2>1, <2>2
<1>9. Cardinality(Rest) < left
  <2>1. Rank(amount, splits, i) < left
    BY DEF left, S
  <2> QED
    BY <1>1, <1>2, <1>5, <2>1
<1>10. (w - 1) * Cardinality(Rest) <= (w - 1) * left
  <2> DEFINE c == Cardinality(Rest)
  <2>1. c \in Nat /\ c <= left /\ w - 1 \in Nat
    BY <1>1, <1>5, <1>9
  <2> HIDE DEF c
  <2>2. \A k, x, y \in Nat : x <= y => k * x <= k * y
    OBVIOUS
  <2>3. (w - 1) * c <= (w - 1) * left
    BY <1>1, <2>1, <2>2
  <2> QED
    BY <2>3 DEF c
<1>11. (w - 1) * left = w * left - left
  BY <1>1
<1> QED
  BY <1>1, <1>5, <1>8, <1>9, <1>10, <1>11

\* Of two splits, the one that gets a unit more precedes the other.
LEMMA RoundedUpPrecedes ==
  ASSUME NEW amount \in Int, NEW splits, IntegerSplits(splits), AllocationInput(amount, splits)
  PROVE  LET w       == Total(Weights(splits))
             over(i) == w * RatioShares(amount, splits)[i] - amount * splits[i].value
         IN  /\ \A i \in DOMAIN splits : -w < over(i) /\ over(i) < w
             /\ \A i, j \in DOMAIN splits : over(i) > 0 /\ over(j) <= 0 => Precedes(amount, splits, i, j)
<1> DEFINE w == Total(Weights(splits))
           over(i) == w * RatioShares(amount, splits)[i] - amount * splits[i].value
           Q(i) == Quotient(amount, splits, i)
           R(i) == Remainder(amount, splits, i)
           K(i) == Rank(amount, splits, i)
           left == amount - Total([j \in DOMAIN splits |-> Quotient(amount, splits, j)])
           extra(i) == IF K(i) < left THEN 1 ELSE 0
<1>1. ASSUME NEW i \in DOMAIN splits
      PROVE  over(i) = w * extra(i) - R(i)
  <2>1. RatioShares(amount, splits)[i] = Q(i) + extra(i)
    BY RatioSharesAre
  <2>2. Q(i) \in Int /\ R(i) \in Int /\ amount * splits[i].value = w * Q(i) + R(i)
    BY QuotientsAre, WeightsSumUp
  <2>3. w \in Int /\ extra(i) \in Int
    BY WeightsSumUp
  <2>4. w * (Q(i) + extra(i)) = w * Q(i) + w * extra(i)
    <3> HIDE DEF w, Q, extra
    <3> QED
      BY <2>2, <2>3
  <2> QED
    <3> HIDE DEF w, Q, extra, R
    <3> QED
      BY <2>1, <2>2, <2>3, <2>4
<1>2. w \in Nat \ {0} /\ left \in Int /\ \A i \in DOMAIN splits : R(i) \in 0..(w - 1) /\ K(i) \in Int
  <2>1. w \in Nat \ {0}
    BY WeightsSumUp
  <2>2. left \in Int
    <3>1. Total([j \in DOMAIN splits |-> Quotient(amount, splits, j)]) \in Nat
      BY LeftOver
    <3> QED
      BY <3>1
  <2>3. \A i \in DOMAIN splits : R(i) \in 0..(w - 1)
    BY QuotientsAre
  <2>4. \A i \in DOMAIN splits : K(i) \in Int
    BY RanksNumber
  <2> QED
    BY <2>1, <2>2, <2>3, <2>4
<1>3. \A i, j \in DOMAIN splits : K(i) < K(j) => Precedes(amount, splits, i, j)
  BY RanksNumber
<1> DEFINE HasRest(i) == K(i) < left => R(i) > 0
<1>6. \A i \in DOMAIN splits : HasRest(i)
  BY RoundedUpHasRemainder
<1>4. \A i \in DOMAIN splits : /\ -w < over(i) /\ over(i) < w
                               /\ over(i) > 0 <=> K(i) < left
  <2> HIDE DEF w, over, R, K, left
  <2>1. ASSUME NEW i \in DOMAIN splits
        PROVE  over(i) = IF K(i) < left THEN w - R(i) ELSE -R(i)
    <3>1. CASE K(i) < left
      BY <1>1, <1>2, <3>1 DEF extra
    <3>2. CASE ~(K(i) < left)
      BY <1>1, <1>2, <3>2 DEF extra
    <3> QED
      BY <3>1, <3>2
  <2>2. ASSUME NEW i \in DOMAIN splits
        PROVE  -w < over(i) /\ over(i) < w /\ (over(i) > 0 <=> K(i) < left)
    <3>1. w \in Int /\ R(i) \in Int /\ 0 <= R(i) /\ R(i) < w /\ (K(i) < left => R(i) > 0)
      BY <1>2, <1>6
    <3>2. CASE K(i) < left
      BY <2>1, <3>1, <3>2
    <3>3. CASE ~(K(i) < left)
      BY <2>1, <3>1, <3>3
    <3> QED
      BY <3>2, <3>3
  <2> QED
    BY <2>2
<1>5. ASSUME NEW i \in DOMAIN splits, NEW j \in DOMAIN splits, over(i) > 0, over(j) <= 0
      PROVE  Precedes(amount, splits, i, j)
  <2>1. K(i) < left
    BY <1>4, <1>5
  <2>2. ~(K(j) < left)
    <3>1. over(j) \in Int
      <4> HIDE DEF over, R, w, K, left
      <4> QED
        BY <1>1, <1>2 DEF extra
    <3> HIDE DEF over, K, left
    <3> QED
      BY <1>4, <1>5, <3>1
  <2>3. K(i) < K(j)
    <3> HIDE DEF K, left
    <3> QED
      BY <1>2, <2>1, <2>2
  <2> QED
    BY <1>3, <2>3
<1> QED
  BY <1>4, <1>5

\* Splits with every value k times as large.
LEMMA OnlyProportionsMatter ==
  ASSUME NEW amount \in Int, NEW splits, IntegerSplits(splits), AllocationInput(amount, splits),
         NEW k \in Nat \ {0}, NEW scaled,
         IntegerSplits(scaled), AllocationInput(amount, scaled), DOMAIN scaled = DOMAIN splits,
         \A i \in DOMAIN splits : scaled[i].value = k * splits[i].value
  PROVE  RatioShares(amount, scaled) = RatioShares(amount, splits)
<1> DEFINE S == DOMAIN splits
           w == Total(Weights(splits))
           v == Total(Weights(scaled))
<1>1. w \in Nat \ {0} /\ v \in Nat \ {0} /\ v = k * w
  <2>1. \A i \in S : Weights(splits)[i] \in Int /\ Weights(scaled)[i] = k * Weights(splits)[i]
    BY SplitsAre
  <2>2. DOMAIN Weights(splits) = S /\ DOMAIN Weights(scaled) = S /\ IsFiniteSet(S)
    BY SplitsAre DEF Weights
  <2>3. SumFunctionOnSet(Weights(scaled), S) = k * SumFunctionOnSet(Weights(splits), S)
    BY <2>1, <2>2, SumScaled
  <2>4. v = k * w
    BY <2>2, <2>3 DEF Total, SumFunction
  <2> QED
    BY <2>4, WeightsSumUp
<1>2. ASSUME NEW i \in S
      PROVE  /\ Quotient(amount, scaled, i) = Quotient(amount, splits, i)
             /\ Remainder(amount, scaled, i) = k * Remainder(amount, splits, i)
             /\ Remainder(amount, splits, i) \in Int
  <2> DEFINE q == Quotient(amount, splits, i)
             r == Remainder(amount, splits, i)
             p == Quotient(amount, scaled, i)
             s == Remainder(amount, scaled, i)
             x == amount * splits[i].value
  <2>1. q \in Int /\ r \in 0..(w - 1) /\ x = w * q + r
    BY QuotientsAre
  <2>2. p \in Int /\ s \in 0..(v - 1) /\ amount * scaled[i].value = v * p + s
    BY QuotientsAre
  <2>3. splits[i].value \in Int /\ scaled[i].value = k * splits[i].value
    BY SplitsAre
  <2>4. amount * scaled[i].value = k * x
    BY <2>3
  <2> HIDE DEF q, r, p, s, x, w, v
  <2>5. k * (w * q + r) = v * q + k * r
    BY <1>1, <2>1
  <2>6. v * q + k * r = v * p + s
    BY <2>1, <2>2, <2>4, <2>5
  <2>7. k * r \in 0..(v - 1)
    <3>1. \A a, b, c \in Nat : a <= b => c * a <= c * b
      OBVIOUS
    <3>2. k * r <= k * (w - 1) /\ k * r \in Nat
      BY <1>1, <2>1, <3>1
    <3>3. k * (w - 1) = v - k
      BY <1>1
    <3> QED
      BY <1>1, <3>2, <3>3
  <2>8. q = p /\ k * r = s
    BY <1>1, <2>1, <2>2, <2>6, <2>7, DivisionIsUnique
  <2> QED
    BY <2>1, <2>8 DEF q, r, p, s
<1>3. \A i, j \in S : /\ Remainder(amount, scaled, j) > Remainder(amount, scaled, i)
                           <=> Remainder(amount, splits, j) > Remainder(amount, splits, i)
                      /\ Remainder(amount, scaled, j) = Remainder(amount, scaled, i)
                           <=> Remainder(amount, splits, j) = Remainder(amount, splits, i)
  <2>1. \A a, b \in Int : (k * a > k * b <=> a > b) /\ (k * a = k * b <=> a = b)
    <3> SUFFICES ASSUME NEW a \in Int, NEW b \in Int
                 PROVE  (k * a > k * b <=> a > b) /\ (k * a = k * b <=> a = b)
      OBVIOUS
    <3>1. k * (a - b) = k * a - k * b
      OBVIOUS
    <3>2. CASE a > b
      <4>1. k * (a - b) > 0
        BY <3>2
      <4> QED
        BY <3>1, <3>2, <4>1
    <3>3. CASE a < b
      <4>1. k * (b - a) > 0
        BY <3>3
      <4> QED
        BY <3>3, <4>1
    <3>4. CASE a = b
      BY <3>4
    <3> QED
      BY <3>2, <3>3, <3>4
  <2> QED
    BY <1>2, <2>1
<1>4. \A i \in S : Rank(amount, scaled, i) = Rank(amount, splits, i)
  <2> SUFFICES ASSUME NEW i \in S PROVE Rank(amount, scaled, i) = Rank(amount, splits, i)
    OBVIOUS
  <2>1. {j \in S : Precedes(amount, scaled, j, i)} = {j \in S : Precedes(amount, splits, j, i)}
    BY <1>3 DEF Precedes
  <2>2. Rank(amount, scaled, i) = Cardinality({j \in S : Precedes(amount, scaled, j, i)})
    BY DEF Rank, Precedes
  <2>3. Rank(amount, splits, i) = Cardinality({j \in S : Precedes(amount, splits, j, i)})
    BY DEF Rank, Precedes
  <2> QED
    BY <2>1, <2>2, <2>3
<1>5. [i \in S |-> Quotient(amount, scaled, i)] = [i \in S |-> Quotient(amount, splits, i)]
  BY <1>2
<1>6. \A i \in S : RatioShares(amount, scaled)[i] = RatioShares(amount, splits)[i]
  <2> DEFINE left == amount - Total([j \in S |-> Quotient(amount, splits, j)])
  <2> SUFFICES ASSUME NEW i \in S
               PROVE  RatioShares(amount, scaled)[i] = RatioShares(amount, splits)[i]
    OBVIOUS
  <2>1. RatioShares(amount, splits)[i]
          = Quotient(amount, splits, i) + IF Rank(amount, splits, i) < left THEN 1 ELSE 0
    BY RatioSharesAre
  <2>2. RatioShares(amount, scaled)[i]
          = Quotient(amount, scaled, i) + IF Rank(amount, scaled, i) < left THEN 1 ELSE 0
    BY ZenonT(60), <1>5, RatioSharesAre
  <2> QED
    BY <1>2, <1>4, <2>1, <2>2
<1>7. /\ DOMAIN RatioShares(amount, scaled) = S /\ DOMAIN RatioShares(amount, splits) = S
      /\ RatioShares(amount, scaled) = [i \in S |-> RatioShares(amount, scaled)[i]]
      /\ RatioShares(amount, splits) = [i \in S |-> RatioShares(amount, splits)[i]]
  BY DEF RatioShares
<1> QED
  BY <1>6, <1>7

\* What the entries of each user add up to, added up over users that include
\* all the entries name.
LEMMA AmountsByUser ==
  ASSUME NEW entries, IsFiniteSet(DOMAIN entries),
         NEW amounts, \A i \in DOMAIN entries : amounts[i] \in Nat,
         NEW K, IsFiniteSet(K), Users(entries) \subseteq K,
         NEW total,
         \A u \in K : total[u] = SumFunctionOnSet(amounts, {i \in DOMAIN entries : entries[i].user = u})
  PROVE  /\ SumFunctionOnSet(total, K) = SumFunctionOnSet(amounts, DOMAIN entries)
         /\ SumFunctionOnSet(amounts, DOMAIN entries) \in Nat
         /\ \A u \in K : total[u] \in 0..SumFunctionOnSet(amounts, DOMAIN entries)
<1> DEFINE S == DOMAIN entries
           group == [u \in K |-> {i \in S : entries[i].user = u}]
<1>1. \A i \in S : entries[i].user \in K /\ amounts[i] \in Int
  BY DEF Users
<1>2. Totals(total, amounts, group, K)
  BY DEF Totals
<1>3. SumFunctionOnSet(total, K) = SumFunctionOnSet(amounts, S)
  <2>1. Partitions(group, K, S)
    BY <1>1 DEF Partitions
  <2> HIDE DEF group
  <2> QED
    BY <1>1, <1>2, <2>1, SumByGroups
<1>4. SumFunctionOnSet(amounts, S) \in Nat
  BY SumOfNaturals
<1>5. \A u \in K : total[u] \in Nat
  <2> TAKE u \in K
  <2> DEFINE mine == {i \in S : entries[i].user = u}
  <2>1. IsFiniteSet(mine) /\ \A i \in mine : amounts[i] \in Nat
    BY FS_Subset
  <2> QED
    <3> HIDE DEF mine
    <3>1. SumFunctionOnSet(amounts, mine) \in Nat
      BY <2>1, SumOfNaturals
    <3> QED
      BY <3>1 DEF mine
<1>6. \A u \in K : total[u] <= SumFunctionOnSet(total, K)
  BY <1>5, SumOfNaturals
<1> QED
  BY <1>3, <1>4, <1>5, <1>6

LEMMA UsersAreFinite ==
  ASSUME NEW entries, IsFiniteSet(DOMAIN entries)
  PROVE  IsFiniteSet(Users(entries))
<1> DEFINE user == [i \in DOMAIN entries |-> entries[i].user]
<1>1. user \in Surjection(DOMAIN entries, Users(entries))
  BY DEF Users, Surjection
<1> QED
  BY <1>1, FS_Surjection

\* CalculateBalances: when the payments and the shares sum to one amount that
\* fits an int64, nobody's net is wrapped or beyond it, and the nets cancel out.
LEMMA NetsCancel ==
  ASSUME NEW type, NEW payments, NEW splits,
         IsFiniteSet(DOMAIN payments), IsFiniteSet(DOMAIN splits),
         \A i \in DOMAIN payments : payments[i].amount \in Nat,
         \A i \in DOMAIN splits : splits[i].share \in Nat,
         Total(PaymentAmounts(payments)) = Total([i \in DOMAIN splits |-> splits[i].share]),
         Total(PaymentAmounts(payments)) \in 0..MaxInt
  PROVE  LET result == TransactionNet(type, payments, splits)
         IN  /\ IsFiniteSet(DOMAIN result) /\ SumFunction(result) = 0
             /\ \A u \in DOMAIN result :
                  /\ result[u] = IF type = Income THEN Share(splits, u) - Paid(payments, u)
                                                ELSE Paid(payments, u) - Share(splits, u)
                  /\ result[u] \in -Total(PaymentAmounts(payments))..Total(PaymentAmounts(payments))
<1> DEFINE K == Users(payments) \cup Users(splits)
           amounts == [i \in DOMAIN payments |-> payments[i].amount]
           portions == [i \in DOMAIN splits |-> splits[i].share]
           paid == [u \in K |-> Paid(payments, u)]
           share == [u \in K |-> Share(splits, u)]
           cancelled == TransactionNet(type, payments, splits)
           P == Total(PaymentAmounts(payments))
<1>1. IsFiniteSet(K)
  <2>1. IsFiniteSet(Users(payments)) /\ IsFiniteSet(Users(splits))
    BY UsersAreFinite
  <2> QED
    BY <2>1, FS_Union
<1>2. P = SumFunctionOnSet(amounts, DOMAIN payments) /\ P = SumFunctionOnSet(portions, DOMAIN splits)
  BY DEF Total, SumFunction, PaymentAmounts
<1>3. SumFunctionOnSet(paid, K) = P /\ \A u \in K : paid[u] \in 0..P
  <2>1. \A u \in K : paid[u] = SumFunctionOnSet(amounts, {i \in DOMAIN payments : payments[i].user = u})
    BY DEF Paid, AmountOf
  <2>2. \A i \in DOMAIN payments : amounts[i] \in Nat
    OBVIOUS
  <2>3. Users(payments) \subseteq K
    OBVIOUS
  <2> HIDE DEF paid, amounts, K, P
  <2> QED
    BY <1>1, <1>2, <2>1, <2>2, <2>3, AmountsByUser
<1>4. SumFunctionOnSet(share, K) = P /\ \A u \in K : share[u] \in 0..P
  <2>1. \A u \in K : share[u] = SumFunctionOnSet(portions, {i \in DOMAIN splits : splits[i].user = u})
    BY DEF Share, AmountOf
  <2>2. \A i \in DOMAIN splits : portions[i] \in Nat
    OBVIOUS
  <2>3. Users(splits) \subseteq K
    OBVIOUS
  <2> HIDE DEF share, portions, K, P
  <2> QED
    BY <1>1, <1>2, <2>1, <2>2, <2>3, AmountsByUser
<1>5. DOMAIN cancelled = K /\ \A u \in K : cancelled[u] = IF type = Income THEN share[u] - paid[u] ELSE paid[u] - share[u]
  <2>1. DOMAIN cancelled = K
    BY DEF TransactionNet
  <2>2. \A u \in K : cancelled[u] = Wrap(IF type = Income THEN share[u] - paid[u] ELSE paid[u] - share[u])
    BY DEF TransactionNet
  <2>3. ASSUME NEW a \in 0..P, NEW b \in 0..P
        PROVE  Wrap(a - b) = a - b
    <3>1. a - b \in -(MaxInt + 1)..MaxInt
      BY MaxIntAssumption
    <3> QED
      BY <3>1, WrapKeepsInt64
  <2> HIDE DEF cancelled, paid, share, K, P
  <2> QED
    BY <1>3, <1>4, <2>1, <2>2, <2>3
<1>6. SumFunctionOnSet(cancelled, K) = 0
  <2>1. P \in Int
    OBVIOUS
  <2> HIDE DEF cancelled, paid, share, K, P
  <2>2. \A u \in K : cancelled[u] \in Int /\ paid[u] \in Int /\ share[u] \in Int
    BY <1>3, <1>4, <1>5, <2>1
  <2>3. SumFunctionOnSet(cancelled, K) \in Int
    BY <1>1, <2>2, SumGrows
  <2>4. CASE type = Income
    <3>1. \A u \in K : share[u] = cancelled[u] + paid[u]
      BY <1>5, <2>2, <2>4
    <3>2. SumFunctionOnSet(share, K) = SumFunctionOnSet(cancelled, K) + SumFunctionOnSet(paid, K)
      BY <1>1, <2>2, <3>1, SumPlus
    <3> QED
      BY <1>3, <1>4, <2>1, <2>3, <3>2
  <2>5. CASE type # Income
    <3>1. \A u \in K : paid[u] = cancelled[u] + share[u]
      BY <1>5, <2>2, <2>5
    <3>2. SumFunctionOnSet(paid, K) = SumFunctionOnSet(cancelled, K) + SumFunctionOnSet(share, K)
      BY <1>1, <2>2, <3>1, SumPlus
    <3> QED
      BY <1>3, <1>4, <2>1, <2>3, <3>2
  <2> QED
    BY <2>4, <2>5
<1>7. \A u \in K : cancelled[u] \in -P..P
  <2>1. P \in Nat
    OBVIOUS
  <2> HIDE DEF cancelled, paid, share, K, P
  <2> QED
    BY <1>3, <1>4, <1>5, <2>1
<1> QED
  BY <1>1, <1>5, <1>6, <1>7 DEF SumFunction

-----------------------------------------------------------------------------
(* mergeBalances.                                                          *)

\* The balance of u in a one position that may not mention u.
BalanceIn(one, u) == IF u \in DOMAIN one THEN one[u] ELSE 0

\* Everybody's balance is at most v either way.
Within(one, v) ==
  /\ IsFiniteSet(DOMAIN one)
  /\ \A u \in DOMAIN one : one[u] \in -v..v

\* mergeBalances adds, as long as nothing wraps.
LEMMA MergeAdds ==
  ASSUME NEW one, NEW v \in Nat, Within(one, v), NEW other, NEW w \in Nat, Within(other, w),
         v + w <= MaxInt
  PROVE  /\ Within(mergeBalances(one, other), v + w)
         /\ \A u : BalanceIn(mergeBalances(one, other), u) = BalanceIn(one, u) + BalanceIn(other, u)
         /\ SumFunction(mergeBalances(one, other)) = SumFunction(one) + SumFunction(other)
<1> DEFINE K == DOMAIN one \cup DOMAIN other
           merged == mergeBalances(one, other)
           a == [u \in K |-> BalanceIn(one, u)]
           b == [u \in K |-> BalanceIn(other, u)]
<1>1. IsFiniteSet(K) /\ DOMAIN one \in SUBSET K /\ DOMAIN other \in SUBSET K
  BY FS_Union DEF Within
<1>2. \A u : BalanceIn(one, u) \in -v..v /\ BalanceIn(other, u) \in -w..w
  BY DEF Within, BalanceIn
<1>3. DOMAIN merged = K
  BY DEF mergeBalances
<1>4. ASSUME NEW u \in K
      PROVE  merged[u] = BalanceIn(one, u) + BalanceIn(other, u)
  <2>1. merged[u] = Wrap(BalanceIn(one, u) + BalanceIn(other, u))
    BY <1>4 DEF mergeBalances, BalanceIn
  <2>2. BalanceIn(one, u) + BalanceIn(other, u) \in -(MaxInt + 1)..MaxInt
    BY <1>2, MaxIntAssumption
  <2> QED
    BY <2>1, <2>2, WrapKeepsInt64
<1>5. Within(merged, v + w)
  <2>1. \A u \in K : merged[u] \in -(v + w)..(v + w)
    BY <1>2, <1>4
  <2> HIDE DEF merged, K
  <2> QED
    BY <1>1, <1>3, <2>1 DEF Within
<1>6. \A u : BalanceIn(merged, u) = BalanceIn(one, u) + BalanceIn(other, u)
  <2>1. \A u : u \notin K => BalanceIn(one, u) = 0 /\ BalanceIn(other, u) = 0
    BY DEF BalanceIn
  <2>2. \A u : BalanceIn(merged, u) = IF u \in K THEN merged[u] ELSE 0
    BY <1>3 DEF BalanceIn
  <2> HIDE DEF merged, K
  <2> QED
    BY <1>4, <2>1, <2>2
<1>7. SumFunctionOnSet(a, K) = SumFunction(one)
  <2>1. /\ \A u \in K : a[u] \in Int
        /\ \A u \in DOMAIN one : one[u] = a[u]
        /\ \A u \in K \ DOMAIN one : a[u] = 0
        /\ \A u \in K : a[u] = a[u]
    BY <1>2 DEF BalanceIn
  <2> HIDE DEF a, K
  <2>2. SumFunctionOnSet(a, K) = SumFunctionOnSet(a, DOMAIN one)
    BY <1>1, <2>1, SumOnPart
  <2>3. SumFunctionOnSet(one, DOMAIN one) = SumFunctionOnSet(a, DOMAIN one)
    BY <1>1, <2>1, SumEqual DEF Within
  <2> QED
    BY <2>2, <2>3 DEF SumFunction
<1>8. SumFunctionOnSet(b, K) = SumFunction(other)
  <2>1. /\ \A u \in K : b[u] \in Int
        /\ \A u \in DOMAIN other : other[u] = b[u]
        /\ \A u \in K \ DOMAIN other : b[u] = 0
    BY <1>2 DEF BalanceIn
  <2> HIDE DEF b, K
  <2>2. SumFunctionOnSet(b, K) = SumFunctionOnSet(b, DOMAIN other)
    BY <1>1, <2>1, SumOnPart
  <2>3. SumFunctionOnSet(other, DOMAIN other) = SumFunctionOnSet(b, DOMAIN other)
    BY <1>1, <2>1, SumEqual DEF Within
  <2> QED
    BY <2>2, <2>3 DEF SumFunction
<1>9. SumFunctionOnSet(merged, K) = SumFunctionOnSet(a, K) + SumFunctionOnSet(b, K)
  <2>1. \A u \in K : a[u] \in Int /\ b[u] \in Int /\ merged[u] = a[u] + b[u]
    BY <1>2, <1>4
  <2> HIDE DEF a, b, K, merged
  <2> QED
    BY <1>1, <2>1, SumPlus
<1> QED
  BY <1>3, <1>5, <1>6, <1>7, <1>8, <1>9 DEF SumFunction

\* The fold of mergeBalances over the nets of the elements of S.
IsMerge(m, base, nets, S) ==
  m = [T \in SUBSET S |-> IF T = {} THEN base
                          ELSE mergeBalances(nets[FirstOf(T)], m[RestOf(T)])]

\* There is one such fold, and FoldSet finds it.
LEMMA MergesAgree ==
  ASSUME NEW base, NEW nets, NEW S, IsFiniteSet(S), NEW T \in SUBSET S,
         NEW g, IsMerge(g, base, nets, S), NEW h, IsMerge(h, base, nets, T)
  PROVE  \A U \in SUBSET T : g[U] = h[U]
<1> DEFINE Bad == {U \in SUBSET T : g[U] # h[U]}
<1> SUFFICES ASSUME Bad # {} PROVE FALSE
  OBVIOUS
<1>1. PICK U \in Bad : \A V \in Bad : V \subseteq U => V = U
  <2>1. Bad \subseteq SUBSET T /\ IsFiniteSet(T)
    BY FS_Subset
  <2> HIDE DEF Bad
  <2> QED
    BY <2>1, SmallestSet
<1>2. U \in SUBSET T /\ U \in SUBSET S /\ g[U] # h[U]
  OBVIOUS
<1>3. U # {}
  BY <1>2 DEF IsMerge
<1>4. RestOf(U) \in SUBSET T /\ g[RestOf(U)] = h[RestOf(U)]
  BY <1>1, <1>2, <1>3, FirstIsIn
<1>5. /\ g[U] = mergeBalances(nets[FirstOf(U)], g[RestOf(U)])
      /\ h[U] = mergeBalances(nets[FirstOf(U)], h[RestOf(U)])
  BY <1>2, <1>3 DEF IsMerge
<1> QED
  BY <1>2, <1>4, <1>5

LEMMA MergesExist ==
  ASSUME NEW base, NEW nets, NEW S, IsFiniteSet(S)
  PROVE  \E m : IsMerge(m, base, nets, S)
<1> DEFINE Bad == {T \in SUBSET S : ~\E m : IsMerge(m, base, nets, T)}
<1> SUFFICES ASSUME Bad # {} PROVE FALSE
  OBVIOUS
<1>1. PICK T \in Bad : \A U \in Bad : U \subseteq T => U = T
  <2>1. Bad \subseteq SUBSET S
    OBVIOUS
  <2> HIDE DEF Bad
  <2> QED
    BY <2>1, SmallestSet
<1>2. T \in SUBSET S /\ IsFiniteSet(T)
  BY FS_Subset
<1> DEFINE G(U) == CHOOSE m : IsMerge(m, base, nets, U)
           g == [U \in SUBSET T |-> IF U = {} THEN base
                   ELSE mergeBalances(nets[FirstOf(U)], G(RestOf(U))[RestOf(U)])]
<1>3. \A U \in SUBSET T : U # T => IsMerge(G(U), base, nets, U)
  BY <1>1
<1>4. ASSUME NEW U \in SUBSET T, U # {}
      PROVE  g[RestOf(U)] = G(RestOf(U))[RestOf(U)]
  <2> DEFINE V == RestOf(U)
  <2>1. V \in SUBSET T /\ V # T /\ IsFiniteSet(V)
    BY <1>2, <1>4, FirstIsIn, FS_Subset
  <2>2. IsMerge(G(V), base, nets, V)
    BY <1>3, <2>1
  <2>3. CASE V = {}
    BY <2>1, <2>2, <2>3 DEF IsMerge
  <2>4. CASE V # {}
    <3>1. g[V] = mergeBalances(nets[FirstOf(V)], G(RestOf(V))[RestOf(V)])
      BY <2>1, <2>4
    <3> HIDE DEF V, G, g
    <3>2. RestOf(V) \in SUBSET V /\ RestOf(V) \in SUBSET T /\ RestOf(V) # T
      BY <2>1, <2>4, FirstIsIn
    <3>3. IsMerge(G(RestOf(V)), base, nets, RestOf(V))
      BY <1>3, <3>2
    <3>4. G(V)[RestOf(V)] = G(RestOf(V))[RestOf(V)]
      BY <2>1, <2>2, <3>2, <3>3, MergesAgree
    <3>5. G(V)[V] = mergeBalances(nets[FirstOf(V)], G(V)[RestOf(V)])
      BY <2>2, <2>4 DEF IsMerge
    <3>6. g[V] = G(V)[V]
      BY <3>1, <3>4, <3>5
    <3> QED
      BY <3>6 DEF V
  <2> QED
    BY <2>3, <2>4
<1>5. ASSUME NEW U \in SUBSET T
      PROVE  g[U] = IF U = {} THEN base ELSE mergeBalances(nets[FirstOf(U)], g[RestOf(U)])
  <2>1. g[U] = IF U = {} THEN base
               ELSE mergeBalances(nets[FirstOf(U)], G(RestOf(U))[RestOf(U)])
    OBVIOUS
  <2> HIDE DEF g, G
  <2> QED
    BY <1>4, <2>1
<1>6. g = [U \in SUBSET T |-> g[U]]
  OBVIOUS
<1>7. IsMerge(g, base, nets, T)
  <2> HIDE DEF g, G
  <2> QED
    BY <1>5, <1>6 DEF IsMerge
<1> QED
  BY <1>1, <1>7

\* Nets that each cancel out, of a volume that fits an int64, merge into the
\* sums of everybody's balances, which cancel out too.
LEMMA MergesAddUp ==
  ASSUME NEW S, IsFiniteSet(S), NEW nets, NEW volume,
         \A i \in S : /\ volume[i] \in Nat
                      /\ Within(nets[i], volume[i])
                      /\ SumFunction(nets[i]) = 0,
         NEW base, NEW v \in Nat, Within(base, v), SumFunction(base) = 0,
         v + SumFunctionOnSet(volume, S) <= MaxInt,
         NEW m, IsMerge(m, base, nets, S)
  PROVE  /\ SumFunction(m[S]) = 0
         /\ \A u : BalanceIn(m[S], u)
                     = BalanceIn(base, u) + SumFunctionOnSet([i \in S |-> BalanceIn(nets[i], u)], S)
<1> DEFINE at(u) == [i \in S |-> BalanceIn(nets[i], u)]
           Sum(T) == SumFunctionOnSet(volume, T)
           Fact(T) == /\ Within(m[T], v + Sum(T))
                      /\ SumFunction(m[T]) = 0
                      /\ \A u : BalanceIn(m[T], u) = BalanceIn(base, u) + SumFunctionOnSet(at(u), T)
           Bad == {T \in SUBSET S : ~Fact(T)}
<1>0. ASSUME NEW T \in SUBSET S
      PROVE  IsFiniteSet(T) /\ Sum(T) \in Nat /\ v + Sum(T) <= MaxInt
  <2> DEFINE R == S \ T
  <2>1. IsFiniteSet(T) /\ IsFiniteSet(R) /\ T \cap R = {} /\ T \cup R = S
    BY FS_Subset
  <2>2. (\A i \in T : volume[i] \in Nat) /\ (\A i \in R : volume[i] \in Nat)
    OBVIOUS
  <2>3. \A i \in T \cup R : volume[i] \in Int
    BY <2>2
  <2> HIDE DEF R
  <2>4. Sum(T) \in Nat /\ Sum(R) \in Nat
    BY <2>1, <2>2, SumOfNaturals
  <2>5. Sum(T \cup R) = Sum(T) + Sum(R)
    <3>1. R \cap T = {}
      BY <2>1
    <3> QED
      BY <2>1, <2>3, <3>1, SumSplits
  <2> HIDE DEF Sum
  <2>6. v + Sum(S) <= MaxInt
    BY DEF Sum
  <2>7. Sum(S) = Sum(T) + Sum(R)
    BY <2>1, <2>5
  <2> QED
    BY <2>1, <2>4, <2>6, <2>7, MaxIntAssumption
<1>1. \A u : \A i \in S : at(u)[i] = BalanceIn(nets[i], u) /\ at(u)[i] \in Int
  BY DEF BalanceIn, Within
<1>2. \A u : BalanceIn(base, u) \in Int
  BY DEF BalanceIn, Within
<1> HIDE DEF at
<1>3. Fact(S)
  <2> SUFFICES ASSUME ~Fact(S) PROVE FALSE
    OBVIOUS
  <2>1. PICK T \in Bad : \A U \in Bad : U \subseteq T => U = T
    <3>1. S \in Bad /\ Bad \subseteq SUBSET S
      OBVIOUS
    <3> HIDE DEF Bad
    <3> QED
      BY <3>1, SmallestSet
  <2>2. T \in SUBSET S /\ ~Fact(T)
    OBVIOUS
  <2>3. T # {}
    <3> SUFFICES ASSUME T = {} PROVE FALSE
      OBVIOUS
    <3>1. m[{}] = base
      BY DEF IsMerge
    <3>2. Sum({}) = 0 /\ \A u : SumFunctionOnSet(at(u), {}) = 0
      BY SumEmpty
    <3>3. Fact({})
      <4> HIDE DEF Sum
      <4> QED
        BY <1>2, <3>1, <3>2
    <3> QED
      BY <2>2, <3>3
  <2> DEFINE x == FirstOf(T)
             U == RestOf(T)
  <2>4. x \in S /\ U \in SUBSET S /\ Fact(U)
    <3>1. x \in T /\ U \subseteq T /\ U # T
      BY <2>3, FirstIsIn
    <3> HIDE DEF Fact, x, U
    <3> QED
      BY <2>1, <2>2, <3>1
  <2>5. m[T] = mergeBalances(nets[x], m[U])
    BY <2>2, <2>3 DEF IsMerge
  <2>6. /\ Sum(T) = volume[x] + Sum(U)
        /\ \A u : SumFunctionOnSet(at(u), T) = at(u)[x] + SumFunctionOnSet(at(u), U)
    BY <1>0, <2>2, <2>3, SumByFirst
  <2>7. /\ Sum(T) \in Nat /\ Sum(U) \in Nat /\ v + Sum(T) <= MaxInt
        /\ \A u : SumFunctionOnSet(at(u), U) \in Int
    <3>1. IsFiniteSet(U) /\ \A u : \A i \in U : at(u)[i] \in Int
      BY <1>0, <1>1, <2>4
    <3> HIDE DEF U
    <3>2. \A u : SumFunctionOnSet(at(u), U) \in Int
      BY <3>1, SumGrows
    <3> QED
      BY <1>0, <2>2, <2>4, <3>2
  <2> HIDE DEF x, U, Sum
  <2>8. volume[x] \in Nat /\ Within(nets[x], volume[x]) /\ SumFunction(nets[x]) = 0
    BY <2>4
  <2>9. v + Sum(U) \in Nat /\ volume[x] + (v + Sum(U)) = v + Sum(T)
        /\ volume[x] + (v + Sum(U)) <= MaxInt
    BY <2>6, <2>7, <2>8
  <2>10. /\ Within(m[T], volume[x] + (v + Sum(U)))
         /\ \A u : BalanceIn(m[T], u) = BalanceIn(nets[x], u) + BalanceIn(m[U], u)
         /\ SumFunction(m[T]) = SumFunction(nets[x]) + SumFunction(m[U])
    BY <2>4, <2>5, <2>8, <2>9, MergeAdds
  <2>11. \A u : BalanceIn(m[T], u) = BalanceIn(base, u) + SumFunctionOnSet(at(u), T)
    <3> TAKE u
    <3>1. BalanceIn(nets[x], u) = at(u)[x] /\ at(u)[x] \in Int /\ BalanceIn(base, u) \in Int
      BY <1>1, <1>2, <2>4
    <3>2. BalanceIn(m[U], u) = BalanceIn(base, u) + SumFunctionOnSet(at(u), U)
      BY <2>4
    <3> QED
      BY <2>6, <2>7, <2>10, <3>1, <3>2
  <2>12. Fact(T)
    BY <2>4, <2>8, <2>9, <2>10, <2>11
  <2> QED
    BY <2>2, <2>12
<1> QED
  BY <1>3 DEF at

\* A transaction moves nobody's balance by more than its amount, and each by
\* what was paid less what is owed, or the other way round for an income.
LEMMA RowNetIs ==
  ASSUME NEW row \in Row, BalancedRow(row), Total(PaymentAmounts(row.payments)) <= MaxInt,
         Total(PaymentAmounts(row.payments)) \in Nat,
         \A i \in DOMAIN row.payments : row.payments[i].amount \in Nat,
         \A i \in DOMAIN row.splits : row.splits[i].share \in Nat
  PROVE  /\ Within(TransactionNet(row.type, row.payments, row.splits),
                   Total(PaymentAmounts(row.payments)))
         /\ SumFunction(TransactionNet(row.type, row.payments, row.splits)) = 0
         /\ \A u : BalanceIn(TransactionNet(row.type, row.payments, row.splits), u)
                     = (IF row.type = Expense THEN 1 ELSE -1)
                         * (Paid(row.payments, u) - Share(row.splits, u))
<1> DEFINE moved == TransactionNet(row.type, row.payments, row.splits)
           K == Users(row.payments) \cup Users(row.splits)
<1>1. /\ IsFiniteSet(DOMAIN row.payments) /\ IsFiniteSet(DOMAIN row.splits)
      /\ row.type \in {Income, Expense} /\ row.amount \in Nat
      /\ Total(PaymentAmounts(row.payments)) = row.amount
      /\ Total([i \in DOMAIN row.splits |-> row.splits[i].share]) = row.amount
      /\ row.amount <= MaxInt
  <2>1. /\ row.payments \in Seq(Payment) /\ row.type \in {Income, Expense} /\ row.amount \in Int
        /\ row.splits \in Seq([user : Members, type : {Fixed, Ratio}, text : DecimalText, share : Int])
    BY DEF Row
  <2>2. /\ DOMAIN row.payments = 1..Len(row.payments) /\ Len(row.payments) \in Nat
        /\ DOMAIN row.splits = 1..Len(row.splits) /\ Len(row.splits) \in Nat
    BY <2>1
  <2>3. IsFiniteSet(1..Len(row.payments)) /\ IsFiniteSet(1..Len(row.splits))
    BY SMTT(30), <2>2, FS_Interval
  <2>4. /\ Total(PaymentAmounts(row.payments)) = row.amount /\ row.amount > 0
        /\ row.amount <= MaxInt
    <3>1. row.amount <= MaxInt \/ row.amount > MaxInt
      BY <2>1, MaxIntAssumption
    <3>2. Total(PaymentAmounts(row.payments)) > MaxInt => FALSE
      <4> DEFINE P == Total(PaymentAmounts(row.payments))
      <4>1. P <= MaxInt /\ P \in Nat /\ MaxInt \in Nat
        BY MaxIntAssumption
      <4> HIDE DEF P
      <4> QED
        BY <4>1 DEF P
    <3> QED
      BY <3>2 DEF BalancedRow
  <2> QED
    BY <2>1, <2>2, <2>3, <2>4 DEF BalancedRow, ShareAmounts
<1>2. /\ IsFiniteSet(DOMAIN moved) /\ SumFunction(moved) = 0
      /\ \A u \in DOMAIN moved :
           /\ moved[u] = IF row.type = Income THEN Share(row.splits, u) - Paid(row.payments, u)
                                              ELSE Paid(row.payments, u) - Share(row.splits, u)
           /\ moved[u] \in -row.amount..row.amount
  BY <1>1, NetsCancel
<1>3. DOMAIN moved = K
  BY DEF TransactionNet
<1>4. \A u : Paid(row.payments, u) \in Int /\ Share(row.splits, u) \in Int
  <2> TAKE u
  <2> DEFINE amounts == [i \in DOMAIN row.payments |-> row.payments[i].amount]
             portions == [i \in DOMAIN row.splits |-> row.splits[i].share]
             P == {i \in DOMAIN row.payments : row.payments[i].user = u}
             Q == {i \in DOMAIN row.splits : row.splits[i].user = u}
  <2>1. /\ IsFiniteSet(P) /\ \A i \in P : amounts[i] \in Int
        /\ IsFiniteSet(Q) /\ \A i \in Q : portions[i] \in Int
    BY <1>1, FS_Subset
  <2>2. Paid(row.payments, u) = SumFunctionOnSet(amounts, P)
    BY DEF Paid, AmountOf
  <2>3. Share(row.splits, u) = SumFunctionOnSet(portions, Q)
    BY DEF Share, AmountOf
  <2> HIDE DEF amounts, portions, P, Q
  <2> QED
    BY <2>1, <2>2, <2>3, SumGrows
<1>5. \A u : u \notin K => Paid(row.payments, u) = 0 /\ Share(row.splits, u) = 0
  <2> TAKE u
  <2> HAVE u \notin K
  <2>1. {i \in DOMAIN row.payments : row.payments[i].user = u} = {}
    BY DEF Users
  <2>2. {i \in DOMAIN row.splits : row.splits[i].user = u} = {}
    BY DEF Users
  <2> QED
    BY <2>1, <2>2, SumEmpty DEF Paid, Share, AmountOf
<1> HIDE DEF moved, K
<1>6. ASSUME NEW u
      PROVE  BalanceIn(moved, u) = (IF row.type = Expense THEN 1 ELSE -1)
                                     * (Paid(row.payments, u) - Share(row.splits, u))
  <2>1. CASE u \in K
    BY <1>1, <1>2, <1>3, <1>4, <2>1 DEF BalanceIn, Income, Expense
  <2>2. CASE u \notin K
    BY <1>3, <1>5, <2>2 DEF BalanceIn
  <2> QED
    BY <2>1, <2>2
<1> QED
  BY <1>1, <1>2, <1>6 DEF moved, Within

\* What a settlement moves u's balance by.
TransferMoves(transfer, u) ==
  CASE transfer.from = u -> transfer.amount
    [] transfer.to = u -> -transfer.amount
    [] OTHER -> 0

LEMMA SettlementsMove ==
  ASSUME NEW transfers, IsFiniteSet(DOMAIN transfers),
         \A k \in DOMAIN transfers : transfers[k].amount \in Nat /\ transfers[k].from # transfers[k].to,
         NEW volume, \A k \in DOMAIN transfers : volume[k] = transfers[k].amount,
         SumFunctionOnSet(volume, DOMAIN transfers) <= MaxInt
  PROVE  /\ SumFunctionOnSet(volume, DOMAIN transfers) \in Nat
         /\ Within(SettlementNet(transfers), SumFunctionOnSet(volume, DOMAIN transfers))
         /\ SumFunction(SettlementNet(transfers)) = 0
         /\ \A u : BalanceIn(SettlementNet(transfers), u)
                     = SumFunctionOnSet([k \in DOMAIN transfers |-> TransferMoves(transfers[k], u)],
                                        DOMAIN transfers)
<1> DEFINE S == DOMAIN transfers
           K == {transfers[k].from : k \in S} \cup {transfers[k].to : k \in S}
           V == SumFunctionOnSet(volume, S)
           amounts == [k \in S |-> transfers[k].amount]
           senders == [k \in S |-> [user |-> transfers[k].from]]
           receivers == [k \in S |-> [user |-> transfers[k].to]]
           sent == [u \in K |-> Sent(transfers, u)]
           received == [u \in K |-> Received(transfers, u)]
           settled == SettlementNet(transfers)
           minus(u) == [k \in S |-> IF transfers[k].to = u THEN transfers[k].amount ELSE 0]
           plus(u) == [k \in S |-> IF transfers[k].from = u THEN transfers[k].amount ELSE 0]
           moved(u) == [k \in S |-> TransferMoves(transfers[k], u)]
<1>1. SumFunctionOnSet(amounts, S) = V /\ V \in Nat /\ \A k \in S : amounts[k] \in Nat
  <2>1. \A k \in S : amounts[k] \in Int /\ volume[k] = amounts[k] /\ volume[k] \in Nat
    OBVIOUS
  <2> HIDE DEF amounts
  <2> QED
    BY <2>1, SumEqual, SumOfNaturals
<1>2. /\ DOMAIN senders = S /\ DOMAIN receivers = S
      /\ Users(senders) \subseteq K /\ Users(receivers) \subseteq K
      /\ \A k \in S : senders[k].user = transfers[k].from /\ receivers[k].user = transfers[k].to
  BY DEF Users
<1>3. K = Users(senders) \cup Users(receivers)
  BY DEF Users
<1>4. IsFiniteSet(K)
  <2>1. IsFiniteSet(Users(senders)) /\ IsFiniteSet(Users(receivers))
    BY <1>2, UsersAreFinite
  <2> HIDE DEF senders, receivers, K
  <2> QED
    BY <1>3, <2>1, FS_Union
<1>5. \A u : /\ Sent(transfers, u) = SumFunctionOnSet(amounts, {k \in S : transfers[k].from = u})
             /\ Received(transfers, u) = SumFunctionOnSet(amounts, {k \in S : transfers[k].to = u})
  BY DEF Sent, Received, AmountOf
<1>6. SumFunctionOnSet(sent, K) = V /\ \A u \in K : sent[u] \in 0..V
  <2>1. \A u \in K : sent[u] = SumFunctionOnSet(amounts, {k \in DOMAIN senders : senders[k].user = u})
    <3> TAKE u \in K
    <3>1. {k \in DOMAIN senders : senders[k].user = u} = {k \in S : transfers[k].from = u}
      BY <1>2
    <3> QED
      BY <1>5, <3>1
  <2>2. /\ IsFiniteSet(DOMAIN senders) /\ Users(senders) \subseteq K
        /\ \A k \in DOMAIN senders : amounts[k] \in Nat
    BY <1>1, <1>2
  <2> HIDE DEF sent, amounts, K, senders, V, S
  <2>3. /\ SumFunctionOnSet(sent, K) = SumFunctionOnSet(amounts, DOMAIN senders)
        /\ \A u \in K : sent[u] \in 0..SumFunctionOnSet(amounts, DOMAIN senders)
    BY <1>4, <2>1, <2>2, AmountsByUser
  <2> QED
    BY <1>1, <1>2, <2>3
<1>7. SumFunctionOnSet(received, K) = V /\ \A u \in K : received[u] \in 0..V
  <2>1. \A u \in K : received[u] = SumFunctionOnSet(amounts, {k \in DOMAIN receivers : receivers[k].user = u})
    <3> TAKE u \in K
    <3>1. {k \in DOMAIN receivers : receivers[k].user = u} = {k \in S : transfers[k].to = u}
      BY <1>2
    <3> QED
      BY ZenonT(60), <1>5, <3>1
  <2>2. /\ IsFiniteSet(DOMAIN receivers) /\ Users(receivers) \subseteq K
        /\ \A k \in DOMAIN receivers : amounts[k] \in Nat
    BY <1>1, <1>2
  <2> HIDE DEF received, amounts, K, receivers, V, S
  <2>3. /\ SumFunctionOnSet(received, K) = SumFunctionOnSet(amounts, DOMAIN receivers)
        /\ \A u \in K : received[u] \in 0..SumFunctionOnSet(amounts, DOMAIN receivers)
    BY <1>4, <2>1, <2>2, AmountsByUser
  <2> QED
    BY <1>1, <1>2, <2>3
<1>8. DOMAIN settled = K
  BY DEF SettlementNet
<1>9. \A u \in K : settled[u] = sent[u] - received[u] /\ settled[u] \in -V..V
  <2>1. \A u \in K : settled[u] = Wrap(sent[u] - received[u])
    BY DEF SettlementNet
  <2>2. ASSUME NEW a \in 0..V, NEW b \in 0..V
        PROVE  Wrap(a - b) = a - b /\ a - b \in -V..V
    <3>1. a - b \in -(MaxInt + 1)..MaxInt /\ a - b \in -V..V
      <4> V <= MaxInt
        OBVIOUS
      <4> HIDE DEF V
      <4> QED
        BY <1>1, MaxIntAssumption
    <3> QED
      BY <3>1, WrapKeepsInt64
  <2> HIDE DEF settled, sent, received, K, V
  <2> QED
    BY <1>6, <1>7, <2>1, <2>2
<1>10. SumFunctionOnSet(settled, K) = 0
  <2> HIDE DEF settled, sent, received, K, V
  <2>1. \A u \in K : settled[u] \in Int /\ received[u] \in Int /\ sent[u] = settled[u] + received[u]
    BY <1>1, <1>6, <1>7, <1>9
  <2>2. SumFunctionOnSet(sent, K) = SumFunctionOnSet(settled, K) + SumFunctionOnSet(received, K)
        /\ SumFunctionOnSet(settled, K) \in Int
    BY <1>4, <2>1, SumPlus, SumGrows
  <2> QED
    BY <1>1, <1>6, <1>7, <2>2
<1>11. ASSUME NEW u
       PROVE  /\ SumFunctionOnSet(moved(u), S) = Sent(transfers, u) - Received(transfers, u)
              /\ Sent(transfers, u) \in Int /\ Received(transfers, u) \in Int
  <2> DEFINE From == {k \in S : transfers[k].from = u}
             To == {k \in S : transfers[k].to = u}
             a == plus(u)
             b == minus(u)
             c == moved(u)
  <2>1. /\ From \in SUBSET S /\ To \in SUBSET S
        /\ \A k \in S : amounts[k] \in Int /\ a[k] \in Int /\ b[k] \in Int /\ c[k] \in Int
        /\ \A k \in From : a[k] = amounts[k]
        /\ \A k \in S \ From : a[k] = 0
        /\ \A k \in To : b[k] = amounts[k]
        /\ \A k \in S \ To : b[k] = 0
        /\ \A k \in S : a[k] = c[k] + b[k]
    BY DEF TransferMoves
  <2>2. Sent(transfers, u) = SumFunctionOnSet(amounts, From)
        /\ Received(transfers, u) = SumFunctionOnSet(amounts, To)
    BY <1>5
  <2> HIDE DEF From, To, a, b, c, amounts
  <2>3. SumFunctionOnSet(a, S) = SumFunctionOnSet(amounts, From)
    BY <2>1, SumOnPart
  <2>4. SumFunctionOnSet(b, S) = SumFunctionOnSet(amounts, To)
    BY <2>1, SumOnPart
  <2>5. /\ SumFunctionOnSet(a, S) = SumFunctionOnSet(c, S) + SumFunctionOnSet(b, S)
        /\ SumFunctionOnSet(c, S) \in Int /\ SumFunctionOnSet(b, S) \in Int
        /\ SumFunctionOnSet(a, S) \in Int
    BY <2>1, SumPlus, SumGrows
  <2>6. SumFunctionOnSet(c, S) = Sent(transfers, u) - Received(transfers, u)
        /\ Sent(transfers, u) \in Int /\ Received(transfers, u) \in Int
    BY <2>2, <2>3, <2>4, <2>5
  <2> QED
    BY <2>6 DEF c
<1>12. ASSUME NEW u
       PROVE  BalanceIn(settled, u) = SumFunctionOnSet(moved(u), S)
  <2>1. CASE u \in K
    <3>1. sent[u] = Sent(transfers, u) /\ received[u] = Received(transfers, u)
      BY <2>1
    <3> HIDE DEF settled, sent, received, K, moved
    <3> QED
      BY <1>8, <1>9, <1>11, <2>1, <3>1 DEF BalanceIn
  <2>2. CASE u \notin K
    <3>1. {k \in S : transfers[k].from = u} = {} /\ {k \in S : transfers[k].to = u} = {}
      BY <2>2
    <3>2. Sent(transfers, u) = 0 /\ Received(transfers, u) = 0
      BY <1>5, <3>1, SumEmpty
    <3> HIDE DEF settled, K, moved
    <3> QED
      BY <1>8, <1>11, <2>2, <3>2 DEF BalanceIn
  <2> QED
    BY <2>1, <2>2
<1> HIDE DEF K, settled
<1> QED
  BY <1>1, <1>4, <1>8, <1>9, <1>10, <1>12 DEF Within, settled, SumFunction

-----------------------------------------------------------------------------
(* One draft.                                                              *)

\* What has been checked of the draft, and what the shares and the nets were
\* computed from.
ArithmeticInv ==
  /\ draft \in Inputs
  /\ shares # Failed => shares = AllocateShares(draft.amount, draft.splits)
  /\ stage \in {"splits", "balances", "accepted"} => ValidatePayments(draft.amount, draft.payments)
  /\ stage \in {"balances", "accepted"} => shares # Failed
  /\ stage = "accepted" => net = TransactionNet(draft.type, draft.payments, SplitRows)

THEOREM ArithmeticInvariance == ArithmeticSpec => []ArithmeticInv
<1>1. ArithmeticInit => ArithmeticInv
  BY DEF ArithmeticInit, ArithmeticInv
<1>2. ArithmeticInv /\ [ArithmeticNext]_arithmeticVars => ArithmeticInv'
  <2> SUFFICES ASSUME ArithmeticInv, [ArithmeticNext]_arithmeticVars PROVE ArithmeticInv'
    OBVIOUS
  <2>1. CASE CheckPayments
    BY <2>1 DEF CheckPayments, ArithmeticInv, SplitRows
  <2>2. CASE Allocate
    BY <2>2 DEF Allocate, ArithmeticInv, SplitRows
  <2>3. CASE CalculateBalances
    BY <2>3 DEF CalculateBalances, ArithmeticInv, SplitRows
  <2>4. CASE UNCHANGED arithmeticVars
    BY <2>4 DEF arithmeticVars, ArithmeticInv, SplitRows
  <2> QED
    BY <2>1, <2>2, <2>3, <2>4 DEF ArithmeticNext
<1> QED
  BY <1>1, <1>2, PTL DEF ArithmeticSpec

LEMMA InputsAre ==
  ASSUME NEW d \in Inputs
  PROVE  /\ d.amount \in Int /\ IntegerSplits(d.splits)
         /\ \A i \in DOMAIN d.splits :
              d.splits[i] \in [user : Users(d.splits), type : {Fixed, Ratio}, value : Int]
         /\ DOMAIN d.payments = 1..Len(d.payments) /\ Len(d.payments) \in Nat
         /\ \A i \in DOMAIN d.payments : d.payments[i].amount \in Int
<1>1. /\ d.amount \in Int
      /\ d.payments \in Seq([user : Users(d.payments), amount : Int])
      /\ d.splits \in Seq([user : Users(d.splits), type : {Fixed, Ratio}, value : Int])
  BY InputsAssumption
<1>2. /\ \A i \in DOMAIN d.splits :
            d.splits[i] \in [user : Users(d.splits), type : {Fixed, Ratio}, value : Int]
      /\ \A i \in DOMAIN d.payments : d.payments[i] \in [user : Users(d.payments), amount : Int]
      /\ DOMAIN d.payments = 1..Len(d.payments) /\ Len(d.payments) \in Nat
      /\ DOMAIN d.splits = 1..Len(d.splits) /\ Len(d.splits) \in Nat
  <2>1. ASSUME NEW S, NEW s \in Seq(S)
        PROVE  DOMAIN s = 1..Len(s) /\ Len(s) \in Nat /\ \A i \in DOMAIN s : s[i] \in S
    OBVIOUS
  <2> QED
    BY <1>1, <2>1
<1>3. d.splits \in Seq(Range(d.splits))
  <2>1. d.splits \in [1..Len(d.splits) -> Range(d.splits)]
    <3>1. \A i \in DOMAIN d.splits : d.splits[i] \in Range(d.splits)
      BY DEF Range
    <3>2. d.splits = [i \in 1..Len(d.splits) |-> d.splits[i]]
      BY <1>1, <1>2
    <3> QED
      BY <1>2, <3>1, <3>2
  <2> QED
    BY <1>2, <2>1
<1> QED
  BY <1>1, <1>2, <1>3 DEF IntegerSplits

\* AllocateShares, by ratio: see LedgerArithmetic.
THEOREM LargestRemainder == ArithmeticSpec => []AllocationIsLargestRemainder
<1>1. ArithmeticInv => AllocationIsLargestRemainder
  <2> SUFFICES ASSUME ArithmeticInv, shares # Failed, draft.splits[1].type = Ratio
               PROVE  AllocationIsLargestRemainder
    BY DEF AllocationIsLargestRemainder
  <2> DEFINE amount == draft.amount
             splits == draft.splits
             w == Total(Weights(splits))
             over(i) == w * shares[i] - amount * splits[i].value
             rem(i) == (amount * splits[i].value) % w
             scaled(k) == [i \in DOMAIN splits |-> [splits[i] EXCEPT !.value = k * @]]
  <2>1. /\ amount \in Int /\ IntegerSplits(splits)
        /\ \A i \in DOMAIN splits :
             splits[i] \in [user : Users(splits), type : {Fixed, Ratio}, value : Int]
    BY InputsAre DEF ArithmeticInv
  <2>2. shares = AllocateShares(amount, splits)
    BY DEF ArithmeticInv
  <2>3. AllocationInput(amount, splits) /\ shares \in [DOMAIN splits -> Nat] /\ Total(shares) = amount
    BY <2>1, <2>2, SharesSumUp
  <2>4. shares = RatioShares(amount, splits)
    BY <2>2, <2>3 DEF AllocateShares, Fixed, Ratio
  <2> HIDE DEF amount, splits
  <2>5. /\ \A i \in DOMAIN splits : -w < over(i) /\ over(i) < w
        /\ \A i, j \in DOMAIN splits : over(i) > 0 /\ over(j) <= 0 => Precedes(amount, splits, i, j)
    BY <2>1, <2>3, <2>4, RoundedUpPrecedes
  <2>6. \A i, j \in DOMAIN splits :
          over(i) > 0 /\ over(j) <= 0 => rem(i) > rem(j) \/ (rem(i) = rem(j) /\ i < j)
    BY <2>5 DEF Precedes, Remainder
  <2>7. \A k \in 2..3 : AllocateShares(amount, scaled(k)) = shares
    <3> SUFFICES ASSUME NEW k \in 2..3 PROVE AllocateShares(amount, scaled(k)) = shares
      OBVIOUS
    <3>1. /\ DOMAIN scaled(k) = DOMAIN splits
          /\ \A i \in DOMAIN splits : /\ scaled(k)[i].value = k * splits[i].value
                                      /\ scaled(k)[i].user = splits[i].user
                                      /\ scaled(k)[i].type = splits[i].type
      <4>1. ASSUME NEW U, NEW r \in [user : U, type : {Fixed, Ratio}, value : Int]
            PROVE  LET s == [r EXCEPT !.value = k * @]
                   IN  s.value = k * r.value /\ s.user = r.user /\ s.type = r.type
        OBVIOUS
      <4> QED
        BY <2>1, <4>1
    <3> DEFINE more == scaled(k)
    <3>2. /\ Len(splits) \in Nat \ {0} /\ DOMAIN splits = 1..Len(splits)
          /\ \A i \in DOMAIN splits : splits[i].value \in Nat \ {0}
          /\ amount > 0 /\ ValidSplits(splits)
      BY <2>1, <2>3, SplitsAre DEF AllocationInput
    <3>3. /\ more = [i \in 1..Len(splits) |-> more[i]]
          /\ \A i \in 1..Len(splits) : more[i] \in Range(more)
      <4>1. more = [i \in DOMAIN splits |-> more[i]]
        OBVIOUS
      <4>2. \A i \in DOMAIN more : more[i] \in Range(more)
        BY DEF Range
      <4> HIDE DEF more
      <4> QED
        BY <3>1, <3>2, <4>1, <4>2 DEF more
    <3> HIDE DEF more
    <3>4. more \in [1..Len(splits) -> Range(more)]
      BY <3>3
    <3>5. more \in Seq(Range(more)) /\ more # <<>>
      BY <3>2, <3>4
    <3>6. /\ DOMAIN more = DOMAIN splits
          /\ \A i \in DOMAIN splits : /\ more[i].value = k * splits[i].value
                                      /\ more[i].user = splits[i].user
                                      /\ more[i].type = splits[i].type
      BY <3>1 DEF more
    <3>7. IntegerSplits(more)
      BY <3>2, <3>5, <3>6 DEF IntegerSplits
    <3>8. AllocationInput(amount, more)
      <4>1. DistinctUsers(more)
        BY <3>2, <3>6 DEF ValidSplits, DistinctUsers
      <4>2. 1 \in DOMAIN splits
        BY <3>2
      <4>3. \A i \in DOMAIN splits : more[i].value > 0 /\ more[i].type = more[1].type
        BY <3>2, <3>6, <4>2 DEF ValidSplits
      <4> QED
        BY <3>2, <3>5, <3>6, <4>1, <4>3 DEF AllocationInput, ValidSplits
    <3>9. RatioShares(amount, more) = RatioShares(amount, splits)
      BY <2>1, <2>3, <3>6, <3>7, <3>8, OnlyProportionsMatter
    <3>10. more[1].type = Ratio
      <4>1. 1 \in DOMAIN splits
        BY <3>2
      <4> QED
        BY <3>6, <4>1 DEF splits
    <3> QED
      BY <2>4, <3>8, <3>9, <3>10 DEF AllocateShares, Fixed, Ratio, more
  <2> QED
    BY <2>3, <2>5, <2>6, <2>7 DEF AllocationIsLargestRemainder, amount, splits
<1> QED
  BY <1>1, ArithmeticInvariance, PTL

\* What payments that were accepted sum to.
LEMMA PaymentsSum ==
  ASSUME NEW amount, NEW payments, ValidatePayments(amount, payments),
         DOMAIN payments = 1..Len(payments), Len(payments) \in Nat,
         \A i \in DOMAIN payments : payments[i].amount \in Int
  PROVE  /\ Total(PaymentAmounts(payments)) \in Nat
         /\ IsFiniteSet(DOMAIN payments) /\ \A i \in DOMAIN payments : payments[i].amount \in Nat
         /\ Total(PaymentAmounts(payments)) <= MaxInt => Total(PaymentAmounts(payments)) = amount
<1> DEFINE P == Total(PaymentAmounts(payments))
<1>1. \A i \in DOMAIN payments : payments[i].amount \in Nat
  BY DEF ValidatePayments
<1>2. IsFiniteSet(DOMAIN payments)
  <2>1. IsFiniteSet(1..Len(payments))
    BY FS_Interval
  <2> QED
    BY <2>1
<1>3. P \in Nat
  <2>1. DOMAIN PaymentAmounts(payments) = DOMAIN payments
    BY DEF PaymentAmounts
  <2>2. \A i \in DOMAIN payments : PaymentAmounts(payments)[i] \in Nat
    BY <1>1 DEF PaymentAmounts
  <2> QED
    BY <1>2, <2>1, <2>2, SumOfNaturals DEF Total, SumFunction
<1>4. Wrap(P) = amount
  BY DEF ValidatePayments
<1> HIDE DEF P
<1>5. ASSUME P <= MaxInt
      PROVE  P = amount
  <2>1. P \in -(MaxInt + 1)..MaxInt
    BY <1>3, <1>5, MaxIntAssumption
  <2> QED
    BY <1>4, <2>1, WrapKeepsInt64
<1> QED
  BY <1>1, <1>2, <1>3, <1>5 DEF P

\* CreateGroupTransaction: see LedgerArithmetic.
THEOREM AcceptedBalance == ArithmeticSpec => []AcceptedIsBalanced
<1>1. ArithmeticInv => AcceptedIsBalanced
  <2> SUFFICES ASSUME ArithmeticInv, stage = "accepted"
               PROVE  AcceptedIsBalanced
    BY DEF AcceptedIsBalanced
  <2> DEFINE amount == draft.amount
             splits == draft.splits
             payments == draft.payments
             P == Total(PaymentAmounts(payments))
  <2>1. /\ amount \in Int /\ IntegerSplits(splits)
        /\ DOMAIN payments = 1..Len(payments) /\ Len(payments) \in Nat
        /\ \A i \in DOMAIN payments : payments[i].amount \in Int
    BY InputsAre DEF ArithmeticInv
  <2>2. /\ shares = AllocateShares(amount, splits) /\ shares # Failed
        /\ ValidatePayments(amount, payments) /\ net = TransactionNet(draft.type, payments, SplitRows)
    BY DEF ArithmeticInv
  <2>3. AllocationInput(amount, splits) /\ shares \in [DOMAIN splits -> Nat] /\ Total(shares) = amount
    BY <2>1, <2>2, SharesSumUp
  <2>4. splits[1].type = Fixed => shares = Weights(splits)
    BY <2>2, <2>3 DEF AllocateShares
  <2>5. /\ P \in Nat /\ IsFiniteSet(DOMAIN payments)
        /\ \A i \in DOMAIN payments : payments[i].amount \in Nat
        /\ P <= MaxInt => P = amount
    <3> HIDE DEF payments, amount
    <3> QED
      BY <2>1, <2>2, PaymentsSum
  <2>6. CASE P > MaxInt
    BY <2>3, <2>4, <2>6 DEF AcceptedIsBalanced
  <2>7. CASE P \in 0..MaxInt
    <3>2. P = amount
      <4> HIDE DEF P, amount
      <4> QED
        BY <2>5, <2>7, MaxIntAssumption
    <3>3. /\ DOMAIN SplitRows = DOMAIN splits /\ IsFiniteSet(DOMAIN SplitRows)
          /\ \A i \in DOMAIN SplitRows : SplitRows[i].share = shares[i] /\ SplitRows[i].share \in Nat
      BY <2>1, <2>3, SplitsAre DEF SplitRows
    <3>4. [i \in DOMAIN SplitRows |-> SplitRows[i].share] = shares
      <4> HIDE DEF splits
      <4> QED
        BY <2>3, <3>3
    <3>5. SumFunction(net) = 0
      <4> HIDE DEF splits, payments, amount
      <4> QED
        BY <2>2, <2>3, <2>5, <2>7, <3>2, <3>3, <3>4, NetsCancel
    <3> QED
      BY <2>3, <2>4, <3>2, <3>5 DEF AcceptedIsBalanced
  <2> QED
    BY <2>5, <2>6, <2>7, MaxIntAssumption
<1> QED
  BY <1>1, ArithmeticInvariance, PTL

-----------------------------------------------------------------------------
(* The suggestions that settle a group.                                    *)

Transfer == [from : People, to : People, amount : Nat \ {0}]

\* The list of those whose owed[u] is positive, and how much it is.
Keeps(list, owed) ==
  /\ list \in Seq([user : People, amount : Nat \ {0}])
  /\ \A i \in DOMAIN list : owed[list[i].user] = list[i].amount
  /\ \A u \in People : owed[u] > 0 => \E i \in DOMAIN list : list[i].user = u
  /\ \A i, j \in DOMAIN list : list[i].user = list[j].user => i = j

\* Who is owed something, and how much, as SettlingInit lists them.
Positive(owed) == {u \in People : owed[u] > 0}

Positions(owed) == {[user |-> u, amount |-> owed[u]] : u \in Positive(owed)}

\* The list starts with its largest amount.
LargestAhead(list) == \A i \in DOMAIN list : list[i].amount <= list[1].amount

\* What the proofs need of a sequence.
LEMMA SequenceIs ==
  ASSUME NEW S, NEW s \in Seq(S)
  PROVE  /\ DOMAIN s = 1..Len(s) /\ Len(s) \in Nat /\ \A i \in DOMAIN s : s[i] \in S
         /\ IsFiniteSet(DOMAIN s) /\ Cardinality(DOMAIN s) = Len(s)
         /\ s # <<>> <=> Len(s) > 0
<1>1. DOMAIN s = 1..Len(s) /\ Len(s) \in Nat /\ (s # <<>> <=> Len(s) > 0)
  OBVIOUS
<1>2. \A i \in DOMAIN s : s[i] \in S
  OBVIOUS
<1>3. IsFiniteSet(1..Len(s)) /\ Cardinality(1..Len(s)) = Len(s)
  BY SMTT(30), <1>1, FS_Interval
<1> QED
  BY <1>1, <1>2, <1>3

\* What sort.Slice makes of the positions of those who are owed something.
LEMMA SortedPositions ==
  ASSUME NEW owed, \A u \in People : owed[u] \in Int,
         NEW list \in LargestFirst(Positions(owed))
  PROVE  Keeps(list, owed) /\ Len(list) = Cardinality(Positive(owed)) /\ LargestAhead(list)
<1> DEFINE D == Positive(owed)
           P == Positions(owed)
           f == [u \in D |-> [user |-> u, amount |-> owed[u]]]
           n == Cardinality(P)
<1>1. IsFiniteSet(D)
  BY PeopleAssumption, FS_Subset DEF Positive
<1>2. f \in Bijection(D, P)
  BY DEF Positions, Bijection, Injection, Surjection, IsInjective
<1>3. IsFiniteSet(P) /\ n = Cardinality(D) /\ n \in Nat
  <2> HIDE DEF P, f
  <2>1. ExistsBijection(D, P)
    BY <1>2 DEF ExistsBijection
  <2> QED
    BY <1>1, <2>1, FS_Bijection, FS_CardinalityType
<1>4. /\ list \in [1..n -> P]
      /\ \A i, j \in 1..n : i # j => list[i] # list[j]
      /\ \A i, j \in 1..Len(list) : i < j => list[i].amount >= list[j].amount
  BY DEF LargestFirst, SetToSeqs
<1>5. \A p \in P : p \in [user : People, amount : Nat \ {0}] /\ p.user \in D /\ p.amount = owed[p.user]
  BY DEF Positions, Positive
<1>6. \A u \in D : f[u] \in P /\ f[u].user = u
  BY DEF Positions
<1>7. \A p, q \in P : p.user = q.user => p = q
  BY DEF Positions
<1> HIDE DEF P, n, f
<1>8. DOMAIN list = 1..n /\ Len(list) = n /\ list \in Seq(P)
  BY <1>3, <1>4
<1>9. list \in Seq([user : People, amount : Nat \ {0}])
  <2>1. \A i \in 1..n : list[i] \in [user : People, amount : Nat \ {0}]
    BY <1>4, <1>5
  <2>2. list = [i \in 1..n |-> list[i]]
    BY <1>4
  <2> DEFINE T == [user : People, amount : Nat \ {0}]
  <2>3. list \in [1..n -> T]
    BY <2>1, <2>2
  <2> HIDE DEF T
  <2>4. ASSUME NEW m \in Nat, NEW s \in [1..m -> T]
        PROVE  s \in Seq(T)
    OBVIOUS
  <2>5. list \in Seq(T)
    BY <1>3, <2>3, <2>4
  <2> QED
    BY <2>5 DEF T
<1>10. \A p \in P : \E i \in DOMAIN list : list[i] = p
  <2>1. list \in Injection(1..n, P)
    BY <1>4 DEF Injection, IsInjective
  <2>2. IsFiniteSet(1..n) /\ Cardinality(1..n) = n
    BY <1>3, FS_Interval
  <2>3. list \in Surjection(1..n, P)
    BY <1>3, <2>1, <2>2, FS_Injection DEF n
  <2> QED
    BY <1>8, <2>3 DEF Surjection
<1>11. \A i \in DOMAIN list : owed[list[i].user] = list[i].amount
  BY <1>4, <1>5, <1>8
<1>12. \A u \in People : owed[u] > 0 => \E i \in DOMAIN list : list[i].user = u
  BY <1>6, <1>10 DEF Positive
<1>13. \A i, j \in DOMAIN list : list[i].user = list[j].user => i = j
  BY <1>4, <1>7, <1>8
<1>14. LargestAhead(list)
  <2>1. \A i \in DOMAIN list : 1 \in DOMAIN list /\ list[i].amount \in Int /\ list[1].amount \in Int
    BY <1>3, <1>4, <1>5, <1>8
  <2>2. \A i \in DOMAIN list : 1 < i => list[1].amount >= list[i].amount
    BY <1>4, <1>8, <2>1
  <2> QED
    BY <1>3, <1>8, <2>1, <2>2 DEF LargestAhead
<1> QED
  BY <1>3, <1>8, <1>9, <1>11, <1>12, <1>13, <1>14 DEF Keeps

\* The first of a list settles part of what it has, or all of it.
LEMMA FirstSettles ==
  ASSUME NEW owed, NEW list, Keeps(list, owed), list # <<>>,
         NEW amount \in 1..Head(list).amount,
         NEW after, \A u \in People : owed[u] \in Int /\ after[u] \in Int,
         after[Head(list).user] = owed[Head(list).user] - amount,
         \A u \in People : \/ u = Head(list).user
                           \/ after[u] = owed[u]
                           \/ owed[u] <= 0 /\ after[u] <= 0
  PROVE  /\ Keeps(SettleFirst(list, amount), after)
         /\ Len(SettleFirst(list, amount))
              = IF amount = Head(list).amount THEN Len(list) - 1 ELSE Len(list)
         /\ \A i \in DOMAIN SettleFirst(list, amount) :
              \E j \in DOMAIN list : list[j].user = SettleFirst(list, amount)[i].user
<1> DEFINE T == [user : People, amount : Nat \ {0}]
           n == Len(list)
           first == Head(list)
           new == SettleFirst(list, amount)
<1>1. /\ list \in Seq(T) /\ n \in Nat \ {0} /\ DOMAIN list = 1..n
      /\ \A i \in DOMAIN list : list[i] \in T
      /\ first = list[1] /\ first \in T
  <2>1. list \in Seq(T)
    BY DEF Keeps
  <2>2. n \in Nat /\ n > 0 /\ DOMAIN list = 1..n /\ \A i \in DOMAIN list : list[i] \in T
    <3> HIDE DEF T
    <3> QED
      BY <2>1, SequenceIs
  <2>3. first = list[1] /\ 1 \in DOMAIN list
    BY <2>1, <2>2
  <2> QED
    BY <2>1, <2>2, <2>3
<1>2. /\ \A i \in DOMAIN list : owed[list[i].user] = list[i].amount
      /\ \A u \in People : owed[u] > 0 => \E i \in DOMAIN list : list[i].user = u
      /\ \A i, j \in DOMAIN list : list[i].user = list[j].user => i = j
  BY DEF Keeps
<1>3. \A i \in 2..n : list[i].user # first.user /\ after[list[i].user] = list[i].amount
  <2> SUFFICES ASSUME NEW i \in 2..n
               PROVE  list[i].user # first.user /\ after[list[i].user] = list[i].amount
    OBVIOUS
  <2>1. i \in DOMAIN list /\ 1 \in DOMAIN list /\ i # 1
    BY <1>1
  <2>2. list[i].user # first.user
    BY <1>1, <1>2, <2>1
  <2>3. list[i].user \in People /\ list[i].amount \in Nat \ {0} /\ owed[list[i].user] = list[i].amount
    BY <1>1, <1>2, <2>1
  <2> QED
    BY <2>2, <2>3
<1>4. owed[first.user] = first.amount /\ first.user \in People /\ first.amount \in Nat \ {0} /\ amount \in Nat \ {0}
  BY SMTT(30), <1>1, <1>2
<1>5. \A u \in People : after[u] > 0 => u = first.user \/ \E i \in 2..n : list[i].user = u
  <2> SUFFICES ASSUME NEW u \in People, after[u] > 0, u # first.user
               PROVE  \E i \in 2..n : list[i].user = u
    OBVIOUS
  <2>1. owed[u] > 0
    OBVIOUS
  <2>2. PICK i \in DOMAIN list : list[i].user = u
    BY <1>2, <2>1
  <2>3. i # 1
    BY <1>1, <2>2
  <2> QED
    BY <1>1, <2>2, <2>3
<1>6. CASE amount = first.amount
  <2>1. new = Tail(list)
    BY <1>6 DEF SettleFirst
  <2>2. /\ new \in Seq(T) /\ Len(new) = n - 1 /\ DOMAIN new = 1..(n - 1)
        /\ \A i \in 1..(n - 1) : new[i] = list[i + 1]
    BY <1>1, <2>1
  <2>3. after[first.user] = 0
    BY <1>4, <1>6
  <2> HIDE DEF new, n, first
  <2>4. \A i \in DOMAIN new : after[new[i].user] = new[i].amount
    BY SMTT(30), <1>1, <1>3, <2>2
  <2>5. \A u \in People : after[u] > 0 => \E i \in DOMAIN new : new[i].user = u
    <3> SUFFICES ASSUME NEW u \in People, after[u] > 0
                 PROVE  \E i \in DOMAIN new : new[i].user = u
      OBVIOUS
    <3>1. PICK i \in 2..n : list[i].user = u
      BY <1>5, <2>3
    <3>2. i - 1 \in DOMAIN new /\ new[i - 1] = list[i]
      BY <1>1, <2>2
    <3> QED
      BY <3>1, <3>2
  <2>6. \A i, j \in DOMAIN new : new[i].user = new[j].user => i = j
    <3> SUFFICES ASSUME NEW i \in DOMAIN new, NEW j \in DOMAIN new, new[i].user = new[j].user
                 PROVE  i = j
      OBVIOUS
    <3>1. i \in 1..(n - 1) /\ j \in 1..(n - 1)
      BY <2>2
    <3>2. /\ i + 1 \in DOMAIN list /\ j + 1 \in DOMAIN list
          /\ new[i] = list[i + 1] /\ new[j] = list[j + 1]
      <4>1. ASSUME NEW k \in 1..(n - 1)
            PROVE  k + 1 \in DOMAIN list /\ new[k] = list[k + 1]
        BY <1>1, <2>2
      <4> QED
        BY <3>1, <4>1
    <3>3. i + 1 = j + 1
      BY <1>2, <3>2
    <3> QED
      BY <3>1, <3>3
  <2>7. \A i \in DOMAIN new : \E j \in DOMAIN list : list[j].user = new[i].user
    <3> SUFFICES ASSUME NEW i \in DOMAIN new
                 PROVE  \E j \in DOMAIN list : list[j].user = new[i].user
      OBVIOUS
    <3>1. i \in 1..(n - 1)
      BY <2>2
    <3>2. i + 1 \in DOMAIN list /\ new[i] = list[i + 1]
      BY SMTT(30), <1>1, <2>2, <3>1
    <3> QED
      BY <3>2
  <2> QED
    BY <1>6, <2>2, <2>4, <2>5, <2>6, <2>7 DEF Keeps, new, n, first
<1>7. CASE amount # first.amount
  <2> DEFINE smaller == [first EXCEPT !.amount = @ - amount]
  <2>1. new = <<smaller>> \o Tail(list)
    BY <1>7 DEF SettleFirst
  <2>2. smaller \in T /\ smaller.user = first.user /\ smaller.amount = first.amount - amount
    <3>1. first.amount - amount \in Nat \ {0}
      BY <1>4, <1>7
    <3> HIDE DEF first
    <3> QED
      BY <1>1, <3>1
  <2> HIDE DEF smaller
  <2>3. /\ new \in Seq(T) /\ Len(new) = n /\ DOMAIN new = 1..n /\ new[1] = smaller
        /\ \A i \in 2..n : new[i] = list[i]
    BY <1>1, <2>1, <2>2
  <2> HIDE DEF new, n, first
  <2>4. \A i \in DOMAIN new : new[i].user = list[i].user
    BY <1>1, <2>2, <2>3
  <2>5. after[smaller.user] = smaller.amount
    BY <1>4, <2>2 DEF first
  <2>6. \A i \in DOMAIN new : after[new[i].user] = new[i].amount
    BY SMTT(30), <1>1, <1>3, <2>3, <2>5
  <2>7. \A u \in People : after[u] > 0 => \E i \in DOMAIN new : new[i].user = u
    <3> SUFFICES ASSUME NEW u \in People, after[u] > 0
                 PROVE  \E i \in DOMAIN new : new[i].user = u
      OBVIOUS
    <3>1. CASE u = first.user
      <4>1. 1 \in DOMAIN new /\ new[1].user = u
        BY <1>1, <2>2, <2>3, <3>1
      <4> QED
        BY <4>1
    <3>2. CASE \E i \in 2..n : list[i].user = u
      <4>1. PICK i \in 2..n : list[i].user = u
        BY <3>2
      <4>2. i \in DOMAIN new /\ new[i].user = u
        BY <1>1, <2>3, <4>1
      <4> QED
        BY <4>2
    <3> QED
      BY <1>5, <3>1, <3>2
  <2>8. \A i, j \in DOMAIN new : new[i].user = new[j].user => i = j
    BY <1>1, <1>2, <2>3, <2>4
  <2> QED
    BY <1>1, <1>7, <2>3, <2>4, <2>6, <2>7, <2>8 DEF Keeps, new, n, first
<1> QED
  BY <1>6, <1>7

\* What the transfers at the places I sum to; the places of a payer and of a payee.
MovedBy(s, I) == SumFunctionOnSet([i \in DOMAIN s |-> s[i].amount], I)

PaidBy(s, u) == {i \in DOMAIN s : s[i].from = u}

PaidTo(s, u) == {i \in DOMAIN s : s[i].to = u}

LEMMA OpenIs ==
  ASSUME NEW u
  PROVE  Open(u) = balances[u] + MovedBy(suggestions, PaidBy(suggestions, u))
                               - MovedBy(suggestions, PaidTo(suggestions, u))
  BY DEF Open, Moved, MovedBy, PaidBy, PaidTo

LEMMA MovedByType ==
  ASSUME NEW s \in Seq(Transfer), NEW I \in SUBSET (DOMAIN s)
  PROVE  MovedBy(s, I) \in Int
<1> DEFINE a == [i \in DOMAIN s |-> s[i].amount]
<1>1. IsFiniteSet(I) /\ \A i \in I : a[i] \in Int
  <2>1. IsFiniteSet(DOMAIN s) /\ \A i \in DOMAIN s : s[i] \in Transfer
    BY SequenceIs
  <2>2. IsFiniteSet(I)
    BY <2>1, FS_Subset
  <2> QED
    BY <2>1, <2>2 DEF Transfer
<1> HIDE DEF a
<1>2. SumFunctionOnSet(a, I) \in Int
  BY <1>1, SumGrows
<1> QED
  BY <1>2 DEF a, MovedBy

\* One more transfer.
LEMMA MovedAppended ==
  ASSUME NEW s \in Seq(Transfer), NEW t \in Transfer, NEW I \in SUBSET (DOMAIN s)
  PROVE  /\ MovedBy(Append(s, t), I) = MovedBy(s, I)
         /\ MovedBy(Append(s, t), I \cup {Len(s) + 1}) = MovedBy(s, I) + t.amount
<1> DEFINE n == Len(s)
           new == Append(s, t)
           a == [i \in DOMAIN s |-> s[i].amount]
           b == [i \in DOMAIN new |-> new[i].amount]
<1>1. /\ n \in Nat /\ DOMAIN s = 1..n /\ IsFiniteSet(DOMAIN s) /\ \A i \in DOMAIN s : s[i] \in Transfer
  BY SequenceIs
<1>2. DOMAIN new = 1..(n + 1) /\ new[n + 1] = t /\ \A i \in 1..n : new[i] = s[i]
  <2> HIDE DEF Transfer
  <2> QED
    BY <1>1
<1>3. IsFiniteSet(I) /\ n + 1 \notin I
  BY <1>1, FS_Subset
<1>4. /\ \A i \in I : a[i] \in Int /\ b[i] = a[i]
      /\ b[n + 1] = t.amount /\ t.amount \in Int
  <2> HIDE DEF n, new
  <2> QED
    BY <1>1, <1>2 DEF Transfer
<1> HIDE DEF a, b, n
<1>5. SumFunctionOnSet(b, I) = SumFunctionOnSet(a, I)
  BY <1>3, <1>4, SumEqual
<1>6. SumFunctionOnSet(b, I \cup {n + 1}) = SumFunctionOnSet(b, I) + b[n + 1]
  <2>1. \A i \in I \cup {n + 1} : b[i] \in Int
    BY <1>4
  <2> QED
    BY <1>3, <2>1, SumAdds
<1> QED
  BY <1>4, <1>5, <1>6 DEF MovedBy, a, b, n

LEMMA OpenType ==
  ASSUME balances \in [People -> Int], suggestions \in Seq(Transfer), NEW u \in People
  PROVE  Open(u) \in Int
<1>1. PaidBy(suggestions, u) \in SUBSET (DOMAIN suggestions) /\ PaidTo(suggestions, u) \in SUBSET (DOMAIN suggestions)
  BY DEF PaidBy, PaidTo
<1>2. MovedBy(suggestions, PaidBy(suggestions, u)) \in Int /\ MovedBy(suggestions, PaidTo(suggestions, u)) \in Int
  BY <1>1, MovedByType
<1> QED
  BY <1>2, OpenIs

\* Following one more suggestion changes what two people have open.
LEMMA OpenChanges ==
  ASSUME balances \in [People -> Int], suggestions \in Seq(Transfer), UNCHANGED balances,
         NEW t \in Transfer, suggestions' = Append(suggestions, t), t.from # t.to,
         NEW u \in People
  PROVE  Open(u)' = Open(u) + (IF u = t.from THEN t.amount ELSE 0)
                            - (IF u = t.to THEN t.amount ELSE 0)
<1> DEFINE s == suggestions
           n == Len(s)
           B == PaidBy(s, u)
           T == PaidTo(s, u)
<1>1. Open(u)' = balances[u] + MovedBy(Append(s, t), PaidBy(Append(s, t), u))
                             - MovedBy(Append(s, t), PaidTo(Append(s, t), u))
  BY DEF Open, Moved, MovedBy, PaidBy, PaidTo
<1>2. /\ PaidBy(Append(s, t), u) = IF u = t.from THEN B \cup {n + 1} ELSE B
      /\ PaidTo(Append(s, t), u) = IF u = t.to THEN T \cup {n + 1} ELSE T
  <2>1. n \in Nat /\ DOMAIN s = 1..n
    BY SequenceIs
  <2>2. DOMAIN Append(s, t) = 1..(n + 1) /\ Append(s, t)[n + 1] = t /\ \A i \in 1..n : Append(s, t)[i] = s[i]
    <3> HIDE DEF Transfer
    <3> QED
      BY <2>1
  <2> HIDE DEF s, n
  <2> QED
    BY <2>1, <2>2 DEF PaidBy, PaidTo, B, T
<1>3. B \in SUBSET (DOMAIN s) /\ T \in SUBSET (DOMAIN s)
  BY DEF PaidBy, PaidTo
<1>4. MovedBy(s, B) \in Int /\ MovedBy(s, T) \in Int /\ t.amount \in Int /\ balances[u] \in Int
  <2>1. MovedBy(s, B) \in Int /\ MovedBy(s, T) \in Int
    BY <1>3, MovedByType
  <2>2. t.amount \in Int
    BY DEF Transfer
  <2> QED
    BY <2>1, <2>2
<1>5. /\ MovedBy(Append(s, t), B) = MovedBy(s, B)
      /\ MovedBy(Append(s, t), B \cup {n + 1}) = MovedBy(s, B) + t.amount
  BY <1>3, MovedAppended
<1>6. /\ MovedBy(Append(s, t), T) = MovedBy(s, T)
      /\ MovedBy(Append(s, t), T \cup {n + 1}) = MovedBy(s, T) + t.amount
  BY <1>3, MovedAppended
<1>7. Open(u) = balances[u] + MovedBy(s, B) - MovedBy(s, T)
  BY OpenIs
<1> HIDE DEF s, n, B, T
<1>8. CASE u = t.from
  BY <1>1, <1>2, <1>4, <1>5, <1>6, <1>7, <1>8
<1>9. CASE u = t.to
  BY <1>1, <1>2, <1>4, <1>5, <1>6, <1>7, <1>9
<1>10. CASE u # t.from /\ u # t.to
  BY <1>1, <1>2, <1>4, <1>5, <1>6, <1>7, <1>10
<1> QED
  BY <1>8, <1>9, <1>10

\* Whatever has been suggested, what people have open cancels out.
LEMMA OpenCancels ==
  ASSUME balances \in [People -> Int], SumFunction(balances) = 0, suggestions \in Seq(Transfer)
  PROVE  SumFunctionOnSet([u \in People |-> Open(u)], People) = 0
<1> DEFINE s == suggestions
           S == DOMAIN s
           a == [i \in S |-> s[i].amount]
           open == [u \in People |-> Open(u)]
           by == [u \in People |-> MovedBy(s, PaidBy(s, u))]
           to == [u \in People |-> MovedBy(s, PaidTo(s, u))]
           half == [u \in People |-> balances[u] + by[u]]
           groupBy == [u \in People |-> PaidBy(s, u)]
           groupTo == [u \in People |-> PaidTo(s, u)]
<1>1. IsFiniteSet(S) /\ \A i \in S : s[i] \in Transfer
  BY SequenceIs
<1>2. /\ \A i \in S : a[i] \in Int /\ s[i].from \in People /\ s[i].to \in People
      /\ \A u \in People : \A i : i \in groupBy[u] <=> i \in S /\ s[i].from = u
      /\ \A u \in People : \A i : i \in groupTo[u] <=> i \in S /\ s[i].to = u
  BY <1>1 DEF Transfer, PaidBy, PaidTo
<1>3. \A u \in People : /\ by[u] = SumFunctionOnSet(a, groupBy[u])
                        /\ to[u] = SumFunctionOnSet(a, groupTo[u])
  BY DEF MovedBy
<1>4. \A u \in People : /\ balances[u] \in Int /\ by[u] \in Int /\ to[u] \in Int /\ open[u] \in Int
                        /\ half[u] = balances[u] + by[u] /\ half[u] = open[u] + to[u]
  <2> SUFFICES ASSUME NEW u \in People
               PROVE  /\ balances[u] \in Int /\ by[u] \in Int /\ to[u] \in Int /\ open[u] \in Int
                      /\ half[u] = balances[u] + by[u] /\ half[u] = open[u] + to[u]
    OBVIOUS
  <2>1. PaidBy(s, u) \in SUBSET (DOMAIN s) /\ PaidTo(s, u) \in SUBSET (DOMAIN s)
    BY DEF PaidBy, PaidTo
  <2>2. MovedBy(s, PaidBy(s, u)) \in Int /\ MovedBy(s, PaidTo(s, u)) \in Int
    BY <2>1, MovedByType
  <2>3. open[u] = balances[u] + by[u] - to[u] /\ by[u] \in Int /\ to[u] \in Int
    BY <2>2, OpenIs
  <2>4. half[u] = balances[u] + by[u] /\ balances[u] \in Int
    OBVIOUS
  <2> HIDE DEF open, by, to, half
  <2> QED
    BY <2>3, <2>4
<1> HIDE DEF a, S, open, by, to, half, groupBy, groupTo
<1>5. SumFunctionOnSet(by, People) = SumFunctionOnSet(a, S)
  <2>1. IsFiniteSet(People) /\ IsFiniteSet(S) /\ \A i \in S : a[i] \in Int
    BY <1>1, <1>2, PeopleAssumption
  <2>2. Partitions(groupBy, People, S)
    BY SMTT(30), <1>2 DEF Partitions
  <2>3. Totals(by, a, groupBy, People)
    BY <1>3 DEF Totals
  <2> QED
    BY <2>1, <2>2, <2>3, SumByGroups
<1>6. SumFunctionOnSet(to, People) = SumFunctionOnSet(a, S)
  <2>1. IsFiniteSet(People) /\ IsFiniteSet(S) /\ \A i \in S : a[i] \in Int
    BY <1>1, <1>2, PeopleAssumption
  <2>2. Partitions(groupTo, People, S)
    BY <1>2 DEF Partitions
  <2>3. Totals(to, a, groupTo, People)
    BY <1>3 DEF Totals
  <2> QED
    BY <2>1, <2>2, <2>3, SumByGroups
<1>7. SumFunctionOnSet(half, People) = SumFunctionOnSet(balances, People) + SumFunctionOnSet(by, People)
  BY <1>4, PeopleAssumption, SumPlus
<1>8. SumFunctionOnSet(half, People) = SumFunctionOnSet(open, People) + SumFunctionOnSet(to, People)
  BY <1>4, PeopleAssumption, SumPlus
<1>9. SumFunctionOnSet(balances, People) = 0
  BY DEF SumFunction
<1>10. SumFunctionOnSet(a, S) \in Int /\ SumFunctionOnSet(open, People) \in Int
  BY <1>1, <1>2, <1>4, PeopleAssumption, SumGrows
<1> QED
  BY <1>5, <1>6, <1>7, <1>8, <1>9, <1>10 DEF open

\* What each still has to pay, or is still to be paid.
Owes == [u \in People |-> -Open(u)]

Claims == [u \in People |-> Open(u)]

Nonzero == {u \in People : balances[u] # 0}

Smallest(u, v) == Smaller(-balances[u], balances[v])

\* The lists hold what is open, one entry for each person with something open;
\* each person left on them and each transfer takes up one of those who had a
\* balance at the start.
SettlingInv ==
  /\ balances \in [People -> Int] /\ SumFunction(balances) = 0
  /\ suggestions \in Seq(Transfer)
  /\ Keeps(debtors, Owes) /\ Keeps(creditors, Claims)
  /\ \A i \in DOMAIN debtors : balances[debtors[i].user] < 0
  /\ \A i \in DOMAIN creditors : balances[creditors[i].user] > 0
  /\ \A i \in DOMAIN suggestions :
       balances[suggestions[i].from] < 0 /\ balances[suggestions[i].to] > 0
  /\ Len(suggestions) + Len(debtors) + Len(creditors) <= Cardinality(Nonzero)
  /\ suggestions # <<>> /\ debtors = <<>> /\ creditors = <<>>
       => Len(suggestions) < Cardinality(Nonzero)
  /\ suggestions = <<>> => /\ LargestAhead(debtors) /\ LargestAhead(creditors)
                           /\ \A u \in People : Open(u) = balances[u]
  /\ suggestions # <<>> =>
       \A u, v \in People :
         balances[u] < 0 /\ balances[v] > 0 => Smallest(u, v) <= suggestions[1].amount

LEMMA SettlingStarts == SettlingInit => SettlingInv
<1> SUFFICES ASSUME SettlingInit PROVE SettlingInv
  OBVIOUS
<1> DEFINE D == {u \in People : balances[u] < 0}
           C == {u \in People : balances[u] > 0}
<1>1. /\ balances \in [People -> Int] /\ SumFunction(balances) = 0 /\ suggestions = <<>>
      /\ suggestions \in Seq(Transfer) /\ Len(suggestions) = 0 /\ DOMAIN suggestions = {}
  BY PeopleAssumption DEF SettlingInit, CancellingBalances
<1>2. \A u \in People : Open(u) = balances[u]
  <2> SUFFICES ASSUME NEW u \in People PROVE Open(u) = balances[u]
    OBVIOUS
  <2>1. PaidBy(suggestions, u) = {} /\ PaidTo(suggestions, u) = {}
    BY <1>1 DEF PaidBy, PaidTo
  <2>2. MovedBy(suggestions, {}) = 0
    BY SumEmpty DEF MovedBy
  <2> QED
    <3>1. Open(u) = balances[u] + 0 - 0
      BY <2>1, <2>2, OpenIs
    <3>2. balances[u] \in Int
      BY <1>1
    <3> QED
      BY <3>1, <3>2
<1>3. Keeps(debtors, Owes) /\ Len(debtors) = Cardinality(D) /\ LargestAhead(debtors)
  <2>1. \A u \in People : Owes[u] = -balances[u] /\ Owes[u] \in Int
    BY <1>1, <1>2 DEF Owes
  <2>2. D = Positive(Owes)
    BY <1>1, <2>1 DEF Positive
  <2>3. {[user |-> u, amount |-> -balances[u]] : u \in D} = Positions(Owes)
    <3> HIDE DEF Owes, D
    <3> QED
      BY <2>1, <2>2 DEF Positions, Positive
  <2>4. debtors \in LargestFirst(Positions(Owes))
    BY <2>3 DEF SettlingInit
  <2> HIDE DEF D, Owes
  <2> QED
    BY <2>1, <2>2, <2>4, SortedPositions
<1>4. Keeps(creditors, Claims) /\ Len(creditors) = Cardinality(C) /\ LargestAhead(creditors)
  <2>1. \A u \in People : Claims[u] = balances[u] /\ Claims[u] \in Int
    BY <1>1, <1>2 DEF Claims
  <2>2. C = Positive(Claims)
    BY <1>1, <2>1 DEF Positive
  <2>3. {[user |-> u, amount |-> balances[u]] : u \in C} = Positions(Claims)
    <3> HIDE DEF Claims, C
    <3> QED
      BY <2>1, <2>2 DEF Positions, Positive
  <2>4. creditors \in LargestFirst(Positions(Claims))
    BY <2>3 DEF SettlingInit
  <2> HIDE DEF C, Claims
  <2> QED
    BY <2>1, <2>2, <2>4, SortedPositions
<1>5. /\ \A i \in DOMAIN debtors : balances[debtors[i].user] < 0
      /\ \A i \in DOMAIN creditors : balances[creditors[i].user] > 0
  <2>1. /\ \A i \in DOMAIN debtors : debtors[i].user \in People /\ debtors[i].amount \in Nat \ {0}
                                     /\ Owes[debtors[i].user] = debtors[i].amount
        /\ \A i \in DOMAIN creditors : creditors[i].user \in People /\ creditors[i].amount \in Nat \ {0}
                                     /\ Claims[creditors[i].user] = creditors[i].amount
    <3>1. ASSUME NEW list, NEW owed, Keeps(list, owed), NEW i \in DOMAIN list
          PROVE  list[i].user \in People /\ list[i].amount \in Nat \ {0} /\ owed[list[i].user] = list[i].amount
      <4> DEFINE T == [user : People, amount : Nat \ {0}]
      <4>1. list \in Seq(T) /\ owed[list[i].user] = list[i].amount
        BY <3>1 DEF Keeps
      <4>2. list[i] \in T
        <5> HIDE DEF T
        <5> QED
          BY <4>1, SequenceIs
      <4> QED
        BY <4>1, <4>2
    <3> QED
      BY <1>3, <1>4, <3>1
  <2>2. \A u \in People : Owes[u] = -balances[u] /\ Claims[u] = balances[u] /\ balances[u] \in Int
    BY <1>1, <1>2 DEF Owes, Claims
  <2> HIDE DEF Owes, Claims
  <2> QED
    BY <2>1, <2>2
<1>6. Len(suggestions) + Len(debtors) + Len(creditors) <= Cardinality(Nonzero)
  <2>1. IsFiniteSet(D) /\ IsFiniteSet(C)
    BY PeopleAssumption, FS_Subset
  <2>2. D \cap C = {} /\ D \cup C = Nonzero
    BY <1>1 DEF Nonzero
  <2>3. Cardinality(D) \in Nat /\ Cardinality(C) \in Nat
    BY <2>1, FS_CardinalityType
  <2>4. Cardinality(D \cup C) = Cardinality(D) + Cardinality(C) - Cardinality(D \cap C)
    BY <2>1, FS_Union
  <2>5. Cardinality(D \cap C) = 0
    BY <2>2, FS_EmptySet
  <2> HIDE DEF D, C
  <2> QED
    <3>1. Cardinality(Nonzero) = Cardinality(D) + Cardinality(C)
      <4>1. Cardinality(Nonzero) = Cardinality(D \cup C)
        BY <2>2
      <4> QED
        BY <2>3, <2>4, <2>5, <4>1
    <3> QED
      BY <1>1, <1>3, <1>4, <2>3, <3>1
<1> QED
  BY <1>1, <1>2, <1>3, <1>4, <1>5, <1>6 DEF SettlingInv

\* When either list is through, so is the other, and nothing is open.
LEMMA ListsEndTogether ==
  ASSUME SettlingInv, debtors = <<>> \/ creditors = <<>>
  PROVE  debtors = <<>> /\ creditors = <<>> /\ \A u \in People : Open(u) = 0
<1>1. \A u \in People : Open(u) \in Int
  BY OpenType DEF SettlingInv
<1>2. SumFunctionOnSet(Claims, People) = 0
  BY OpenCancels DEF SettlingInv, Claims
<1>3. SumFunctionOnSet(Owes, People) = 0
  <2>1. \A u \in People : Claims[u] \in Int /\ Owes[u] = (-1) * Claims[u]
    BY <1>1 DEF Owes, Claims
  <2>2. SumFunctionOnSet(Owes, People) = (-1) * SumFunctionOnSet(Claims, People)
    BY <2>1, PeopleAssumption, SumScaled
  <2> QED
    BY <1>2, <2>2
<1>4. \A u \in People : Open(u) = 0
  <2>1. CASE debtors = <<>>
    <3>1. \A u \in People : ~(Owes[u] > 0)
      BY <2>1 DEF SettlingInv, Keeps
    <3>2. \A u \in People : Claims[u] = Open(u) /\ Claims[u] \in Nat
      BY <1>1, <3>1 DEF Owes, Claims
    <3>3. \A u \in People : Claims[u] <= 0
      <4> HIDE DEF Claims
      <4> QED
        BY <1>2, <3>2, PeopleAssumption, SumOfNaturals
    <3> QED
      BY <3>2, <3>3
  <2>2. CASE creditors = <<>>
    <3>1. \A u \in People : ~(Claims[u] > 0)
      BY <2>2 DEF SettlingInv, Keeps
    <3>2. \A u \in People : Owes[u] = -Open(u) /\ Owes[u] \in Nat
      BY <1>1, <3>1 DEF Owes, Claims
    <3>3. \A u \in People : Owes[u] <= 0
      <4> HIDE DEF Owes
      <4> QED
        BY <1>3, <3>2, PeopleAssumption, SumOfNaturals
    <3> QED
      BY <1>1, <3>2, <3>3
  <2> QED
    BY <2>1, <2>2
<1>5. ASSUME NEW list, NEW owed, Keeps(list, owed), \A u \in People : owed[u] = 0
      PROVE  list = <<>>
  <2>1. list \in Seq([user : People, amount : Nat \ {0}]) /\ \A i \in DOMAIN list : owed[list[i].user] = list[i].amount
    BY <1>5 DEF Keeps
  <2>2. /\ DOMAIN list = 1..Len(list) /\ Len(list) \in Nat /\ (list # <<>> <=> Len(list) > 0)
        /\ \A i \in DOMAIN list : list[i] \in [user : People, amount : Nat \ {0}]
    BY <2>1, SequenceIs
  <2>3. 1 \notin DOMAIN list
    BY <1>5, <2>1, <2>2
  <2> QED
    BY <2>2, <2>3
<1>6. \A u \in People : Owes[u] = 0 /\ Claims[u] = 0
  BY <1>4 DEF Owes, Claims
<1>7. Keeps(debtors, Owes) /\ Keeps(creditors, Claims)
  BY DEF SettlingInv
<1> QED
  BY <1>4, <1>5, <1>6, <1>7

LEMMA HeadKept ==
  ASSUME NEW owed, NEW list, Keeps(list, owed), list # <<>>
  PROVE  /\ Head(list) = list[1] /\ 1 \in DOMAIN list /\ Len(list) \in Nat \ {0}
         /\ Head(list).user \in People /\ Head(list).amount \in Nat \ {0}
         /\ owed[Head(list).user] = Head(list).amount
<1> DEFINE T == [user : People, amount : Nat \ {0}]
<1>1. list \in Seq(T) /\ \A i \in DOMAIN list : owed[list[i].user] = list[i].amount
  BY DEF Keeps
<1>2. Len(list) \in Nat \ {0} /\ DOMAIN list = 1..Len(list) /\ \A i \in DOMAIN list : list[i] \in T
  <2> HIDE DEF T
  <2> QED
    BY <1>1, SequenceIs
<1>3. Head(list) = list[1] /\ 1 \in DOMAIN list
  BY <1>1, <1>2
<1>4. list[1] \in T /\ owed[list[1].user] = list[1].amount
  BY <1>1, <1>2, <1>3
<1> QED
  BY <1>2, <1>3, <1>4

LEMMA SettlingStep ==
  ASSUME SettlingInv, Suggest
  PROVE  SettlingInv'
<1> DEFINE d == Head(debtors)
           c == Head(creditors)
           amount == Smaller(d.amount, c.amount)
           t == [from |-> d.user, to |-> c.user, amount |-> amount]
           n == Len(suggestions)
<1>1. /\ debtors # <<>> /\ creditors # <<>>
      /\ suggestions' = Append(suggestions, t)
      /\ debtors' = SettleFirst(debtors, amount) /\ creditors' = SettleFirst(creditors, amount)
      /\ balances' = balances
  BY DEF Suggest
<1>2. /\ balances \in [People -> Int] /\ SumFunction(balances) = 0
      /\ suggestions \in Seq(Transfer)
      /\ Keeps(debtors, Owes) /\ Keeps(creditors, Claims)
      /\ \A i \in DOMAIN debtors : balances[debtors[i].user] < 0
      /\ \A i \in DOMAIN creditors : balances[creditors[i].user] > 0
      /\ \A i \in DOMAIN suggestions :
           balances[suggestions[i].from] < 0 /\ balances[suggestions[i].to] > 0
      /\ n + Len(debtors) + Len(creditors) <= Cardinality(Nonzero)
  BY DEF SettlingInv
<1>3. /\ d = debtors[1] /\ 1 \in DOMAIN debtors /\ Len(debtors) \in Nat \ {0}
      /\ d.user \in People /\ d.amount \in Nat \ {0} /\ Owes[d.user] = d.amount
  BY <1>1, <1>2, HeadKept
<1>4. /\ c = creditors[1] /\ 1 \in DOMAIN creditors /\ Len(creditors) \in Nat \ {0}
      /\ c.user \in People /\ c.amount \in Nat \ {0} /\ Claims[c.user] = c.amount
  BY <1>1, <1>2, HeadKept
<1>5. balances[d.user] < 0 /\ balances[c.user] > 0
  BY <1>2, <1>3, <1>4
<1>6. /\ amount \in Nat \ {0} /\ amount <= d.amount /\ amount <= c.amount
      /\ amount = d.amount \/ amount = c.amount
  <2> HIDE DEF d, c
  <2> QED
    BY <1>3, <1>4 DEF Smaller
<1> HIDE DEF d, c, amount
<1>7. d.user # c.user
  <2>1. balances[d.user] \in Int /\ balances[c.user] \in Int
    BY <1>2, <1>3, <1>4
  <2> QED
    BY <1>5, <2>1
<1>8. t \in Transfer /\ t.from = d.user /\ t.to = c.user /\ t.amount = amount
  BY <1>3, <1>4, <1>6 DEF Transfer
<1> HIDE DEF t
<1>9. n \in Nat /\ DOMAIN suggestions = 1..n /\ (suggestions # <<>> <=> n > 0)
  BY <1>2, SequenceIs
<1>10. /\ suggestions' \in Seq(Transfer) /\ Len(suggestions') = n + 1 /\ DOMAIN suggestions' = 1..(n + 1)
       /\ suggestions'[n + 1] = t /\ \A i \in 1..n : suggestions'[i] = suggestions[i]
       /\ suggestions' # <<>>
  <2> HIDE DEF Transfer
  <2> QED
    BY <1>1, <1>2, <1>8, <1>9
<1>11. /\ \A u \in People : Open(u) \in Int
       /\ \A u \in People : Open(u)' = Open(u) + (IF u = d.user THEN amount ELSE 0)
                                               - (IF u = c.user THEN amount ELSE 0)
  <2>1. \A u \in People : Open(u) \in Int
    BY <1>2, OpenType
  <2>2. \A u \in People : Open(u)' = Open(u) + (IF u = t.from THEN t.amount ELSE 0)
                                             - (IF u = t.to THEN t.amount ELSE 0)
    BY <1>1, <1>2, <1>7, <1>8, OpenChanges
  <2> QED
    BY <1>8, <2>1, <2>2
<1>12. /\ \A u \in People : /\ Owes[u] = -Open(u) /\ Owes[u] \in Int
                            /\ Claims[u] = Open(u) /\ Claims[u] \in Int
       /\ \A u \in People : /\ Owes'[u] = -(Open(u)') /\ Owes'[u] \in Int
                            /\ Claims'[u] = Open(u)' /\ Claims'[u] \in Int
  <2>1. \A u \in People : Open(u)' \in Int
    BY <1>6, <1>11
  <2> QED
    BY <1>11, <2>1 DEF Owes, Claims
<1> DEFINE Cut(list, h) == IF amount = h.amount THEN Len(list) - 1 ELSE Len(list)
<1>13. /\ Keeps(debtors', Owes') /\ Len(debtors') = Cut(debtors, d)
       /\ \A i \in DOMAIN debtors' : \E j \in DOMAIN debtors : debtors[j].user = debtors'[i].user
  <2>1. Owes'[d.user] = Owes[d.user] - amount
    <3>1. ASSUME NEW u \in People, u = d.user
          PROVE  Owes'[u] = Owes[u] - amount
      <4>1. Open(u)' = Open(u) + amount - 0 /\ Open(u) \in Int
        BY <1>7, <1>11, <3>1
      <4> QED
        BY <1>6, <1>12, <4>1
    <3> QED
      BY <1>3, <3>1
  <2>2. ASSUME NEW u \in People, u # d.user
        PROVE  Owes'[u] = Owes[u] \/ (Owes[u] <= 0 /\ Owes'[u] <= 0)
    <3>1. CASE u = c.user
      BY <1>4, <1>6, <1>11, <1>12, <2>2, <3>1
    <3>2. CASE u # c.user
      BY <1>11, <1>12, <2>2, <3>2
    <3> QED
      BY <3>1, <3>2
  <2>3. amount \in 1..Head(debtors).amount
    BY <1>3, <1>6 DEF d
  <2> HIDE DEF Owes
  <2>4. /\ Keeps(SettleFirst(debtors, amount), Owes')
        /\ Len(SettleFirst(debtors, amount)) = Cut(debtors, Head(debtors))
        /\ \A i \in DOMAIN SettleFirst(debtors, amount) :
             \E j \in DOMAIN debtors : debtors[j].user = SettleFirst(debtors, amount)[i].user
    <3>1. /\ \A u \in People : Owes[u] \in Int /\ Owes'[u] \in Int
          /\ Owes'[Head(debtors).user] = Owes[Head(debtors).user] - amount
          /\ \A u \in People : \/ u = Head(debtors).user
                               \/ Owes'[u] = Owes[u]
                               \/ Owes[u] <= 0 /\ Owes'[u] <= 0
      BY <1>12, <2>1, <2>2 DEF d
    <3>2. Keeps(debtors, Owes) /\ debtors # <<>>
      BY <1>1, <1>2
    <3> QED
      BY <2>3, <3>1, <3>2, FirstSettles
  <2> QED
    BY <1>1, <2>4 DEF d
<1>14. /\ Keeps(creditors', Claims') /\ Len(creditors') = Cut(creditors, c)
       /\ \A i \in DOMAIN creditors' : \E j \in DOMAIN creditors : creditors[j].user = creditors'[i].user
  <2>1. Claims'[c.user] = Claims[c.user] - amount
    <3>1. ASSUME NEW u \in People, u = c.user
          PROVE  Claims'[u] = Claims[u] - amount
      <4>1. Open(u)' = Open(u) + 0 - amount /\ Open(u) \in Int
        BY <1>7, <1>11, <3>1
      <4> QED
        BY <1>6, <1>12, <4>1
    <3> QED
      BY <1>4, <3>1
  <2>2. ASSUME NEW u \in People, u # c.user
        PROVE  Claims'[u] = Claims[u] \/ (Claims[u] <= 0 /\ Claims'[u] <= 0)
    <3>1. CASE u = d.user
      BY <1>3, <1>6, <1>11, <1>12, <2>2, <3>1
    <3>2. CASE u # d.user
      BY <1>11, <1>12, <2>2, <3>2
    <3> QED
      BY <3>1, <3>2
  <2>3. amount \in 1..Head(creditors).amount
    BY <1>4, <1>6 DEF c
  <2> HIDE DEF Claims
  <2>4. /\ Keeps(SettleFirst(creditors, amount), Claims')
        /\ Len(SettleFirst(creditors, amount)) = Cut(creditors, Head(creditors))
        /\ \A i \in DOMAIN SettleFirst(creditors, amount) :
             \E j \in DOMAIN creditors : creditors[j].user = SettleFirst(creditors, amount)[i].user
    <3>1. /\ \A u \in People : Claims[u] \in Int /\ Claims'[u] \in Int
          /\ Claims'[Head(creditors).user] = Claims[Head(creditors).user] - amount
          /\ \A u \in People : \/ u = Head(creditors).user
                               \/ Claims'[u] = Claims[u]
                               \/ Claims[u] <= 0 /\ Claims'[u] <= 0
      BY <1>12, <2>1, <2>2 DEF c
    <3>2. Keeps(creditors, Claims) /\ creditors # <<>>
      BY <1>1, <1>2
    <3> QED
      BY <2>3, <3>1, <3>2, FirstSettles
  <2> QED
    BY <1>1, <2>4 DEF c
<1> HIDE DEF n
<1>15. Nonzero' = Nonzero /\ Cardinality(Nonzero) \in Nat
  <2>1. IsFiniteSet(Nonzero)
    BY PeopleAssumption, FS_Subset DEF Nonzero
  <2> QED
    BY <1>1, <2>1, FS_CardinalityType DEF Nonzero
<1>16. /\ \A i \in DOMAIN debtors' : balances'[debtors'[i].user] < 0
       /\ \A i \in DOMAIN creditors' : balances'[creditors'[i].user] > 0
  BY <1>1, <1>2, <1>13, <1>14
<1>17. \A i \in DOMAIN suggestions' :
         balances'[suggestions'[i].from] < 0 /\ balances'[suggestions'[i].to] > 0
  <2> SUFFICES ASSUME NEW i \in 1..(n + 1)
               PROVE  balances[suggestions'[i].from] < 0 /\ balances[suggestions'[i].to] > 0
    BY <1>1, <1>10
  <2>1. CASE i = n + 1
    BY <1>5, <1>8, <1>10, <2>1
  <2>2. CASE i # n + 1
    <3>1. i \in DOMAIN suggestions /\ suggestions'[i] = suggestions[i]
      BY <1>9, <1>10, <2>2
    <3> QED
      BY <1>2, <3>1
  <2> QED
    BY <2>1, <2>2
<1>18. /\ Len(suggestions') + Len(debtors') + Len(creditors') <= Cardinality(Nonzero)
       /\ Len(debtors') = 0 /\ Len(creditors') = 0 => Len(suggestions') < Cardinality(Nonzero)
  <2> DEFINE x == Len(debtors)
             y == Len(creditors)
             x1 == Len(debtors')
             y1 == Len(creditors')
             N == Cardinality(Nonzero)
  <2>1. x \in Nat \ {0} /\ y \in Nat \ {0} /\ n \in Nat /\ N \in Nat /\ n + x + y <= N
    BY <1>2, <1>3, <1>4, <1>9, <1>15
  <2>2. \/ x1 = x - 1 /\ y1 \in {y - 1, y}
        \/ y1 = y - 1 /\ x1 \in {x - 1, x}
    BY <1>6, <1>13, <1>14
  <2>3. Len(suggestions') = n + 1
    BY <1>10
  <2> HIDE DEF x, y, x1, y1, N
  <2>4. n + 1 + x1 + y1 <= N /\ (x1 = 0 /\ y1 = 0 => n + 1 < N)
    BY <2>1, <2>2
  <2> QED
    BY <2>3, <2>4 DEF x1, y1, N
<1>19. debtors' = <<>> /\ creditors' = <<>> => Len(debtors') = 0 /\ Len(creditors') = 0
  OBVIOUS
<1>20. \A u, v \in People :
         balances[u] < 0 /\ balances[v] > 0 => Smallest(u, v) <= suggestions'[1].amount
  <2> SUFFICES ASSUME NEW u \in People, NEW v \in People, balances[u] < 0, balances[v] > 0
               PROVE  Smaller(-balances[u], balances[v]) <= suggestions'[1].amount
    BY DEF Smallest
  <2>1. CASE suggestions = <<>>
    <3>1. /\ LargestAhead(debtors) /\ LargestAhead(creditors)
          /\ Open(u) = balances[u] /\ Open(v) = balances[v]
      BY <2>1 DEF SettlingInv
    <3>2. balances[u] \in Int /\ balances[v] \in Int
      BY <1>2
    <3>3. -balances[u] <= d.amount
      <4>1. Owes[u] > 0 /\ Owes[u] = -balances[u]
        BY <1>12, <3>1, <3>2
      <4>2. PICK i \in DOMAIN debtors : debtors[i].user = u
        BY <1>2, <4>1 DEF Keeps
      <4>3. debtors[i].amount = Owes[u]
        BY <1>2, <4>2 DEF Keeps
      <4> QED
        BY <1>3, <3>1, <4>1, <4>3 DEF LargestAhead
    <3>4. balances[v] <= c.amount
      <4>1. Claims[v] > 0 /\ Claims[v] = balances[v]
        BY <1>12, <3>1, <3>2
      <4>2. PICK i \in DOMAIN creditors : creditors[i].user = v
        BY <1>2, <4>1 DEF Keeps
      <4>3. creditors[i].amount = Claims[v]
        BY <1>2, <4>2 DEF Keeps
      <4> QED
        BY <1>4, <3>1, <4>1, <4>3 DEF LargestAhead
    <3>5. suggestions'[1].amount = amount
      <4>1. n = 0
        BY <1>9, <2>1
      <4> QED
        BY <1>8, <1>10, <4>1
    <3>6. Smaller(-balances[u], balances[v]) <= Smaller(d.amount, c.amount)
      BY <1>3, <1>4, <3>2, <3>3, <3>4 DEF Smaller
    <3> QED
      BY <3>5, <3>6 DEF amount
  <2>2. CASE suggestions # <<>>
    <3>1. suggestions'[1] = suggestions[1]
      BY <1>9, <1>10, <2>2
    <3> QED
      BY <2>2, <3>1 DEF SettlingInv, Smallest
  <2> QED
    BY <2>1, <2>2
<1>21. Smaller(0, 0) = 0 /\ \A u, v : Smallest(u, v)' = Smallest(u, v)
  BY <1>1 DEF Smallest, Smaller
<1> QED
  BY <1>1, <1>2, <1>10, <1>13, <1>14, <1>15, <1>16, <1>17, <1>18, <1>19, <1>20, <1>21 DEF SettlingInv

\* SuggestSettlements: see SettlementSuggestions.
THEOREM SuggestionsSettle == SettlingSpec => []SettlesEverybody
<1>1. SettlingInv /\ [SettlingNext]_settlingVars => SettlingInv'
  <2> SUFFICES ASSUME SettlingInv, [SettlingNext]_settlingVars PROVE SettlingInv'
    OBVIOUS
  <2>1. CASE SettlingNext
    BY <2>1, SettlingStep DEF SettlingNext
  <2>2. CASE UNCHANGED settlingVars
    BY <2>2 DEF settlingVars, SettlingInv, Owes, Claims, Open, Moved, Nonzero, Smallest
  <2> QED
    BY <2>1, <2>2
<1>2. SettlingInv => SettlesEverybody
  <2> SUFFICES ASSUME SettlingInv PROVE SettlesEverybody
    OBVIOUS
  <2>1. \A u \in People : Open(u) \in Int
    BY OpenType DEF SettlingInv
  <2>2. \A u \in People : Done => Open(u) = 0
    BY ListsEndTogether DEF Done
  <2>3. ASSUME NEW owed, NEW list, Keeps(list, owed), NEW u \in People, owed[u] \in Int
        PROVE  owed[u] > 0 <=> \E i \in DOMAIN list : list[i].user = u /\ list[i].amount = owed[u]
    <3> DEFINE T == [user : People, amount : Nat \ {0}]
    <3>1. list \in Seq(T)
      BY <2>3 DEF Keeps
    <3>2. \A i \in DOMAIN list : list[i] \in T
      <4> HIDE DEF T
      <4> QED
        BY <3>1, SequenceIs
    <3>3. \A i \in DOMAIN list : list[i].amount > 0
      BY <3>2
    <3> QED
      BY <2>3, <3>3 DEF Keeps
  <2>4. ASSUME NEW u \in People
        PROVE  /\ Open(u) < 0 <=> \E i \in DOMAIN debtors : debtors[i].user = u /\ debtors[i].amount = -Open(u)
               /\ Open(u) > 0 <=> \E i \in DOMAIN creditors : creditors[i].user = u /\ creditors[i].amount = Open(u)
    <3>1. Owes[u] = -Open(u) /\ Claims[u] = Open(u) /\ Owes[u] \in Int /\ Claims[u] \in Int /\ Open(u) \in Int
      BY <2>1 DEF Owes, Claims
    <3>2. Keeps(debtors, Owes) /\ Keeps(creditors, Claims)
      BY DEF SettlingInv
    <3> HIDE DEF Owes, Claims
    <3>3. Owes[u] > 0 <=> \E i \in DOMAIN debtors : debtors[i].user = u /\ debtors[i].amount = Owes[u]
      BY <2>3, <3>1, <3>2
    <3>4. Claims[u] > 0 <=> \E i \in DOMAIN creditors : creditors[i].user = u /\ creditors[i].amount = Claims[u]
      BY <2>3, <3>1, <3>2
    <3> QED
      BY <3>1, <3>3, <3>4
  <2>5. suggestions # <<>> => Len(suggestions) < Cardinality({u \in People : balances[u] # 0})
    <3> SUFFICES ASSUME suggestions # <<>> PROVE Len(suggestions) < Cardinality(Nonzero)
      BY DEF Nonzero
    <3>1. CASE debtors = <<>> \/ creditors = <<>>
      BY <3>1, ListsEndTogether DEF SettlingInv
    <3>2. CASE debtors # <<>> /\ creditors # <<>>
      <4>1. Len(debtors) \in Nat \ {0} /\ Len(creditors) \in Nat \ {0}
        BY <3>2, HeadKept DEF SettlingInv
      <4>2. Len(suggestions) \in Nat
        BY SequenceIs DEF SettlingInv
      <4>3. Cardinality(Nonzero) \in Nat
        <5>1. IsFiniteSet(Nonzero)
          BY PeopleAssumption, FS_Subset DEF Nonzero
        <5> QED
          BY <5>1, FS_CardinalityType
      <4>4. Len(suggestions) + Len(debtors) + Len(creditors) <= Cardinality(Nonzero)
        BY DEF SettlingInv
      <4> QED
        BY <4>1, <4>2, <4>3, <4>4
    <3> QED
      BY <3>1, <3>2
  <2> QED
    BY <2>2, <2>4, <2>5 DEF SettlingInv, SettlesEverybody, Smallest
<1> QED
  BY <1>1, <1>2, SettlingStarts, PTL DEF SettlingSpec

-----------------------------------------------------------------------------
(* The rows.                                                               *)

\* A split's value, written in either format, is read back as digits.
LEMMA TextIsDecimal ==
  ASSUME NEW n \in Nat
  PROVE  /\ ColumnText(FormatMoney(n), SplitValueColumn) \in DecimalText
         /\ ColumnText(FormatRatio(n), SplitValueColumn) \in DecimalText
  BY DEF ColumnText, FormatMoney, FormatRatio, SplitValueColumn, DecimalText,
         MoneyScale, RatioScale, Pow10

\* The shares of a draft that is accepted.
LEMMA SharesOfDraft ==
  ASSUME NEW d \in Draft, Accepted(d)
  PROVE  Shares(d) \in [DOMAIN d.splits -> Nat] /\ Total(Shares(d)) = d.amount
<1>1. d.amount \in Int /\ d.splits \in Seq(SplitInput)
  BY DEF Draft
<1>2. IntegerSplits(d.splits)
  <2>1. /\ DOMAIN d.splits = 1..Len(d.splits) /\ Len(d.splits) \in Nat
        /\ d.splits = [i \in DOMAIN d.splits |-> d.splits[i]]
        /\ \A i \in DOMAIN d.splits : d.splits[i] \in SplitInput
    BY <1>1
  <2>2. \A i \in DOMAIN d.splits : d.splits[i] \in Range(d.splits)
    BY DEF Range
  <2>3. d.splits \in [1..Len(d.splits) -> Range(d.splits)]
    BY <2>1, <2>2
  <2>4. d.splits \in Seq(Range(d.splits))
    BY <2>1, <2>3
  <2> QED
    BY <2>1, <2>4 DEF IntegerSplits, SplitInput
<1>3. AllocateShares(d.amount, d.splits) # Failed
  BY DEF Accepted, Shares
<1> QED
  BY <1>1, <1>2, <1>3, SharesSumUp DEF Shares

\* A create that is accepted stores a row.
LEMMA StoredRowType ==
  ASSUME NEW c \in CreateCall, Accepted(c.draft)
  PROVE  StoredRow(c) \in Row
<1> DEFINE d == c.draft
<1>1. d \in Draft /\ c.by \in Members
  BY DEF CreateCall
<1>2. Shares(d) \in [DOMAIN d.splits -> Nat]
  BY <1>1, SharesOfDraft
<1>3. \A i \in DOMAIN d.splits : d.splits[i].value \in Nat
  <2>1. ValidSplits(d.splits)
    BY DEF Accepted, Shares, AllocateShares, AllocationInput
  <2>2. \A i \in DOMAIN d.splits : d.splits[i] \in SplitInput
    BY <1>1 DEF Draft
  <2> QED
    BY <2>1, <2>2 DEF ValidSplits, SplitInput
<1>4. StoredSplits(d) \in Seq([user : Members, type : {Fixed, Ratio},
                               text : DecimalText, share : Int])
  <2> DEFINE Split(i) == StoredSplits(d)[i]
  <2>1. d.splits \in Seq(SplitInput)
    BY <1>1 DEF Draft
  <2>2. DOMAIN d.splits = 1..Len(d.splits) /\ Len(d.splits) \in Nat
    BY <2>1
  <2>3. ASSUME NEW i \in DOMAIN d.splits
        PROVE  StoredSplits(d)[i] \in [user : Members, type : {Fixed, Ratio},
                                       text : DecimalText, share : Int]
    <3>1. d.splits[i] \in SplitInput
      BY <2>1, <2>2
    <3>2. d.splits[i].value \in Nat
      BY <1>3
    <3>3. Shares(d)[i] \in Int
      BY <1>2
    <3> QED
      BY <3>1, <3>2, <3>3, TextIsDecimal DEF StoredSplits, SplitText, SplitInput
  <2>4. StoredSplits(d) = [i \in 1..Len(d.splits) |-> StoredSplits(d)[i]]
    BY <2>2 DEF StoredSplits
  <2>5. StoredSplits(d) \in [1..Len(d.splits) -> [user : Members, type : {Fixed, Ratio},
                                                text : DecimalText, share : Int]]
    BY <2>2, <2>3, <2>4, Zenon
  <2> DEFINE n == Len(d.splits)
             S == [user : Members, type : {Fixed, Ratio}, text : DecimalText, share : Int]
             s == StoredSplits(d)
  <2>6. n \in Nat /\ s \in [1..n -> S]
    BY <2>2, <2>5
  <2>7. s \in Seq(S)
    <3> HIDE DEF n, S, s
    <3> QED
      BY <2>6
  <2> QED
    BY <2>7
<1> QED
  BY <1>1, <1>4 DEF StoredRow, Row, Draft

-----------------------------------------------------------------------------
(* Types.                                                                  *)

Places == {"role", "group", "parties", "insert", "readback", "load", "caller", "permission",
           "update", "ids", "rows", "done"}

Codes == {"OK", "NotFound", "InvalidArgument", "PermissionDenied", "Internal", "Unavailable"}

\* The places a handler of call c gets to.
Fits(c, place) ==
  /\ place = "role" => c.op \in {"create", "settle", "balances"}
  /\ place \in {"group", "parties", "insert"} => c.op \in {"create", "settle"}
  /\ place = "readback" => c.op = "create"
  /\ place \in {"load", "caller"} => c.op \in {"get", "delete"}
  /\ place \in {"permission", "update"} => c.op = "delete"
  /\ place \in {"ids", "rows"} => c.op = "balances"

\* Where a handler is tells which call it executes.
CallsMatch ==
  \A r \in Requests :
    /\ pc[r] # "idle" => call[r] \in Calls /\ Fits(call[r], pc[r])
    /\ answer[r] # "none" => pc[r] = "done"

Typed == TypeOK /\ CallsMatch

\* The fields of a call, by its operation.
LEMMA CallFields ==
  ASSUME NEW c \in Calls
  PROVE  /\ c.by \in Members
         /\ c.op \in {"create", "get", "delete", "settle", "balances"}
         /\ c.op = "create" => c \in CreateCall
         /\ c.op \in {"get", "delete"} => c.target \in Ids
         /\ c.op = "settle" => c \in SettleCall
  BY CallsAssumption
     DEF Call, CreateCall, TargetCall, SettleCall, BalancesCall

LEMMA SeededRowType ==
  ASSUME NEW i \in Seeds
  PROVE  StoredRow(Seeded[i]) \in Row
  BY CallsAssumption, StoredRowType

\* Nothing is entered for nobody.
LEMMA NilIsNothing == Nil \notin Row /\ Nil \notin Settlement /\ Nil \notin Calls
  BY CallsAssumption

\* groups and ledger only grow.
LEMMA TypedCurrent ==
  ASSUME TypeOK
  PROVE  /\ Group \in GroupState /\ Len(groups) \in Nat \ {0}
         /\ Live \in SUBSET Ids /\ Settled \in SUBSET Requests
         /\ Len(ledger) \in Nat \ {0}
<1>1. groups \in Seq(GroupState) /\ groups # <<>> /\ ledger \in Seq(LedgerState) /\ ledger # <<>>
  BY DEF TypeOK
<1>2. Len(groups) \in Nat \ {0} /\ Len(ledger) \in Nat \ {0}
  BY <1>1
<1>3. Group \in GroupState /\ ledger[Len(ledger)] \in LedgerState
  BY <1>1, <1>2 DEF Group
<1> QED
  BY <1>2, <1>3 DEF Live, Settled, LedgerState

LEMMA TypedInit == Init => Typed
<1> SUFFICES ASSUME Init PROVE Typed
  OBVIOUS
<1>1. groups \in Seq(GroupState) \ {<<>>}
  BY CallsAssumption DEF Init, GroupState, Statuses
<1>2. rows \in [Ids -> Row \cup {Nil}]
  BY SeededRowType DEF Init, Ids
<1>3. ledger \in Seq(LedgerState) \ {<<>>}
  BY DEF Init, LedgerState, Ids
<1> QED
  BY <1>1, <1>2, <1>3 DEF Init, Typed, TypeOK, CallsMatch

-----------------------------------------------------------------------------
(* What a step can do.                                                     *)

\* Handler r goes to a place, and answers if that is the end.
Moves(r) ==
  \E place \in Places, code \in Codes :
    /\ Fits(call[r], place)
    /\ pc[r] = "readback" => place = "done"
    /\ pc' = [pc EXCEPT ![r] = place]
    /\ answer' = IF place = "done" THEN [answer EXCEPT ![r] = code] ELSE answer

WritesNothing == UNCHANGED <<rows, settlements, ledger>>

InsertsRow(r) ==
  /\ At(r, "create", "insert")
  /\ Accepted(call[r].draft)
  /\ Insertable(call[r].draft)
  /\ rows' = [rows EXCEPT ![r] = StoredRow(call[r])]
  /\ ledger' = Append(ledger, [live |-> Live \cup {r}, settled |-> Settled])
  /\ pc' = [pc EXCEPT ![r] = "readback"]
  /\ UNCHANGED <<settlements, answer>>

DeletesRow(r) ==
  /\ At(r, "delete", "update")
  /\ call[r].target \in Live
  /\ ledger' = Append(ledger, [live |-> Live \ {call[r].target}, settled |-> Settled])
  /\ pc' = [pc EXCEPT ![r] = "done"]
  /\ UNCHANGED <<rows, settlements>>

InsertsSettlement(r) ==
  /\ At(r, "settle", "insert")
  /\ call[r].amount > 0
  /\ settlements' = [settlements EXCEPT ![r] =
       [from |-> call[r].from, to |-> call[r].to, by |-> call[r].by,
        amount |-> call[r].amount]]
  /\ ledger' = Append(ledger, [live |-> Live, settled |-> Settled \cup {r}])
  /\ pc' = [pc EXCEPT ![r] = "done"]
  /\ UNCHANGED rows

Writes(r) == WritesNothing \/ InsertsRow(r) \/ DeletesRow(r) \/ InsertsSettlement(r)

View == [pending : SUBSET Ids, read : SUBSET Ids, settled : SUBSET Requests]

\* A reader of balances takes notes.
Reads(r) ==
  \/ UNCHANGED view
  \/ \E v \in View : view' = [view EXCEPT ![r] = v] /\ At(r, "balances", pc[r])

\* Whatever step handler r takes, its call, the group and the other handlers
\* stay as they are.
Handles(r) ==
  /\ pc[r] \notin {"idle", "done"}
  /\ UNCHANGED <<groups, call, since>>
  /\ Moves(r)
  /\ Writes(r)
  /\ Reads(r)

LEMMA CreateHandles ==
  ASSUME NEW r \in Requests, Typed, Create(r)
  PROVE  Handles(r)
<1> USE DEF At, Goto, Return, LoadFails, stores, locals, Handles, Moves, Writes, WritesNothing,
            Reads, Places, Codes, Fits
<1>1. CASE CreateChecksCreator(r)
  BY <1>1 DEF CreateChecksCreator
<1>2. CASE CreateChecksGroup(r)
  BY <1>2 DEF CreateChecksGroup
<1>3. CASE CreateChecksParties(r)
  BY <1>3 DEF CreateChecksParties
<1>4. CASE CreateInserts(r)
  BY <1>4 DEF CreateInserts, InsertsRow
<1>5. CASE CreateReadsBack(r)
  BY <1>5 DEF CreateReadsBack
<1> QED
  BY <1>1, <1>2, <1>3, <1>4, <1>5 DEF Create

LEMMA GetOrDeleteHandles ==
  ASSUME NEW r \in Requests, Typed, GetOrDelete(r)
  PROVE  Handles(r)
<1> USE DEF At, Goto, Return, LoadFails, stores, locals, Handles, Moves, Writes, WritesNothing,
            Reads, Places, Codes, Fits
<1>1. CASE LoadTransaction(r)
  BY <1>1 DEF LoadTransaction, Typed, CallsMatch
<1>2. CASE CheckCaller(r)
  BY <1>2 DEF CheckCaller
<1>3. CASE DeleteChecksPermission(r)
  BY <1>3 DEF DeleteChecksPermission
<1>4. CASE DeleteUpdates(r)
  BY <1>4 DEF DeleteUpdates, DeletesRow, Acknowledged
<1> QED
  BY <1>1, <1>2, <1>3, <1>4, <1>4 DEF GetOrDelete

LEMMA SettleHandles ==
  ASSUME NEW r \in Requests, Typed, Settle(r)
  PROVE  Handles(r)
<1> USE DEF At, Goto, Return, stores, locals, Handles, Moves, Writes, WritesNothing,
            Reads, Places, Codes, Fits
<1>1. CASE SettleChecksPayer(r)
  BY <1>1 DEF SettleChecksPayer
<1>2. CASE SettleReadsGroup(r)
  BY <1>2 DEF SettleReadsGroup
<1>3. CASE SettleChecksParties(r)
  BY <1>3 DEF SettleChecksParties
<1>4. CASE SettleInserts(r)
  BY <1>4 DEF SettleInserts, InsertsSettlement, Acknowledged
<1> QED
  BY <1>1, <1>2, <1>3, <1>4 DEF Settle

LEMMA BalancesHandles ==
  ASSUME NEW r \in Requests, Typed, Balances(r)
  PROVE  Handles(r)
<1> USE DEF At, Goto, Return, LoadFails, stores, locals, Handles, Moves, Writes, WritesNothing,
            Reads, Places, Codes, Fits
<1>1. view[r] \in View /\ Live \in SUBSET Ids /\ Settled \in SUBSET Requests
  BY TypedCurrent DEF Typed, TypeOK, View
<1>2. CASE BalancesChecksCaller(r)
  BY <1>2 DEF BalancesChecksCaller
<1>3. CASE LedgerListsIds(r)
  BY <1>1, <1>3 DEF LedgerListsIds, View
<1>4. CASE LedgerLoadsRow(r)
  BY <1>1, <1>4 DEF LedgerLoadsRow, View
<1>5. CASE LedgerReadsSettlements(r)
  BY <1>1, <1>5 DEF LedgerReadsSettlements, View
<1> QED
  BY <1>2, <1>3, <1>4, <1>5 DEF Balances

LEMMA FailHandles ==
  ASSUME NEW r \in Requests, Typed, Fail(r)
  PROVE  Handles(r)
  BY DEF Fail, Return, stores, locals, Handles, Moves, Writes, WritesNothing, Reads, Places,
         Codes, Fits

\* A step begins a request, is one of a handler, or changes the group.
LEMMA StepKinds ==
  ASSUME Typed, [Next]_vars
  PROVE  \/ \E r \in Requests : Begin(r)
         \/ \E r \in Requests : Handles(r)
         \/ ChangeGroup
         \/ UNCHANGED vars
  BY CreateHandles, GetOrDeleteHandles, SettleHandles, BalancesHandles, FailHandles
     DEF Next, Step

\* The ledger gains at most one state in a step.
LEMMA LedgerGrows ==
  ASSUME Typed, NEW r \in Requests, Handles(r)
  PROVE  ledger' = ledger \/ \E s \in LedgerState : ledger' = Append(ledger, s)
<1>1. /\ [live |-> Live \cup {r}, settled |-> Settled] \in LedgerState
      /\ [live |-> Live \ {call[r].target}, settled |-> Settled] \in LedgerState
      /\ [live |-> Live, settled |-> Settled \cup {r}] \in LedgerState
  BY TypedCurrent DEF Typed, LedgerState, Ids
<1> QED
  BY <1>1 DEF Handles, Writes, WritesNothing, InsertsRow, DeletesRow, InsertsSettlement

LEMMA TypedStep ==
  ASSUME Typed, [Next]_vars
  PROVE  Typed'
<1> USE DEF Typed, TypeOK
<1>1. ASSUME NEW r \in Requests, Begin(r)
      PROVE  Typed'
  <2>1. TypeOK'
    <3>1. PICK c \in Calls, place \in {"load", "role"} :
             /\ call' = [call EXCEPT ![r] = c]
             /\ pc' = [pc EXCEPT ![r] = place]
      BY <1>1 DEF Begin, FirstStep, Goto
    <3>2. since' = [since EXCEPT ![r] = [group |-> Len(groups), ledger |-> Len(ledger)]]
      BY <1>1 DEF Begin
    <3>3. UNCHANGED <<groups, rows, settlements, ledger, view, answer>>
      BY <1>1 DEF Begin, Goto, stores
    <3>4. since' \in [Requests -> [group : Nat \ {0}, ledger : Nat \ {0}]]
      BY <3>2, TypedCurrent
    <3>5. \A q \in Requests : since'[q].group <= Len(groups) /\ since'[q].ledger <= Len(ledger)
      BY <3>2, TypedCurrent
    <3> QED
      BY <3>1, <3>3, <3>4, <3>5
  <2>2. CallsMatch'
    BY <1>1, CallFields DEF Begin, FirstStep, Goto, CallsMatch, Fits
  <2> QED
    BY <2>1, <2>2
<1>2. ASSUME NEW r \in Requests, Handles(r)
      PROVE  Typed'
  <2>1. rows' \in [Ids -> Row \cup {Nil}]
    <3>1. CASE InsertsRow(r)
      <4>1. call[r] \in CreateCall /\ Accepted(call[r].draft)
        BY <3>1, CallFields DEF InsertsRow, At, CallsMatch
      <4>2. StoredRow(call[r]) \in Row /\ rows' = [rows EXCEPT ![r] = StoredRow(call[r])]
        BY <3>1, <4>1, StoredRowType DEF InsertsRow
      <4> QED
        BY <4>2
    <3>2. CASE rows' = rows
      BY <3>2
    <3> QED
      BY <1>2, <3>1, <3>2
         DEF Handles, Writes, WritesNothing, DeletesRow, InsertsSettlement
  <2>2. settlements' \in [Requests -> Settlement \cup {Nil}]
    BY <1>2, CallFields
       DEF Handles, Writes, WritesNothing, InsertsRow, DeletesRow, InsertsSettlement, At,
           CallsMatch, SettleCall, Settlement
  <2>3. ledger' \in Seq(LedgerState) \ {<<>>} /\ Len(ledger') >= Len(ledger)
    <3>1. CASE ledger' = ledger
      BY <3>1
    <3>2. ASSUME NEW s \in LedgerState, ledger' = Append(ledger, s)
          PROVE  ledger' \in Seq(LedgerState) \ {<<>>} /\ Len(ledger') >= Len(ledger)
      BY <3>2
    <3> QED
      BY <1>2, <3>1, <3>2, LedgerGrows
  <2>4. pc' \in [Requests -> {"idle"} \cup Places] /\ answer' \in [Requests -> {"none"} \cup Codes]
    BY <1>2 DEF Handles, Moves, Places, Codes
  <2>5. view' \in [Requests -> View]
    BY <1>2 DEF Handles, Reads, View
  <2>6. CallsMatch'
    BY <1>2 DEF Handles, Moves, Places, CallsMatch
  <2>7. UNCHANGED <<groups, call, since>>
    BY <1>2 DEF Handles
  <2>8. \A q \in Requests : since'[q].group <= Len(groups') /\ since'[q].ledger <= Len(ledger')
    <3>1. \A q \in Requests : since[q].ledger \in Nat /\ since[q].ledger <= Len(ledger)
      OBVIOUS
    <3>2. Len(ledger) \in Nat /\ Len(ledger') \in Nat
      BY <2>3
    <3> QED
      BY <2>3, <2>7, <3>1, <3>2
  <2>9. TypeOK'
    BY <2>1, <2>2, <2>3, <2>4, <2>5, <2>7, <2>8 DEF View, Places, Codes
  <2> QED
    BY <2>6, <2>9
<1>3. CASE ChangeGroup
  <2>1. PICK g \in GroupState : groups' = Append(groups, g)
    BY <1>3, TypedCurrent DEF ChangeGroup, GroupState, Roles, Statuses
  <2>2. groups' \in Seq(GroupState) \ {<<>>} /\ Len(groups') >= Len(groups)
    BY <2>1
  <2> QED
    BY <1>3, <2>2 DEF ChangeGroup, CallsMatch
<1>4. CASE UNCHANGED vars
  BY <1>4 DEF vars, CallsMatch
<1> QED
  BY <1>1, <1>2, <1>3, <1>4, StepKinds

\* Every variable keeps its type, whatever requests run, fail and overlap.
THEOREM TypesHold == Spec => []TypeOK
<1>1. Typed => TypeOK
  BY DEF Typed
<1> QED
  BY TypedInit, TypedStep, <1>1, PTL DEF Spec

-----------------------------------------------------------------------------
(* Histories and rows are only added to.                                   *)

Continues(new, old) ==
  /\ Len(old) <= Len(new)
  /\ \A k \in 1..Len(old) : new[k] = old[k]

LEMMA AppendContinues ==
  ASSUME NEW S, NEW s \in Seq(S), NEW e \in S
  PROVE  Continues(Append(s, e), s)
  BY DEF Continues

LEMMA HistoriesContinue ==
  ASSUME Typed, [Next]_vars
  PROVE  Continues(groups', groups) /\ Continues(ledger', ledger)
<1>1. groups \in Seq(GroupState) /\ ledger \in Seq(LedgerState)
  BY DEF Typed, TypeOK
<1>2. Continues(groups, groups) /\ Continues(ledger, ledger)
  BY <1>1 DEF Continues
<1>3. ASSUME NEW r \in Requests, Begin(r)
      PROVE  Continues(groups', groups) /\ Continues(ledger', ledger)
  BY <1>2, <1>3 DEF Begin, stores
<1>4. ASSUME NEW r \in Requests, Handles(r)
      PROVE  Continues(groups', groups) /\ Continues(ledger', ledger)
  <2>1. groups' = groups
    BY <1>4 DEF Handles
  <2>2. Continues(ledger', ledger)
    BY <1>1, <1>2, <1>4, LedgerGrows, AppendContinues
  <2> QED
    BY <1>2, <2>1, <2>2
<1>5. CASE ChangeGroup
  <2>1. PICK g \in GroupState : groups' = Append(groups, g)
    BY <1>5, TypedCurrent DEF Typed, ChangeGroup, GroupState, Roles, Statuses
  <2>2. Continues(groups', groups)
    BY <1>1, <2>1, AppendContinues
  <2> QED
    BY <1>2, <1>5, <2>2 DEF ChangeGroup
<1> QED
  BY <1>2, <1>3, <1>4, <1>5, StepKinds DEF vars

\* Handler r takes no part in a step.
Rests(r) ==
  /\ pc'[r] = pc[r]
  /\ call'[r] = call[r]
  /\ since'[r] = since[r]
  /\ view'[r] = view[r]
  /\ answer'[r] = answer[r]
  /\ rows'[r] = rows[r]
  /\ settlements'[r] = settlements[r]

LEMMA HandlesAlone ==
  ASSUME Typed, NEW r \in Requests, NEW q \in Requests, q # r, Handles(q)
  PROVE  Rests(r)
  BY DEF Handles, Moves, Writes, WritesNothing, InsertsRow, DeletesRow, InsertsSettlement,
         Reads, Rests, Typed, TypeOK, Ids

LEMMA OneAtATime ==
  ASSUME Typed, [Next]_vars, NEW r \in Requests
  PROVE  Rests(r) \/ Begin(r) \/ Step(r) \/ Fail(r)
<1> SUFFICES ASSUME ~Begin(r), ~Step(r), ~Fail(r)
             PROVE  Rests(r)
  OBVIOUS
<1>1. ASSUME NEW q \in Requests, q # r, Begin(q)
      PROVE  Rests(r)
  BY <1>1 DEF Begin, Goto, Rests, stores, Typed, TypeOK
<1>2. ASSUME NEW q \in Requests, q # r, Handles(q)
      PROVE  Rests(r)
  BY <1>2, HandlesAlone
<1>3. CASE ChangeGroup \/ UNCHANGED vars
  BY <1>3 DEF ChangeGroup, vars, Rests
<1> QED
  BY <1>1, <1>2, <1>3, CreateHandles, GetOrDeleteHandles, SettleHandles, BalancesHandles,
     FailHandles DEF Next, Step

\* What is written, by whom, and when.
Written ==
  /\ \A i \in Live : rows[i] # Nil
  /\ Settled = {r \in Requests : settlements[r] # Nil}
  /\ \A r \in Requests :
       /\ rows[r] # Nil => call[r].op = "create" /\ pc[r] \in {"readback", "done"}
       /\ settlements[r] # Nil =>
            /\ call[r].op = "settle" /\ pc[r] = "done"
            /\ settlements[r].by = call[r].by /\ settlements[r].from = call[r].from

\* The state appended to the ledger is the current one.
LEMMA LedgerAppended ==
  ASSUME Typed, NEW s, ledger' = Append(ledger, s)
  PROVE  Live' = s.live /\ Settled' = s.settled
<1>1. ledger \in Seq(LedgerState)
  BY DEF Typed, TypeOK
<1> QED
  BY <1>1 DEF Live, Settled

LEMMA LedgerNext ==
  ASSUME Typed, NEW r \in Requests, Handles(r)
  PROVE  \/ WritesNothing /\ UNCHANGED <<Live, Settled>>
         \/ InsertsRow(r) /\ Live' = Live \cup {r} /\ UNCHANGED Settled
         \/ DeletesRow(r) /\ Live' = Live \ {call[r].target} /\ UNCHANGED Settled
         \/ InsertsSettlement(r) /\ Settled' = Settled \cup {r} /\ UNCHANGED Live
<1>1. CASE WritesNothing
  BY <1>1 DEF WritesNothing, Live, Settled
<1>2. CASE InsertsRow(r)
  BY <1>2, LedgerAppended DEF InsertsRow
<1>3. CASE DeletesRow(r)
  BY <1>3, LedgerAppended DEF DeletesRow
<1>4. CASE InsertsSettlement(r)
  BY <1>4, LedgerAppended DEF InsertsSettlement
<1> QED
  BY <1>1, <1>2, <1>3, <1>4 DEF Handles, Writes

LEMMA WrittenInit == Init => Written
  BY SeededRowType, NilIsNothing, CallsAssumption DEF Init, Written, Live, Settled, Ids

LEMMA WrittenStep ==
  ASSUME Typed, Written, [Next]_vars
  PROVE  Written'
<1> USE DEF Written
<1>1. ASSUME NEW r \in Requests, Begin(r)
      PROVE  Written'
  <2>1. /\ pc[r] = "idle" /\ UNCHANGED <<rows, settlements, Live, Settled>>
        /\ \A q \in Requests \ {r} : call'[q] = call[q] /\ pc'[q] = pc[q]
    BY <1>1 DEF Begin, Goto, stores, Live, Settled, Typed, TypeOK
  <2>2. rows[r] = Nil /\ settlements[r] = Nil
    BY <2>1
  <2> QED
    BY <2>1, <2>2
<1>2. ASSUME NEW r \in Requests, Handles(r)
      PROVE  Written'
  <2>1. UNCHANGED call /\ pc'[r] \in Places /\ \A q \in Requests \ {r} : pc'[q] = pc[q]
    BY <1>2 DEF Handles, Moves, Typed, TypeOK
  <2>2. pc[r] = "readback" => pc'[r] = "done"
    BY <1>2 DEF Handles, Moves, Typed, TypeOK
  <2>3. CASE WritesNothing /\ UNCHANGED <<Live, Settled>>
    BY <1>2, <2>1, <2>2, <2>3 DEF WritesNothing, Handles
  <2>4. CASE InsertsRow(r) /\ Live' = Live \cup {r} /\ UNCHANGED Settled
    <3>1. rows' = [rows EXCEPT ![r] = StoredRow(call[r])] /\ UNCHANGED settlements
      BY <2>4 DEF InsertsRow
    <3>2. StoredRow(call[r]) # Nil
      BY <2>4, CallFields, StoredRowType, NilIsNothing
         DEF InsertsRow, At, Typed, CallsMatch
    <3>3. call[r].op = "create" /\ pc'[r] = "readback" /\ pc[r] = "insert"
      BY <2>4 DEF InsertsRow, At, Typed, TypeOK
    <3> QED
      BY <2>1, <2>4, <3>1, <3>2, <3>3 DEF Typed, TypeOK, Ids
  <2>5. CASE DeletesRow(r) /\ Live' = Live \ {call[r].target} /\ UNCHANGED Settled
    BY <2>1, <2>5 DEF DeletesRow, At, Typed, TypeOK
  <2>6. CASE InsertsSettlement(r) /\ Settled' = Settled \cup {r} /\ UNCHANGED Live
    <3> DEFINE new == [from |-> call[r].from, to |-> call[r].to, by |-> call[r].by,
                       amount |-> call[r].amount]
    <3>1. settlements' = [settlements EXCEPT ![r] = new] /\ UNCHANGED rows
      BY <2>6 DEF InsertsSettlement
    <3>2. call[r] \in SettleCall
      BY <2>6, CallFields DEF InsertsSettlement, At, Typed, CallsMatch
    <3>3. new # Nil
      BY <3>2, NilIsNothing DEF SettleCall, Settlement
    <3>4. call[r].op = "settle" /\ pc'[r] = "done" /\ pc[r] = "insert"
      BY <2>6 DEF InsertsSettlement, At, Typed, TypeOK
    <3> QED
      BY <2>1, <2>6, <3>1, <3>3, <3>4 DEF Typed, TypeOK
  <2> QED
    BY <1>2, <2>3, <2>4, <2>5, <2>6, LedgerNext
<1>3. CASE ChangeGroup \/ UNCHANGED vars
  BY <1>3 DEF ChangeGroup, vars, Live, Settled
<1> QED
  BY <1>1, <1>2, <1>3, StepKinds

\* A row stays as it is, and so does a settlement.
LEMMA RowsStay ==
  ASSUME Typed, Written, [Next]_vars
  PROVE  /\ \A i \in Ids : rows[i] # Nil => rows'[i] = rows[i]
         /\ \A r \in Requests : settlements[r] # Nil => settlements'[r] = settlements[r]
<1>1. ASSUME NEW r \in Requests, Handles(r)
      PROVE  /\ \A i \in Ids : rows[i] # Nil => rows'[i] = rows[i]
             /\ \A q \in Requests : settlements[q] # Nil => settlements'[q] = settlements[q]
  BY <1>1 DEF Handles, Writes, WritesNothing, InsertsRow, DeletesRow, InsertsSettlement, At,
              Written, Typed, TypeOK
<1> QED
  BY <1>1, StepKinds DEF Begin, ChangeGroup, stores, vars

-----------------------------------------------------------------------------
(* Who gets into the ledger, and on whose word.                            *)

\* What was true of the group at some moment of a request stays so.
LEMMA WasStays ==
  ASSUME Typed, [Next]_vars, NEW r \in Requests, call'[r] = call[r], since'[r] = since[r]
  PROVE  /\ WasActive(r) => WasActive(r)'
         /\ \A u : WasMember(r, u) => WasMember(r, u)'
         /\ \A u : WasOwner(r, u) => WasOwner(r, u)'
<1>1. /\ since[r].group \in Nat \ {0} /\ Len(groups) \in Nat
      /\ Len(groups) <= Len(groups') /\ \A k \in 1..Len(groups) : groups'[k] = groups[k]
  BY HistoriesContinue, TypedCurrent DEF Typed, TypeOK, Continues
<1>2. Len(groups') \in Nat
  BY TypedStep, TypedCurrent DEF Typed, TypeOK
<1> QED
  BY <1>1, <1>2 DEF WasActive, WasMember, WasOwner, GroupWas

\* What is true of it now was at the last moment so far.
LEMMA NowWas ==
  ASSUME Typed, NEW r \in Requests
  PROVE  /\ Group.status = "active" => WasActive(r)
         /\ \A u : IsMember(u) => WasMember(r, u)
         /\ \A u : Group.role[u] = "owner" => WasOwner(r, u)
<1>1. since[r].group \in Nat /\ since[r].group <= Len(groups) /\ Len(groups) \in Nat
  BY TypedCurrent DEF Typed, TypeOK
<1> QED
  BY <1>1 DEF WasActive, WasMember, WasOwner, GroupWas, Group, IsMember

\* What the checks a handler is past have established.
Vouched(r) ==
  /\ pc[r] \in {"group", "parties", "insert", "readback", "permission", "update", "ids", "rows"}
       => WasMember(r, call[r].by)
  /\ pc[r] \in {"parties", "insert", "readback"} /\ call[r].op = "create" => WasActive(r)
  /\ pc[r] = "insert" => \A u \in Parties(call[r]) : WasMember(r, u)
  /\ pc[r] \in {"group", "parties", "insert"} /\ call[r].op = "settle"
       => call[r].by = call[r].from \/ WasOwner(r, call[r].by)
  /\ pc[r] \in {"group", "parties", "insert"} /\ call[r].op = "settle"
       => call[r].from # call[r].to
  /\ pc[r] \in {"caller", "permission", "update"} => rows[call[r].target] # Nil
  /\ pc[r] = "update" => rows[call[r].target].by = call[r].by \/ WasOwner(r, call[r].by)

\* The properties PartiesWereMembers and OutcomesWereAuthorised, of one request.
Entitled(r) ==
  /\ rows[r] # Nil \/ settlements[r] # Nil => \A u \in Parties(call[r]) : WasMember(r, u)
  /\ answer[r] = "OK" => WasMember(r, call[r].by)
  /\ rows[r] # Nil => WasActive(r)
  /\ settlements[r] # Nil =>
       settlements[r].by = settlements[r].from \/ WasOwner(r, settlements[r].by)
  /\ answer[r] = "OK" /\ call[r].op = "delete" =>
       /\ rows[call[r].target] # Nil
       /\ rows[call[r].target].by = call[r].by \/ WasOwner(r, call[r].by)

Authorised == \A r \in Requests : Vouched(r) /\ Entitled(r)

LEMMA AuthorisedInit == Init => Authorised
  BY CallsAssumption DEF Init, Authorised, Vouched, Entitled, Ids

\* A request that takes no part in a step loses nothing by it.
LEMMA RestsAuthorised ==
  ASSUME Typed, Written, [Next]_vars, NEW r \in Requests, Rests(r), Vouched(r), Entitled(r)
  PROVE  Vouched(r)' /\ Entitled(r)'
<1>1. call'[r] = call[r] /\ since'[r] = since[r] /\ pc'[r] = pc[r] /\ answer'[r] = answer[r]
      /\ rows'[r] = rows[r] /\ settlements'[r] = settlements[r]
  BY DEF Rests
<1>2. /\ WasActive(r) => WasActive(r)'
      /\ \A u : WasMember(r, u) => WasMember(r, u)'
      /\ \A u : WasOwner(r, u) => WasOwner(r, u)'
  BY <1>1, WasStays
<1>3. pc[r] \in {"caller", "permission", "update"} \/ (answer[r] = "OK" /\ call[r].op = "delete")
        => call[r].target \in Ids
  BY CallFields DEF Typed, CallsMatch, Fits
<1>4. \A i \in Ids : rows[i] # Nil => rows'[i] = rows[i]
  BY RowsStay
<1>5. Parties(call'[r]) = Parties(call[r])
  BY <1>1
<1>6. Vouched(r)'
  BY <1>1, <1>2, <1>3, <1>4, <1>5 DEF Vouched
<1>7. Entitled(r)'
  BY <1>1, <1>2, <1>3, <1>4, <1>5 DEF Entitled
<1> QED
  BY <1>6, <1>7

\* A handler's own step establishes what its next place needs.
LEMMA OwnStepAuthorised ==
  ASSUME Typed, Written, [Next]_vars, NEW r \in Requests, Step(r) \/ Fail(r),
         Vouched(r), Entitled(r)
  PROVE  Vouched(r)' /\ Entitled(r)'
<1>1. Handles(r)
  BY CreateHandles, GetOrDeleteHandles, SettleHandles, BalancesHandles, FailHandles DEF Step
<1>2. call' = call /\ since' = since /\ groups' = groups /\ pc[r] # "idle" /\ pc[r] # "done"
  BY <1>1 DEF Handles
<1>3. /\ WasActive(r) => WasActive(r)'
      /\ \A u : WasMember(r, u) => WasMember(r, u)'
      /\ \A u : WasOwner(r, u) => WasOwner(r, u)'
  BY <1>2, WasStays
<1>4. /\ Group.status = "active" => WasActive(r)
      /\ \A u : IsMember(u) => WasMember(r, u)
      /\ \A u : Group.role[u] = "owner" => WasOwner(r, u)
  BY NowWas
<1>5. /\ pc \in [Requests -> {"idle"} \cup Places] /\ answer \in [Requests -> {"none"} \cup Codes]
      /\ rows \in [Ids -> Row \cup {Nil}] /\ settlements \in [Requests -> Settlement \cup {Nil}]
      /\ call[r] \in Calls /\ Fits(call[r], pc[r]) /\ answer[r] = "none"
  BY <1>2 DEF Typed, TypeOK, CallsMatch, Places, Codes
<1>6. /\ rows[r] # Nil => pc[r] = "readback" /\ call[r].op = "create"
      /\ settlements[r] = Nil
  BY <1>2 DEF Written
<1>7. \A i \in Ids : rows[i] # Nil => rows'[i] = rows[i]
  BY RowsStay
<1>8. Parties(call'[r]) = Parties(call[r])
  BY <1>2
<1> USE <1>2, <1>3, <1>4, <1>5, <1>6, <1>8
    DEF At, Goto, Return, LoadFails, stores, locals, Vouched, Entitled, Ids
<1>9. CASE Create(r)
  <2>1. CASE CreateChecksCreator(r)
    BY <2>1 DEF CreateChecksCreator
  <2>2. CASE CreateChecksGroup(r)
    BY <2>2 DEF CreateChecksGroup
  <2>3. CASE CreateChecksParties(r)
    BY <2>3 DEF CreateChecksParties, PartiesAccepted
  <2>4. CASE CreateInserts(r)
    BY <2>4 DEF CreateInserts
  <2>5. CASE CreateReadsBack(r)
    BY <2>5 DEF CreateReadsBack
  <2> QED
    BY <1>9, <2>1, <2>2, <2>3, <2>4, <2>5 DEF Create
<1>10. CASE GetOrDelete(r)
  <2>1. CASE LoadTransaction(r)
    BY <2>1 DEF LoadTransaction, Loads, Written, Fits
  <2>2. CASE CheckCaller(r)
    BY <2>2 DEF CheckCaller
  <2>3. CASE DeleteChecksPermission(r)
    BY <2>3 DEF DeleteChecksPermission, MayDelete
  <2>4. CASE DeleteUpdates(r)
    BY <2>4 DEF DeleteUpdates, Acknowledged
  <2> QED
    BY <1>10, <2>1, <2>2, <2>3, <2>4 DEF GetOrDelete
<1>11. CASE Settle(r)
  <2>1. CASE SettleChecksPayer(r)
    BY <2>1 DEF SettleChecksPayer, MaySettle
  <2>2. CASE SettleReadsGroup(r)
    BY <2>2 DEF SettleReadsGroup
  <2>3. CASE SettleChecksParties(r)
    BY <2>3 DEF SettleChecksParties, PartiesAccepted
  <2>4. CASE SettleInserts(r)
    BY <2>4 DEF SettleInserts, Acknowledged
  <2> QED
    BY <1>11, <2>1, <2>2, <2>3, <2>4 DEF Settle
<1>12. CASE Balances(r)
  <2>1. CASE BalancesChecksCaller(r)
    BY <2>1 DEF BalancesChecksCaller
  <2>2. CASE LedgerListsIds(r)
    BY <2>2 DEF LedgerListsIds
  <2>3. CASE LedgerLoadsRow(r)
    BY <2>3 DEF LedgerLoadsRow
  <2>4. CASE LedgerReadsSettlements(r)
    BY <2>4 DEF LedgerReadsSettlements
  <2> QED
    BY <1>12, <2>1, <2>2, <2>3, <2>4 DEF Balances
<1>13. CASE Fail(r)
  BY <1>13 DEF Fail
<1> QED
  BY <1>9, <1>10, <1>11, <1>12, <1>13 DEF Step

LEMMA AuthorisedStep ==
  ASSUME Typed, Written, Authorised, [Next]_vars
  PROVE  Authorised'
<1> SUFFICES ASSUME NEW r \in Requests
             PROVE  Vouched(r)' /\ Entitled(r)'
  BY DEF Authorised
<1>1. CASE Begin(r)
  <2>1. pc'[r] \in {"load", "role"} /\ UNCHANGED <<rows, settlements, answer>>
    BY <1>1 DEF Begin, FirstStep, Goto, stores, Typed, TypeOK
  <2>2. rows[r] = Nil /\ settlements[r] = Nil /\ answer[r] = "none"
    BY <1>1 DEF Begin, Typed, CallsMatch, Written
  <2> QED
    BY <2>1, <2>2 DEF Vouched, Entitled
<1> QED
  BY <1>1, OneAtATime, RestsAuthorised, OwnStepAuthorised DEF Authorised

LEMMA AlwaysAuthorised == Spec => [](Typed /\ Written /\ Authorised)
  BY TypedInit, WrittenInit, AuthorisedInit, TypedStep, WrittenStep, AuthorisedStep, PTL
     DEF Spec

\* CreateGroupTransaction and CreateSettlement: whoever is entered into the
\* ledger was a member at some moment of the request that did it.
THEOREM PartiesWereMembersHolds == Spec => []PartiesWereMembers
<1>1. Authorised => PartiesWereMembers
  BY DEF Authorised, Entitled, PartiesWereMembers
<1> QED
  BY <1>1, AlwaysAuthorised, PTL

\* All handlers: what a request did or was shown, its caller was entitled to
\* at some moment of it.
THEOREM OutcomesWereAuthorisedHolds == Spec => []OutcomesWereAuthorised
<1>1. Authorised => OutcomesWereAuthorised
  BY DEF Authorised, Entitled, OutcomesWereAuthorised
<1> QED
  BY <1>1, AlwaysAuthorised, PTL

-----------------------------------------------------------------------------
(* What an answer says.                                                    *)

\* AnswersTellTheTruth of one request, with what a handler knows that is about
\* to give the answer, and what keeps a deletion from being undone.
Truth(r) ==
  /\ answer[r] = "OK" /\ call[r].op = "create" => rows[r] # Nil
  /\ answer[r] = "OK" /\ call[r].op = "settle" => r \in Settled
  /\ answer[r] = "OK" /\ call[r].op = "delete" =>
       call[r].target \notin Live /\ rows[call[r].target] # Nil
  /\ answer[r] \in {"InvalidArgument", "PermissionDenied"} =>
       rows[r] = Nil /\ settlements[r] = Nil
  /\ pc[r] = "readback" => rows[r] # Nil

Truthful == DeletedOnce /\ \A r \in Requests : Truth(r)

LEMMA TruthfulInit == Init => Truthful
  BY DEF Init, Truthful, Truth, DeletedOnce

\* A request that takes no part in a step of another handler.
LEMMA RestsTruth ==
  ASSUME Typed, Written, [Next]_vars, NEW r \in Requests, NEW q \in Requests,
         q # r, Handles(q), Truth(r)
  PROVE  Truth(r)'
<1>1. /\ pc'[r] = pc[r] /\ call' = call /\ answer'[r] = answer[r] /\ rows'[r] = rows[r]
      /\ settlements'[r] = settlements[r]
  BY HandlesAlone DEF Rests, Handles
<1>2. answer[r] = "OK" /\ call[r].op = "delete" => call[r].target \in Ids
  BY CallFields DEF Typed, CallsMatch
<1>3. \A i \in Ids : rows[i] # Nil => rows'[i] = rows[i]
  BY RowsStay
<1>4. \A i \in Ids : rows[i] # Nil /\ i \notin Live => i \notin Live'
  BY LedgerNext DEF InsertsRow, At, Written
<1>5. Settled \subseteq Settled'
  BY LedgerNext
<1> QED
  BY <1>1, <1>2, <1>3, <1>4, <1>5 DEF Truth

\* A handler's own step; a deletion it acknowledges was of a live transaction.
LEMMA OwnStepTruth ==
  ASSUME Typed, Written, Authorised, [Next]_vars, NEW r \in Requests, Step(r) \/ Fail(r),
         Truth(r)
  PROVE  /\ Truth(r)'
         /\ (answer[r] = "OK" /\ call[r].op = "delete")' => call[r].target \in Live
<1>1. Handles(r)
  BY CreateHandles, GetOrDeleteHandles, SettleHandles, BalancesHandles, FailHandles DEF Step
<1>2. call' = call /\ pc[r] # "idle" /\ pc[r] # "done"
  BY <1>1 DEF Handles
<1>3. /\ pc \in [Requests -> {"idle"} \cup Places] /\ answer \in [Requests -> {"none"} \cup Codes]
      /\ rows \in [Ids -> Row \cup {Nil}] /\ settlements \in [Requests -> Settlement \cup {Nil}]
      /\ call[r] \in Calls /\ Fits(call[r], pc[r]) /\ answer[r] = "none"
  BY <1>2 DEF Typed, TypeOK, CallsMatch, Places, Codes
<1>4. /\ rows[r] # Nil => pc[r] = "readback" /\ call[r].op = "create"
      /\ settlements[r] = Nil
  BY <1>2 DEF Written
<1>5. pc[r] = "update" => rows[call[r].target] # Nil
  BY DEF Authorised, Vouched
<1> USE <1>2, <1>3, <1>4
    DEF At, Goto, Return, LoadFails, stores, locals, Truth, Ids
<1>6. CASE Create(r)
  <2>1. CASE CreateChecksCreator(r) \/ CreateChecksGroup(r) \/ CreateChecksParties(r)
    BY <2>1 DEF CreateChecksCreator, CreateChecksGroup, CreateChecksParties
  <2>2. CASE CreateInserts(r)
    <3>1. Accepted(call[r].draft) => StoredRow(call[r]) # Nil
      BY <2>2, CallFields, StoredRowType, NilIsNothing DEF CreateInserts
    <3> QED
      BY <2>2, <3>1 DEF CreateInserts
  <2>3. CASE CreateReadsBack(r)
    BY <2>3 DEF CreateReadsBack
  <2> QED
    BY <1>6, <2>1, <2>2, <2>3 DEF Create
<1>7. CASE GetOrDelete(r)
  <2>1. CASE LoadTransaction(r) \/ CheckCaller(r) \/ DeleteChecksPermission(r)
    BY <2>1 DEF LoadTransaction, CheckCaller, DeleteChecksPermission, Fits
  <2>2. CASE DeleteUpdates(r)
    <3>1. CASE call[r].target \in Live
      <4>1. Live' = Live \ {call[r].target}
        BY <2>2, <3>1, LedgerAppended DEF DeleteUpdates
      <4> QED
        BY <1>5, <2>2, <3>1, <4>1 DEF DeleteUpdates, Acknowledged
    <3>2. CASE call[r].target \notin Live
      BY <2>2, <3>2 DEF DeleteUpdates, Acknowledged
    <3> QED
      BY <3>1, <3>2
  <2> QED
    BY <1>7, <2>1, <2>2 DEF GetOrDelete
<1>8. CASE Settle(r)
  <2>1. CASE SettleChecksPayer(r) \/ SettleReadsGroup(r) \/ SettleChecksParties(r)
    BY <2>1 DEF SettleChecksPayer, SettleReadsGroup, SettleChecksParties
  <2>2. CASE SettleInserts(r)
    <3> call[r].amount \in Int
      BY <2>2, CallFields DEF SettleInserts, SettleCall
    <3>1. call[r].amount \in 1..MaxNumeric => r \in Settled'
      <4> SUFFICES ASSUME call[r].amount \in 1..MaxNumeric PROVE r \in Settled'
        OBVIOUS
      <4>1. ledger' = Append(ledger, [live |-> Live, settled |-> Settled \cup {r}])
        BY <2>2, MaxIntAssumption, MaxNumericAssumption DEF SettleInserts
      <4> QED
        BY <4>1, LedgerAppended
    <3>2. CASE call[r].amount \in 1..MaxNumeric
      BY <2>2, <3>1, <3>2, MaxIntAssumption, MaxNumericAssumption DEF SettleInserts, Acknowledged
    <3>3. CASE call[r].amount \notin 1..MaxNumeric
      BY <2>2, <3>3 DEF SettleInserts
    <3> QED
      BY <3>2, <3>3
  <2> QED
    BY <1>8, <2>1, <2>2 DEF Settle
<1>9. CASE Balances(r)
  BY <1>9 DEF Balances, BalancesChecksCaller, LedgerListsIds, LedgerLoadsRow,
              LedgerReadsSettlements
<1>10. CASE Fail(r)
  BY <1>10 DEF Fail
<1> QED
  BY <1>6, <1>7, <1>8, <1>9, <1>10 DEF Step

LEMMA TruthfulStep ==
  ASSUME Typed, Written, Authorised, Truthful, [Next]_vars
  PROVE  Truthful'
<1>1. ASSUME NEW r \in Requests, Begin(r)
      PROVE  Truthful'
  <2>1. /\ UNCHANGED <<rows, settlements, answer, Live, Settled>> /\ answer[r] = "none"
        /\ pc'[r] # "readback"
        /\ \A q \in Requests \ {r} : pc'[q] = pc[q] /\ call'[q] = call[q]
    BY <1>1 DEF Begin, FirstStep, Goto, stores, Live, Settled, Typed, TypeOK, CallsMatch
  <2> QED
    BY <2>1 DEF Truthful, Truth, DeletedOnce
<1>2. ASSUME NEW r \in Requests, Step(r) \/ Fail(r)
      PROVE  Truthful'
  <2>1. Handles(r)
    BY <1>2, CreateHandles, GetOrDeleteHandles, SettleHandles, BalancesHandles, FailHandles
       DEF Step
  <2>2. \A q \in Requests : Truth(q)'
    BY <1>2, <2>1, RestsTruth, OwnStepTruth DEF Truthful
  <2>3. DeletedOnce'
    <3>1. call' = call /\ \A q \in Requests \ {r} : answer'[q] = answer[q]
      BY <2>1, HandlesAlone DEF Handles, Rests
    <3>2. (answer[r] = "OK" /\ call[r].op = "delete")' => call[r].target \in Live
      BY <1>2, OwnStepTruth DEF Truthful
    <3>3. \A q \in Requests : answer[q] = "OK" /\ call[q].op = "delete"
                                => call[q].target \notin Live
      BY DEF Truthful, Truth
    <3> QED
      BY <3>1, <3>2, <3>3 DEF Truthful, DeletedOnce
  <2> QED
    BY <2>2, <2>3 DEF Truthful
<1>3. CASE ChangeGroup \/ UNCHANGED vars
  BY <1>3 DEF ChangeGroup, vars, Live, Settled, Truthful, Truth, DeletedOnce
<1> QED
  BY <1>1, <1>2, <1>3 DEF Next

LEMMA AlwaysTruthful == Spec => []Truthful
  BY TypedInit, WrittenInit, AuthorisedInit, TruthfulInit,
     TypedStep, WrittenStep, AuthorisedStep, TruthfulStep, PTL DEF Spec

\* DeleteGroupTransaction: of the requests to delete a transaction at most one
\* is told it did.
THEOREM DeletedOnceHolds == Spec => []DeletedOnce
<1>1. Truthful => DeletedOnce
  BY DEF Truthful
<1> QED
  BY <1>1, AlwaysTruthful, PTL

\* All handlers: an acknowledged write is in the tables, a refused request
\* wrote nothing.
THEOREM AnswersTellTheTruthHolds == Spec => []AnswersTellTheTruth
<1>1. Truthful => AnswersTellTheTruth
  BY DEF Truthful, Truth, AnswersTellTheTruth
<1> QED
  BY <1>1, AlwaysTruthful, PTL

-----------------------------------------------------------------------------
(* What a balances answer is made of.                                      *)

\* A reader of balances has read, or has still to read, the transactions that
\* were live at one moment since its request began.
Snapshot(r) ==
  /\ pc[r] \notin {"rows", "done"} => view[r].read = {}
  /\ pc[r] = "rows" =>
       \E k \in since[r].ledger..Len(ledger) :
         view[r].pending \cup view[r].read = ledger[k].live
  /\ answer[r] = "OK" /\ call[r].op = "balances" =>
       \E k \in since[r].ledger..Len(ledger) :
         /\ view[r].read = ledger[k].live
         /\ \E m \in k..Len(ledger) : view[r].settled = ledger[m].settled

Snapshots == \A r \in Requests : Snapshot(r)

LEMMA SnapshotsInit == Init => Snapshots
  BY DEF Init, Snapshots, Snapshot

\* The moments of the ledger so far are moments of it after a step.
LEMMA MomentsStay ==
  ASSUME Typed, [Next]_vars
  PROVE  /\ Len(ledger) \in Nat /\ Len(ledger') \in Nat /\ Len(ledger) <= Len(ledger')
         /\ \A k \in 1..Len(ledger) : ledger'[k] = ledger[k]
         /\ \A r \in Requests : since[r].ledger \in Nat \ {0} /\ since[r].ledger <= Len(ledger)
  BY HistoriesContinue, TypedStep, TypedCurrent DEF Typed, TypeOK, Continues

LEMMA RestsSnapshot ==
  ASSUME Typed, [Next]_vars, NEW r \in Requests, Rests(r), Snapshot(r)
  PROVE  Snapshot(r)'
  BY SMTT(30), MomentsStay DEF Rests, Snapshot

LEMMA OwnStepSnapshot ==
  ASSUME Typed, [Next]_vars, NEW r \in Requests, Step(r) \/ Fail(r), Snapshot(r)
  PROVE  Snapshot(r)'
<1>1. Handles(r)
  BY CreateHandles, GetOrDeleteHandles, SettleHandles, BalancesHandles, FailHandles DEF Step
<1>2. call' = call /\ since' = since /\ pc[r] # "idle" /\ pc[r] # "done"
  BY <1>1 DEF Handles
<1>3. /\ pc \in [Requests -> {"idle"} \cup Places] /\ answer \in [Requests -> {"none"} \cup Codes]
      /\ view \in [Requests -> View] /\ Fits(call[r], pc[r]) /\ answer[r] = "none"
  BY <1>2 DEF Typed, TypeOK, CallsMatch, Places, Codes, View
<1> USE <1>2, <1>3 DEF At, Goto, Return, LoadFails, stores, locals, Fits
<1> DEFINE Quiet == /\ view' = view /\ pc[r] # "rows" /\ pc'[r] # "rows"
                    /\ answer'[r] = "OK" => call[r].op # "balances"
<1>4. ASSUME Create(r)
      PROVE  Quiet
  <2>1. CASE CreateChecksCreator(r)
    BY <2>1 DEF CreateChecksCreator
  <2>2. CASE CreateChecksGroup(r)
    BY <2>2 DEF CreateChecksGroup
  <2>3. CASE CreateChecksParties(r)
    BY <2>3 DEF CreateChecksParties
  <2>4. CASE CreateInserts(r)
    BY <2>4 DEF CreateInserts
  <2>5. CASE CreateReadsBack(r)
    BY <2>5 DEF CreateReadsBack
  <2> QED
    BY <1>4, <2>1, <2>2, <2>3, <2>4, <2>5 DEF Create
<1>5. ASSUME GetOrDelete(r)
      PROVE  Quiet
  <2>1. CASE LoadTransaction(r)
    BY <2>1 DEF LoadTransaction
  <2>2. CASE CheckCaller(r)
    BY <2>2 DEF CheckCaller
  <2>3. CASE DeleteChecksPermission(r)
    BY <2>3 DEF DeleteChecksPermission
  <2>4. CASE DeleteUpdates(r)
    BY <2>4 DEF DeleteUpdates, Acknowledged
  <2> QED
    BY <1>5, <2>1, <2>2, <2>3, <2>4 DEF GetOrDelete
<1>6. ASSUME Settle(r)
      PROVE  Quiet
  <2>1. CASE SettleChecksPayer(r)
    BY <2>1 DEF SettleChecksPayer
  <2>2. CASE SettleReadsGroup(r)
    BY <2>2 DEF SettleReadsGroup
  <2>3. CASE SettleChecksParties(r)
    BY <2>3 DEF SettleChecksParties
  <2>4. CASE SettleInserts(r)
    BY <2>4 DEF SettleInserts, Acknowledged
  <2> QED
    BY <1>6, <2>1, <2>2, <2>3, <2>4 DEF Settle
<1>7. CASE Create(r) \/ GetOrDelete(r) \/ Settle(r)
  <2>1. Quiet
    BY <1>4, <1>5, <1>6, <1>7
  <2> QED
    BY <2>1 DEF Snapshot
<1>8. CASE BalancesChecksCaller(r)
  BY <1>8 DEF BalancesChecksCaller, Snapshot
<1>9. CASE LedgerListsIds(r)
  <2>1. view'[r].pending = Live /\ view'[r].read = {} /\ ledger' = ledger /\ answer'[r] = "none"
        /\ pc'[r] = "rows"
    BY <1>9 DEF LedgerListsIds, Snapshot, View
  <2>2. Len(ledger) \in since[r].ledger..Len(ledger)
    BY MomentsStay
  <2> QED
    BY <2>1, <2>2 DEF Snapshot, Live
<1>10. CASE LedgerLoadsRow(r)
  <2>1. PICK i \in view[r].pending :
          \/ LoadFails(r, i)
          \/ /\ view' = [view EXCEPT ![r].pending = @ \ {i}, ![r].read = @ \cup {i}]
             /\ Goto(r, "rows")
    BY <1>10 DEF LedgerLoadsRow
  <2>2. pc[r] = "rows" /\ ledger' = ledger
    BY <1>10 DEF LedgerLoadsRow
  <2>3. CASE LoadFails(r, i)
    BY <2>3 DEF Snapshot
  <2>4. CASE Goto(r, "rows") /\ view' = [view EXCEPT ![r].pending = @ \ {i},
                                                    ![r].read = @ \cup {i}]
    <3>1. view'[r].pending \cup view'[r].read = view[r].pending \cup view[r].read
      BY <2>4 DEF View
    <3> QED
      BY <2>2, <2>4, <3>1 DEF Snapshot
  <2> QED
    BY <2>1, <2>3, <2>4
<1>11. CASE LedgerReadsSettlements(r)
  <2>1. /\ pc[r] = "rows" /\ view[r].pending = {} /\ ledger' = ledger /\ pc'[r] = "done"
        /\ view'[r].read = view[r].read /\ view'[r].settled = Settled
    BY <1>11 DEF LedgerReadsSettlements, View
  <2>2. PICK k \in since[r].ledger..Len(ledger) : view[r].read = ledger[k].live
    BY <2>1 DEF Snapshot
  <2>3. k \in since[r].ledger..Len(ledger) /\ Len(ledger) \in k..Len(ledger)
    BY <2>2, MomentsStay
  <2> QED
    BY <2>1, <2>2, <2>3 DEF Snapshot, Settled
<1>12. CASE Fail(r)
  BY <1>12 DEF Fail, Snapshot
<1>13. CASE Balances(r)
  BY <1>8, <1>9, <1>10, <1>11, <1>13 DEF Balances
<1> QED
  BY <1>7, <1>12, <1>13 DEF Step

LEMMA SnapshotsStep ==
  ASSUME Typed, Snapshots, [Next]_vars
  PROVE  Snapshots'
<1> SUFFICES ASSUME NEW r \in Requests
             PROVE  Snapshot(r)'
  BY DEF Snapshots
<1>1. CASE Begin(r)
  <2>1. pc[r] = "idle" /\ pc'[r] \in {"load", "role"} /\ UNCHANGED <<view, answer>>
        /\ answer[r] = "none"
    BY <1>1 DEF Begin, FirstStep, Goto, Typed, TypeOK, CallsMatch
  <2> QED
    BY <2>1 DEF Snapshots, Snapshot
<1> QED
  BY <1>1, OneAtATime, RestsSnapshot, OwnStepSnapshot DEF Snapshots

\* GetGroupBalances over GetGroupLedger: what a balances answer adds up are
\* the transactions live at one moment of the request and the settlements
\* recorded at one moment no earlier.
THEOREM BalancesAreASnapshotHolds == Spec => []BalancesAreASnapshot
<1>1. Snapshots => BalancesAreASnapshot
  BY DEF Snapshots, Snapshot, BalancesAreASnapshot
<1> QED
  BY TypedInit, SnapshotsInit, TypedStep, SnapshotsStep, <1>1, PTL DEF Spec

-----------------------------------------------------------------------------
(* The tables implement the ledger of module Ledger.                       *)

\* An accepted draft is stored balanced.
LEMMA StoredBalanced ==
  ASSUME NEW c \in CreateCall, Accepted(c.draft)
  PROVE  BalancedRow(StoredRow(c)) /\ Total(PaymentAmounts(c.draft.payments)) \in Nat
<1> DEFINE d == c.draft
           row == StoredRow(c)
<1>1. Shares(d) \in [DOMAIN d.splits -> Nat] /\ Total(Shares(d)) = d.amount
  BY SharesOfDraft DEF CreateCall
<1>2. row.amount = d.amount /\ row.payments = d.payments /\ row.splits = StoredSplits(d)
  BY DEF StoredRow
<1>3. ShareAmounts(row) = Shares(d)
  <2>1. /\ DOMAIN row.splits = DOMAIN d.splits
        /\ \A i \in DOMAIN d.splits : row.splits[i].share = Shares(d)[i]
    BY <1>2 DEF StoredSplits
  <2>2. ShareAmounts(row) = [i \in DOMAIN d.splits |-> Shares(d)[i]]
    <3> HIDE DEF row
    <3> QED
      BY <2>1 DEF ShareAmounts
  <2> QED
    BY <1>1, <2>2
<1>4. d.amount > 0 /\ DistinctUsers(d.payments) /\ ValidatePayments(d.amount, d.payments)
  BY DEF Accepted, ValidatePayments
<1>5. /\ Total(PaymentAmounts(d.payments)) \in Nat
      /\ \/ Total(PaymentAmounts(d.payments)) = d.amount
         \/ Total(PaymentAmounts(d.payments)) > MaxInt
  <2>1. d.payments \in Seq(Payment)
    BY DEF CreateCall, Draft
  <2>2. /\ DOMAIN d.payments = 1..Len(d.payments) /\ Len(d.payments) \in Nat
        /\ \A i \in DOMAIN d.payments : d.payments[i].amount \in Int
    <3>1. \A i \in DOMAIN d.payments : d.payments[i] \in Payment
      BY <2>1
    <3> QED
      BY <2>1, <3>1 DEF Payment
  <2> DEFINE payments == d.payments
             P == Total(PaymentAmounts(payments))
  <2> HIDE DEF payments
  <2>3. P \in Nat /\ (P <= MaxInt => P = d.amount)
    BY <1>4, <2>2, PaymentsSum DEF payments
  <2> HIDE DEF P
  <2>4. P \in Nat /\ (P = d.amount \/ P > MaxInt)
    BY <2>3, MaxIntAssumption
  <2> QED
    BY <2>4 DEF P, payments
<1> QED
  BY <1>1, <1>2, <1>3, <1>4, <1>5 DEF BalancedRow

LEMMA RefinesInit == Init => Abstract!Init
<1> SUFFICES ASSUME Init PROVE Abstract!Init
  OBVIOUS
<1>1. Live = Seeds /\ Settled = {}
  BY DEF Init, Live, Settled
<1>2. \A i \in Seeds : rows[i] = StoredRow(Seeded[i]) /\ BalancedRow(rows[i])
  BY StoredBalanced, CallsAssumption DEF Init, Ids
<1>3. \A i \in Ids : rows[i] # Nil <=> i \in Seeds
  BY SeededRowType, NilIsNothing DEF Init
<1> QED
  BY <1>1, <1>2, <1>3 DEF Init, Abstract!Init

LEMMA RefinesStep ==
  ASSUME Typed, Written, Authorised, [Next]_vars
  PROVE  [Abstract!Next]_(Abstract!vars)
<1>1. ASSUME NEW r \in Requests, Handles(r)
      PROVE  [Abstract!Next]_(Abstract!vars)
  <2>1. CASE WritesNothing /\ UNCHANGED <<Live, Settled>>
    BY <2>1 DEF WritesNothing, Abstract!vars
  <2>2. CASE InsertsRow(r) /\ Live' = Live \cup {r} /\ UNCHANGED Settled
    <3>1. call[r] \in CreateCall /\ Accepted(call[r].draft)
      BY <2>2, CallFields DEF InsertsRow, At, Typed, CallsMatch
    <3>2. rows[r] = Nil
      BY <2>2 DEF InsertsRow, At, Written
    <3>3. rows'[r] = StoredRow(call[r]) /\ rows' = [rows EXCEPT ![r] = rows'[r]]
          /\ settlements' = settlements
      BY <2>2 DEF InsertsRow, Typed, TypeOK, Ids
    <3>4. rows'[r] # Nil /\ BalancedRow(rows'[r])
      BY <3>1, <3>3, StoredRowType, StoredBalanced, NilIsNothing
    <3>5. Abstract!Post(r)
      BY <2>2, <3>2, <3>3, <3>4 DEF Abstract!Post
    <3> QED
      BY <3>5 DEF Abstract!Next, Ids
  <2>3. CASE DeletesRow(r) /\ Live' = Live \ {call[r].target} /\ UNCHANGED Settled
    <3>1. call[r].target \in Ids
      BY <2>3, CallFields DEF DeletesRow, At, Typed, CallsMatch
    <3>2. Abstract!Withdraw(call[r].target)
      BY <2>3 DEF DeletesRow, Abstract!Withdraw
    <3> QED
      BY <3>1, <3>2 DEF Abstract!Next
  <2>4. CASE InsertsSettlement(r) /\ Settled' = Settled \cup {r} /\ UNCHANGED Live
    <3>1. call[r] \in SettleCall /\ call[r].amount > 0
      BY <2>4, CallFields DEF InsertsSettlement, At, Typed, CallsMatch
    <3>2. settlements[r] = Nil /\ call[r].from # call[r].to
      BY <2>4 DEF InsertsSettlement, At, Written, Authorised, Vouched
    <3>3. /\ settlements'[r] = [from |-> call[r].from, to |-> call[r].to, by |-> call[r].by,
                                amount |-> call[r].amount]
          /\ settlements' = [settlements EXCEPT ![r] = settlements'[r]]
          /\ rows' = rows
      BY <2>4 DEF InsertsSettlement, Typed, TypeOK
    <3>4. settlements'[r] # Nil
      BY <3>1, <3>3, NilIsNothing DEF SettleCall, Settlement
    <3>5. Abstract!Record(r)
      BY <2>4, <3>1, <3>2, <3>3, <3>4 DEF Abstract!Record
    <3> QED
      BY <3>5 DEF Abstract!Next
  <2> QED
    BY <1>1, <2>1, <2>2, <2>3, <2>4, LedgerNext
<1>2. CASE ChangeGroup \/ UNCHANGED vars \/ \E r \in Requests : Begin(r)
  BY <1>2 DEF ChangeGroup, Begin, stores, vars, Live, Settled, Abstract!vars
<1> QED
  BY <1>1, <1>2, StepKinds

\* The tables of transaction-service are a ledger, handlers, failures and
\* races included: a transaction appears whole and balanced or not at all, is
\* never altered, and is withdrawn at most once; a settlement stays.
THEOREM ImplementsLedger == Spec => LedgerSpec
  BY RefinesInit, RefinesStep, AlwaysAuthorised, PTL DEF Spec, LedgerSpec, Abstract!Spec

-----------------------------------------------------------------------------
(* What the balances of an answer add up to.                               *)

\* The order SetToSeq puts a finite set in.
LEMMA OrderIs ==
  ASSUME NEW S, IsFiniteSet(S)
  PROVE  /\ SetToSeq(S) \in Bijection(1..Cardinality(S), S)
         /\ DOMAIN SetToSeq(S) = 1..Cardinality(S) /\ IsFiniteSet(1..Cardinality(S))
<1> DEFINE n == Cardinality(S)
<1>1. n \in Nat /\ ExistsBijection(1..n, S)
  BY FS_CardinalityType
<1>2. IsFiniteSet(1..n) /\ Cardinality(1..n) = n
  BY <1>1, FS_Interval
<1> HIDE DEF n
<1>3. \E f \in [1..n -> S] : IsInjective(f)
  BY <1>1 DEF ExistsBijection, Bijection, Injection
<1>4. SetToSeq(S) \in Injection(1..n, S)
  BY <1>3 DEF SetToSeq, Injection, n
<1>5. SetToSeq(S) \in Surjection(1..n, S)
  BY <1>2, <1>4, FS_Injection DEF n
<1>6. DOMAIN SetToSeq(S) = 1..n
  BY <1>4 DEF Injection
<1> QED
  BY <1>2, <1>4, <1>5, <1>6 DEF n, Bijection

\* What a transaction and a settlement move u's balance by.
RowMoves(i, u) ==
  (IF rows[i].type = Expense THEN 1 ELSE -1) * (Paid(rows[i].payments, u) - Share(rows[i].splits, u))

\* The fold that NetOf is.
LEMMA NetIsMerge ==
  ASSUME NEW ids, IsFiniteSet(ids), NEW paid,
         NEW nets, \A i \in ids : nets[i] = RowNet(i),
         NEW base,
         base = SettlementNet([k \in DOMAIN SetToSeq(paid) |-> settlements[SetToSeq(paid)[k]]])
  PROVE  \E m : IsMerge(m, base, nets, ids) /\ NetOf(ids, paid) = m[ids]
<1> DEFINE Is(m) == m = [T \in SUBSET ids |->
                           IF T = {} THEN base
                           ELSE mergeBalances(RowNet(CHOOSE i \in T : TRUE),
                                              m[T \ {CHOOSE i \in T : TRUE}])]
<1>1. ASSUME NEW m
      PROVE  IsMerge(m, base, nets, ids) <=> Is(m)
  <2>1. \A T \in SUBSET ids : T # {} => nets[FirstOf(T)] = RowNet(FirstOf(T))
    BY FirstIsIn
  <2>2. [T \in SUBSET ids |-> IF T = {} THEN base
                              ELSE mergeBalances(nets[FirstOf(T)], m[RestOf(T)])]
        = [T \in SUBSET ids |-> IF T = {} THEN base
                                ELSE mergeBalances(RowNet(FirstOf(T)), m[RestOf(T)])]
    BY <2>1
  <2> QED
    BY <2>2 DEF IsMerge, FirstOf, RestOf
<1>2. \E m : Is(m)
  <2> HIDE DEF Is
  <2> QED
    BY <1>1, MergesExist
<1>3. NetOf(ids, paid) = (CHOOSE m : Is(m))[ids]
  BY DEF NetOf, MapThenFoldSet
<1>4. Is(CHOOSE m : Is(m))
  <2> HIDE DEF Is
  <2> QED
    BY <1>2
<1> HIDE DEF Is
<1> QED
  BY <1>1, <1>3, <1>4

\* The sums that Position is.
LEMMA PositionIs ==
  ASSUME NEW u, NEW ids, IsFiniteSet(ids), NEW paid, IsFiniteSet(paid),
         NEW f, \A i \in ids : f[i] = RowMoves(i, u),
         NEW g, \A s \in paid : g[s] = TransferMoves(settlements[s], u)
  PROVE  Position(u, ids, paid) = SumFunctionOnSet(f, ids) + SumFunctionOnSet(g, paid)
<1> DEFINE rowPosition(i) == (IF rows[i].type = Expense THEN 1 ELSE -1)
                               * (Paid(rows[i].payments, u) - Share(rows[i].splits, u))
           paidPosition(s) == CASE settlements[s].from = u -> settlements[s].amount
                                [] settlements[s].to = u -> -settlements[s].amount
                                [] OTHER -> 0
           IsF(m) == m = [T \in SUBSET ids |->
                            IF T = {} THEN 0 ELSE rowPosition(CHOOSE i \in T : TRUE)
                                                    + m[T \ {CHOOSE i \in T : TRUE}]]
           IsG(m) == m = [T \in SUBSET paid |->
                            IF T = {} THEN 0 ELSE paidPosition(CHOOSE i \in T : TRUE)
                                                    + m[T \ {CHOOSE i \in T : TRUE}]]
<1>1. Position(u, ids, paid) = (CHOOSE m : IsF(m))[ids] + (CHOOSE m : IsG(m))[paid]
  BY DEF Position, MapThenSumSet, MapThenFoldSet
<1>2. (\A i \in ids : f[i] = rowPosition(i)) /\ (\A s \in paid : g[s] = paidPosition(s))
  BY DEF RowMoves, TransferMoves
<1> HIDE DEF rowPosition, paidPosition
<1>3. ASSUME NEW m
      PROVE  IsSum(m, f, ids) <=> IsF(m)
  <2>1. \A T \in SUBSET ids : T # {} => f[FirstOf(T)] = rowPosition(FirstOf(T))
    BY <1>2, FirstIsIn
  <2>2. [T \in SUBSET ids |-> IF T = {} THEN 0 ELSE f[FirstOf(T)] + m[RestOf(T)]]
        = [T \in SUBSET ids |-> IF T = {} THEN 0 ELSE rowPosition(FirstOf(T)) + m[RestOf(T)]]
    BY <2>1
  <2> QED
    BY <2>2 DEF IsSum, FirstOf, RestOf
<1>4. ASSUME NEW m
      PROVE  IsSum(m, g, paid) <=> IsG(m)
  <2>1. \A T \in SUBSET paid : T # {} => g[FirstOf(T)] = paidPosition(FirstOf(T))
    BY <1>2, FirstIsIn
  <2>2. [T \in SUBSET paid |-> IF T = {} THEN 0 ELSE g[FirstOf(T)] + m[RestOf(T)]]
        = [T \in SUBSET paid |-> IF T = {} THEN 0 ELSE paidPosition(FirstOf(T)) + m[RestOf(T)]]
    BY <2>1
  <2> QED
    BY <2>2 DEF IsSum, FirstOf, RestOf
<1> HIDE DEF IsF, IsG
<1>5. IsF(CHOOSE m : IsF(m)) /\ IsG(CHOOSE m : IsG(m))
  BY <1>3, <1>4, SumsExist
<1>6. (CHOOSE m : IsF(m))[ids] = SumFunctionOnSet(f, ids)
  BY <1>3, <1>5, SumOfAny
<1>7. (CHOOSE m : IsG(m))[paid] = SumFunctionOnSet(g, paid)
  BY <1>4, <1>5, SumOfAny
<1> QED
  BY <1>1, <1>6, <1>7

\* A transaction in the tables adds up, and so do a settlement's two people.
SoundRow(row) ==
  /\ row \in Row
  /\ BalancedRow(row)
  /\ Total(PaymentAmounts(row.payments)) \in Nat
  /\ \A i \in DOMAIN row.payments : row.payments[i].amount \in Nat
  /\ \A i \in DOMAIN row.splits : row.splits[i].share \in Nat

SoundSettlement(settlement) ==
  /\ settlement.amount \in Nat
  /\ settlement.from # settlement.to

\* GetGroupBalances over sound tables: as long as what it reads fits an int64,
\* the nets are everybody's positions, and they cancel out.
LEMMA NetsArePositions ==
  ASSUME NEW ids, IsFiniteSet(ids), \A i \in ids : SoundRow(rows[i]),
         NEW paid, IsFiniteSet(paid), \A s \in paid : SoundSettlement(settlements[s]),
         Volume(ids, paid) <= MaxInt
  PROVE  /\ SumFunction(NetOf(ids, paid)) = 0
         /\ \A u : BalanceIn(NetOf(ids, paid), u) = Position(u, ids, paid)
<1> DEFINE order == SetToSeq(paid)
           D == DOMAIN order
           transfers == [k \in D |-> settlements[order[k]]]
           base == SettlementNet(transfers)
           nets == [i \in ids |-> RowNet(i)]
           amount == [i \in ids |-> Total(PaymentAmounts(rows[i].payments))]
           sum == [s \in paid |-> settlements[s].amount]
           volume == [k \in D |-> settlements[order[k]].amount]
           v == SumFunctionOnSet(sum, paid)
<1>1. order \in Bijection(D, paid) /\ IsFiniteSet(D) /\ \A k \in D : order[k] \in paid
  <2>1. order \in Bijection(D, paid) /\ IsFiniteSet(D)
    BY OrderIs
  <2> QED
    BY <2>1 DEF Bijection, Injection
<1>2. /\ \A i \in ids : amount[i] \in Nat
      /\ \A s \in paid : sum[s] \in Nat /\ sum[s] \in Int
      /\ \A k \in D : volume[k] = sum[order[k]] /\ volume[k] = transfers[k].amount
      /\ \A k \in D : transfers[k].amount \in Nat /\ transfers[k].from # transfers[k].to
      /\ DOMAIN transfers = D
  BY <1>1 DEF SoundRow, SoundSettlement, BalancedRow, Row
<1>3. SumFunctionOnSet(volume, D) = v
  <2> HIDE DEF order, D, sum, volume
  <2> QED
    BY <1>1, <1>2, SumRenamed
<1>4. v \in Nat /\ SumFunctionOnSet(amount, ids) \in Nat /\ v + SumFunctionOnSet(amount, ids) <= MaxInt
      /\ v <= MaxInt /\ \A i \in ids : amount[i] <= MaxInt
  <2>1. SumFunctionOnSet(amount, ids) + v <= MaxInt
    BY DEF Volume
  <2> HIDE DEF amount, sum
  <2>2. SumFunctionOnSet(amount, ids) \in Nat /\ v \in Nat
        /\ \A i \in ids : amount[i] <= SumFunctionOnSet(amount, ids)
    BY <1>2, SumOfNaturals
  <2> QED
    BY <1>2, <2>1, <2>2, MaxIntAssumption
<1>5. /\ Within(base, v) /\ SumFunction(base) = 0
      /\ \A u : BalanceIn(base, u) = SumFunctionOnSet([k \in D |-> TransferMoves(transfers[k], u)], D)
  <2> HIDE DEF transfers, volume, D, v
  <2>1. /\ IsFiniteSet(DOMAIN transfers)
        /\ \A k \in DOMAIN transfers : /\ transfers[k].amount \in Nat
                                        /\ transfers[k].from # transfers[k].to
                                        /\ volume[k] = transfers[k].amount
        /\ SumFunctionOnSet(volume, DOMAIN transfers) = v /\ v <= MaxInt
    BY <1>1, <1>2, <1>3, <1>4
  <2>2. /\ Within(base, SumFunctionOnSet(volume, DOMAIN transfers)) /\ SumFunction(base) = 0
        /\ \A u : BalanceIn(base, u)
                    = SumFunctionOnSet([k \in DOMAIN transfers |-> TransferMoves(transfers[k], u)],
                                       DOMAIN transfers)
    BY <2>1, SettlementsMove
  <2> QED
    BY <1>2, <2>1, <2>2
<1>6. \A i \in ids : /\ Within(nets[i], amount[i]) /\ SumFunction(nets[i]) = 0
                     /\ \A u : BalanceIn(nets[i], u) = RowMoves(i, u)
  <2> TAKE i \in ids
  <2>1. SoundRow(rows[i]) /\ Total(PaymentAmounts(rows[i].payments)) <= MaxInt
        /\ amount[i] = Total(PaymentAmounts(rows[i].payments))
    BY <1>4
  <2> HIDE DEF amount
  <2> QED
    BY <2>1, RowNetIs DEF SoundRow, RowNet, RowMoves
<1>7. PICK m : IsMerge(m, base, nets, ids) /\ NetOf(ids, paid) = m[ids]
  <2>1. \A i \in ids : nets[i] = RowNet(i)
    OBVIOUS
  <2>2. base = SettlementNet([k \in DOMAIN SetToSeq(paid) |-> settlements[SetToSeq(paid)[k]]])
    OBVIOUS
  <2> HIDE DEF nets, base
  <2> QED
    BY <2>1, <2>2, NetIsMerge
<1>8. /\ SumFunction(m[ids]) = 0
      /\ \A u : BalanceIn(m[ids], u)
                  = BalanceIn(base, u) + SumFunctionOnSet([i \in ids |-> BalanceIn(nets[i], u)], ids)
  <2> HIDE DEF nets, base, amount, v
  <2> QED
    BY <1>2, <1>4, <1>5, <1>6, <1>7, MergesAddUp
<1>9. ASSUME NEW u
      PROVE  BalanceIn(m[ids], u) = Position(u, ids, paid)
  <2> DEFINE f == [i \in ids |-> BalanceIn(nets[i], u)]
             g == [s \in paid |-> TransferMoves(settlements[s], u)]
             h == [k \in D |-> TransferMoves(transfers[k], u)]
  <2>1. \A i \in ids : f[i] = RowMoves(i, u) /\ f[i] \in Int
    <3> TAKE i \in ids
    <3>1. f[i] = BalanceIn(nets[i], u)
      OBVIOUS
    <3>2. BalanceIn(nets[i], u) \in Int
      <4>1. Within(nets[i], amount[i]) /\ amount[i] \in Nat
        BY <1>2, <1>6
      <4> HIDE DEF nets, amount
      <4> QED
        BY <4>1 DEF Within, BalanceIn
    <3> QED
      BY <1>6, <3>1, <3>2
  <2>2. /\ \A s \in paid : g[s] = TransferMoves(settlements[s], u) /\ g[s] \in Int
        /\ \A k \in D : h[k] = g[order[k]]
    BY <1>1 DEF TransferMoves, SoundSettlement
  <2> HIDE DEF f, g, h, order, D
  <2>3. SumFunctionOnSet(h, D) = SumFunctionOnSet(g, paid)
    BY <1>1, <2>2, SumRenamed
  <2>4. Position(u, ids, paid) = SumFunctionOnSet(f, ids) + SumFunctionOnSet(g, paid)
    BY <2>1, <2>2, PositionIs
  <2>5. SumFunctionOnSet(f, ids) \in Int /\ SumFunctionOnSet(g, paid) \in Int
    BY <2>1, <2>2, SumGrows
  <2>6. BalanceIn(m[ids], u) = SumFunctionOnSet(h, D) + SumFunctionOnSet(f, ids)
    BY <1>5, <1>8 DEF f, h
  <2> QED
    BY <2>3, <2>4, <2>5, <2>6
<1> QED
  BY <1>7, <1>8, <1>9

LEMMA StoredSound ==
  ASSUME NEW c \in CreateCall, Accepted(c.draft)
  PROVE  SoundRow(StoredRow(c))
<1> DEFINE d == c.draft
           row == StoredRow(c)
<1>1. row \in Row /\ BalancedRow(row) /\ Total(PaymentAmounts(d.payments)) \in Nat
  BY StoredRowType, StoredBalanced
<1>2. row.payments = d.payments /\ row.splits = StoredSplits(d)
  BY DEF StoredRow
<1>3. \A i \in DOMAIN row.payments : row.payments[i].amount \in Nat
  <2>1. d.payments \in Seq(Payment) /\ \A i \in DOMAIN d.payments : d.payments[i].amount > 0
    BY DEF CreateCall, Draft, Accepted, ValidatePayments
  <2>2. \A i \in DOMAIN d.payments : d.payments[i] \in Payment
    BY <2>1
  <2> HIDE DEF row, d
  <2> QED
    BY <1>2, <2>1, <2>2 DEF Payment
<1>4. \A i \in DOMAIN row.splits : row.splits[i].share \in Nat
  <2>1. Shares(d) \in [DOMAIN d.splits -> Nat]
    BY SharesOfDraft DEF CreateCall
  <2>2. DOMAIN StoredSplits(d) = DOMAIN d.splits
        /\ \A i \in DOMAIN d.splits : StoredSplits(d)[i].share = Shares(d)[i]
    BY DEF StoredSplits
  <2> HIDE DEF row, d
  <2> QED
    BY <1>2, <2>1, <2>2
<1>5. Total(PaymentAmounts(row.payments)) \in Nat
  BY <1>1, <1>2, Zenon
<1>6. SoundRow(row)
  <2> HIDE DEF row, d
  <2> QED
    BY <1>1, <1>3, <1>4, <1>5 DEF SoundRow
<1> QED
  BY <1>6

\* What is in the tables is sound ...
Sound ==
  /\ \A i \in Ids : rows[i] # Nil => SoundRow(rows[i])
  /\ \A s \in Requests : settlements[s] # Nil => SoundSettlement(settlements[s])

\* ... and what a reader of balances has noted is in the tables; it notes one
\* thing at a time.
Notes(r) ==
  /\ IsFiniteSet(view[r].read) /\ \A i \in view[r].read : rows[i] # Nil
  /\ IsFiniteSet(view[r].settled) /\ \A s \in view[r].settled : settlements[s] # Nil

Noted == IsFiniteSet(Settled) /\ \A r \in Requests : Notes(r)

LEMMA SoundInit == Init => Sound /\ Noted
<1> SUFFICES ASSUME Init PROVE Sound /\ Noted
  OBVIOUS
<1>1. \A i \in Seeds : rows[i] = StoredRow(Seeded[i]) /\ SoundRow(rows[i])
  BY StoredSound, CallsAssumption DEF Init, Ids
<1>2. Settled = {} /\ IsFiniteSet({})
  BY FS_EmptySet DEF Init, Settled
<1> QED
  BY <1>1, <1>2 DEF Init, Sound, Noted, Notes

LEMMA SoundStep ==
  ASSUME Typed, Written, Authorised, Sound, [Next]_vars
  PROVE  Sound'
<1>1. ASSUME NEW r \in Requests, Handles(r)
      PROVE  Sound'
  <2>1. CASE WritesNothing \/ DeletesRow(r)
    BY <2>1 DEF WritesNothing, DeletesRow, Sound
  <2>2. CASE InsertsRow(r)
    <3>1. call[r] \in CreateCall /\ Accepted(call[r].draft)
      BY <2>2, CallFields DEF InsertsRow, At, Typed, CallsMatch
    <3>2. /\ SoundRow(StoredRow(call[r])) /\ StoredRow(call[r]) # Nil
          /\ rows' = [rows EXCEPT ![r] = StoredRow(call[r])] /\ settlements' = settlements
      BY <2>2, <3>1, StoredSound, StoredRowType, NilIsNothing DEF InsertsRow
    <3> QED
      BY <3>2 DEF Sound, Typed, TypeOK, Ids
  <2>3. CASE InsertsSettlement(r)
    <3> DEFINE entry == [from |-> call[r].from, to |-> call[r].to, by |-> call[r].by,
                         amount |-> call[r].amount]
    <3>1. call[r] \in SettleCall /\ call[r].amount > 0 /\ call[r].from # call[r].to
      BY <2>3, CallFields DEF InsertsSettlement, At, Typed, CallsMatch, Authorised, Vouched
    <3>2. entry \in Settlement /\ SoundSettlement(entry) /\ entry # Nil
      BY <3>1, NilIsNothing DEF SettleCall, Settlement, SoundSettlement
    <3>3. settlements' = [settlements EXCEPT ![r] = entry] /\ rows' = rows
      BY <2>3 DEF InsertsSettlement
    <3> HIDE DEF entry
    <3> QED
      BY <3>2, <3>3 DEF Sound, Typed, TypeOK
  <2> QED
    BY <1>1, <2>1, <2>2, <2>3 DEF Handles, Writes
<1>2. CASE ChangeGroup \/ UNCHANGED vars \/ \E r \in Requests : Begin(r)
  BY <1>2 DEF ChangeGroup, Begin, stores, vars, Sound
<1> QED
  BY <1>1, <1>2, StepKinds

\* The handlers that take notes.
LEMMA NotesChange ==
  ASSUME Typed, Written, NEW r \in Requests, Step(r) \/ Fail(r) \/ Begin(r)
  PROVE  \/ view' = view
         \/ LedgerListsIds(r)
         \/ \E i \in Live : view' = [view EXCEPT ![r].pending = @ \ {i}, ![r].read = @ \cup {i}]
         \/ view' = [view EXCEPT ![r].settled = Settled]
<1>1. CASE Balances(r)
  BY <1>1 DEF Balances, BalancesChecksCaller, LedgerLoadsRow, LedgerReadsSettlements, Loads, locals
<1>2. CASE Create(r)
  BY <1>2 DEF Create, CreateChecksCreator, CreateChecksGroup, CreateChecksParties, CreateInserts,
              CreateReadsBack, locals
<1>3. CASE GetOrDelete(r)
  BY <1>3 DEF GetOrDelete, LoadTransaction, CheckCaller, DeleteChecksPermission, DeleteUpdates, locals
<1>4. CASE Settle(r)
  BY <1>4 DEF Settle, SettleChecksPayer, SettleReadsGroup, SettleChecksParties, SettleInserts, locals
<1>5. CASE Fail(r) \/ Begin(r)
  BY <1>5 DEF Fail, Begin, locals
<1> QED
  BY <1>1, <1>2, <1>3, <1>4, <1>5 DEF Step

LEMMA NotedStep ==
  ASSUME Typed, Written, Noted, [Next]_vars
  PROVE  Noted'
<1>1. IsFiniteSet(Settled')
  <2>1. CASE UNCHANGED Settled
    BY <2>1 DEF Noted
  <2>2. ASSUME NEW r \in Requests, Settled' = Settled \cup {r}
        PROVE  IsFiniteSet(Settled')
    BY <2>2, FS_AddElement DEF Noted
  <2>3. ASSUME NEW r \in Requests, Handles(r)
        PROVE  IsFiniteSet(Settled')
    BY <2>1, <2>2, <2>3, LedgerNext
  <2>4. CASE ChangeGroup \/ UNCHANGED vars \/ \E r \in Requests : Begin(r)
    BY <2>1, <2>4 DEF ChangeGroup, Begin, stores, vars, Settled
  <2> QED
    BY <2>3, <2>4, StepKinds
<1>2. /\ \A i \in Ids : rows[i] # Nil => rows'[i] # Nil
      /\ \A s \in Requests : settlements[s] # Nil => settlements'[s] # Nil
      /\ Settled \subseteq Requests /\ \A s \in Settled : settlements[s] # Nil
      /\ Live \subseteq Ids /\ \A i \in Live : rows[i] # Nil
  BY RowsStay, TypedCurrent DEF Written, Typed
<1>3. ASSUME NEW r \in Requests
      PROVE  Notes(r)'
  <2>1. /\ view \in [Requests -> View] /\ Notes(r) /\ IsFiniteSet(Settled)
    BY DEF Noted, Typed, TypeOK, View
  <2>2. CASE view'[r] = view[r]
    BY <1>2, <2>1, <2>2 DEF Notes, View
  <2>3. CASE LedgerListsIds(r)
    <3>1. view'[r].read = view[r].read /\ view'[r].settled = view[r].settled
      BY <2>1, <2>3 DEF LedgerListsIds, View
    <3> QED
      BY <1>2, <2>1, <3>1 DEF Notes, View
  <2>4. ASSUME NEW i \in Live, view' = [view EXCEPT ![r].pending = @ \ {i}, ![r].read = @ \cup {i}]
        PROVE  Notes(r)'
    <3>1. view'[r].read = view[r].read \cup {i} /\ view'[r].settled = view[r].settled
      BY <2>1, <2>4 DEF View
    <3>2. IsFiniteSet(view[r].read \cup {i})
      BY <2>1, FS_AddElement DEF Notes
    <3> QED
      BY <1>2, <2>1, <2>4, <3>1, <3>2 DEF Notes, View
  <2>5. CASE view' = [view EXCEPT ![r].settled = Settled]
    <3>1. view'[r].read = view[r].read /\ view'[r].settled = Settled
      BY <2>1, <2>5 DEF View
    <3> QED
      BY <1>2, <2>1, <3>1 DEF Notes, View
  <2>6. CASE Rests(r)
    BY <2>2, <2>6 DEF Rests
  <2> QED
    BY <2>2, <2>3, <2>4, <2>5, <2>6, OneAtATime, NotesChange
<1> QED
  BY <1>1, <1>3 DEF Noted

LEMMA AlwaysNoted == Spec => [](Typed /\ Sound /\ Noted)
  BY TypedInit, WrittenInit, AuthorisedInit, SoundInit, TypedStep, WrittenStep, AuthorisedStep,
     SoundStep, NotedStep, PTL DEF Spec

\* GetGroupBalances: as long as the money it counts is an int64, the balances of
\* an answer are everybody's positions and sum to zero.
THEOREM BalancesAddUpHolds == Spec => []BalancesAddUp
<1>1. Typed /\ Sound /\ Noted => BalancesAddUp
  <2> SUFFICES ASSUME Typed, Sound, Noted,
                      NEW r \in Requests, Volume(view[r].read, view[r].settled) <= MaxInt
               PROVE  /\ SumFunction(NetOf(view[r].read, view[r].settled)) = 0
                      /\ \A u \in Members :
                           BalanceIn(NetOf(view[r].read, view[r].settled), u)
                             = Position(u, view[r].read, view[r].settled)
    BY DEF BalancesAddUp, BalanceIn
  <2>1. PICK ids \in SUBSET Ids, paid \in SUBSET Requests :
          ids = view[r].read /\ paid = view[r].settled
    BY DEF Typed, TypeOK
  <2>2. /\ IsFiniteSet(ids) /\ \A i \in ids : SoundRow(rows[i])
        /\ IsFiniteSet(paid) /\ \A s \in paid : SoundSettlement(settlements[s])
        /\ Volume(ids, paid) <= MaxInt
    BY <2>1 DEF Noted, Notes, Sound
  <2>3. /\ SumFunction(NetOf(ids, paid)) = 0
        /\ \A u : BalanceIn(NetOf(ids, paid), u) = Position(u, ids, paid)
    BY <2>2, NetsArePositions
  <2> QED
    BY <2>1, <2>3
<1> QED
  BY AlwaysNoted, <1>1, PTL

=============================================================================
