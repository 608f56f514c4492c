------------------------- MODULE LedgerCalculation -------------------------
(***************************************************************************)
(* The arithmetic of a group's ledger,                                     *)
(* transaction-service/internal/domain/calculation.go: how a transaction   *)
(* is split, when its payments are accepted, and the balances it leaves.   *)
(*                                                                         *)
(* A slice is a sequence; a failed call returns the empty sequence, which  *)
(* no successful one does.  Sums of int64 wrap, sums of big.Int do not.    *)
(***************************************************************************)
EXTENDS Decimal, Sequences, FiniteSets, Functions

Fixed == "fixed"
Ratio == "ratio"
Income == "income"
Expense == "expense"

\* The result of a call that returned an error.
Failed == <<>>

Users(entries) == {entries[i].user : i \in DOMAIN entries}

DistinctUsers(entries) ==
  \A i, j \in DOMAIN entries : entries[i].user = entries[j].user => i = j

\* The true sum of a sequence of numbers.
Total(numbers) == SumFunction(numbers)

ValidSplits(splits) ==
  /\ splits # <<>>
  /\ DistinctUsers(splits)
  /\ \A i \in DOMAIN splits : splits[i].value > 0 /\ splits[i].type = splits[1].type

Weights(splits) == [i \in DOMAIN splits |-> splits[i].value]

\* The exact share of split i is Quotient + Remainder / Total(Weights).
Quotient(amount, splits, i) == (amount * splits[i].value) \div Total(Weights(splits))

Remainder(amount, splits, i) == (amount * splits[i].value) % Total(Weights(splits))

\* How many splits stand before split i once sort.SliceStable has ordered
\* them by decreasing remainder.
Rank(amount, splits, i) ==
  LET r(j) == Remainder(amount, splits, j)
  IN  Cardinality({j \in DOMAIN splits : r(j) > r(i) \/ (r(j) = r(i) /\ j < i)})

\* Slip: they are left over.
RatioShares_Floors(amount, splits) == [i \in DOMAIN splits |-> Quotient(amount, splits, i)]

\* The quotients leave units over; the loop hands them out one by one in that
\* order, starting again at the first split if any is left.
RatioShares(amount, splits) ==
  LET quotients == [i \in DOMAIN splits |-> Quotient(amount, splits, i)]
      left      == amount - Total(quotients)
  IN  [i \in DOMAIN splits |->
         quotients[i] + Cardinality({turn \in 0..(left - 1) :
                          turn % Len(splits) = Rank(amount, splits, i)})]

AllocationInput(amount, splits) == amount > 0 /\ ValidSplits(splits)

\* Slip: a fixed split is treated as a ratio.
AllocateShares_OneBranch(amount, splits) ==
  IF ~AllocationInput(amount, splits) THEN Failed ELSE RatioShares(amount, splits)

\* The share of each split, in the order of the splits.
AllocateShares(amount, splits) ==
  IF \/ ~AllocationInput(amount, splits)
     \/ splits[1].type = Fixed /\ Total(Weights(splits)) # amount
  THEN Failed
  ELSE IF splits[1].type = Fixed THEN Weights(splits) ELSE RatioShares(amount, splits)

PaymentAmounts(payments) == [i \in DOMAIN payments |-> payments[i].amount]

ValidatePayments(amount, payments) ==
  /\ amount > 0
  /\ payments # <<>>
  /\ DistinctUsers(payments)
  /\ \A i \in DOMAIN payments : payments[i].amount > 0
  /\ Wrap(Total(PaymentAmounts(payments))) = amount

-----------------------------------------------------------------------------
(* Balances.                                                               *)

\* What the entries of user u in a sequence of entries add up to.
AmountOf(entries, u, key(_), amount(_)) ==
  SumFunctionOnSet([i \in DOMAIN entries |-> amount(entries[i])],
                   {i \in DOMAIN entries : key(entries[i]) = u})

Paid(payments, u) == AmountOf(payments, u, LAMBDA e : e.user, LAMBDA e : e.amount)

Share(splits, u) == AmountOf(splits, u, LAMBDA e : e.user, LAMBDA e : e.share)

Sent(settlements, u) == AmountOf(settlements, u, LAMBDA e : e.from, LAMBDA e : e.amount)

Received(settlements, u) == AmountOf(settlements, u, LAMBDA e : e.to, LAMBDA e : e.amount)

\* CalculateBalances for one transaction: the net position of every user it
\* mentions.
TransactionNet(type, payments, splits) ==
  [u \in Users(payments) \cup Users(splits) |->
     Wrap(IF type = Income
          THEN Share(splits, u) - Paid(payments, u)
          ELSE Paid(payments, u) - Share(splits, u))]

\* CalculateBalances for the settlements alone.
SettlementNet(settlements) ==
  [u \in {settlements[i].from : i \in DOMAIN settlements}
         \cup {settlements[i].to : i \in DOMAIN settlements} |->
     Wrap(Sent(settlements, u) - Received(settlements, u))]

\* CalculateBalances answers ErrUnbalancedNet when this is false.
Balanced(net) == Wrap(SumFunction(net)) = 0

\* Slip: the later calculation wins.
mergeBalances_Replaces(net, other) ==
  [u \in DOMAIN net \cup DOMAIN other |-> IF u \in DOMAIN other THEN other[u] ELSE net[u]]

\* mergeBalances: the nets of two calculations added up.
mergeBalances(net, other) ==
  LET at(f, u) == IF u \in DOMAIN f THEN f[u] ELSE 0
  IN  [u \in DOMAIN net \cup DOMAIN other |-> Wrap(at(net, u) + at(other, u))]

=============================================================================
