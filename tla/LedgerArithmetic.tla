-------------------------- MODULE LedgerArithmetic --------------------------
(***************************************************************************)
(* The arithmetic of one group transaction, from the draft a client sends  *)
(* to the balances it leaves: buildPayments, ValidatePayments, buildSplits *)
(* and AllocateShares, then CalculateBalances.  One behaviour per draft:   *)
(* the drafts are the inputs the operators are checked on against what the *)
(* documents say they compute.                                             *)
(***************************************************************************)
EXTENDS LedgerCalculation

CONSTANT Inputs     \* drafts [type, amount, payments, splits], as in TransactionService

\* What the JSON of a draft is parsed into: an int64 and two slices, their
\* amounts and values integers (a ratio in millionths), a split fixed or by ratio.
ASSUME InputsAssumption ==
  \A d \in Inputs :
    /\ d.amount \in Int
    /\ d.payments \in Seq([user : Users(d.payments), amount : Int])
    /\ d.splits \in Seq([user : Users(d.splits), type : {Fixed, Ratio}, value : Int])

VARIABLES draft, shares, net, stage

arithmeticVars == <<draft, shares, net, stage>>

ArithmeticInit ==
  /\ draft \in Inputs
  /\ shares = Failed
  /\ net = Failed
  /\ stage = "payments"

CheckPayments ==
  /\ stage = "payments"
  /\ stage' = IF ValidatePayments(draft.amount, draft.payments) THEN "splits" ELSE "rejected"
  /\ UNCHANGED <<draft, shares, net>>

Allocate ==
  /\ stage = "splits"
  /\ shares' = AllocateShares(draft.amount, draft.splits)
  /\ stage' = IF shares' = Failed THEN "rejected" ELSE "balances"
  /\ UNCHANGED <<draft, net>>

SplitRows == [i \in DOMAIN shares |-> [user |-> draft.splits[i].user, share |-> shares[i]]]

CalculateBalances ==
  /\ stage = "balances"
  /\ net' = TransactionNet(draft.type, draft.payments, SplitRows)
  /\ stage' = IF Balanced(net') THEN "accepted" ELSE "unbalanced"
  /\ UNCHANGED <<draft, shares>>

ArithmeticNext == CheckPayments \/ Allocate \/ CalculateBalances

ArithmeticSpec == ArithmeticInit /\ [][ArithmeticNext]_arithmeticVars

-----------------------------------------------------------------------------
\* docs/TRANSACTION_SERVICE_VI.md, "phan du lam tron duoc phan phoi on dinh theo
\* largest remainder": shares by ratio sum to the amount, each is its exact
\* share rounded down or up, and of two splits the one rounded up has the
\* larger remainder, or as large a one and an earlier place.  Only proportions
\* matter: 2:1 and 0.5:0.25 are one split.
AllocationIsLargestRemainder ==
  shares # Failed /\ draft.splits[1].type = Ratio =>
    LET w    == Total(Weights(draft.splits))
        over(i) == w * shares[i] - draft.amount * draft.splits[i].value
        rem(i)  == (draft.amount * draft.splits[i].value) % w
        scaled(k) == [i \in DOMAIN draft.splits |-> [draft.splits[i] EXCEPT !.value = k * @]]
    IN  /\ Total(shares) = draft.amount
        /\ \A i \in DOMAIN shares : -w < over(i) /\ over(i) < w
        /\ \A i, j \in DOMAIN shares :
             over(i) > 0 /\ over(j) <= 0 => rem(i) > rem(j) \/ (rem(i) = rem(j) /\ i < j)
        /\ \A k \in 2..3 : AllocateShares(draft.amount, scaled(k)) = shares

\* docs/TRANSACTION_SERVICE_VI.md, "Tong payments phai bang tong giao dich": a
\* draft that gets through is balanced in fact and not only in int64.  What its
\* payers paid less what its participants owe sums to zero, the payments and the
\* shares each to the amount, and a fixed split is kept as it came.  Only
\* payments whose true sum is beyond an int64 get through although they do not
\* sum to the amount; the shares do even then.
AcceptedIsBalanced ==
  stage = "accepted" =>
    /\ Total(shares) = draft.amount
    /\ draft.splits[1].type = Fixed => shares = Weights(draft.splits)
    /\ \/ /\ Total(PaymentAmounts(draft.payments)) = draft.amount
          /\ SumFunction(net) = 0
       \/ Total(PaymentAmounts(draft.payments)) > MaxInt

=============================================================================
