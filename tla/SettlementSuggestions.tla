------------------------ MODULE SettlementSuggestions ------------------------
(***************************************************************************)
(* SuggestSettlements (transaction-service, domain/calculation.go): the    *)
(* transfers that would bring a group's balances to zero.  Debtors and     *)
(* creditors are ordered by what they owe and are owed, the largest first, *)
(* and the first of each are matched until either list is through.         *)
(*                                                                         *)
(* sort.Slice is not stable, so people with the same amount may stand in   *)
(* any order.  A person leaves the list when settled, where the code moves *)
(* an index.                                                               *)
(***************************************************************************)
EXTENDS Integers, SequencesExt

CONSTANTS
  People,
  MaxBalance    \* bound on a balance, in minor units

ASSUME PeopleAssumption == IsFiniteSet(People) /\ MaxBalance \in Nat

VARIABLES
  balances,     \* NetMinor of every member, as GetGroupBalances adds them up
  debtors,      \* who still has to pay
  creditors,    \* who still has to be paid
  suggestions

settlingVars == <<balances, debtors, creditors, suggestions>>

CancellingBalances ==
  {b \in [People -> -MaxBalance..MaxBalance] : SumFunction(b) = 0}

\* What sort.Slice may make of the positions.
LargestFirst(positions) ==
  {list \in SetToSeqs(positions) :
     \A i, j \in 1..Len(list) : i < j => list[i].amount >= list[j].amount}

SettlingInit ==
  /\ balances \in CancellingBalances
  /\ debtors \in LargestFirst({[user |-> u, amount |-> -balances[u]] :
                                 u \in {v \in People : balances[v] < 0}})
  /\ creditors \in LargestFirst({[user |-> u, amount |-> balances[u]] :
                                   u \in {v \in People : balances[v] > 0}})
  /\ suggestions = <<>>

Smaller(x, y) == IF x < y THEN x ELSE y

\* Slip: what is left of a position is forgotten.
SettleFirst_Forgets(list, amount) == Tail(list)

\* The first of the list has amount less to settle.
SettleFirst(list, amount) ==
  IF Head(list).amount = amount
  THEN Tail(list)
  ELSE <<[Head(list) EXCEPT !.amount = @ - amount]>> \o Tail(list)

Suggest ==
  /\ debtors # <<>> /\ creditors # <<>>
  /\ LET amount == Smaller(Head(debtors).amount, Head(creditors).amount)
     IN  /\ suggestions' = Append(suggestions,
              [from |-> Head(debtors).user, to |-> Head(creditors).user, amount |-> amount])
         /\ debtors' = SettleFirst(debtors, amount)
         /\ creditors' = SettleFirst(creditors, amount)
  /\ UNCHANGED balances

SettlingNext == Suggest

SettlingSpec == SettlingInit /\ [][SettlingNext]_settlingVars

-----------------------------------------------------------------------------
(* Properties.                                                             *)

Done == debtors = <<>> \/ creditors = <<>>

Moved(Counts(_)) ==
  SumFunctionOnSet([i \in DOMAIN suggestions |-> suggestions[i].amount],
                   {i \in DOMAIN suggestions : Counts(suggestions[i])})

\* What user u owes, below zero, or is owed once the suggestions are followed.
Open(u) == balances[u] + Moved(LAMBDA t : t.from = u) - Moved(LAMBDA t : t.to = u)

\* A settlement raises the balance of who pays and lowers that of who is paid
\* (docs/TRANSACTION_SERVICE_VI.md).  Following every suggestion leaves nobody
\* with a debt or a claim, and until then exactly what the lists hold is open.
\* No money takes a detour: only debtors pay and only creditors are paid, and
\* one transfer fewer than there are people with a balance is always enough, so
\* that the loop ends.  The largest debt and the largest claim are matched first.
SettlesEverybody ==
  /\ \A u \in People :
       /\ Done => Open(u) = 0
       /\ Open(u) < 0 <=> \E i \in DOMAIN debtors : debtors[i].user = u /\ debtors[i].amount = -Open(u)
       /\ Open(u) > 0 <=> \E i \in DOMAIN creditors : creditors[i].user = u /\ creditors[i].amount = Open(u)
  /\ \A i \in DOMAIN suggestions :
       balances[suggestions[i].from] < 0 /\ balances[suggestions[i].to] > 0
  /\ suggestions # <<>> =>
       /\ Len(suggestions) < Cardinality({u \in People : balances[u] # 0})
       /\ \A u, v \in People :
            balances[u] < 0 /\ balances[v] > 0
              => Smaller(-balances[u], balances[v]) <= suggestions[1].amount

=============================================================================
