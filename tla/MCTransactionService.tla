----------------------- MODULE MCTransactionService -----------------------
(***************************************************************************)
(* Instances of TransactionService: ann owns the group, bob is a member,   *)
(* cat is outside it until somebody lets her in.                           *)
(***************************************************************************)
EXTENDS TransactionService

CONSTANTS ann, bob, cat, r1, r2, r3, s1, s2

MCMembers == {ann, bob, cat}

MCRoster == (ann :> "owner") @@ (bob :> "member") @@ (cat :> "none")

pay(u, n) == [user |-> u, amount |-> n]

split(t, u, n) == [user |-> u, type |-> t, value |-> n]

draft(t, n, ps, ss) == [type |-> t, amount |-> n, payments |-> ps, splits |-> ss]

create(u, d) == [op |-> "create", by |-> u, draft |-> d]

\* In the ratio 9:1, which leaves a unit to hand out.  With MaxInt at a million,
\* two of them and all else the ledger can have by then come to MaxInt, and three
\* move bob's balance beyond it.
Lunch == draft(Expense, 400001, <<pay(bob, 400001)>>,
               <<split(Ratio, ann, 9), split(Ratio, bob, 1)>>)

\* An income two people received.
Refund == draft(Income, 7, <<pay(ann, 3), pay(bob, 4)>>,
                <<split(Ratio, bob, 1), split(Ratio, ann, 1)>>)

\* Names somebody who may be outside the group.
Trip == draft(Expense, 5, <<pay(ann, 5)>>, <<split(Ratio, ann, 3), split(Ratio, cat, 3)>>)

FixedRent == draft(Expense, 6, <<pay(ann, 6)>>, <<split(Fixed, ann, 2), split(Fixed, bob, 4)>>)

\* One cent between two: the second share is zero.
Cent == draft(Expense, 1, <<pay(bob, 1)>>,
              <<split(Ratio, ann, 1), split(Ratio, bob, 1)>>)

\* Pays less than it costs.
Short == draft(Expense, 5, <<pay(bob, 4)>>, <<split(Ratio, ann, 1)>>)

\* 0.80 with four more digits is too long for the column.
Long == draft(Expense, 80, <<pay(bob, 80)>>, <<split(Fixed, ann, 80)>>)

\* Pays so much that an int64 comes out at 6.
Wrapped == draft(Expense, 6, [i \in 1..3 |-> pay(<<ann, bob, cat>>[i],
                                                 IF i = 3 THEN 666670 ELSE 666669)],
                 <<split(Ratio, ann, 1)>>)

settle(u, a, b, n) == [op |-> "settle", by |-> u, from |-> a, to |-> b, amount |-> n]

target(o, u, i) == [op |-> o, by |-> u, target |-> i]

MCSeeded == (s1 :> create(bob, Lunch)) @@ (s2 :> create(ann, Refund))

\* Writers and a reader of balances over two seeded transactions.
LedgerCalls ==
  {create(bob, Lunch), create(ann, Trip), settle(ann, cat, bob, 199991),
   target("delete", bob, s1), target("delete", bob, s2), [op |-> "balances", by |-> bob]}

\* One call for every outcome of the handlers.
OutcomeCalls ==
  {create(bob, d) : d \in {Lunch, FixedRent, Cent, Short, Long, Wrapped}}
    \cup {create(cat, Trip), settle(bob, bob, bob, 1), settle(bob, bob, ann, 0),
          settle(bob, bob, ann, MaxNumeric + 1), settle(bob, ann, bob, 1),
          settle(ann, bob, cat, 1), target("get", bob, s1), [op |-> "balances", by |-> cat]}
    \cup {target("delete", ann, i) : i \in Requests \cup Seeds}

OutcomesSeeded == (s1 :> create(bob, Lunch))

RequestSymmetry == Permutations(Requests)

=============================================================================
