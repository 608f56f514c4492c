----------------------- MODULE MCListsAndCalculations -----------------------
(***************************************************************************)
(* What transaction-service lists and computes: instances of               *)
(* TransactionLists, LedgerArithmetic and SettlementSuggestions.  A        *)
(* behaviour is of one of the three; the others are at rest.               *)
(***************************************************************************)
EXTENDS TransactionLists, LedgerArithmetic, SettlementSuggestions

CONSTANTS
  alice, home, food,
  MaxAmount,    \* amounts are 1..MaxAmount minor units
  MaxWeight,    \* split values are 1..MaxWeight
  MaxPeople     \* splits and payments name up to this many people

VARIABLE part

-----------------------------------------------------------------------------
(* Lists: two rows at the start, and room for a third; one client that     *)
(* pages, one that files an entry.                                         *)

MCRow(list, type, date, c) ==
  [list |-> list, live |-> TRUE, date |-> date,
   type |-> IF list.kind = "settlement" THEN Unspecified ELSE type,
   category |-> IF list.kind = "settlement" THEN NoCategory ELSE c]

MCInitialRows ==
  {(1 :> MCRow(list, "expense", 2, IF type = "income" THEN NoCategory ELSE food))
     @@ (2 :> MCRow(list, type, 1, NoCategory)) :
     list \in Lists, type \in {"income", "expense"}}

\* Every list there is, the expenses, and a category from some date on, with a
\* date that does not parse for its end.
MCQueries ==
  {[from |-> Garbage, to |-> Garbage, type |-> "typo", category |-> ""],
   [from |-> Garbage, to |-> Word(1), type |-> "expense", category |-> ""],
   [from |-> Word(2), to |-> Garbage, type |-> "", category |-> food]}

\* No number, more than there may be, and one that comes out as -3.
MCLimitWords == {Garbage, Word(3), Word(5)}

-----------------------------------------------------------------------------
(* Drafts.                                                                 *)

entries(values, Entry(_, _)) == [i \in DOMAIN values |-> Entry(i, values[i])]

payment(i, v) == [user |-> i, amount |-> v]

\* Splits of one type, and ones that mix the types.
splitLists ==
  LET lists(Type(_)) == {entries(v, LAMBDA i, x : [user |-> i, type |-> Type(i), value |-> x]) :
                           v \in UNION {[1..n -> 1..MaxWeight] : n \in 1..MaxPeople}}
  IN  lists(LAMBDA i : "fixed") \cup lists(LAMBDA i : "ratio")
        \cup lists(LAMBDA i : IF i = 1 THEN "fixed" ELSE "ratio")

\* One or two payers who between them pay the amount, or a unit too much; and
\* one who is named twice.
paymentLists(a) ==
  {<<payment(1, a)>>, <<payment(2, a + 1)>>, <<payment(1, 1), payment(1, a)>>}
    \cup {<<payment(3, p), payment(1, a - p)>> : p \in 1..(a - 1)}

\* Twenty-one people who pay no more than a column holds, and so much that an
\* int64 comes out at one unit.
longPayments ==
  [i \in 1..21 |-> payment(i, IF i = 21 THEN 2 * MaxInt + 3 - 20 * MaxNumeric ELSE MaxNumeric)]

MCDrafts ==
  UNION {[type : {"income", "expense"}, amount : {a}, payments : paymentLists(a),
          splits : splitLists] : a \in 1..MaxAmount}
    \cup [type : {"income", "expense"}, amount : {1}, payments : {longPayments},
          splits : {<<[user |-> 1, type |-> "ratio", value |-> 1]>>}]

-----------------------------------------------------------------------------

ListsAtRest ==
  /\ rows = <<>> /\ categories = <<>>
  /\ writer = [w \in Writers |-> AtRest] /\ reader = [r \in Readers |-> AtRest]

ArithmeticAtRest == draft = <<>> /\ shares = <<>> /\ net = <<>> /\ stage = "rejected"

SettlingAtRest ==
  balances = [p \in People |-> 0] /\ debtors = <<>> /\ creditors = <<>> /\ suggestions = <<>>

PartsInit ==
  \/ part = "lists" /\ ListsInit /\ ArithmeticAtRest /\ SettlingAtRest
  \/ part = "draft" /\ ListsAtRest /\ ArithmeticInit /\ SettlingAtRest
  \/ part = "settling" /\ ListsAtRest /\ ArithmeticAtRest /\ SettlingInit

PartsNext ==
  \/ part = "lists" /\ ListsNext /\ UNCHANGED <<part, arithmeticVars, settlingVars>>
  \/ part = "draft" /\ ArithmeticNext /\ UNCHANGED <<part, listsVars, settlingVars>>
  \/ part = "settling" /\ SettlingNext /\ UNCHANGED <<part, listsVars, arithmeticVars>>

PartsSpec == PartsInit /\ [][PartsNext]_<<part, listsVars, arithmeticVars, settlingVars>>

=============================================================================
