------------------------- MODULE TransactionService -------------------------
(***************************************************************************)
(* The group ledger of transaction-service: the handlers that create, read *)
(* and delete group transactions, record settlements and report balances,  *)
(* each a goroutine of its own, over the PostgreSQL rows they share and    *)
(* the directory group-service keeps.                                      *)
(*                                                                         *)
(* A handler is a sequence of remote calls and statements with nothing     *)
(* held between them, so each one is an action: between the check of a     *)
(* membership and the insert it guards, between the query for the ids of a *)
(* ledger and the query for a row of it, any other handler may run, the    *)
(* group may change, and the handler may fail or be killed.                *)
(*                                                                         *)
(* One group and one currency: every query is confined to one of each.     *)
(*                                                                         *)
(* groups and ledger are histories.  Their last elements are the current   *)
(* state of group-service and of the tables, which is all the actions      *)
(* read; the earlier ones are kept for the properties.                     *)
(***************************************************************************)
EXTENDS LedgerCalculation, SequencesExt

CONSTANTS
  Members,          \* people, in the group or not
  Requests,         \* requests; the row a request inserts has its name
  Seeds,            \* names of the transactions in the tables at the start
  Seeded,           \* [Seeds -> the create calls that inserted them]
  Roster,           \* [Members -> Roles]: the group at the start
  Calls,            \* the calls clients may make
  MaxGroupChanges,  \* bound on the changes of the group
  Nil

Ids == Requests \cup Seeds

Roles == {"owner", "member", "none"}

Statuses == {"active", "inactive", "deleted"}

GroupState == [role : [Members -> Roles], status : Statuses]

LedgerState == [live : SUBSET Ids, settled : SUBSET Requests]

Payment == [user : Members, amount : Int]

SplitInput == [user : Members, type : {Fixed, Ratio}, value : Int]

\* What a client sends for a group transaction, decimals already in minor
\* units (positiveMoney, ParseRatio).
Draft == [type : {Income, Expense}, amount : Int,
          payments : Seq(Payment), splits : Seq(SplitInput)]

CreateCall == [op : {"create"}, by : Members, draft : Draft]
TargetCall == [op : {"get", "delete"}, by : Members, target : Ids]
SettleCall == [op : {"settle"}, by : Members, from : Members, to : Members, amount : Int]
BalancesCall == [op : {"balances"}, by : Members]

Call == CreateCall \cup TargetCall \cup SettleCall \cup BalancesCall

\* The people a call writes into the ledger.
Parties(c) ==
  IF c.op = "create"
  THEN {c.by} \cup Users(c.draft.payments) \cup Users(c.draft.splits)
  ELSE {c.from, c.to}

\* A group_transactions row with its payments and splits.
Row == [type : {Income, Expense}, amount : Int, by : Members,
        payments : Seq(Payment),
        splits : Seq([user : Members, type : {Fixed, Ratio}, text : DecimalText, share : Int])]

Settlement == [from : Members, to : Members, by : Members, amount : Int]

Shares(d) == AllocateShares(d.amount, d.splits)

ShareAmounts(row) == [i \in DOMAIN row.splits |-> row.splits[i].share]

-----------------------------------------------------------------------------
VARIABLES
  groups,       \* the group's states so far, the current one last
  rows,         \* the transactions ever inserted
  settlements,  \* the settlements ever inserted
  ledger,       \* which of them counted so far, the current state last
  call,         \* the call each request makes
  pc,           \* where its handler is
  since,        \* how long groups and ledger were when it began
  view,         \* what GetGroupLedger still has to read, has read
  answer        \* the gRPC status it ended with

vars == <<groups, rows, settlements, ledger, call, pc, since, view, answer>>

Group == groups[Len(groups)]

Live == ledger[Len(ledger)].live

Settled == ledger[Len(ledger)].settled

IsMember(u) == Group.role[u] # "none"

-----------------------------------------------------------------------------
(* The rows of a transaction, in and out of the tables.                    *)

SplitText(split) ==
  IF split.type = Fixed THEN FormatMoney(split.value) ELSE FormatRatio(split.value)

\* The splits as loadGroupChildren will find them: split_value is one column
\* for both types of split.
StoredSplits(d) ==
  [i \in DOMAIN d.splits |->
     [user  |-> d.splits[i].user,
      type  |-> d.splits[i].type,
      text  |-> ColumnText(SplitText(d.splits[i]), SplitValueColumn),
      share |-> Shares(d)[i]]]

StoredRow(c) ==
  [type |-> c.draft.type, amount |-> c.draft.amount, by |-> c.by,
   payments |-> c.draft.payments, splits |-> StoredSplits(c.draft)]

\* scanSplit parses split_value by the type of the split.
ScanSplit(split) ==
  IF split.type = Fixed THEN ParseMoney(split.text) ELSE ParseRatio(split.text)

Readable(row) ==
  \A i \in DOMAIN row.splits : ScanSplit(row.splits[i]) # ErrInvalidDecimal

\* Slip: the payments are not added up.
Accepted_AnyPayments(d) == Shares(d) # Failed

\* buildPayments and buildSplits accept the draft.
Accepted(d) == ValidatePayments(d.amount, d.payments) /\ Shares(d) # Failed

\* The CHECK (share_amount > 0) of the splits table.
PositiveShares(d) == \A i \in DOMAIN d.splits : Shares(d)[i] > 0

\* Amounts and split values have the digits of their columns.  A share does if
\* the amount does.
FitsColumns(d) ==
  /\ d.amount <= MaxNumeric
  /\ \A i \in DOMAIN d.payments : d.payments[i].amount <= MaxNumeric
  /\ \A i \in DOMAIN d.splits : FitsColumn(SplitText(d.splits[i]), SplitValueColumn)

Insertable(d) == PositiveShares(d) /\ FitsColumns(d)

ASSUME CallsAssumption ==
  /\ Calls \subseteq Call
  /\ Seeded \in [Seeds -> CreateCall]
  /\ Roster \in [Members -> Roles]
  /\ MaxGroupChanges \in Nat
  /\ \A i \in Seeds : Accepted(Seeded[i].draft) /\ Insertable(Seeded[i].draft)
  /\ Seeds \cap Requests = {}
  /\ Nil \notin Call \cup Row \cup Settlement

-----------------------------------------------------------------------------
Init ==
  /\ groups = <<[role |-> Roster, status |-> "active"]>>
  /\ rows = [i \in Ids |-> IF i \in Seeds THEN StoredRow(Seeded[i]) ELSE Nil]
  /\ settlements = [r \in Requests |-> Nil]
  /\ ledger = <<[live |-> Seeds, settled |-> {}]>>
  /\ call = [r \in Requests |-> Nil]
  /\ pc = [r \in Requests |-> "idle"]
  /\ since = [r \in Requests |-> [group |-> 1, ledger |-> 1]]
  /\ view = [r \in Requests |-> [pending |-> {}, read |-> {}, settled |-> {}]]
  /\ answer = [r \in Requests |-> "none"]

stores == <<groups, rows, settlements, ledger>>
locals == <<call, since, view>>

\* Handler r moves on without writing anything.
Goto(r, next) ==
  /\ pc' = [pc EXCEPT ![r] = next]
  /\ UNCHANGED answer

\* Handler r returns.
Return(r, code) ==
  /\ pc' = [pc EXCEPT ![r] = "done"]
  /\ answer' = [answer EXCEPT ![r] = code]

FirstStep(op) == IF op \in {"get", "delete"} THEN "load" ELSE "role"

\* A request reaches its handler.
Begin(r) ==
  /\ pc[r] = "idle"
  /\ \E c \in Calls :
       /\ call' = [call EXCEPT ![r] = c]
       /\ Goto(r, FirstStep(c.op))
  /\ since' = [since EXCEPT ![r] = [group |-> Len(groups), ledger |-> Len(ledger)]]
  /\ UNCHANGED <<stores, view>>

At(r, op, step) == pc[r] = step /\ call[r].op = op

\* The repository's GetGroupTransaction: the row unless it is deleted, then
\* its children.
Loads(i) == i \in Live /\ Readable(rows[i])

LoadFails(r, i) ==
  \/ i \notin Live /\ Return(r, "NotFound")
  \/ i \in Live /\ ~Readable(rows[i]) /\ Return(r, "Internal")

\* A single statement commits; its caller hears of it, or of a lost
\* connection.
Acknowledged(r) == \E code \in {"OK", "Unavailable"} : Return(r, code)

-----------------------------------------------------------------------------
(* CreateGroupTransaction.                                                 *)

\* GetMemberRole(creator).
CreateChecksCreator(r) ==
  /\ At(r, "create", "role")
  /\ \/ IsMember(call[r].by) /\ Goto(r, "group")
     \/ ~IsMember(call[r].by) /\ Return(r, "NotFound")
  /\ UNCHANGED <<stores, locals>>

\* GetGroup: a deleted group is not found, an inactive one refused.
CreateChecksGroup(r) ==
  /\ At(r, "create", "group")
  /\ \/ Group.status = "active" /\ Goto(r, "parties")
     \/ Group.status = "inactive" /\ Return(r, "InvalidArgument")
     \/ Group.status = "deleted" /\ Return(r, "NotFound")
  /\ UNCHANGED <<stores, locals>>

\* Slip: only the caller is looked up.
PartiesAccepted_CreatorOnly(c) == IsMember(c.by)

\* positiveMoney, then ListMemberIDs: everybody named must be in the list.
PartiesAccepted(c) ==
  (c.op = "create" => c.draft.amount > 0) /\ \A u \in Parties(c) : IsMember(u)

CreateChecksParties(r) ==
  /\ At(r, "create", "parties")
  /\ \/ PartiesAccepted(call[r]) /\ Goto(r, "insert")
     \/ ~PartiesAccepted(call[r]) /\ Return(r, "InvalidArgument")
  /\ UNCHANGED <<stores, locals>>

\* Slip: the rows are saved before they are checked.
CreateInserts_ChecksLast(r) ==
  /\ At(r, "create", "insert")
  /\ rows' = [rows EXCEPT ![r] = StoredRow(call[r])]
  /\ ledger' = Append(ledger, [live |-> Live \cup {r}, settled |-> Settled])
  /\ IF Accepted(call[r].draft) THEN Goto(r, "readback") ELSE Return(r, "InvalidArgument")
  /\ UNCHANGED <<groups, settlements, locals>>

\* GetUsers and the category read, the pure checks, then one serializable
\* transaction with all the rows, or none if a value breaks a CHECK or is too
\* long for its column.
CreateInserts(r) ==
  /\ At(r, "create", "insert")
  /\ LET d == call[r].draft
     IN  \/ /\ ~Accepted(d)
            /\ Return(r, "InvalidArgument")
            /\ UNCHANGED stores
         \/ /\ Accepted(d) /\ ~Insertable(d)
            /\ Return(r, "Internal")
            /\ UNCHANGED stores
         \/ /\ Accepted(d) /\ Insertable(d)
            /\ rows' = [rows EXCEPT ![r] = StoredRow(call[r])]
            /\ ledger' = Append(ledger, [live |-> Live \cup {r}, settled |-> Settled])
            /\ Goto(r, "readback")
            /\ UNCHANGED <<groups, settlements>>
  /\ UNCHANGED locals

\* The committed rows are read again for the answer.
CreateReadsBack(r) ==
  /\ At(r, "create", "readback")
  /\ LoadFails(r, r) \/ (Loads(r) /\ Return(r, "OK"))
  /\ UNCHANGED <<stores, locals>>

-----------------------------------------------------------------------------
(* GetGroupTransaction and DeleteGroupTransaction.                         *)

LoadTransaction(r) ==
  /\ pc[r] = "load"
  /\ \/ LoadFails(r, call[r].target)
     \/ Loads(call[r].target) /\ Goto(r, "caller")
  /\ UNCHANGED <<stores, locals>>

\* GetMemberRole(caller) ends a read; a delete goes on.
CheckCaller(r) ==
  /\ pc[r] = "caller"
  /\ \/ ~IsMember(call[r].by) /\ Return(r, "NotFound")
     \/ IsMember(call[r].by) /\ call[r].op = "get" /\ Return(r, "OK")
     \/ IsMember(call[r].by) /\ call[r].op = "delete" /\ Goto(r, "permission")
  /\ UNCHANGED <<stores, locals>>

\* Slip: any member may.
MayDelete_AnyMember(c) == IsMember(c.by)

\* GetMemberRole again: the creator or an owner may delete.
MayDelete(c) == rows[c.target].by = c.by \/ Group.role[c.by] = "owner"

DeleteChecksPermission(r) ==
  /\ At(r, "delete", "permission")
  /\ \/ ~IsMember(call[r].by) /\ Return(r, "NotFound")
     \/ IsMember(call[r].by) /\ ~MayDelete(call[r]) /\ Return(r, "PermissionDenied")
     \/ IsMember(call[r].by) /\ MayDelete(call[r]) /\ Goto(r, "update")
  /\ UNCHANGED <<stores, locals>>

\* UPDATE ... SET deleted_at WHERE id = $1 AND deleted_at IS NULL.
DeleteUpdates(r) ==
  /\ At(r, "delete", "update")
  /\ \/ /\ call[r].target \in Live
        /\ ledger' = Append(ledger, [live |-> Live \ {call[r].target}, settled |-> Settled])
        /\ Acknowledged(r)
     \/ /\ call[r].target \notin Live
        /\ Return(r, "NotFound")
        /\ UNCHANGED ledger
  /\ UNCHANGED <<groups, rows, settlements, locals>>

-----------------------------------------------------------------------------
(* CreateSettlement.                                                       *)

\* Members record their own payments, owners anybody's.
MaySettle(c) == c.by = c.from \/ Group.role[c.by] = "owner"

SettleChecksPayer(r) ==
  /\ At(r, "settle", "role")
  /\ LET c == call[r]
     IN  \/ c.from = c.to /\ Return(r, "InvalidArgument")
         \/ c.from # c.to /\ ~IsMember(c.by) /\ Return(r, "NotFound")
         \/ c.from # c.to /\ IsMember(c.by) /\ ~MaySettle(c) /\ Return(r, "PermissionDenied")
         \/ c.from # c.to /\ IsMember(c.by) /\ MaySettle(c) /\ Goto(r, "group")
  /\ UNCHANGED <<stores, locals>>

\* GetGroup; unlike a transaction, an inactive group will do.
SettleReadsGroup(r) ==
  /\ At(r, "settle", "group")
  /\ \/ Group.status = "deleted" /\ Return(r, "NotFound")
     \/ Group.status # "deleted" /\ Goto(r, "parties")
  /\ UNCHANGED <<stores, locals>>

\* ListMemberIDs.
SettleChecksParties(r) ==
  /\ At(r, "settle", "parties")
  /\ \/ PartiesAccepted(call[r]) /\ Goto(r, "insert")
     \/ ~PartiesAccepted(call[r]) /\ Return(r, "InvalidArgument")
  /\ UNCHANGED <<stores, locals>>

\* GetUsers, positiveMoney, and one INSERT ... RETURNING.
SettleInserts(r) ==
  /\ At(r, "settle", "insert")
  /\ LET c == call[r]
     IN  \/ /\ c.amount <= 0
            /\ Return(r, "InvalidArgument")
            /\ UNCHANGED stores
         \/ /\ c.amount > MaxNumeric
            /\ Return(r, "Internal")
            /\ UNCHANGED stores
         \/ /\ c.amount \in 1..MaxNumeric
            /\ settlements' = [settlements EXCEPT ![r] =
                 [from |-> c.from, to |-> c.to, by |-> c.by, amount |-> c.amount]]
            /\ ledger' = Append(ledger, [live |-> Live, settled |-> Settled \cup {r}])
            /\ Acknowledged(r)
            /\ UNCHANGED <<groups, rows>>
  /\ UNCHANGED locals

-----------------------------------------------------------------------------
(* GetGroupBalances.                                                       *)

BalancesChecksCaller(r) ==
  /\ At(r, "balances", "role")
  /\ \/ IsMember(call[r].by) /\ Goto(r, "ids")
     \/ ~IsMember(call[r].by) /\ Return(r, "NotFound")
  /\ UNCHANGED <<stores, locals>>

\* GetGroupLedger first asks for the ids of the group's transactions ...
LedgerListsIds(r) ==
  /\ At(r, "balances", "ids")
  /\ view' = [view EXCEPT ![r].pending = Live]
  /\ Goto(r, "rows")
  /\ UNCHANGED <<stores, call, since>>

\* Slip: the loop ends one row early.
LedgerLoadsRow_OneShort(r) ==
  /\ At(r, "balances", "rows")
  /\ \E i \in {j \in view[r].pending : Loads(j)} :
       view' = [view EXCEPT ![r].pending = IF Cardinality(@) = 2 THEN {} ELSE @ \ {i},
                            ![r].read = @ \cup {i}]
  /\ Goto(r, "rows")
  /\ UNCHANGED <<stores, call, since>>

\* Slip: the loop does not advance.
LedgerLoadsRow_Stuck(r) ==
  /\ At(r, "balances", "rows")
  /\ view[r].pending # {}
  /\ Goto(r, "rows")
  /\ UNCHANGED <<stores, call, since, view>>

\* ... then for each of them, in the order of dates their authors chose ...
LedgerLoadsRow(r) ==
  /\ At(r, "balances", "rows")
  /\ \E i \in view[r].pending :
       \/ /\ LoadFails(r, i)
          /\ UNCHANGED view
       \/ /\ Loads(i)
          /\ view' = [view EXCEPT ![r].pending = @ \ {i}, ![r].read = @ \cup {i}]
          /\ Goto(r, "rows")
  /\ UNCHANGED <<stores, call, since>>

\* The nets of the transactions in ids and the settlements in paid, merged.
RowNet(i) == TransactionNet(rows[i].type, rows[i].payments, rows[i].splits)

NetOf(ids, paid) ==
  LET order == SetToSeq(paid)
  IN  MapThenFoldSet(mergeBalances,
                     SettlementNet([k \in DOMAIN order |-> settlements[order[k]]]),
                     RowNet, LAMBDA S : CHOOSE i \in S : TRUE, ids)

\* ... and last for the settlements; the sums are checked before it answers.
LedgerReadsSettlements(r) ==
  /\ At(r, "balances", "rows")
  /\ view[r].pending = {}
  /\ view' = [view EXCEPT ![r].settled = Settled]
  /\ LET balanced == /\ \A i \in view[r].read : Balanced(RowNet(i))
                     /\ Balanced(NetOf(view[r].read, Settled))
     IN  Return(r, IF balanced THEN "OK" ELSE "Internal")
  /\ UNCHANGED <<stores, call, since>>

-----------------------------------------------------------------------------
(* What else happens.                                                      *)

\* A call of another service times out, a connection is lost, the request is
\* cancelled or the process dies: the handler goes no further, and what it
\* has committed stays.
Fail(r) ==
  /\ pc[r] \notin {"idle", "done"}
  /\ Return(r, "Unavailable")
  /\ UNCHANGED <<stores, locals>>

\* group-service commits a change: members join, leave or are removed at any
\* time, whatever the group's status; a deleted group stays deleted.
ChangeGroup ==
  /\ Len(groups) <= MaxGroupChanges
  /\ \/ \E u \in Members, role \in Roles :
          /\ (role = "none") # (Group.role[u] = "none")
          /\ groups' = Append(groups, [Group EXCEPT !.role[u] = role])
     \/ \E status \in Statuses \ {Group.status} :
          /\ Group.status # "deleted"
          /\ groups' = Append(groups, [Group EXCEPT !.status = status])
  /\ UNCHANGED <<rows, settlements, ledger, call, pc, since, view, answer>>

Create(r) ==
  \/ CreateChecksCreator(r)
  \/ CreateChecksGroup(r)
  \/ CreateChecksParties(r)
  \/ CreateInserts(r)
  \/ CreateReadsBack(r)

GetOrDelete(r) ==
  \/ LoadTransaction(r)
  \/ CheckCaller(r)
  \/ DeleteChecksPermission(r)
  \/ DeleteUpdates(r)

Settle(r) ==
  \/ SettleChecksPayer(r)
  \/ SettleReadsGroup(r)
  \/ SettleChecksParties(r)
  \/ SettleInserts(r)

Balances(r) ==
  \/ BalancesChecksCaller(r)
  \/ LedgerListsIds(r)
  \/ LedgerLoadsRow(r)
  \/ LedgerReadsSettlements(r)

\* A handler's own steps.
Step(r) == Create(r) \/ GetOrDelete(r) \/ Settle(r) \/ Balances(r)

Next ==
  \/ \E r \in Requests : Begin(r) \/ Step(r) \/ Fail(r)
  \/ ChangeGroup

\* A goroutine that has something to do runs; nothing makes a request arrive,
\* a group change or a handler fail.
Spec ==
  /\ Init
  /\ [][Next]_vars
  /\ \A r \in Requests : WF_vars(Step(r))

-----------------------------------------------------------------------------
(* Properties.                                                             *)

TypeOK ==
  /\ groups \in Seq(GroupState) \ {<<>>}
  /\ rows \in [Ids -> Row \cup {Nil}]
  /\ settlements \in [Requests -> Settlement \cup {Nil}]
  /\ ledger \in Seq(LedgerState) \ {<<>>}
  /\ call \in [Requests -> Calls \cup {Nil}]
  /\ pc \in [Requests -> {"idle", "role", "group", "parties", "insert", "readback", "load",
                         "caller", "permission", "update", "ids", "rows", "done"}]
  /\ since \in [Requests -> [group : Nat \ {0}, ledger : Nat \ {0}]]
  /\ \A r \in Requests : since[r].group <= Len(groups) /\ since[r].ledger <= Len(ledger)
  /\ view \in [Requests -> [pending : SUBSET Ids, read : SUBSET Ids,
                           settled : SUBSET Requests]]
  /\ answer \in [Requests -> {"none", "OK", "NotFound", "InvalidArgument",
                             "PermissionDenied", "Internal", "Unavailable"}]

\* At some moment of request r so far ...
GroupWas(r, Condition(_)) ==
  \E k \in since[r].group..Len(groups) : Condition(groups[k])

WasMember(r, u) == GroupWas(r, LAMBDA g : g.role[u] # "none")

WasOwner(r, u) == GroupWas(r, LAMBDA g : g.role[u] = "owner")

WasActive(r) == GroupWas(r, LAMBDA g : g.status = "active")

\* Nobody is entered into the ledger who was not a member at some moment of
\* the request that did it: the check of ListMemberIDs and the insert are
\* steps apart, but never so far apart that somebody gets in who was out of
\* the group throughout.
PartiesWereMembers ==
  \A r \in Requests :
    rows[r] # Nil \/ settlements[r] # Nil
      => \A u \in Parties(call[r]) : WasMember(r, u)

\* What a request did or was shown, its caller was entitled to at some moment
\* of the request: members read and create, creators and owners delete, the
\* payer or an owner records a settlement, and only an active group gets a
\* transaction.
OutcomesWereAuthorised ==
  \A r \in Requests :
    /\ answer[r] = "OK" => WasMember(r, call[r].by)
    /\ rows[r] # Nil => WasActive(r)
    /\ settlements[r] # Nil =>
         settlements[r].by = settlements[r].from \/ WasOwner(r, settlements[r].by)
    /\ answer[r] = "OK" /\ call[r].op = "delete" =>
         rows[call[r].target].by = call[r].by \/ WasOwner(r, call[r].by)

\* The transactions behind a balances answer are exactly those that were live
\* at one moment of the request, and its settlements exactly those recorded
\* at one moment, not an earlier one: GetGroupLedger reads row by row, and a
\* row deleted under it fails the request instead of going missing.
BalancesAreASnapshot ==
  \A r \in Requests :
    answer[r] = "OK" /\ call[r].op = "balances" =>
      \E k \in since[r].ledger..Len(ledger) :
        /\ view[r].read = ledger[k].live
        /\ \E m \in k..Len(ledger) : view[r].settled = ledger[m].settled

\* The position of u straight from the definitions of docs/TRANSACTION_SERVICE_VI.md:
\* paid - share for an expense, share - received for an income, a settlement
\* raises the sender's balance and lowers the receiver's.
Position(u, ids, paid) ==
  LET rowPosition(i) == (IF rows[i].type = Expense THEN 1 ELSE -1)
                          * (Paid(rows[i].payments, u) - Share(rows[i].splits, u))
      paidPosition(s) == CASE settlements[s].from = u -> settlements[s].amount
                           [] settlements[s].to = u -> -settlements[s].amount
                           [] OTHER -> 0
  IN  MapThenSumSet(rowPosition, ids) + MapThenSumSet(paidPosition, paid)

\* The money a balances answer counts, in minor units: everything paid in the
\* transactions and every settlement.
Volume(ids, paid) ==
  SumFunctionOnSet([i \in ids |-> Total(PaymentAmounts(rows[i].payments))], ids)
    + SumFunctionOnSet([s \in paid |-> settlements[s].amount], paid)

\* The balances of an answer are everybody's positions in what it read, and
\* they sum to zero, over the integers and not only modulo 2^64: as long as the
\* money it counts is an int64.  CalculateBalances and mergeBalances wrap, and
\* the sums they check are sums modulo 2^64 as well, so beyond that GetGroupBalances
\* answers with balances that mean nothing.
BalancesAddUp ==
  \A r \in Requests :
    /\ answer[r] = "OK" /\ call[r].op = "balances"
    /\ Volume(view[r].read, view[r].settled) <= MaxInt
    =>
      LET net == NetOf(view[r].read, view[r].settled)
      IN  /\ SumFunction(net) = 0
          /\ \A u \in Members :
               (IF u \in DOMAIN net THEN net[u] ELSE 0)
                 = Position(u, view[r].read, view[r].settled)

\* Of the requests to delete a transaction at most one is told it did.
DeletedOnce ==
  \A r, q \in Requests :
    /\ answer[r] = "OK" /\ call[r].op = "delete"
    /\ answer[q] = "OK" /\ call[q].op = "delete"
    /\ call[r].target = call[q].target
    => r = q

\* An acknowledged write is in the tables, at most one request is told that it
\* deleted a transaction, and a refused request wrote nothing.  Only an error that says nothing of the request leaves it open:
\* NotFound, Internal and Unavailable can follow the commit of a create.
AnswersTellTheTruth ==
  /\ DeletedOnce
  /\ \A r \in Requests :
       /\ answer[r] = "OK" /\ call[r].op = "create" => rows[r] # Nil
       /\ answer[r] = "OK" /\ call[r].op = "settle" => r \in Settled
       /\ answer[r] = "OK" /\ call[r].op = "delete" => call[r].target \notin Live
       /\ answer[r] \in {"InvalidArgument", "PermissionDenied"}
            => rows[r] = Nil /\ settlements[r] = Nil

\* Whatever is deleted or changed around it, a handler gets to an answer.
EveryCallEnds == \A r \in Requests : pc[r] # "idle" ~> pc[r] = "done"

\* docs/TRANSACTION_SERVICE_VI.md, of a transaction: nobody pays twice, and the
\* payments and the shares each sum to its amount.  Only payments whose true sum
\* is beyond an int64 are posted although they do not (ValidatePayments adds
\* them up in an int64); the shares sum to the amount even then.
BalancedRow(row) ==
  /\ row.amount > 0
  /\ DistinctUsers(row.payments)
  /\ \/ Total(PaymentAmounts(row.payments)) = row.amount
     \/ Total(PaymentAmounts(row.payments)) > MaxInt
  /\ Total(ShareAmounts(row)) = row.amount

\* The tables as the ledger of module Ledger: handlers, failures and races
\* included, a transaction appears whole and balanced or not at all, is never
\* altered, and is withdrawn at most once; a settlement stays.
Abstract == INSTANCE Ledger WITH
  entries <- rows, live <- Live, payouts <- settlements, settled <- Settled,
  BalancedEntry <- BalancedRow

LedgerSpec == Abstract!Spec

\* What the documents promise of a fixed split, "`fixed`: tong split_value
\* phai bang tong giao dich": a transaction that was accepted can be read
\* back with the values it was given.
AcceptedIsReadable ==
  \A i \in Ids : rows[i] # Nil => Readable(rows[i])

=============================================================================
