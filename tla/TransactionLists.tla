--------------------------- MODULE TransactionLists ---------------------------
(***************************************************************************)
(* The lists transaction-service keeps, as clients page through them while *)
(* others write: the personal entries of a user, the transactions and the  *)
(* settlements of a group, and the categories entries are filed under.     *)
(*                                                                         *)
(* A client asks for a page at an offset and goes on after what it got,    *)
(* until a page is empty or it has as many rows as the last total said.    *)
(* Nothing holds the list still between two pages, nor between the page    *)
(* and the total of a group's transactions, which are two statements.      *)
(***************************************************************************)
EXTENDS Wire, FiniteSets, Sequences, SequencesExt

CONSTANTS
  Readers, Writers,
  Owners, Groups,        \* whose lists there are
  CategoryCodes,                \* the codes of categories
  Ids,                  \* the ids of rows, in the order of UUIDs
  Dates,
  InitialRows,          \* what may be there at the start
  Queries,              \* the filters of a query, as words
  LimitWords,
  DefaultLimit, MaxLimit,
  HalfInt32             \* half of the numbers an int32 has

NoCategory == "none"

Lists ==
  [kind : {"personal"}, of : Owners] \cup [kind : {"group", "settlement"}, of : Groups]

ListRow ==
  [list : Lists, live : BOOLEAN, date : Dates, type : {"income", "expense", Unspecified},
   category : CategoryCodes \cup {NoCategory}]

ASSUME ListsAssumption ==
  /\ Ids \subseteq Nat /\ Dates \subseteq Nat \ {ZeroTime}
  /\ NoCategory \notin CategoryCodes
  /\ {DefaultLimit, MaxLimit, HalfInt32} \subseteq Nat
  /\ DefaultLimit \in 1..MaxLimit /\ HalfInt32 > MaxLimit
  /\ LimitWords \subseteq [parses : BOOLEAN, value : Int]
  /\ \A table \in InitialRows :
       /\ table \in [DOMAIN table -> ListRow]
       /\ DOMAIN table \subseteq Ids /\ IsFiniteSet(DOMAIN table)

VARIABLES
  rows,         \* personal_transactions, group_transactions, settlements
  categories,   \* expense_categories by code: "active", "inactive" or "deleted"
  writer,       \* CreatePersonalTransaction under way
  reader        \* the clients that page through a list

listsVars == <<rows, categories, writer, reader>>

-----------------------------------------------------------------------------
(* The statements of the repository.                                       *)

Holds(condition, value) == condition = {} \/ value \in condition

\* appendFilters; the bounds are inclusive.
appendFilters(row, filter) ==
  /\ \A date \in filter.from : row.date >= date
  /\ \A date \in filter.to : row.date <= date
  /\ Holds(filter.type, row.type)
  /\ Holds(filter.category, row.category)

Selected(list, filter) ==
  {i \in DOMAIN rows : rows[i].list = list /\ rows[i].live /\ appendFilters(rows[i], filter)}

\* Slip: rows of one date are in no order.
Before_DateOnly(i, j) == rows[i].date > rows[j].date

\* ORDER BY transaction_date DESC, id DESC.
Before(i, j) == rows[i].date > rows[j].date \/ (rows[i].date = rows[j].date /\ i > j)

\* The orders the database may return a set of rows in.
Orders(S) ==
  {s \in [1..Cardinality(S) -> S] :
     IsInjective(s) /\ \A a, b \in DOMAIN s : a < b => ~Before(s[b], s[a])}

ListCategories(includeInactive) ==
  {c \in DOMAIN categories :
     categories[c] = "active" \/ (includeInactive /\ categories[c] = "inactive")}

-----------------------------------------------------------------------------
(* The clients that read.                                                  *)

\* normalizePage; offsets are never negative here.
normalizeLimit(limit) ==
  IF limit <= 0 THEN DefaultLimit ELSE IF limit > MaxLimit THEN MaxLimit ELSE limit

\* The query as the gateway reads it and as the service takes it.
filterFromRequest(query) ==
  LET type == typeFromProto(transactionTypeFromString(query.type))
  IN  [from     |-> timePtrFromProto(parseTimestamp(query.from)),
       to       |-> timePtrFromProto(parseTimestamp(query.to)),
       type     |-> {type} \ {""},
       category |-> {query.category} \ {""}]

NoFilter == [from |-> {}, to |-> {}, type |-> {}, category |-> {}]

AtRest == [phase |-> "rest"]
Active(r) == reader[r].phase # "rest"

\* A client starts on a list; got is what it has of it.  For the properties:
\* stayed are the rows that are there all along, lifted and pushed those that
\* another row above them has left or come before, quiet that nothing changed.
Start(r) ==
  /\ reader[r].phase = "rest"
  /\ \E list \in Lists, query \in Queries, limit \in LimitWords :
       LET filter == IF list.kind = "settlement" THEN NoFilter ELSE filterFromRequest(query)
       IN  reader' = [reader EXCEPT ![r] =
             [phase |-> "asking", list |-> list, filter |-> filter,
              limit |-> normalizeLimit(int32(parseInt(limit, DefaultLimit), HalfInt32)), got |-> <<>>, page |-> <<>>,
              total |-> 0,
              stayed |-> Selected(list, filter), lifted |-> {}, pushed |-> {}, quiet |-> TRUE]]
  /\ UNCHANGED <<rows, categories, writer>>

\* The client has its answer and goes on, or is through.
TakePage(c, page, total) ==
  LET got == c.got \o page
  IN  [c EXCEPT !.got = got, !.page = <<>>, !.total = total,
                !.phase = IF page = <<>> \/ Len(got) >= total THEN "done" ELSE "asking"]

\* ListPersonalTransactions, ListSettlements, and the first statement of
\* ListGroupTransactions.  COUNT(*) OVER() comes with the rows: without rows it
\* is 0.
SelectPage(r) ==
  /\ reader[r].phase = "asking"
  /\ LET c == reader[r]
         offset == Len(c.got)
         S == Selected(c.list, c.filter)
     IN  \E s \in Orders(S) :
           LET page == SubSeq(s, offset + 1, Min({offset + c.limit, Len(s)}))
           IN  reader' = [reader EXCEPT ![r] =
                 IF c.list.kind = "group" THEN [c EXCEPT !.phase = "counting", !.page = page]
                 ELSE TakePage(c, page, IF page = <<>> THEN 0 ELSE Cardinality(S))]
  /\ UNCHANGED <<rows, categories, writer>>

\* Slip: the total is that of the list without the conditions.
CountRows_Unfiltered(r) ==
  /\ reader[r].phase = "counting"
  /\ LET c == reader[r]
     IN  reader' = [reader EXCEPT ![r] =
                      TakePage(c, c.page, Cardinality(Selected(c.list, NoFilter)))]
  /\ UNCHANGED <<rows, categories, writer>>

\* The second statement of ListGroupTransactions.
CountRows(r) ==
  /\ reader[r].phase = "counting"
  /\ LET c == reader[r]
     IN  reader' = [reader EXCEPT ![r] =
                      TakePage(c, c.page, Cardinality(Selected(c.list, c.filter)))]
  /\ UNCHANGED <<rows, categories, writer>>

\* A call comes to nothing between the two, and the client asks again.
AskAgain(r) ==
  /\ reader[r].phase = "counting"
  /\ reader' = [reader EXCEPT ![r].phase = "asking", ![r].page = <<>>]
  /\ UNCHANGED <<rows, categories, writer>>

-----------------------------------------------------------------------------
(* The writers.                                                            *)

\* Row i comes into the list, or leaves it: what each reader's list makes of it.
Watch(i, field) ==
  reader' = [r \in Readers |->
    LET c == reader[r]
    IN  IF ~Active(r) THEN c
        ELSE IF rows'[i].list # c.list \/ ~appendFilters(rows'[i], c.filter) THEN c
        ELSE [c EXCEPT !.quiet = FALSE,
                       !.stayed = @ \ {i},
                       ![field] = @ \cup {j \in Selected(c.list, c.filter) \ {i} :
                                            \/ rows'[i].date > rows[j].date
                                            \/ rows'[i].date = rows[j].date /\ i > j}]]

Insert(list, type, category, date) ==
  \E i \in Ids \ DOMAIN rows :
    /\ rows' = [j \in DOMAIN rows \cup {i} |->
                  IF j \in DOMAIN rows THEN rows[j]
                  ELSE [list |-> list, live |-> TRUE, date |-> date, type |-> type,
                        category |-> category]]
    /\ Watch(i, "pushed")

\* A client picks a category from the list it was given, or none.
Choose(w) ==
  /\ writer[w].phase = "rest"
  /\ \E c \in ListCategories(FALSE) \cup {NoCategory}, u \in Owners :
       writer' = [writer EXCEPT ![w] = [phase |-> "chosen", user |-> u, category |-> c]]
  /\ UNCHANGED <<rows, categories, reader>>

IsActive(c) == c = NoCategory \/ (c \in DOMAIN categories /\ categories[c] = "active")

\* CreatePersonalTransaction is called, validates and asks for the profile.
\* For the properties: was, that the category has been active since.
CallCreate(w) ==
  /\ writer[w].phase = "chosen"
  /\ writer' = [writer EXCEPT ![w] = [phase |-> "snapshot", user |-> @.user,
                                     category |-> @.category, was |-> IsActive(@.category)]]
  /\ UNCHANGED <<rows, categories, reader>>

\* Slip: the category is found but not looked at.
categorySnapshot_Found(w) ==
  /\ writer[w].phase = "snapshot"
  /\ writer' = [writer EXCEPT ![w] =
                  IF @.category \in DOMAIN categories \cup {NoCategory}
                  THEN [@ EXCEPT !.phase = "insert"] ELSE AtRest]
  /\ UNCHANGED <<rows, categories, reader>>

\* categorySnapshot: one that is deleted is not found, an inactive one is refused.
categorySnapshot(w) ==
  /\ writer[w].phase = "snapshot"
  /\ writer' = [writer EXCEPT ![w] = IF IsActive(@.category) THEN [@ EXCEPT !.phase = "insert"]
                                                            ELSE AtRest]
  /\ UNCHANGED <<rows, categories, reader>>

\* The call fails, at auth-service or at the database, with nothing written.
CreateFails(w) ==
  /\ writer[w].phase \in {"snapshot", "insert"}
  /\ writer' = [writer EXCEPT ![w] = AtRest]
  /\ UNCHANGED <<rows, categories, reader>>

InsertPersonal(w) ==
  /\ writer[w].phase = "insert"
  /\ \E type \in {"income", "expense"}, date \in Dates :
       Insert([kind |-> "personal", of |-> writer[w].user], type, writer[w].category, date)
  /\ writer' = [writer EXCEPT ![w] = AtRest]
  /\ UNCHANGED categories

\* CreateGroupTransaction commits; module TransactionService has the call.
InsertGroup ==
  /\ \E g \in Groups, type \in {"income", "expense"}, date \in Dates,
        c \in DOMAIN categories \cup {NoCategory} :
       Insert([kind |-> "group", of |-> g], type, c, date)
  /\ UNCHANGED <<categories, writer>>

\* CreateSettlement; a settlement has no type and no category.
InsertSettlement ==
  /\ \E g \in Groups, date \in Dates :
       Insert([kind |-> "settlement", of |-> g], Unspecified, NoCategory, date)
  /\ UNCHANGED <<categories, writer>>

Delete(i) ==
  /\ rows[i].live
  /\ rows' = [rows EXCEPT ![i].live = FALSE]
  /\ Watch(i, "lifted")
  /\ UNCHANGED <<categories, writer>>

\* DeletePersonalTransaction, by the user whose entry it is.
DeletePersonal == \E i \in DOMAIN rows : rows[i].list.kind = "personal" /\ Delete(i)

\* DeleteGroupTransaction; there is no such thing for settlements.
DeleteGroup == \E i \in DOMAIN rows : rows[i].list.kind = "group" /\ Delete(i)

\* CreateCategory: the code of a deleted category stays taken.
CreateCategory ==
  /\ \E c \in CategoryCodes \ DOMAIN categories :
       categories' = [d \in DOMAIN categories \cup {c} |->
                        IF d = c THEN "active" ELSE categories[d]]
  /\ UNCHANGED <<rows, writer, reader>>

\* Nothing in the service changes a category; an operator does, in the database.
CategoryChanges ==
  \E c \in DOMAIN categories, status \in {"active", "inactive", "deleted"} :
    /\ categories[c] \notin {status, "deleted"}
    /\ categories' = [categories EXCEPT ![c] = status]
    /\ writer' = [w \in Writers |->
                    IF writer[w].phase \in {"snapshot", "insert"} /\ writer[w].category = c
                    THEN [writer[w] EXCEPT !.was = @ \/ status = "active"] ELSE writer[w]]
    /\ UNCHANGED <<rows, reader>>

-----------------------------------------------------------------------------

ListsInit ==
  /\ rows \in InitialRows
  /\ categories = [c \in {rows[i].category : i \in DOMAIN rows} \ {NoCategory} |-> "active"]
  /\ writer = [w \in Writers |-> AtRest]
  /\ reader = [r \in Readers |-> AtRest]

Read(r) == Start(r) \/ SelectPage(r) \/ CountRows(r) \/ AskAgain(r)

CreatePersonal(w) ==
  Choose(w) \/ CallCreate(w) \/ categorySnapshot(w) \/ CreateFails(w) \/ InsertPersonal(w)

ListsNext ==
  \/ \E r \in Readers : Read(r)
  \/ \E w \in Writers : CreatePersonal(w)
  \/ InsertGroup \/ InsertSettlement \/ DeletePersonal \/ DeleteGroup
  \/ CreateCategory \/ CategoryChanges

ListsSpec == ListsInit /\ [][ListsNext]_listsVars

-----------------------------------------------------------------------------
(* Properties.                                                             *)

\* A client that pages to the end gets every row that was there all along,
\* unless a row above it was deleted meanwhile and moved it over the boundary of
\* two pages; and it gets a row twice only if another one came in above it.
PagesMissAndRepeatOnlyByWrites ==
  /\ \A r \in Readers : reader[r].phase = "done" =>
       reader[r].stayed \ Range(reader[r].got) \subseteq reader[r].lifted
  /\ \A r \in Readers : Active(r) =>
       LET got == reader[r].got
       IN  \A a, b \in DOMAIN got : a < b /\ got[a] = got[b] => got[a] \in reader[r].pushed

\* When nobody writes to the list, the client that got to the end has all of it
\* that meets the conditions, once, the newest first, and the last total said so.
QuietPagingIsComplete ==
  \A r \in Readers : reader[r].phase = "done" /\ reader[r].quiet =>
    LET c == reader[r]
    IN  /\ c.got \in Orders(Selected(c.list, c.filter))
        /\ c.total = Len(c.got)

\* A new entry is not filed under a category that was inactive or deleted from
\* the start of the call on, whatever list the client picked it from.
CategoryWasActive == \A w \in Writers : writer[w].phase = "insert" => writer[w].was

=============================================================================
