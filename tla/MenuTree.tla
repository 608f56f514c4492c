------------------------------ MODULE MenuTree ------------------------------
(***************************************************************************)
(* The menus of auth-service under concurrent creates, updates and         *)
(* deletes: MenuService statement by statement, over the menus table.      *)
(*                                                                         *)
(* A menu that a request creates has the name of the request.  Names are   *)
(* what codes and routes are taken from.  Texts, icons, sort order and     *)
(* is_active, which no check looks at, are left out.                       *)
(***************************************************************************)
EXTENDS FiniteSets

CONSTANTS
  Requests,
  Seeds,       \* menus that are there at the start, each with a code and a
  SeedParent,  \* route of its own name, and their parents
  Names,
  Calls,       \* the calls clients may make
  Keep,        \* a field an update leaves alone
  Nil

Ids == Seeds \cup Requests

Call ==
  [op : {"create"}, code : Names, route : Names \cup {Nil}, parent : Ids \cup {Nil}]
    \cup [op : {"update"}, id : Ids, code : Names \cup {Keep},
          route : Names \cup {Nil, Keep}, parent : Ids \cup {Nil, Keep}]
    \cup [op : {"delete"}, id : Ids]

\* A row, and who wrote and who deleted it last.
Menu ==
  [code : Names, route : Names \cup {Nil}, parent : Ids \cup {Nil}, deleted : BOOLEAN,
   by : Requests \cup {Nil}, deletedBy : Requests \cup {Nil}]

\* The last conjunct: the seeds are a forest.
ASSUME MenusAssumption ==
  /\ Calls \subseteq Call
  /\ Seeds \cap Requests = {} /\ Seeds \subseteq Names
  /\ Nil \notin Ids \cup Names \cup Menu /\ Keep \notin Ids \cup Names \cup {Nil}
  /\ SeedParent \in [Seeds -> Seeds \cup {Nil}]
  /\ \A S \in SUBSET Seeds : S # {} => \E m \in S : SeedParent[m] \notin S

VARIABLES
  menus,     \* the table
  call, pc,  \* what each request is and where its handler stands
  draft,     \* the menu it is about to write
  at,        \* the menu it looks up next on the way to the root
  visited,   \* those it has met there
  done,      \* the requests that were over when it began
  answer     \* its result

vars == <<menus, call, pc, draft, at, visited, done, answer>>

Init ==
  /\ menus = [m \in Ids |->
       IF m \in Seeds
       THEN [code |-> m, route |-> m, parent |-> SeedParent[m], deleted |-> FALSE,
             by |-> Nil, deletedBy |-> Nil]
       ELSE Nil]
  /\ call = [r \in Requests |-> Nil]
  /\ pc = [r \in Requests |-> "idle"]
  /\ draft = [r \in Requests |-> Nil]
  /\ at = [r \in Requests |-> Nil]
  /\ visited = [r \in Requests |-> {}]
  /\ done = [r \in Requests |-> {}]
  /\ answer = [r \in Requests |-> "none"]

Exists(m) == menus[m] # Nil

\* FindByID and the other queries see no deleted rows.
Live == {m \in Ids : Exists(m) /\ ~menus[m].deleted}

\* The menu a request writes.
Target(r) == IF call[r].op = "create" THEN r ELSE call[r].id

local == <<draft, at, visited>>

Goto(r, next) == pc' = [pc EXCEPT ![r] = next] /\ UNCHANGED answer

Return(r, result) ==
  /\ pc' = [pc EXCEPT ![r] = "done"]
  /\ answer' = [answer EXCEPT ![r] = result]
  /\ draft' = [draft EXCEPT ![r] = Nil]
  /\ at' = [at EXCEPT ![r] = Nil]
  /\ visited' = [visited EXCEPT ![r] = {}]

\* What validateMenu does after the walk up from the parent, if there is one.
AfterWalk(r, menu) == IF menu.route = Nil /\ call[r].op = "update" THEN "children" ELSE "code"

\* validateMenu with a menu in hand.
Validate(r, menu) ==
  /\ draft' = [draft EXCEPT ![r] = menu]
  /\ at' = [at EXCEPT ![r] = menu.parent]
  /\ visited' = [visited EXCEPT ![r] = {Target(r)}]
  /\ Goto(r, IF menu.parent = Nil THEN AfterWalk(r, menu) ELSE "walk")

\* A request arrives; the ids in it are those of menus there have been.
Begin(r) ==
  /\ pc[r] = "idle"
  /\ \E c \in Calls :
       /\ c.op = "create" => (c.parent \in Ids => Exists(c.parent))
       /\ c.op = "update" => Exists(c.id) /\ (c.parent \in Ids => Exists(c.parent))
       /\ c.op = "delete" => Exists(c.id)
       /\ call' = [call EXCEPT ![r] = c]
       /\ Goto(r, IF c.op = "create" THEN "build" ELSE "find")
  /\ done' = [done EXCEPT ![r] = {q \in Requests : pc[q] = "done"}]
  /\ UNCHANGED <<menus, local>>

-----------------------------------------------------------------------------
(* Create and Update.                                                      *)

\* buildCreateMenu.
CreateBuilds(r) ==
  /\ pc[r] = "build"
  /\ Validate(r, [code |-> call[r].code, route |-> call[r].route, parent |-> call[r].parent])
  /\ UNCHANGED <<menus, call, done>>

Changed(old, new) == IF new = Keep THEN old ELSE new

\* FindByID, and the fields that the request has.
UpdateFinds(r) ==
  /\ pc[r] = "find" /\ call[r].op = "update"
  /\ LET m    == call[r].id
         menu == [code   |-> Changed(menus[m].code, call[r].code),
                  route  |-> Changed(menus[m].route, call[r].route),
                  parent |-> Changed(menus[m].parent, call[r].parent)]
     IN  \/ m \notin Live /\ Return(r, "NotFound")
         \/ m \in Live /\ menu.parent = m /\ Return(r, "Cycle")
         \/ m \in Live /\ menu.parent # m /\ Validate(r, menu)
  /\ UNCHANGED <<menus, call, done>>

\* Slip: nothing above the parent is looked at.
Walk_OnlyParent(r) ==
  /\ pc[r] = "walk"
  /\ \/ at[r] \notin Live /\ Return(r, "InvalidParent")
     \/ at[r] \in Live /\ Goto(r, AfterWalk(r, draft[r])) /\ UNCHANGED local
  /\ UNCHANGED <<menus, call, done>>

\* validateParentChain, a FindByID at a time.
Walk(r) ==
  /\ pc[r] = "walk"
  /\ \/ at[r] \notin Live /\ Return(r, "InvalidParent")
     \/ at[r] \in Live /\ at[r] \in visited[r] /\ Return(r, "Cycle")
     \/ /\ at[r] \in Live \ visited[r]
        /\ visited' = [visited EXCEPT ![r] = @ \cup {at[r]}]
        /\ at' = [at EXCEPT ![r] = menus[at[r]].parent]
        /\ Goto(r, IF menus[at[r]].parent = Nil THEN AfterWalk(r, draft[r]) ELSE "walk")
        /\ UNCHANGED draft
  /\ UNCHANGED <<menus, call, done>>

HasChildren(m) == \E c \in Live : menus[c].parent = m

\* A menu may be without a route as long as it has children.
UpdateChecksChildren(r) ==
  /\ pc[r] = "children" /\ call[r].op = "update"
  /\ \/ ~HasChildren(Target(r)) /\ Return(r, "RouteRequired")
     \/ HasChildren(Target(r)) /\ Goto(r, "code") /\ UNCHANGED local
  /\ UNCHANGED <<menus, call, done>>

\* FindByCode and FindByRoute find another menu.
CodeTaken(r) == \E m \in Live \ {Target(r)} : menus[m].code = draft[r].code
RouteTaken(r) ==
  draft[r].route # Nil /\ \E m \in Live \ {Target(r)} : menus[m].route = draft[r].route

\* ensureUnique, and mapMenuConflict after the database refused.
ChecksCode(r) ==
  /\ pc[r] \in {"code", "conflict code"}
  /\ \/ CodeTaken(r) /\ Return(r, "Exists")
     \/ /\ ~CodeTaken(r)
        /\ Goto(r, IF pc[r] = "code" THEN "route" ELSE "conflict route")
        /\ UNCHANGED local
  /\ UNCHANGED <<menus, call, done>>

ChecksRoute(r) ==
  /\ pc[r] \in {"route", "conflict route"}
  /\ \/ RouteTaken(r) /\ Return(r, "Exists")
     \/ ~RouteTaken(r) /\ pc[r] = "route" /\ Goto(r, "write") /\ UNCHANGED local
     \/ ~RouteTaken(r) /\ pc[r] = "conflict route" /\ Return(r, "Conflict")
  /\ UNCHANGED <<menus, call, done>>

\* The constraints on code and route know deleted menus, too.
Duplicate(r) ==
  \E m \in Ids \ {Target(r)} :
    /\ Exists(m)
    /\ \/ menus[m].code = draft[r].code
       \/ draft[r].route # Nil /\ menus[m].route = draft[r].route

\* INSERT, UPDATE: every column is written.
Writes(r) ==
  /\ pc[r] = "write"
  /\ \/ /\ call[r].op = "update" /\ Target(r) \notin Live
        /\ Return(r, "NotFound") /\ UNCHANGED menus
     \/ /\ call[r].op = "update" => Target(r) \in Live
        /\ Duplicate(r)
        /\ Goto(r, "conflict code") /\ UNCHANGED <<menus, local>>
     \/ /\ call[r].op = "update" => Target(r) \in Live
        /\ ~Duplicate(r)
        /\ menus' = [menus EXCEPT ![Target(r)] =
             [code |-> draft[r].code, route |-> draft[r].route, parent |-> draft[r].parent,
              deleted |-> FALSE, by |-> r, deletedBy |-> Nil]]
        /\ Return(r, "OK") \/ Return(r, "Internal")
  /\ UNCHANGED <<call, done>>

-----------------------------------------------------------------------------
(* Delete.                                                                 *)

DeleteFinds(r) ==
  /\ pc[r] = "find" /\ call[r].op = "delete"
  /\ \/ Target(r) \notin Live /\ Return(r, "NotFound")
     \/ Target(r) \in Live /\ Goto(r, "children") /\ UNCHANGED local
  /\ UNCHANGED <<menus, call, done>>

\* Slip: a menu with children is deleted.
DeleteChecksChildren_Not(r) ==
  /\ pc[r] = "children" /\ call[r].op = "delete"
  /\ Goto(r, "delete")
  /\ UNCHANGED <<menus, call, done, local>>

DeleteChecksChildren(r) ==
  /\ pc[r] = "children" /\ call[r].op = "delete"
  /\ \/ HasChildren(Target(r)) /\ Return(r, "HasChildren")
     \/ ~HasChildren(Target(r)) /\ Goto(r, "delete") /\ UNCHANGED local
  /\ UNCHANGED <<menus, call, done>>

SoftDeletes(r) ==
  /\ pc[r] = "delete"
  /\ \/ Target(r) \notin Live /\ Return(r, "NotFound") /\ UNCHANGED menus
     \/ /\ Target(r) \in Live
        /\ menus' = [menus EXCEPT ![Target(r)].deleted = TRUE, ![Target(r)].deletedBy = r]
        /\ Return(r, "OK") \/ Return(r, "Internal")
  /\ UNCHANGED <<call, done>>

-----------------------------------------------------------------------------
\* The database does nothing or is not heard of again, the request is
\* cancelled or the process dies.
Fail(r) ==
  /\ pc[r] \notin {"idle", "done"}
  /\ Return(r, "Internal")
  /\ UNCHANGED <<menus, call, done>>

Next ==
  \E r \in Requests :
    \/ Begin(r)
    \/ CreateBuilds(r) \/ UpdateFinds(r) \/ Walk(r) \/ UpdateChecksChildren(r)
    \/ ChecksCode(r) \/ ChecksRoute(r) \/ Writes(r)
    \/ DeleteFinds(r) \/ DeleteChecksChildren(r) \/ SoftDeletes(r)
    \/ Fail(r)

Spec == Init /\ [][Next]_vars

-----------------------------------------------------------------------------
(* Properties.                                                             *)

\* No two menus share a code or a route, whoever checked what before.
TypeOK ==
  /\ menus \in [Ids -> Menu \cup {Nil}]
  /\ \A m, n \in Live :
       m # n => /\ menus[m].code # menus[n].code
                /\ menus[m].route # Nil => menus[m].route # menus[n].route
  /\ call \in [Requests -> Calls \cup {Nil}]
  /\ pc \in [Requests -> {"idle", "build", "find", "walk", "children", "code", "route", "write",
                         "conflict code", "conflict route", "delete", "done"}]
  /\ draft \in [Requests ->
       [code : Names, route : Names \cup {Nil}, parent : Ids \cup {Nil}] \cup {Nil}]
  /\ at \in [Requests -> Ids \cup {Nil}]
  /\ visited \in [Requests -> SUBSET Ids]
  /\ done \in [Requests -> SUBSET Requests]
  /\ answer \in [Requests -> {"none", "OK", "Internal", "NotFound", "Cycle", "InvalidParent",
                             "RouteRequired", "Exists", "Conflict", "HasChildren"}]

\* r and q were under way at the same time.
Overlap(r, q) ==
  /\ {r, q} \subseteq Requests /\ r # q
  /\ r \notin done[q] /\ q \notin done[r]

\* ErrMenuCycle: menus get into a cycle, which Tree never shows, only by two
\* updates that overlap.  (A set that has the parents of all its members has a
\* cycle, and a cycle is such a set.)
CyclesNeedARace ==
  \A S \in SUBSET Live :
    S # {} /\ (\A m \in S : menus[m].parent \in S) =>
      \E m, n \in S : Overlap(menus[m].by, menus[n].by)

\* ErrMenuHasChildren: a menu loses its parent, and its place in Tree, only
\* when the delete overlaps with what last wrote the menu.
OrphansNeedARace ==
  \A m \in Live :
    LET p == menus[m].parent
    IN  p # Nil => p \in Live \/ Overlap(menus[m].by, menus[p].deletedBy)

=============================================================================
