--------------------------- MODULE MenuTreeProofs ---------------------------
(***************************************************************************)
(* Proofs about MenuTree, for any requests, names, calls and any forest to *)
(* start from: its types, with codes and routes that are never shared, and *)
(* that menus lose a parent or get into a cycle only by requests that      *)
(* overlap.                                                                *)
(***************************************************************************)
EXTENDS MenuTree, TLAPS

Draft == [code : Names, route : Names \cup {Nil}, parent : Ids \cup {Nil}]

\* The places of a handler that has looked at the way to the root.
Checked(r) ==
  \/ pc[r] \in {"code", "route", "write", "conflict code", "conflict route"}
  \/ pc[r] = "children" /\ call[r].op = "update"

MatchOf(r) ==
  /\ pc[r] # "idle" => call[r] \in Call
  /\ pc[r] = "build" => call[r].op = "create"
  /\ pc[r] = "find" => call[r].op \in {"update", "delete"}
  /\ pc[r] = "children" => call[r].op \in {"update", "delete"}
  /\ pc[r] = "delete" => call[r].op = "delete"
  /\ pc[r] = "walk" \/ Checked(r) => call[r].op \in {"create", "update"} /\ draft[r] \in Draft
  /\ \A q \in done[r] : pc[q] = "done"

\* Who wrote or deleted a row is through.
RowOf(m) ==
  Exists(m) => /\ menus[m].by \in Requests => pc[menus[m].by] = "done"
               /\ menus[m].deletedBy \in Requests => pc[menus[m].deletedBy] = "done"

Typed == TypeOK /\ (\A r \in Requests : MatchOf(r)) /\ (\A m \in Ids : RowOf(m))

\* Row m is as it was when r began.
Old(r, m) == m \in Live /\ menus[m].by \in done[r] \cup {Nil}

\* The menus r has met on the way.
Way(r) == visited[r] \ {Target(r)}

\* Menu p has not gone, or was deleted beside r.
Fine(r, p) == Exists(p) /\ (p \in Live \/ Overlap(r, menus[p].deletedBy))

\* r has followed parents from that of its draft on, and where rows are old it
\* knows where they lead.
WalkOf(r) ==
  /\ pc[r] = "walk" =>
       /\ at[r] \in Ids /\ Target(r) \in visited[r]
       /\ at[r] = draft[r].parent \/ (draft[r].parent \in Way(r) /\ Fine(r, draft[r].parent))
       /\ \A m \in Way(r) : Old(r, m) => menus[m].parent \in Way(r) \cup {at[r]}
  /\ Checked(r) /\ draft[r].parent # Nil =>
       /\ draft[r].parent \in Way(r) /\ Fine(r, draft[r].parent)
       /\ \A m \in Way(r) : Old(r, m) => menus[m].parent \in Way(r) \cup {Nil}

Walks == \A r \in Requests : WalkOf(r)

\* A menu that is about to be deleted gets children only beside that.
Deletions ==
  \A q \in Requests : pc[q] = "delete" =>
    \A m \in Live : menus[m].parent = Target(q) => Overlap(menus[m].by, q)

Orphans ==
  \A m \in Live : menus[m].parent # Nil => Fine(menus[m].by, menus[m].parent)

-----------------------------------------------------------------------------
(* Steps are of one request, and change one row if any.                    *)

Acts(r) ==
  \/ Begin(r)
  \/ CreateBuilds(r) \/ UpdateFinds(r) \/ Walk(r) \/ UpdateChecksChildren(r)
  \/ ChecksCode(r) \/ ChecksRoute(r) \/ Writes(r)
  \/ DeleteFinds(r) \/ DeleteChecksChildren(r) \/ SoftDeletes(r)
  \/ Fail(r)

Rewritten(r, t) ==
  /\ pc[r] = "write" /\ pc'[r] = "done" /\ ~Duplicate(r)
  /\ t \in Ids /\ t = Target(r)
  /\ menus'[t] \in Menu
  /\ menus'[t].code = draft[r].code /\ menus'[t].route = draft[r].route
  /\ menus'[t].parent = draft[r].parent
  /\ ~menus'[t].deleted /\ menus'[t].by = r /\ menus'[t].deletedBy = Nil
  /\ \A m \in Ids \ {t} : menus'[m] = menus[m]

Removed(r, t) ==
  /\ pc[r] = "delete" /\ pc'[r] = "done"
  /\ t \in Live /\ t = Target(r)
  /\ menus'[t] \in Menu
  /\ menus'[t].code = menus[t].code /\ menus'[t].route = menus[t].route
  /\ menus'[t].parent = menus[t].parent /\ menus'[t].by = menus[t].by
  /\ menus'[t].deleted /\ menus'[t].deletedBy = r
  /\ \A m \in Ids \ {t} : menus'[m] = menus[m]

LEMMA CallFields ==
  ASSUME NEW c \in Call
  PROVE  /\ c.op \in {"create", "update", "delete"}
         /\ c.op = "create" =>
              c.code \in Names /\ c.route \in Names \cup {Nil} /\ c.parent \in Ids \cup {Nil}
         /\ c.op = "update" =>
              /\ c.id \in Ids /\ c.code \in Names \cup {Keep}
              /\ c.route \in Names \cup {Nil, Keep} /\ c.parent \in Ids \cup {Nil, Keep}
         /\ c.op = "delete" => c.id \in Ids
  BY DEF Call

LEMMA TargetOf ==
  ASSUME Typed, NEW r \in Requests, pc[r] # "idle"
  PROVE  Target(r) \in Ids
  BY CallFields DEF Typed, MatchOf, Target, Ids

LEMMA LiveRows ==
  ASSUME TypeOK, NEW m \in Live
  PROVE  /\ m \in Ids /\ menus[m] \in Menu /\ menus[m].code \in Names
         /\ menus[m].route \in Names \cup {Nil} /\ menus[m].parent \in Ids \cup {Nil}
         /\ menus[m].by \in Requests \cup {Nil} /\ menus[m].deletedBy \in Requests \cup {Nil}
  BY DEF TypeOK, Live, Exists, Menu

\* The other requests stand where they stood, and only Begin changes what was
\* over before whom.
LEMMA ActsAlone ==
  ASSUME Typed, NEW r \in Requests, Acts(r)
  PROVE  /\ \A q \in Requests \ {r} :
              /\ pc'[q] = pc[q] /\ call'[q] = call[q] /\ draft'[q] = draft[q] /\ at'[q] = at[q]
              /\ visited'[q] = visited[q] /\ done'[q] = done[q] /\ answer'[q] = answer[q]
         /\ pc[r] # "done" /\ pc'[r] # "idle"
         /\ Begin(r) => pc[r] = "idle" /\ menus' = menus /\ UNCHANGED <<draft, at, visited>>
         /\ ~Begin(r) => done' = done /\ call' = call /\ pc[r] # "idle"
<1> USE DEF Typed, TypeOK, Goto, Return, local
<1>1. CASE Begin(r)
  BY <1>1 DEF Begin
<1>2. CASE CreateBuilds(r)
  BY <1>2 DEF CreateBuilds, Validate, AfterWalk, Begin
<1>3. CASE UpdateFinds(r)
  <2> DEFINE m == call[r].id
             menu == [code   |-> Changed(menus[m].code, call[r].code),
                      route  |-> Changed(menus[m].route, call[r].route),
                      parent |-> Changed(menus[m].parent, call[r].parent)]
  <2>1. /\ pc[r] = "find" /\ UNCHANGED <<menus, call, done>>
        /\ Return(r, "NotFound") \/ Return(r, "Cycle") \/ Validate(r, menu)
    BY <1>3 DEF UpdateFinds
  <2> HIDE DEF menu
  <2> QED
    BY ZenonT(60), <2>1 DEF Validate, AfterWalk, Begin
<1>4. CASE Walk(r)
  BY ZenonT(60), <1>4 DEF Walk, AfterWalk, Begin
<1>5. CASE UpdateChecksChildren(r) \/ DeleteChecksChildren(r) \/ DeleteFinds(r)
  BY ZenonT(60), <1>5 DEF UpdateChecksChildren, DeleteChecksChildren, DeleteFinds, Begin
<1>6. CASE ChecksCode(r) \/ ChecksRoute(r)
  BY ZenonT(60), <1>6 DEF ChecksCode, ChecksRoute, Begin
<1>7. CASE Writes(r)
  <2>1. /\ pc[r] = "write" /\ UNCHANGED <<call, done>>
        /\ \/ \E result \in {"NotFound", "OK", "Internal"} : Return(r, result)
           \/ Goto(r, "conflict code") /\ UNCHANGED local
    BY <1>7 DEF Writes
  <2> QED
    BY <2>1 DEF Begin
<1>8. CASE SoftDeletes(r)
  <2>1. /\ pc[r] = "delete" /\ UNCHANGED <<call, done>>
        /\ \E result \in {"NotFound", "OK", "Internal"} : Return(r, result)
    BY <1>8 DEF SoftDeletes
  <2> QED
    BY <2>1 DEF Begin
<1>9. CASE Fail(r)
  BY <1>9 DEF Fail, Begin
<1> QED
  BY <1>1, <1>2, <1>3, <1>4, <1>5, <1>6, <1>7, <1>8, <1>9 DEF Acts

LEMMA OneRowChanges ==
  ASSUME Typed, NEW r \in Requests, Acts(r)
  PROVE  \/ menus' = menus
         \/ \E t \in Ids : Rewritten(r, t) \/ Removed(r, t)
<1>1. CASE Writes(r) /\ menus' # menus
  <2> DEFINE t == Target(r)
             new == [code |-> draft[r].code, route |-> draft[r].route, parent |-> draft[r].parent,
                     deleted |-> FALSE, by |-> r, deletedBy |-> Nil]
  <2>1. /\ pc[r] = "write" /\ ~Duplicate(r) /\ menus' = [menus EXCEPT ![t] = new]
        /\ Return(r, "OK") \/ Return(r, "Internal")
    BY <1>1 DEF Writes
  <2>2. t \in Ids /\ draft[r] \in Draft /\ pc'[r] = "done"
    BY <2>1, TargetOf DEF Typed, TypeOK, MatchOf, Checked, Return
  <2>3. /\ new \in Menu /\ new.code = draft[r].code /\ new.route = draft[r].route
        /\ new.parent = draft[r].parent /\ ~new.deleted /\ new.by = r /\ new.deletedBy = Nil
    BY <2>2 DEF Menu, Draft
  <2> HIDE DEF new
  <2>4. menus'[t] = new /\ \A m \in Ids \ {t} : menus'[m] = menus[m]
    BY <2>1, <2>2 DEF Typed, TypeOK
  <2>5. Rewritten(r, t)
    BY <2>1, <2>2, <2>3, <2>4 DEF Rewritten
  <2> QED
    BY <2>2, <2>5
<1>2. CASE SoftDeletes(r) /\ menus' # menus
  <2> DEFINE t == Target(r)
             new == [menus[t] EXCEPT !.deleted = TRUE, !.deletedBy = r]
  <2>1. /\ pc[r] = "delete" /\ t \in Live
        /\ menus' = [menus EXCEPT ![t].deleted = TRUE, ![t].deletedBy = r]
        /\ Return(r, "OK") \/ Return(r, "Internal")
    BY <1>2 DEF SoftDeletes
  <2>2. t \in Ids /\ menus[t] \in Menu /\ pc'[r] = "done"
    BY <2>1, LiveRows DEF Typed, TypeOK, Return
  <2>3. /\ new \in Menu /\ new.code = menus[t].code /\ new.route = menus[t].route
        /\ new.parent = menus[t].parent /\ new.by = menus[t].by /\ new.deleted /\ new.deletedBy = r
    BY <2>2 DEF Menu
  <2>4. menus'[t] = new /\ \A m \in Ids \ {t} : menus'[m] = menus[m]
    BY <2>1, <2>2 DEF Typed, TypeOK
  <2> HIDE DEF new
  <2>5. Removed(r, t)
    BY <2>1, <2>2, <2>3, <2>4 DEF Removed
  <2> QED
    BY <2>2, <2>5
<1>3. CASE ~Writes(r) /\ ~SoftDeletes(r)
  BY <1>3 DEF Acts, Begin, CreateBuilds, UpdateFinds, Walk, UpdateChecksChildren, ChecksCode,
    ChecksRoute, DeleteFinds, DeleteChecksChildren, Fail
<1> QED
  BY <1>1, <1>2, <1>3

LEMMA DoneStays ==
  ASSUME Typed, NEW r \in Requests, Acts(r), NEW q \in Requests, pc[q] = "done"
  PROVE  q # r /\ pc'[q] = "done"
<1>1. q # r
  BY ActsAlone
<1> QED
  BY <1>1, ActsAlone

\* What lives after a step.
LEMMA LiveAfter ==
  ASSUME Typed, NEW r \in Requests, NEW t \in Ids
  PROVE  /\ Rewritten(r, t) => Live' = Live \cup {t} /\ \A m \in Ids : Exists(m) => Exists(m)'
         /\ Removed(r, t) => Live' = Live \ {t} /\ \A m \in Ids : Exists(m) => Exists(m)'
<1>1. Nil \notin Menu
  BY MenusAssumption
<1> QED
  BY <1>1 DEF Rewritten, Removed, Live, Exists

-----------------------------------------------------------------------------
(* Types, and the uniqueness of codes and routes.                          *)

Unique ==
  \A m, n \in Live :
    m # n => /\ menus[m].code # menus[n].code
             /\ menus[m].route # Nil => menus[m].route # menus[n].route

LEMMA InitTyped == Init => Typed
<1> SUFFICES ASSUME Init PROVE Typed
  OBVIOUS
<1>1. \A m \in Seeds : SeedParent[m] \in Ids \cup {Nil} /\ m \in Names /\ m \in Ids
  BY MenusAssumption DEF Ids
<1>2. \A m \in Seeds :
        [code |-> m, route |-> m, parent |-> SeedParent[m], deleted |-> FALSE,
         by |-> Nil, deletedBy |-> Nil] \in Menu
  BY <1>1 DEF Menu
<1>3. menus \in [Ids -> Menu \cup {Nil}]
  BY <1>2 DEF Init
<1>4. \A m \in Live : m \in Seeds /\ menus[m].code = m /\ menus[m].route = m
  BY DEF Init, Live, Exists
<1>5. TypeOK
  BY SMTT(30), <1>3, <1>4 DEF Init, TypeOK
<1>6. \A r \in Requests : MatchOf(r)
  BY DEF Init, MatchOf, Checked
<1>7. \A m \in Ids : RowOf(m)
  <2>1. Nil \notin Requests
    BY MenusAssumption DEF Ids
  <2> QED
    BY <2>1 DEF Init, RowOf, Exists
<1> QED
  BY <1>5, <1>6, <1>7 DEF Typed

LEMMA TableTyped ==
  ASSUME Typed, NEW r \in Requests, Acts(r)
  PROVE  menus' \in [Ids -> Menu \cup {Nil}] /\ Unique'
<1>0. Unique /\ menus \in [Ids -> Menu \cup {Nil}]
  BY DEF Typed, TypeOK, Unique
<1>1. CASE menus' = menus
  BY <1>0, <1>1 DEF Unique, Live, Exists
<1>2. CASE \E t \in Ids : Rewritten(r, t) \/ Removed(r, t)
  <2> PICK t \in Ids : Rewritten(r, t) \/ Removed(r, t)
    BY <1>2
  <2>1. menus' \in [Ids -> Menu \cup {Nil}]
    <3>1. menus' = [m \in Ids |-> menus'[m]]
      BY <1>0 DEF Acts, Begin, CreateBuilds, UpdateFinds, Walk, UpdateChecksChildren, ChecksCode,
        ChecksRoute, Writes, DeleteFinds, DeleteChecksChildren, SoftDeletes, Fail
    <3> QED
      BY <1>0, <3>1 DEF Rewritten, Removed
  <2>2. CASE Removed(r, t)
    <3>1. /\ Live' \subseteq Live
          /\ \A m \in Live' : menus'[m].code = menus[m].code /\ menus'[m].route = menus[m].route
      BY <2>2, LiveAfter DEF Removed, Live
    <3> QED
      BY <1>0, <2>1, <3>1 DEF Unique
  <2>3. CASE Rewritten(r, t)
    <3>1. Live' = Live \cup {t} /\ \A m \in Live' \ {t} : m \in Ids /\ menus'[m] = menus[m]
      BY <2>3, LiveAfter DEF Rewritten, Live
    <3>2. \A m \in Live \ {t} : /\ menus[m].code # menus'[t].code
                                /\ menus'[t].route # Nil => menus[m].route # menus'[t].route
      BY <2>3 DEF Rewritten, Duplicate, Live
    <3> QED
      BY <1>0, <2>1, <3>1, <3>2 DEF Unique
  <2> QED
    BY <2>1, <2>2, <2>3
<1> QED
  BY <1>1, <1>2, OneRowChanges

LEMMA RowsTyped ==
  ASSUME Typed, NEW r \in Requests, Acts(r), NEW m \in Ids
  PROVE  RowOf(m)'
<1>0. RowOf(m) /\ menus \in [Ids -> Menu \cup {Nil}]
  BY DEF Typed, TypeOK
<1>1. CASE menus'[m] = menus[m]
  BY <1>0, <1>1, DoneStays DEF RowOf, Exists
<1>2. CASE \E t \in Ids : (Rewritten(r, t) \/ Removed(r, t)) /\ m = t
  <2>1. CASE Rewritten(r, m)
    BY <2>1, MenusAssumption DEF Rewritten, RowOf, Ids
  <2>2. CASE Removed(r, m)
    BY <1>0, <2>2, DoneStays DEF Removed, RowOf, Live
  <2> QED
    BY <1>2, <2>1, <2>2
<1> QED
  BY <1>1, <1>2, OneRowChanges DEF Rewritten, Removed

Answers ==
  {"none", "OK", "Internal", "NotFound", "Cycle", "InvalidParent", "RouteRequired", "Exists",
   "Conflict", "HasChildren"}

Places ==
  {"idle", "build", "find", "walk", "children", "code", "route", "write", "conflict code",
   "conflict route", "delete", "done"}

RequestsTyped ==
  /\ call \in [Requests -> Calls \cup {Nil}]
  /\ pc \in [Requests -> Places]
  /\ draft \in [Requests -> Draft \cup {Nil}]
  /\ at \in [Requests -> Ids \cup {Nil}]
  /\ visited \in [Requests -> SUBSET Ids]
  /\ done \in [Requests -> SUBSET Requests]
  /\ answer \in [Requests -> Answers]

\* What a step of a handler is: it returns, has a menu to validate, follows a
\* parent, or goes on to the next place.
Returns(r) == \E result \in Answers : Return(r, result)

Validates(r) ==
  /\ call[r].op \in {"create", "update"}
  /\ \E menu \in Draft : Validate(r, menu)

WalksOn(r) ==
  /\ pc[r] = "walk" /\ at[r] \in Live \ visited[r]
  /\ visited' = [visited EXCEPT ![r] = @ \cup {at[r]}]
  /\ at' = [at EXCEPT ![r] = menus[at[r]].parent]
  /\ Goto(r, IF menus[at[r]].parent = Nil THEN AfterWalk(r, draft[r]) ELSE "walk")
  /\ UNCHANGED draft

GoesOn(r) ==
  /\ \E next \in Places :
       /\ Goto(r, next)
       /\ \/ Checked(r) /\ next \in {"code", "route", "write", "conflict code", "conflict route"}
          \/ pc[r] = "find" /\ next = "children" /\ call[r].op = "delete"
          \/ next = "delete" /\ call[r].op = "delete" /\ ~HasChildren(Target(r))
  /\ UNCHANGED local

LEMMA StepsOf ==
  ASSUME Typed, NEW r \in Requests, Acts(r), ~Begin(r)
  PROVE  \/ Returns(r)
         \/ menus' = menus /\ (Validates(r) \/ WalksOn(r) \/ GoesOn(r))
<1> USE DEF Answers, Places, Returns, GoesOn, Checked
<1>0. call[r] \in Call /\ TypeOK
  BY ActsAlone DEF Typed, MatchOf
<1>1. CASE CreateBuilds(r)
  <2> DEFINE menu == [code |-> call[r].code, route |-> call[r].route, parent |-> call[r].parent]
  <2>1. call[r].op = "create" /\ Validate(r, menu) /\ menus' = menus
    BY <1>1 DEF CreateBuilds, Typed, MatchOf
  <2>2. menu \in Draft
    BY <1>0, <2>1, CallFields DEF Draft
  <2> QED
    BY <2>1, <2>2 DEF Validates
<1>2. CASE UpdateFinds(r)
  <2> DEFINE m == call[r].id
             menu == [code   |-> Changed(menus[m].code, call[r].code),
                      route  |-> Changed(menus[m].route, call[r].route),
                      parent |-> Changed(menus[m].parent, call[r].parent)]
  <2>1. /\ menus' = menus /\ call[r].op = "update"
        /\ Return(r, "NotFound") \/ Return(r, "Cycle") \/ (m \in Live /\ Validate(r, menu))
    BY <1>2 DEF UpdateFinds
  <2>2. m \in Live => menu \in Draft
    BY <1>0, <2>1, CallFields, LiveRows DEF Draft, Changed
  <2> HIDE DEF menu
  <2> QED
    BY <2>1, <2>2 DEF Validates
<1>3. CASE Walk(r)
  BY <1>3 DEF Walk, WalksOn
<1>4. CASE UpdateChecksChildren(r) \/ DeleteChecksChildren(r) \/ DeleteFinds(r)
  BY <1>4 DEF UpdateChecksChildren, DeleteChecksChildren, DeleteFinds
<1>5. CASE ChecksCode(r) \/ ChecksRoute(r)
  BY <1>5 DEF ChecksCode, ChecksRoute
<1>6. CASE Writes(r)
  <2>1. \/ \E result \in {"NotFound", "OK", "Internal"} : Return(r, result)
        \/ pc[r] = "write" /\ menus' = menus /\ Goto(r, "conflict code") /\ UNCHANGED local
    BY <1>6 DEF Writes
  <2> QED
    BY <2>1
<1>7. CASE SoftDeletes(r) \/ Fail(r)
  <2>1. \E result \in {"NotFound", "OK", "Internal"} : Return(r, result)
    BY <1>7 DEF SoftDeletes, Fail
  <2> QED
    BY <2>1
<1> QED
  BY <1>1, <1>2, <1>3, <1>4, <1>5, <1>6, <1>7 DEF Acts

LEMMA RequestsStayTyped ==
  ASSUME Typed, NEW r \in Requests, Acts(r)
  PROVE  RequestsTyped'
<1>0. RequestsTyped
  BY DEF Typed, TypeOK, RequestsTyped, Draft, Answers, Places
<1>1. CASE Begin(r)
  <2>1. \E c \in Calls : call' = [call EXCEPT ![r] = c]
    BY <1>1 DEF Begin
  <2>2. \E next \in Places : Goto(r, next)
    BY <1>1 DEF Begin, Places
  <2> QED
    BY <1>0, <1>1, <2>1, <2>2 DEF Begin, RequestsTyped, Goto, local
<1>2. CASE ~Begin(r)
  <2>0. UNCHANGED <<call, done>> /\ pc[r] # "idle"
    BY <1>2, ActsAlone
  <2>1. CASE Returns(r)
    <3>1. PICK result \in Answers : Return(r, result)
      BY <2>1 DEF Returns
    <3>2. /\ pc' \in [Requests -> Places] /\ answer' \in [Requests -> Answers]
          /\ draft' \in [Requests -> Draft \cup {Nil}]
      BY <1>0, <3>1 DEF RequestsTyped, Return, Places
    <3>3. at' \in [Requests -> Ids \cup {Nil}] /\ visited' \in [Requests -> SUBSET Ids]
      BY <1>0, <3>1 DEF RequestsTyped, Return
    <3> QED
      BY <1>0, <2>0, <3>2, <3>3 DEF RequestsTyped
  <2>2. CASE Validates(r)
    <3>1. PICK menu \in Draft : Validate(r, menu)
      BY <2>2 DEF Validates
    <3>2. Target(r) \in Ids /\ menu.parent \in Ids \cup {Nil}
      BY <2>0, TargetOf DEF Draft
    <3> QED
      BY <1>0, <2>0, <3>1, <3>2 DEF RequestsTyped, Validate, Goto, AfterWalk, Places
  <2>3. CASE WalksOn(r)
    <3>1. at[r] \in Ids /\ menus[at[r]].parent \in Ids \cup {Nil}
      BY <2>3, LiveRows DEF Typed, WalksOn
    <3> QED
      BY <1>0, <2>0, <2>3, <3>1 DEF WalksOn, RequestsTyped, Goto, AfterWalk, Places
  <2>4. CASE GoesOn(r)
    BY <1>0, <2>0, <2>4 DEF GoesOn, RequestsTyped, Goto, local
  <2> QED
    BY <1>2, <2>1, <2>2, <2>3, <2>4, StepsOf
<1> QED
  BY <1>1, <1>2

LEMMA MatchesStay ==
  ASSUME Typed, NEW r \in Requests, Acts(r), NEW q \in Requests
  PROVE  MatchOf(q)'
<1>0. MatchOf(q) /\ TypeOK
  BY DEF Typed
<1>1. CASE q # r
  <2>1. /\ pc'[q] = pc[q] /\ call'[q] = call[q] /\ draft'[q] = draft[q] /\ done'[q] = done[q]
    BY <1>1, ActsAlone
  <2>2. done[q] \subseteq Requests
    BY <1>0 DEF TypeOK
  <2> QED
    BY <1>0, <2>1, <2>2, DoneStays DEF MatchOf, Checked
<1>2. CASE q = r /\ Begin(r)
  <2>1. PICK c \in Calls :
          /\ call' = [call EXCEPT ![r] = c]
          /\ pc' = [pc EXCEPT ![r] = IF c.op = "create" THEN "build" ELSE "find"]
    BY <1>2 DEF Begin, Goto
  <2>2. /\ call'[r] = c /\ c \in Call /\ c.op \in {"create", "update", "delete"}
        /\ pc'[r] = IF c.op = "create" THEN "build" ELSE "find"
    <3>1. c \in Call
      BY MenusAssumption
    <3>2. call'[r] = c /\ pc'[r] = IF c.op = "create" THEN "build" ELSE "find"
      BY <1>0, <2>1 DEF TypeOK
    <3> QED
      BY <3>1, <3>2, CallFields
  <2>3. \A p \in done'[r] : p \in Requests /\ pc[p] = "done"
    BY <1>0, <1>2 DEF Begin, TypeOK
  <2> QED
    BY <1>2, <2>2, <2>3, DoneStays DEF MatchOf, Checked
<1>3. CASE q = r /\ ~Begin(r)
  <2>1. UNCHANGED <<call, done>> /\ pc[r] # "idle" /\ done[r] \subseteq Requests
    BY <1>0, <1>3, ActsAlone DEF TypeOK
  <2>2. \A p \in done'[r] : pc'[p] = "done"
    BY <1>0, <1>3, <2>1, DoneStays DEF MatchOf
  <2>3. CASE Returns(r)
    <3>1. pc'[r] = "done"
      BY <1>0, <2>3 DEF Returns, Return, TypeOK
    <3> QED
      BY <1>0, <1>3, <2>1, <2>2, <3>1 DEF MatchOf, Checked
  <2>4. CASE Validates(r)
    <3>1. PICK menu \in Draft : Validate(r, menu)
      BY <2>4 DEF Validates
    <3>2. /\ pc'[r] \in {"walk", "code"} \/ (pc'[r] = "children" /\ call[r].op = "update")
          /\ draft'[r] = menu
      BY <1>0, <3>1 DEF Validate, Goto, AfterWalk, TypeOK
    <3> QED
      BY <1>0, <1>3, <2>1, <2>2, <2>4, <3>2 DEF MatchOf, Checked, Validates
  <2>5. CASE WalksOn(r)
    <3>1. /\ pc'[r] \in {"walk", "code"} \/ (pc'[r] = "children" /\ call[r].op = "update")
          /\ draft'[r] = draft[r] /\ pc[r] = "walk"
      BY <1>0, <2>5 DEF WalksOn, Goto, AfterWalk, TypeOK
    <3> QED
      BY <1>0, <1>3, <2>1, <2>2, <3>1 DEF MatchOf, Checked
  <2>6. CASE GoesOn(r)
    <3>1. /\ draft'[r] = draft[r]
          /\ \/ Checked(r) /\ pc'[r] \in {"code", "route", "write", "conflict code", "conflict route"}
             \/ pc'[r] \in {"children", "delete"} /\ call[r].op = "delete"
      BY <1>0, <2>6 DEF GoesOn, Goto, local, TypeOK
    <3> QED
      BY <1>0, <1>3, <2>1, <2>2, <3>1 DEF MatchOf, Checked
  <2> QED
    BY <1>3, <2>3, <2>4, <2>5, <2>6, StepsOf
<1> QED
  BY <1>1, <1>2, <1>3

LEMMA NextTyped == Typed /\ [Next]_vars => Typed'
<1> SUFFICES ASSUME Typed, [Next]_vars PROVE Typed'
  OBVIOUS
<1>1. CASE \E r \in Requests : Acts(r)
  <2> PICK r \in Requests : Acts(r)
    BY <1>1
  <2>1. TypeOK'
    BY TableTyped, RequestsStayTyped DEF TypeOK, Unique, RequestsTyped, Draft, Answers, Places
  <2> QED
    BY <2>1, MatchesStay, RowsTyped DEF Typed
<1>2. CASE UNCHANGED vars
  BY ZenonT(60), <1>2 DEF vars, Typed, TypeOK, MatchOf, RowOf, Checked, Live, Exists
<1> QED
  BY <1>1, <1>2 DEF Next, Acts

LEMMA TypedHolds == Spec => []Typed
  BY InitTyped, NextTyped, PTL DEF Spec

\* The types of MenuTree: whatever requests check before they write, no two menus
\* that are not deleted share a code or a route (the constraints of the table).
THEOREM MenuTypes == Spec => []TypeOK
<1>1. Typed => TypeOK
  BY DEF Typed
<1> QED
  BY <1>1, TypedHolds, PTL

-----------------------------------------------------------------------------
(* Who overlaps.                                                           *)

\* Of those that have begun it is settled whether they overlap.
LEMMA OverlapStays ==
  ASSUME Typed, NEW r \in Requests, Acts(r), NEW a, NEW b, Overlap(a, b),
         pc[a] # "idle", pc[b] # "idle"
  PROVE  Overlap(a, b)'
<1>1. a \in Requests /\ b \in Requests
  BY DEF Overlap
<1>2. CASE Begin(r)
  <2>1. a # r /\ b # r
    BY <1>2, ActsAlone
  <2> QED
    BY <1>1, <2>1, ActsAlone DEF Overlap
<1>3. CASE ~Begin(r)
  BY <1>3, ActsAlone DEF Overlap
<1> QED
  BY <1>2, <1>3

\* Two that are under way do.
LEMMA UnderWayOverlap ==
  ASSUME Typed, NEW r \in Requests, Acts(r), ~Begin(r),
         NEW q \in Requests, q # r, pc[q] # "done"
  PROVE  Overlap(r, q)' /\ Overlap(q, r)'
<1>1. done' = done /\ pc[r] # "done"
  BY ActsAlone
<1>2. r \notin done[q] /\ q \notin done[r]
  BY <1>1 DEF Typed, MatchOf
<1> QED
  BY <1>1, <1>2 DEF Overlap

LEMMA FineStays ==
  ASSUME Typed, NEW r \in Requests, Acts(r), NEW q \in Requests, pc[q] # "idle",
         NEW p \in Ids, Fine(q, p),
         p = Target(r) /\ pc[r] = "delete" => (q # r /\ pc[q] # "done") \/ Overlap(q, r)
  PROVE  Fine(q, p)'
<1>0. RowOf(p)
  BY DEF Typed
<1>1. CASE menus'[p] = menus[p]
  <2>1. CASE p \in Live
    BY <1>1, <2>1 DEF Fine, Live, Exists
  <2>2. CASE p \notin Live
    <3>1. Overlap(q, menus[p].deletedBy) /\ pc[menus[p].deletedBy] # "idle"
      BY <1>0, <2>2 DEF Fine, RowOf, Overlap
    <3>2. Overlap(q, menus[p].deletedBy)'
      <4>1. PICK d : d = menus[p].deletedBy
        OBVIOUS
      <4>2. Overlap(q, d) /\ pc[d] # "idle"
        BY <3>1, <4>1
      <4>3. Overlap(q, d)'
        BY <4>2, OverlapStays
      <4> QED
        BY <1>1, <4>1, <4>3 DEF Overlap
    <3> QED
      BY <1>1, <3>2 DEF Fine, Exists
  <2> QED
    BY <2>1, <2>2
<1>2. CASE Rewritten(r, p)
  BY <1>2, LiveAfter DEF Fine
<1>3. CASE Removed(r, p)
  <2>1. pc[r] = "delete" /\ p = Target(r) /\ menus'[p].deletedBy = r /\ Exists(p)'
    BY <1>3, LiveAfter DEF Removed, Fine
  <2>2. Overlap(q, r)'
    <3>1. ~Begin(r)
      BY <2>1, ActsAlone
    <3>2. CASE q # r /\ pc[q] # "done"
      BY <3>1, <3>2, UnderWayOverlap
    <3>3. CASE Overlap(q, r)
      BY <2>1, <3>3, OverlapStays
    <3> QED
      BY <2>1, <3>2, <3>3
  <2> QED
    BY <2>1, <2>2 DEF Fine, Overlap
<1> QED
  BY <1>1, <1>2, <1>3, OneRowChanges DEF Rewritten, Removed

\* No row becomes old for a request that has begun.
LEMMA OldWas ==
  ASSUME Typed, NEW r \in Requests, Acts(r), NEW q \in Requests,
         pc[q] \notin {"idle", "done"}, NEW m \in Ids, Old(q, m)'
  PROVE  Old(q, m) /\ menus'[m].parent = menus[m].parent
<1>1. done'[q] = done[q]
  BY ActsAlone
<1>2. CASE menus'[m] = menus[m]
  BY <1>1, <1>2 DEF Old, Live, Exists
<1>3. CASE Rewritten(r, m)
  <2>1. r \in done[q]
    BY <1>1, <1>3, MenusAssumption DEF Old, Rewritten, Ids
  <2> QED
    BY <2>1, ActsAlone DEF Typed, MatchOf
<1>4. CASE Removed(r, m)
  BY <1>4 DEF Old, Live, Removed
<1> QED
  BY <1>2, <1>3, <1>4, OneRowChanges DEF Rewritten, Removed

-----------------------------------------------------------------------------
(* The way to the root.                                                    *)

LEMMA WalkOfOthers ==
  ASSUME Typed, Walks, NEW r \in Requests, Acts(r), NEW q \in Requests, q # r
  PROVE  WalkOf(q)'
<1>0. /\ pc'[q] = pc[q] /\ call'[q] = call[q] /\ draft'[q] = draft[q] /\ at'[q] = at[q]
      /\ visited'[q] = visited[q] /\ WalkOf(q) /\ MatchOf(q)
  BY ActsAlone DEF Walks, Typed
<1>1. /\ Way(q)' = Way(q) /\ Way(q) \subseteq Ids
      /\ Target(q)' = Target(q)
  BY <1>0 DEF Way, Target, Typed, TypeOK
<1>2. Checked(q)' = Checked(q)
  BY <1>0 DEF Checked
<1>3. ASSUME pc[q] = "walk" \/ Checked(q), draft[q].parent \in Ids, Fine(q, draft[q].parent)
      PROVE  Fine(q, draft[q].parent)'
  <2>1. pc[q] \notin {"idle", "done"}
    BY <1>3 DEF Checked
  <2>2. PICK p \in Ids : p = draft[q].parent /\ Fine(q, p)
    BY <1>3
  <2>3. Fine(q, p)'
    BY <2>1, <2>2, FineStays
  <2> QED
    BY <1>0, <2>2, <2>3 DEF Fine, Overlap, Exists
<1>4. ASSUME pc[q] = "walk" \/ Checked(q), NEW m \in Way(q), Old(q, m)'
      PROVE  Old(q, m) /\ menus'[m].parent = menus[m].parent
  <2>1. pc[q] \notin {"idle", "done"}
    BY <1>4 DEF Checked
  <2> QED
    BY <1>1, <1>4, <2>1, OldWas
<1>5. CASE pc[q] = "walk"
  BY <1>0, <1>1, <1>3, <1>4, <1>5 DEF WalkOf, Checked
<1>6. CASE Checked(q)
  BY <1>0, <1>1, <1>2, <1>3, <1>4, <1>6 DEF WalkOf, Checked
<1>7. CASE pc[q] # "walk" /\ ~Checked(q)
  BY <1>0, <1>2, <1>7 DEF WalkOf
<1> QED
  BY <1>5, <1>6, <1>7

LEMMA WalkOfOwn ==
  ASSUME Typed, Walks, NEW r \in Requests, Acts(r)
  PROVE  WalkOf(r)'
<1>0. WalkOf(r) /\ TypeOK /\ MatchOf(r)
  BY DEF Walks, Typed
<1>1. CASE Begin(r)
  <2>1. pc'[r] \in {"build", "find"}
    BY <1>0, <1>1 DEF Begin, Goto, TypeOK
  <2> QED
    BY <2>1 DEF WalkOf, Checked
<1>2. CASE Returns(r)
  <2>1. pc'[r] = "done"
    BY <1>0, <1>2 DEF Returns, Return, TypeOK
  <2> QED
    BY <2>1 DEF WalkOf, Checked
<1>3. CASE ~Begin(r) /\ menus' = menus /\ Validates(r)
  <2>0. call' = call
    BY <1>3, ActsAlone
  <2>1. PICK menu \in Draft : Validate(r, menu)
    BY <1>3 DEF Validates
  <2>2. /\ pc'[r] = (IF menu.parent = Nil THEN AfterWalk(r, menu) ELSE "walk")
        /\ draft'[r] = menu /\ at'[r] = menu.parent /\ visited'[r] = {Target(r)}
    BY <1>0, <2>1 DEF Validate, Goto, TypeOK
  <2>3. /\ Way(r)' = {} /\ menu.parent \in Ids \cup {Nil}
        /\ Target(r)' \in visited'[r]
    BY <2>0, <2>2 DEF Way, Target, Draft
  <2>4. CASE menu.parent = Nil
    <3>1. pc'[r] # "walk" /\ draft'[r].parent = Nil
      BY <2>2, <2>4 DEF AfterWalk
    <3> QED
      BY <3>1 DEF WalkOf
  <2>5. CASE menu.parent # Nil
    <3>1. pc'[r] = "walk" /\ at'[r] = draft'[r].parent /\ at'[r] \in Ids
      BY <2>2, <2>3, <2>5
    <3> QED
      BY <2>3, <3>1 DEF WalkOf, Checked
  <2> QED
    BY <2>4, <2>5
<1>4. CASE ~Begin(r) /\ menus' = menus /\ WalksOn(r)
  <2>0. call' = call /\ done' = done /\ draft' = draft
    BY <1>4, ActsAlone DEF WalksOn
  <2> DEFINE a == at[r]
             b == menus[a].parent
  <2>1. /\ pc[r] = "walk" /\ a \in Live /\ a \notin visited[r]
        /\ pc'[r] = (IF b = Nil THEN AfterWalk(r, draft[r]) ELSE "walk")
        /\ at'[r] = b /\ visited'[r] = visited[r] \cup {a}
    BY <1>0, <1>4 DEF WalksOn, Goto, TypeOK
  <2>2. a \in Ids /\ Exists(a) /\ b \in Ids \cup {Nil} /\ b = menus'[a].parent
    BY <1>0, <1>4, <2>1, LiveRows DEF Live
  <2>3. \A q, p : Fine(q, p)' <=> Fine(q, p)
    BY <1>4, <2>0 DEF Fine, Overlap, Live, Exists
  <2>4. \A m : Old(r, m)' <=> Old(r, m)
    BY <1>4, <2>0 DEF Old, Live, Exists
  <2>9. a # Target(r)
    <3>1. Target(r) \in visited[r]
      BY <1>0, <2>1 DEF WalkOf
    <3> QED
      BY <2>1, <3>1
  <2>5. /\ Way(r)' = Way(r) \cup {a}
        /\ Target(r)' \in visited'[r]
    BY <1>0, <2>0, <2>1, <2>9 DEF Way, Target, WalkOf
  <2>6. draft[r].parent \in Way(r)' /\ Fine(r, draft[r].parent)'
    <3>0. PICK p : p = draft[r].parent
      OBVIOUS
    <3>1. CASE a = p
      <4>1. Fine(r, p)
        BY <2>1, <2>2, <3>1 DEF Fine
      <4> QED
        BY <2>0, <2>3, <2>5, <3>0, <3>1, <4>1 DEF Fine
    <3>2. CASE p \in Way(r) /\ Fine(r, p)
      BY <2>0, <2>3, <2>5, <3>0, <3>2 DEF Fine
    <3> QED
      BY <1>0, <2>1, <3>0, <3>1, <3>2 DEF WalkOf
  <2>7. \A m \in Way(r)' : Old(r, m)' => menus'[m].parent \in Way(r)' \cup {b}
    BY <1>0, <1>4, <2>1, <2>2, <2>4, <2>5 DEF WalkOf
  <2>8. draft'[r] = draft[r]
    BY <2>0
  <2> HIDE DEF a, b
  <2>10. CASE b = Nil
    <3>1. pc'[r] # "walk"
      BY <2>1, <2>10 DEF AfterWalk
    <3> QED
      BY <2>6, <2>7, <2>8, <2>10, <3>1 DEF WalkOf
  <2>11. CASE b # Nil
    <3>1. pc'[r] = "walk" /\ at'[r] = b /\ b \in Ids
      BY <2>1, <2>2, <2>11
    <3> QED
      BY <2>5, <2>6, <2>7, <2>8, <3>1 DEF WalkOf, Checked
  <2> QED
    BY <2>10, <2>11
<1>5. CASE ~Begin(r) /\ menus' = menus /\ GoesOn(r)
  <2>0. call' = call /\ done' = done /\ UNCHANGED <<draft, at, visited>>
    BY <1>5, ActsAlone DEF GoesOn, local
  <2>1. \/ Checked(r) /\ pc'[r] # "walk"
        \/ pc'[r] \in {"children", "delete"} /\ call[r].op = "delete"
    BY <1>0, <1>5 DEF GoesOn, Goto, TypeOK
  <2>2. CASE Checked(r) /\ pc'[r] # "walk"
    <3>1. /\ draft[r].parent # Nil => Fine(r, draft[r].parent)'
          /\ \A m : Old(r, m)' <=> Old(r, m)
      BY <1>0, <1>5, <2>0, <2>2 DEF WalkOf, Fine, Old, Overlap, Live, Exists
    <3>2. Way(r)' = Way(r) /\ draft'[r] = draft[r]
      BY <2>0 DEF Way, Target
    <3> QED
      BY <1>0, <1>5, <2>2, <3>1, <3>2 DEF WalkOf
  <2>3. CASE pc'[r] \in {"children", "delete"} /\ call[r].op = "delete"
    BY <2>0, <2>3 DEF WalkOf, Checked
  <2> QED
    BY <2>1, <2>2, <2>3
<1> QED
  BY <1>1, <1>2, <1>3, <1>4, <1>5, StepsOf

LEMMA WalksStay ==
  ASSUME Typed, Walks, NEW r \in Requests, Acts(r)
  PROVE  Walks'
<1>1. ASSUME NEW q \in Requests
      PROVE  WalkOf(q)'
  BY <1>1, WalkOfOwn, WalkOfOthers
<1> QED
  BY <1>1 DEF Walks

\* A request that writes has followed its parents to the root.
LEMMA WriterWalked ==
  ASSUME Typed, Walks, NEW r \in Requests, NEW t \in Ids, Rewritten(r, t)
  PROVE  /\ menus'[t].by = r /\ menus'[t].parent = draft[r].parent
         /\ menus'[t].parent # Nil =>
              /\ menus'[t].parent \in Way(r) /\ Fine(r, menus'[t].parent)
              /\ \A m \in Way(r) : Old(r, m) => menus[m].parent \in Way(r) \cup {Nil}
  BY DEF Rewritten, Walks, WalkOf, Checked

-----------------------------------------------------------------------------
(* Menus that lose their parent.                                           *)

\* A row that is written beside a deletion knows it.
LEMMA DeletionsStay ==
  ASSUME Typed, Deletions, NEW r \in Requests, Acts(r)
  PROVE  Deletions'
<1> SUFFICES ASSUME NEW q \in Requests, pc'[q] = "delete",
                    NEW m \in Live', menus'[m].parent = Target(q)'
             PROVE  Overlap(menus[m].by, q)'
  BY DEF Deletions, Overlap
<1>0. m \in Ids /\ RowOf(m) /\ TypeOK
  BY DEF Live, Typed
<1>1. CASE q = r
  <2>1. ~Begin(r) /\ call' = call /\ done' = done
    <3>1. ~Begin(r)
      BY <1>0, <1>1 DEF Begin, Goto, TypeOK
    <3> QED
      BY <3>1, ActsAlone
  <2>2. menus' = menus /\ (Validates(r) \/ WalksOn(r) \/ GoesOn(r))
    <3>1. ~Returns(r)
      BY <1>0, <1>1 DEF Returns, Return, TypeOK
    <3> QED
      BY <2>1, <3>1, StepsOf
  <2>3. ~Validates(r) /\ ~WalksOn(r)
    BY <1>0, <1>1 DEF Validates, Validate, WalksOn, Goto, AfterWalk, TypeOK
  <2>4. ~HasChildren(Target(r))
    BY <1>0, <1>1, <2>2, <2>3 DEF GoesOn, Goto, TypeOK
  <2>5. m \in Live /\ menus[m].parent = Target(r)
    BY <1>1, <2>1, <2>2 DEF Live, Exists, Target
  <2> QED
    BY <2>4, <2>5 DEF HasChildren
<1>2. CASE q # r
  <2>1. pc[q] = "delete" /\ Target(q)' = Target(q)
    BY <1>2, ActsAlone DEF Target
  <2>2. CASE m \in Live /\ menus'[m].parent = menus[m].parent /\ menus'[m].by = menus[m].by
    <3>1. PICK b : b = menus[m].by
      OBVIOUS
    <3>2. Overlap(b, q) /\ pc[b] # "idle"
      BY <1>0, <2>1, <2>2, <3>1 DEF Deletions, RowOf, Live, Overlap
    <3>3. Overlap(b, q)'
      BY <2>1, <3>2, OverlapStays
    <3> QED
      BY <2>2, <3>1, <3>3 DEF Overlap
  <2>3. CASE Rewritten(r, m)
    <3>1. ~Begin(r) /\ menus'[m].by = r
      BY <2>3, ActsAlone DEF Rewritten
    <3>2. Overlap(r, q)'
      BY <1>2, <2>1, <3>1, UnderWayOverlap
    <3> QED
      BY <3>1, <3>2 DEF Overlap
  <2>4. CASE menus'[m] = menus[m] \/ (\E t \in Ids : Removed(r, t))
    <3>1. m \in Live /\ menus'[m].parent = menus[m].parent /\ menus'[m].by = menus[m].by
      BY <1>0, <2>4 DEF Removed, Live, Exists
    <3> QED
      BY <2>2, <3>1
  <2> QED
    BY <1>0, <2>3, <2>4, OneRowChanges DEF Rewritten
<1> QED
  BY <1>1, <1>2

LEMMA OrphansStay ==
  ASSUME Typed, Walks, Deletions, Orphans, NEW r \in Requests, Acts(r)
  PROVE  Orphans'
<1> SUFFICES ASSUME NEW m \in Live', menus'[m].parent # Nil
             PROVE  Fine(menus[m].by, menus[m].parent)'
  BY DEF Orphans, Fine, Overlap, Exists
<1>0. m \in Ids /\ RowOf(m) /\ TypeOK
  BY DEF Live, Typed
<1>1. CASE Rewritten(r, m)
  <2>1. PICK p : p = menus'[m].parent
    OBVIOUS
  <2>2. /\ menus'[m].by = r /\ p \in Way(r) /\ Fine(r, p) /\ pc[r] = "write"
    BY <1>1, <2>1, WriterWalked DEF Rewritten
  <2>3. p \in Ids
    BY <1>0, <2>2 DEF Way, TypeOK
  <2>4. Fine(r, p)'
    BY <2>2, <2>3, FineStays
  <2> QED
    BY <2>1, <2>2, <2>4 DEF Fine, Overlap, Exists
<1>2. CASE m \in Live /\ menus'[m].parent = menus[m].parent /\ menus'[m].by = menus[m].by
  <2>1. PICK b, p : b = menus[m].by /\ p = menus[m].parent
    OBVIOUS
  <2>2. Fine(b, p) /\ p \in Ids /\ b \in Requests \cup {Nil}
    BY <1>0, <1>2, <2>1, LiveRows DEF Orphans
  <2>3. CASE p \in Live'
    BY <1>2, <2>1, <2>3 DEF Fine, Live
  <2>4. CASE p \notin Live'
    <3>1. p = Target(r) /\ pc[r] = "delete" => Overlap(b, r)
      BY <1>2, <2>1 DEF Deletions
    <3>2. b \in Requests
      <4>1. CASE p \notin Live
        BY <2>2, <4>1 DEF Fine, Overlap
      <4>2. CASE p \in Live
        <5>1. \E t \in Ids : Removed(r, t) /\ p = t
          BY <2>2, <2>4, <4>2, OneRowChanges, LiveAfter DEF Live, Exists
        <5> QED
          BY <3>1, <5>1 DEF Removed, Overlap
      <4> QED
        BY <4>1, <4>2
    <3>3. pc[b] # "idle"
      BY <1>0, <1>2, <2>1, <3>2 DEF RowOf, Live
    <3>4. Fine(b, p)'
      BY <2>2, <3>1, <3>2, <3>3, FineStays
    <3> QED
      BY <1>2, <2>1, <3>4 DEF Fine, Overlap, Exists
  <2> QED
    BY <2>3, <2>4
<1>3. CASE menus'[m] = menus[m] \/ (\E t \in Ids : Removed(r, t))
  <2>1. m \in Live /\ menus'[m].parent = menus[m].parent /\ menus'[m].by = menus[m].by
    BY <1>0, <1>3 DEF Removed, Live, Exists
  <2> QED
    BY <1>2, <2>1
<1> QED
  BY <1>0, <1>1, <1>3, OneRowChanges DEF Rewritten

-----------------------------------------------------------------------------
(* Menus that get into a cycle.                                            *)

\* The walk of the writer that closed a cycle went through all of the cycle, had
\* nobody else been at it: a smaller set closed under parents was there before.
LEMMA CyclesStay ==
  ASSUME Typed, Walks, CyclesNeedARace, NEW r \in Requests, Acts(r)
  PROVE  CyclesNeedARace'
<1> SUFFICES ASSUME NEW S \in SUBSET (Live'), S # {}, \A m \in S : menus'[m].parent \in S
             PROVE  \E m, n \in S : Overlap(menus[m].by, menus[n].by)'
  BY DEF CyclesNeedARace, Overlap
<1>0. S \subseteq Ids /\ TypeOK /\ Nil \notin Ids
  BY MenusAssumption DEF Live, Typed
\* A closed set whose rows stay as they are.
<1>1. ASSUME NEW T \in SUBSET Live, T # {}, T \subseteq S,
             \A m \in T : /\ menus[m].parent \in T /\ menus'[m].by = menus[m].by
      PROVE  \E m, n \in S : Overlap(menus[m].by, menus[n].by)'
  <2>1. PICK m \in T, n \in T : Overlap(menus[m].by, menus[n].by)
    BY <1>1 DEF CyclesNeedARace
  <2>2. PICK a, b : a = menus[m].by /\ b = menus[n].by
    OBVIOUS
  <2>3. Overlap(a, b) /\ pc[a] # "idle" /\ pc[b] # "idle"
    BY <1>0, <1>1, <2>1, <2>2 DEF Typed, RowOf, Live, Overlap
  <2>4. Overlap(a, b)'
    BY <2>3, OverlapStays
  <2>5. m \in S /\ n \in S /\ menus'[m].by = a /\ menus'[n].by = b
    BY <1>1, <2>2
  <2>6. Overlap(menus[m].by, menus[n].by)'
    BY <2>4, <2>5 DEF Overlap
  <2> QED
    BY <2>5, <2>6
<1>2. CASE \A m \in S : m \in Live /\ menus'[m].parent = menus[m].parent /\ menus'[m].by = menus[m].by
  BY <1>1, <1>2
<1>3. CASE \E t \in S : Rewritten(r, t)
  <2>1. PICK t \in S : Rewritten(r, t)
    BY <1>3
  <2>2. /\ t \in Ids /\ t = Target(r) /\ menus'[t].by = r /\ Live' = Live \cup {t}
        /\ \A m \in Ids \ {t} : menus'[m] = menus[m]
        /\ ~Begin(r) /\ pc[r] # "done"
    BY <2>1, LiveAfter, ActsAlone DEF Rewritten
  <2>3. CASE \E m \in S \ {t} : menus[m].by \notin done[r] \cup {Nil}
    <3>1. PICK m \in S \ {t} : menus[m].by \notin done[r] \cup {Nil}
      BY <2>3
    <3>2. PICK b : b = menus[m].by
      OBVIOUS
    <3>3. m \in Live /\ menus'[m].by = b /\ b \in Requests /\ pc[b] = "done"
      <4>1. m \in Live /\ m \in Ids /\ menus'[m] = menus[m]
        BY <1>0, <2>2, <3>1
      <4>2. b \in Requests
        BY <3>1, <3>2, <4>1, LiveRows DEF Typed
      <4> QED
        BY <3>2, <4>1, <4>2 DEF Typed, RowOf, Live
    <3>4. b # r /\ r \notin done[b] /\ b \notin done[r]
      BY <2>2, <3>1, <3>2, <3>3 DEF Typed, MatchOf
    <3>5. Overlap(r, b)'
      BY <2>2, <3>3, <3>4, ActsAlone DEF Overlap
    <3>6. Overlap(menus[t].by, menus[m].by)'
      BY <2>2, <3>3, <3>5 DEF Overlap
    <3> QED
      BY <3>1, <3>6
  <2>4. CASE \A m \in S \ {t} : menus[m].by \in done[r] \cup {Nil}
    <3> DEFINE T == S \cap Way(r)
    <3>1. /\ menus'[t].parent \in Way(r)
          /\ \A m \in Way(r) : Old(r, m) => menus[m].parent \in Way(r) \cup {Nil}
      BY <1>0, <2>1, <2>2, WriterWalked
    <3>2. t \notin Way(r)
      BY <2>2 DEF Way
    <3>3. T # {} /\ T \subseteq Live /\ T \subseteq S
      BY <1>0, <2>1, <2>2, <3>1, <3>2
    <3>4. \A m \in T : Old(r, m) /\ menus'[m] = menus[m]
      BY <1>0, <2>2, <2>4, <3>2, <3>3 DEF Old
    <3>5. \A m \in T : menus[m].parent \in T
      BY <1>0, <3>1, <3>4
    <3> HIDE DEF T
    <3>6. PICK U : U = T
      OBVIOUS
    <3> QED
      BY <1>1, <3>3, <3>4, <3>5, <3>6
  <2> QED
    BY <2>3, <2>4
<1>4. CASE ~(\E t \in S : Rewritten(r, t))
  <2>1. \A m \in S : m \in Live /\ menus'[m].parent = menus[m].parent /\ menus'[m].by = menus[m].by
    BY <1>0, <1>4, OneRowChanges DEF Rewritten, Removed, Live, Exists
  <2> QED
    BY <1>2, <2>1
<1> QED
  BY <1>3, <1>4

-----------------------------------------------------------------------------
(* The theorems.                                                           *)

Forest == Typed /\ Walks /\ Deletions /\ Orphans /\ CyclesNeedARace

LEMMA InitForest == Init => Forest
<1> SUFFICES ASSUME Init PROVE Forest
  OBVIOUS
<1>1. \A r \in Requests : pc[r] = "idle"
  BY DEF Init
<1>2. Walks /\ Deletions
  BY <1>1 DEF Walks, WalkOf, Checked, Deletions
<1>3. /\ Live = Seeds /\ Seeds \subseteq Ids
      /\ \A m \in Seeds : menus[m].parent = SeedParent[m] /\ Exists(m)
  <2> DEFINE seed(m) == [code |-> m, route |-> m, parent |-> SeedParent[m], deleted |-> FALSE,
                         by |-> Nil, deletedBy |-> Nil]
  <2>1. \A m \in Ids : menus[m] = IF m \in Seeds THEN seed(m) ELSE Nil
    BY DEF Init
  <2>2. \A m \in Seeds : seed(m) \in Menu
    BY MenusAssumption DEF Ids, Menu
  <2>3. \A m \in Seeds : /\ m \in Ids /\ seed(m) # Nil
                         /\ ~seed(m).deleted /\ seed(m).parent = SeedParent[m]
    BY <2>2, MenusAssumption DEF Ids
  <2> HIDE DEF seed
  <2> QED
    BY <2>1, <2>3 DEF Live, Exists
<1>4. Orphans
  BY <1>3, MenusAssumption DEF Orphans, Fine
<1>5. CyclesNeedARace
  BY <1>3, MenusAssumption DEF CyclesNeedARace
<1> QED
  BY <1>2, <1>4, <1>5, InitTyped DEF Forest

LEMMA NextForest == Forest /\ [Next]_vars => Forest'
<1> SUFFICES ASSUME Forest, [Next]_vars PROVE Forest'
  OBVIOUS
<1>1. Typed'
  BY NextTyped DEF Forest
<1>2. CASE \E r \in Requests : Acts(r)
  BY <1>1, <1>2, WalksStay, DeletionsStay, OrphansStay, CyclesStay DEF Forest
<1>3. CASE UNCHANGED vars
  <2>1. /\ Live' = Live /\ menus' = menus /\ done' = done
    BY <1>3 DEF vars, Live, Exists
  <2>2. Walks'
    <3>1. \A q, p : Fine(q, p)' <=> Fine(q, p)
      BY <2>1 DEF Fine, Overlap, Exists
    <3>2. \A q, m : Old(q, m)' <=> Old(q, m)
      BY <2>1 DEF Old
    <3>3. \A q : /\ Way(q)' = Way(q) /\ (Checked(q)' <=> Checked(q))
                 /\ Target(q)' = Target(q)
      BY <1>3 DEF vars, Way, Target, Checked
    <3>4. \A q \in Requests : WalkOf(q) => WalkOf(q)'
      BY <1>3, <3>1, <3>2, <3>3 DEF vars, WalkOf
    <3> QED
      BY <3>4 DEF Forest, Walks
  <2>3. Deletions' /\ Orphans' /\ CyclesNeedARace'
    BY <1>3, <2>1 DEF vars, Forest, Deletions, Orphans, CyclesNeedARace, Target, Fine, Overlap, Exists
  <2> QED
    BY <1>1, <2>2, <2>3 DEF Forest
<1> QED
  BY <1>2, <1>3 DEF Next, Acts

LEMMA ForestHolds == Spec => []Forest
  BY InitForest, NextForest, PTL DEF Spec

\* ErrMenuHasChildren (softDelete) and ErrMenuInvalidParent (validateParentChain):
\* a menu loses its parent only when the delete overlaps with what last wrote the
\* menu.
THEOREM OrphansNeedARaceHolds == Spec => []OrphansNeedARace
<1>1. Forest => OrphansNeedARace
  BY DEF Forest, Orphans, OrphansNeedARace, Fine
<1> QED
  BY <1>1, ForestHolds, PTL

\* ErrMenuCycle (validateParentChain): menus get into a cycle only by two writes
\* that overlap, however long the cycle.
THEOREM CyclesNeedARaceHolds == Spec => []CyclesNeedARace
<1>1. Forest => CyclesNeedARace
  BY DEF Forest
<1> QED
  BY <1>1, ForestHolds, PTL

=============================================================================
