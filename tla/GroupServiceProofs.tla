-------------------------- MODULE GroupServiceProofs --------------------------
(***************************************************************************)
(* Proofs about GroupService, for any users, requests, names, calls and    *)
(* number of changes: its types, whom its answers let in, what becomes of  *)
(* an invitation, and that it implements module GroupDirectory.            *)
(***************************************************************************)
EXTENDS GroupService, TLAPS

-----------------------------------------------------------------------------
(* Types.                                                                  *)

RespondPlaces == {"invitation", "member", "join", "accept", "reject", "expire"}

\* Where a handler is tells which call it executes.
MatchOf(r) ==
  /\ pc[r] # "idle" => call[r] \in Calls
  /\ pc[r] = "group" => call[r].op \in {"update", "add", "invite"}
  /\ pc[r] = "write" => call[r].op = "update" /\ draft[r] # Nil
  /\ pc[r] = "delete" => call[r].op = "delete"
  /\ pc[r] = "remove" => call[r].op = "remove"
  /\ pc[r] = "insert" => call[r].op \in {"add", "invite"}
  /\ pc[r] = "inviter" => call[r].op = "invite"
  /\ pc[r] \in RespondPlaces => call[r].op = "respond"
  /\ pc[r] # "idle" /\ call[r].op = "respond" => invitations[call[r].invitation] # Nil
  /\ pc[r] = "expire" => call[r].invitation \in expired
  /\ answer[r] # "none" => pc[r] = "done"
  /\ invitations[r] # Nil => pc[r] = "done" /\ call[r].op = "invite"

\* Nothing is under way in a group that was not created, and nobody in it.
Founded ==
  Group.status = "absent" =>
    /\ \A u \in Users : ~IsMember(u)
    /\ \A r \in Requests : pc[r] \notin {"write", "insert", "inviter"} /\ invitations[r] = Nil

Typed == TypeOK /\ Founded /\ \A r \in Requests : MatchOf(r)

\* The fields of a call, by its operation.
LEMMA CallFields ==
  ASSUME NEW c \in Calls
  PROVE  /\ c.op \in {"update", "delete", "add", "remove", "invite", "respond"}
         /\ c.op = "update" => c.name \in Names \cup {Nil} /\ c.active \in BOOLEAN \cup {Nil}
         /\ c.op = "add" => c.user \in Users /\ c.role \in Roles \ {"none"}
         /\ c.op = "remove" => c.user \in Users
         /\ c.op = "invite" => /\ c.by \in Users /\ c.user \in Users
                               /\ c.role \in Roles \ {"none"} /\ c.expires \in BOOLEAN
         /\ c.op = "respond" => c.invitation \in Requests /\ c.accepted \in BOOLEAN
  BY CallsAssumption DEF Call

LEMMA NilIsNothing ==
  Nil \notin Calls /\ Nil \notin Invitation /\ Nil \notin Row /\ Nil \notin Names /\ Nil \notin BOOLEAN
  BY CallsAssumption

\* The group as it stands.
LEMMA TypedCurrent ==
  ASSUME TypeOK
  PROVE  /\ Group \in GroupState /\ Len(groups) \in Nat \ {0} /\ groups \in Seq(GroupState)
         /\ Group.role \in [Users -> Roles] /\ Group.status \in {"absent", "active", "inactive", "deleted"}
<1>1. groups \in Seq(GroupState) /\ Len(groups) \in Nat \ {0}
  BY DEF TypeOK
<1>2. Group \in GroupState
  BY <1>1 DEF Group
<1> QED
  BY <1>1, <1>2 DEF GroupState

LEMMA InitTyped == Init => Typed
<1> SUFFICES ASSUME Init PROVE Typed
  OBVIOUS
<1>1. [role |-> [u \in Users |-> "none"], status |-> "absent"] \in GroupState
  BY DEF GroupState, Roles
<1>2. TypeOK
  BY <1>1 DEF Init, TypeOK
<1>3. Founded
  BY DEF Init, Founded, Group, IsMember
<1>4. \A r \in Requests : MatchOf(r)
  BY DEF Init, MatchOf, RespondPlaces
<1> QED
  BY <1>2, <1>3, <1>4 DEF Typed

\* A change commits: the history grows by it.
LEMMA BecomeTyped ==
  ASSUME TypeOK, NEW state \in GroupState, Become(state)
  PROVE  /\ groups' \in Seq(GroupState) \ {<<>>} /\ Group' = state
         /\ Len(groups') = Len(groups) + 1
         /\ \A k \in 1..Len(groups) : groups'[k] = groups[k]
<1>1. groups \in Seq(GroupState) /\ Len(groups) \in Nat /\ groups' = Append(groups, state)
  BY TypedCurrent DEF Become
<1>2. /\ groups' \in Seq(GroupState) /\ Len(groups') = Len(groups) + 1
      /\ groups'[Len(groups) + 1] = state
      /\ \A k \in 1..Len(groups) : groups'[k] = groups[k]
  BY <1>1
<1> QED
  BY <1>1, <1>2 DEF Group

\* A group becomes open, inactive or deleted, or a person's role changes.
LEMMA NewStates ==
  ASSUME TypeOK
  PROVE  /\ \A s \in {"active", "inactive", "deleted"} :
              /\ [Group EXCEPT !.status = s] \in GroupState
              /\ [Group EXCEPT !.status = s].status = s
         /\ \A u \in Users, role \in Roles :
              /\ [Group EXCEPT !.role[u] = role] \in GroupState
              /\ [Group EXCEPT !.role[u] = role].role = [Group.role EXCEPT ![u] = role]
              /\ [Group EXCEPT !.role[u] = role].status = Group.status
<1>1. /\ Group \in GroupState /\ Group.role \in [Users -> Roles]
  BY TypedCurrent
<1>2. \A u \in Users, role \in Roles : [Group.role EXCEPT ![u] = role] \in [Users -> Roles]
  BY <1>1
<1> QED
  BY <1>1, <1>2 DEF GroupState

-----------------------------------------------------------------------------
(* What the steps of handlers do.                                          *)

HandlerSteps(r) == Begin(r) \/ Step(r) \/ Fail(r)

\* Nothing but a handler's step changes what the requests are at.
LEMMA OthersActNot ==
  ASSUME \/ \E u \in Users : CreateGroup(u)
         \/ \E i \in Requests : Expire(i)
         \/ UNCHANGED vars
  PROVE  UNCHANGED <<name, invitations, status, call, pc, draft, since, answer>>
  BY DEF CreateGroup, Expire, vars, rest

\* A step of a handler is of one request.
LEMMA ActsAlone ==
  ASSUME Typed, NEW r \in Requests, HandlerSteps(r)
  PROVE  /\ expired' = expired
         /\ \A q \in Requests \ {r} :
              /\ pc'[q] = pc[q] /\ answer'[q] = answer[q] /\ call'[q] = call[q]
              /\ since'[q] = since[q] /\ draft'[q] = draft[q] /\ invitations'[q] = invitations[q]
         /\ ~Begin(r) => call' = call /\ since' = since /\ pc[r] \notin {"idle", "done"}
         /\ Begin(r) => pc[r] = "idle" /\ UNCHANGED <<groups, name, invitations, status>>
<1> USE DEF Typed, TypeOK, rest, stores, locals, Goto, Return, Acknowledged
<1>1. CASE Begin(r)
  BY ZenonT(60), <1>1 DEF Begin
<1>2. CASE Change(r)
  BY <1>2 DEF Change, UpdateReads, UpdateWrites, DeleteGroup, AddChecksGroup, ChecksGroup, AddInserts,
              RemoveMember, At, Begin
<1>3. CASE Invite(r)
  BY <1>3 DEF Invite, InviteChecksGroup, ChecksGroup, InviteChecksInviter, InviteInserts, At, Begin
<1>4. CASE Respond(r)
  BY <1>4 DEF Respond, RespondReads, RespondChecksMember, RespondAddsMember, RespondUpdates, Begin
<1>5. CASE Fail(r)
  BY <1>5 DEF Fail, Begin
<1> QED
  BY <1>1, <1>2, <1>3, <1>4, <1>5 DEF HandlerSteps, Step

LEMMA NotAnswered ==
  ASSUME Typed, NEW r \in Requests, pc[r] # "done"
  PROVE  answer[r] = "none" /\ invitations[r] = Nil
  BY DEF Typed, MatchOf

\* An invitation that is answered was made, and to a user.
LEMMA InvitedUser ==
  ASSUME Typed, NEW r \in Requests, pc[r] # "idle", call[r].op = "respond"
  PROVE  /\ call[r].invitation \in Requests /\ Invited(r) \in Invitation
         /\ Invited(r).user \in Users /\ Invited(r).role \in Roles \ {"none"}
         /\ call[r].accepted \in BOOLEAN
<1>1. call[r] \in Calls /\ invitations[call[r].invitation] # Nil
  BY DEF Typed, MatchOf
<1>2. call[r].invitation \in Requests /\ call[r].accepted \in BOOLEAN
  BY <1>1, CallFields
<1>3. Invited(r) \in Invitation
  BY <1>1, <1>2 DEF Typed, TypeOK, Invited
<1> QED
  BY <1>2, <1>3 DEF Invitation

\* The ways a group changes.
Opens == Group.status = "absent" /\ \E u \in Users :
           Become([role |-> [Group.role EXCEPT ![u] = "owner"], status |-> "active"])

Turns == Exists /\ \E s \in {"active", "inactive", "deleted"} : Become([Group EXCEPT !.status = s])

Joins == Group.status # "absent" /\ \E u \in Users, role \in Roles \ {"none"} :
           ~IsMember(u) /\ Become([Group EXCEPT !.role[u] = role])

Leaves == \E u \in Users : IsMember(u) /\ Become([Group EXCEPT !.role[u] = "none"])

LEMMA GroupChanges ==
  ASSUME Typed, [Next]_vars
  PROVE  groups' = groups \/ Opens \/ Turns \/ Joins \/ Leaves
<1>1. ASSUME NEW u \in Users, CreateGroup(u)
      PROVE  Opens
  BY <1>1 DEF CreateGroup, Opens
<1>2. ASSUME NEW r \in Requests, Change(r)
      PROVE  groups' = groups \/ Turns \/ Joins \/ Leaves
  <2>1. CASE UpdateWrites(r)
    BY <2>1 DEF UpdateWrites, Turns, stores
  <2>2. CASE DeleteGroup(r)
    BY <2>2 DEF DeleteGroup, Turns
  <2>3. CASE AddInserts(r)
    <3>1. call[r] \in Calls /\ call[r].op = "add" /\ Group.status # "absent"
      BY <2>3 DEF AddInserts, At, Typed, MatchOf, Founded
    <3>2. call[r].user \in Users /\ call[r].role \in Roles \ {"none"}
      BY <3>1, CallFields
    <3> QED
      BY <2>3, <3>1, <3>2 DEF AddInserts, InsertMember, Joins
  <2>4. CASE RemoveMember(r)
    <3>1. call[r] \in Calls /\ call[r].op = "remove"
      BY <2>4 DEF RemoveMember, At, Typed, MatchOf
    <3>2. call[r].user \in Users
      BY <3>1, CallFields
    <3> QED
      BY <2>4, <3>2 DEF RemoveMember, Leaves
  <2>5. CASE UpdateReads(r) \/ AddChecksGroup(r)
    BY <2>5 DEF UpdateReads, AddChecksGroup, ChecksGroup, stores
  <2> QED
    BY <1>2, <2>1, <2>2, <2>3, <2>4, <2>5 DEF Change
<1>3. ASSUME NEW r \in Requests, Respond(r)
      PROVE  groups' = groups \/ Joins
  <2>1. CASE RespondAddsMember(r)
    <3>1. pc[r] # "idle" /\ call[r].op = "respond"
      BY <2>1 DEF RespondAddsMember, Typed, MatchOf, RespondPlaces
    <3>2. /\ Invited(r).user \in Users /\ Invited(r).role \in Roles \ {"none"}
          /\ Group.status # "absent"
      BY <3>1, InvitedUser DEF Typed, MatchOf, Founded
    <3> QED
      BY <2>1, <3>2 DEF RespondAddsMember, InsertMember, Joins
  <2>2. CASE RespondReads(r) \/ RespondChecksMember(r) \/ RespondUpdates(r)
    BY <2>2 DEF RespondReads, RespondChecksMember, RespondUpdates, stores
  <2> QED
    BY <1>3, <2>1, <2>2 DEF Respond
<1>4. ASSUME NEW r \in Requests, Begin(r) \/ Invite(r) \/ Fail(r) \/ Expire(r)
      PROVE  groups' = groups
  BY <1>4 DEF Begin, Invite, InviteChecksGroup, ChecksGroup, InviteChecksInviter, InviteInserts, Fail,
              Expire, stores
<1> QED
  BY <1>1, <1>2, <1>3, <1>4 DEF Next, Step, vars

\* States of the group are never forgotten, and a group is created once.
LEMMA GroupsKept ==
  ASSUME Typed, [Next]_vars
  PROVE  /\ groups' \in Seq(GroupState) \ {<<>>}
         /\ Len(groups) <= Len(groups') /\ Len(groups') \in Nat /\ Len(groups) \in Nat \ {0}
         /\ \A k \in 1..Len(groups) : groups'[k] = groups[k]
         /\ Group.status # "absent" => Group'.status # "absent"
         /\ Group'.status = "absent" => Group' = Group
<1>1. Len(groups) \in Nat \ {0} /\ TypeOK
  BY TypedCurrent DEF Typed
<1>2. CASE groups' = groups
  BY <1>1, <1>2 DEF Group, TypeOK
<1>3. ASSUME NEW state \in GroupState, Become(state), state.status # "absent"
      PROVE  /\ groups' \in Seq(GroupState) \ {<<>>}
             /\ Len(groups) <= Len(groups') /\ Len(groups') \in Nat /\ Len(groups) \in Nat \ {0}
             /\ \A k \in 1..Len(groups) : groups'[k] = groups[k]
             /\ Group'.status # "absent"
  BY <1>1, <1>3, BecomeTyped
<1>4. CASE Opens
  <2>1. PICK u \in Users : Become([role |-> [Group.role EXCEPT ![u] = "owner"], status |-> "active"])
    BY <1>4 DEF Opens
  <2>2. [role |-> [Group.role EXCEPT ![u] = "owner"], status |-> "active"] \in GroupState
    BY <1>1, TypedCurrent DEF GroupState, Roles
  <2> QED
    BY <1>3, <2>1, <2>2
<1>5. CASE Turns
  BY <1>1, <1>3, <1>5, NewStates DEF Turns
<1>6. CASE Joins
  BY <1>1, <1>3, <1>6, NewStates DEF Joins
<1>7. CASE Leaves
  <2>1. Group.status # "absent"
    BY <1>7 DEF Leaves, Typed, Founded
  <2>2. "none" \in Roles
    BY DEF Roles
  <2> QED
    BY <1>1, <1>3, <1>7, <2>1, <2>2, NewStates DEF Leaves
<1> QED
  BY <1>2, <1>4, <1>5, <1>6, <1>7, GroupChanges

\* What UpdateGroup reads and changes is a row.
LEMMA UpdateDrafts ==
  ASSUME Typed, NEW r \in Requests, UpdateReads(r)
  PROVE  [name |-> Changed(call[r].name, name),
          active |-> Changed(call[r].active, Group.status = "active")] \in Row
<1>1. call[r] \in Calls /\ call[r].op = "update" /\ name \in Names
  BY DEF UpdateReads, At, Typed, MatchOf, TypeOK
<1>2. call[r].name \in Names \cup {Nil} /\ call[r].active \in BOOLEAN \cup {Nil}
  BY <1>1, CallFields
<1>3. Changed(call[r].name, name) \in Names
  BY <1>1, <1>2 DEF Changed
<1>4. Changed(call[r].active, Group.status = "active") \in BOOLEAN
  BY <1>2 DEF Changed
<1> QED
  BY <1>3, <1>4 DEF Row

\* Where a step of a handler leads.
LEMMA TypesKept ==
  ASSUME Typed, [Next]_vars
  PROVE  TypeOK'
<1> USE DEF Typed, TypeOK, rest, stores, locals, Goto, Return, Acknowledged
<1>1. groups' \in Seq(GroupState) \ {<<>>} /\ Len(groups) \in Nat \ {0} /\ TypeOK
  BY GroupsKept
<1>2. CASE \/ \E u \in Users : CreateGroup(u)
           \/ UNCHANGED vars
  BY <1>1, <1>2 DEF CreateGroup, vars
<1>3. ASSUME NEW i \in Requests, Expire(i)
      PROVE  TypeOK'
  BY <1>1, <1>3 DEF Expire
<1>4. ASSUME NEW r \in Requests, Begin(r)
      PROVE  TypeOK'
  <2>1. PICK c \in Calls : call' = [call EXCEPT ![r] = c] /\ Goto(r, FirstStep(c.op))
    BY <1>4 DEF Begin
  <2>2. FirstStep(c.op) \in {"delete", "remove", "invitation", "group"}
    BY CallFields DEF FirstStep
  <2>3. [groups |-> Len(groups), expired |-> expired, done |-> {q \in Requests : pc[q] = "done"}]
          \in [groups : Nat \ {0}, expired : SUBSET Requests, done : SUBSET Requests]
    BY <1>1
  <2> QED
    BY <1>1, <1>4, <2>1, <2>2, <2>3 DEF Begin
<1>5. ASSUME NEW r \in Requests, UpdateReads(r)
      PROVE  TypeOK'
  <2>1. CASE ~Exists
    BY ZenonT(60), <1>1, <1>5, <2>1 DEF UpdateReads
  <2>2. CASE Exists
    <3>1. draft' = [draft EXCEPT ![r] =
             [name |-> Changed(call[r].name, name),
              active |-> Changed(call[r].active, Group.status = "active")]]
      BY <1>5, <2>2 DEF UpdateReads
    <3>2. draft' \in [Requests -> Row \cup {Nil}]
      BY <1>5, <3>1, UpdateDrafts
    <3> QED
      BY <1>1, <1>5, <2>2, <3>2 DEF UpdateReads
  <2> QED
    BY <2>1, <2>2
<1>6. ASSUME NEW r \in Requests, UpdateWrites(r)
      PROVE  TypeOK'
  <2>1. draft[r].name \in Names
    BY <1>6, NilIsNothing DEF UpdateWrites, At, MatchOf, Row
  <2>2. /\ name' \in Names
        /\ UNCHANGED <<invitations, status, expired, call, draft, since>>
    BY <1>6, <2>1 DEF UpdateWrites
  <2>3. Return(r, "NotFound") \/ Return(r, "OK") \/ Return(r, "Internal")
    BY <1>6 DEF UpdateWrites
  <2> QED
    BY <1>1, <2>2, <2>3
<1>7. ASSUME NEW r \in Requests, DeleteGroup(r) \/ RemoveMember(r) \/ AddInserts(r) \/ AddChecksGroup(r)
      PROVE  TypeOK'
  <2>1. CASE DeleteGroup(r)
    BY ZenonT(60), <1>1, <2>1 DEF DeleteGroup
  <2>2. CASE RemoveMember(r)
    BY ZenonT(60), <1>1, <2>2 DEF RemoveMember
  <2>3. CASE AddInserts(r)
    BY ZenonT(60), <1>1, <2>3 DEF AddInserts
  <2>4. CASE AddChecksGroup(r)
    BY ZenonT(60), <1>1, <2>4 DEF AddChecksGroup, ChecksGroup
  <2> QED
    BY <1>7, <2>1, <2>2, <2>3, <2>4
<1>8. ASSUME NEW r \in Requests, InviteChecksGroup(r) \/ InviteChecksInviter(r)
      PROVE  TypeOK'
  <2>1. \/ Return(r, "NotFound") \/ Return(r, "GroupInactive") \/ Return(r, "Forbidden")
        \/ Goto(r, "inviter") \/ Goto(r, "insert")
    BY <1>8 DEF InviteChecksGroup, ChecksGroup, InviteChecksInviter
  <2>2. UNCHANGED <<stores, locals>>
    BY <1>8 DEF InviteChecksGroup, ChecksGroup, InviteChecksInviter
  <2> QED
    BY ZenonT(60), <1>1, <2>1, <2>2
<1>9. ASSUME NEW r \in Requests, InviteInserts(r)
      PROVE  TypeOK'
  <2>1. call[r] \in Calls /\ call[r].op = "invite"
    BY <1>9 DEF InviteInserts, At, MatchOf
  <2>2. [user |-> call[r].user, role |-> call[r].role, expires |-> call[r].expires] \in Invitation
    BY <2>1, CallFields DEF Invitation
  <2>3. [user |-> call[r].user, role |-> call[r].role, expires |-> call[r].expires] # Nil
    BY <2>2, NilIsNothing
  <2>4. invitations' \in [Requests -> Invitation \cup {Nil}]
        /\ \A i \in Requests : invitations'[i] = IF i = r THEN
             [user |-> call[r].user, role |-> call[r].role, expires |-> call[r].expires]
             ELSE invitations[i]
    BY <1>9, <2>2 DEF InviteInserts
  <2>5. status[r] = "none"
    BY <1>9 DEF InviteInserts, At, MatchOf
  <2>6. /\ status' = [status EXCEPT ![r] = "pending"]
        /\ UNCHANGED <<groups, name, expired, locals>>
        /\ Return(r, "OK") \/ Return(r, "Internal")
    BY <1>9 DEF InviteInserts
  <2>7. /\ \A i \in Requests : status'[i] = "none" <=> invitations'[i] = Nil
        /\ expired' \subseteq {i \in Requests : invitations'[i] # Nil}
        /\ \A i \in Requests : status'[i] = "expired" => i \in expired'
    BY <2>3, <2>4, <2>5, <2>6
  <2>8. /\ status' \in [Requests -> {"none", "pending", "accepted", "rejected", "expired"}]
        /\ invitations' \in [Requests -> Invitation \cup {Nil}]
        /\ call' \in [Requests -> Calls \cup {Nil}] /\ draft' \in [Requests -> Row \cup {Nil}]
        /\ name' \in Names
    BY <2>4, <2>6
  <2>9. /\ pc' \in [Requests -> {"idle", "group", "write", "delete", "insert", "remove", "inviter",
                         "invitation", "member", "join", "accept", "reject", "expire", "done"}]
        /\ answer' \in [Requests -> {"none", "OK", "NotFound", "GroupInactive", "Conflict", "Forbidden",
                             "NotPending", "Expired", "Internal"}]
    BY <2>6
  <2>10. since' \in [Requests -> [groups : Nat \ {0}, expired : SUBSET Requests, done : SUBSET Requests]]
    BY <2>6
  <2> QED
    BY <1>1, <2>7, <2>8, <2>9, <2>10
<1>10. ASSUME NEW r \in Requests, RespondReads(r) \/ RespondChecksMember(r) \/ RespondAddsMember(r)
       PROVE  TypeOK'
  <2>1. CASE RespondReads(r)
    <3>1. \/ Return(r, "NotPending") \/ Goto(r, "expire") \/ Goto(r, "member") \/ Goto(r, "reject")
      BY <2>1 DEF RespondReads
    <3>2. UNCHANGED <<stores, locals>>
      BY <2>1 DEF RespondReads
    <3> QED
      BY <1>1, <3>1, <3>2
  <2>2. CASE RespondChecksMember(r)
    BY <1>1, <2>2 DEF RespondChecksMember
  <2>3. CASE RespondAddsMember(r)
    BY <1>1, <2>3 DEF RespondAddsMember
  <2> QED
    BY <1>10, <2>1, <2>2, <2>3
<1>11. ASSUME NEW r \in Requests, RespondUpdates(r)
       PROVE  TypeOK'
  <2>1. /\ call[r].invitation \in Requests /\ invitations[call[r].invitation] # Nil
        /\ pc[r] = "expire" => call[r].invitation \in expired
    BY <1>11, InvitedUser DEF RespondUpdates, MatchOf, RespondPlaces
  <2> QED
    BY ZenonT(60), <1>1, <1>11, <2>1 DEF RespondUpdates
<1>12. ASSUME NEW r \in Requests, Fail(r)
       PROVE  TypeOK'
  BY <1>1, <1>12 DEF Fail
<1> QED
  BY <1>2, <1>3, <1>4, <1>5, <1>6, <1>7, <1>8, <1>9, <1>10, <1>11, <1>12
     DEF Next, Step, Change, Invite, Respond

\* The request that acts.
LEMMA MatchOfActor ==
  ASSUME Typed, NEW r \in Requests, HandlerSteps(r)
  PROVE  MatchOf(r)'
<1> USE DEF Typed, TypeOK, MatchOf, RespondPlaces, rest, stores, locals, Goto, Return, Acknowledged, At
<1>1. CASE Begin(r)
  <2>1. PICK c \in Calls : /\ call' = [call EXCEPT ![r] = c] /\ Goto(r, FirstStep(c.op))
                           /\ c.op = "respond" => invitations[c.invitation] # Nil
    BY <1>1 DEF Begin
  <2>2. answer[r] = "none" /\ invitations[r] = Nil
    BY <1>1, NotAnswered DEF Begin
  <2>3. /\ FirstStep(c.op) \in {"delete", "remove", "invitation", "group"}
        /\ FirstStep(c.op) = "delete" => c.op = "delete"
        /\ FirstStep(c.op) = "remove" => c.op = "remove"
        /\ FirstStep(c.op) = "invitation" => c.op = "respond"
        /\ FirstStep(c.op) = "group" => c.op \in {"update", "add", "invite"}
    BY CallFields DEF FirstStep
  <2> QED
    BY <1>1, <2>1, <2>2, <2>3 DEF Begin
<1>2. CASE Change(r)
  <2>1. CASE UpdateReads(r)
    <3>2. [name |-> Changed(call[r].name, name),
           active |-> Changed(call[r].active, Group.status = "active")] # Nil
      BY <2>1, UpdateDrafts, NilIsNothing
    <3> QED
      BY <2>1, <3>2 DEF UpdateReads
  <2>2. CASE UpdateWrites(r) \/ DeleteGroup(r) \/ RemoveMember(r)
    BY <2>2 DEF UpdateWrites, DeleteGroup, RemoveMember
  <2>3. CASE AddChecksGroup(r) \/ AddInserts(r)
    BY <2>3 DEF AddChecksGroup, ChecksGroup, AddInserts
  <2> QED
    BY <1>2, <2>1, <2>2, <2>3 DEF Change
<1>3. CASE Invite(r)
  BY <1>3 DEF Invite, InviteChecksGroup, ChecksGroup, InviteChecksInviter, InviteInserts
<1>4. CASE Respond(r)
  BY <1>4 DEF Respond, RespondReads, RespondChecksMember, RespondAddsMember, RespondUpdates
<1>5. CASE Fail(r)
  BY <1>5 DEF Fail
<1> QED
  BY <1>1, <1>2, <1>3, <1>4, <1>5 DEF HandlerSteps, Step

\* Invitations stay, and so does what has happened to them.
LEMMA InvitationsKept ==
  ASSUME Typed, [Next]_vars
  PROVE  /\ expired \subseteq expired'
         /\ \A i \in Requests : invitations[i] # Nil => invitations'[i] = invitations[i]
<1>1. ASSUME NEW r \in Requests, HandlerSteps(r)
      PROVE  /\ expired' = expired
             /\ \A i \in Requests : invitations[i] # Nil => invitations'[i] = invitations[i]
  <2>1. \A i \in Requests \ {r} : invitations'[i] = invitations[i]
    BY <1>1, ActsAlone
  <2>2. CASE pc[r] # "done"
    BY <1>1, <2>1, <2>2, NotAnswered, ActsAlone
  <2>3. CASE pc[r] = "done"
    BY <1>1, <2>3, ActsAlone
  <2> QED
    BY <2>2, <2>3
<1>2. CASE \/ \E u \in Users : CreateGroup(u)
           \/ UNCHANGED vars
  BY <1>2, OthersActNot DEF CreateGroup, vars, rest
<1>3. CASE \E i \in Requests : Expire(i)
  BY <1>3, OthersActNot DEF Expire
<1> QED
  BY <1>1, <1>2, <1>3 DEF Next, HandlerSteps

LEMMA MatchOfOthers ==
  ASSUME Typed, [Next]_vars, NEW q \in Requests,
         /\ pc'[q] = pc[q] /\ answer'[q] = answer[q] /\ call'[q] = call[q]
         /\ draft'[q] = draft[q] /\ invitations'[q] = invitations[q]
  PROVE  MatchOf(q)'
<1>1. MatchOf(q)
  BY DEF Typed
<1>2. pc[q] # "idle" /\ call[q].op = "respond" => call[q].invitation \in Requests
  BY InvitedUser
<1>3. /\ expired \subseteq expired'
      /\ pc[q] # "idle" /\ call[q].op = "respond" =>
           invitations'[call[q].invitation] = invitations[call[q].invitation]
  BY <1>1, <1>2, InvitationsKept DEF MatchOf
<1> QED
  BY <1>1, <1>3 DEF MatchOf, RespondPlaces

LEMMA FoundedKept ==
  ASSUME Typed, [Next]_vars
  PROVE  Founded'
<1> SUFFICES ASSUME Group'.status = "absent"
             PROVE  /\ \A u \in Users : ~IsMember(u)'
                    /\ \A q \in Requests : /\ pc'[q] \notin {"write", "insert", "inviter"}
                                           /\ invitations'[q] = Nil
  BY DEF Founded
<1>1. /\ Group' = Group /\ Group.status = "absent"
      /\ \A u \in Users : ~IsMember(u)
      /\ \A q \in Requests : /\ pc[q] \notin {"write", "insert", "inviter"}
                             /\ invitations[q] = Nil
  BY GroupsKept DEF Typed, Founded
<1>2. \A u \in Users : ~IsMember(u)'
  BY <1>1 DEF IsMember
<1>3. CASE \/ \E u \in Users : CreateGroup(u)
           \/ \E i \in Requests : Expire(i)
           \/ UNCHANGED vars
  BY <1>1, <1>2, <1>3, OthersActNot
<1>4. ASSUME NEW r \in Requests, HandlerSteps(r)
      PROVE  \A q \in Requests : /\ pc'[q] \notin {"write", "insert", "inviter"}
                                 /\ invitations'[q] = Nil
  <2>1. \A q \in Requests \ {r} : /\ pc'[q] \notin {"write", "insert", "inviter"}
                                  /\ invitations'[q] = Nil
    BY <1>1, <1>4, ActsAlone
  <2>2. pc'[r] \notin {"write", "insert", "inviter"} /\ invitations'[r] = Nil
    <3> USE <1>1 DEF Typed, TypeOK, rest, stores, locals, Goto, Return, Acknowledged, At
    <3>1. CASE Begin(r)
      <4>1. PICK c \in Calls : Goto(r, FirstStep(c.op))
        BY <3>1 DEF Begin
      <4>2. FirstStep(c.op) \in {"delete", "remove", "invitation", "group"}
        BY CallFields DEF FirstStep
      <4> QED
        BY <3>1, <4>1, <4>2 DEF Begin
    <3>2. CASE Change(r)
      BY <3>2 DEF Change, UpdateReads, UpdateWrites, DeleteGroup, AddChecksGroup, ChecksGroup,
                  AddInserts, RemoveMember, Exists
    <3>3. CASE Invite(r)
      BY <3>3 DEF Invite, InviteChecksGroup, ChecksGroup, InviteChecksInviter, InviteInserts
    <3>4. CASE Respond(r)
      BY <3>4 DEF Respond, RespondReads, RespondChecksMember, RespondAddsMember, RespondUpdates
    <3>5. CASE Fail(r)
      BY <3>5 DEF Fail
    <3> QED
      BY <1>4, <3>1, <3>2, <3>3, <3>4, <3>5 DEF HandlerSteps, Step
  <2> QED
    BY <2>1, <2>2
<1> QED
  BY <1>2, <1>3, <1>4 DEF Next, HandlerSteps

LEMMA NextTyped ==
  ASSUME Typed, [Next]_vars
  PROVE  Typed'
<1>1. ASSUME NEW q \in Requests
      PROVE  MatchOf(q)'
  <2>1. ASSUME NEW r \in Requests, HandlerSteps(r)
        PROVE  MatchOf(q)'
    <3>1. CASE q = r
      BY <2>1, <3>1, MatchOfActor
    <3>2. CASE q # r
      BY <2>1, <3>2, ActsAlone, MatchOfOthers
    <3> QED
      BY <3>1, <3>2
  <2>2. CASE \/ \E u \in Users : CreateGroup(u)
             \/ \E i \in Requests : Expire(i)
             \/ UNCHANGED vars
    <3>1. UNCHANGED <<invitations, call, pc, draft, answer>>
      BY <2>2, OthersActNot
    <3> QED
      BY <3>1, MatchOfOthers
  <2> QED
    BY <2>1, <2>2 DEF Next, HandlerSteps
<1> QED
  BY <1>1, TypesKept, FoundedKept DEF Typed

LEMMA TypedHolds == Spec => []Typed
<1>1. Typed /\ [Next]_vars => Typed'
  BY NextTyped
<1> QED
  BY <1>1, InitTyped, PTL DEF Spec

\* The types of the state of a group, its invitations and its handlers.
THEOREM GroupTypes == Spec => []TypeOK
<1>1. Typed => TypeOK
  BY DEF Typed
<1> QED
  BY <1>1, TypedHolds, PTL

-----------------------------------------------------------------------------
(* Outcomes.  A request that is under way carries evidence of what it saw:  *)
(* a state of the group since it began, which the history never loses.      *)

WasOpen(r) == \E k \in since[r].groups..Len(groups) : groups[k].status = "active"

HadMember(r, u) == \E k \in since[r].groups..Len(groups) : groups[k].role[u] # "none"

EvidenceOf(r) ==
  /\ pc[r] # "idle" => since[r].groups <= Len(groups)
  /\ pc[r] \in {"inviter", "insert"} => WasOpen(r)
  /\ pc[r] = "insert" /\ call[r].op = "invite" => HadMember(r, call[r].by)
  /\ pc[r] = "accept" => HadMember(r, Invited(r).user)
  /\ pc[r] = "reject" => ~call[r].accepted
  /\ answer[r] = "OK" =>
       /\ call[r].op \in {"add", "invite"} => WasOpen(r)
       /\ call[r].op = "invite" => HadMember(r, call[r].by)
       /\ call[r].op = "respond" /\ call[r].accepted => HadMember(r, Invited(r).user)

Evidence == \A r \in Requests : EvidenceOf(r)

LEMMA EvidenceSuffices == Evidence => OutcomesWereDue
BY DEF Evidence, EvidenceOf, OutcomesWereDue, GroupWas, WasOpen, HadMember

LEMMA EvidenceLasts ==
  ASSUME Typed, [Next]_vars, NEW r \in Requests, since'[r] = since[r]
  PROVE  /\ WasOpen(r) => WasOpen(r)'
         /\ \A u : HadMember(r, u) => HadMember(r, u)'
         /\ since[r].groups <= Len(groups) => since'[r].groups <= Len(groups')
<1>1. since[r].groups \in Nat
  BY DEF Typed, TypeOK
<1>2. \A k \in since[r].groups..Len(groups) :
        k \in since[r].groups..Len(groups') /\ (k \in 1..Len(groups) => groups'[k] = groups[k])
  BY <1>1, GroupsKept
<1>3. since[r].groups \in Nat \ {0}
  BY DEF Typed, TypeOK
<1>4. \A k \in since[r].groups..Len(groups) : k \in 1..Len(groups)
  BY <1>3, GroupsKept
<1>5. since[r].groups <= Len(groups) => since[r].groups <= Len(groups')
  BY <1>1, GroupsKept
<1> QED
  BY <1>2, <1>4, <1>5 DEF WasOpen, HadMember

\* What is so now has been so since the request began.
LEMMA EvidenceNow ==
  ASSUME Typed, [Next]_vars, NEW r \in Requests, since'[r] = since[r],
         since[r].groups <= Len(groups)
  PROVE  /\ Group'.status = "active" => WasOpen(r)'
         /\ \A u : Group'.role[u] # "none" => HadMember(r, u)'
<1>1. Len(groups') \in since'[r].groups..Len(groups')
  <2>1. since[r].groups \in Nat
    BY DEF Typed, TypeOK
  <2> QED
    BY <2>1, GroupsKept
<1> QED
  BY <1>1 DEF Group, WasOpen, HadMember

LEMMA EvidenceOfOthers ==
  ASSUME Typed, [Next]_vars, NEW q \in Requests, EvidenceOf(q),
         /\ pc'[q] = pc[q] /\ answer'[q] = answer[q] /\ call'[q] = call[q] /\ since'[q] = since[q]
  PROVE  EvidenceOf(q)'
<1>1. /\ WasOpen(q) => WasOpen(q)'
      /\ \A u : HadMember(q, u) => HadMember(q, u)'
      /\ since[q].groups <= Len(groups) => since'[q].groups <= Len(groups')
  BY EvidenceLasts
<1>2. pc[q] \in {"accept", "done"} /\ call[q].op = "respond" => Invited(q)' = Invited(q)
  BY InvitedUser, InvitationsKept DEF Invited, Typed, MatchOf
<1>3. /\ answer[q] = "OK" => pc[q] = "done"
      /\ pc[q] = "accept" => call[q].op = "respond"
  BY DEF Typed, MatchOf, RespondPlaces
<1> QED
  BY <1>1, <1>2, <1>3 DEF EvidenceOf

LEMMA EvidenceOfActor ==
  ASSUME Typed, [Next]_vars, NEW r \in Requests, EvidenceOf(r), HandlerSteps(r)
  PROVE  EvidenceOf(r)'
<1>1. CASE Begin(r)
  <2>1. answer[r] = "none"
    BY <1>1, NotAnswered DEF Begin
  <2>2. /\ since' = [since EXCEPT ![r] = [groups |-> Len(groups), expired |-> expired,
                                          done |-> {q \in Requests : pc[q] = "done"}]]
        /\ UNCHANGED <<groups, answer>>
    BY <1>1 DEF Begin, Goto, stores
  <2>3. since'[r].groups = Len(groups) /\ Len(groups') = Len(groups) /\ Len(groups) \in Nat
    BY <2>2, TypedCurrent DEF Typed, TypeOK
  <2>4. PICK c \in Calls : Goto(r, FirstStep(c.op))
    BY <1>1 DEF Begin
  <2>5. FirstStep(c.op) \in {"delete", "remove", "invitation", "group"}
    BY CallFields DEF FirstStep
  <2>6. pc'[r] \in {"delete", "remove", "invitation", "group"}
    BY <2>4, <2>5 DEF Goto, Typed, TypeOK
  <2> QED
    BY <2>1, <2>2, <2>3, <2>6 DEF EvidenceOf
<1>2. CASE Step(r) \/ Fail(r)
  <2>1. /\ pc[r] \notin {"idle", "done"} /\ call' = call /\ since' = since
        /\ answer[r] = "none"
    <3>1. ~Begin(r)
      BY <1>2, ActsAlone DEF Begin, Fail, Step, Change, Invite, Respond, UpdateReads, UpdateWrites, DeleteGroup,
         AddChecksGroup, ChecksGroup, AddInserts, RemoveMember, InviteChecksGroup, InviteChecksInviter,
         InviteInserts, RespondReads, RespondChecksMember, RespondAddsMember, RespondUpdates, At
    <3> QED
      BY <3>1, ActsAlone, NotAnswered
  <2>2. /\ WasOpen(r) => WasOpen(r)'
        /\ \A u : HadMember(r, u) => HadMember(r, u)'
        /\ since'[r].groups <= Len(groups')
    BY <2>1, EvidenceLasts DEF EvidenceOf
  <2>3. /\ Group'.status = "active" => WasOpen(r)'
        /\ \A u : Group'.role[u] # "none" => HadMember(r, u)'
    BY <2>1, EvidenceNow DEF EvidenceOf
  <2>4. call[r].op = "respond" => Invited(r)' = Invited(r)
    BY <2>1, InvitedUser, InvitationsKept DEF Invited, Typed, MatchOf
  <2>5. MatchOf(r) /\ pc \in [Requests -> {"idle", "group", "write", "delete", "insert", "remove",
           "inviter", "invitation", "member", "join", "accept", "reject", "expire", "done"}]
        /\ answer \in [Requests -> {"none", "OK", "NotFound", "GroupInactive", "Conflict", "Forbidden",
                             "NotPending", "Expired", "Internal"}]
    BY DEF Typed, TypeOK
  <2> USE <2>1, <2>2, <2>5 DEF EvidenceOf, At, Goto, Return, Acknowledged, MatchOf, RespondPlaces
  <2>6. CASE UpdateReads(r) \/ UpdateWrites(r) \/ DeleteGroup(r) \/ RemoveMember(r)
    BY <2>6 DEF UpdateReads, UpdateWrites, DeleteGroup, RemoveMember
  <2>7. CASE AddChecksGroup(r) \/ InviteChecksGroup(r)
    <3>1. Group' = Group
      BY <2>7 DEF AddChecksGroup, InviteChecksGroup, ChecksGroup, Group, stores
    <3> QED
      BY <2>3, <2>7, <3>1 DEF AddChecksGroup, InviteChecksGroup, ChecksGroup
  <2>8. CASE AddInserts(r) \/ InviteInserts(r)
    BY <2>8 DEF AddInserts, InviteInserts
  <2>9. CASE InviteChecksInviter(r)
    <3>1. Group' = Group
      BY <2>9 DEF InviteChecksInviter, Group, stores
    <3> QED
      BY <2>3, <2>9, <3>1 DEF InviteChecksInviter, IsMember
  <2>10. CASE RespondReads(r)
    BY <2>10 DEF RespondReads
  <2>11. CASE RespondChecksMember(r)
    <3>1. Group' = Group
      BY <2>11 DEF RespondChecksMember, Group, stores
    <3> QED
      BY <2>3, <2>4, <2>11, <3>1 DEF RespondChecksMember, IsMember
  <2>12. CASE RespondAddsMember(r)
    <3>1. call[r].op = "respond"
      BY <2>12 DEF RespondAddsMember
    <3>2. Group'.role[Invited(r).user] # "none"
      <4>1. CASE IsMember(Invited(r).user) /\ UNCHANGED groups
        BY <4>1 DEF IsMember, Group
      <4>2. CASE InsertMember(Invited(r).user, Invited(r).role)
        <5>1. Invited(r).user \in Users /\ Invited(r).role \in Roles \ {"none"} /\ TypeOK
          BY <3>1, InvitedUser DEF Typed
        <5>2. Group' = [Group EXCEPT !.role[Invited(r).user] = Invited(r).role]
          BY <4>2, <5>1, NewStates, BecomeTyped DEF InsertMember
        <5>3. Group'.role = [Group.role EXCEPT ![Invited(r).user] = Invited(r).role]
          BY <5>1, <5>2, NewStates
        <5> QED
          BY <5>1, <5>3, TypedCurrent
      <4> QED
        BY <2>12, <4>1, <4>2 DEF RespondAddsMember
    <3> QED
      BY <2>3, <2>4, <2>12, <3>1, <3>2 DEF RespondAddsMember
  <2>13. CASE RespondUpdates(r)
    BY <2>4, <2>13 DEF RespondUpdates
  <2>14. CASE Fail(r)
    BY <2>14 DEF Fail
  <2> QED
    BY <1>2, <2>6, <2>7, <2>8, <2>9, <2>10, <2>11, <2>12, <2>13, <2>14 DEF Step, Change, Invite, Respond
<1> QED
  BY <1>1, <1>2 DEF HandlerSteps

LEMMA InitEvidence == Init => Evidence
BY DEF Init, Evidence, EvidenceOf

LEMMA NextEvidence ==
  ASSUME Typed, Evidence, [Next]_vars
  PROVE  Evidence'
<1>1. ASSUME NEW q \in Requests
      PROVE  EvidenceOf(q)'
  <2>1. EvidenceOf(q)
    BY DEF Evidence
  <2>2. ASSUME NEW r \in Requests, HandlerSteps(r)
        PROVE  EvidenceOf(q)'
    <3>1. CASE q = r
      BY <2>1, <2>2, <3>1, EvidenceOfActor
    <3>2. CASE q # r
      BY <2>1, <2>2, <3>2, ActsAlone, EvidenceOfOthers
    <3> QED
      BY <3>1, <3>2
  <2>3. CASE \/ \E u \in Users : CreateGroup(u)
             \/ \E i \in Requests : Expire(i)
             \/ UNCHANGED vars
    <3>1. UNCHANGED <<call, pc, since, answer>>
      BY <2>3, OthersActNot
    <3> QED
      BY <2>1, <3>1, EvidenceOfOthers
  <2> QED
    BY <2>2, <2>3 DEF Next, HandlerSteps
<1> QED
  BY <1>1 DEF Evidence

\* People are entered and invited only into a group that was open, and invited
\* only by a member; who accepted was a member (AddMember, InviteMember and
\* RespondInvitation, whatever runs between their statements).
THEOREM OutcomesWereDueHolds == Spec => []OutcomesWereDue
<1>1. Typed /\ Evidence /\ [Next]_vars => Evidence'
  BY NextEvidence
<1> QED
  BY <1>1, TypedHolds, InitEvidence, EvidenceSuffices, PTL DEF Spec

-----------------------------------------------------------------------------
(* Answers.  Whoever may still take an answer, or has taken one, began      *)
(* before the invitation expired and before any answer to it was known; and *)
(* an invitation of which an answer was taken is pending no more.           *)

\* The request took an answer to the invitation, as far as its caller knows.
Took(r, i) == answer[r] = "OK" /\ call[r].op = "respond" /\ call[r].invitation = i

MayTake(r) ==
  /\ call[r].op = "respond"
  /\ pc[r] \in {"member", "join", "accept", "reject"} \/ answer[r] = "OK"

AnswersOf(r) ==
  /\ since[r].expired \subseteq expired
  /\ \A q \in since[r].done : pc[q] = "done"
  /\ \A i \in Requests : Took(r, i) => status[i] # "pending"
  /\ MayTake(r) => /\ call[r].invitation \notin since[r].expired
                   /\ \A q \in since[r].done : ~Took(q, call[r].invitation)

Answers == \A r \in Requests : AnswersOf(r)

LEMMA AnswersSuffice == Answers => AnsweredOnceAndInTime
BY DEF Answers, AnswersOf, AnsweredOnceAndInTime, Took, MayTake

\* An invitation that is not pending any more does not become so.
LEMMA StatusChanges ==
  ASSUME Typed, [Next]_vars, NEW i \in Requests, invitations[i] # Nil, status[i] # "pending"
  PROVE  status'[i] # "pending"
<1> USE DEF Typed, TypeOK, rest, stores
<1>1. ASSUME NEW r \in Requests, InviteInserts(r)
      PROVE  status'[i] # "pending"
  <2>1. i # r
    BY <1>1 DEF InviteInserts, At, MatchOf
  <2> QED
    BY <1>1, <2>1 DEF InviteInserts
<1>2. ASSUME NEW r \in Requests, RespondUpdates(r)
      PROVE  status'[i] # "pending"
  BY <1>2 DEF RespondUpdates
<1>3. ASSUME NEW r \in Requests, Change(r)
      PROVE  status' = status
  BY <1>3 DEF Change, UpdateReads, UpdateWrites, DeleteGroup, AddChecksGroup, ChecksGroup, AddInserts,
              RemoveMember
<1>4. ASSUME NEW r \in Requests, \/ InviteChecksGroup(r) \/ InviteChecksInviter(r)
                                 \/ RespondReads(r) \/ RespondChecksMember(r) \/ RespondAddsMember(r)
      PROVE  status' = status
  BY <1>4 DEF InviteChecksGroup, ChecksGroup, InviteChecksInviter, RespondReads, RespondChecksMember,
              RespondAddsMember
<1>5. ASSUME NEW r \in Requests, Begin(r) \/ Fail(r)
      PROVE  status' = status
  BY <1>5 DEF Begin, Fail
<1>6. CASE \/ \E u \in Users : CreateGroup(u)
           \/ \E j \in Requests : Expire(j)
           \/ UNCHANGED vars
  BY <1>6, OthersActNot
<1> QED
  BY <1>1, <1>2, <1>3, <1>4, <1>5, <1>6 DEF Next, Step, Invite, Respond

\* A result that was given is not taken back.
LEMMA DoneStays ==
  ASSUME Typed, [Next]_vars, NEW q \in Requests, pc[q] = "done"
  PROVE  pc'[q] = "done" /\ answer'[q] = answer[q] /\ call'[q] = call[q]
<1>1. ASSUME NEW r \in Requests, HandlerSteps(r)
      PROVE  pc'[q] = "done" /\ answer'[q] = answer[q] /\ call'[q] = call[q]
  <2>1. r # q
    BY <1>1, ActsAlone
  <2> QED
    BY <1>1, <2>1, ActsAlone
<1>2. CASE \/ \E u \in Users : CreateGroup(u)
           \/ \E i \in Requests : Expire(i)
           \/ UNCHANGED vars
  BY <1>2, OthersActNot
<1> QED
  BY <1>1, <1>2 DEF Next, HandlerSteps

LEMMA TookAnswer ==
  ASSUME Typed, NEW r \in Requests, NEW i, Took(r, i)
  PROVE  i \in Requests /\ invitations[i] # Nil /\ pc[r] = "done"
BY InvitedUser DEF Took, Typed, MatchOf

LEMMA AnswersOfOthers ==
  ASSUME Typed, [Next]_vars, NEW q \in Requests, AnswersOf(q),
         /\ pc'[q] = pc[q] /\ answer'[q] = answer[q] /\ call'[q] = call[q] /\ since'[q] = since[q]
  PROVE  AnswersOf(q)'
<1>1. since[q].done \subseteq Requests
  BY DEF Typed, TypeOK
<1>2. since'[q].expired \subseteq expired'
  BY InvitationsKept DEF AnswersOf
<1>3. \A p \in since[q].done : pc'[p] = "done" /\ answer'[p] = answer[p] /\ call'[p] = call[p]
  BY <1>1, DoneStays DEF AnswersOf
<1>4. \A i \in Requests : Took(q, i)' => status'[i] # "pending"
  BY TookAnswer, StatusChanges DEF Took, AnswersOf
<1> QED
  BY <1>2, <1>3, <1>4 DEF AnswersOf, MayTake, Took

LEMMA AnswersOfActor ==
  ASSUME Typed, Answers, [Next]_vars, NEW r \in Requests, HandlerSteps(r)
  PROVE  AnswersOf(r)'
<1>1. CASE Begin(r)
  <2>1. answer[r] = "none" /\ expired' = expired
    BY <1>1, NotAnswered, ActsAlone DEF Begin
  <2>2. /\ since' = [since EXCEPT ![r] = [groups |-> Len(groups), expired |-> expired,
                                          done |-> {q \in Requests : pc[q] = "done"}]]
        /\ answer' = answer
    BY <1>1 DEF Begin, Goto
  <2>3. since'[r].expired = expired /\ since'[r].done = {q \in Requests : pc[q] = "done"}
    BY <2>2 DEF Typed, TypeOK
  <2>4. \A q \in since'[r].done : pc'[q] = "done"
    BY <2>3, DoneStays
  <2>5. PICK c \in Calls : Goto(r, FirstStep(c.op))
    BY <1>1 DEF Begin
  <2>6. pc'[r] \in {"delete", "remove", "invitation", "group"}
    BY <2>5, CallFields DEF FirstStep, Goto, Typed, TypeOK
  <2> QED
    BY <2>1, <2>2, <2>3, <2>4, <2>6 DEF AnswersOf, Took, MayTake
<1>2. CASE ~Begin(r)
  <2>1. /\ pc[r] \notin {"idle", "done"} /\ call' = call /\ since' = since /\ expired' = expired
        /\ answer[r] = "none" /\ AnswersOf(r) /\ MatchOf(r)
    BY <1>2, ActsAlone, NotAnswered DEF Answers, Typed
  <2>2. since'[r].expired \subseteq expired'
    BY <2>1 DEF AnswersOf
  <2>3. /\ since[r].done \subseteq Requests
        /\ \A q \in since[r].done : pc[q] = "done"
    BY <2>1 DEF AnswersOf, Typed, TypeOK
  <2>4. \A q \in since'[r].done : pc'[q] = "done" /\ answer'[q] = answer[q] /\ call'[q] = call[q]
    BY <2>1, <2>3, DoneStays
  <2>5. MayTake(r)' => /\ call[r].invitation \notin since[r].expired
                       /\ \A q \in since[r].done : ~Took(q, call[r].invitation)
    <3>1. CASE RespondReads(r)
      <4>1. call[r].op = "respond" /\ call[r].invitation \in Requests
        BY <2>1, <3>1, InvitedUser DEF RespondReads, MatchOf, RespondPlaces
      <4>2. CASE status[call[r].invitation] = "pending" /\ call[r].invitation \notin expired
        <5>1. \A q \in since[r].done : ~Took(q, call[r].invitation)
          BY <2>3, <4>1, <4>2 DEF Answers, AnswersOf
        <5> QED
          BY <2>1, <4>2, <5>1 DEF AnswersOf
      <4>3. CASE ~(status[call[r].invitation] = "pending" /\ call[r].invitation \notin expired)
        BY <2>1, <3>1, <4>3 DEF RespondReads, MayTake, Goto, Return, Typed, TypeOK
      <4> QED
        BY <4>2, <4>3
    <3>2. CASE RespondChecksMember(r) \/ RespondAddsMember(r) \/ RespondUpdates(r)
      <4>1. CASE pc[r] = "expire"
        BY <2>1, <3>2, <4>1 DEF RespondChecksMember, RespondAddsMember, RespondUpdates, MayTake, Return,
                               Typed, TypeOK
      <4>2. CASE pc[r] \in {"member", "join", "accept", "reject"}
        BY <2>1, <4>2 DEF AnswersOf, MayTake, MatchOf, RespondPlaces
      <4> QED
        BY <3>2, <4>1, <4>2 DEF RespondChecksMember, RespondAddsMember, RespondUpdates
    <3>3. CASE Change(r) \/ Invite(r)
      BY <2>1, <3>3 DEF Change, UpdateReads, UpdateWrites, DeleteGroup, AddChecksGroup, ChecksGroup,
         AddInserts, RemoveMember, Invite, InviteChecksGroup, InviteChecksInviter, InviteInserts, At, MayTake
    <3>4. CASE Fail(r)
      BY <2>1, <3>4 DEF Fail, Return, MayTake, Typed, TypeOK
    <3> QED
      BY <1>2, <3>1, <3>2, <3>3, <3>4 DEF HandlerSteps, Step, Respond
  <2>6. \A i \in Requests : Took(r, i)' => status'[i] # "pending"
    <3>1. SUFFICES ASSUME NEW i \in Requests, Took(r, i)'
                   PROVE  status'[i] # "pending"
      OBVIOUS
    <3>2. answer'[r] = "OK" /\ call[r].op = "respond" /\ call[r].invitation = i
      BY <2>1, <3>1 DEF Took
    <3>3. CASE RespondUpdates(r)
      BY <3>2, <3>3 DEF RespondUpdates, Typed, TypeOK
    <3>4. CASE RespondReads(r) \/ RespondChecksMember(r) \/ RespondAddsMember(r) \/ Fail(r)
      BY <2>1, <3>2, <3>4 DEF RespondReads, RespondChecksMember, RespondAddsMember, Fail, Goto, Return,
                              Typed, TypeOK
    <3>5. CASE Change(r) \/ Invite(r)
      BY <2>1, <3>2, <3>5 DEF Change, UpdateReads, UpdateWrites, DeleteGroup, AddChecksGroup, ChecksGroup,
         AddInserts, RemoveMember, Invite, InviteChecksGroup, InviteChecksInviter, InviteInserts, At,
         MatchOf, RespondPlaces
    <3> QED
      BY <1>2, <3>3, <3>4, <3>5 DEF HandlerSteps, Step, Respond
  <2> QED
    BY <2>1, <2>2, <2>4, <2>5, <2>6 DEF AnswersOf, Took
<1> QED
  BY <1>1, <1>2

LEMMA InitAnswers == Init => Answers
BY DEF Init, Answers, AnswersOf, Took, MayTake

LEMMA NextAnswers ==
  ASSUME Typed, Answers, [Next]_vars
  PROVE  Answers'
<1>1. ASSUME NEW q \in Requests
      PROVE  AnswersOf(q)'
  <2>1. AnswersOf(q)
    BY DEF Answers
  <2>2. ASSUME NEW r \in Requests, HandlerSteps(r)
        PROVE  AnswersOf(q)'
    <3>1. CASE q = r
      BY <2>2, <3>1, AnswersOfActor
    <3>2. CASE q # r
      BY <2>1, <2>2, <3>2, ActsAlone, AnswersOfOthers
    <3> QED
      BY <3>1, <3>2
  <2>3. CASE \/ \E u \in Users : CreateGroup(u)
             \/ \E i \in Requests : Expire(i)
             \/ UNCHANGED vars
    <3>1. UNCHANGED <<call, pc, since, answer>>
      BY <2>3, OthersActNot
    <3> QED
      BY <2>1, <3>1, AnswersOfOthers
  <2> QED
    BY <2>2, <2>3 DEF Next, HandlerSteps
<1> QED
  BY <1>1 DEF Answers

\* Of answers that follow one another only the first is taken, and none that
\* begins after the invitation's time (ErrInvitationNotPending,
\* ErrInvitationExpired), however the statements of RespondInvitation interleave.
THEOREM AnsweredOnceAndInTimeHolds == Spec => []AnsweredOnceAndInTime
<1>1. Typed /\ Answers /\ [Next]_vars => Answers'
  BY NextAnswers
<1> QED
  BY <1>1, TypedHolds, InitAnswers, AnswersSuffice, PTL DEF Spec

-----------------------------------------------------------------------------
(* The group is a group of the directory.                                  *)

LEMMA InitDirectory == Init => Directory!Init
BY DEF Init, Directory!Init, Group

LEMMA StepDirectory ==
  ASSUME Typed, [Next]_vars
  PROVE  [Directory!Next]_Group
<1> USE DEF Directory!Next, Directory!Roles
<1>1. TypeOK /\ Group.role \in [Users -> Roles]
  BY TypedCurrent DEF Typed
<1>2. CASE groups' = groups
  BY <1>2 DEF Group
<1>3. CASE Opens
  <2>1. PICK u \in Users : Become([role |-> [Group.role EXCEPT ![u] = "owner"], status |-> "active"])
    BY <1>3 DEF Opens
  <2>2. [role |-> [Group.role EXCEPT ![u] = "owner"], status |-> "active"] \in GroupState
    BY <1>1 DEF GroupState, Roles
  <2>3. Group' = [role |-> [Group.role EXCEPT ![u] = "owner"], status |-> "active"]
    BY <1>1, <2>1, <2>2, BecomeTyped
  <2>4. Directory!Found(u)
    BY <1>3, <2>3 DEF Opens, Directory!Found
  <2> QED
    BY <2>4
<1>4. CASE Turns
  <2>1. PICK s \in {"active", "inactive", "deleted"} : Become([Group EXCEPT !.status = s])
    BY <1>4 DEF Turns
  <2>2. Group' = [Group EXCEPT !.status = s]
    BY <1>1, <2>1, NewStates, BecomeTyped
  <2>3. Directory!ChangeStatus(s)
    BY <1>4, <2>2 DEF Turns, Exists, Directory!ChangeStatus
  <2> QED
    BY <2>3
<1>5. CASE Joins
  <2>1. PICK u \in Users, role \in Roles \ {"none"} :
          ~IsMember(u) /\ Become([Group EXCEPT !.role[u] = role])
    BY <1>5 DEF Joins
  <2>2. Group' = [Group EXCEPT !.role[u] = role]
    BY <1>1, <2>1, NewStates, BecomeTyped
  <2>3. Directory!Join(u, role)
    BY <1>5, <2>1, <2>2 DEF Joins, IsMember, Directory!Join
  <2> QED
    BY <2>3 DEF Roles
<1>6. CASE Leaves
  <2>1. PICK u \in Users : IsMember(u) /\ Become([Group EXCEPT !.role[u] = "none"])
    BY <1>6 DEF Leaves
  <2>2. Group' = [Group EXCEPT !.role[u] = "none"]
    BY <1>1, <2>1, NewStates, BecomeTyped DEF Roles
  <2>3. Directory!Leave(u)
    BY <2>1, <2>2 DEF IsMember, Directory!Leave
  <2> QED
    BY <2>3
<1> QED
  BY <1>2, <1>3, <1>4, <1>5, <1>6, GroupChanges

\* group-service implements module GroupDirectory, which is what
\* transaction-service is modelled against: members come and go one at a time,
\* no role changes in place, and a deleted group stays deleted.
THEOREM ImplementsDirectory == Spec => DirectorySpec
<1>1. Typed /\ [Next]_vars => [Directory!Next]_Group
  BY StepDirectory
<1> QED
  BY <1>1, TypedHolds, InitDirectory, PTL DEF Spec, DirectorySpec, Directory!Spec

=============================================================================
