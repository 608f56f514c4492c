---------------------------- MODULE GroupService ----------------------------
(***************************************************************************)
(* One group in group-service: the group's row, its members and its        *)
(* invitations, and the handlers that change them.  Apart from CreateGroup *)
(* no handler uses a transaction, so every statement is an action of its   *)
(* own, and other handlers run in between.                                 *)
(*                                                                         *)
(* groups is a history of members and status, as in TransactionService.    *)
(***************************************************************************)
EXTENDS Integers, Sequences

CONSTANTS
  Users,
  Requests,    \* requests; an invitation has the name of the one that made it
  Names,       \* names a group may have
  Calls,       \* the calls that may be made
  MaxChanges,  \* bound on the changes of members and status
  Nil

Roles == {"owner", "member", "none"}

GroupState == [role : [Users -> Roles], status : {"absent", "active", "inactive", "deleted"}]

Invitation == [user : Users, role : Roles \ {"none"}, expires : BOOLEAN]

\* The row as UpdateGroup writes it.
Row == [name : Names, active : BOOLEAN]

\* An optional field of UpdateGroup that is left out is Nil.
Call ==
  [op : {"update"}, name : Names \cup {Nil}, active : BOOLEAN \cup {Nil}]
    \cup [op : {"delete"}]
    \cup [op : {"add"}, user : Users, role : Roles \ {"none"}]
    \cup [op : {"remove"}, user : Users]
    \cup [op : {"invite"}, by : Users, user : Users, role : Roles \ {"none"}, expires : BOOLEAN]
    \cup [op : {"respond"}, invitation : Requests, accepted : BOOLEAN]

ASSUME CallsAssumption ==
  /\ Calls \subseteq Call
  /\ Nil \notin Call \cup Invitation \cup Row \cup Names \cup BOOLEAN
  /\ MaxChanges \in Nat

VARIABLES
  groups,       \* the group's members and status so far, the current state last
  name,         \* the group's name
  invitations,  \* the invitations ever made
  status,       \* and what has become of them
  expired,      \* the invitations whose time has passed
  call,         \* the call each request makes
  pc,           \* where its handler is
  draft,        \* the row UpdateGroup is about to write
  since,        \* what had happened when it began
  answer        \* its result

vars == <<groups, name, invitations, status, expired, call, pc, draft, since, answer>>

Group == groups[Len(groups)]

Exists == Group.status \in {"active", "inactive"}

IsMember(u) == Group.role[u] # "none"

Init ==
  /\ groups = <<[role |-> [u \in Users |-> "none"], status |-> "absent"]>>
  /\ name \in Names
  /\ invitations = [r \in Requests |-> Nil]
  /\ status = [r \in Requests |-> "none"]
  /\ expired = {}
  /\ call = [r \in Requests |-> Nil]
  /\ pc = [r \in Requests |-> "idle"]
  /\ draft = [r \in Requests |-> Nil]
  /\ since = [r \in Requests |-> [groups |-> 1, expired |-> {}, done |-> {}]]
  /\ answer = [r \in Requests |-> "none"]

rest == <<name, invitations, status, expired>>
stores == <<groups, rest>>
locals == <<call, draft, since>>

Goto(r, next) == pc' = [pc EXCEPT ![r] = next] /\ UNCHANGED answer

Return(r, result) ==
  /\ pc' = [pc EXCEPT ![r] = "done"]
  /\ answer' = [answer EXCEPT ![r] = result]

\* A statement was carried out; the connection may be lost before it is known.
Acknowledged(r) == Return(r, "OK") \/ Return(r, "Internal")

Room == Len(groups) <= MaxChanges

\* A change of members or status commits.
Become(state) == Room /\ groups' = Append(groups, state)

-----------------------------------------------------------------------------
\* CreateGroup: the group and its owner in one transaction.
CreateGroup(u) ==
  /\ Group.status = "absent"
  /\ Become([role |-> [Group.role EXCEPT ![u] = "owner"], status |-> "active"])
  /\ UNCHANGED <<rest, call, pc, draft, since, answer>>

FirstStep(op) ==
  CASE op = "delete"              -> "delete"
    [] op = "remove"              -> "remove"
    [] op = "respond"             -> "invitation"
    [] op \in {"update", "add", "invite"} -> "group"

Begin(r) ==
  /\ pc[r] = "idle"
  /\ \E c \in Calls :
       /\ c.op = "respond" => invitations[c.invitation] # Nil
       /\ call' = [call EXCEPT ![r] = c]
       /\ Goto(r, FirstStep(c.op))
  /\ since' = [since EXCEPT ![r] = [groups |-> Len(groups), expired |-> expired,
                                    done |-> {q \in Requests : pc[q] = "done"}]]
  /\ UNCHANGED <<stores, draft>>

At(r, op, step) == pc[r] = step /\ call[r].op = op

-----------------------------------------------------------------------------
(* UpdateGroup: read, change, write the whole row back.                    *)

Changed(field, value) == IF field = Nil THEN value ELSE field

UpdateReads(r) ==
  /\ At(r, "update", "group")
  /\ \/ ~Exists /\ Return(r, "NotFound") /\ UNCHANGED draft
     \/ /\ Exists
        /\ draft' = [draft EXCEPT ![r] =
             [name   |-> Changed(call[r].name, name),
              active |-> Changed(call[r].active, Group.status = "active")]]
        /\ Goto(r, "write")
  /\ UNCHANGED <<stores, call, since>>

\* Slip: the row may be a deleted one.
UpdateWrites_Revives(r) ==
  /\ At(r, "update", "write")
  /\ Become([Group EXCEPT !.status = IF draft[r].active THEN "active" ELSE "inactive"])
  /\ name' = draft[r].name
  /\ Return(r, "OK")
  /\ UNCHANGED <<invitations, status, expired, locals>>

UpdateWrites(r) ==
  /\ At(r, "update", "write")
  /\ \/ ~Exists /\ Return(r, "NotFound") /\ UNCHANGED stores
     \/ /\ Exists
        /\ Become([Group EXCEPT !.status = IF draft[r].active THEN "active" ELSE "inactive"])
        /\ name' = draft[r].name
        /\ Acknowledged(r)
        /\ UNCHANGED <<invitations, status, expired>>
  /\ UNCHANGED locals

\* SoftDeleteGroup: one statement.
DeleteGroup(r) ==
  /\ At(r, "delete", "delete")
  /\ \/ ~Exists /\ Return(r, "NotFound") /\ UNCHANGED groups
     \/ Exists /\ Become([Group EXCEPT !.status = "deleted"]) /\ Acknowledged(r)
  /\ UNCHANGED <<rest, locals>>

-----------------------------------------------------------------------------
(* AddMember, RemoveMember.                                                *)

\* GetGroup, for AddMember and for InviteMember: only an open group will do.
ChecksGroup(r, op, next) ==
  /\ At(r, op, "group")
  /\ \/ ~Exists /\ Return(r, "NotFound")
     \/ Group.status = "inactive" /\ Return(r, "GroupInactive")
     \/ Group.status = "active" /\ Goto(r, next)
  /\ UNCHANGED <<stores, locals>>

AddChecksGroup(r) == ChecksGroup(r, "add", "insert")

\* INSERT INTO group_members, whose key is the group and the user.
InsertMember(u, role) == ~IsMember(u) /\ Become([Group EXCEPT !.role[u] = role])

AddInserts(r) ==
  /\ At(r, "add", "insert")
  /\ \/ InsertMember(call[r].user, call[r].role) /\ Acknowledged(r)
     \/ IsMember(call[r].user) /\ Return(r, "Conflict") /\ UNCHANGED groups
  /\ UNCHANGED <<rest, locals>>

\* One statement.  Anybody can be removed, the last owner too.
RemoveMember(r) ==
  /\ At(r, "remove", "remove")
  /\ LET u == call[r].user
     IN  \/ ~IsMember(u) /\ Return(r, "NotFound") /\ UNCHANGED groups
         \/ IsMember(u) /\ Become([Group EXCEPT !.role[u] = "none"]) /\ Acknowledged(r)
  /\ UNCHANGED <<rest, locals>>

-----------------------------------------------------------------------------
(* InviteMember.                                                           *)

InviteChecksGroup(r) == ChecksGroup(r, "invite", "inviter")

\* GetMember(invitedBy).
InviteChecksInviter(r) ==
  /\ At(r, "invite", "inviter")
  /\ \/ ~IsMember(call[r].by) /\ Return(r, "Forbidden")
     \/ IsMember(call[r].by) /\ Goto(r, "insert")
  /\ UNCHANGED <<stores, locals>>

InviteInserts(r) ==
  /\ At(r, "invite", "insert")
  /\ invitations' = [invitations EXCEPT ![r] =
       [user |-> call[r].user, role |-> call[r].role, expires |-> call[r].expires]]
  /\ status' = [status EXCEPT ![r] = "pending"]
  /\ Acknowledged(r)
  /\ UNCHANGED <<groups, name, expired, locals>>

-----------------------------------------------------------------------------
(* RespondInvitation.                                                      *)

Invited(r) == invitations[call[r].invitation]

\* Slip: an invitation can be answered again.
RespondReads_AnyStatus(r) ==
  /\ pc[r] = "invitation"
  /\ LET i == call[r].invitation
     IN  \/ i \in expired /\ Goto(r, "expire")
         \/ i \notin expired /\ Goto(r, IF call[r].accepted THEN "member" ELSE "reject")
  /\ UNCHANGED <<stores, locals>>

\* GetInvitation: only a pending one can be answered, and in time.
RespondReads(r) ==
  /\ pc[r] = "invitation"
  /\ LET i == call[r].invitation
     IN  \/ status[i] # "pending" /\ Return(r, "NotPending")
         \/ status[i] = "pending" /\ i \in expired /\ Goto(r, "expire")
         \/ /\ status[i] = "pending" /\ i \notin expired
            /\ Goto(r, IF call[r].accepted THEN "member" ELSE "reject")
  /\ UNCHANGED <<stores, locals>>

\* Slip: nobody is entered.
RespondChecksMember_Only(r) ==
  /\ pc[r] = "member"
  /\ Goto(r, "accept")
  /\ UNCHANGED <<stores, locals>>

\* An invited user may be a member by now.
RespondChecksMember(r) ==
  /\ pc[r] = "member"
  /\ Goto(r, IF IsMember(Invited(r).user) THEN "accept" ELSE "join")
  /\ UNCHANGED <<stores, locals>>

\* AddMember, in whatever state the group is; a conflict is as good.
RespondAddsMember(r) ==
  /\ pc[r] = "join"
  /\ \/ InsertMember(Invited(r).user, Invited(r).role)
     \/ IsMember(Invited(r).user) /\ UNCHANGED groups
  /\ Goto(r, "accept")
  /\ UNCHANGED <<rest, locals>>

\* UpdateInvitation, whatever the invitation's status is by now.
RespondUpdates(r) ==
  /\ pc[r] \in {"accept", "reject", "expire"}
  /\ LET result == CASE pc[r] = "accept" -> "accepted"
                     [] pc[r] = "reject" -> "rejected"
                     [] pc[r] = "expire" -> "expired"
     IN  /\ status' = [status EXCEPT ![call[r].invitation] = result]
         /\ IF result = "expired" THEN Return(r, "Expired") ELSE Acknowledged(r)
  /\ UNCHANGED <<groups, name, invitations, expired, locals>>

-----------------------------------------------------------------------------
(* What else happens.                                                      *)

\* A statement is not carried out, the request is cancelled or the process dies.
Fail(r) ==
  /\ pc[r] \notin {"idle", "done"}
  /\ Return(r, "Internal")
  /\ UNCHANGED <<stores, locals>>

\* The time of an invitation passes.
Expire(i) ==
  /\ invitations[i] # Nil /\ invitations[i].expires
  /\ i \notin expired
  /\ expired' = expired \cup {i}
  /\ UNCHANGED <<groups, name, invitations, status, call, pc, draft, since, answer>>

Change(r) ==
  \/ UpdateReads(r)
  \/ UpdateWrites(r)
  \/ DeleteGroup(r)
  \/ AddChecksGroup(r)
  \/ AddInserts(r)
  \/ RemoveMember(r)

Invite(r) == InviteChecksGroup(r) \/ InviteChecksInviter(r) \/ InviteInserts(r)

Respond(r) ==
  \/ RespondReads(r)
  \/ RespondChecksMember(r)
  \/ RespondAddsMember(r)
  \/ RespondUpdates(r)

Step(r) == Change(r) \/ Invite(r) \/ Respond(r)

Next ==
  \/ \E u \in Users : CreateGroup(u)
  \/ \E r \in Requests : Begin(r) \/ Step(r) \/ Fail(r) \/ Expire(r)

Spec == Init /\ [][Next]_vars

-----------------------------------------------------------------------------
(* Properties.                                                             *)

\* A status belongs to an invitation that was made, and only such expire.
TypeOK ==
  /\ groups \in Seq(GroupState) \ {<<>>}
  /\ name \in Names
  /\ invitations \in [Requests -> Invitation \cup {Nil}]
  /\ status \in [Requests -> {"none", "pending", "accepted", "rejected", "expired"}]
  /\ \A i \in Requests : status[i] = "none" <=> invitations[i] = Nil
  /\ expired \subseteq {i \in Requests : invitations[i] # Nil}
  /\ \A i \in Requests : status[i] = "expired" => i \in expired
  /\ call \in [Requests -> Calls \cup {Nil}]
  /\ pc \in [Requests -> {"idle", "group", "write", "delete", "insert", "remove", "inviter",
                         "invitation", "member", "join", "accept", "reject", "expire", "done"}]
  /\ draft \in [Requests -> Row \cup {Nil}]
  /\ since \in [Requests -> [groups : Nat \ {0}, expired : SUBSET Requests,
                            done : SUBSET Requests]]
  /\ answer \in [Requests -> {"none", "OK", "NotFound", "GroupInactive", "Conflict", "Forbidden",
                             "NotPending", "Expired", "Internal"}]

\* At some moment of request r so far ...
GroupWas(r, Condition(_)) ==
  \E k \in since[r].groups..Len(groups) : Condition(groups[k])

\* People are entered and invited only into a group that was open, and invited
\* only by a member, at some moment of the request; and whoever is told that
\* an invitation was accepted was a member at some moment of the answer, even
\* if somebody else entered or removed them meanwhile.
OutcomesWereDue ==
  \A r \in Requests :
    answer[r] = "OK" =>
      /\ call[r].op \in {"add", "invite"} => GroupWas(r, LAMBDA g : g.status = "active")
      /\ call[r].op = "invite" => GroupWas(r, LAMBDA g : g.role[call[r].by] # "none")
      /\ call[r].op = "respond" /\ call[r].accepted =>
           GroupWas(r, LAMBDA g : g.role[Invited(r).user] # "none")

\* ErrInvitationNotPending, ErrInvitationExpired: of the answers given to an
\* invitation one after another only the first is taken, and none that comes
\* after its time.  (Answers that overlap may both be taken, and the last to
\* be written stands.)
AnsweredOnceAndInTime ==
  \A r \in Requests :
    answer[r] = "OK" /\ call[r].op = "respond" =>
      /\ call[r].invitation \notin since[r].expired
      /\ \A q \in since[r].done :
           call[q].op = "respond" /\ call[q].invitation = call[r].invitation
             => answer[q] # "OK"

\* The members and the status of a group change as module GroupDirectory says,
\* which is what transaction-service is modelled against.
Directory == INSTANCE GroupDirectory WITH group <- Group

DirectorySpec == Directory!Spec

=============================================================================
