--------------------------- MODULE GroupDirectory ---------------------------
(***************************************************************************)
(* What the other services may rely on of a group in group-service: who is *)
(* in it and whether it is open.  A group starts with one owner; people    *)
(* come and go one at a time, whatever the group's status; a role is never *)
(* changed in place; a group that is deleted stays deleted.                *)
(*                                                                         *)
(* These are the changes TransactionService assumes (ChangeGroup there).   *)
(***************************************************************************)
CONSTANT Users

VARIABLE group   \* [role, status]

Roles == {"owner", "member", "none"}

Init == group = [role |-> [u \in Users |-> "none"], status |-> "absent"]

Found(u) ==
  /\ group.status = "absent"
  /\ group' = [role |-> [group.role EXCEPT ![u] = "owner"], status |-> "active"]

Join(u, role) ==
  /\ group.status # "absent"
  /\ group.role[u] = "none" /\ role # "none"
  /\ group' = [group EXCEPT !.role[u] = role]

Leave(u) ==
  /\ group.role[u] # "none"
  /\ group' = [group EXCEPT !.role[u] = "none"]

ChangeStatus(status) ==
  /\ group.status \in {"active", "inactive"}
  /\ group' = [group EXCEPT !.status = status]

Next ==
  \/ \E u \in Users : Found(u) \/ Leave(u) \/ \E role \in Roles : Join(u, role)
  \/ \E status \in {"active", "inactive", "deleted"} : ChangeStatus(status)

Spec == Init /\ [][Next]_group

=============================================================================
