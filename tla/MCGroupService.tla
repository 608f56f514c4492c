--------------------------- MODULE MCGroupService ---------------------------
(***************************************************************************)
(* Instances of GroupService: ann founds the group, bob is let in.         *)
(***************************************************************************)
EXTENDS GroupService, TLC

CONSTANTS ann, bob, r1, r2, r3, trip, home

MCCalls ==
  {[op |-> "update", name |-> trip, active |-> Nil],
   [op |-> "update", name |-> Nil, active |-> FALSE],
   [op |-> "update", name |-> Nil, active |-> TRUE],
   [op |-> "delete"],
   [op |-> "add", user |-> bob, role |-> "owner"],
   [op |-> "invite", by |-> ann, user |-> bob, role |-> "member", expires |-> TRUE]}
    \cup {[op |-> "remove", user |-> u] : u \in {ann, bob}}
    \cup {[op |-> "respond", invitation |-> i, accepted |-> a] : i \in Requests, a \in BOOLEAN}

RequestSymmetry == Permutations(Requests)

=============================================================================
