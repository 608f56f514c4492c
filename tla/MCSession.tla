------------------------------ MODULE MCSession ------------------------------
(***************************************************************************)
(* Instances of Session.                                                   *)
(***************************************************************************)
EXTENDS Session, TLC

CONSTANTS r1, r2, r3, old, new

MCCalls ==
  {[op |-> "login", password |-> old], [op |-> "access", token |-> 1],
   [op |-> "change", token |-> 1, password |-> old, next |-> new]}
    \cup {[op |-> "refresh", token |-> j] : j \in 1..3}
    \cup {[op |-> "logout", refresh |-> p[1], access |-> p[2]] :
            p \in {<<1, 0>>, <<0, 1>>, <<1, 2>>}}

RequestSymmetry == Permutations(Requests)

=============================================================================
