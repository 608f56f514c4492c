----------------------------- MODULE MCMenuTree -----------------------------
(***************************************************************************)
(* Instances of MenuTree and of SigningKeys, which share nothing but the   *)
(* service.  A behaviour is of one of the two; the other is as it was at   *)
(* the start.                                                              *)
(***************************************************************************)
EXTENDS MenuTree, SigningKeys, TLC

CONSTANTS r1, r2, r3, m1, m2, m3, x

\* m1 is above m2.
MCParent == (m1 :> Nil) @@ (m2 :> m1) @@ (m3 :> Nil)

Update(m) == [op |-> "update", id |-> m, code |-> Keep, route |-> Keep, parent |-> Keep]

\* Moves of every seed, one under itself, a rename to a taken and to a free code, a route taken
\* away, creates with and without a route, and deletes of everything.
MCCalls ==
  {[Update(m[1]) EXCEPT !.parent = m[2]] :
     m \in (Seeds \X Seeds \cup {<<m2, Nil>>}) \ {<<m2, m2>>, <<m3, m3>>}}
    \cup {[Update(m3) EXCEPT !.code = c] : c \in {m2, x}}
    \cup {[Update(m) EXCEPT !.route = Nil] : m \in {m1, m3}}
    \cup {[op |-> "create", code |-> x, route |-> x, parent |-> p] : p \in {m2} \cup Requests}
    \cup {[op |-> "create", code |-> m3, route |-> Nil, parent |-> Nil]}
    \cup {[op |-> "delete", id |-> m] : m \in Ids}

RequestSymmetry == Permutations(Requests)

VARIABLE part

AuthInit ==
  /\ part \in {"menus", "keys"} /\ Init /\ KeyInit
  /\ part = "menus" => \A path \in Paths : public[path] = FirstKey

AuthNext ==
  \/ part = "menus" /\ Next /\ UNCHANGED <<part, keyVars>>
  \/ part = "keys" /\ KeyNext /\ UNCHANGED <<part, vars>>

AuthSpec == AuthInit /\ [][AuthNext]_<<part, vars, keyVars>>

=============================================================================
