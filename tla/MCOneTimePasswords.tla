------------------------- MODULE MCOneTimePasswords -------------------------
(***************************************************************************)
(* Instances of OneTimePasswords and of AuthRouter, whose limits are what  *)
(* stands between a client and the guesses it may make.  A behaviour is of *)
(* one of the two; the other is as it was at the start.                    *)
(***************************************************************************)
EXTENDS OneTimePasswords, AuthRouter

CONSTANTS r1, r2, r3, r4, old, new

\* A guess at a registration is wrong when another request has replaced its
\* password; one at a reset may be wrong from the start.
MCCalls ==
  {[op |-> "register", password |-> p] : p \in Passwords}
    \cup {[op |-> "forgot"]}
    \cup {[op |-> "verify", otp |-> o] : o \in Requests}
    \cup {[op |-> "reset", otp |-> o, password |-> new] : o \in Requests \cup {Wrong}}

RequestSymmetry == Permutations(Requests \ {First})

VARIABLE part

RegistrationInit == part \in {"passwords", "limits"} /\ Init /\ DoorInit

RegistrationNext ==
  \/ part = "passwords" /\ Next /\ UNCHANGED <<part, doorVars>>
  \/ part = "limits" /\ DoorNext /\ UNCHANGED <<part, vars>>

RegistrationSpec == RegistrationInit /\ [][RegistrationNext]_<<part, vars, doorVars>>

=============================================================================
