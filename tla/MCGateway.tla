------------------------------ MODULE MCGateway ------------------------------
(***************************************************************************)
(* Instances of Gateway: a browser with two tabs, and an app.              *)
(***************************************************************************)
EXTENDS Gateway

CONSTANTS browser, app, tab1, tab2, slot, alice

MCClientOf == [t \in Tabs |-> IF t = slot THEN app ELSE browser]
MCCalls ==
  [c \in Clients |->
     IF c = app THEN {"MobileLogin", "MobileRefresh"}
     ELSE {"CSRF", "Login", "RefreshToken", "Logout", "ChangePassword", "CreateMenu"}]

MCInterventions == {[role |-> "user", active |-> TRUE], [role |-> "admin", active |-> FALSE]}

\* A menu is refused because a field of it is not valid.
MCRefusals == [auth |-> {"Validation"}, group |-> {}, transaction |-> {}]

MCLogins == <<[client |-> browser, user |-> alice]>>

\* The tabs of the browser are alike.
TabSymmetry == Permutations({tab1, tab2})

=============================================================================
