--------------------------- MODULE MCEmailDelivery ---------------------------
(***************************************************************************)
(* Instances of EmailDelivery.                                             *)
(***************************************************************************)
EXTENDS EmailDelivery

CONSTANTS m1, junk

=============================================================================
