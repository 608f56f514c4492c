----------------------------- MODULE MCDeployment -----------------------------
(***************************************************************************)
(* An instance of Deployment: all four processes.                          *)
(***************************************************************************)
EXTENDS Deployment

=============================================================================
