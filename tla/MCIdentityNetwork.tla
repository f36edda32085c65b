------------------------ MODULE MCIdentityNetwork ------------------------
(* Small instances of IdentityNetwork for TLC. *)
EXTENDS IdentityNetwork
=============================================================================
