--------------------------- MODULE MCProviderLogin ---------------------------
(***************************************************************************)
(* The login manager on small instances.                                   *)
(***************************************************************************)
EXTENDS ProviderLogin, TLC

=============================================================================
