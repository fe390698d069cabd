------------------------------ MODULE MCFaults ------------------------------
(***************************************************************************)
(* Walburg for TLC, with a look into its files.                            *)
(***************************************************************************)
EXTENDS MCWalburg, TornFiles

=============================================================================
