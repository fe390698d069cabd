------------------------------- MODULE Typed -------------------------------
(***************************************************************************)
(* The typed layer: a struct is compiled, and only then do sessions keep   *)
(* records of the application's structs.                                   *)
(***************************************************************************)
EXTENDS Records, DeriveRecord

TypedInit == Init /\ InitDerive

TypedNext ==
  \/ Expand /\ UNCHANGED vars
  \/ declared = {} /\ Next /\ UNCHANGED declared

TypedSpec == TypedInit /\ [][TypedNext]_<<vars, declared>>

=============================================================================
