------------------------------ MODULE MCTyped ------------------------------
(***************************************************************************)
(* Typed for TLC: the structs of MCRecords, and every declaration of a     *)
(* struct with short names.                                                *)
(***************************************************************************)
EXTENDS Typed, MCRecords, MCDeriveRecord

=============================================================================
