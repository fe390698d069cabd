-------------------------------- MODULE Eavc --------------------------------
(***************************************************************************)
(* The data of the system (src/eavc.rs): an operation says that one        *)
(* transaction gave one field of one entity a value.                       *)
(*                                                                         *)
(* An entity stands for the pair (tbl, id).  A transaction id, a value and *)
(* a user are only ever compared, so each is a number: a tx is the ULID,   *)
(* a value the rank of its canonical JSON text, a user the rank of the     *)
(* name.  The op type C/U/D and every layout detail of the wire are left   *)
(* out: no decision of the program reads them.                             *)
(***************************************************************************)
EXTENDS Integers, Sequences, FiniteSets

CONSTANTS
  Entity,     \* the (tbl, id) pairs
  DataField,  \* field names that do not start with an underscore
  MaxTx,      \* the largest transaction id (2^128 - 1 in the program)
  MaxVal,     \* the largest rank of a value's JSON text
  MaxUser,    \* the largest rank of a user name
  JTrue       \* the rank of the JSON text `true`

PURGE   == "_purge"
DELETED == "_deleted"

Field == DataField \cup {PURGE, DELETED}
Tx    == 0 .. MaxTx
Value == 0 .. MaxVal
User  == 0 .. MaxUser

ASSUME EavcAssumption ==
  /\ MaxTx \in Nat /\ MaxVal \in Nat /\ MaxUser \in Nat
  /\ JTrue \in Value
  /\ PURGE \notin DataField /\ DELETED \notin DataField

Op == [tx : Tx, ent : Entity, field : Field, value : Value, user : User]

\* The fields of one call, in the order the caller gave them: a field may
\* be repeated.
FieldList == Seq(Field \X Value)

(***************************************************************************)
(* The ops of one transaction on one entity: all share tx, and of a        *)
(* repeated field the last value is kept.                                  *)
(***************************************************************************)
Transaction(tx, ent, fields, user) ==
  {[tx |-> tx, ent |-> ent, field |-> fields[i][1], value |-> fields[i][2],
    user |-> user] :
      i \in {j \in DOMAIN fields :
               \A k \in DOMAIN fields : k > j => fields[k][1] # fields[j][1]}}

=============================================================================
