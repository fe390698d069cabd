------------------------------- MODULE Merge -------------------------------
(***************************************************************************)
(* How operations combine (src/merge.rs) and what a reader sees of the     *)
(* result (materialize_entity of src/store.rs).                            *)
(*                                                                         *)
(* A MergeState maps an entity and a field to the winning op.  It is a set *)
(* of ops here, with at most one op per (entity, field).                   *)
(***************************************************************************)
EXTENDS Eavc

IsPurge(op) == op.field = PURGE /\ op.value = JTrue

\* (value JSON, user) compared as a tuple.
ContentAfter(new, old) ==
  \/ new.value > old.value
  \/ new.value = old.value /\ new.user > old.user

\* Mutant: last writer wins on _purge too.
WinsPlain(new, old) ==
  new.tx > old.tx \/ (new.tx = old.tx /\ ContentAfter(new, old))

\* Mutant: an exact tie keeps whichever op came first.
WinsFirstCome(new, old) ==
  IF new.field = PURGE /\ IsPurge(new) # IsPurge(old)
    THEN IsPurge(new)
    ELSE new.tx > old.tx

\* Does new beat old, for two ops on the same entity and field?
Wins(new, old) ==
  IF new.field = PURGE /\ IsPurge(new) # IsPurge(old)
    THEN IsPurge(new)
    ELSE \/ new.tx > old.tx
         \/ new.tx = old.tx /\ ContentAfter(new, old)

Facts(S, e) == {o \in S : o.ent = e}

Purged(S, e) == \E o \in Facts(S, e) : IsPurge(o)

\* Mutant: a purged entity accepts fields again.
ApplyRevives(S, op) ==
  LET old == {o \in Facts(S, op.ent) : o.field = op.field}
  IN  IF \E o \in old : ~Wins(op, o)
        THEN S
        ELSE (S \ (IF IsPurge(op) /\ ~Purged(S, op.ent) THEN Facts(S, op.ent) ELSE old))
             \cup {op}

\* Mutant: the op that arrives last replaces the fact.
ApplyLastArrival(S, op) ==
  IF Purged(S, op.ent) /\ op.field # PURGE
    THEN S
    ELSE {o \in S : o.ent # op.ent \/ (o.field # op.field /\ ~IsPurge(op))} \cup {op}

\* Mutant: the fact that lost is kept beside the winner.
ApplyKeepsLoser(S, op) ==
  IF \/ Purged(S, op.ent) /\ op.field # PURGE
     \/ \E o \in Facts(S, op.ent) : o.field = op.field /\ ~Wins(op, o)
    THEN S
    ELSE (S \ (IF IsPurge(op) THEN Facts(S, op.ent) ELSE {})) \cup {op}

\* One op merged into a state.
Apply(S, op) ==
  LET facts  == Facts(S, op.ent)
      old    == {o \in facts : o.field = op.field}
      purged == Purged(S, op.ent)
  IN  IF \/ purged /\ op.field # PURGE
         \/ \E o \in old : ~Wins(op, o)
        THEN S
        ELSE (S \ (IF IsPurge(op) /\ ~purged THEN facts ELSE old)) \cup {op}

-----------------------------------------------------------------------------
(***************************************************************************)
(* What applying a whole set of ops yields, stated without an order: the   *)
(* ops nothing in the set supersedes.  MergeState checks, and              *)
(* MergeStateProofs proves, that Apply reaches exactly this, one op at a   *)
(* time and in every order; the modules about files and sessions merge     *)
(* whole files with it.                                                    *)
(***************************************************************************)
Supersedes(p, o) ==
  /\ p.ent = o.ent
  /\ IF p.field = o.field THEN Wins(p, o) ELSE IsPurge(p)

Covers(S, o) == \E p \in S : p = o \/ Supersedes(p, o)

Winners(O) == {o \in O : \A p \in O : ~Supersedes(p, o)}

\* Mutant: a field that already has a value keeps it.
MergeOldest(S, O) ==
  S \cup {o \in Winners(O) : \A p \in S : p.ent # o.ent \/ p.field # o.field}

MergeOps(S, O) == Winners(S \cup O)

-----------------------------------------------------------------------------
(***************************************************************************)
(* The entity a caller is shown.  A field written after the delete revives *)
(* the entity (auto-restore).                                              *)
(***************************************************************************)
\* Mutant: a field of the delete's own transaction revives the entity.
MaterializeStrict(S, e) ==
  LET data    == {o \in Facts(S, e) : o.field \in DataField}
      deletes == {o \in Facts(S, e) : o.field = DELETED /\ o.value = JTrue}
  IN  [exists  |-> Facts(S, e) # {},
       fields  |-> {<<o.field, o.value>> : o \in data},
       deleted |-> \E d \in deletes : \A o \in data : o.tx < d.tx,
       purged  |-> Purged(S, e)]

Materialize(S, e) ==
  LET data    == {o \in Facts(S, e) : o.field \in DataField}
      deletes == {o \in Facts(S, e) : o.field = DELETED /\ o.value = JTrue}
  IN  [exists  |-> Facts(S, e) # {},
       fields  |-> {<<o.field, o.value>> : o \in data},
       deleted |-> \E d \in deletes : \A o \in data : o.tx <= d.tx,
       purged  |-> Purged(S, e)]

\* Store::get_including_deleted returns an entity.
Visible(S, e) == LET m == Materialize(S, e) IN m.exists /\ ~m.purged

=============================================================================
