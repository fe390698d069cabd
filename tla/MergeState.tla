----------------------------- MODULE MergeState -----------------------------
(***************************************************************************)
(* One MergeState fed one op at a time.  Files arrive late, twice or in    *)
(* any order, and a compacted file holds an arbitrary part of what was     *)
(* written, so the next op applied may be any op at all.                   *)
(***************************************************************************)
EXTENDS Merge, FiniteSetsExt

CONSTANT MaxOps     \* bound: how many different ops one behaviour applies

ASSUME MaxOpsAssumption == MaxOps \in Nat

VARIABLES
  seen,    \* history: every op applied so far
  state    \* MergeState.entities

vars == <<seen, state>>

Init ==
  /\ seen = {}
  /\ state = {}

\* MergeState::apply, for a new op or one applied before.
Receive(op) ==
  /\ Cardinality(seen \cup {op}) <= MaxOps
  /\ seen' = seen \cup {op}
  /\ state' = Apply(state, op)

Next == \E op \in Op : Receive(op)

Spec == Init /\ [][Next]_vars

-----------------------------------------------------------------------------
\* Every op is well formed, and a (entity, field) key has at most one winner.
TypeOK ==
  /\ seen \subseteq Op
  /\ state \subseteq Op
  /\ \A o, p \in state : o.ent = p.ent /\ o.field = p.field => o = p

(***************************************************************************)
(* The merged state is a function of the set of ops, whatever the order    *)
(* and the repetitions: two replicas that saw the same ops agree           *)
(* (README.md "same final state").                                         *)
(***************************************************************************)
OrderIndependent == state = Winners(seen)

(***************************************************************************)
(* What the conformance oracle of the tests computes from scratch          *)
(* (tests/common/mod.rs `oracle`): plain last-writer-wins on every field,  *)
(* an entity with any purge is gone, a strictly newer data field undoes a  *)
(* delete.  It knows neither the purge exception of Wins nor the fields    *)
(* Apply drops.                                                            *)
(***************************************************************************)
Oracle(O, e) ==
  LET facts   == Facts(O, e)
      After(p, o) ==
        p.tx > o.tx \/ (p.tx = o.tx /\ ContentAfter(p, o))
      last    == {o \in facts : \A p \in facts : p.field = o.field => ~After(p, o)}
      data    == {o \in last : o.field \in DataField}
      deletes == {o \in last : o.field = DELETED /\ o.value = JTrue}
  IN  IF facts = {} \/ (\E o \in facts : IsPurge(o))
        THEN [shown |-> FALSE, deleted |-> FALSE, fields |-> {}]
        ELSE [shown |-> TRUE,
              deleted |-> deletes # {} /\ ~ \E d \in deletes, o \in data : o.tx > d.tx,
              fields |-> {<<o.field, o.value>> : o \in data}]

\* What Store::get_including_deleted answers, in the oracle's shape.
Shown(S, e) ==
  LET m == Materialize(S, e)
  IN  IF Visible(S, e)
        THEN [shown |-> TRUE, deleted |-> m.deleted, fields |-> m.fields]
        ELSE [shown |-> FALSE, deleted |-> FALSE, fields |-> {}]

\* Every entity reads as the oracle says it must, auto-restore and purge
\* included, though the state forgot every op that lost.
ReadsLikeOracle == \A e \in Entity : Shown(state, e) = Oracle(seen, e)

(***************************************************************************)
(* Compaction is a pure optimisation (wal.rs `compact`): whichever part of *)
(* the ops a compactor saw, and whatever it dropped of them, merging its   *)
(* output with the ops it did not see yields the state of a reader that    *)
(* saw every op.                                                           *)
(***************************************************************************)
Folded(O) == FoldSet(LAMBDA op, S : Apply(S, op), {}, O)

CompactionTransparent ==
  \A A \in SUBSET seen : Folded(Folded(A) \cup (seen \ A)) = state

(***************************************************************************)
(* Once an entity is purged no op, however new, brings a field of it back. *)
(***************************************************************************)
PurgeIsFinal ==
  [][\A e \in Entity :
       Purged(state, e) =>
         /\ Purged(state', e)
         /\ \A o \in Facts(state', e) : o.field = PURGE]_vars

(***************************************************************************)
(* A winning fact leaves the state only for a fact that supersedes it: no  *)
(* sequence of ops makes the state fall back to an older value.            *)
(***************************************************************************)
FactsOnlyAdvance == [][\A o \in state : Covers(state', o)]_vars

=============================================================================
