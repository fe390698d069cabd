---------------------------- MODULE MergeProofs ----------------------------
(***************************************************************************)
(* Lemmas about the merge operators, for every set of entities, fields,    *)
(* transaction ids, values and users.                                      *)
(***************************************************************************)
EXTENDS Merge, WellFoundedInduction, TLAPS

-----------------------------------------------------------------------------
(* Supersedes is a strict partial order on ops, total on every key.        *)

(* No op supersedes itself, so applying an op twice changes nothing
   (merge.rs `wins`). *)
LEMMA SupersedesIrreflexive ==
  ASSUME NEW o \in Op
  PROVE  ~Supersedes(o, o)
  BY EavcAssumption DEF Supersedes, Wins, ContentAfter, Op, Tx, Value, User

(* Between two ops of one key, `wins` never prefers both, and a chain of
   wins is a win: the winner does not depend on who is compared first. *)
LEMMA SupersedesTransitive ==
  ASSUME NEW a \in Op, NEW b \in Op, NEW c \in Op,
         Supersedes(a, b), Supersedes(b, c)
  PROVE  Supersedes(a, c)
<1> USE EavcAssumption DEF Op, Tx, Value, User
<1>1. a.ent = b.ent /\ b.ent = c.ent
  BY DEF Supersedes
<1>2. CASE a.field # b.field
  <2>1. IsPurge(a) /\ a.field = PURGE
    BY <1>2 DEF Supersedes, IsPurge
  <2>2. c.field # PURGE
    BY <1>2, <2>1 DEF Supersedes, Wins, IsPurge
  <2> QED
    BY <1>1, <2>1, <2>2 DEF Supersedes
<1>3. CASE a.field = b.field /\ b.field # c.field
  <2>1. IsPurge(b) /\ a.field = PURGE
    BY <1>3 DEF Supersedes, IsPurge
  <2>2. IsPurge(a)
    BY <1>3, <2>1 DEF Supersedes, Wins
  <2> QED
    BY <1>1, <1>3, <2>2 DEF Supersedes
<1>4. CASE a.field = b.field /\ b.field = c.field
  <2>1. Wins(a, b) /\ Wins(b, c)
    BY <1>4 DEF Supersedes
  <2>2. a.tx \in Int /\ b.tx \in Int /\ c.tx \in Int
    OBVIOUS
  <2>3. a.value \in Int /\ b.value \in Int /\ c.value \in Int
    OBVIOUS
  <2>4. a.user \in Int /\ b.user \in Int /\ c.user \in Int
    OBVIOUS
  <2>5. /\ IsPurge(a) \in BOOLEAN /\ IsPurge(b) \in BOOLEAN /\ IsPurge(c) \in BOOLEAN
    BY DEF IsPurge
  <2>6. Wins(a, c)
    BY ONLY <1>4, <2>1, <2>2, <2>3, <2>4, <2>5 DEF Wins, ContentAfter
  <2> QED
    BY <1>1, <1>4, <2>6 DEF Supersedes
<1> QED
  BY <1>2, <1>3, <1>4

(* Two different ops of one key never tie, not even two writers that used
   the same tx (merge.rs `wins`, the fallback on content). *)
LEMMA SupersedesTotal ==
  ASSUME NEW a \in Op, NEW b \in Op,
         a.ent = b.ent, a.field = b.field, a # b
  PROVE  Supersedes(a, b) \/ Supersedes(b, a)
<1> USE EavcAssumption DEF Op, Tx, Value, User
<1>1. \/ a.tx # b.tx
      \/ a.value # b.value
      \/ a.user # b.user
  OBVIOUS
<1>2. Wins(a, b) \/ Wins(b, a)
  BY <1>1 DEF Wins, ContentAfter, IsPurge
<1> QED
  BY <1>2 DEF Supersedes

-----------------------------------------------------------------------------
(* What covers what.                                                       *)

(* If every op of S is covered by T then T covers whatever S covers: it is
   safe to replace one file by another that covers it. *)
LEMMA CoversTransitive ==
  ASSUME NEW S \in SUBSET Op, NEW T \in SUBSET Op, NEW o \in Op,
         Covers(S, o), \A p \in S : Covers(T, p)
  PROVE  Covers(T, o)
<1>1. PICK p \in S : p = o \/ Supersedes(p, o)
  BY DEF Covers
<1>2. PICK q \in T : q = p \/ Supersedes(q, p)
  BY DEF Covers
<1>3. q = o \/ Supersedes(q, o)
  BY <1>1, <1>2, SupersedesTransitive
<1> QED
  BY <1>3 DEF Covers

(* More ops cover no less. *)
LEMMA CoversMonotone ==
  ASSUME NEW S, NEW T, NEW o, S \subseteq T, Covers(S, o)
  PROVE  Covers(T, o)
  BY DEF Covers

(* A set covers its members. *)
LEMMA MemberCovers ==
  ASSUME NEW S, NEW o \in S
  PROVE  Covers(S, o)
  BY DEF Covers

-----------------------------------------------------------------------------
(***************************************************************************)
(* S is the merge of O: part of O, covering O, and with no fact in it that *)
(* another supersedes.  There is only one such S, and Apply keeps it.      *)
(***************************************************************************)
IsMergeOf(S, O) ==
  /\ S \subseteq O
  /\ \A o \in O : Covers(S, o)
  /\ \A p, o \in S : ~Supersedes(p, o)

(* A set of ops has no other merge than its winners. *)
LEMMA MergeUnique ==
  ASSUME NEW O \in SUBSET Op, NEW S, IsMergeOf(S, O)
  PROVE  S = Winners(O)
<1>1. ASSUME NEW o \in S
      PROVE  o \in Winners(O)
  <2>1. SUFFICES ASSUME NEW p \in O, Supersedes(p, o)
                 PROVE  FALSE
    BY <1>1 DEF Winners, IsMergeOf
  <2>2. PICK q \in S : q = p \/ Supersedes(q, p)
    BY DEF IsMergeOf, Covers
  <2>3. Supersedes(q, o)
    BY <2>1, <2>2, SupersedesTransitive DEF IsMergeOf
  <2> QED
    BY <2>3 DEF IsMergeOf
<1>2. ASSUME NEW o \in Winners(O)
      PROVE  o \in S
  <2>1. PICK p \in S : p = o \/ Supersedes(p, o)
    BY DEF IsMergeOf, Covers, Winners
  <2> QED
    BY <2>1 DEF Winners, IsMergeOf
<1> QED
  BY <1>1, <1>2

(* One step of `MergeState::apply` turns the merge of O into the merge of
   O with the op, in each of its branches: dropped because the entity is
   purged, dropped because an older fact wins, inserted, inserted and the
   other fields stripped. *)
LEMMA ApplyKeepsMerge ==
  ASSUME NEW O \in SUBSET Op, NEW S, IsMergeOf(S, O), NEW op \in Op
  PROVE  IsMergeOf(Apply(S, op), O \cup {op})
<1> DEFINE facts   == Facts(S, op.ent)
           old     == {o \in facts : o.field = op.field}
           purged  == Purged(S, op.ent)
           removed == IF IsPurge(op) /\ ~purged THEN facts ELSE old
           drop    == \/ purged /\ op.field # PURGE
                      \/ \E o \in old : ~Wins(op, o)
<1>1. /\ S \subseteq O /\ S \subseteq Op
      /\ \A o \in O : Covers(S, o)
      /\ \A p, o \in S : ~Supersedes(p, o)
  BY DEF IsMergeOf
<1>2. CASE drop
  <2>1. Apply(S, op) = S
    BY <1>2 DEF Apply
  <2>2. Covers(S, op)
    <3>1. CASE purged /\ op.field # PURGE
      <4>1. PICK p \in S : p.ent = op.ent /\ IsPurge(p)
        BY <3>1 DEF Purged, Facts
      <4>2. p.field # op.field
        BY <3>1, <4>1 DEF IsPurge
      <4> QED
        BY <4>1, <4>2 DEF Covers, Supersedes
    <3>2. CASE \E o \in old : ~Wins(op, o)
      <4>1. PICK o \in S : o.ent = op.ent /\ o.field = op.field /\ ~Wins(op, o)
        BY <3>2 DEF Facts
      <4>2. ~Supersedes(op, o)
        BY <4>1 DEF Supersedes
      <4>3. o = op \/ Supersedes(o, op)
        BY <1>1, <4>1, <4>2, SupersedesTotal
      <4> QED
        BY <4>3 DEF Covers
    <3> QED
      BY <1>2, <3>1, <3>2
  <2> QED
    BY <1>1, <2>1, <2>2 DEF IsMergeOf
<1>3. CASE ~drop
  <2> DEFINE kept == S \ removed
  <2>1. Apply(S, op) = kept \cup {op}
    BY <1>3 DEF Apply
  <2>2. \A x \in old : Wins(op, x)
    BY <1>3
  <2>3. \A x \in removed : Supersedes(op, x)
    BY <2>2 DEF Facts, Supersedes
  <2>4. ASSUME NEW o \in O \cup {op}
        PROVE  Covers(kept \cup {op}, o)
    <3>1. CASE o = op
      BY <3>1 DEF Covers
    <3>2. CASE o \in O
      <4>1. PICK q \in S : q = o \/ Supersedes(q, o)
        BY <1>1, <3>2 DEF Covers
      <4>2. CASE q \in kept
        BY <4>1, <4>2 DEF Covers
      <4>3. CASE q \in removed
        <5>1. Supersedes(op, q)
          BY <2>3, <4>3
        <5>2. Supersedes(op, o)
          BY <1>1, <3>2, <4>1, <5>1, SupersedesTransitive
        <5> QED
          BY <5>2 DEF Covers
      <4> QED
        BY <4>2, <4>3
    <3> QED
      BY <3>1, <3>2
  <2>5. ASSUME NEW x \in kept
        PROVE  ~Supersedes(op, x)
    <3>1. CASE x.ent = op.ent /\ x.field # op.field
      <4>1. SUFFICES ASSUME IsPurge(op)
                     PROVE  FALSE
        BY <3>1 DEF Supersedes
      <4>2. purged
        BY <3>1, <4>1 DEF Facts
      <4>3. PICK r \in S : r.ent = op.ent /\ IsPurge(r)
        BY <4>2 DEF Purged, Facts
      <4>4. Supersedes(r, x)
        BY <3>1, <4>1, <4>3 DEF Supersedes, IsPurge
      <4> QED
        BY <1>1, <4>4
    <3>2. CASE x.ent = op.ent /\ x.field = op.field
      <4>1. x \in old /\ x \in facts
        BY <3>2 DEF Facts
      <4> QED
        BY <4>1
    <3> QED
      BY <3>1, <3>2 DEF Supersedes
  <2>6. ASSUME NEW x \in kept
        PROVE  ~Supersedes(x, op)
    <3>1. CASE x.ent = op.ent /\ x.field # op.field
      <4>1. SUFFICES ASSUME IsPurge(x)
                     PROVE  FALSE
        BY <3>1 DEF Supersedes
      <4>2. purged /\ op.field # PURGE
        BY <3>1, <4>1 DEF Purged, Facts, IsPurge
      <4> QED
        BY <1>3, <4>2
    <3>2. CASE x.ent = op.ent /\ x.field = op.field
      <4>1. x \in old /\ x \in facts
        BY <3>2 DEF Facts
      <4> QED
        BY <4>1
    <3> QED
      BY <3>1, <3>2 DEF Supersedes
  <2>7. ~Supersedes(op, op)
    BY SupersedesIrreflexive
  <2>8. \A p, o \in kept \cup {op} : ~Supersedes(p, o)
    BY <1>1, <2>5, <2>6, <2>7
  <2> HIDE DEF kept
  <2>9. kept \subseteq O
    BY <1>1 DEF kept
  <2> QED
    BY <2>1, <2>4, <2>8, <2>9 DEF IsMergeOf
<1> QED
  BY <1>2, <1>3

(* The same, as an equation: applying an op to what the ops of O left is
   what the ops of O and the new one leave. *)
THEOREM ApplyWinners ==
  ASSUME NEW O \in SUBSET Op, NEW S, IsMergeOf(S, O), NEW op \in Op
  PROVE  Apply(S, op) = Winners(O \cup {op})
<1>1. IsMergeOf(Apply(S, op), O \cup {op})
  BY ApplyKeepsMerge
<1>2. O \cup {op} \in SUBSET Op
  OBVIOUS
<1> QED
  BY <1>1, <1>2, MergeUnique

-----------------------------------------------------------------------------
(***************************************************************************)
(* Winners(O) exists for every set of ops: the ids, values and users are   *)
(* bounded, so above every op of O there is one that nothing supersedes.   *)
(***************************************************************************)
LEMMA GreatestNat ==
  ASSUME NEW T \in SUBSET Nat, T # {}, NEW b \in Nat, \A x \in T : x <= b
  PROVE  \E m \in T : \A x \in T : x <= m
<1> DEFINE R   == {b - x : x \in T}
           Rel == {ss \in Nat \X Nat : ss[1] < ss[2]}
<1>1. R \subseteq Nat /\ R # {}
  <2>1. \A x \in T : b - x \in Nat
    OBVIOUS
  <2>2. R \subseteq Nat
    BY <2>1, Zenon
  <2> QED
    BY <2>2, Zenon
<1>2. IsWellFoundedOn(Rel, Nat)
  BY NatLessThanWellFounded DEF OpToRel
<1> HIDE DEF R, Rel
<1>3. PICK y \in R : \A z \in R : ~(<<z, y>> \in Rel)
  BY ONLY <1>1, <1>2, WFMin
<1>4. \A z \in R : ~(z < y)
  BY <1>1, <1>3 DEF Rel
<1>5. PICK m \in T : y = b - m
  BY Zenon DEF R
<1>6. ASSUME NEW x \in T
      PROVE  x <= m
  <2>1. b - x \in R
    BY Zenon DEF R
  <2> QED
    BY <1>4, <1>5, <2>1
<1> QED
  BY <1>6

(* The order among ops of one key that are purges alike. *)
Later(q, m) == q.tx > m.tx \/ (q.tx = m.tx /\ ContentAfter(q, m))

(* Among finitely many transaction ids, values and users one op is latest. *)
LEMMA LatestExists ==
  ASSUME NEW P \in SUBSET Op, P # {}
  PROVE  \E m \in P : \A q \in P : ~Later(q, m)
<1> USE EavcAssumption
<1>1. \A o \in P : /\ o.tx \in Nat /\ o.tx <= MaxTx
                   /\ o.value \in Nat /\ o.value <= MaxVal
                   /\ o.user \in Nat /\ o.user <= MaxUser
  BY DEF Op, Tx, Value, User
<1> DEFINE TxOf(Q) == {o.tx : o \in Q}
           ValueOf(Q) == {o.value : o \in Q}
           UserOf(Q) == {o.user : o \in Q}
<1>2. PICK a \in P : \A o \in P : o.tx <= a.tx
  <2>1. TxOf(P) \in SUBSET Nat /\ TxOf(P) # {} /\ \A x \in TxOf(P) : x <= MaxTx
    BY <1>1, Zenon
  <2>2. PICK m \in TxOf(P) : \A x \in TxOf(P) : x <= m
    BY <2>1, GreatestNat
  <2> QED
    BY <2>2, Zenon
<1> DEFINE A == {o \in P : o.tx = a.tx}
<1>3. PICK b \in A : \A o \in A : o.value <= b.value
  <2>1. ValueOf(A) \in SUBSET Nat /\ ValueOf(A) # {} /\ \A x \in ValueOf(A) : x <= MaxVal
    BY <1>1, Zenon
  <2>2. PICK m \in ValueOf(A) : \A x \in ValueOf(A) : x <= m
    BY <2>1, GreatestNat
  <2> QED
    BY <2>2, Zenon
<1> DEFINE B == {o \in A : o.value = b.value}
<1>4. PICK c \in B : \A o \in B : o.user <= c.user
  <2>1. UserOf(B) \in SUBSET Nat /\ UserOf(B) # {} /\ \A x \in UserOf(B) : x <= MaxUser
    BY <1>1, Zenon
  <2>2. PICK m \in UserOf(B) : \A x \in UserOf(B) : x <= m
    BY <2>1, GreatestNat
  <2> QED
    BY <2>2, Zenon
<1>5. ASSUME NEW q \in P
      PROVE  ~Later(q, c)
  <2>1. c \in P /\ c.tx = a.tx /\ c.value = b.value
    OBVIOUS
  <2>2. q.tx <= c.tx
    BY <1>2, <2>1
  <2>3. q.tx = c.tx => q.value <= c.value
    BY <1>3, <2>1
  <2>4. q.tx = c.tx /\ q.value = c.value => q.user <= c.user
    BY <1>4, <2>1
  <2> HIDE DEF A, B
  <2> QED
    BY <1>1, <2>1, <2>2, <2>3, <2>4 DEF Later, ContentAfter
<1> QED
  BY <1>5

(* Every op of a set is covered by a winner of it. *)
LEMMA WinnersIsMerge ==
  ASSUME NEW O \in SUBSET Op
  PROVE  IsMergeOf(Winners(O), O)
<1>1. ASSUME NEW o \in O
      PROVE  Covers(Winners(O), o)
  <2> DEFINE purges == {p \in O : p.ent = o.ent /\ IsPurge(p)}
             sameKey == {p \in O : p.ent = o.ent /\ p.field = o.field}
  <2>1. CASE purges # {}
    <3>1. PICK m \in purges : \A q \in purges : ~Later(q, m)
      BY <2>1, LatestExists
    <3>2. m \in O /\ m \in Op /\ m.ent = o.ent /\ IsPurge(m) /\ m.field = PURGE
      BY <3>1 DEF IsPurge
    <3>3. ASSUME NEW q \in O, Supersedes(q, m)
          PROVE  FALSE
      <4>1. q.ent = o.ent /\ IsPurge(q)
        BY <3>2, <3>3 DEF Supersedes, Wins, IsPurge
      <4>2. q.field = m.field
        BY <3>2, <4>1 DEF IsPurge
      <4>3. Later(q, m)
        BY <3>2, <3>3, <4>1, <4>2 DEF Supersedes, Wins, Later
      <4> QED
        BY <3>1, <4>1, <4>3
    <3>4. m \in Winners(O)
      BY <3>2, <3>3 DEF Winners
    <3>5. m = o \/ Supersedes(m, o)
      <4>1. CASE m.field = o.field
        BY <3>2, <3>3, <4>1, SupersedesTotal
      <4>2. CASE m.field # o.field
        BY <3>2, <4>2 DEF Supersedes
      <4> QED
        BY <4>1, <4>2
    <3> QED
      BY <3>4, <3>5 DEF Covers
  <2>2. CASE purges = {}
    <3>1. PICK m \in sameKey : \A q \in sameKey : ~Later(q, m)
      BY LatestExists
    <3>2. m \in O /\ m \in Op /\ m.ent = o.ent /\ m.field = o.field /\ ~IsPurge(m)
      BY <2>2, <3>1
    <3>3. ASSUME NEW q \in O, Supersedes(q, m)
          PROVE  FALSE
      <4>1. q.ent = o.ent /\ ~IsPurge(q)
        BY <2>2, <3>2, <3>3 DEF Supersedes
      <4>2. q.field = m.field /\ Wins(q, m)
        BY <3>3, <4>1 DEF Supersedes
      <4>3. Later(q, m)
        BY <3>2, <4>1, <4>2 DEF Wins, Later
      <4> QED
        BY <3>1, <3>2, <4>1, <4>2, <4>3
    <3>4. m \in Winners(O)
      BY <3>2, <3>3 DEF Winners
    <3>5. m = o \/ Supersedes(m, o)
      BY <3>2, <3>3, SupersedesTotal
    <3> QED
      BY <3>4, <3>5 DEF Covers
  <2> QED
    BY <2>1, <2>2
<1>2. /\ Winners(O) \subseteq O
      /\ \A p, o \in Winners(O) : ~Supersedes(p, o)
  BY DEF Winners
<1> QED
  BY <1>1, <1>2 DEF IsMergeOf

(* No merge loses an op for good: whatever is left out of the merge is
   superseded by something in it (merge.rs `into_ops`, the ops a compact
   file carries). *)
COROLLARY WinnersCover ==
  ASSUME NEW O \in SUBSET Op, NEW o \in O
  PROVE  Covers(Winners(O), o)
  BY WinnersIsMerge DEF IsMergeOf

(***************************************************************************)
(* Compaction is transparent (README.md "Compaction produces exactly the   *)
(* same materialized state as reading all source files"): replacing part   *)
(* of the ops by their merge does not change what a reader of everything   *)
(* ends with.                                                              *)
(***************************************************************************)
THEOREM CompactionTransparency ==
  ASSUME NEW A \in SUBSET Op, NEW B \in SUBSET Op
  PROVE  Winners(Winners(A) \cup B) = Winners(A \cup B)
<1> DEFINE O == Winners(A) \cup B
<1>1. O \in SUBSET Op /\ O \subseteq A \cup B
  BY DEF Winners
<1>2. IsMergeOf(Winners(O), O)
  BY <1>1, WinnersIsMerge
<1>3. ASSUME NEW o \in A \cup B
      PROVE  Covers(Winners(O), o)
  <2>1. Covers(O, o)
    <3>1. CASE o \in A
      BY <3>1, WinnersCover, CoversMonotone, Winners(A) \subseteq O
    <3>2. CASE o \in B
      BY <3>2, MemberCovers
    <3> QED
      BY <3>1, <3>2
  <2>2. \A p \in O : Covers(Winners(O), p)
    BY <1>2 DEF IsMergeOf
  <2> QED
    BY <1>1, <2>1, <2>2, CoversTransitive, Winners(O) \in SUBSET Op DEF Winners
<1>4. IsMergeOf(Winners(O), A \cup B)
  BY <1>1, <1>2, <1>3 DEF IsMergeOf
<1> QED
  BY <1>4, MergeUnique

-----------------------------------------------------------------------------
(* MergeOps.                                                               *)

(* A merge is made of ops. *)
LEMMA MergeOpsType ==
  ASSUME NEW S \in SUBSET Op, NEW O \in SUBSET Op
  PROVE  MergeOps(S, O) \in SUBSET Op
  BY DEF MergeOps, Winners

(* A merge covers every op merged (merge.rs `apply`). *)
LEMMA MergeOpsCover ==
  ASSUME NEW S \in SUBSET Op, NEW O \in SUBSET Op, NEW o \in S \cup O
  PROVE  Covers(MergeOps(S, O), o)
  BY WinnersCover DEF MergeOps

(* What one set of ops or the other covers, their merge covers. *)
LEMMA MergeKeepsCover ==
  ASSUME NEW S \in SUBSET Op, NEW O \in SUBSET Op, NEW o \in Op, Covers(S \cup O, o)
  PROVE  Covers(MergeOps(S, O), o)
<1>1. S \cup O \in SUBSET Op /\ MergeOps(S, O) \in SUBSET Op
  BY MergeOpsType
<1>2. \A p \in S \cup O : Covers(MergeOps(S, O), p)
  BY MergeOpsCover
<1> QED
  BY <1>1, <1>2, CoversTransitive

(* A merge covers what it covered before. *)
LEMMA MergeCoversMore ==
  ASSUME NEW S \in SUBSET Op, NEW O \in SUBSET Op, NEW o \in Op, Covers(S, o)
  PROVE  Covers(MergeOps(S, O), o)
<1>1. Covers(S \cup O, o)
  BY CoversMonotone, S \subseteq S \cup O
<1> QED
  BY <1>1, MergeKeepsCover

(* A merge invents nothing, and none of its facts supersedes another. *)
LEMMA MergeIsMinimal ==
  ASSUME NEW S, NEW O
  PROVE  /\ MergeOps(S, O) \subseteq S \cup O
         /\ \A p, o \in MergeOps(S, O) : ~Supersedes(p, o)
  BY DEF MergeOps, Winners

(* Sets of ops of which the second covers the first merge to what the
   second merges to. *)
LEMMA CoveredAddsNothing ==
  ASSUME NEW A \in SUBSET Op, NEW B \in SUBSET Op, \A o \in A : Covers(B, o)
  PROVE  Winners(B) = MergeOps(Winners(A), B)
<1>1. /\ A \cup B \in SUBSET Op /\ Winners(B) \in SUBSET Op
      /\ \A o \in B : Covers(Winners(B), o)
  BY WinnersCover DEF Winners
<1>2. \A o \in A \cup B : Covers(Winners(B), o)
  BY <1>1, CoversTransitive
<1>3. IsMergeOf(Winners(B), A \cup B)
  BY <1>2 DEF IsMergeOf, Winners
<1>4. Winners(B) = Winners(A \cup B)
  BY <1>1, <1>3, MergeUnique
<1> QED
  BY <1>4, CompactionTransparency DEF MergeOps

=============================================================================
