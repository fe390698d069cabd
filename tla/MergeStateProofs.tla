-------------------------- MODULE MergeStateProofs --------------------------
(***************************************************************************)
(* The properties of MergeState for every set of entities, fields, ids,    *)
(* values and users, and for behaviours of any length.                     *)
(***************************************************************************)
EXTENDS MergeState, MergeProofs, FiniteSetTheorems

(***************************************************************************)
(* The inductive invariant: the state is the merge of what was seen.       *)
(* OrderIndependent alone says as much, but the parts of IsMergeOf are     *)
(* what a step preserves and what the other properties follow from.        *)
(***************************************************************************)
MergedState ==
  /\ seen \subseteq Op
  /\ IsMergeOf(state, seen)

(* Nothing was applied. *)
LEMMA MergedStateInit == Init => MergedState
  BY DEF Init, MergedState, IsMergeOf

(* One more op applied, whichever it is. *)
LEMMA MergedStateNext ==
  ASSUME MergedState, [Next]_vars
  PROVE  MergedState'
<1>1. ASSUME NEW op \in Op, Receive(op)
      PROVE  MergedState'
  <2>1. seen' = seen \cup {op} /\ state' = Apply(state, op)
    BY <1>1 DEF Receive
  <2>2. IsMergeOf(state', seen')
    BY <2>1, ApplyKeepsMerge DEF MergedState
  <2> QED
    BY <2>1, <2>2 DEF MergedState
<1>2. ASSUME UNCHANGED vars
      PROVE  MergedState'
  BY <1>2 DEF MergedState, vars
<1> QED
  BY <1>1, <1>2 DEF Next

(* The state is the merge of what was applied. *)
LEMMA MergedStateAlways == Spec => []MergedState
  BY MergedStateInit, MergedStateNext, PTL DEF Spec

-----------------------------------------------------------------------------
(* At most one winning op per (entity, field), as the HashMap of
   MergeState has at most one entry. *)
THEOREM TypeCorrect == Spec => []TypeOK
<1>1. ASSUME MergedState
      PROVE  TypeOK
  <2>1. seen \subseteq Op /\ state \subseteq Op
    BY <1>1 DEF MergedState, IsMergeOf
  <2>2. ASSUME NEW o \in state, NEW p \in state,
               o.ent = p.ent, o.field = p.field
        PROVE  o = p
    BY <1>1, <2>1, <2>2, SupersedesTotal DEF MergedState, IsMergeOf
  <2> QED
    BY <2>1, <2>2 DEF TypeOK
<1> QED
  BY <1>1, MergedStateAlways, PTL

(* The state depends on the set of ops applied and on nothing else: not on
   the order of the files, nor on how often an op was applied. *)
THEOREM StateIsOrderIndependent == Spec => []OrderIndependent
<1>1. ASSUME MergedState
      PROVE  OrderIndependent
  BY <1>1, MergeUnique DEF MergedState, OrderIndependent
<1> QED
  BY <1>1, MergedStateAlways, PTL

(* A fact is only ever replaced by one that supersedes it. *)
THEOREM StateOnlyAdvances == Spec => FactsOnlyAdvance
<1>1. ASSUME MergedState, [Next]_vars
      PROVE  [\A o \in state : Covers(state', o)]_vars
  <2>1. ASSUME NEW op \in Op, Receive(op), NEW o \in state
        PROVE  Covers(state', o)
    <3>1. IsMergeOf(state', seen \cup {op})
      BY <1>1, <2>1, ApplyKeepsMerge DEF MergedState, Receive
    <3>2. o \in seen
      BY <1>1, <2>1 DEF MergedState, IsMergeOf
    <3> QED
      BY <3>1, <3>2 DEF IsMergeOf
  <2> QED
    BY <1>1, <2>1 DEF Next
<1> QED
  BY <1>1, MergedStateAlways, PTL DEF Spec, FactsOnlyAdvance

(* Purge is irreversible whatever is applied afterwards: the entity stays
   purged and keeps no fact but its tombstone. *)
THEOREM PurgeIsIrreversible == Spec => PurgeIsFinal
<1> DEFINE Final == \A e \in Entity :
                      Purged(state, e) =>
                        /\ Purged(state', e)
                        /\ \A o \in Facts(state', e) : o.field = PURGE
<1>1. ASSUME MergedState, [Next]_vars
      PROVE  [Final]_vars
  <2>1. ASSUME NEW op \in Op, Receive(op), NEW e \in Entity, Purged(state, e)
        PROVE  /\ Purged(state', e)
               /\ \A o \in Facts(state', e) : o.field = PURGE
    <3>1. IsMergeOf(state', seen \cup {op})
      BY <1>1, <2>1, ApplyKeepsMerge DEF MergedState, Receive
    <3>2. PICK p \in state : p.ent = e /\ IsPurge(p)
      BY <2>1 DEF Purged, Facts
    <3>3. Covers(state', p)
      BY <1>1, <3>1, <3>2 DEF MergedState, IsMergeOf
    <3>4. PICK q \in state' : q = p \/ Supersedes(q, p)
      BY <3>3 DEF Covers
    <3>5. q.ent = e /\ IsPurge(q)
      BY <3>2, <3>4 DEF Supersedes, Wins, IsPurge
    <3>6. ASSUME NEW o \in Facts(state', e), o.field # PURGE
          PROVE  FALSE
      <4>1. Supersedes(q, o)
        BY <3>5, <3>6 DEF Supersedes, IsPurge, Facts
      <4> QED
        BY <3>1, <3>4, <4>1, <3>6 DEF IsMergeOf, Facts
    <3> QED
      BY <3>4, <3>5, <3>6 DEF Purged, Facts
  <2> QED
    BY <1>1, <2>1 DEF Next
<1> QED
  BY <1>1, MergedStateAlways, PTL DEF Spec, PurgeIsFinal

-----------------------------------------------------------------------------
(* What a reader is shown (ReadsLikeOracle).                               *)

(* An op of one field of an entity that nobody purged wins as the oracle
   compares: the later one, and between equals the greater content. *)
LEMMA WinsLikeOracle ==
  ASSUME NEW p \in Op, NEW o \in Op, p.ent = o.ent, ~IsPurge(p), ~IsPurge(o)
  PROVE  Supersedes(p, o) <=>
           /\ p.field = o.field
           /\ p.tx > o.tx \/ (p.tx = o.tx /\ ContentAfter(p, o))
<1>1. IsPurge(p) = IsPurge(o)
  BY DEF IsPurge
<1> QED
  BY <1>1 DEF Supersedes, Wins

(* An entity has a fact if it was ever written to, and a purge if it was
   ever purged. *)
LEMMA StateKnowsEntity ==
  ASSUME MergedState, NEW e \in Entity
  PROVE  /\ Facts(state, e) = {} <=> Facts(seen, e) = {}
         /\ Purged(state, e) <=> \E o \in Facts(seen, e) : IsPurge(o)
<1>1. state \subseteq seen /\ \A o \in seen : Covers(state, o)
  BY DEF MergedState, IsMergeOf
<1>2. ASSUME NEW o \in Facts(seen, e)
      PROVE  /\ Facts(state, e) # {}
             /\ IsPurge(o) => Purged(state, e)
  <2>1. PICK p \in state : p = o \/ Supersedes(p, o)
    BY <1>1, <1>2 DEF Facts, Covers
  <2>2. p \in Facts(state, e)
    BY <1>2, <2>1 DEF Facts, Supersedes
  <2>3. IsPurge(o) => IsPurge(p)
    BY <2>1 DEF Supersedes, Wins, IsPurge
  <2> QED
    BY <2>2, <2>3 DEF Purged
<1> QED
  BY <1>1, <1>2 DEF Facts, Purged

(* The facts of an entity nobody purged are the last of every field. *)
LEMMA FactsLikeOracle ==
  ASSUME MergedState, NEW e \in Entity, \A o \in Facts(seen, e) : ~IsPurge(o)
  PROVE  Facts(state, e) =
           {o \in Facts(seen, e) : \A p \in Facts(seen, e) :
              p.field = o.field =>
                ~(p.tx > o.tx \/ (p.tx = o.tx /\ ContentAfter(p, o)))}
<1>1. seen \in SUBSET Op /\ state = Winners(seen)
  BY MergeUnique DEF MergedState
<1>2. \A o, p \in Facts(seen, e) :
        Supersedes(p, o) <=>
          /\ p.field = o.field
          /\ p.tx > o.tx \/ (p.tx = o.tx /\ ContentAfter(p, o))
  BY <1>1, WinsLikeOracle DEF Facts
<1>3. \A o \in Facts(seen, e) : o \in state <=> \A p \in Facts(seen, e) : ~Supersedes(p, o)
  BY <1>1 DEF Winners, Facts, Supersedes
<1>4. Facts(state, e) = {o \in Facts(seen, e) : o \in state}
  BY <1>1 DEF Facts, Winners
<1>5. Facts(state, e) = {o \in Facts(seen, e) : \A p \in Facts(seen, e) : ~Supersedes(p, o)}
  BY <1>3, <1>4
<1> QED
  BY <1>2, <1>5

(* Every entity reads as the oracle of the conformance tests says it must,
   though the state has forgotten every op that lost. *)
THEOREM ReadersSeeTheOracle == Spec => []ReadsLikeOracle
<1>1. ASSUME MergedState, NEW e \in Entity
      PROVE  Shown(state, e) = Oracle(seen, e)
  <2>0. state \subseteq Op
    BY <1>1 DEF MergedState, IsMergeOf
  <2>1. CASE Facts(seen, e) = {} \/ \E o \in Facts(seen, e) : IsPurge(o)
    <3>1. ~Visible(state, e)
      BY <1>1, <2>1, StateKnowsEntity DEF Visible, Materialize
    <3> QED
      BY <2>1, <3>1 DEF Shown, Oracle
  <2>2. CASE Facts(seen, e) # {} /\ \A o \in Facts(seen, e) : ~IsPurge(o)
    <3> DEFINE last == Facts(state, e)
               data == {o \in last : o.field \in DataField}
               deletes == {o \in last : o.field = DELETED /\ o.value = JTrue}
    <3>1. Visible(state, e)
      BY <1>1, <2>2, StateKnowsEntity DEF Visible, Materialize
    <3>2. Shown(state, e) =
            [shown |-> TRUE,
             deleted |-> \E d \in deletes : \A o \in data : o.tx <= d.tx,
             fields |-> {<<o.field, o.value>> : o \in data}]
      BY <3>1 DEF Shown, Materialize
    <3>3. Oracle(seen, e) =
            [shown |-> TRUE,
             deleted |-> deletes # {} /\ ~ \E d \in deletes, o \in data : o.tx > d.tx,
             fields |-> {<<o.field, o.value>> : o \in data}]
      BY <1>1, <2>2, FactsLikeOracle DEF Oracle
    <3>4. \A c, d \in deletes : c = d
      <4>1. \A c, d \in deletes : c \in state /\ d \in state /\ c \in Op /\ d \in Op
                                  /\ c.ent = d.ent /\ c.field = d.field
        BY <2>0 DEF Facts
      <4>2. \A c, d \in state : ~Supersedes(c, d)
        BY <1>1 DEF MergedState, IsMergeOf
      <4> QED
        BY <4>1, <4>2, SupersedesTotal
    <3>5. \A o \in last : o.tx \in Int
      BY <2>0 DEF Facts, Op, Tx
    <3>6. (\E d \in deletes : \A o \in data : o.tx <= d.tx)
          <=> (deletes # {} /\ ~ \E d \in deletes, o \in data : o.tx > d.tx)
      BY <3>4, <3>5
    <3> QED
      BY <3>2, <3>3, <3>6
  <2> QED
    BY <2>1, <2>2
<1>2. MergedState => ReadsLikeOracle
  BY <1>1 DEF ReadsLikeOracle
<1> QED
  BY <1>2, MergedStateAlways, PTL

-----------------------------------------------------------------------------
(* What a compactor's output is worth, computed as `compact` does
   (CompactionTransparent). *)

(* Apply, folded over a finite set of ops in whatever order they are chosen,
   is the merge of the set.  The fold is a recursive function: the merges of
   the subsets satisfy its equation, and no other function does, since a
   smallest subset on which one differs would differ on a smaller one. *)
LEMMA FoldedIsWinners ==
  ASSUME NEW O \in SUBSET Op, IsFiniteSet(O)
  PROVE  Folded(O) = Winners(O)
<1> DEFINE One(s) == CHOOSE x \in s : TRUE
           IsFold(g) == g = [s \in SUBSET O |->
                               IF s = {} THEN {} ELSE Apply(g[s \ {One(s)}], One(s))]
           w == [s \in SUBSET O |-> Winners(s)]
<1>1. ASSUME NEW s \in SUBSET O, s # {}
      PROVE  One(s) \in s /\ Winners(s) = Apply(Winners(s \ {One(s)}), One(s))
  <2>1. One(s) \in s
    BY <1>1
  <2>2. (s \ {One(s)}) \cup {One(s)} = s
    BY <2>1
  <2>3. s \ {One(s)} \in SUBSET Op /\ One(s) \in Op
    BY <2>1
  <2> HIDE DEF One
  <2>4. IsMergeOf(Winners(s \ {One(s)}), s \ {One(s)})
    BY <2>3, WinnersIsMerge
  <2> QED
    BY <2>1, <2>2, <2>3, <2>4, ApplyWinners
<1>2. Winners({}) = {}
  BY DEF Winners
<1>3. IsFold(w)
  BY <1>1, <1>2
<1>4. ASSUME NEW g, IsFold(g)
      PROVE  g = w
  <2> DEFINE D == {s \in SUBSET O : g[s] # Winners(s)}
             R == StrictSubsetOrdering(O)
  <2>1. D = {}
    <3>1. SUFFICES ASSUME D # {}
                   PROVE  FALSE
      OBVIOUS
    <3>2. IsWellFoundedOn(R, FiniteSubsetsOf(O)) /\ D \subseteq FiniteSubsetsOf(O)
      BY FS_StrictSubsetOrderingWellFounded, FS_FiniteSubsetsOfFinite
    <3> HIDE DEF D, R
    <3>3. PICK s \in D : \A t \in D : <<t, s>> \notin R
      BY ONLY <3>1, <3>2, WFMin
    <3>4. s \in SUBSET O /\ g[s] # Winners(s)
      BY DEF D
    <3>5. s # {}
      BY <1>2, <1>4, <3>4
    <3>6. One(s) \in s
      BY <1>1, <3>4, <3>5
    <3>7. s \ {One(s)} \notin D
      <4>1. /\ s \ {One(s)} \in SUBSET O /\ s \in SUBSET O
            /\ s \ {One(s)} \subseteq s /\ s \ {One(s)} # s
        BY <3>4, <3>6
      <4> HIDE DEF One
      <4>2. <<s \ {One(s)}, s>> \in R
        BY ONLY <4>1 DEF R, StrictSubsetOrdering
      <4> QED
        BY ONLY <3>3, <4>2, Zenon
    <3>8. g[s \ {One(s)}] = Winners(s \ {One(s)})
      BY <3>4, <3>7 DEF D
    <3>9. g[s] = Apply(g[s \ {One(s)}], One(s))
      BY <1>4, <3>4, <3>5
    <3> QED
      BY <1>1, <3>4, <3>5, <3>8, <3>9
  <2>2. \A s \in SUBSET O : g[s] = w[s]
    BY <2>1
  <2> HIDE DEF D
  <2> QED
    BY <1>4, <2>2
<1>5. Folded(O) = (CHOOSE g : IsFold(g))[O]
  BY DEF Folded, FoldSet, MapThenFoldSet
<1>6. (CHOOSE g : IsFold(g)) = w
  <2> HIDE DEF IsFold, w
  <2> QED
    BY <1>3, <1>4
<1> QED
  BY <1>5, <1>6

(* Only finitely many ops were applied. *)
LEMMA SeenIsFinite == Spec => []IsFiniteSet(seen)
<1>1. Init => IsFiniteSet(seen)
  BY FS_EmptySet DEF Init
<1>2. IsFiniteSet(seen) /\ [Next]_vars => IsFiniteSet(seen)'
  BY FS_AddElement DEF Next, Receive, vars
<1> QED
  BY <1>1, <1>2, PTL DEF Spec

(* Whichever of the ops a compactor had read, its output and the ops it had
   not read merge to the state of a reader of all of them. *)
THEOREM CompactingNeverShows == Spec => []CompactionTransparent
<1>1. ASSUME MergedState, IsFiniteSet(seen), NEW A \in SUBSET seen
      PROVE  Folded(Folded(A) \cup (seen \ A)) = state
  <2> DEFINE rest == seen \ A
  <2>1. A \in SUBSET Op /\ rest \in SUBSET Op /\ A \cup rest = seen
    BY <1>1 DEF MergedState
  <2>2. IsFiniteSet(A) /\ IsFiniteSet(rest)
    BY <1>1, FS_Subset
  <2>3. Folded(A) = Winners(A)
    BY <2>1, <2>2, FoldedIsWinners
  <2>4. Winners(A) \subseteq A
    BY DEF Winners
  <2>5. IsFiniteSet(Winners(A) \cup rest) /\ Winners(A) \cup rest \in SUBSET Op
    BY <2>1, <2>2, <2>4, FS_Subset, FS_Union
  <2>6. Folded(Winners(A) \cup rest) = Winners(Winners(A) \cup rest)
    BY <2>5, FoldedIsWinners
  <2>7. Winners(Winners(A) \cup rest) = Winners(seen)
    BY <2>1, CompactionTransparency
  <2>8. state = Winners(seen)
    BY <1>1, <2>1, MergeUnique DEF MergedState
  <2> QED
    BY <2>3, <2>6, <2>7, <2>8
<1>2. MergedState /\ IsFiniteSet(seen) => CompactionTransparent
  BY <1>1 DEF CompactionTransparent
<1> QED
  BY <1>2, MergedStateAlways, SeenIsFinite, PTL

=============================================================================
