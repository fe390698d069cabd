--------------------------- MODULE RecordsProofs ---------------------------
(***************************************************************************)
(* Typed records for every number of sessions, entities and structs; then  *)
(* the derive macro, for names of every length over every alphabet.        *)
(***************************************************************************)
EXTENDS Typed, MergeProofs, FiniteSetTheorems, SequenceTheorems

(* The structs of the table at hand. *)
LEMMA StructType ==
  ASSUME types \in Tables, NEW t \in types
  PROVE  /\ t \in UNION Tables
         /\ t.keys \subseteq Key
         /\ t.nullable \cup t.filled \cup t.skipped \subseteq t.keys
         /\ t.nullable \cap t.filled = {}
         /\ t.skipped \subseteq t.nullable \cup t.filled
         /\ Underscored \cap DataField = {} /\ DELETED \notin DataField
<1>1. t \in UNION Tables
  OBVIOUS
<1>2. t \in RecordType
  BY <1>1, RecordsAssumption
<1> QED
  BY <1>1, <1>2, RecordsAssumption, EavcAssumption
     DEF RecordType

-----------------------------------------------------------------------------
(* What a call writes.                                                     *)

IsFields(fields) ==
  DOMAIN fields \subseteq Field /\ \A k \in DOMAIN fields : fields[k] \in Value

(* insert and update write data fields of the struct, each with a value. *)
LEMMA InsertFields ==
  ASSUME types \in Tables, NEW t \in types, NEW r \in RecordsOf(t), NoReserved(t, r)
  PROVE  /\ DOMAIN ToFields(t, r) \subseteq DataField
         /\ IsFields(ToFields(t, r))
<1>1. DOMAIN ToFields(t, r) = Serialized(t, r)
  BY DEF ToFields
<1>2. \A k \in Serialized(t, r) : ToFields(t, r)[k] = r[k]
  BY DEF ToFields
<1>3. Serialized(t, r) \subseteq t.keys /\ Serialized(t, r) \cap Underscored = {}
  BY DEF Serialized, NoReserved
<1>4. \A k \in t.keys : r[k] \in Value
  BY DEF RecordsOf
<1> QED
  BY <1>1, <1>2, <1>3, <1>4, StructType DEF IsFields, Key, Field

(* The difference of two records, key by key. *)
LEMMA ChangedFields ==
  ASSUME NEW t, NEW old, NEW new
  PROVE  LET fields == Changed(t, old, new)
         IN  /\ \A k : k \in DOMAIN fields <=>
                  /\ k \in Serialized(t, old) \cup Serialized(t, new)
                  /\ ~ /\ k \in Serialized(t, old) /\ k \in Serialized(t, new)
                       /\ old[k] = new[k]
             /\ \A k \in DOMAIN fields :
                  fields[k] = IF k \in Serialized(t, new) THEN new[k] ELSE JNull
<1> DEFINE In(f, k) == IF k \in DOMAIN f THEN {f[k]} ELSE {}
           before == ToFields(t, old)
           after  == ToFields(t, new)
<1>1. /\ DOMAIN before = Serialized(t, old) /\ DOMAIN after = Serialized(t, new)
      /\ \A k \in Serialized(t, old) : before[k] = old[k]
      /\ \A k \in Serialized(t, new) : after[k] = new[k]
  BY DEF ToFields
<1> HIDE DEF before, after
<1>2. ASSUME NEW k \in (DOMAIN before) \cup (DOMAIN after)
      PROVE  In(before, k) # In(after, k) <=>
               ~ (k \in DOMAIN before /\ k \in DOMAIN after /\ before[k] = after[k])
  OBVIOUS
<1>3. DOMAIN Changed(t, old, new) =
        {k \in (DOMAIN before) \cup (DOMAIN after) : In(before, k) # In(after, k)}
  BY DEF Changed, before, after
<1>4. \A k \in DOMAIN Changed(t, old, new) :
        Changed(t, old, new)[k] = IF k \in DOMAIN after THEN after[k] ELSE JNull
  BY DEF Changed, before, after
<1>5. \A k : k \in DOMAIN Changed(t, old, new) <=>
               /\ k \in Serialized(t, old) \cup Serialized(t, new)
               /\ ~ /\ k \in Serialized(t, old) /\ k \in Serialized(t, new)
                    /\ old[k] = new[k]
  BY <1>1, <1>2, <1>3
<1>6. \A k \in DOMAIN Changed(t, old, new) :
        Changed(t, old, new)[k] = IF k \in Serialized(t, new) THEN new[k] ELSE JNull
  BY <1>1, <1>4
<1> QED
  BY <1>5, <1>6

(* update writes data fields too, each with a value. *)
LEMMA UpdateFields ==
  ASSUME types \in Tables, NEW t \in types, NEW old, NEW new \in RecordsOf(t),
         NoReserved(t, old), NoReserved(t, new)
  PROVE  /\ DOMAIN Changed(t, old, new) \subseteq DataField
         /\ IsFields(Changed(t, old, new))
<1>1. /\ Serialized(t, old) \cup Serialized(t, new) \subseteq t.keys
      /\ (Serialized(t, old) \cup Serialized(t, new)) \cap Underscored = {}
  BY DEF Serialized, NoReserved
<1>2. \A k \in t.keys : new[k] \in Value
  BY DEF RecordsOf
<1>3. JNull \in Value
  BY RecordsAssumption
<1>4. DOMAIN Changed(t, old, new) \subseteq DataField
  BY <1>1, ChangedFields, StructType DEF Key
<1>5. \A k \in DOMAIN Changed(t, old, new) : Changed(t, old, new)[k] \in Value
  BY <1>1, <1>2, <1>3, ChangedFields
<1> QED
  BY <1>4, <1>5 DEF IsFields, Field

(* The ops of a call. *)
LEMMA OpsOfType ==
  ASSUME NEW s \in Session, NEW tx \in Tx, NEW e \in Entity, NEW fields, IsFields(fields)
  PROVE  OpsOf(s, tx, e, fields) \in SUBSET Op
  BY RecordsAssumption DEF OpsOf, IsFields, Op

-----------------------------------------------------------------------------
(* The ways a step changes the state.                                      *)

\* An insert or an update that writes.
EditOf(s, e, fields, meant) ==
  \E t \in types :
    \/ \E r \in RecordsOf(t) :
         NoReserved(t, r) /\ fields = ToFields(t, r) /\ meant = r
    \/ \E old \in Get(current[s], e, t), new \in RecordsOf(t) :
         /\ NoReserved(t, old) /\ NoReserved(t, new)
         /\ fields = Changed(t, old, new)
         /\ meant = [k \in {j \in t.keys : old[j] # new[j]} |-> new[k]]

\* A delete or a purge.
Removal(fields, meant) ==
  /\ fields = [k \in {DELETED} |-> JTrue] \/ fields = [k \in {PURGE} |-> JTrue]
  /\ meant = <<>>

(* Every step is a flush, a sync or a write of fields. *)
LEMMA StepKinds ==
  ASSUME Next, ~ UNCHANGED vars
  PROVE  \E s \in Session :
           \/ Flush(s)
           \/ \E F \in SUBSET (files \ read[s]) : Sync(s, F)
           \/ \E e \in Entity : \E fields, meant :
                /\ EditOf(s, e, fields, meant) \/ Removal(fields, meant)
                /\ Write(s, e, fields, meant)
<1>1. PICK s \in Session :
        \/ \E e \in Free(s), t \in types : \E r \in RecordsOf(t) : Insert(s, e, t, r)
        \/ \E e \in Entity, t \in types :
             \E old \in Get(current[s], e, t), new \in RecordsOf(t) : Update(s, e, t, old, new)
        \/ \E e \in Entity : Delete(s, e) \/ Purge(s, e)
        \/ Flush(s)
        \/ \E F \in SUBSET (files \ read[s]) : Sync(s, F)
  BY DEF Next
<1> DEFINE Writes == \E e \in Entity : \E fields, meant :
                       /\ EditOf(s, e, fields, meant) \/ Removal(fields, meant)
                       /\ Write(s, e, fields, meant)
<1>2. ASSUME NEW e \in Free(s), NEW t \in types, NEW r \in RecordsOf(t), Insert(s, e, t, r)
      PROVE  Writes
  <2>1. e \in Entity
    BY DEF Free
  <2>2. EditOf(s, e, ToFields(t, r), r) /\ Write(s, e, ToFields(t, r), r)
    BY <1>2 DEF EditOf, Insert
  <2> QED
    BY <2>1, <2>2
<1>3. ASSUME NEW e \in Entity, NEW t \in types, NEW old \in Get(current[s], e, t),
             NEW new \in RecordsOf(t), Update(s, e, t, old, new)
      PROVE  Writes
  <2> DEFINE fields == Changed(t, old, new)
             meant  == [k \in {j \in t.keys : old[j] # new[j]} |-> new[k]]
  <2>1. NoReserved(t, old) /\ NoReserved(t, new) /\ Write(s, e, fields, meant)
    BY <1>3 DEF Update
  <2>2. EditOf(s, e, fields, meant)
    BY <2>1 DEF EditOf
  <2> QED
    BY <2>1, <2>2
<1>4. ASSUME NEW e \in Entity, Delete(s, e) \/ Purge(s, e)
      PROVE  Writes
  BY <1>4 DEF Delete, Purge, Removal
<1> QED
  BY <1>1, <1>2, <1>3, <1>4

(* Every call writes fields, and only removals write others than data. *)
LEMMA CallFields ==
  ASSUME types \in Tables, NEW s, NEW e, NEW fields, NEW meant,
         EditOf(s, e, fields, meant) \/ Removal(fields, meant)
  PROVE  /\ IsFields(fields)
         /\ EditOf(s, e, fields, meant) => DOMAIN fields \subseteq DataField
<1>1. CASE EditOf(s, e, fields, meant)
  <2>1. PICK t \in types :
          \/ \E r \in RecordsOf(t) : NoReserved(t, r) /\ fields = ToFields(t, r)
          \/ \E old, new \in RecordsOf(t) \cup Get(current[s], e, t) :
               /\ new \in RecordsOf(t)
               /\ NoReserved(t, old) /\ NoReserved(t, new)
               /\ fields = Changed(t, old, new)
    BY <1>1 DEF EditOf
  <2> QED
    BY <2>1, InsertFields, UpdateFields
<1>2. CASE Removal(fields, meant)
  <2>1. JTrue \in Value /\ DELETED \in Field /\ PURGE \in Field
    BY EavcAssumption DEF Field
  <2>2. \A x : DOMAIN [k \in {x} |-> JTrue] = {x} /\ [k \in {x} |-> JTrue][x] = JTrue
    OBVIOUS
  <2>3. IsFields(fields)
    BY <1>2, <2>1, <2>2 DEF Removal, IsFields
  <2> QED
    BY <1>1, <2>3
<1> QED
  BY <1>1, <1>2

-----------------------------------------------------------------------------
(***************************************************************************)
(* What a session shows is the merge of what it has read or has still to   *)
(* flush, and of nothing else.                                             *)
(***************************************************************************)
Held(s) == outbox[s] \cup (UNION read[s])

StateTypes ==
  /\ types \in Tables
  /\ files \subseteq SUBSET Op
  /\ read \in [Session -> SUBSET files]
  /\ current \in [Session -> SUBSET Op]
  /\ outbox \in [Session -> SUBSET Op]
  /\ lastTx \in [Session -> Tx \cup {NoTx}]

ShowsHeld == \A s \in Session : current[s] = Winners(Held(s))

MergeInv == StateTypes /\ ShowsHeld

(* What a session holds are ops. *)
LEMMA HeldType ==
  ASSUME StateTypes, NEW s \in Session
  PROVE  Held(s) \in SUBSET Op
  BY DEF StateTypes, Held

(* A write, with what it changes. *)
LEMMA WriteEffect ==
  ASSUME StateTypes, NEW s \in Session, NEW e \in Entity, NEW fields, NEW meant,
         EditOf(s, e, fields, meant) \/ Removal(fields, meant),
         Write(s, e, fields, meant)
  PROVE  \E tx \in FreshTx(s) :
           /\ OpsOf(s, tx, e, fields) \in SUBSET Op
           /\ lastTx' = [lastTx EXCEPT ![s] = tx]
           /\ current' = [current EXCEPT ![s] = MergeOps(@, OpsOf(s, tx, e, fields))]
           /\ outbox' = [outbox EXCEPT ![s] = @ \cup OpsOf(s, tx, e, fields)]
           /\ edits' = edits \cup OpsOf(s, tx, e, meant)
           /\ UNCHANGED <<types, files, read>>
<1>1. IsFields(fields)
  BY CallFields DEF StateTypes
<1> QED
  BY <1>1, OpsOfType DEF Write, FreshTx

(* Sessions that hold nothing show nothing. *)
LEMMA MergeInit == Init => MergeInv
  BY DEF Init, MergeInv, StateTypes, ShowsHeld, Held, Winners

(* A call merges its ops, a sync the files it takes; a flush moves ops from
   the outbox to a file the session has read. *)
LEMMA MergeNext ==
  ASSUME MergeInv, [Next]_vars
  PROVE  MergeInv'
<1> USE DEF MergeInv
<1>1. CASE UNCHANGED vars
  BY <1>1 DEF vars, StateTypes, ShowsHeld, Held
<1>2. ASSUME NEW s \in Session, NEW e \in Entity, NEW fields, NEW meant,
             EditOf(s, e, fields, meant) \/ Removal(fields, meant),
             Write(s, e, fields, meant)
      PROVE  MergeInv'
  <2>1. PICK tx \in FreshTx(s) :
          /\ OpsOf(s, tx, e, fields) \in SUBSET Op
          /\ lastTx' = [lastTx EXCEPT ![s] = tx]
          /\ current' = [current EXCEPT ![s] = MergeOps(@, OpsOf(s, tx, e, fields))]
          /\ outbox' = [outbox EXCEPT ![s] = @ \cup OpsOf(s, tx, e, fields)]
          /\ UNCHANGED <<types, files, read>>
    BY <1>2, WriteEffect
  <2> DEFINE ops == OpsOf(s, tx, e, fields)
  <2> HIDE DEF ops
  <2>2. /\ ops \in SUBSET Op
        /\ current' = [current EXCEPT ![s] = MergeOps(@, ops)]
        /\ outbox' = [outbox EXCEPT ![s] = @ \cup ops]
    BY <2>1 DEF ops
  <2>3. Held(s) \in SUBSET Op /\ current[s] \in SUBSET Op /\ current[s] = Winners(Held(s))
    BY HeldType DEF StateTypes, ShowsHeld
  <2>4. MergeOps(current[s], ops) \in SUBSET Op
    BY <2>2, <2>3, MergeOpsType
  <2>5. StateTypes'
    BY <2>1, <2>2, <2>4 DEF StateTypes, FreshTx
  <2>6. MergeOps(current[s], ops) = Winners(Held(s) \cup ops)
    BY <2>2, <2>3, CompactionTransparency DEF MergeOps
  <2>7. /\ current'[s] = MergeOps(current[s], ops)
        /\ outbox'[s] = outbox[s] \cup ops
        /\ \A t \in Session \ {s} : current'[t] = current[t] /\ outbox'[t] = outbox[t]
    BY <2>2 DEF StateTypes
  <2>8. Held(s)' = Held(s) \cup ops
    BY <2>1, <2>7 DEF Held
  <2>9. ShowsHeld'
    <3>1. \A t \in Session \ {s} : Held(t)' = Held(t)
      BY <2>1, <2>7 DEF Held
    <3> QED
      BY <2>6, <2>7, <2>8, <3>1 DEF ShowsHeld
  <2> QED
    BY <2>5, <2>9
<1>3. ASSUME NEW s \in Session, Flush(s)
      PROVE  MergeInv'
  <2>1. /\ files' = files \cup {outbox[s]}
        /\ read' = [read EXCEPT ![s] = @ \cup {outbox[s]}]
        /\ outbox' = [outbox EXCEPT ![s] = {}]
        /\ UNCHANGED <<types, current, lastTx>>
    BY <1>3 DEF Flush
  <2>2. StateTypes'
    BY <2>1 DEF StateTypes
  <2>3. /\ outbox'[s] = {} /\ read'[s] = read[s] \cup {outbox[s]}
        /\ \A t \in Session \ {s} : outbox'[t] = outbox[t] /\ read'[t] = read[t]
    BY <2>1 DEF StateTypes
  <2>4. \A t \in Session : Held(t)' = Held(t)
    <3>1. UNION (read[s] \cup {outbox[s]}) = outbox[s] \cup (UNION read[s])
      OBVIOUS
    <3> QED
      BY <2>3, <3>1 DEF Held
  <2> QED
    BY <2>1, <2>2, <2>4 DEF ShowsHeld
<1>4. ASSUME NEW s \in Session, NEW F \in SUBSET (files \ read[s]), Sync(s, F)
      PROVE  MergeInv'
  <2>1. /\ read' = [read EXCEPT ![s] = @ \cup F]
        /\ current' = [current EXCEPT ![s] = MergeOps(@, UNION F)]
        /\ UNCHANGED <<types, files, outbox, lastTx>>
    BY <1>4 DEF Sync
  <2>2. UNION F \in SUBSET Op
    BY DEF StateTypes
  <2>3. Held(s) \in SUBSET Op /\ current[s] \in SUBSET Op /\ current[s] = Winners(Held(s))
    BY HeldType DEF StateTypes, ShowsHeld
  <2>4. MergeOps(current[s], UNION F) \in SUBSET Op
    BY <2>2, <2>3, MergeOpsType
  <2>5. StateTypes'
    BY <2>1, <2>4 DEF StateTypes
  <2>6. MergeOps(current[s], UNION F) = Winners(Held(s) \cup (UNION F))
    BY <2>2, <2>3, CompactionTransparency DEF MergeOps
  <2>7. /\ current'[s] = MergeOps(current[s], UNION F) /\ read'[s] = read[s] \cup F
        /\ \A t \in Session \ {s} : current'[t] = current[t] /\ read'[t] = read[t]
    BY <2>1 DEF StateTypes
  <2>8. Held(s)' = Held(s) \cup (UNION F)
    <3>1. UNION (read[s] \cup F) = (UNION read[s]) \cup (UNION F)
      OBVIOUS
    <3> QED
      BY <2>1, <2>7, <3>1 DEF Held
  <2>9. \A t \in Session \ {s} : Held(t)' = Held(t)
    BY <2>1, <2>7 DEF Held
  <2> QED
    BY <2>5, <2>6, <2>7, <2>8, <2>9 DEF ShowsHeld
<1> QED
  BY <1>1, <1>2, <1>3, <1>4, StepKinds

(* What a session shows is the merge of what it holds, in every state
   (store.rs `write`, `sync`). *)
THEOREM MergeInvariant == Spec => []MergeInv
  BY MergeInit, MergeNext, PTL DEF Spec

(* Whatever a session has read or has still to flush, it shows or has
   something newer. *)
THEOREM TypeCorrect == Spec => []TypeOK
<1>1. MergeInv => TypeOK
  <2> SUFFICES ASSUME MergeInv, NEW s \in Session, NEW o \in Held(s)
               PROVE  Covers(current[s], o)
    BY DEF MergeInv, StateTypes, TypeOK, Held
  <2>1. Held(s) \in SUBSET Op
    BY HeldType DEF MergeInv
  <2> QED
    BY <2>1, WinnersCover DEF MergeInv, ShowsHeld
<1> QED
  BY <1>1, MergeInvariant, PTL

-----------------------------------------------------------------------------
(***************************************************************************)
(* What a state shows of an entity.                                        *)
(***************************************************************************)
DeletedBy(S, e, d) ==
  /\ d \in Facts(S, e) /\ d.field = DELETED /\ d.value = JTrue
  /\ \A o \in Facts(S, e) : o.field \in DataField => o.tx <= d.tx

(* A live entity has facts, no purge, and no delete that is the latest. *)
LEMMA LiveMeans ==
  ASSUME NEW S, NEW e
  PROVE  Live(S, e) <=> /\ Facts(S, e) # {}
                        /\ ~Purged(S, e)
                        /\ ~ \E d \in Facts(S, e) : DeletedBy(S, e, d)
  BY DEF Live, Visible, Materialize, DeletedBy

\* p is o, or a later op for the same field.
Follows(p, o) == p.ent = o.ent /\ p.field = o.field /\ p.tx >= o.tx

\* No fact of S supersedes another.
Minimal(S) == \A p, o \in S : ~Supersedes(p, o)

\* A set of data ops is merged into a state, and what comes of each old op:
\* it stays, or a later data op is there for the same field.
LEMMA DataMerge ==
  ASSUME NEW S \in SUBSET Op, NEW O \in SUBSET Op, \A o \in O : o.field \in DataField,
         NEW e, ~Purged(S, e)
  PROVE  /\ MergeOps(S, O) \subseteq S \cup O
         /\ ~Purged(MergeOps(S, O), e)
         /\ \A o \in S \cup O : o.ent = e => \E p \in MergeOps(S, O) : Follows(p, o)
<1>0. MergeOps(S, O) \subseteq S \cup O
  BY MergeIsMinimal
<1>1. \A o \in S \cup O : o.ent = e => ~IsPurge(o)
  BY EavcAssumption DEF Purged, Facts, IsPurge
<1>2. ~Purged(MergeOps(S, O), e)
  BY <1>0, <1>1 DEF Purged, Facts
<1>3. ASSUME NEW o \in S \cup O, o.ent = e
      PROVE  \E p \in MergeOps(S, O) : Follows(p, o)
  <2>1. PICK p \in MergeOps(S, O) : p = o \/ Supersedes(p, o)
    BY MergeOpsCover DEF Covers
  <2>2. p \in S \cup O /\ p \in Op /\ o \in Op
    BY <1>0, <2>1
  <2>3. p.ent = e /\ ~IsPurge(p) /\ ~IsPurge(o)
    BY <1>1, <1>3, <2>1, <2>2 DEF Supersedes
  <2>4. p.field = o.field /\ (p = o \/ Wins(p, o))
    BY <2>1, <2>3 DEF Supersedes
  <2>5. p.tx \in Int /\ o.tx \in Int
    BY <2>2, EavcAssumption DEF Op, Tx
  <2>6. p.tx >= o.tx
    BY <2>3, <2>4, <2>5 DEF Wins
  <2> QED
    BY <1>3, <2>1, <2>3, <2>4, <2>6 DEF Follows
<1> QED
  BY <1>0, <1>2, <1>3

(* Data ops never take a live entity away. *)
LEMMA DataKeepsLive ==
  ASSUME NEW S \in SUBSET Op, NEW O \in SUBSET Op, \A o \in O : o.field \in DataField,
         NEW e, Live(S, e)
  PROVE  Live(MergeOps(S, O), e)
<1> DEFINE T == MergeOps(S, O)
<1>1. /\ Facts(S, e) # {} /\ ~Purged(S, e)
      /\ ~ \E d \in Facts(S, e) : DeletedBy(S, e, d)
  BY LiveMeans
<1>2. /\ T \subseteq S \cup O /\ ~Purged(T, e)
      /\ \A o \in S \cup O : o.ent = e => \E p \in T : Follows(p, o)
  BY <1>1, DataMerge
<1>3. DELETED \notin DataField
  BY EavcAssumption
<1>4. Facts(T, e) # {}
  BY <1>1, <1>2 DEF Facts, Follows
<1>5. ASSUME NEW d \in Facts(T, e), DeletedBy(T, e, d)
      PROVE  FALSE
  <2>1. d \in Facts(S, e) /\ d.field = DELETED /\ d.value = JTrue
    BY <1>2, <1>3, <1>5 DEF DeletedBy, Facts
  <2>2. ASSUME NEW o \in Facts(S, e), o.field \in DataField
        PROVE  o.tx <= d.tx
    <3>1. PICK p \in T : p.ent = e /\ p.field = o.field /\ p.tx >= o.tx
      BY <1>2 DEF Facts, Follows
    <3>2. p.tx <= d.tx
      BY <1>5, <2>2, <3>1 DEF DeletedBy, Facts
    <3>3. o.tx \in Int /\ p.tx \in Int /\ d.tx \in Int
      BY <1>2, <2>1, <3>1, EavcAssumption DEF Facts, Op, Tx
    <3> QED
      BY ONLY <3>1, <3>2, <3>3
  <2> QED
    BY <1>1, <2>1, <2>2 DEF DeletedBy
<1> QED
  BY <1>2, <1>4, <1>5, LiveMeans

\* What a step does to the records that are live.
KeepsLive ==
  \A s \in Session, e \in Entity :
    Live(current[s], e) /\ ~Live(current'[s], e) => edits' = edits

(* A call of insert or update takes no live record away (record.rs
   `to_fields`); only a delete, a purge or a sync does. *)
THEOREM TypedEditsKeepLive == Spec => EditsKeepLive
<1>1. MergeInv /\ [Next]_vars => [KeepsLive]_vars
  <2> SUFFICES ASSUME MergeInv, Next, ~ UNCHANGED vars,
                      NEW s \in Session, NEW e \in Entity,
                      Live(current[s], e), ~Live(current'[s], e)
               PROVE  edits' = edits
    BY DEF KeepsLive
  <2>1. ASSUME NEW r \in Session, Flush(r) \/ \E F \in SUBSET (files \ read[r]) : Sync(r, F)
        PROVE  edits' = edits
    BY <2>1 DEF Flush, Sync
  <2>2. ASSUME NEW r \in Session, NEW i \in Entity, NEW fields, NEW meant,
               EditOf(r, i, fields, meant) \/ Removal(fields, meant),
               Write(r, i, fields, meant)
        PROVE  edits' = edits
    <3>1. PICK tx \in FreshTx(r) :
            /\ OpsOf(r, tx, i, fields) \in SUBSET Op
            /\ current' = [current EXCEPT ![r] = MergeOps(@, OpsOf(r, tx, i, fields))]
            /\ edits' = edits \cup OpsOf(r, tx, i, meant)
      BY <2>2, WriteEffect DEF MergeInv
    <3>2. current \in [Session -> SUBSET Op]
      BY DEF MergeInv, StateTypes
    <3>3. CASE EditOf(r, i, fields, meant)
      <4>1. \A o \in OpsOf(r, tx, i, fields) : o.field \in DataField
        BY <3>3, CallFields DEF OpsOf, MergeInv, StateTypes
      <4>2. Live(current[s], e) => Live(MergeOps(current[s], OpsOf(r, tx, i, fields)), e)
        BY <3>1, <3>2, <4>1, DataKeepsLive
      <4> QED
        BY <3>1, <3>2, <4>2
    <3>4. CASE Removal(fields, meant)
      BY <3>1, <3>4 DEF Removal, OpsOf
    <3> QED
      BY <2>2, <3>3, <3>4
  <2> QED
    BY <2>1, <2>2, StepKinds
<1>2. Spec => [][KeepsLive]_vars
  BY <1>1, MergeInvariant, PTL DEF Spec
<1> QED
  BY <1>2 DEF EditsKeepLive, KeepsLive

-----------------------------------------------------------------------------
(***************************************************************************)
(* What a typed insert or update writes is what is read next.              *)
(***************************************************************************)
\* Data ops of one call on e, newer than all of S.
NewestOn(S, O, e) ==
  /\ \A o \in O : o.ent = e /\ o.field \in DataField
  /\ \A o, p \in O : o.field = p.field => o = p
  /\ \A o \in O, p \in S : p.tx < o.tx

(* The fields of a call that is newer than the state are shown next, and
   the others stay what they were. *)
LEMMA NewestShows ==
  ASSUME NEW S \in SUBSET Op, NEW O \in SUBSET Op, NEW e,
         Minimal(S), ~Purged(S, e), NewestOn(S, O, e), NEW k \in DataField
  PROVE  /\ \A o \in O : o.field = k => Stored(MergeOps(S, O), e, k) = {o.value}
         /\ (\A o \in O : o.field # k) => Stored(MergeOps(S, O), e, k) = Stored(S, e, k)
<1> DEFINE T == MergeOps(S, O)
           At(A) == {p \in Facts(A, e) : p.field = k /\ k \in DataField}
<1>1. \A o \in S \cup O : o \in T <=> \A p \in S \cup O : ~Supersedes(p, o)
  BY DEF MergeOps, Winners
<1>2. T \subseteq S \cup O
  BY DEF MergeOps, Winners
<1>3. \A p \in S \cup O : p.ent = e => ~IsPurge(p)
  BY EavcAssumption DEF NewestOn, Purged, Facts, IsPurge
<1>4. \A o \in S \cup O : o.tx \in Int /\ o \in Op
  BY EavcAssumption DEF Op, Tx
<1>5. PURGE \notin DataField
  BY EavcAssumption
<1> HIDE DEF T
<1>6. ASSUME NEW o \in O, o.field = k
      PROVE  At(T) = {o}
  <2>1. o.ent = e
    BY DEF NewestOn
  <2>2. ASSUME NEW p \in S \cup O, Supersedes(p, o)
        PROVE  FALSE
    <3>1. p.ent = e /\ p.field = k /\ Wins(p, o)
      BY <1>3, <1>6, <2>1, <2>2 DEF Supersedes
    <3>2. p \in O => p = o
      BY <1>6, <3>1 DEF NewestOn
    <3>3. p # o
      BY <1>4, <2>2, SupersedesIrreflexive
    <3>4. p \in S /\ p.tx < o.tx
      BY <2>2, <3>2, <3>3 DEF NewestOn
    <3>5. p.tx >= o.tx
      BY <1>4, <1>5, <1>6, <3>1 DEF Wins
    <3> QED
      BY ONLY <3>4, <3>5, <1>4
  <2>3. o \in T
    BY <1>1, <2>2
  <2>4. ASSUME NEW p \in T, p.ent = e, p.field = k
        PROVE  p = o
    <3>1. CASE p \in O
      BY <1>6, <2>4, <3>1 DEF NewestOn
    <3>2. CASE p \in S
      <4>1. p.tx < o.tx
        BY <3>2 DEF NewestOn
      <4>2. o.tx \in Int /\ p.tx \in Int
        BY <1>4, <3>2
      <4>3. o.tx > p.tx
        BY ONLY <4>1, <4>2
      <4>4. Supersedes(o, p)
        BY <1>5, <1>6, <2>1, <2>4, <4>3 DEF Supersedes, Wins, IsPurge
      <4> QED
        BY <1>1, <3>2, <4>4
    <3> QED
      BY <1>2, <3>1, <3>2
  <2> QED
    BY <1>6, <2>1, <2>3, <2>4 DEF Facts
<1>7. ASSUME \A o \in O : o.field # k
      PROVE  At(T) = At(S)
  <2>1. ASSUME NEW p \in S, p.ent = e, p.field = k
        PROVE  p \in T
    <3>1. ASSUME NEW q \in S \cup O, Supersedes(q, p)
          PROVE  FALSE
      <4>1. q.ent = e /\ q.field = k
        BY <1>3, <2>1, <3>1 DEF Supersedes
      <4>2. q \in S
        BY <1>7, <4>1
      <4> QED
        BY <3>1, <4>2 DEF Minimal
    <3> QED
      BY <1>1, <3>1
  <2> QED
    BY <1>2, <1>7, <2>1 DEF Facts
<1> QED
  BY <1>6, <1>7 DEF Stored, T

(* The stored fields of a call, key by key. *)
LEMMA CallShows ==
  ASSUME NEW S \in SUBSET Op, Minimal(S), NEW s, NEW tx, NEW e, NEW fields,
         OpsOf(s, tx, e, fields) \in SUBSET Op, DOMAIN fields \subseteq DataField,
         ~Purged(S, e), \A o \in S : o.tx < tx, NEW k \in DataField
  PROVE  Stored(MergeOps(S, OpsOf(s, tx, e, fields)), e, k) =
           IF k \in DOMAIN fields THEN {fields[k]} ELSE Stored(S, e, k)
<1> DEFINE O == OpsOf(s, tx, e, fields)
           op(j) == [tx |-> tx, ent |-> e, field |-> j, value |-> fields[j],
                     user |-> UserOf[s]]
<1>1. O = {op(j) : j \in DOMAIN fields}
  BY DEF OpsOf
<1>2. \A o \in O : o.ent = e /\ o.tx = tx /\ o.field \in DOMAIN fields
                   /\ o = op(o.field)
  BY <1>1
<1>3. NewestOn(S, O, e)
  BY <1>2 DEF NewestOn
<1>4. k \in DOMAIN fields => op(k) \in O /\ op(k).field = k /\ op(k).value = fields[k]
  BY <1>1
<1> HIDE DEF O, op
<1>5. CASE k \in DOMAIN fields
  BY <1>3, <1>4, <1>5, NewestShows DEF O
<1>6. CASE k \notin DOMAIN fields
  BY <1>2, <1>3, <1>6, NewestShows DEF O
<1> QED
  BY <1>5, <1>6

\* Keys are skipped only while they are None: what `update` writes for a key
\* that is skipped again, null, is what the struct reads as its value.
SkipsOnlyNone == \A t \in UNION Tables : t.skipped \subseteq t.nullable

\* What get makes of a key.
Reads(S, e, t, k) ==
  CHOOSE v \in IF Stored(S, e, k) = {} THEN {Absent(t, k)} ELSE Stored(S, e, k) : TRUE

(* get returns the record whose keys read as what is stored. *)
LEMMA GetIs ==
  ASSUME NEW S, NEW e, NEW t, NEW r
  PROVE  /\ r \in Get(S, e, t) =>
              /\ Live(S, e) /\ Decodes(S, e, t)
              /\ \A k \in t.keys : r[k] = Reads(S, e, t, k)
         /\ /\ Live(S, e) /\ Decodes(S, e, t)
            /\ r \in RecordsOf(t) /\ \A k \in t.keys : r[k] = Reads(S, e, t, k)
            => Get(S, e, t) = {r}
<1>1. Get(S, e, t) = IF Live(S, e) /\ Decodes(S, e, t)
                       THEN {[k \in t.keys |-> Reads(S, e, t, k)]} ELSE {}
  BY DEF Get, Reads
<1>2. r \in RecordsOf(t) /\ (\A k \in t.keys : r[k] = Reads(S, e, t, k))
        => r = [k \in t.keys |-> Reads(S, e, t, k)]
  BY DEF RecordsOf
<1>3. r = [k \in t.keys |-> Reads(S, e, t, k)] => \A k \in t.keys : r[k] = Reads(S, e, t, k)
  OBVIOUS
<1> QED
  BY <1>1, <1>2, <1>3

(* A key reads as a stored value, or as what it is when missing. *)
LEMMA ReadsWhat ==
  ASSUME NEW S, NEW e, NEW t, NEW k
  PROVE  /\ Stored(S, e, k) = {} => Reads(S, e, t, k) = Absent(t, k)
         /\ Stored(S, e, k) # {} => Reads(S, e, t, k) \in Stored(S, e, k)
  BY DEF Reads

(* A call that writes the fields of a record, and finds the rest of it as
   it should be, is followed by reads of that record. *)
LEMMA RecordShows ==
  ASSUME types \in Tables, NEW t \in types, NEW r \in RecordsOf(t), NoReserved(t, r),
         NEW S, NEW T, NEW e, Live(T, e),
         \A k \in t.keys \cap DataField :
           \/ Stored(T, e, k) = {r[k]}
           \/ /\ Stored(T, e, k) = Stored(S, e, k) /\ Reads(S, e, t, k) = r[k]
              /\ IF Stored(S, e, k) = {} THEN k \in t.nullable \cup t.filled
                                         ELSE JNull \in Stored(S, e, k) => k \in t.nullable
  PROVE  Get(T, e, t) = {r}
<1>1. ASSUME NEW k \in t.keys \ DataField
      PROVE  Stored(T, e, k) = {} /\ k \in t.skipped /\ r[k] = Absent(t, k)
  <2>1. Stored(T, e, k) = {}
    BY DEF Stored
  <2>2. k \in Underscored
    BY StructType DEF Key
  <2> QED
    BY <2>1, <2>2 DEF NoReserved, Serialized
<1>2. \A k \in t.keys : r[k] = JNull => k \in t.nullable
  BY DEF RecordsOf
<1>3. ASSUME NEW k \in t.keys
      PROVE  /\ r[k] = Reads(T, e, t, k)
             /\ IF Stored(T, e, k) = {} THEN k \in t.nullable \cup t.filled
                                        ELSE JNull \in Stored(T, e, k) => k \in t.nullable
  <2>1. CASE k \notin DataField
    BY <1>1, <2>1, ReadsWhat, StructType
  <2>2. CASE k \in DataField /\ Stored(T, e, k) = {r[k]}
    <3>1. r[k] = Reads(T, e, t, k)
      BY <2>2, ReadsWhat
    <3>2. Stored(T, e, k) # {} /\ (JNull \in Stored(T, e, k) => k \in t.nullable)
      BY <1>2, <2>2
    <3> QED
      BY <3>1, <3>2
  <2>3. CASE k \in DataField /\ Stored(T, e, k) # {r[k]}
    BY <2>3 DEF Reads
  <2> QED
    BY <2>1, <2>2, <2>3
<1>4. Decodes(T, e, t)
  BY <1>3 DEF Decodes
<1> QED
  BY <1>3, <1>4, GetIs

(* The write of a session whose clock is not behind: what it wrote is shown,
   on a live entity. *)
LEMMA OrderedWrite ==
  ASSUME MergeInv, NEW s \in Session, WritesInOrder(s), NEW e \in Entity,
         NEW fields, NEW meant, EditOf(s, e, fields, meant), Write(s, e, fields, meant),
         ~Purged(current[s], e)
  PROVE  /\ DOMAIN fields \subseteq DataField
         /\ \A k \in DataField :
              Stored(current'[s], e, k) =
                IF k \in DOMAIN fields THEN {fields[k]} ELSE Stored(current[s], e, k)
         /\ Live(current[s], e) \/ DOMAIN fields # {} => Live(current'[s], e)
<1>1. PICK tx \in FreshTx(s) :
        /\ OpsOf(s, tx, e, fields) \in SUBSET Op
        /\ lastTx' = [lastTx EXCEPT ![s] = tx]
        /\ current' = [current EXCEPT ![s] = MergeOps(@, OpsOf(s, tx, e, fields))]
  BY WriteEffect DEF MergeInv
<1> DEFINE S == current[s]
           O == OpsOf(s, tx, e, fields)
           T == MergeOps(S, O)
<1>2. tx \in Tx
  BY DEF FreshTx
<1>3. lastTx'[s] = tx /\ current'[s] = T
  BY <1>1 DEF MergeInv, StateTypes
<1>4. \A o \in S : o.tx < tx
  BY <1>3 DEF WritesInOrder
<1>5. S \in SUBSET Op /\ Minimal(S)
  BY DEF MergeInv, StateTypes, ShowsHeld, Winners, Minimal
<1>6. DOMAIN fields \subseteq DataField
  BY CallFields DEF MergeInv, StateTypes
<1>7. \A k \in DataField :
        Stored(T, e, k) = IF k \in DOMAIN fields THEN {fields[k]} ELSE Stored(S, e, k)
  <2> HIDE DEF S
  <2>1. ~Purged(S, e)
    BY DEF S
  <2> SUFFICES ASSUME NEW k \in DataField
               PROVE  Stored(T, e, k) =
                        IF k \in DOMAIN fields THEN {fields[k]} ELSE Stored(S, e, k)
    OBVIOUS
  <2> QED
    BY <1>1, <1>4, <1>5, <1>6, <2>1, CallShows
<1>8. \A o \in O : o.ent = e /\ o.tx = tx /\ o.field \in DataField
  BY <1>6 DEF OpsOf
<1>9. Live(S, e) => Live(T, e)
  BY <1>1, <1>5, <1>8, DataKeepsLive
<1>10. ASSUME DOMAIN fields # {}
       PROVE  Live(T, e)
  <2>1. T \subseteq S \cup O /\ ~Purged(T, e)
        /\ \A o \in S \cup O : o.ent = e => \E p \in T : Follows(p, o)
    BY <1>1, <1>5, <1>8, DataMerge
  <2>2. PICK n \in O : TRUE
    BY <1>10 DEF OpsOf
  <2> HIDE DEF S, O, T
  <2>3. PICK p \in T : Follows(p, n)
    BY <1>8, <2>1, <2>2
  <2>4. p \in Facts(T, e) /\ p.field \in DataField /\ p.tx >= tx
    BY <1>8, <2>2, <2>3 DEF Follows, Facts
  <2>5. ASSUME NEW d \in Facts(T, e), DeletedBy(T, e, d)
        PROVE  FALSE
    <3>1. d \in S
      BY <1>8, <2>1, <2>5, EavcAssumption DEF DeletedBy, Facts
    <3>2. d.tx < tx /\ p.tx <= d.tx
      BY <1>4, <2>4, <2>5, <3>1 DEF DeletedBy
    <3>3. O \in SUBSET Op
      BY <1>1 DEF O
    <3>4. d.tx \in Int /\ p.tx \in Int /\ tx \in Int
      BY <1>2, <1>5, <2>1, <2>3, <3>1, <3>3, EavcAssumption DEF Op, Tx
    <3> QED
      BY ONLY <2>4, <3>2, <3>4
  <2> QED
    BY <2>1, <2>4, <2>5, LiveMeans
<1> HIDE DEF T
<1> QED
  BY <1>3, <1>6, <1>7, <1>9, <1>10

(* An update, with the difference it writes. *)
LEMMA UpdateShows ==
  ASSUME SkipsOnlyNone, MergeInv, NEW s \in Session, WritesInOrder(s), NEW e \in Entity,
         NEW t \in types, NEW old \in Get(current[s], e, t), NEW new \in RecordsOf(t),
         Update(s, e, t, old, new)
  PROVE  Get(current'[s], e, t) = {new}
<1>1. types \in Tables
  BY DEF MergeInv, StateTypes
<1>2. PICK fields : fields = Changed(t, old, new)
  OBVIOUS
<1>3. /\ NoReserved(t, old) /\ NoReserved(t, new)
      /\ \E meant : EditOf(s, e, fields, meant) /\ Write(s, e, fields, meant)
  <2>1. lastTx' # lastTx
    BY DEF WritesInOrder
  <2> QED
    BY <1>2, <2>1 DEF Update, EditOf, vars
<1>4. PICK S, T : S = current[s] /\ T = current'[s]
  OBVIOUS
<1>5. /\ Live(S, e) /\ Decodes(S, e, t)
      /\ \A k \in t.keys : old[k] = Reads(S, e, t, k)
  BY <1>4, GetIs
<1>6. /\ Live(T, e)
      /\ \A k \in DataField :
           Stored(T, e, k) = IF k \in DOMAIN fields THEN {fields[k]} ELSE Stored(S, e, k)
  BY <1>3, <1>4, <1>5, OrderedWrite, LiveMeans
<1>7. ASSUME NEW k \in t.keys \cap DataField
      PROVE  \/ Stored(T, e, k) = {new[k]}
             \/ /\ Stored(T, e, k) = Stored(S, e, k) /\ Reads(S, e, t, k) = new[k]
                /\ IF Stored(S, e, k) = {} THEN k \in t.nullable \cup t.filled
                                           ELSE JNull \in Stored(S, e, k) => k \in t.nullable
  <2>1. CASE k \in DOMAIN fields
    <3>1. fields[k] = IF k \in Serialized(t, new) THEN new[k] ELSE JNull
      BY <1>2, <2>1, ChangedFields
    <3>2. k \notin Serialized(t, new) => new[k] = JNull
      <4>1. t.skipped \subseteq t.nullable /\ t.nullable \cap t.filled = {}
        BY <1>1, StructType DEF SkipsOnlyNone
      <4> QED
        BY <4>1 DEF Serialized, Absent
    <3> QED
      BY <1>6, <2>1, <3>1, <3>2
  <2>2. CASE k \notin DOMAIN fields
    <3>1. old[k] = new[k]
      BY <1>2, <2>2, ChangedFields DEF Serialized
    <3>2. Stored(T, e, k) = Stored(S, e, k)
      BY <1>6, <2>2
    <3> QED
      BY <1>5, <3>1, <3>2 DEF Decodes
  <2> QED
    BY <2>1, <2>2
<1>8. Get(T, e, t) = {new}
  BY <1>1, <1>3, <1>6, <1>7, RecordShows
<1> QED
  BY <1>4, <1>8

(* An insert, of all the fields. *)
LEMMA InsertShows ==
  ASSUME \A t \in UNION Tables : t.keys \cap DataField # {},
         MergeInv, NEW s \in Session, WritesInOrder(s), NEW e \in Free(s),
         NEW t \in types, WritesAll(t), NEW r \in RecordsOf(t),
         Insert(s, e, t, r)
  PROVE  Get(current'[s], e, t) = {r}
<1>1. types \in Tables /\ e \in Entity /\ ~Purged(current[s], e)
  BY DEF MergeInv, StateTypes, Free
<1>2. PICK fields : fields = ToFields(t, r)
  OBVIOUS
<1>3. NoReserved(t, r) /\ EditOf(s, e, fields, r) /\ Write(s, e, fields, r)
  BY <1>2 DEF Insert, EditOf
<1>4. PICK S, T : S = current[s] /\ T = current'[s]
  OBVIOUS
<1>5. /\ DOMAIN fields \subseteq DataField
      /\ DOMAIN fields # {} => Live(T, e)
      /\ \A k \in DataField :
           Stored(T, e, k) = IF k \in DOMAIN fields THEN {fields[k]} ELSE Stored(S, e, k)
  BY <1>1, <1>3, <1>4, OrderedWrite
<1>6. /\ DOMAIN fields = t.keys \cap DataField
      /\ \A k \in t.keys \cap DataField : fields[k] = r[k]
  BY <1>2, <1>5 DEF ToFields, Serialized, WritesAll
<1>7. Live(T, e)
  BY <1>1, <1>5, <1>6, StructType
<1>8. \A k \in t.keys \cap DataField : Stored(T, e, k) = {r[k]}
  BY <1>5, <1>6
<1>9. Get(T, e, t) = {r}
  BY <1>1, <1>3, <1>7, <1>8, RecordShows
<1> QED
  BY <1>4, <1>9

\* What a step of update or of insert makes readable.
UpdatesShow ==
  \A s \in {x \in Session : WritesInOrder(x)}, e \in Entity, t \in types :
    \A old \in Get(current[s], e, t), new \in RecordsOf(t) :
      Update(s, e, t, old, new) => Get(current'[s], e, t) = {new}

InsertsShow ==
  \A s \in {x \in Session : WritesInOrder(x)} : \A e \in Free(s) :
    \A t \in {u \in types : WritesAll(u)} : \A r \in RecordsOf(t) :
      Insert(s, e, t, r) => Get(current'[s], e, t) = {r}

(* What update returns is what get then shows (record.rs `update`), if keys
   are skipped only while None. *)
THEOREM UpdateIsWhatIsRead ==
  ASSUME SkipsOnlyNone
  PROVE  Spec => UpdatedIsRead
<1>1. MergeInv => UpdatesShow
  BY UpdateShows DEF UpdatesShow
<1> QED
  BY <1>1, MergeInvariant, PTL DEF UpdatedIsRead, UpdatesShow

(* insert writes a new record, every field of it (record.rs `insert`), if
   every struct has a field besides its id, which is not stored. *)
THEOREM InsertIsWhatIsRead ==
  ASSUME \A t \in UNION Tables : t.keys \cap DataField # {}
  PROVE  Spec => InsertedIsRead
<1>1. MergeInv => InsertsShow
  BY InsertShows DEF InsertsShow
<1> QED
  BY <1>1, MergeInvariant, PTL DEF InsertedIsRead, InsertsShow

-----------------------------------------------------------------------------
(***************************************************************************)
(* Edits and the ops that carry them.                                      *)
(***************************************************************************)
\* Only a reserved name is skipped, and never one with a default of its own:
\* what is given to a field is written.
WritesEveryField == \A t \in UNION Tables : t.skipped \subseteq Underscored \ t.filled

\* Sessions are told apart by their user.
OwnUsers == \A s, t \in Session : UserOf[s] = UserOf[t] => s = t

EditsIssued ==
  \A i \in edits : \/ i.field \in DataField /\ i \in Issued
                   \/ i.field \in Underscored /\ i.value = JNull

IssuedEdits == \A o \in Issued : o.field \in DataField => o \in edits

\* A session has its own ops: those it has still to flush, and the rest among
\* what it reads.
OwnOps ==
  \A s \in Session :
    /\ \A o \in outbox[s] : o.user = UserOf[s]
    /\ \A o \in Issued : o.user = UserOf[s] => o \in Held(s)

\* The ops of a call travel together, and are one for a field.
CallsWhole ==
  \A o, p \in Issued :
    o.tx = p.tx => /\ \A F \in files : o \in F => p \in F
                   /\ \A s \in Session : o \in outbox[s] => p \in outbox[s]
                   /\ o.field = p.field => o = p

EditInv == EditsIssued /\ IssuedEdits /\ OwnOps /\ CallsWhole

(* Nobody has edited anything. *)
LEMMA EditInit == Init => EditInv
  BY DEF Init, EditInv, EditsIssued, IssuedEdits, OwnOps, CallsWhole, Issued

(* What is meant is what is written. *)
LEMMA MeantIsWritten ==
  ASSUME WritesEveryField, types \in Tables, NEW s, NEW e, NEW fields, NEW meant,
         EditOf(s, e, fields, meant) \/ Removal(fields, meant)
  PROVE  /\ \A k \in DOMAIN fields :
              k \in DataField => k \in DOMAIN meant /\ meant[k] = fields[k]
         /\ \A k \in DOMAIN meant :
              \/ k \in DataField /\ k \in DOMAIN fields /\ meant[k] = fields[k]
              \/ k \in Underscored /\ meant[k] = JNull
<1>1. ASSUME NEW t \in types, NEW r \in RecordsOf(t), NoReserved(t, r)
      PROVE  /\ t.keys \subseteq Key
             /\ t.keys \cap DataField \subseteq Serialized(t, r)
             /\ \A k \in t.keys \cap Underscored : k \notin Serialized(t, r) /\ r[k] = JNull
  <2>1. t.keys \subseteq Key /\ Underscored \cap DataField = {} /\ t.skipped \subseteq Underscored \ t.filled
    BY StructType DEF WritesEveryField
  <2> QED
    BY <1>1, <2>1 DEF Serialized, NoReserved, Absent
<1>2. ASSUME NEW t \in types, NEW r \in RecordsOf(t), NoReserved(t, r),
             fields = ToFields(t, r), meant = r
      PROVE  /\ \A k \in DOMAIN fields :
                  k \in DataField => k \in DOMAIN meant /\ meant[k] = fields[k]
             /\ \A k \in DOMAIN meant :
                  \/ k \in DataField /\ k \in DOMAIN fields /\ meant[k] = fields[k]
                  \/ k \in Underscored /\ meant[k] = JNull
  <2>1. DOMAIN r = t.keys
    BY DEF RecordsOf
  <2>2. DOMAIN fields = Serialized(t, r) /\ \A k \in Serialized(t, r) : fields[k] = r[k]
    BY <1>2 DEF ToFields
  <2> QED
    BY <1>1, <1>2, <2>1, <2>2 DEF Serialized, Key
<1>3. ASSUME NEW t \in types, NEW old \in Get(current[s], e, t), NEW new \in RecordsOf(t),
             NoReserved(t, old), NoReserved(t, new),
             fields = Changed(t, old, new),
             meant = [k \in {j \in t.keys : old[j] # new[j]} |-> new[k]]
      PROVE  /\ \A k \in DOMAIN fields :
                  k \in DataField => k \in DOMAIN meant /\ meant[k] = fields[k]
             /\ \A k \in DOMAIN meant :
                  \/ k \in DataField /\ k \in DOMAIN fields /\ meant[k] = fields[k]
                  \/ k \in Underscored /\ meant[k] = JNull
  <2>1. /\ t.keys \subseteq Key /\ t.skipped \subseteq Underscored \ t.filled
        /\ Underscored \cap DataField = {}
    BY StructType DEF WritesEveryField
  <2>2. /\ t.keys \cap DataField \subseteq Serialized(t, old) \cap Serialized(t, new)
        /\ Serialized(t, old) \cup Serialized(t, new) \subseteq t.keys
        /\ \A k \in t.keys \cap Underscored : old[k] = new[k]
    BY <1>3, <2>1 DEF Serialized, NoReserved, Absent
  <2>3. /\ DOMAIN meant = {j \in t.keys : old[j] # new[j]}
        /\ \A k \in DOMAIN meant : meant[k] = new[k]
    BY <1>3
  <2>4. \A k \in t.keys \cap DataField :
          /\ k \in DOMAIN fields <=> old[k] # new[k]
          /\ k \in DOMAIN fields => fields[k] = new[k]
    BY <1>3, <2>2, ChangedFields
  <2>5. \A k \in DOMAIN fields : k \in t.keys
    BY <1>3, <2>2, ChangedFields
  <2> QED
    BY <2>1, <2>2, <2>3, <2>4, <2>5 DEF Key
<1>4. ASSUME Removal(fields, meant)
      PROVE  /\ \A k \in DOMAIN fields : k \notin DataField
             /\ DOMAIN meant = {}
  BY <1>4, EavcAssumption DEF Removal
<1> QED
  BY <1>2, <1>3, <1>4 DEF EditOf

(* A call adds its ops to what is issued, under an id nobody has used. *)
LEMMA WriteIssues ==
  ASSUME StateTypes, NEW s \in Session, NEW tx \in FreshTx(s), NEW ops,
         outbox' = [outbox EXCEPT ![s] = @ \cup ops], UNCHANGED files
  PROVE  /\ Issued' = Issued \cup ops
         /\ \A o \in Issued : o.tx # tx
         /\ outbox'[s] = outbox[s] \cup ops
         /\ \A x \in Session \ {s} : outbox'[x] = outbox[x]
<1>1. /\ outbox'[s] = outbox[s] \cup ops
      /\ \A x \in Session \ {s} : outbox'[x] = outbox[x]
  BY DEF StateTypes
<1>2. Issued' = Issued \cup ops
  BY <1>1 DEF Issued
<1> QED
  BY <1>1, <1>2 DEF FreshTx

(* A call issues what is meant, whole and by its own user; flush and sync
   move files as wholes. *)
LEMMA EditNext ==
  ASSUME WritesEveryField, OwnUsers, MergeInv, EditInv, [Next]_vars
  PROVE  EditInv'
<1> USE DEF MergeInv
<1>1. CASE UNCHANGED vars
  BY <1>1 DEF vars, EditInv, EditsIssued, IssuedEdits, OwnOps, CallsWhole, Issued, Held
<1>2. ASSUME NEW s \in Session, NEW e \in Entity, NEW fields, NEW meant,
             EditOf(s, e, fields, meant) \/ Removal(fields, meant),
             Write(s, e, fields, meant)
      PROVE  EditInv'
  <2>1. PICK tx \in FreshTx(s) :
          /\ OpsOf(s, tx, e, fields) \in SUBSET Op
          /\ outbox' = [outbox EXCEPT ![s] = @ \cup OpsOf(s, tx, e, fields)]
          /\ edits' = edits \cup OpsOf(s, tx, e, meant)
          /\ UNCHANGED <<types, files, read>>
    BY <1>2, WriteEffect
  <2>2. PICK ops, given : ops = OpsOf(s, tx, e, fields) /\ given = OpsOf(s, tx, e, meant)
    OBVIOUS
  <2>3. /\ Issued' = Issued \cup ops
        /\ \A o \in Issued : o.tx # tx
        /\ outbox'[s] = outbox[s] \cup ops
        /\ \A x \in Session \ {s} : outbox'[x] = outbox[x]
    BY <2>1, <2>2, WriteIssues
  <2>4. \A o, p \in ops : /\ o.tx = tx /\ o.user = UserOf[s]
                          /\ o.field = p.field => o = p
    BY <2>2 DEF OpsOf
  <2>5. /\ \A o \in ops : o.field \in DataField => o \in given
        /\ \A i \in given : \/ i.field \in DataField /\ i \in ops
                            \/ i.field \in Underscored /\ i.value = JNull
    <3>1. /\ \A k \in DOMAIN fields :
               k \in DataField => k \in DOMAIN meant /\ meant[k] = fields[k]
          /\ \A k \in DOMAIN meant :
               \/ k \in DataField /\ k \in DOMAIN fields /\ meant[k] = fields[k]
               \/ k \in Underscored /\ meant[k] = JNull
      BY <1>2, MeantIsWritten DEF StateTypes
    <3> QED
      BY <2>2, <3>1 DEF OpsOf
  <2>6. \A t \in Session : Held(t)' = IF t = s THEN Held(t) \cup ops ELSE Held(t)
    BY <2>1, <2>3 DEF Held
  <2>7. EditsIssued' /\ IssuedEdits'
    BY <2>1, <2>2, <2>3, <2>5 DEF EditInv, EditsIssued, IssuedEdits
  <2>8. OwnOps'
    BY <2>3, <2>4, <2>6 DEF EditInv, OwnOps, OwnUsers
  <2>9. CallsWhole'
    <3> SUFFICES ASSUME NEW o \in Issued', NEW p \in Issued', o.tx = p.tx
                 PROVE  /\ \A F \in files : o \in F => p \in F
                        /\ \A x \in Session : o \in outbox'[x] => p \in outbox'[x]
                        /\ o.field = p.field => o = p
      BY <2>1 DEF CallsWhole
    <3>1. CASE o \in Issued /\ p \in Issued
      BY <2>3, <2>4, <3>1 DEF EditInv, CallsWhole
    <3>2. CASE o \in ops /\ p \in ops
      <4>1. o \notin Issued
        BY <2>3, <2>4, <3>2
      <4> QED
        BY <2>3, <2>4, <3>2, <4>1 DEF Issued
    <3> QED
      BY <2>3, <2>4, <3>1, <3>2
  <2> QED
    BY <2>7, <2>8, <2>9 DEF EditInv
<1>3. ASSUME NEW s \in Session, Flush(s)
      PROVE  EditInv'
  <2>1. /\ files' = files \cup {outbox[s]}
        /\ outbox'[s] = {} /\ read'[s] = read[s] \cup {outbox[s]}
        /\ \A t \in Session \ {s} : outbox'[t] = outbox[t] /\ read'[t] = read[t]
        /\ UNCHANGED edits
    BY <1>3 DEF Flush, StateTypes
  <2>2. Issued' = Issued
    BY <2>1 DEF Issued
  <2>3. \A t \in Session : Held(t)' = Held(t)
    <3>1. UNION (read[s] \cup {outbox[s]}) = outbox[s] \cup (UNION read[s])
      OBVIOUS
    <3> QED
      BY <2>1, <3>1 DEF Held
  <2>4. EditsIssued' /\ IssuedEdits'
    BY <2>1, <2>2 DEF EditInv, EditsIssued, IssuedEdits
  <2>5. OwnOps'
    BY <2>1, <2>2, <2>3 DEF EditInv, OwnOps
  <2>6. CallsWhole'
    BY <2>1, <2>2 DEF EditInv, CallsWhole
  <2> QED
    BY <2>4, <2>5, <2>6 DEF EditInv
<1>4. ASSUME NEW s \in Session, NEW F \in SUBSET (files \ read[s]), Sync(s, F)
      PROVE  EditInv'
  <2>1. /\ read'[s] = read[s] \cup F
        /\ \A t \in Session \ {s} : read'[t] = read[t]
        /\ UNCHANGED <<files, outbox, edits>>
    BY <1>4 DEF Sync, StateTypes
  <2>2. Issued' = Issued
    BY <2>1 DEF Issued
  <2>3. \A t \in Session : Held(t) \subseteq Held(t)'
    BY <2>1 DEF Held
  <2> QED
    BY <2>1, <2>2, <2>3 DEF EditInv, EditsIssued, IssuedEdits, OwnOps, CallsWhole
<1> QED
  BY <1>1, <1>2, <1>3, <1>4, StepKinds

(* Every edit is carried by the op of its call, in every state, and calls
   travel whole (record.rs `insert` and `update`, store.rs `flush`). *)
THEOREM EditInvariant ==
  ASSUME WritesEveryField, OwnUsers
  PROVE  Spec => []EditInv
  BY MergeInvariant, EditInit, EditNext, PTL DEF Spec

(* Of every field a session shows what the latest edit it knows gave it
   (record.rs `update`: concurrent edits of other fields are kept). *)
THEOREM LatestEditIsShown ==
  ASSUME WritesEveryField, OwnUsers
  PROVE  Spec => []LatestEditShows
<1>1. ASSUME MergeInv, EditInv
      PROVE  LatestEditShows
  <2> SUFFICES ASSUME NEW s \in Session, NEW i \in KnownEdits(s), ~Purged(current[s], i.ent)
               PROVE  \/ \E j \in KnownEdits(s) :
                           j.ent = i.ent /\ j.field = i.field /\ j.tx > i.tx
                      \/ Stored(current[s], i.ent, i.field) = {i.value}
                      \/ Stored(current[s], i.ent, i.field) = {} /\ i.value = JNull
    BY DEF LatestEditShows
  <2>1. i \in edits /\ (i.user = UserOf[s] \/ \E o \in UNION read[s] : o.tx = i.tx)
    BY DEF KnownEdits
  <2>2. CASE i.field \notin DataField
    BY <1>1, <2>1, <2>2 DEF EditInv, EditsIssued, Stored
  <2>3. CASE i.field \in DataField
    <3>1. i \in Issued
      BY <1>1, <2>1, <2>3, RecordsAssumption DEF EditInv, EditsIssued
    <3>2. read[s] \subseteq files /\ Held(s) \in SUBSET Op /\ Held(s) \subseteq Issued
      BY <1>1, HeldType DEF MergeInv, StateTypes, Held, Issued
    <3>3. i \in Held(s)
      <4>1. ASSUME NEW o \in UNION read[s], o.tx = i.tx
            PROVE  i \in UNION read[s]
        <5>1. PICK F \in read[s] : o \in F
          OBVIOUS
        <5>2. F \in files /\ o \in Issued
          BY <3>2, <5>1 DEF Issued
        <5> QED
          BY <1>1, <3>1, <4>1, <5>1, <5>2 DEF EditInv, CallsWhole
      <4> QED
        BY <1>1, <2>1, <3>1, <4>1 DEF EditInv, OwnOps, Held
    <3>4. /\ current[s] = Winners(Held(s)) /\ current[s] \subseteq Held(s)
          /\ Minimal(current[s])
      BY <1>1 DEF MergeInv, ShowsHeld, Winners, Minimal
    <3>5. PICK p \in current[s] : p = i \/ Supersedes(p, i)
      BY <3>2, <3>3, <3>4, WinnersCover DEF Covers
    <3>6. p \in Op /\ i \in Op /\ p \in Issued
      BY <3>2, <3>3, <3>4, <3>5
    <3>7. p.ent = i.ent /\ p.field = i.field
      <4>1. p.ent = i.ent
        BY <3>5 DEF Supersedes
      <4>2. ~IsPurge(p)
        BY <4>1 DEF Purged, Facts
      <4> QED
        BY <3>5, <4>1, <4>2 DEF Supersedes
    <3>8. p.tx >= i.tx
      <4>1. p.tx \in Int /\ i.tx \in Int
        BY <3>6, EavcAssumption DEF Op, Tx
      <4>2. CASE p = i
        BY ONLY <4>1, <4>2
      <4>3. CASE Wins(p, i)
        BY <2>3, <3>7, <4>1, <4>3, EavcAssumption DEF Wins
      <4> QED
        BY <3>5, <3>7, <4>2, <4>3 DEF Supersedes
    <3>9. CASE p.tx > i.tx
      <4>1. p \in edits
        BY <1>1, <2>3, <3>6, <3>7 DEF EditInv, IssuedEdits
      <4>2. p \in outbox[s] \/ p \in UNION read[s]
        BY <3>4 DEF Held
      <4>3. p \in KnownEdits(s)
        BY <1>1, <4>1, <4>2 DEF KnownEdits, EditInv, OwnOps
      <4> QED
        BY <3>7, <3>9, <4>3
    <3>10. CASE p.tx = i.tx
      <4>1. p = i
        BY <1>1, <3>1, <3>6, <3>7, <3>10 DEF EditInv, CallsWhole
      <4>2. ASSUME NEW q \in current[s], q.ent = i.ent, q.field = i.field
            PROVE  q = i
        <5>1. q \in Op
          BY <3>2, <3>4
        <5>2. ~Supersedes(q, i) /\ ~Supersedes(i, q)
          BY <3>4, <4>1 DEF Minimal
        <5> QED
          BY <3>6, <4>2, <5>1, <5>2, SupersedesTotal
      <4> QED
        BY <2>3, <4>1, <4>2 DEF Stored, Facts
    <3>11. p.tx \in Int /\ i.tx \in Int
      BY <3>6, EavcAssumption DEF Op, Tx
    <3>12. p.tx > i.tx \/ p.tx = i.tx
      BY ONLY <3>8, <3>11
    <3> QED
      BY <3>9, <3>10, <3>12
  <2> QED
    BY <2>2, <2>3
<1> QED
  BY <1>1, MergeInvariant, EditInvariant, PTL

-----------------------------------------------------------------------------
(***************************************************************************)
(* Records that decode.                                                    *)
(***************************************************************************)
\* The keys a record cannot be decoded without.
Required(t) == t.keys \ (t.nullable \cup t.filled)

\* The structs stored in one table fit: keys are skipped only while None; what
\* one requires, the others write, with a value where it may not be None.
StructsFit ==
  /\ SkipsOnlyNone
  /\ \A T \in Tables : \A t, u \in T :
       /\ Required(t) \subseteq DataField
       /\ Required(t) \subseteq u.keys \ u.skipped
       /\ t.keys \cap u.nullable \subseteq t.nullable

\* What is required of an entity is among the ops of X.
Complete(X, e) ==
  \A t \in types : \A k \in Required(t) : \E p \in X : p.ent = e /\ p.field = k

RemovalsAreTrue == \A o \in Issued : o.field \notin DataField => o.value = JTrue

NullsFit ==
  \A o \in Issued : o.field \in DataField /\ o.value = JNull =>
    \A t \in types : o.field \in t.keys => o.field \in t.nullable

\* Wherever a field of an entity is, the file or the session, an insert is not
\* far: a session writes fields of what it has inserted or read.
InsertsAreNear ==
  /\ \A s \in Session : \A o \in outbox[s] :
       o.field \in DataField => Complete((UNION files) \cup outbox[s], o.ent)
  /\ \A o \in UNION files : o.field \in DataField => Complete(UNION files, o.ent)

FitInv == RemovalsAreTrue /\ NullsFit /\ InsertsAreNear

(* Nothing is issued. *)
LEMMA FitInit == Init => FitInv
  BY DEF Init, FitInv, RemovalsAreTrue, NullsFit, InsertsAreNear, Issued

(* More ops are complete too. *)
LEMMA CompleteGrows ==
  ASSUME NEW X, NEW Y, NEW e, X \subseteq Y, Complete(X, e)
  PROVE  Complete(Y, e)
  BY DEF Complete

(* A live entity has a field that is not a system field. *)
LEMMA LiveHasData ==
  ASSUME MergeInv, FitInv, NEW s \in Session, NEW e, Live(current[s], e)
  PROVE  \E o \in current[s] : o.ent = e /\ o.field \in DataField
<1>1. /\ Facts(current[s], e) # {} /\ ~Purged(current[s], e)
      /\ ~ \E d \in Facts(current[s], e) : DeletedBy(current[s], e, d)
  BY LiveMeans
<1>2. current[s] \subseteq Issued /\ current[s] \in SUBSET Op
  BY DEF MergeInv, StateTypes, ShowsHeld, Winners, Held, Issued
<1>3. PICK o \in Facts(current[s], e) : TRUE
  BY <1>1
<1>4. SUFFICES ASSUME \A p \in Facts(current[s], e) : p.field \notin DataField
               PROVE  FALSE
  BY DEF Facts
<1>5. o.value = JTrue /\ o.field \in {DELETED, PURGE}
  BY <1>2, <1>3, <1>4 DEF Facts, FitInv, RemovalsAreTrue, Op, Field
<1>6. o.field # PURGE
  BY <1>1, <1>5 DEF Purged, IsPurge
<1> QED
  BY <1>1, <1>4, <1>5, <1>6 DEF DeletedBy

(* What a live entity requires is among what the session has to flush and
   the files. *)
LEMMA LiveIsComplete ==
  ASSUME MergeInv, FitInv, NEW s \in Session, NEW e, Live(current[s], e)
  PROVE  Complete((UNION files) \cup outbox[s], e)
<1>1. PICK o \in current[s] : o.ent = e /\ o.field \in DataField
  BY LiveHasData
<1>2. o \in outbox[s] \/ o \in UNION files
  BY DEF MergeInv, StateTypes, ShowsHeld, Winners, Held
<1>3. CASE o \in outbox[s]
  BY <1>1, <1>3 DEF FitInv, InsertsAreNear
<1>4. CASE o \in UNION files
  BY <1>1, <1>4, CompleteGrows DEF FitInv, InsertsAreNear
<1> QED
  BY <1>2, <1>3, <1>4

(* The values of a call: true for a removal, null only where it may be. *)
LEMMA CallFits ==
  ASSUME StructsFit, types \in Tables, NEW s, NEW e, NEW fields, NEW meant,
         EditOf(s, e, fields, meant) \/ Removal(fields, meant)
  PROVE  \A k \in DOMAIN fields :
           /\ k \notin DataField => fields[k] = JTrue
           /\ k \in DataField /\ fields[k] = JNull =>
                \A t \in types : k \in t.keys => k \in t.nullable
<1>1. \A t, u \in types : t.keys \cap u.nullable \subseteq t.nullable
  BY DEF StructsFit
<1>2. ASSUME NEW u \in types, NEW r \in RecordsOf(u), NoReserved(u, r), fields = ToFields(u, r)
      PROVE  \A k \in DOMAIN fields : fields[k] = JNull => k \in u.nullable
  BY <1>2 DEF ToFields, RecordsOf, Serialized
<1>3. ASSUME NEW u \in types, NEW old, NEW new \in RecordsOf(u), fields = Changed(u, old, new)
      PROVE  \A k \in DOMAIN fields : fields[k] = JNull => k \in u.nullable
  <2>1. u.skipped \subseteq u.nullable
    BY StructType DEF StructsFit, SkipsOnlyNone
  <2>2. ASSUME NEW k \in DOMAIN fields, fields[k] = JNull
        PROVE  k \in u.nullable
    <3>1. /\ k \in Serialized(u, old) \cup Serialized(u, new)
          /\ fields[k] = IF k \in Serialized(u, new) THEN new[k] ELSE JNull
      BY <1>3, ChangedFields
    <3> QED
      BY <2>1, <2>2, <3>1 DEF Serialized, RecordsOf
  <2> QED
    BY <2>2
<1>4. CASE EditOf(s, e, fields, meant)
  <2>1. DOMAIN fields \subseteq DataField
    BY <1>4, CallFields
  <2>2. \E u \in types : \A k \in DOMAIN fields : fields[k] = JNull => k \in u.nullable
    BY <1>2, <1>3, <1>4 DEF EditOf
  <2> QED
    BY <1>1, <2>1, <2>2
<1>5. CASE Removal(fields, meant)
  BY <1>5, EavcAssumption DEF Removal
<1> QED
  BY <1>4, <1>5

(* An insert writes what every struct requires; an update is of a record
   that is live, whose insert is therefore near. *)
LEMMA FitNext ==
  ASSUME StructsFit, MergeInv, FitInv, [Next]_vars
  PROVE  FitInv'
<1> USE DEF MergeInv
<1>1. CASE UNCHANGED vars
  BY <1>1 DEF vars, FitInv, RemovalsAreTrue, NullsFit, InsertsAreNear, Complete, Issued
<1>2. ASSUME NEW s \in Session, NEW e \in Entity, NEW fields, NEW meant,
             EditOf(s, e, fields, meant) \/ Removal(fields, meant),
             Write(s, e, fields, meant)
      PROVE  FitInv'
  <2>1. PICK tx \in FreshTx(s) :
          /\ outbox' = [outbox EXCEPT ![s] = @ \cup OpsOf(s, tx, e, fields)]
          /\ UNCHANGED <<types, files, read>>
    BY <1>2, WriteEffect
  <2>2. PICK ops : ops = OpsOf(s, tx, e, fields)
    OBVIOUS
  <2>3. /\ Issued' = Issued \cup ops
        /\ outbox'[s] = outbox[s] \cup ops
        /\ \A x \in Session \ {s} : outbox'[x] = outbox[x]
    BY <2>1, <2>2, WriteIssues
  <2>4. /\ \A o \in ops : o.ent = e /\ o.field \in DOMAIN fields /\ o.value = fields[o.field]
        /\ \A k \in DOMAIN fields : \E o \in ops : o.ent = e /\ o.field = k
    <3>1. \A o \in ops : o.ent = e /\ o.field \in DOMAIN fields /\ o.value = fields[o.field]
      BY <2>2 DEF OpsOf
    <3>2. ASSUME NEW k \in DOMAIN fields
          PROVE  \E o \in ops : o.ent = e /\ o.field = k
      <4> DEFINE op == [tx |-> tx, ent |-> e, field |-> k, value |-> fields[k],
                        user |-> UserOf[s]]
      <4>1. op \in ops /\ op.ent = e /\ op.field = k
        BY <2>2 DEF OpsOf
      <4> QED
        BY <4>1
    <3> QED
      BY <3>1, <3>2
  <2>5. types \in Tables
    BY DEF StateTypes
  <2>6. \A k \in DOMAIN fields :
          /\ k \notin DataField => fields[k] = JTrue
          /\ k \in DataField /\ fields[k] = JNull =>
               \A t \in types : k \in t.keys => k \in t.nullable
    BY <1>2, <2>5, CallFits
  <2>7. RemovalsAreTrue' /\ NullsFit'
    BY <2>1, <2>3, <2>4, <2>6 DEF FitInv, RemovalsAreTrue, NullsFit
  <2>8. ASSUME EditOf(s, e, fields, meant)
        PROVE  Complete((UNION files) \cup outbox[s] \cup ops, e)
    <3>1. ASSUME NEW u \in types, NEW r, fields = ToFields(u, r)
          PROVE  Complete(ops, e)
      <4>1. \A t \in types : Required(t) \subseteq u.keys \ u.skipped
        BY <2>5 DEF StructsFit
      <4>2. DOMAIN fields = Serialized(u, r)
        BY <3>1 DEF ToFields
      <4> QED
        BY <2>4, <4>1, <4>2 DEF Complete, Serialized
    <3>2. ASSUME NEW u \in types, Get(current[s], e, u) # {}
          PROVE  Complete((UNION files) \cup outbox[s], e)
      <4>1. Live(current[s], e)
        BY <3>2 DEF Get
      <4> QED
        BY <4>1, LiveIsComplete
    <3>3. Complete(ops, e) \/ Complete((UNION files) \cup outbox[s], e)
      BY <2>8, <3>1, <3>2 DEF EditOf
    <3> QED
      BY <3>3, CompleteGrows
  <2>9. ASSUME NEW o \in ops, o.field \in DataField
        PROVE  Complete((UNION files) \cup outbox'[s], o.ent)
    <3>1. EditOf(s, e, fields, meant)
      BY <1>2, <2>4, <2>9, EavcAssumption DEF Removal
    <3>2. (UNION files) \cup outbox[s] \cup ops = (UNION files) \cup outbox'[s]
      BY <2>3
    <3> QED
      BY <2>4, <2>8, <3>1, <3>2
  <2>10. ASSUME NEW x \in Session, NEW o \in outbox'[x], o.field \in DataField
         PROVE  Complete((UNION files) \cup outbox'[x], o.ent)
    <3>1. CASE o \in outbox[x]
      <4>1. (UNION files) \cup outbox[x] \subseteq (UNION files) \cup outbox'[x]
        BY <2>3
      <4>2. Complete((UNION files) \cup outbox[x], o.ent)
        BY <2>10, <3>1 DEF FitInv, InsertsAreNear
      <4> QED
        BY <4>1, <4>2, CompleteGrows
    <3>2. CASE o \notin outbox[x]
      BY <2>3, <2>9, <2>10, <3>2
    <3> QED
      BY <3>1, <3>2
  <2>11. InsertsAreNear'
    BY <2>1, <2>10 DEF FitInv, InsertsAreNear, Complete
  <2> QED
    BY <2>7, <2>11 DEF FitInv
<1>3. ASSUME NEW s \in Session, Flush(s)
      PROVE  FitInv'
  <2>1. /\ files' = files \cup {outbox[s]}
        /\ outbox'[s] = {}
        /\ \A t \in Session \ {s} : outbox'[t] = outbox[t]
        /\ UNCHANGED types
    BY <1>3 DEF Flush, StateTypes
  <2>2. Issued' = Issued /\ UNION files' = (UNION files) \cup outbox[s]
    BY <2>1 DEF Issued
  <2>3. RemovalsAreTrue' /\ NullsFit'
    BY <2>1, <2>2 DEF FitInv, RemovalsAreTrue, NullsFit
  <2>4. ASSUME NEW t \in Session, NEW o \in outbox'[t], o.field \in DataField
        PROVE  Complete((UNION files') \cup outbox'[t], o.ent)
    <3>1. outbox'[t] = outbox[t]
      BY <2>1, <2>4
    <3>2. (UNION files) \cup outbox[t] \subseteq (UNION files') \cup outbox'[t]
      BY <2>2, <3>1
    <3>3. Complete((UNION files) \cup outbox[t], o.ent)
      BY <2>4, <3>1 DEF FitInv, InsertsAreNear
    <3> QED
      BY <3>2, <3>3, CompleteGrows
  <2>5. ASSUME NEW o \in UNION files', o.field \in DataField
        PROVE  Complete(UNION files', o.ent)
    <3>1. CASE o \in UNION files
      BY <2>2, <2>5, <3>1, CompleteGrows DEF FitInv, InsertsAreNear
    <3>2. CASE o \in outbox[s]
      BY <2>2, <2>5, <3>2 DEF FitInv, InsertsAreNear
    <3> QED
      BY <2>2, <3>1, <3>2
  <2>6. InsertsAreNear'
    BY <2>1, <2>4, <2>5 DEF InsertsAreNear, Complete
  <2> QED
    BY <2>3, <2>6 DEF FitInv
<1>4. ASSUME NEW s \in Session, NEW F \in SUBSET (files \ read[s]), Sync(s, F)
      PROVE  FitInv'
  <2>1. UNCHANGED <<types, files, outbox>>
    BY <1>4 DEF Sync
  <2> QED
    BY <2>1 DEF FitInv, RemovalsAreTrue, NullsFit, InsertsAreNear, Complete, Issued
<1> QED
  BY <1>1, <1>2, <1>3, <1>4, StepKinds

(* No field is issued far from the insert of its record, or null where a
   struct refuses it (record.rs `insert` and `update`). *)
THEOREM FitInvariant ==
  ASSUME StructsFit
  PROVE  Spec => []FitInv
  BY MergeInvariant, FitInit, FitNext, PTL DEF Spec

(* A session that has read all files can decode every live record (README.md
   "Incomplete or mismatched records"), if the structs fit. *)
THEOREM SettledRecordsDecode ==
  ASSUME StructsFit
  PROVE  Spec => []SettledDecodes
<1>1. ASSUME MergeInv, FitInv
      PROVE  SettledDecodes
  <2> SUFFICES ASSUME NEW s \in Session, \A o \in UNION files : Covers(current[s], o),
                      NEW t \in types, NEW e \in Entity, Live(current[s], e),
                      NEW k \in t.keys
               PROVE  IF Stored(current[s], e, k) = {} THEN k \in t.nullable \cup t.filled
                      ELSE JNull \in Stored(current[s], e, k) => k \in t.nullable
    BY DEF SettledDecodes, Invalid, Ids, Decodes
  <2>1. /\ current[s] \subseteq Issued
        /\ Held(s) \in SUBSET Op /\ outbox[s] \subseteq Held(s)
        /\ current[s] = Winners(Held(s))
    BY <1>1, HeldType DEF MergeInv, StateTypes, ShowsHeld, Winners, Held, Issued
  <2>2. JNull \in Stored(current[s], e, k) => k \in t.nullable
    BY <1>1, <2>1 DEF Stored, Facts, FitInv, NullsFit
  <2>3. ASSUME Stored(current[s], e, k) = {}, k \in Required(t)
        PROVE  FALSE
    <3>1. k \in DataField
      BY <1>1, <2>3 DEF MergeInv, StateTypes, StructsFit
    <3>2. PICK p \in (UNION files) \cup outbox[s] : p.ent = e /\ p.field = k
      BY <1>1, <2>3, LiveIsComplete DEF Complete
    <3>3. Covers(current[s], p)
      BY <2>1, WinnersCover
    <3>4. PICK q \in current[s] : q = p \/ Supersedes(q, p)
      BY <3>3 DEF Covers
    <3>5. ~IsPurge(q) \/ q.ent # e
      BY LiveMeans DEF Purged, Facts
    <3>6. q.ent = e /\ q.field = k
      BY <3>2, <3>4, <3>5 DEF Supersedes
    <3> QED
      BY <2>3, <3>1, <3>6 DEF Stored, Facts
  <2> QED
    BY <2>2, <2>3 DEF Required
<1> QED
  BY <1>1, MergeInvariant, FitInvariant, PTL

-----------------------------------------------------------------------------
(***************************************************************************)
(* The derive macro works on names of any length, with operators that are  *)
(* folds and recursive functions: sequences put end to end, words split    *)
(* off a name.  What such an operator gives for a name with one more       *)
(* character is stated once for each, and the rest follows by induction    *)
(* on the name: a set of names that holds the empty one, and with a name   *)
(* every name one character longer, holds them all.                        *)
(***************************************************************************)

(* Induction on the naturals, for a set: a least number outside it would
   follow one inside it. *)
LEMMA NatSetInduction ==
  ASSUME NEW T, 0 \in T, \A n \in Nat : n \in T => n + 1 \in T
  PROVE  Nat \subseteq T
<1> DEFINE D == Nat \ T
           Rel == {ss \in Nat \X Nat : ss[1] < ss[2]}
<1>1. SUFFICES ASSUME D # {}
               PROVE  FALSE
  OBVIOUS
<1>2. IsWellFoundedOn(Rel, Nat) /\ D \subseteq Nat
  BY NatLessThanWellFounded DEF OpToRel
<1> HIDE DEF D, Rel
<1>3. PICK m \in D : \A n \in D : <<n, m>> \notin Rel
  BY ONLY <1>1, <1>2, WFMin
<1>4. m \in Nat /\ m \notin T /\ m # 0
  BY DEF D
<1>5. m - 1 \in Nat /\ m - 1 \notin D
  <2>1. m - 1 \in Nat /\ m - 1 < m
    BY <1>4
  <2>2. <<m - 1, m>> \in Rel
    BY <1>4, <2>1 DEF Rel
  <2> QED
    BY <1>3, <2>1, <2>2
<1>6. m - 1 \in T /\ (m - 1) + 1 = m
  BY <1>4, <1>5 DEF D
<1> QED
  BY <1>4, <1>5, <1>6

(* Two functions that start alike and go on alike are alike. *)
Alike(f, g, lo, hi) == \A n \in lo .. hi : f[n] = g[n]

GoOnAlike(f, g, lo, hi) ==
  \A n \in lo .. hi : n # lo /\ f[n - 1] = g[n - 1] => f[n] = g[n]

LEMMA SameSteps ==
  ASSUME NEW lo \in Nat, NEW hi \in Nat, NEW f, NEW g,
         f[lo] = g[lo], GoOnAlike(f, g, lo, hi)
  PROVE  Alike(f, g, lo, hi)
<1> DEFINE T == {k \in Nat : lo + k <= hi => f[lo + k] = g[lo + k]}
<1>1. 0 \in T
  OBVIOUS
<1>2. ASSUME NEW k \in Nat, k \in T
      PROVE  k + 1 \in T
  <2>1. SUFFICES ASSUME lo + (k + 1) <= hi
                 PROVE  f[lo + (k + 1)] = g[lo + (k + 1)]
    OBVIOUS
  <2>2. lo + (k + 1) \in lo .. hi /\ lo + (k + 1) # lo /\ (lo + (k + 1)) - 1 = lo + k
    BY <2>1
  <2>3. f[lo + k] = g[lo + k]
    BY <1>2, <2>1
  <2> QED
    BY <2>2, <2>3 DEF GoOnAlike
<1> HIDE DEF T
<1>3. Nat \subseteq T
  BY ONLY <1>1, <1>2, NatSetInduction
<1>4. ASSUME NEW n \in lo .. hi
      PROVE  f[n] = g[n]
  <2>1. n - lo \in Nat /\ lo + (n - lo) = n /\ n <= hi
    OBVIOUS
  <2> QED
    BY <1>3, <2>1 DEF T
<1> QED
  BY <1>4 DEF Alike

(* A function may be defined from its value at one number to the next. *)
IsRecursive(g, a, step, lo, hi) ==
  g = [n \in lo .. hi |-> IF n = lo THEN a ELSE step[n][g[n - 1]]]

LEMMA RecursionExists ==
  ASSUME NEW X, NEW a \in X, NEW lo \in Nat, NEW hi \in Nat,
         NEW step \in [Nat -> [X -> X]]
  PROVE  \E g \in [lo .. hi -> X] : IsRecursive(g, a, step, lo, hi)
<1> DEFINE Rec(g, m) == \A n \in lo .. m : g[n] = IF n = lo THEN a ELSE step[n][g[n - 1]]
           T == {k \in Nat : \E g \in [lo .. lo + k -> X] : Rec(g, lo + k)}
<1>1. 0 \in T
  <2>1. [n \in lo .. lo + 0 |-> a] \in [lo .. lo + 0 -> X]
    OBVIOUS
  <2>2. Rec([n \in lo .. lo + 0 |-> a], lo + 0)
    OBVIOUS
  <2> QED
    BY <2>1, <2>2
<1>2. ASSUME NEW k \in Nat, k \in T
      PROVE  k + 1 \in T
  <2>1. PICK g \in [lo .. lo + k -> X] : Rec(g, lo + k)
    BY <1>2
  <2> DEFINE m == lo + k
             h == [n \in lo .. m + 1 |-> IF n = m + 1 THEN step[n][g[m]] ELSE g[n]]
  <2>2. m \in Nat /\ m + 1 = lo + (k + 1) /\ m \in lo .. m
    OBVIOUS
  <2>3. g \in [lo .. m -> X] /\ Rec(g, m)
    BY <2>1
  <2> HIDE DEF m
  <2>4. h \in [lo .. m + 1 -> X]
    BY <2>2, <2>3
  <2>5. ASSUME NEW n \in lo .. m + 1
        PROVE  h[n] = IF n = lo THEN a ELSE step[n][h[n - 1]]
    <3>1. CASE n = m + 1
      BY <2>2, <3>1
    <3>2. CASE n # m + 1
      <4>1. n \in lo .. m /\ h[n] = g[n]
        BY <2>2, <3>2
      <4>2. n # lo => n - 1 \in lo .. m /\ h[n - 1] = g[n - 1]
        BY <2>2, <4>1
      <4> QED
        BY <2>3, <4>1, <4>2
    <3> QED
      BY <3>1, <3>2
  <2>6. Rec(h, m + 1)
    BY <2>5
  <2> HIDE DEF h, Rec
  <2> QED
    BY <2>2, <2>4, <2>6
<1> HIDE DEF T
<1>3. Nat \subseteq T
  BY ONLY <1>1, <1>2, NatSetInduction
<1>4. CASE lo <= hi
  <2>1. hi - lo \in Nat /\ lo + (hi - lo) = hi
    BY <1>4
  <2>2. hi - lo \in T
    BY <1>3, <2>1
  <2> HIDE DEF Rec
  <2>3. PICK g \in [lo .. hi -> X] : Rec(g, hi)
    BY <2>1, <2>2 DEF T
  <2> QED
    BY <2>3 DEF Rec, IsRecursive
<1>5. CASE ~(lo <= hi)
  <2>1. lo .. hi = {}
    BY <1>5
  <2> DEFINE g == [n \in lo .. hi |-> a]
  <2>2. g \in [lo .. hi -> X] /\ IsRecursive(g, a, step, lo, hi)
    BY <2>1 DEF IsRecursive
  <2> QED
    BY <2>2
<1> QED
  BY <1>4, <1>5

-----------------------------------------------------------------------------
(* Sequences put end to end.                                               *)

(* The recursive function of FlattenSeq. *)
IsFlat(f, s) ==
  f = [i \in 1 .. Len(s) |-> IF i = 1 THEN s[i] ELSE f[i - 1] \o s[i]]

FlatSteps(f, s) ==
  \A i \in 1 .. Len(s) : /\ i = 1 => f[i] = s[i]
                         /\ i # 1 => f[i] = f[i - 1] \o s[i]

LEMMA FlatAt ==
  ASSUME NEW f, NEW s, IsFlat(f, s)
  PROVE  FlatSteps(f, s)
<1> SUFFICES ASSUME NEW i \in 1 .. Len(s)
              PROVE  /\ i = 1 => f[i] = s[i]
                     /\ i # 1 => f[i] = f[i - 1] \o s[i]
  BY DEF FlatSteps
<1> DEFINE h == [j \in 1 .. Len(s) |-> IF j = 1 THEN s[j] ELSE f[j - 1] \o s[j]]
<1>1. f = h
  BY DEF IsFlat
<1>2. h[i] = IF i = 1 THEN s[i] ELSE f[i - 1] \o s[i]
  OBVIOUS
<1>3. f[i] = h[i]
  BY <1>1, Zenon
<1> HIDE DEF h
<1> QED
  BY <1>2, <1>3, Zenon

LEMMA FlatUnique ==
  ASSUME NEW f, NEW g, NEW s, NEW t, NEW m \in Nat, NEW k \in Nat,
         m = Len(s), k = Len(t), m <= k, \A i \in 1 .. m : t[i] = s[i],
         IsFlat(f, s), IsFlat(g, t)
  PROVE  Alike(f, g, 1, m)
<1>0. FlatSteps(f, s) /\ FlatSteps(g, t)
  BY FlatAt, Zenon
<1>1. \A n \in 1 .. m : n \in 1 .. k
  OBVIOUS
<1>2. ASSUME NEW n \in 1 .. m, n # 1, f[n - 1] = g[n - 1]
      PROVE  f[n] = g[n]
  <2>1. n \in 1 .. Len(s) /\ n \in 1 .. Len(t) /\ t[n] = s[n]
    BY <1>1, Zenon
  <2>2. f[n] = f[n - 1] \o s[n]
    BY ONLY <1>0, <1>2, <2>1, Zenon DEF FlatSteps
  <2>3. g[n] = g[n - 1] \o t[n]
    BY ONLY <1>0, <1>2, <2>1, Zenon DEF FlatSteps
  <2> QED
    BY ONLY <1>2, <2>1, <2>2, <2>3, Zenon
<1>3. CASE m = 0
  BY <1>3 DEF Alike
<1>4. CASE m # 0
  <2>1. 1 \in 1 .. m /\ 1 \in 1 .. k
    BY <1>4
  <2>2. 1 \in 1 .. Len(s) /\ 1 \in 1 .. Len(t) /\ t[1] = s[1]
    BY <2>1, Zenon
  <2>3. f[1] = s[1]
    BY ONLY <1>0, <2>2, Zenon DEF FlatSteps
  <2>4. g[1] = t[1]
    BY ONLY <1>0, <2>2, Zenon DEF FlatSteps
  <2>5. f[1] = g[1]
    BY ONLY <2>2, <2>3, <2>4, Zenon
  <2>6. GoOnAlike(f, g, 1, m)
    BY ONLY <1>2, Zenon DEF GoOnAlike
  <2> QED
    BY ONLY <2>5, <2>6, m \in Nat, 1 \in Nat, SameSteps
<1> QED
  BY <1>3, <1>4

(* FlattenSeq is the last value of a function to sequences. *)
LEMMA FlattenIs ==
  ASSUME NEW X, NEW s \in Seq(Seq(X)), NEW m \in Nat, m = Len(s), m # 0
  PROVE  \E f : /\ f \in [1 .. m -> Seq(X)] /\ IsFlat(f, s)
                /\ FlattenSeq(s) = f[m]
<1> DEFINE S == Seq(X)
           step == [n \in Nat |-> [w \in S |-> IF n \in 1 .. m THEN w \o s[n] ELSE w]]
<1>1. 1 \in 1 .. m /\ \A i \in 1 .. m : s[i] \in S
  OBVIOUS
<1>2. step \in [Nat -> [S -> S]]
  BY <1>1
<1>3. PICK f : f \in [1 .. m -> S] /\ IsRecursive(f, s[1], step, 1, m)
  <2>1. s[1] \in S /\ 1 \in Nat
    BY <1>1
  <2> HIDE DEF S, step
  <2> QED
    BY ONLY <1>2, <2>1, m \in Nat, RecursionExists
<1>4. IsFlat(f, s)
  <2>1. ASSUME NEW n \in 1 .. m, n # 1
        PROVE  step[n][f[n - 1]] = f[n - 1] \o s[n]
    <3>1. n \in Nat /\ n - 1 \in 1 .. m
      BY <2>1
    <3>2. f[n - 1] \in S
      BY <1>3, <3>1
    <3> QED
      BY <2>1, <3>1, <3>2
  <2> HIDE DEF step
  <2>2. f = [n \in 1 .. m |-> IF n = 1 THEN s[n] ELSE f[n - 1] \o s[n]]
    <3>1. \A n \in 1 .. m : (IF n = 1 THEN s[1] ELSE step[n][f[n - 1]])
                             = (IF n = 1 THEN s[n] ELSE f[n - 1] \o s[n])
      BY <2>1, Zenon
    <3> QED
      BY <1>3, <3>1, Zenon DEF IsRecursive
  <2> QED
    BY <2>2, Zenon DEF IsFlat
<1>5. ASSUME NEW g, IsFlat(g, s)
      PROVE  g = f
  <2>1. Alike(g, f, 1, m)
    <3>1. m <= m /\ \A i \in 1 .. m : s[i] = s[i]
      OBVIOUS
    <3> QED
      BY ONLY <1>4, <1>5, <3>1, FlatUnique, m \in Nat, m = Len(s)
  <2>2. g = [n \in 1 .. m |-> g[n]] /\ f = [n \in 1 .. m |-> f[n]]
    BY ONLY <1>4, <1>5, m = Len(s), Zenon DEF IsFlat
  <2>3. \A n \in 1 .. m : g[n] = f[n]
    BY <2>1, Zenon DEF Alike
  <2> QED
    BY ONLY <2>2, <2>3, Zenon
<1>6. FlattenSeq(s) = (CHOOSE g : IsFlat(g, s))[m]
  BY DEF FlattenSeq, IsFlat
<1>7. (CHOOSE g : IsFlat(g, s)) = f
  BY <1>4, <1>5, Zenon
<1> QED
  BY <1>3, <1>4, <1>6, <1>7, Zenon

(* What is put end to end is a sequence again. *)
LEMMA FlattenType ==
  ASSUME NEW X, NEW s \in Seq(Seq(X))
  PROVE  FlattenSeq(s) \in Seq(X)
<1> DEFINE m == Len(s)
<1>1. m \in Nat
  OBVIOUS
<1>2. CASE m = 0
  <2>1. s = <<>> /\ FlattenSeq(s) = s
    BY <1>2 DEF FlattenSeq
  <2>2. <<>> \in Seq(X)
    OBVIOUS
  <2> QED
    BY <2>1, <2>2, Zenon
<1>3. CASE m # 0
  <2>1. PICK f : f \in [1 .. m -> Seq(X)] /\ FlattenSeq(s) = f[m]
    BY <1>1, <1>3, FlattenIs, Zenon
  <2>2. m \in 1 .. m
    BY <1>1, <1>3
  <2> QED
    BY ONLY <2>1, <2>2, Zenon
<1> QED
  BY <1>2, <1>3

(* One more sequence goes at the end. *)
LEMMA FlattenAppend ==
  ASSUME NEW X, NEW s \in Seq(Seq(X)), NEW w \in Seq(X)
  PROVE  FlattenSeq(Append(s, w)) = FlattenSeq(s) \o w
<1> DEFINE t == Append(s, w)
           m == Len(s)
           k == m + 1
<1>1. /\ t \in Seq(Seq(X)) /\ Len(t) = k /\ t[k] = w
      /\ \A i \in 1 .. m : t[i] = s[i]
  <2> DEFINE S == Seq(X)
  <2>1. s \in Seq(S) /\ w \in S
    OBVIOUS
  <2> HIDE DEF S
  <2>2. /\ t \in Seq(S) /\ Len(t) = k /\ t[k] = w
        /\ \A i \in 1 .. m : t[i] = s[i]
    BY <2>1
  <2> QED
    BY <2>2 DEF S
<1>2. m \in Nat /\ k \in Nat /\ k # 0 /\ m <= k /\ k \in 1 .. k /\ k - 1 = m
  OBVIOUS
<1>3. FlattenSeq(s) \in Seq(X)
  BY FlattenType
<1>4. m = Len(s)
  OBVIOUS
<1> HIDE DEF t, m, k
<1>5. PICK g : IsFlat(g, t) /\ FlattenSeq(t) = g[k]
  <2>1. t \in Seq(Seq(X)) /\ k = Len(t) /\ k \in Nat /\ k # 0
    BY ONLY <1>1, <1>2, Zenon
  <2> QED
    BY ONLY <2>1, FlattenIs, Zenon
<1>6. k \in 1 .. Len(t)
  BY <1>1, <1>2, Zenon
<1>7. CASE m = 0
  <2>1. FlattenSeq(s) = <<>>
    BY <1>7 DEF FlattenSeq, m
  <2>2. g[k] = w
    <3>1. k = 1
      BY <1>7 DEF k
    <3>2. g[k] = t[k]
      BY ONLY <1>5, <1>6, <3>1, FlatAt, Zenon DEF FlatSteps
    <3> QED
      BY ONLY <1>1, <3>2, Zenon
  <2>3. <<>> \o w = w
    OBVIOUS
  <2> QED
    BY <1>5, <2>1, <2>2, <2>3, Zenon DEF t
<1>8. CASE m # 0
  <2>1. PICK f : IsFlat(f, s) /\ FlattenSeq(s) = f[m]
    BY <1>2, <1>4, <1>8, FlattenIs, Zenon
  <2>2. Alike(f, g, 1, m)
    BY ONLY <1>1, <1>2, <1>4, <1>5, <2>1, FlatUnique, Zenon
  <2>3. m \in 1 .. m /\ k # 1
    BY <1>2, <1>8
  <2>4. f[m] = g[m]
    BY <2>2, <2>3, Zenon DEF Alike
  <2>5. g[k] = g[k - 1] \o t[k]
    BY ONLY <1>5, <1>6, <2>3, FlatAt, Zenon DEF FlatSteps
  <2> QED
    BY ONLY <1>1, <1>2, <1>5, <2>1, <2>4, <2>5, Zenon DEF t
<1> QED
  BY <1>7, <1>8

(* The same for pieces that are told by their positions. *)
Prolongs(X, q, p, n) ==
  /\ n \in Nat /\ p \in [1 .. n -> Seq(X)] /\ q \in [1 .. n + 1 -> Seq(X)]
  /\ \A i \in 1 .. n : q[i] = p[i]

LEMMA FlattenPieces ==
  ASSUME NEW X, NEW n, NEW p, NEW q, Prolongs(X, q, p, n)
  PROVE  /\ FlattenSeq(p) \in Seq(X)
         /\ FlattenSeq(q) = FlattenSeq(p) \o q[n + 1]
<1> DEFINE S == Seq(X)
<1>1. /\ n \in Nat /\ p \in [1 .. n -> S] /\ q \in [1 .. n + 1 -> S]
      /\ \A i \in 1 .. n : q[i] = p[i]
  BY DEF Prolongs
<1> HIDE DEF S
<1>2. p \in Seq(S) /\ q[n + 1] \in S /\ q = Append(p, q[n + 1])
  <2>1. p \in Seq(S) /\ Len(p) = n
    BY <1>1
  <2>2. q[n + 1] \in S
    BY <1>1
  <2> QED
    BY <1>1, <2>1, <2>2
<1>3. p \in Seq(Seq(X)) /\ q[n + 1] \in Seq(X)
  BY <1>2 DEF S
<1>4. FlattenSeq(Append(p, q[n + 1])) = FlattenSeq(p) \o q[n + 1]
  BY ONLY <1>3, FlattenAppend, Zenon
<1> QED
  BY <1>2, <1>3, <1>4, FlattenType, Zenon

(* Induction on sequences, for a set of them. *)
LEMMA SeqSetInduction ==
  ASSUME NEW X, NEW T, <<>> \in T,
         \A a \in Seq(X), c \in X : a \in T => Append(a, c) \in T
  PROVE  Seq(X) \subseteq T
<1> DEFINE N == {n \in Nat : \A a \in Seq(X) : Len(a) = n => a \in T}
<1>1. 0 \in N
  <2>1. \A a \in Seq(X) : Len(a) = 0 => a = <<>>
    OBVIOUS
  <2> QED
    BY <2>1
<1>2. ASSUME NEW n \in Nat, n \in N
      PROVE  n + 1 \in N
  <2>1. SUFFICES ASSUME NEW a \in Seq(X), Len(a) = n + 1
                 PROVE  a \in T
    BY <1>2
  <2> DEFINE b == SubSeq(a, 1, n)
             c == a[n + 1]
  <2>2. b \in Seq(X) /\ Len(b) = n /\ c \in X /\ a = Append(b, c)
    BY <2>1
  <2>3. b \in T
    BY <1>2, <2>2
  <2> HIDE DEF b, c
  <2> QED
    BY <2>2, <2>3
<1> HIDE DEF N
<1>3. Nat \subseteq N
  BY ONLY <1>1, <1>2, NatSetInduction
<1>4. ASSUME NEW a \in Seq(X)
      PROVE  a \in T
  BY <1>3, Len(a) \in Nat DEF N
<1> QED
  BY <1>4

-----------------------------------------------------------------------------
(* Letters.                                                                *)

(* A change of case yields a character, and neither takes one away from
   among the separators nor adds one. *)
LEMMA CaseType ==
  ASSUME NEW c \in Char
  PROVE  /\ Upper(c) \in Char /\ Lower(c) \in Char
         /\ \A x \in {Underscore, Hyphen} : (Upper(c) = x <=> c = x) /\ (Lower(c) = x <=> c = x)
<1>1. ASSUME NEW p \in LowerUpper
      PROVE  /\ p[1] \in Char /\ p[2] \in Char
             /\ p[1] \notin {Underscore, Hyphen} /\ p[2] \notin {Underscore, Hyphen}
  BY <1>1, LettersAssumption
<1>2. \/ Upper(c) = c
      \/ \E p \in LowerUpper : p[1] = c /\ Upper(c) = p[2]
  BY DEF Upper
<1>3. \/ Lower(c) = c
      \/ \E p \in LowerUpper : p[2] = c /\ Lower(c) = p[1]
  BY DEF Lower
<1> QED
  BY <1>1, <1>2, <1>3

(* Upper cases that differ have lower cases that differ; what is not an
   upper case is its own lower case. *)
LEMMA LowerInjective ==
  ASSUME NEW c \in Char, NEW d \in Char,
         Lower(c) = Lower(d), IsUpper(c) <=> IsUpper(d)
  PROVE  c = d
<1>1. CASE IsUpper(c)
  <2>1. PICK p \in LowerUpper : p[2] = c /\ Lower(c) = p[1]
    BY <1>1 DEF Lower, IsUpper
  <2>2. PICK q \in LowerUpper : q[2] = d /\ Lower(d) = q[1]
    BY <1>1 DEF Lower, IsUpper
  <2> QED
    BY <2>1, <2>2, LettersAssumption
<1>2. CASE ~IsUpper(c)
  BY <1>2 DEF Lower, IsUpper
<1> QED
  BY <1>1, <1>2

-----------------------------------------------------------------------------
(* Table names.                                                            *)

SnakePiece(name, i) ==
  IF IsUpper(name[i]) /\ i > 1 THEN <<Underscore, Lower(name[i])>> ELSE <<Lower(name[i])>>

LEMMA SnakePieceType ==
  ASSUME NEW a \in Seq(Char), NEW i \in 1 .. Len(a)
  PROVE  SnakePiece(a, i) \in Seq(Char)
<1>1. Underscore \in Char
  BY LettersAssumption
<1>2. Lower(a[i]) \in Char
  BY CaseType
<1> QED
  BY <1>1, <1>2 DEF SnakePiece

(* The name of a table grows with the name of its struct. *)
LEMMA SnakeAppend ==
  ASSUME NEW a \in Seq(Char), NEW c \in Char
  PROVE  /\ ToSnakeCase(a) \in Seq(Char)
         /\ ToSnakeCase(Append(a, c)) =
              ToSnakeCase(a) \o
                (IF IsUpper(c) /\ a # <<>> THEN <<Underscore, Lower(c)>> ELSE <<Lower(c)>>)
<1> DEFINE b == Append(a, c)
           n == Len(a)
           p == [i \in 1 .. n |-> SnakePiece(a, i)]
           q == [i \in 1 .. n + 1 |-> SnakePiece(b, i)]
<1>1. /\ n \in Nat /\ b \in Seq(Char) /\ Len(b) = n + 1
      /\ b[n + 1] = c /\ \A i \in 1 .. n : b[i] = a[i]
      /\ DOMAIN a = 1 .. n /\ DOMAIN b = 1 .. n + 1
  OBVIOUS
<1> HIDE DEF b, n
<1>2. p \in [1 .. n -> Seq(Char)]
  BY SnakePieceType DEF n
<1>3. q \in [1 .. n + 1 -> Seq(Char)]
  BY <1>1, SnakePieceType
<1>4. \A i \in 1 .. n : q[i] = p[i]
  <2>1. SUFFICES ASSUME NEW i \in 1 .. n
                 PROVE  q[i] = p[i]
    OBVIOUS
  <2>2. i \in 1 .. n + 1
    BY <1>1
  <2>3. SnakePiece(b, i) = SnakePiece(a, i)
    BY <1>1, Zenon DEF SnakePiece
  <2> QED
    BY <2>2, <2>3
<1>5. FlattenSeq(p) \in Seq(Char) /\ FlattenSeq(q) = FlattenSeq(p) \o q[n + 1]
  <2>1. n \in Nat
    BY <1>1
  <2>2. Prolongs(Char, q, p, n)
    BY <1>2, <1>3, <1>4, <2>1 DEF Prolongs
  <2> HIDE DEF p, q
  <2> QED
    BY ONLY <2>2, FlattenPieces
<1>6. ToSnakeCase(a) = FlattenSeq(p) /\ ToSnakeCase(b) = FlattenSeq(q)
  BY <1>1, Zenon DEF ToSnakeCase, SnakePiece
<1>7. n + 1 > 1 <=> a # <<>>
  BY <1>1 DEF n
<1>8. q[n + 1] = IF IsUpper(c) /\ a # <<>> THEN <<Underscore, Lower(c)>> ELSE <<Lower(c)>>
  BY <1>1, <1>7 DEF SnakePiece
<1> HIDE DEF p, q
<1> QED
  BY <1>5, <1>6, <1>8, Zenon DEF b

LEMMA AppendNotEmpty ==
  ASSUME NEW X, NEW u \in Seq(X), NEW x \in X
  PROVE  Append(u, x) \in Seq(X) /\ Append(u, x) # <<>>
<1>1. Append(u, x) \in Seq(X) /\ Len(Append(u, x)) = Len(u) + 1 /\ Len(u) \in Nat
  OBVIOUS
<1>2. Append(u, x) = <<>> => Len(Append(u, x)) = 0
  OBVIOUS
<1> QED
  BY <1>1, <1>2

(* Names of structs, and what they grow from. *)
CamelCase(a) ==
  /\ a # <<>> => IsUpper(a[1])
  /\ \A i \in DOMAIN a : a[i] # Underscore

LEMMA CamelCaseGrows ==
  ASSUME NEW a \in Seq(Char), NEW c \in Char, CamelCase(Append(a, c))
  PROVE  CamelCase(a) /\ c # Underscore /\ (a = <<>> => IsUpper(c))
<1> DEFINE b == Append(a, c)
<1>1. /\ Len(a) \in Nat /\ Len(b) = Len(a) + 1 /\ b[Len(a) + 1] = c /\ b # <<>>
      /\ \A i \in DOMAIN a : i \in DOMAIN b /\ b[i] = a[i]
      /\ Len(a) + 1 \in DOMAIN b
      /\ a = <<>> => Len(a) + 1 = 1
      /\ a # <<>> => 1 \in DOMAIN a
  <2>1. /\ Len(a) \in Nat /\ Len(b) = Len(a) + 1 /\ b[Len(a) + 1] = c /\ b \in Seq(Char)
        /\ DOMAIN a = 1 .. Len(a) /\ DOMAIN b = 1 .. Len(a) + 1
        /\ \A i \in DOMAIN a : b[i] = a[i]
    OBVIOUS
  <2>2. b # <<>>
    BY AppendNotEmpty, Zenon
  <2>3. a # <<>> <=> Len(a) # 0
    OBVIOUS
  <2> HIDE DEF b
  <2> QED
    BY <2>1, <2>2, <2>3
<1> HIDE DEF b
<1>2. CamelCase(b)
  BY DEF b
<1>3. \A i \in DOMAIN a : a[i] # Underscore
  BY <1>1, <1>2, Zenon DEF CamelCase
<1>4. a # <<>> => IsUpper(a[1])
  BY <1>1, <1>2, Zenon DEF CamelCase
<1>5. c # Underscore
  BY <1>1, <1>2, Zenon DEF CamelCase
<1>6. a = <<>> => IsUpper(c)
  BY <1>1, <1>2, Zenon DEF CamelCase
<1> QED
  BY <1>3, <1>4, <1>5, <1>6, Zenon DEF CamelCase

LEMMA SnakeEmpty == ToSnakeCase(<<>>) = <<>>
<1> DEFINE p == [i \in DOMAIN <<>> |-> SnakePiece(<<>>, i)]
<1>1. p = <<>>
  OBVIOUS
<1>2. FlattenSeq(<<>>) = <<>>
  BY DEF FlattenSeq
<1>3. ToSnakeCase(<<>>) = FlattenSeq(p)
  BY Zenon DEF ToSnakeCase, SnakePiece
<1> QED
  BY <1>1, <1>2, <1>3, Zenon

LEMMA SnakeGrows ==
  ASSUME NEW a \in Seq(Char), NEW c \in Char
  PROVE  /\ ToSnakeCase(a) \in Seq(Char) /\ Lower(c) \in Char
         /\ IsUpper(c) /\ a # <<>> =>
              ToSnakeCase(Append(a, c)) = Append(Append(ToSnakeCase(a), Underscore), Lower(c))
         /\ ~(IsUpper(c) /\ a # <<>>) =>
              ToSnakeCase(Append(a, c)) = Append(ToSnakeCase(a), Lower(c))
<1>1. /\ ToSnakeCase(a) \in Seq(Char)
      /\ IsUpper(c) /\ a # <<>> =>
           ToSnakeCase(Append(a, c)) = ToSnakeCase(a) \o <<Underscore, Lower(c)>>
      /\ ~(IsUpper(c) /\ a # <<>>) =>
           ToSnakeCase(Append(a, c)) = ToSnakeCase(a) \o <<Lower(c)>>
  BY SnakeAppend, Zenon
<1>2. Lower(c) \in Char /\ Underscore \in Char
  BY CaseType, LettersAssumption
<1>3. ASSUME NEW s \in Seq(Char), NEW x \in Char, NEW y \in Char
      PROVE  s \o <<x>> = Append(s, x) /\ s \o <<x, y>> = Append(Append(s, x), y)
  OBVIOUS
<1> QED
  BY <1>1, <1>2, <1>3, Zenon

(* The name of a table does not end in an underscore. *)
LEMMA SnakeEnd ==
  ASSUME NEW d \in Seq(Char), d # <<>>, CamelCase(d)
  PROVE  \E w \in Seq(Char), x \in Char : ToSnakeCase(d) = Append(w, x) /\ x # Underscore
<1>1. PICK e \in Seq(Char), f \in Char : d = Append(e, f)
  BY SequenceEmptyOrAppend
<1>2. f # Underscore
  BY <1>1, CamelCaseGrows, Zenon
<1>3. Lower(f) \in Char /\ Lower(f) # Underscore
  BY <1>2, CaseType
<1>4. Underscore \in Char /\ ToSnakeCase(e) \in Seq(Char)
  BY LettersAssumption, SnakeGrows
<1>5. Append(ToSnakeCase(e), Underscore) \in Seq(Char)
  BY <1>4, AppendNotEmpty, Zenon
<1> QED
  BY <1>1, <1>3, <1>4, <1>5, SnakeGrows, Zenon

(* Names of structs that differ have tables that differ. *)
LEMMA SnakeInjective ==
  ASSUME NEW a \in Seq(Char), CamelCase(a),
         NEW d \in Seq(Char), CamelCase(d), ToSnakeCase(a) = ToSnakeCase(d)
  PROVE  a = d
<1> DEFINE Same(b) == \A x \in Seq(Char) :
                        CamelCase(x) /\ ToSnakeCase(b) = ToSnakeCase(x) => b = x
           T == {b \in Seq(Char) : CamelCase(b) => Same(b)}
<1>1. ASSUME NEW b \in Seq(Char), CamelCase(b), b # <<>>
      PROVE  ToSnakeCase(b) # ToSnakeCase(<<>>)
  <2>1. PICK w \in Seq(Char), x \in Char : ToSnakeCase(b) = Append(w, x)
    BY <1>1, SnakeEnd, Zenon
  <2> QED
    BY <2>1, AppendNotEmpty, SnakeEmpty, Zenon
<1>2. <<>> \in T
  <2>1. <<>> \in Seq(Char)
    OBVIOUS
  <2>2. Same(<<>>)
    BY <1>1, Zenon
  <2> HIDE DEF Same
  <2> QED
    BY <2>1, <2>2
<1>3. ASSUME NEW b \in Seq(Char), NEW c \in Char, b \in T, CamelCase(Append(b, c)),
             NEW x \in Seq(Char), CamelCase(x),
             ToSnakeCase(Append(b, c)) = ToSnakeCase(x)
      PROVE  Append(b, c) = x
  <2>1. CamelCase(b) /\ c # Underscore /\ (b = <<>> => IsUpper(c))
    BY <1>3, CamelCaseGrows, Zenon
  <2>2. Append(b, c) \in Seq(Char) /\ Append(b, c) # <<>>
    BY AppendNotEmpty, Zenon
  <2>3. x # <<>>
    BY <1>1, <1>3, <2>2, Zenon
  <2>4. PICK e \in Seq(Char), f \in Char : x = Append(e, f)
    BY <2>3, SequenceEmptyOrAppend
  <2>5. CamelCase(e) /\ f # Underscore /\ (e = <<>> => IsUpper(f))
    BY <1>3, <2>4, CamelCaseGrows, Zenon
  <2> DEFINE s == ToSnakeCase(b)
             t == ToSnakeCase(e)
             u == Underscore
  <2>6. /\ s \in Seq(Char) /\ t \in Seq(Char) /\ u \in Char
        /\ Lower(c) \in Char /\ Lower(f) \in Char
        /\ Append(s, u) \in Seq(Char) /\ Append(t, u) \in Seq(Char)
    BY SnakeGrows, LettersAssumption, AppendNotEmpty
  <2>7. /\ IsUpper(c) /\ b # <<>> => ToSnakeCase(x) = Append(Append(s, u), Lower(c))
        /\ ~(IsUpper(c) /\ b # <<>>) => ToSnakeCase(x) = Append(s, Lower(c))
    BY <1>3, SnakeGrows, Zenon
  <2>8. /\ IsUpper(f) /\ e # <<>> => ToSnakeCase(x) = Append(Append(t, u), Lower(f))
        /\ ~(IsUpper(f) /\ e # <<>>) => ToSnakeCase(x) = Append(t, Lower(f))
    BY <2>4, SnakeGrows, Zenon
  <2>9. /\ b # <<>> => \E w \in Seq(Char), y \in Char : s = Append(w, y) /\ y # u
        /\ e # <<>> => \E w \in Seq(Char), y \in Char : t = Append(w, y) /\ y # u
    BY <2>1, <2>5, SnakeEnd, Zenon
  <2>10. (b = <<>> => s = <<>>) /\ (e = <<>> => t = <<>>)
    BY SnakeEmpty, Zenon
  <2>11. \A v, w \in Seq(Char), y, z \in Char : Append(v, y) = Append(w, z) => v = w /\ y = z
    BY AppendInjective
  <2>12. \A v \in Seq(Char), y \in Char : Append(v, y) # <<>>
    BY AppendNotEmpty, Zenon
  <2> HIDE DEF s, t, u, Same
  <2>13. /\ Append(Append(s, u), Lower(c)) = Append(Append(t, u), Lower(f))
            => s = t /\ Lower(c) = Lower(f)
         /\ Append(Append(s, u), Lower(c)) = Append(t, Lower(f))
            => Append(s, u) = t /\ Lower(c) = Lower(f)
         /\ Append(s, Lower(c)) = Append(Append(t, u), Lower(f))
            => s = Append(t, u) /\ Lower(c) = Lower(f)
         /\ Append(s, Lower(c)) = Append(t, Lower(f))
            => s = t /\ Lower(c) = Lower(f)
    <3>1. Append(s, u) = Append(t, u) => s = t
      BY <2>6, <2>11
    <3> DEFINE su == Append(s, u)
               tu == Append(t, u)
    <3>2. su \in Seq(Char) /\ tu \in Seq(Char)
      BY <2>6
    <3> HIDE DEF su, tu
    <3>3. ASSUME NEW v \in Seq(Char), NEW w \in Seq(Char),
                 Append(v, Lower(c)) = Append(w, Lower(f))
          PROVE  v = w /\ Lower(c) = Lower(f)
      BY ONLY <2>6, <3>3, AppendInjective
    <3>4. /\ Append(su, Lower(c)) = Append(tu, Lower(f)) => su = tu /\ Lower(c) = Lower(f)
          /\ Append(su, Lower(c)) = Append(t, Lower(f)) => su = t /\ Lower(c) = Lower(f)
      BY ONLY <2>6, <3>2, <3>3, Zenon
    <3>5. /\ Append(s, Lower(c)) = Append(tu, Lower(f)) => s = tu /\ Lower(c) = Lower(f)
          /\ Append(s, Lower(c)) = Append(t, Lower(f)) => s = t /\ Lower(c) = Lower(f)
      BY ONLY <2>6, <3>2, <3>3, Zenon
    <3> QED
      BY ONLY <3>1, <3>4, <3>5, Zenon DEF su, tu
  <2>14. (e # <<>> => Append(s, u) # t) /\ (b # <<>> => s # Append(t, u))
    <3>1. ASSUME NEW v \in Seq(Char), NEW w \in Seq(Char), NEW y \in Char, y # u
          PROVE  Append(v, u) # Append(w, y)
      BY <2>6, <2>11, <3>1
    <3> QED
      BY ONLY <2>6, <2>9, <3>1, Zenon
  <2>15. (b # <<>> => s # <<>>) /\ (e # <<>> => t # <<>>)
    BY ONLY <2>9, <2>12, Zenon
  <2>16. Append(s, u) # <<>> /\ Append(t, u) # <<>>
    BY ONLY <2>6, <2>12, Zenon
  <2>17. s = t /\ Lower(c) = Lower(f)
    <3>1. CASE IsUpper(c) /\ b # <<>> /\ ~(IsUpper(f) /\ e # <<>>)
      <4>1. Append(s, u) = t
        BY ONLY <2>7, <2>8, <2>13, <3>1, Zenon
      <4> QED
        BY ONLY <2>10, <2>14, <2>16, <4>1, Zenon
    <3>2. CASE ~(IsUpper(c) /\ b # <<>>) /\ IsUpper(f) /\ e # <<>>
      <4>1. s = Append(t, u)
        BY ONLY <2>7, <2>8, <2>13, <3>2, Zenon
      <4> QED
        BY ONLY <2>10, <2>14, <2>16, <4>1, Zenon
    <3>3. CASE (IsUpper(c) /\ b # <<>>) <=> (IsUpper(f) /\ e # <<>>)
      BY ONLY <2>7, <2>8, <2>13, <3>3, Zenon
    <3> QED
      BY ONLY <3>1, <3>2, <3>3, Zenon
  <2>18. (b = <<>> <=> e = <<>>) /\ (IsUpper(c) <=> IsUpper(f))
    <3>1. b = <<>> <=> e = <<>>
      BY ONLY <2>10, <2>15, <2>17, Zenon
    <3>2. CASE b = <<>>
      BY ONLY <2>1, <2>5, <3>1, <3>2, Zenon
    <3>3. CASE b # <<>> /\ IsUpper(c) /\ ~IsUpper(f)
      <4>1. Append(s, u) = t
        BY ONLY <2>7, <2>8, <2>13, <3>3, Zenon
      <4> QED
        BY ONLY <2>14, <3>1, <3>3, <4>1, Zenon
    <3>4. CASE b # <<>> /\ ~IsUpper(c) /\ IsUpper(f)
      <4>1. s = Append(t, u)
        BY ONLY <2>7, <2>8, <2>13, <3>1, <3>4, Zenon
      <4> QED
        BY ONLY <2>14, <3>4, <4>1, Zenon
    <3> QED
      BY ONLY <3>1, <3>2, <3>3, <3>4, Zenon
  <2>19. c = f
    BY <2>17, <2>18, LowerInjective
  <2>20. Same(b)
    BY <1>3, <2>1
  <2>21. b = e
    BY <2>5, <2>17, <2>20, Zenon DEF Same, s, t
  <2> QED
    BY <2>4, <2>19, <2>21, Zenon
<1>4. \A b \in Seq(Char), c \in Char : b \in T => Append(b, c) \in T
  <2>1. SUFFICES ASSUME NEW b \in Seq(Char), NEW c \in Char, b \in T,
                        CamelCase(Append(b, c))
                 PROVE  Same(Append(b, c))
    <3> HIDE DEF Same
    <3>1. \A b \in Seq(Char), c \in Char : Append(b, c) \in Seq(Char)
      OBVIOUS
    <3> QED
      BY <3>1, Zenon
  <2> HIDE DEF T
  <2> QED
    BY <1>3, <2>1, Zenon
<1> HIDE DEF T
<1>5. Seq(Char) \subseteq T
  BY ONLY <1>2, <1>4, SeqSetInduction
<1>6. Same(a)
  BY <1>5 DEF T
<1> QED
  BY <1>6

-----------------------------------------------------------------------------
(* PascalCase.                                                             *)

Words == {w \in Seq(Seq(Char)) : w # <<>>}

(* One more character of a field's name. *)
ReadChar(words, c) ==
  IF c = Underscore THEN Append(words, <<>>)
  ELSE [words EXCEPT ![Len(words)] = Append(@, c)]

LEMMA ExceptLast ==
  ASSUME NEW X, NEW v \in Seq(X), NEW l \in X, NEW m \in X
  PROVE  /\ Append(v, l)[Len(Append(v, l))] = l
         /\ [Append(v, l) EXCEPT ![Len(Append(v, l))] = m] = Append(v, m)
<1> DEFINE x == Append(v, m)
           n == Len(v) + 1
<1>1. PICK w : w = Append(v, l)
  OBVIOUS
<1>2. /\ w \in [1 .. n -> X] /\ Len(w) = n /\ w[n] = l /\ n \in Nat
      /\ \A i \in 1 .. Len(v) : w[i] = v[i]
  <2>1. /\ w \in Seq(X) /\ Len(w) = n /\ w[n] = l /\ n \in Nat
        /\ \A i \in 1 .. Len(v) : w[i] = v[i]
    BY <1>1
  <2> HIDE DEF n
  <2>2. w \in [1 .. n -> X]
    BY ONLY <2>1
  <2> QED
    BY <2>1, <2>2
<1>3. /\ x \in Seq(X) /\ x \in [1 .. n -> X] /\ Len(x) = n /\ x[n] = m
      /\ \A i \in 1 .. Len(v) : x[i] = v[i]
  <2>1. /\ x \in Seq(X) /\ Len(x) = n /\ x[n] = m
        /\ \A i \in 1 .. Len(v) : x[i] = v[i]
    OBVIOUS
  <2> HIDE DEF x, n
  <2>2. x \in [1 .. n -> X]
    BY ONLY <2>1
  <2> QED
    BY <2>1, <2>2
<1>4. PICK e : e = [w EXCEPT ![n] = m]
  OBVIOUS
<1>5. e \in [1 .. n -> X] /\ e[n] = m /\ \A i \in 1 .. n : i # n => e[i] = w[i]
  BY <1>2, <1>4
<1>6. \A i \in 1 .. n : i # n => i \in 1 .. Len(v)
  OBVIOUS
<1> HIDE DEF x, n
<1>7. \A i \in 1 .. n : e[i] = x[i]
  BY ONLY <1>2, <1>3, <1>5, <1>6, Zenon
<1>8. e = x
  BY ONLY <1>3, <1>5, <1>7
<1>9. w[Len(w)] = l /\ [w EXCEPT ![Len(w)] = m] = x
  BY ONLY <1>2, <1>4, <1>8, Zenon
<1> QED
  BY ONLY <1>1, <1>9, Zenon DEF x

LEMMA ReadCharIs ==
  ASSUME NEW v \in Seq(Seq(Char)), NEW l \in Seq(Char), NEW c \in Char
  PROVE  /\ c = Underscore => ReadChar(Append(v, l), c) = Append(Append(v, l), <<>>)
         /\ c # Underscore => ReadChar(Append(v, l), c) = Append(v, Append(l, c))
<1>1. PICK w : w = Append(v, l)
  OBVIOUS
<1>2. Append(l, c) \in Seq(Char)
  BY AppendNotEmpty, Zenon
<1>3. /\ Append(v, l)[Len(Append(v, l))] = l
      /\ [Append(v, l) EXCEPT ![Len(Append(v, l))] = Append(l, c)] = Append(v, Append(l, c))
  <2>1. PICK S : S = Seq(Char)
    OBVIOUS
  <2>2. v \in Seq(S) /\ l \in S /\ Append(l, c) \in S
    BY ONLY <1>2, <2>1, v \in Seq(Seq(Char)), l \in Seq(Char)
  <2>3. PICK m : m = Append(l, c)
    OBVIOUS
  <2>4. m \in S
    BY ONLY <2>2, <2>3
  <2>5. /\ Append(v, l)[Len(Append(v, l))] = l
        /\ [Append(v, l) EXCEPT ![Len(Append(v, l))] = m] = Append(v, m)
    BY ONLY <2>2, <2>4, ExceptLast
  <2> QED
    BY ONLY <2>3, <2>5, Zenon
<1>4. w[Len(w)] = l /\ [w EXCEPT ![Len(w)] = Append(l, c)] = Append(v, Append(l, c))
  BY ONLY <1>1, <1>3, Zenon
<1>5. c # Underscore => ReadChar(w, c) = [w EXCEPT ![Len(w)] = Append(w[Len(w)], c)]
  BY Zenon DEF ReadChar
<1>6. [w EXCEPT ![Len(w)] = Append(w[Len(w)], c)] = [w EXCEPT ![Len(w)] = Append(l, c)]
  BY ONLY <1>4, Zenon
<1>7. c # Underscore => ReadChar(w, c) = Append(v, Append(l, c))
  BY ONLY <1>4, <1>5, <1>6, Zenon
<1>8. c = Underscore => ReadChar(w, c) = Append(w, <<>>)
  BY Zenon DEF ReadChar
<1> QED
  BY ONLY <1>1, <1>7, <1>8, Zenon

LEMMA ReadCharType ==
  ASSUME NEW w \in Words, NEW c \in Char
  PROVE  ReadChar(w, c) \in Words
<1>1. w \in Seq(Seq(Char)) /\ w # <<>>
  BY DEF Words
<1>2. PICK v \in Seq(Seq(Char)), l \in Seq(Char) : w = Append(v, l)
  BY <1>1, SequenceEmptyOrAppend, Zenon
<1>3. Append(l, c) \in Seq(Char) /\ <<>> \in Seq(Char)
  BY AppendNotEmpty
<1>4. /\ Append(v, Append(l, c)) \in Seq(Seq(Char)) /\ Append(v, Append(l, c)) # <<>>
      /\ Append(w, <<>>) \in Seq(Seq(Char)) /\ Append(w, <<>>) # <<>>
  BY <1>1, <1>3, AppendNotEmpty, Zenon
<1>5. \/ ReadChar(w, c) = Append(w, <<>>)
      \/ ReadChar(w, c) = Append(v, Append(l, c))
  BY <1>2, ReadCharIs, Zenon
<1> QED
  BY <1>4, <1>5, Zenon DEF Words

(* The recursive function of Split. *)
IsSplit(w, f) ==
  w = [n \in 0 .. Len(f) |-> IF n = 0 THEN << <<>> >> ELSE ReadChar(w[n - 1], f[n])]

SplitSteps(w, f) ==
  \A i \in 0 .. Len(f) : /\ i = 0 => w[i] = << <<>> >>
                         /\ i # 0 => w[i] = ReadChar(w[i - 1], f[i])

LEMMA SplitAt ==
  ASSUME NEW w, NEW f, IsSplit(w, f)
  PROVE  SplitSteps(w, f)
<1> SUFFICES ASSUME NEW i \in 0 .. Len(f)
              PROVE  /\ i = 0 => w[i] = << <<>> >>
                     /\ i # 0 => w[i] = ReadChar(w[i - 1], f[i])
  BY DEF SplitSteps
<1> DEFINE h == [n \in 0 .. Len(f) |-> IF n = 0 THEN << <<>> >> ELSE ReadChar(w[n - 1], f[n])]
<1>1. w = h
  BY DEF IsSplit
<1>2. h[i] = IF i = 0 THEN << <<>> >> ELSE ReadChar(w[i - 1], f[i])
  OBVIOUS
<1>3. w[i] = h[i]
  BY <1>1, Zenon
<1> HIDE DEF h
<1> QED
  BY <1>2, <1>3, Zenon

LEMMA SplitUnique ==
  ASSUME NEW w, NEW v, NEW f, NEW g, NEW m \in Nat, NEW k \in Nat,
         m = Len(f), k = Len(g), m <= k, \A i \in 1 .. m : g[i] = f[i],
         IsSplit(w, f), IsSplit(v, g)
  PROVE  Alike(w, v, 0, m)
<1>0. SplitSteps(w, f) /\ SplitSteps(v, g)
  BY SplitAt, Zenon
<1>1. \A n \in 0 .. m : n \in 0 .. k
  OBVIOUS
<1>2. ASSUME NEW n \in 0 .. m, n # 0, w[n - 1] = v[n - 1]
      PROVE  w[n] = v[n]
  <2>1. n \in 1 .. m
    BY <1>2
  <2>2. n \in 0 .. Len(f) /\ n \in 0 .. Len(g) /\ g[n] = f[n]
    BY <1>1, <2>1, Zenon
  <2>3. w[n] = ReadChar(w[n - 1], f[n])
    BY ONLY <1>0, <1>2, <2>2, Zenon DEF SplitSteps
  <2>4. v[n] = ReadChar(v[n - 1], g[n])
    BY ONLY <1>0, <1>2, <2>2, Zenon DEF SplitSteps
  <2> QED
    BY ONLY <1>2, <2>2, <2>3, <2>4, Zenon
<1>3. 0 \in 0 .. m /\ 0 \in 0 .. k
  OBVIOUS
<1>4. 0 \in 0 .. Len(f) /\ 0 \in 0 .. Len(g)
  BY <1>3, Zenon
<1>5. w[0] = v[0]
  BY ONLY <1>0, <1>4, Zenon DEF SplitSteps
<1>6. GoOnAlike(w, v, 0, m)
  BY ONLY <1>2, Zenon DEF GoOnAlike
<1> QED
  BY ONLY <1>5, <1>6, m \in Nat, 0 \in Nat, SameSteps

LEMMA SplitIs ==
  ASSUME NEW f \in Seq(Char), NEW m \in Nat, m = Len(f)
  PROVE  \E w : w \in [0 .. m -> Words] /\ IsSplit(w, f) /\ Split(f) = w[m]
<1> DEFINE step == [n \in Nat |-> [w \in Words |-> IF n \in 1 .. m THEN ReadChar(w, f[n]) ELSE w]]
           a == << <<>> >>
<1>1. \A i \in 1 .. m : f[i] \in Char
  OBVIOUS
<1>2. step \in [Nat -> [Words -> Words]]
  BY <1>1, ReadCharType
<1>3. a \in Words
  <2> DEFINE S == Seq(Char)
  <2>1. <<>> \in S
    OBVIOUS
  <2> HIDE DEF S
  <2>2. <<(<<>>)>> \in Seq(S) /\ <<(<<>>)>> # <<>>
    BY <2>1
  <2> QED
    BY <2>2 DEF S, Words
<1>4. PICK w : w \in [0 .. m -> Words] /\ IsRecursive(w, a, step, 0, m)
  <2> HIDE DEF step, a
  <2> QED
    BY ONLY <1>2, <1>3, m \in Nat, 0 \in Nat, RecursionExists
<1>5. IsSplit(w, f)
  <2>1. ASSUME NEW n \in 0 .. m, n # 0
        PROVE  step[n][w[n - 1]] = ReadChar(w[n - 1], f[n])
    <3>1. n \in Nat /\ n \in 1 .. m /\ n - 1 \in 0 .. m
      BY <2>1
    <3>2. w[n - 1] \in Words
      BY <1>4, <3>1
    <3> QED
      BY <3>1, <3>2
  <2> HIDE DEF step
  <2>2. \A n \in 0 .. m : (IF n = 0 THEN a ELSE step[n][w[n - 1]])
                           = (IF n = 0 THEN a ELSE ReadChar(w[n - 1], f[n]))
    BY <2>1, Zenon
  <2>3. w = [n \in 0 .. m |-> IF n = 0 THEN a ELSE ReadChar(w[n - 1], f[n])]
    BY <1>4, <2>2, Zenon DEF IsRecursive
  <2> QED
    BY <2>3, Zenon DEF IsSplit
<1>6. ASSUME NEW v, IsSplit(v, f)
      PROVE  v = w
  <2>1. Alike(v, w, 0, m)
    <3>1. m <= m /\ \A i \in 1 .. m : f[i] = f[i]
      OBVIOUS
    <3> QED
      BY ONLY <1>5, <1>6, <3>1, SplitUnique, m \in Nat, m = Len(f)
  <2>2. v = [n \in 0 .. m |-> v[n]] /\ w = [n \in 0 .. m |-> w[n]]
    BY ONLY <1>5, <1>6, m = Len(f), Zenon DEF IsSplit
  <2>3. \A n \in 0 .. m : v[n] = w[n]
    BY <2>1, Zenon DEF Alike
  <2> QED
    BY ONLY <2>2, <2>3, Zenon
<1>7. Split(f) = (CHOOSE v : IsSplit(v, f))[m]
  BY DEF Split, IsSplit, ReadChar
<1>8. (CHOOSE v : IsSplit(v, f)) = w
  BY <1>5, <1>6, Zenon
<1> QED
  BY <1>4, <1>5, <1>7, <1>8, Zenon

(* The words of a name grow with the name. *)
LEMMA SplitGrows ==
  ASSUME NEW a \in Seq(Char), NEW c \in Char
  PROVE  Split(a) \in Words /\ Split(Append(a, c)) = ReadChar(Split(a), c)
<1> DEFINE b == Append(a, c)
           m == Len(a)
           k == m + 1
<1>1. /\ b \in Seq(Char) /\ Len(b) = k /\ b[k] = c /\ m \in Nat /\ k \in Nat
      /\ \A i \in 1 .. m : b[i] = a[i]
  OBVIOUS
<1>2. m \in 0 .. m /\ k \in 0 .. k /\ k # 0 /\ k - 1 = m /\ m <= k
  BY <1>1
<1>3. m = Len(a)
  OBVIOUS
<1> HIDE DEF b, m, k
<1>4. PICK w : w \in [0 .. m -> Words] /\ IsSplit(w, a) /\ Split(a) = w[m]
  BY <1>1, <1>3, SplitIs, Zenon
<1>5. PICK v : IsSplit(v, b) /\ Split(b) = v[k]
  BY <1>1, SplitIs, Zenon
<1>6. w[m] \in Words
  BY ONLY <1>2, <1>4, Zenon
<1>7. Alike(w, v, 0, m)
  BY ONLY <1>1, <1>2, <1>3, <1>4, <1>5, SplitUnique, Zenon
<1>8. w[m] = v[m]
  BY ONLY <1>2, <1>7, Zenon DEF Alike
<1>9. v[k] = ReadChar(v[k - 1], b[k])
  <2>1. k \in 0 .. Len(b)
    BY ONLY <1>1, <1>2, Zenon
  <2> QED
    BY ONLY <1>2, <1>5, <2>1, SplitAt, Zenon DEF SplitSteps
<1> QED
  BY ONLY <1>1, <1>2, <1>4, <1>5, <1>6, <1>8, <1>9, Zenon DEF b

LEMMA CapitalizedGrows ==
  ASSUME NEW l \in Seq(Char), NEW c \in Char
  PROVE  /\ Capitalized(l) \in Seq(Char)
         /\ l = <<>> => Capitalized(l) = <<>> /\ Capitalized(Append(l, c)) = <<Upper(c)>>
         /\ l # <<>> => Capitalized(Append(l, c)) = Append(Capitalized(l), c)
<1> DEFINE b == Append(l, c)
           x == Capitalized(l)
           y == Capitalized(b)
           n == Len(l)
<1>1. /\ l \in Seq(Char) /\ Len(l) = n /\ n \in Nat /\ DOMAIN l = 1 .. n
      /\ b \in Seq(Char) /\ Len(b) = n + 1 /\ b[n + 1] = c /\ DOMAIN b = 1 .. n + 1
      /\ \A i \in 1 .. n : b[i] = l[i]
  OBVIOUS
<1>2. n = 0 <=> l = <<>>
  OBVIOUS
<1> HIDE DEF b, n
<1>3. ASSUME NEW d \in Char
      PROVE  Upper(d) \in Char
  BY CaseType
<1>4. /\ x = [i \in 1 .. n |-> IF i = 1 THEN Upper(l[i]) ELSE l[i]]
      /\ y = [i \in 1 .. n + 1 |-> IF i = 1 THEN Upper(b[i]) ELSE b[i]]
  BY ONLY <1>1, Zenon DEF Capitalized
<1> HIDE DEF x, y
<1>5. /\ \A i \in 1 .. n : l[i] \in Char /\ Upper(l[i]) \in Char
      /\ \A i \in 1 .. n + 1 : b[i] \in Char /\ Upper(b[i]) \in Char
  BY <1>1, <1>3
<1>6. x \in [1 .. n -> Char] /\ y \in [1 .. n + 1 -> Char]
  BY ONLY <1>4, <1>5
<1>7. x \in Seq(Char) /\ Len(x) = n /\ y \in Seq(Char) /\ Len(y) = n + 1
  BY ONLY <1>1, <1>6
<1>8. CASE l = <<>>
  <2>1. n = 0 /\ 1 \in 1 .. n + 1 /\ n + 1 = 1
    BY <1>2, <1>8
  <2>2. y[1] = Upper(c)
    BY ONLY <1>1, <1>4, <2>1
  <2>3. y = <<Upper(c)>>
    BY ONLY <1>7, <2>1, <2>2
  <2>4. x = <<>>
    BY ONLY <1>7, <2>1
  <2> QED
    BY ONLY <1>7, <1>8, <2>3, <2>4, Zenon DEF b, x, y
<1>9. CASE l # <<>>
  <2>1. n # 0
    BY <1>2, <1>9
  <2>2. y[n + 1] = c /\ \A i \in 1 .. n : y[i] = x[i]
    BY ONLY <1>1, <1>4, <2>1
  <2>3. y = Append(x, c)
    <3>1. Append(x, c) \in Seq(Char) /\ Len(Append(x, c)) = n + 1
      BY ONLY <1>7, c \in Char
    <3>2. \A i \in 1 .. n + 1 : Append(x, c)[i] = y[i]
      BY ONLY <1>1, <1>7, <2>2
    <3> QED
      BY ONLY <1>1, <1>7, <3>1, <3>2
  <2> QED
    BY ONLY <1>7, <1>9, <2>3, Zenon DEF b, x, y
<1> QED
  BY <1>8, <1>9

LEMMA MapCapitalizedGrows ==
  ASSUME NEW v \in Seq(Seq(Char)), NEW l \in Seq(Char)
  PROVE  /\ Map(Capitalized, v) \in Seq(Seq(Char))
         /\ Map(Capitalized, Append(v, l)) = Append(Map(Capitalized, v), Capitalized(l))
<1>1. PICK S : S = Seq(Char)
  OBVIOUS
<1>2. \A d \in S : Capitalized(d) \in S
  BY <1>1, CapitalizedGrows, LettersAssumption
<1>3. v \in Seq(S) /\ l \in S
  BY <1>1
<1> DEFINE b == Append(v, l)
           x == Map(Capitalized, v)
           y == Map(Capitalized, b)
           n == Len(v)
<1>4. /\ n \in Nat /\ DOMAIN v = 1 .. n
      /\ Len(b) = n + 1 /\ b[n + 1] = l /\ DOMAIN b = 1 .. n + 1
      /\ \A i \in 1 .. n : b[i] = v[i] /\ v[i] \in S
  BY <1>3
<1> HIDE DEF b, n
<1>5. /\ x = [i \in 1 .. n |-> Capitalized(v[i])]
      /\ y = [i \in 1 .. n + 1 |-> Capitalized(b[i])]
  BY ONLY <1>4, Zenon DEF Map
<1> HIDE DEF x, y
<1>6. x \in [1 .. n -> S]
  BY ONLY <1>2, <1>4, <1>5
<1>7. \A i \in 1 .. n + 1 : i = n + 1 \/ i \in 1 .. n
  BY <1>4
<1>8. n + 1 \in 1 .. n + 1 /\ \A i \in 1 .. n : i \in 1 .. n + 1
  BY <1>4
<1>9. y[n + 1] = Capitalized(l) /\ \A i \in 1 .. n : y[i] = x[i]
  BY ONLY <1>4, <1>5, <1>8, Zenon
<1>10. y = [i \in 1 .. n + 1 |-> y[i]]
  BY ONLY <1>5, Zenon
<1>11. Capitalized(l) \in S
  BY <1>2, <1>3
<1>12. y \in [1 .. n + 1 -> S]
  <2>1. \A i \in 1 .. n : x[i] \in S
    BY ONLY <1>6
  <2>2. \A i \in 1 .. n + 1 : y[i] \in S
    BY ONLY <1>7, <1>9, <1>11, <2>1, Zenon
  <2> QED
    BY ONLY <1>10, <2>2
<1>13. PICK k : k = Capitalized(l)
  OBVIOUS
<1>14. x \in Seq(S) /\ Len(x) = n /\ y = Append(x, k)
  <2>1. x \in Seq(S) /\ Len(x) = n /\ y \in Seq(S) /\ Len(y) = n + 1
    <3>1. n \in Nat
      BY <1>4
    <3>2. x \in Seq(S) /\ Len(x) = n
      BY ONLY <1>6, <3>1
    <3>3. y \in Seq(S) /\ Len(y) = n + 1
      BY ONLY <1>12, <3>1
    <3> QED
      BY <3>2, <3>3
  <2>2. k \in S /\ y[n + 1] = k /\ \A i \in 1 .. n : y[i] = x[i]
    BY ONLY <1>9, <1>11, <1>13, Zenon
  <2>3. Append(x, k) \in Seq(S) /\ Len(Append(x, k)) = n + 1
    BY ONLY <2>1, <2>2
  <2>4. \A i \in 1 .. n + 1 : Append(x, k)[i] = y[i]
    BY ONLY <1>4, <2>1, <2>2
  <2> QED
    BY ONLY <1>4, <2>1, <2>3, <2>4
<1> QED
  BY ONLY <1>1, <1>13, <1>14, Zenon DEF b, x, y

(* The last word of a name is empty when nothing was read of it. *)
WordStarts(a) == a = <<>> \/ a[Len(a)] = Underscore

LEMMA SplitEmpty == Split(<<>>) = << <<>> >>
<1>1. <<>> \in Seq(Char) /\ 0 = Len(<<>>)
  OBVIOUS
<1>2. PICK w : IsSplit(w, <<>>) /\ Split(<<>>) = w[0]
  BY <1>1, SplitIs, Zenon
<1>3. 0 \in 0 .. Len(<<>>)
  OBVIOUS
<1> QED
  BY <1>2, <1>3, SplitAt, Zenon DEF SplitSteps

LEMMA LastWord ==
  ASSUME NEW a \in Seq(Char)
  PROVE  \E v \in Seq(Seq(Char)), l \in Seq(Char) :
           Split(a) = Append(v, l) /\ (l = <<>> <=> WordStarts(a))
<1>1. CASE a = <<>>
  <2>1. <<>> \in Seq(Seq(Char)) /\ <<>> \in Seq(Char)
    OBVIOUS
  <2>2. << <<>> >> = Append(<<>>, <<>>)
    OBVIOUS
  <2> QED
    BY <1>1, <2>1, <2>2, SplitEmpty, Zenon DEF WordStarts
<1>2. CASE a # <<>>
  <2>1. PICK b \in Seq(Char), c \in Char : a = Append(b, c)
    BY <1>2, SequenceEmptyOrAppend
  <2>2. Append(b, c)[Len(Append(b, c))] = c
    OBVIOUS
  <2>3. WordStarts(a) <=> c = Underscore
    BY ONLY <1>2, <2>1, <2>2, Zenon DEF WordStarts
  <2>4. Split(b) \in Seq(Seq(Char)) /\ Split(b) # <<>> /\ Split(a) = ReadChar(Split(b), c)
    BY <2>1, SplitGrows, Zenon DEF Words
  <2>5. PICK v \in Seq(Seq(Char)), l \in Seq(Char) : Split(b) = Append(v, l)
    BY <2>4, SequenceEmptyOrAppend, Zenon
  <2>6. Append(l, c) \in Seq(Char) /\ Append(l, c) # <<>>
    BY AppendNotEmpty, Zenon
  <2>7. /\ c = Underscore => Split(a) = Append(Split(b), <<>>)
        /\ c # Underscore => Split(a) = Append(v, Append(l, c))
    <3>1. /\ c = Underscore => ReadChar(Append(v, l), c) = Append(Append(v, l), <<>>)
          /\ c # Underscore => ReadChar(Append(v, l), c) = Append(v, Append(l, c))
      BY ReadCharIs, Zenon
    <3> QED
      BY ONLY <2>4, <2>5, <3>1, Zenon
  <2>8. <<>> \in Seq(Char)
    OBVIOUS
  <2> QED
    BY <2>3, <2>4, <2>6, <2>7, <2>8, Zenon
<1> QED
  BY <1>1, <1>2

(* The macro's PascalCase, one character after the other. *)
LEMMA PascalGrows ==
  ASSUME NEW a \in Seq(Char), NEW c \in Char
  PROVE  /\ Pascal(a) \in Seq(Char)
         /\ c = Underscore => Pascal(Append(a, c)) = Pascal(a)
         /\ c # Underscore /\ WordStarts(a) => Pascal(Append(a, c)) = Append(Pascal(a), Upper(c))
         /\ c # Underscore /\ ~WordStarts(a) => Pascal(Append(a, c)) = Append(Pascal(a), c)
<1>1. PICK v \in Seq(Seq(Char)), l \in Seq(Char) :
        Split(a) = Append(v, l) /\ (l = <<>> <=> WordStarts(a))
  BY LastWord
<1>2. Split(a) \in Seq(Seq(Char)) /\ Split(Append(a, c)) = ReadChar(Split(a), c)
  BY SplitGrows, Zenon DEF Words
<1>3. /\ c = Underscore => Split(Append(a, c)) = Append(Split(a), <<>>)
      /\ c # Underscore => Split(Append(a, c)) = Append(v, Append(l, c))
  <2>1. /\ c = Underscore => ReadChar(Append(v, l), c) = Append(Append(v, l), <<>>)
        /\ c # Underscore => ReadChar(Append(v, l), c) = Append(v, Append(l, c))
    BY ReadCharIs, Zenon
  <2> QED
    BY ONLY <1>1, <1>2, <2>1, Zenon
<1>4. <<>> \in Seq(Char) /\ Append(l, c) \in Seq(Char) /\ Upper(c) \in Char
  BY AppendNotEmpty, CaseType
<1> DEFINE P(w) == FlattenSeq(Map(Capitalized, w))
<1>5. ASSUME NEW w \in Seq(Seq(Char)), NEW d \in Seq(Char)
      PROVE  /\ P(w) \in Seq(Char) /\ Capitalized(d) \in Seq(Char)
             /\ P(Append(w, d)) = P(w) \o Capitalized(d)
  <2>1. Capitalized(d) \in Seq(Char)
    BY CapitalizedGrows, LettersAssumption
  <2>2. /\ Map(Capitalized, w) \in Seq(Seq(Char))
        /\ Map(Capitalized, Append(w, d)) = Append(Map(Capitalized, w), Capitalized(d))
    BY MapCapitalizedGrows, Zenon
  <2>3. FlattenSeq(Map(Capitalized, w)) \in Seq(Char)
    BY <2>2, FlattenType, Zenon
  <2>4. FlattenSeq(Append(Map(Capitalized, w), Capitalized(d)))
          = FlattenSeq(Map(Capitalized, w)) \o Capitalized(d)
    BY <2>1, <2>2, FlattenAppend, Zenon
  <2> QED
    BY <2>1, <2>2, <2>3, <2>4, Zenon
<1>6. Pascal(a) = P(Split(a)) /\ Pascal(Append(a, c)) = P(Split(Append(a, c)))
  BY Zenon DEF Pascal
<1> HIDE DEF P
<1>7. Pascal(a) \in Seq(Char)
  BY <1>2, <1>4, <1>5, <1>6, Zenon
<1>8. Pascal(a) = P(v) \o Capitalized(l)
  BY <1>1, <1>5, <1>6, Zenon
<1>9. CASE c = Underscore
  <2>1. Capitalized(<<>>) = <<>>
    BY <1>4, CapitalizedGrows
  <2>2. Pascal(Append(a, c)) = Pascal(a) \o <<>>
    BY <1>2, <1>3, <1>4, <1>5, <1>6, <1>9, <2>1, Zenon
  <2>3. Pascal(a) \o <<>> = Pascal(a)
    BY <1>7
  <2> QED
    BY <1>7, <1>9, <2>2, <2>3, Zenon
<1>10. CASE c # Underscore
  <2>1. Pascal(Append(a, c)) = P(v) \o Capitalized(Append(l, c))
    BY <1>3, <1>4, <1>5, <1>6, <1>10, Zenon
  <2>2. P(v) \in Seq(Char) /\ Capitalized(l) \in Seq(Char)
    BY <1>5, Zenon
  <2>3. /\ l = <<>> => Capitalized(l) = <<>> /\ Capitalized(Append(l, c)) = <<Upper(c)>>
        /\ l # <<>> => Capitalized(Append(l, c)) = Append(Capitalized(l), c)
    BY CapitalizedGrows, Zenon
  <2>4. ASSUME NEW s \in Seq(Char), NEW t \in Seq(Char), NEW x \in Char
        PROVE  /\ s \o Append(t, x) = Append(s \o t, x)
               /\ s \o <<x>> = Append(s \o <<>>, x)
    OBVIOUS
  <2>5. CASE l = <<>>
    <3>1. P(v) \o <<Upper(c)>> = Append(P(v) \o <<>>, Upper(c))
      BY ONLY <1>4, <2>2, <2>4, Zenon
    <3> QED
      BY ONLY <1>1, <1>7, <1>8, <1>10, <2>1, <2>3, <2>5, <3>1, Zenon
  <2>6. CASE l # <<>>
    <3>1. P(v) \o Append(Capitalized(l), c) = Append(P(v) \o Capitalized(l), c)
      BY ONLY <2>2, <2>4, c \in Char, Zenon
    <3> QED
      BY ONLY <1>1, <1>7, <1>8, <1>10, <2>1, <2>3, <2>6, <3>1, Zenon
  <2> QED
    BY <2>5, <2>6
<1> QED
  BY <1>9, <1>10

SerdePiece(f, i) ==
  IF f[i] = Underscore THEN <<>>
  ELSE IF i = 1 \/ f[i - 1] = Underscore THEN <<Upper(f[i])>> ELSE <<f[i]>>

LEMMA SerdePieceType ==
  ASSUME NEW f \in Seq(Char), NEW i \in 1 .. Len(f)
  PROVE  SerdePiece(f, i) \in Seq(Char)
<1>1. f[i] \in Char
  OBVIOUS
<1>2. Upper(f[i]) \in Char
  BY <1>1, CaseType
<1>3. <<>> \in Seq(Char) /\ <<f[i]>> \in Seq(Char) /\ <<Upper(f[i])>> \in Seq(Char)
  BY <1>1, <1>2
<1> QED
  BY <1>3, Zenon DEF SerdePiece

(* serde's PascalCase, one character after the other. *)
LEMMA SerdePascalGrows ==
  ASSUME NEW a \in Seq(Char), NEW c \in Char
  PROVE  /\ SerdePascal(a) \in Seq(Char)
         /\ c = Underscore => SerdePascal(Append(a, c)) = SerdePascal(a)
         /\ c # Underscore /\ WordStarts(a) =>
              SerdePascal(Append(a, c)) = Append(SerdePascal(a), Upper(c))
         /\ c # Underscore /\ ~WordStarts(a) =>
              SerdePascal(Append(a, c)) = Append(SerdePascal(a), c)
<1> DEFINE b == Append(a, c)
           n == Len(a)
           p == [i \in 1 .. n |-> SerdePiece(a, i)]
           q == [i \in 1 .. n + 1 |-> SerdePiece(b, i)]
<1>1. /\ n \in Nat /\ b \in Seq(Char) /\ Len(b) = n + 1
      /\ b[n + 1] = c /\ \A i \in 1 .. n : b[i] = a[i]
      /\ DOMAIN a = 1 .. n /\ DOMAIN b = 1 .. n + 1 /\ n = Len(a)
  OBVIOUS
<1>2. n + 1 = 1 <=> a = <<>>
  OBVIOUS
<1> HIDE DEF b, n
<1>3. p \in [1 .. n -> Seq(Char)]
  BY <1>1, SerdePieceType
<1>4. q \in [1 .. n + 1 -> Seq(Char)]
  BY <1>1, SerdePieceType
<1>5. \A i \in 1 .. n : q[i] = p[i]
  <2>1. SUFFICES ASSUME NEW i \in 1 .. n
                 PROVE  q[i] = p[i]
    OBVIOUS
  <2>2. i \in 1 .. n + 1
    BY <1>1
  <2>3. i # 1 => b[i - 1] = a[i - 1]
    <3>1. i # 1 => i - 1 \in 1 .. n
      BY <1>1
    <3> QED
      BY ONLY <1>1, <3>1, Zenon
  <2>4. SerdePiece(b, i) = SerdePiece(a, i)
    BY ONLY <1>1, <2>3, i \in 1 .. n, Zenon DEF SerdePiece
  <2> QED
    BY <2>2, <2>4
<1>6. FlattenSeq(p) \in Seq(Char) /\ FlattenSeq(q) = FlattenSeq(p) \o q[n + 1]
  <2>1. n \in Nat
    BY <1>1
  <2>2. Prolongs(Char, q, p, n)
    BY <1>3, <1>4, <1>5, <2>1 DEF Prolongs
  <2> HIDE DEF p, q
  <2> QED
    BY ONLY <2>2, FlattenPieces
<1>7. SerdePascal(a) = FlattenSeq(p) /\ SerdePascal(b) = FlattenSeq(q)
  BY <1>1, Zenon DEF SerdePascal, SerdePiece
<1>8. q[n + 1] = SerdePiece(b, n + 1)
  BY <1>1
<1>9. (n + 1) - 1 = n /\ (a # <<>> => n \in 1 .. n)
  BY <1>1, <1>2
<1>10. n + 1 = 1 \/ b[(n + 1) - 1] = Underscore <=> WordStarts(a)
  BY ONLY <1>1, <1>2, <1>9, Zenon DEF WordStarts
<1>11. /\ c = Underscore => q[n + 1] = <<>>
       /\ c # Underscore /\ WordStarts(a) => q[n + 1] = <<Upper(c)>>
       /\ c # Underscore /\ ~WordStarts(a) => q[n + 1] = <<c>>
  <2>1. b[n + 1] = c
    BY <1>1
  <2>2. c = Underscore => SerdePiece(b, n + 1) = <<>>
    BY ONLY <2>1, Zenon DEF SerdePiece
  <2>3. c # Underscore /\ WordStarts(a) => SerdePiece(b, n + 1) = <<Upper(c)>>
    BY ONLY <1>10, <2>1, Zenon DEF SerdePiece
  <2>4. c # Underscore /\ ~WordStarts(a) => SerdePiece(b, n + 1) = <<c>>
    BY ONLY <1>10, <2>1, Zenon DEF SerdePiece
  <2> QED
    BY ONLY <1>8, <2>2, <2>3, <2>4, Zenon
<1>12. ASSUME NEW s \in Seq(Char), NEW x \in Char
       PROVE  s \o <<>> = s /\ s \o <<x>> = Append(s, x)
  OBVIOUS
<1>13. Upper(c) \in Char
  BY CaseType
<1> HIDE DEF p, q
<1> QED
  BY ONLY <1>6, <1>7, <1>11, <1>12, <1>13, c \in Char, Zenon DEF b

LEMMA PascalEmpty == Pascal(<<>>) = <<>> /\ SerdePascal(<<>>) = <<>>
<1>1. FlattenSeq(<<>>) = <<>>
  BY DEF FlattenSeq
<1>2. SerdePascal(<<>>) = <<>>
  <2>1. SerdePascal(<<>>) = FlattenSeq([i \in DOMAIN <<>> |-> SerdePiece(<<>>, i)])
    BY Zenon DEF SerdePascal, SerdePiece
  <2>2. [i \in DOMAIN <<>> |-> SerdePiece(<<>>, i)] = <<>>
    OBVIOUS
  <2> QED
    BY <1>1, <2>1, <2>2, Zenon
<1>3. Pascal(<<>>) = <<>>
  <2>1. <<>> \in Seq(Seq(Char)) /\ <<>> \in Seq(Char) /\ Append(<<>>, <<>>) = << <<>> >>
    <3>1. <<>> \in Seq(Seq(Char)) /\ <<>> \in Seq(Char)
      OBVIOUS
    <3>2. << <<>> >> = Append(<<>>, <<>>)
      OBVIOUS
    <3> QED
      BY <3>1, <3>2, Zenon
  <2>2. Map(Capitalized, <<>>) = <<>>
    <3>1. Map(Capitalized, <<>>) = [i \in DOMAIN <<>> |-> Capitalized(<<>>[i])]
      BY Zenon DEF Map
    <3>2. [i \in DOMAIN <<>> |-> Capitalized(<<>>[i])] = <<>>
      OBVIOUS
    <3> QED
      BY <3>1, <3>2, Zenon
  <2>3. Capitalized(<<>>) = <<>>
    BY <2>1, CapitalizedGrows, LettersAssumption
  <2>4. Map(Capitalized, Append(<<>>, <<>>)) = Append(Map(Capitalized, <<>>), Capitalized(<<>>))
    BY <2>1, MapCapitalizedGrows, Zenon
  <2>5. FlattenSeq(Append(<<>>, <<>>)) = FlattenSeq(<<>>) \o <<>>
    BY <2>1, FlattenAppend, Zenon
  <2>6. <<>> \o <<>> = <<>>
    OBVIOUS
  <2>7. Pascal(<<>>) = FlattenSeq(Map(Capitalized, << <<>> >>))
    BY SplitEmpty, Zenon DEF Pascal
  <2>8. Map(Capitalized, << <<>> >>) = << <<>> >>
    BY ONLY <2>1, <2>2, <2>3, <2>4, Zenon
  <2> QED
    BY ONLY <1>1, <2>1, <2>5, <2>6, <2>7, <2>8, Zenon
<1> QED
  BY <1>2, <1>3

(* The two agree on every name. *)
LEMMA PascalAgrees ==
  ASSUME NEW f \in Seq(Char)
  PROVE  Pascal(f) = SerdePascal(f)
<1> DEFINE T == {a \in Seq(Char) : Pascal(a) = SerdePascal(a)}
<1>1. <<>> \in T
  BY PascalEmpty
<1>2. \A a \in Seq(Char), c \in Char : a \in T => Append(a, c) \in T
  <2>1. SUFFICES ASSUME NEW a \in Seq(Char), NEW c \in Char, a \in T
                 PROVE  Append(a, c) \in T
    OBVIOUS
  <2>2. Append(a, c) \in Seq(Char)
    OBVIOUS
  <2>3. Pascal(a) = SerdePascal(a)
    BY <2>1
  <2>4. Pascal(Append(a, c)) = SerdePascal(Append(a, c))
    <3>1. /\ c = Underscore => Pascal(Append(a, c)) = Pascal(a)
          /\ c # Underscore /\ WordStarts(a) =>
               Pascal(Append(a, c)) = Append(Pascal(a), Upper(c))
          /\ c # Underscore /\ ~WordStarts(a) => Pascal(Append(a, c)) = Append(Pascal(a), c)
      BY PascalGrows, Zenon
    <3>2. /\ c = Underscore => SerdePascal(Append(a, c)) = SerdePascal(a)
          /\ c # Underscore /\ WordStarts(a) =>
               SerdePascal(Append(a, c)) = Append(SerdePascal(a), Upper(c))
          /\ c # Underscore /\ ~WordStarts(a) =>
               SerdePascal(Append(a, c)) = Append(SerdePascal(a), c)
      BY SerdePascalGrows, Zenon
    <3> QED
      BY ONLY <2>3, <3>1, <3>2, Zenon
  <2> QED
    BY <2>2, <2>4
<1> HIDE DEF T
<1>3. Seq(Char) \subseteq T
  BY ONLY <1>1, <1>2, SeqSetInduction
<1> QED
  BY <1>3 DEF T

-----------------------------------------------------------------------------
(* The other rules, and which field is the id.                             *)

(* Replacing the underscores and changing the case commute. *)
LEMMA ReplaceUpper ==
  ASSUME NEW f \in Seq(Char)
  PROVE  Replace(Map(Upper, f), Underscore, Hyphen) = Map(Upper, Replace(f, Underscore, Hyphen))
<1> DEFINE u == Map(Upper, f)
           r == Replace(f, Underscore, Hyphen)
<1>1. u = [i \in DOMAIN f |-> Upper(f[i])]
  BY DEF Map
<1>2. r = [i \in DOMAIN f |-> IF f[i] = Underscore THEN Hyphen ELSE f[i]]
  BY DEF Replace
<1>3. Replace(u, Underscore, Hyphen)
        = [i \in DOMAIN u |-> IF u[i] = Underscore THEN Hyphen ELSE u[i]]
  BY Zenon DEF Replace
<1>4. Map(Upper, r) = [i \in DOMAIN r |-> Upper(r[i])]
  BY Zenon DEF Map
<1>5. ASSUME NEW i \in DOMAIN f
      PROVE  (IF u[i] = Underscore THEN Hyphen ELSE u[i]) = Upper(r[i])
  <2>1. f[i] \in Char
    OBVIOUS
  <2>2. (Upper(f[i]) = Underscore <=> f[i] = Underscore) /\ Upper(Hyphen) = Hyphen
    <3>1. Hyphen \in Char
      BY LettersAssumption
    <3> QED
      BY <2>1, <3>1, CaseType
  <2>3. u[i] = Upper(f[i]) /\ r[i] = IF f[i] = Underscore THEN Hyphen ELSE f[i]
    BY ONLY <1>1, <1>2, i \in DOMAIN f
  <2> HIDE DEF u, r
  <2> QED
    BY ONLY <2>2, <2>3, Zenon
<1>6. DOMAIN u = DOMAIN f /\ DOMAIN r = DOMAIN f
  BY <1>1, <1>2
<1> HIDE DEF u, r
<1>7. Replace(u, Underscore, Hyphen) = Map(Upper, r)
  BY ONLY <1>3, <1>4, <1>5, <1>6, Zenon
<1> QED
  BY <1>7 DEF u, r

(* A name in snake_case has no upper case to lower. *)
LEMMA LowerField ==
  ASSUME NEW f \in FieldNames
  PROVE  Map(Lower, f) = f
<1>1. f \in Seq(Char) /\ \A i \in DOMAIN f : ~IsUpper(f[i])
  BY NamesAssumption
<1>2. \A i \in DOMAIN f : Lower(f[i]) = f[i]
  BY <1>1 DEF Lower, IsUpper
<1>3. f = [i \in DOMAIN f |-> f[i]]
  BY <1>1
<1> QED
  BY <1>2, <1>3, Zenon DEF Map

(* The macro's rules are serde's. *)
LEMMA RulesAgree ==
  ASSUME NEW st, NEW field, NEW f \in FieldNames, field.name = f, field.rename = None,
         st.rename_all \in Known
  PROVE  SerdeKey(st, field) = ApplyRenameRule(st.rename_all, f)
<1>1. PICK rule : rule = st.rename_all
  OBVIOUS
<1>2. f \in Seq(Char)
  BY NamesAssumption
<1>3. /\ Map(Lower, f) = f
      /\ Pascal(f) = SerdePascal(f)
      /\ Replace(Map(Upper, f), Underscore, Hyphen) = Map(Upper, Replace(f, Underscore, Hyphen))
  BY <1>2, LowerField, PascalAgrees, ReplaceUpper, Zenon
<1> DEFINE mu == Map(Upper, f)
           sp == SerdePascal(f)
           us == Uncapitalized(sp)
           rp == Replace(f, Underscore, Hyphen)
           ru == Replace(mu, Underscore, Hyphen)
<1>4. SerdeKey(st, field) =
        IF rule \in {NoRule, "lowercase", "snake_case"} THEN f
        ELSE IF rule \in {"UPPERCASE", "SCREAMING_SNAKE_CASE"} THEN mu
        ELSE IF rule = "PascalCase" THEN sp
        ELSE IF rule = "camelCase" THEN us
        ELSE IF rule = "kebab-case" THEN rp ELSE ru
  BY <1>1, Zenon DEF SerdeKey
<1>5. ApplyRenameRule(rule, f) =
        CASE rule = "lowercase"            -> f
          [] rule = "UPPERCASE"            -> mu
          [] rule = "PascalCase"           -> sp
          [] rule = "camelCase"            -> us
          [] rule = "snake_case"           -> f
          [] rule = "SCREAMING_SNAKE_CASE" -> mu
          [] rule = "kebab-case"           -> rp
          [] rule = "SCREAMING-KEBAB-CASE" -> ru
  BY <1>3, Zenon DEF ApplyRenameRule
<1>6. rule \in Known
  BY <1>1
<1> HIDE DEF mu, sp, us, rp, ru
<1>7. SerdeKey(st, field) = ApplyRenameRule(rule, f)
  BY <1>4, <1>5, <1>6 DEF Known, NoRule
<1> QED
  BY <1>1, <1>7

(* The structs that the model lets the macro see. *)
LEMMA DeclType ==
  ASSUME NEW st \in Structs
  PROVE  /\ st.name \in StructNames /\ st.rename_all \in Rules \cup {NoRule, ListRule}
         /\ \A i \in DOMAIN st.fields :
              /\ st.fields[i].name \in FieldNames /\ st.fields[i].marked \in 0 .. 1
              /\ st.fields[i].rename \in {None, ListForm, <<"a">>}
<1>1. \A m \in 0 .. 1 : IdDecl(m) \in FieldDecl
  BY NamesAssumption DEF IdDecl, FieldDecl
<1>2. ASSUME NEW d \in FieldDecl
      PROVE  /\ d.name \in FieldNames /\ d.marked \in 0 .. 1
             /\ d.rename \in {None, ListForm, <<"a">>}
  BY DEF FieldDecl
<1>3. (CHOOSE n \in StructNames : TRUE) \in StructNames
  BY NamesAssumption
<1>4. st.fields \in FieldLists \cup {<<IdDecl(0)>>}
  BY DEF Structs
<1>5. \A i \in DOMAIN st.fields : st.fields[i] \in FieldDecl
  <2>1. CASE st.fields \in {<<f>> : f \in FieldDecl}
    BY <2>1
  <2>2. CASE st.fields \in {<<f, IdDecl(m)>> : f \in {g \in FieldDecl : g.name # Id}, m \in 0 .. 1}
    BY <1>1, <2>2
  <2>3. CASE st.fields = <<IdDecl(0)>>
    BY <1>1, <2>3
  <2> QED
    BY <1>4, <2>1, <2>2, <2>3 DEF FieldLists
<1>6. st.name \in StructNames /\ st.rename_all \in Rules \cup {NoRule, ListRule}
  BY <1>3 DEF Structs
<1> QED
  BY <1>2, <1>5, <1>6

(* The id of a struct that compiles is found under the key serde gives it. *)
LEMMA CompiledKeyAgrees ==
  ASSUME NEW st \in Structs, Compiles(st)
  PROVE  \E i \in DOMAIN st.fields : IsId(st, i) /\ IdKey(st) = SerdeKey(st, st.fields[i])
<1>1. Cardinality(IdFields(st)) = 1
  BY DEF Compiles, Expands
<1>2. IdFields(st) # {}
  BY <1>1, FS_EmptySet
<1> DEFINE i == CHOOSE j \in IdFields(st) : TRUE
           id == st.fields[i]
<1>3. i \in IdFields(st) /\ IdField(st) = id
  BY <1>2 DEF IdField
<1> HIDE DEF i
<1>4. i \in DOMAIN st.fields
  BY <1>3 DEF IdFields, Marked
<1>5. IsId(st, i)
  <2>1. CASE Marked(st) # {}
    BY <1>3, <2>1, Zenon DEF IdFields, Marked, IsId
  <2>2. CASE Marked(st) = {}
    <3>1. st.fields[i].name = Id
      BY <1>3, <2>2, Zenon DEF IdFields
    <3>2. \A j \in DOMAIN st.fields : st.fields[j].marked # 1
      BY <2>2, Zenon DEF Marked
    <3>3. \A j \in DOMAIN st.fields : st.fields[j].marked \in 0 .. 1
      BY DeclType, Zenon
    <3>4. \A j \in DOMAIN st.fields : st.fields[j].marked = 0
      BY <3>2, <3>3
    <3> QED
      BY <3>1, <3>4, Zenon DEF IsId
  <2> QED
    BY <2>1, <2>2
<1>6. IdKey(st) = SerdeKey(st, id)
  <2>1. id.name \in FieldNames
    BY <1>4, DeclType, Zenon
  <2>2. CASE id.rename # None
    BY <1>3, <2>2, Zenon DEF IdKey, SerdeKey
  <2>3. CASE id.rename = None /\ st.rename_all = NoRule
    <3>1. IdKey(st) = id.name
      BY <1>3, <2>3, Zenon DEF IdKey
    <3>2. SerdeKey(st, id) = id.name
      BY <2>3, Zenon DEF SerdeKey
    <3> QED
      BY <3>1, <3>2, Zenon
  <2>4. CASE id.rename = None /\ st.rename_all # NoRule
    <3>1. st.rename_all \in Known
      BY <1>3, <2>4, Zenon DEF Compiles, SerdeExpands
    <3>2. IdKey(st) = ApplyRenameRule(st.rename_all, id.name)
      BY <1>3, <2>4, Zenon DEF IdKey
    <3>3. SerdeKey(st, id) = ApplyRenameRule(st.rename_all, id.name)
      BY <2>1, <2>4, <3>1, RulesAgree, Zenon
    <3> QED
      BY <3>2, <3>3, Zenon
  <2> QED
    BY <2>2, <2>3, <2>4, Zenon
<1> QED
  BY <1>4, <1>5, <1>6

DeclaredInv == declared \subseteq Structs

LEMMA DeclaredMeansAgrees == DeclaredInv => IdFieldAgrees
BY CompiledKeyAgrees DEF DeclaredInv, IdFieldAgrees

LEMMA DeclaredMeansDiffer == DeclaredInv => TablesDiffer
<1>1. ASSUME NEW n \in StructNames
      PROVE  n \in Seq(Char) /\ CamelCase(n)
  BY NamesAssumption DEF CamelCase
<1>2. SUFFICES ASSUME DeclaredInv, NEW st \in declared, NEW other \in StructNames,
                      ToSnakeCase(st.name) = ToSnakeCase(other)
               PROVE  st.name = other
  BY DEF TablesDiffer
<1>3. st.name \in StructNames
  BY <1>2, DeclType DEF DeclaredInv
<1> QED
  BY <1>1, <1>2, <1>3, SnakeInjective, Zenon

-----------------------------------------------------------------------------
(* The typed layer as a whole.                                             *)

(* While a struct is compiled no record is touched: what holds of the records
   in Records holds of them in the typed layer. *)
THEOREM TypedLayerKeepsRecords == TypedSpec => Spec
<1>1. TypedInit => Init
  BY DEF TypedInit
<1>2. [TypedNext]_<<vars, declared>> => [Next]_vars
  BY DEF TypedNext
<1> QED
  BY <1>1, <1>2, PTL DEF TypedSpec, Spec

THEOREM DeclaredInvariant == TypedSpec => []DeclaredInv
<1>1. TypedInit => DeclaredInv
  BY DEF TypedInit, InitDerive, DeclaredInv
<1>2. DeclaredInv /\ [TypedNext]_<<vars, declared>> => DeclaredInv'
  BY DEF DeclaredInv, TypedNext, Expand
<1> QED
  BY <1>1, <1>2, PTL DEF TypedSpec

(* Whatever rule and name the id of a struct has, ID_FIELD is the key serde
   stores the id under: to_fields finds it in every record. *)
THEOREM IdFieldIsTheStoredKey == TypedSpec => []IdFieldAgrees
  BY DeclaredInvariant, DeclaredMeansAgrees, PTL

(* Two structs whose CamelCase names differ have different default tables. *)
THEOREM DefaultTablesDiffer == TypedSpec => []TablesDiffer
  BY DeclaredInvariant, DeclaredMeansDiffer, PTL

=============================================================================
