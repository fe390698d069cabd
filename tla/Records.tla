------------------------------ MODULE Records ------------------------------
(***************************************************************************)
(* Typed records (Table of src/record.rs): sessions that insert, update,   *)
(* delete and purge records of a struct, flush them and read each other's  *)
(* files in any order.                                                     *)
(*                                                                         *)
(* A struct is told by how serde treats its keys, the id excepted:         *)
(*   nullable   an Option: null and a missing key both mean None           *)
(*   filled     has a serde default, which a missing key gets              *)
(*   skipped    not serialized while it is None, or the default if filled  *)
(* A record in memory is a function from all keys to values, None being    *)
(* JNull.  How files travel is left to Walburg: a file here appears whole  *)
(* and stays, since compaction is transparent (MergeProofs).               *)
(***************************************************************************)
EXTENDS Merge

CONSTANTS
  Session,      \* the stores whose tables are used
  UserOf,       \* session -> its user
  Tables,       \* tables: for each the structs that are stored in it
  Underscored,  \* key names that start with an underscore
  JNull,        \* the rank of the JSON text `null`
  DefaultVal    \* what a filled key gets when it is missing

Key == DataField \cup Underscored

RecordType == [keys : SUBSET Key, nullable : SUBSET Key,
               filled : SUBSET Key, skipped : SUBSET Key]

ASSUME RecordsAssumption ==
  /\ {DELETED, PURGE} \subseteq Underscored /\ Underscored \cap DataField = {}
  /\ UserOf \in [Session -> User]
  /\ JNull \in Value \ {JTrue} /\ DefaultVal \in Value \ {JNull}
  /\ Tables \subseteq SUBSET RecordType
  /\ \A t \in UNION Tables :
       /\ t.nullable \cup t.filled \cup t.skipped \subseteq t.keys
       /\ t.nullable \cap t.filled = {}
       /\ t.skipped \subseteq t.nullable \cup t.filled

VARIABLES
  types,     \* the structs stored in the table
  files,     \* the WAL files, each a set of ops
  read,      \* session -> the files its sync has read
  current,   \* session -> Store.current
  outbox,    \* session -> Store.outbox
  lastTx,    \* session -> Store.last_tx
  edits      \* history: what applications gave fields, as ops (null for None)

vars == <<types, files, read, current, outbox, lastTx, edits>>

NoTx == -1

Init ==
  /\ types \in Tables
  /\ files = {}
  /\ read = [s \in Session |-> {}]
  /\ current = [s \in Session |-> {}]
  /\ outbox = [s \in Session |-> {}]
  /\ lastTx = [s \in Session |-> NoTx]
  /\ edits = {}

-----------------------------------------------------------------------------
(***************************************************************************)
(* Records and what is stored of them.                                     *)
(***************************************************************************)
\* What a key holds when the stored object has no such key.
Absent(t, k) == IF k \in t.filled THEN DefaultVal ELSE JNull

RecordsOf(t) ==
  {r \in [t.keys -> Value] : \A k \in t.keys : r[k] = JNull => k \in t.nullable}

Serialized(t, r) == {k \in t.keys : k \in t.skipped => r[k] # Absent(t, k)}

\* Mutant: one of the system fields is not thought of.
NoReservedPurge(t, r) == DELETED \notin Serialized(t, r)

\* to_fields, which fails on a serialized key that starts with an underscore.
NoReserved(t, r) == Serialized(t, r) \cap Underscored = {}

ToFields(t, r) == [k \in Serialized(t, r) |-> r[k]]

Live(S, e) == Visible(S, e) /\ ~Materialize(S, e).deleted

Stored(S, e, k) == {o.value : o \in {p \in Facts(S, e) : p.field = k /\ k \in DataField}}

\* serde_json::from_value accepts the stored fields.  Keys the struct does
\* not have are ignored.
Decodes(S, e, t) ==
  \A k \in t.keys :
    IF Stored(S, e, k) = {} THEN k \in t.nullable \cup t.filled
                            ELSE JNull \in Stored(S, e, k) => k \in t.nullable

\* Table::get: the record, if there is one and it decodes.
Get(S, e, t) ==
  LET Held(k) == IF Stored(S, e, k) = {} THEN {Absent(t, k)} ELSE Stored(S, e, k)
  IN  IF Live(S, e) /\ Decodes(S, e, t)
        THEN {[k \in t.keys |-> CHOOSE v \in Held(k) : TRUE]}
        ELSE {}

Ids(S) == {e \in Entity : Live(S, e)}

Invalid(S, t) == {e \in Ids(S) : ~Decodes(S, e, t)}

-----------------------------------------------------------------------------
\* Every op some file or session holds.
Issued == (UNION files) \cup (UNION {outbox[s] : s \in Session})

OpsOf(s, tx, e, fields) ==
  {[tx |-> tx, ent |-> e, field |-> k, value |-> fields[k], user |-> UserOf[s]] :
     k \in DOMAIN fields}

FreshTx(s) == {tx \in Tx : tx > lastTx[s]} \ {o.tx : o \in Issued}

\* Store::write, of fields and of what the application meant by them.  A call
\* with no field draws a tx all the same.
Write(s, e, fields, meant) ==
  \E tx \in FreshTx(s) :
    /\ lastTx' = [lastTx EXCEPT ![s] = tx]
    /\ current' = [current EXCEPT ![s] = MergeOps(@, OpsOf(s, tx, e, fields))]
    /\ outbox' = [outbox EXCEPT ![s] = @ \cup OpsOf(s, tx, e, fields)]
    /\ edits' = edits \cup OpsOf(s, tx, e, meant)
    /\ UNCHANGED <<types, files, read>>

\* The ids that Table::insert accepts.
Free(s) == {e \in Entity : ~Purged(current[s], e) /\ ~Live(current[s], e)}

\* Mutant: a key that holds None is not written.
InsertNonNull(s, e, t, r) ==
  /\ NoReserved(t, r)
  /\ Write(s, e, [k \in {j \in t.keys : r[j] # JNull} |-> r[k]], r)

\* Mutant: a key that holds the default is not written.
InsertNonDefault(s, e, t, r) ==
  /\ NoReserved(t, r)
  /\ Write(s, e, [k \in {j \in t.keys : r[j] \notin {JNull, DefaultVal}} |-> r[k]], r)

Insert(s, e, t, r) ==
  /\ NoReserved(t, r)
  /\ Write(s, e, ToFields(t, r), r)

\* Mutant: the whole record is written.
ChangedAll(t, old, new) ==
  [k \in t.keys |-> IF k \in Serialized(t, new) THEN new[k] ELSE JNull]

\* Mutant: a key that vanished is not written.
ChangedSerialized(t, old, new) ==
  [k \in {j \in Serialized(t, new) : new[j] # old[j]} |-> new[k]]

\* A key that vanished is written as null.
Changed(t, old, new) ==
  LET before == ToFields(t, old)
      after  == ToFields(t, new)
      In(f, k) == IF k \in DOMAIN f THEN {f[k]} ELSE {}
      keys   == {k \in (DOMAIN before) \cup (DOMAIN after) : In(before, k) # In(after, k)}
  IN  [k \in keys |-> IF k \in DOMAIN after THEN after[k] ELSE JNull]

\* Table::update, of the record it loaded, for a change that makes it new.
Update(s, e, t, old, new) ==
  LET fields == Changed(t, old, new)
  IN  /\ NoReserved(t, old)
      /\ NoReserved(t, new)
      /\ IF DOMAIN fields = {} THEN UNCHANGED vars
         ELSE Write(s, e, fields, [k \in {j \in t.keys : old[j] # new[j]} |-> new[k]])

Delete(s, e) == Write(s, e, [k \in {DELETED} |-> JTrue], <<>>)

Purge(s, e) == Write(s, e, [k \in {PURGE} |-> JTrue], <<>>)

\* Store::flush.  Its own file tells a session nothing new, so that it reads
\* it once more is left out.
Flush(s) ==
  /\ outbox[s] # {}
  /\ files' = files \cup {outbox[s]}
  /\ read' = [read EXCEPT ![s] = @ \cup {outbox[s]}]
  /\ outbox' = [outbox EXCEPT ![s] = {}]
  /\ UNCHANGED <<types, current, lastTx, edits>>

\* Store::sync, of the files that have arrived by then.
Sync(s, F) ==
  /\ F # {}
  /\ read' = [read EXCEPT ![s] = @ \cup F]
  /\ current' = [current EXCEPT ![s] = MergeOps(@, UNION F)]
  /\ UNCHANGED <<types, files, outbox, lastTx, edits>>

Next ==
  \E s \in Session :
    \/ \E e \in Free(s), t \in types : \E r \in RecordsOf(t) : Insert(s, e, t, r)
    \/ \E e \in Entity, t \in types :
         \E old \in Get(current[s], e, t), new \in RecordsOf(t) : Update(s, e, t, old, new)
    \/ \E e \in Entity : Delete(s, e) \/ Purge(s, e)
    \/ Flush(s)
    \/ \E F \in SUBSET (files \ read[s]) : Sync(s, F)

Spec == Init /\ [][Next]_vars

-----------------------------------------------------------------------------
\* The types; and what a session reads or has to flush it has merged.
TypeOK ==
  /\ types \in Tables
  /\ files \subseteq SUBSET Op
  /\ read \in [Session -> SUBSET files]
  /\ current \in [Session -> SUBSET Op]
  /\ outbox \in [Session -> SUBSET Op]
  /\ lastTx \in [Session -> Tx \cup {NoTx}]
  /\ \A s \in Session : \A o \in outbox[s] \cup UNION read[s] : Covers(current[s], o)

\* Structs of which every data field is written by an insert.
WritesAll(t) == t.skipped \cap DataField = {}

\* The edits a session made or read a file with.
KnownEdits(s) ==
  {i \in edits : i.user = UserOf[s] \/ \E o \in UNION read[s] : o.tx = i.tx}

(***************************************************************************)
(* Two writers who edit different fields of a record both keep their edit  *)
(* (record.rs `update`: "concurrent edits to other fields are never        *)
(* overwritten").  Of every field a session shows what was given to it by  *)
(* the latest of the edits it knows, whoever else wrote the record since   *)
(* and however stale the record was they had loaded; if the structs skip   *)
(* none of their data keys, since an insert gives what it skips no value.  *)
(***************************************************************************)
LatestEditShows ==
  (\A t \in types : WritesAll(t)) =>
  \A s \in Session :
    LET known == KnownEdits(s)
    IN  \A i \in known :
          \/ Purged(current[s], i.ent)
          \/ \E j \in known : j.ent = i.ent /\ j.field = i.field /\ j.tx > i.tx
          \/ Stored(current[s], i.ent, i.field) = {i.value}
          \/ Stored(current[s], i.ent, i.field) = {} /\ i.value = JNull

(***************************************************************************)
(* A live record a session cannot decode is one it has not read all files  *)
(* of (README.md "Incomplete or mismatched records", record.rs `list`):    *)
(* inserts that race for an id, updates of stale records, deletes and      *)
(* restores never leave one that stays invalid, if the structs fit.        *)
(***************************************************************************)
SettledDecodes ==
  \A s \in Session :
    (\A o \in UNION files : Covers(current[s], o)) =>
      \A t \in types : Invalid(current[s], t) = {}

(***************************************************************************)
(* A session that shows a record stops doing so on a delete, a purge or a  *)
(* sync: no typed insert or update takes a live record away, though the    *)
(* system fields that do are ordinary fields (record.rs `to_fields`).      *)
(***************************************************************************)
EditsKeepLive ==
  [][\A s \in Session, e \in Entity :
       Live(current[s], e) /\ ~Live(current'[s], e) => edits' = edits]_vars

\* The sessions that write in a step, with a clock no earlier than those of
\* the writers they have read.
WritesInOrder(s) == lastTx'[s] # lastTx[s] /\ \A o \in current[s] : o.tx < lastTx'[s]

(***************************************************************************)
(* What update returns is what get then shows (record.rs `update`), though *)
(* only the difference to what was loaded is written; if clocks agree.     *)
(***************************************************************************)
UpdatedIsRead ==
  [][\A s \in {x \in Session : WritesInOrder(x)}, e \in Entity, t \in types :
       \A old \in Get(current[s], e, t), new \in RecordsOf(t) :
         Update(s, e, t, old, new) => Get(current'[s], e, t) = {new}]_vars

(***************************************************************************)
(* insert writes a new record, every field of it (record.rs `insert`,      *)
(* README.md "writes every field"): what is shown next is the record given *)
(* and nothing of a deleted one that had the same id; if clocks agree, and *)
(* for structs that skip none of their data keys: with one that does, the  *)
(* deleted record's value of it shows.                                     *)
(***************************************************************************)
InsertedIsRead ==
  [][\A s \in {x \in Session : WritesInOrder(x)} : \A e \in Free(s) :
       \A t \in {u \in types : WritesAll(u)} : \A r \in RecordsOf(t) :
         Insert(s, e, t, r) => Get(current'[s], e, t) = {r}]_vars

=============================================================================
