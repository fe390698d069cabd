------------------------------- MODULE Store -------------------------------
(***************************************************************************)
(* A session: the Store of src/store.rs with the WalReader of src/wal.rs   *)
(* inside it.  A Store is used through &mut self, so the calls of one      *)
(* session never overlap; those of different sessions and of compactors    *)
(* interleave at every access to the directory.                            *)
(***************************************************************************)
EXTENDS WalDir

CONSTANTS
  Writer,      \* the sessions whose application writes and flushes
  Reader,      \* the sessions whose application calls sync()
  UserOf,      \* session -> its user
  FieldLists,  \* the field lists callers write, deletes and purges included
  MaxCrashes,  \* bound: sessions and compactors that stop without warning
  TxCollides   \* may two writers draw the same transaction id?

NoTx == -1

ASSUME StoreAssumption ==
  /\ Writer \subseteq Session /\ Reader \subseteq Session
  /\ UserOf \in [Session -> User]
  /\ FieldLists \subseteq FieldList
  /\ MaxCrashes \in Nat
  /\ TxCollides \in BOOLEAN

VARIABLES
  current,    \* session -> Store.current
  outbox,     \* session -> Store.outbox
  lastTx,     \* session -> Store.last_tx
  processed,  \* session -> WalReader.processed
  failing,    \* session -> the file names in WalReader.failing
  batch,      \* session -> all_ops of the consume() under way
  own,        \* history: session -> every op it wrote since it was opened
  crashes     \* how many processes crashed

storeVars == <<current, outbox, lastTx, processed, failing, batch, own, crashes>>

InitStore ==
  /\ current = [s \in Session |-> {}]
  /\ outbox = [s \in Session |-> {}]
  /\ lastTx = [s \in Session |-> NoTx]
  /\ processed = [s \in Session |-> {}]
  /\ failing = [s \in Session |-> {}]
  /\ batch = [s \in Session |-> {}]
  /\ own = [s \in Session |-> {}]
  /\ crashes = 0

-----------------------------------------------------------------------------
\* Every op written so far that some file or running session still knows.
Issued == (UNION {content[f] : f \in File}) \cup (UNION {own[s] : s \in Session})

\* next_tx: later than this session's previous tx, whatever others drew.
NextTx(s, tx) ==
  /\ tx > lastTx[s]
  /\ TxCollides \/ \A o \in Issued : o.tx # tx
  /\ lastTx' = [lastTx EXCEPT ![s] = tx]

\* create, update, delete and purge: apply locally, queue for flush.
Write(s, e, fields) ==
  /\ pc[s] = "idle"
  /\ \E tx \in Tx :
       LET ops == Transaction(tx, e, fields, UserOf[s])
       IN  /\ NextTx(s, tx)
           /\ current' = [current EXCEPT ![s] = MergeOps(@, ops)]
           /\ outbox' = [outbox EXCEPT ![s] = @ \cup ops]
           /\ own' = [own EXCEPT ![s] = @ \cup ops]
  /\ UNCHANGED <<processed, failing, batch, crashes>>
  /\ UNCHANGED dirVars

-----------------------------------------------------------------------------
(***************************************************************************)
(* flush                                                                   *)
(***************************************************************************)
\* Mutant: the outbox is emptied before the file is verified.
FlushClearsEarly(s) ==
  /\ pc[s] = "idle"
  /\ outbox[s] # {}
  /\ WriteTemp(s, outbox[s])
  /\ outbox' = [outbox EXCEPT ![s] = {}]
  /\ UNCHANGED <<current, lastTx, processed, failing, batch, own, crashes>>

\* Mutant: one op of the outbox is written, all of it will be dropped.
FlushOneOp(s) ==
  /\ pc[s] = "idle"
  /\ \E o \in outbox[s] : WriteTemp(s, {o})
  /\ UNCHANGED storeVars

Flush(s) ==
  /\ pc[s] = "idle"
  /\ outbox[s] # {}
  /\ WriteTemp(s, outbox[s])
  /\ UNCHANGED storeVars

\* Mutant: a flush that failed empties the outbox too.
FlushStepClears(s) ==
  /\ WriteStep(s)
  /\ outbox' = [outbox EXCEPT ![s] = IF pc'[s] = "idle" THEN {} ELSE @]
  /\ UNCHANGED <<current, lastTx, processed, failing, batch, own, crashes>>

FlushStep(s) == WriteStep(s) /\ UNCHANGED storeVars

\* Only a verified file empties the outbox.
FlushOk(s) ==
  /\ VerifyOk(s)
  /\ outbox' = [outbox EXCEPT ![s] = {}]
  /\ wfile' = [wfile EXCEPT ![s] = NoFile]
  /\ Goto(s, "idle")
  /\ UNCHANGED <<current, lastTx, processed, failing, batch, own, crashes>>

-----------------------------------------------------------------------------
(***************************************************************************)
(* sync: list, read the files one by one, then apply all their ops.        *)
(***************************************************************************)
\* Mutant: a file that failed once is not read again.
SyncListSkipsFailing(s) ==
  /\ List(s, (Listed \ processed[s]) \ failing[s])
  /\ failing' = [failing EXCEPT ![s] = @ \cap Listed]
  /\ UNCHANGED <<current, outbox, lastTx, processed, batch, own, crashes>>

SyncList(s) ==
  /\ List(s, Listed \ processed[s])
  /\ failing' = [failing EXCEPT ![s] = @ \cap Listed]
  /\ UNCHANGED <<current, outbox, lastTx, processed, batch, own, crashes>>

\* Mutant: whatever reading it gave, the file counts as processed.
SyncReadMarksAll(s, f) ==
  /\ TakeListed(s, f)
  /\ \/ ReadsWhole(f) /\ batch' = [batch EXCEPT ![s] = @ \cup content[f]]
     \/ (ReadsMissing(f) \/ ReadsBad(f)) /\ UNCHANGED batch
  /\ processed' = [processed EXCEPT ![s] = @ \cup {f}]
  /\ UNCHANGED <<failing, current, outbox, lastTx, own, crashes>>

\* Mutant: a file that is read at last stays in quarantine.
SyncReadKeepsFailing(s, f) ==
  /\ TakeListed(s, f)
  /\ \/ /\ ReadsWhole(f)
        /\ batch' = [batch EXCEPT ![s] = @ \cup content[f]]
        /\ processed' = [processed EXCEPT ![s] = @ \cup {f}]
        /\ UNCHANGED failing
     \/ /\ ReadsMissing(f)
        /\ UNCHANGED <<batch, processed, failing>>
     \/ /\ ReadsBad(f)
        /\ failing' = [failing EXCEPT ![s] = @ \cup {f}]
        /\ UNCHANGED <<batch, processed>>
  /\ UNCHANGED <<current, outbox, lastTx, own, crashes>>

SyncRead(s, f) ==
  /\ TakeListed(s, f)
  /\ \/ /\ ReadsWhole(f)
        /\ batch' = [batch EXCEPT ![s] = @ \cup content[f]]
        /\ processed' = [processed EXCEPT ![s] = @ \cup {f}]
        /\ failing' = [failing EXCEPT ![s] = @ \ {f}]
     \/ /\ ReadsMissing(f)
        /\ UNCHANGED <<batch, processed, failing>>
     \/ /\ ReadsBad(f)
        /\ failing' = [failing EXCEPT ![s] = @ \cup {f}]
        /\ UNCHANGED <<batch, processed>>
  /\ UNCHANGED <<current, outbox, lastTx, own, crashes>>

SyncApply(s) ==
  /\ pc[s] = "reading"
  /\ todo[s] = {}
  /\ current' = [current EXCEPT ![s] = MergeOps(@, batch[s])]
  /\ batch' = [batch EXCEPT ![s] = {}]
  /\ Goto(s, "idle")
  /\ UNCHANGED <<outbox, lastTx, processed, failing, own, crashes>>
  /\ UNCHANGED <<disk, content, nextFile, faults, todo, wfile, verified>>

-----------------------------------------------------------------------------
\* The session's process stops; Store::open makes a new one that knows nothing.
Crash(s) ==
  /\ crashes < MaxCrashes
  /\ crashes' = crashes + 1
  /\ current' = [current EXCEPT ![s] = {}]
  /\ outbox' = [outbox EXCEPT ![s] = {}]
  /\ lastTx' = [lastTx EXCEPT ![s] = NoTx]
  /\ processed' = [processed EXCEPT ![s] = {}]
  /\ failing' = [failing EXCEPT ![s] = {}]
  /\ batch' = [batch EXCEPT ![s] = {}]
  /\ own' = [own EXCEPT ![s] = {}]
  /\ Die(s)

SyncStep(s) == SyncList(s) \/ SyncApply(s) \/ \E f \in File : SyncRead(s, f)

NextStore(s) ==
  \/ /\ s \in Writer
     /\ \/ \E e \in Entity, fields \in FieldLists : Write(s, e, fields)
        \/ Flush(s)
        \/ FlushStep(s)
        \/ FlushOk(s)
  \/ s \in Reader /\ SyncStep(s)
  \/ Crash(s)

=============================================================================
