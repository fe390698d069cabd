--------------------------- MODULE WalburgProofs ---------------------------
(***************************************************************************)
(* Walburg for every number of sessions, compactors, files, faults and     *)
(* crashes: the type invariant, and that nothing verified is lost.         *)
(***************************************************************************)
EXTENDS Walburg, MergeProofs

(* A transaction is made of ops (eavc.rs `transaction`). *)
LEMMA TransactionOps ==
  ASSUME NEW tx \in Tx, NEW e \in Entity, NEW fields \in FieldLists,
         NEW s \in Session
  PROVE  Transaction(tx, e, fields, UserOf[s]) \in SUBSET Op
<1>1. fields \in Seq(Field \X Value) /\ UserOf[s] \in User
  BY StoreAssumption DEF FieldList
<1>2. \A i \in DOMAIN fields : fields[i][1] \in Field /\ fields[i][2] \in Value
  BY <1>1
<1> QED
  BY <1>1, <1>2 DEF Transaction, Op

(* File names are numbers, and no file is none of them. *)
LEMMA FileType == File \subseteq Nat /\ NoFile \notin File
  BY DEF File, NoFile

-----------------------------------------------------------------------------
(* Types.                                                                  *)

(* The directory as it is found, and sessions that know nothing. *)
LEMMA TypeInit == Init => TypeOK
  BY WalDirAssumption, StoreAssumption, CompactorAssumption
     DEF Init, InitDir, InitStore, InitCompactor, TypeOK, DirTypeOK, Proc, File,
         NoFile, Status, PC

(* What write_verified does keeps the types and touches no other process. *)
LEMMA WriteStepType ==
  ASSUME TypeOK, NEW p \in Proc, WriteStep(p)
  PROVE  /\ DirTypeOK'
         /\ todo' = todo
         /\ \A q \in Proc \ {p} : pc'[q] = pc[q] /\ wfile'[q] = wfile[q]
         /\ pc'[p] \in {"idle", "verifying", "discarding"}
         /\ pc[p] \in {"renaming", "verifying", "discarding"}
         /\ wfile'[p] # NoFile <=> pc'[p] \in {"renaming", "verifying", "discarding"}
<1> USE WalDirAssumption, FileType
        DEF TypeOK, DirTypeOK, Status, PC, Goto, Fault
<1>1. CASE Rename(p)
  BY <1>1 DEF Rename
<1>2. CASE RenameFails(p)
  BY <1>2 DEF RenameFails
<1>3. CASE VerifyUnreadable(p)
  BY <1>3 DEF VerifyUnreadable
<1>4. CASE VerifyMismatch(p)
  BY <1>4 DEF VerifyMismatch
<1>5. CASE Discard(p)
  BY <1>5 DEF Discard
<1> QED
  BY <1>1, <1>2, <1>3, <1>4, <1>5 DEF WriteStep

(* A new temporary file keeps the types. *)
LEMMA WriteTempType ==
  ASSUME TypeOK, NEW p \in Proc, NEW ops \in SUBSET Op, WriteTemp(p, ops)
  PROVE  /\ DirTypeOK'
         /\ todo' = todo
         /\ \A q \in Proc \ {p} : pc'[q] = pc[q] /\ wfile'[q] = wfile[q]
         /\ pc'[p] = "renaming" /\ wfile'[p] # NoFile
<1>1. nextFile \in File
  BY WalDirAssumption DEF WriteTemp, TypeOK, DirTypeOK, File
<1> QED
  BY <1>1, WalDirAssumption, FileType
     DEF WriteTemp, TypeOK, DirTypeOK, Status, PC, Goto, File

(* What a session does keeps the types (store.rs, wal.rs `consume`). *)
LEMMA SessionType ==
  ASSUME TypeOK, NEW s \in Session, SessionStep(s)
  PROVE  TypeOK'
<1> s \in Proc
  BY DEF Proc
<1> USE WalDirAssumption, StoreAssumption, CompactorAssumption, FileType
<1>1. ASSUME NEW e \in Entity, NEW fields \in FieldLists, Write(s, e, fields)
      PROVE  TypeOK'
  <2>1. PICK tx \in Tx :
          LET ops == Transaction(tx, e, fields, UserOf[s])
          IN  /\ NextTx(s, tx)
              /\ current' = [current EXCEPT ![s] = MergeOps(@, ops)]
              /\ outbox' = [outbox EXCEPT ![s] = @ \cup ops]
              /\ own' = [own EXCEPT ![s] = @ \cup ops]
    BY <1>1 DEF Write
  <2> DEFINE ops == Transaction(tx, e, fields, UserOf[s])
  <2>2. ops \in SUBSET Op
    BY TransactionOps
  <2>3. MergeOps(current[s], ops) \in SUBSET Op
    BY <2>2, MergeOpsType DEF TypeOK
  <2> HIDE DEF ops
  <2>4. /\ current' \in [Session -> SUBSET Op]
        /\ outbox' \in [Session -> SUBSET Op]
        /\ own' \in [Session -> SUBSET Op]
    BY <2>1, <2>2, <2>3 DEF TypeOK, ops
  <2>5. lastTx' \in [Session -> Tx \cup {NoTx}]
    BY <2>1 DEF NextTx, TypeOK
  <2> QED
    BY <1>1, <2>4, <2>5 DEF Write, SessionStep, TypeOK, DirTypeOK, dirVars, compactorVars
<1>2. CASE Flush(s)
  <2>1. outbox[s] \in SUBSET Op /\ WriteTemp(s, outbox[s])
    BY <1>2 DEF Flush, TypeOK
  <2> QED
    BY <1>2, <2>1, WriteTempType
       DEF Flush, SessionStep, TypeOK, storeVars, compactorVars, Proc
<1>3. CASE FlushStep(s)
  BY <1>3, WriteStepType DEF FlushStep, SessionStep, TypeOK, storeVars, compactorVars, Proc
<1>4. CASE FlushOk(s)
  <2>0. wfile[s] \in File
    BY <1>4 DEF FlushOk, VerifyOk, TypeOK, DirTypeOK
  <2>1. DirTypeOK'
    BY <1>4, <2>0 DEF FlushOk, VerifyOk, Goto, TypeOK, DirTypeOK, PC
  <2>2. /\ todo' = todo
        /\ \A q \in Proc \ {s} : pc'[q] = pc[q] /\ wfile'[q] = wfile[q]
        /\ pc'[s] = "idle" /\ wfile'[s] = NoFile /\ pc[s] = "verifying"
    BY <1>4 DEF FlushOk, VerifyOk, Goto, TypeOK, DirTypeOK
  <2>3. outbox' \in [Session -> SUBSET Op]
    BY <1>4 DEF FlushOk, TypeOK
  <2> QED
    BY <1>4, <2>1, <2>2, <2>3 DEF FlushOk, SessionStep, TypeOK, compactorVars, Proc
<1>5. CASE SyncList(s)
  <2>1. Listed \in SUBSET File
    BY DEF Listed
  <2>2. DirTypeOK'
    BY <1>5, <2>1 DEF SyncList, List, Goto, TypeOK, DirTypeOK, PC
  <2>3. /\ \A q \in Proc \ {s} : pc'[q] = pc[q] /\ todo'[q] = todo[q]
        /\ pc'[s] = "reading" /\ todo'[s] = Listed \ processed[s]
        /\ pc[s] = "idle" /\ wfile' = wfile
    BY <1>5 DEF SyncList, List, Goto, TypeOK, DirTypeOK
  <2>4. /\ failing' \in [Session -> SUBSET File]
        /\ \A t \in Session : failing'[t] \subseteq failing[t]
    BY <1>5 DEF SyncList, TypeOK
  <2> QED
    BY <1>5, <2>2, <2>3, <2>4 DEF SyncList, SessionStep, TypeOK, compactorVars, Proc
<1>6. ASSUME NEW f \in File, SyncRead(s, f)
      PROVE  TypeOK'
  <2>1. content[f] \in SUBSET Op
    BY DEF TypeOK, DirTypeOK
  <2>2. pc[s] = "reading" /\ f \in todo[s] /\ f \notin processed[s]
    BY <1>6 DEF SyncRead, TakeListed, TypeOK
  <2>3. DirTypeOK' /\ \A q \in Proc : todo'[q] \subseteq todo[q]
    BY <1>6 DEF SyncRead, TakeListed, ReadsWhole, ReadsMissing, ReadsBad, Fault, TypeOK, DirTypeOK
  <2>4. f \notin todo'[s] /\ pc' = pc /\ wfile' = wfile
    BY <1>6 DEF SyncRead, TakeListed, TypeOK, DirTypeOK
  <2>5. /\ batch' \in [Session -> SUBSET Op]
        /\ processed' \in [Session -> SUBSET File]
        /\ failing' \in [Session -> SUBSET File]
    BY <1>6, <2>1 DEF SyncRead, TypeOK
  <2>6. \A t \in Session \ {s} : /\ batch'[t] = batch[t]
                                 /\ processed'[t] = processed[t]
                                 /\ failing'[t] = failing[t]
    BY <1>6 DEF SyncRead, TypeOK
  <2>7. \/ processed'[s] = processed[s] /\ failing'[s] \subseteq failing[s] \cup {f}
        \/ processed'[s] = processed[s] \cup {f} /\ failing'[s] = failing[s] \ {f}
    BY <1>6 DEF SyncRead, TypeOK
  <2>8. \A t \in Session : (failing'[t] \cup todo'[t]) \cap processed'[t] = {}
    BY <2>2, <2>3, <2>4, <2>6, <2>7 DEF TypeOK, Proc
  <2>9. \A t \in Session : batch'[t] # {} => pc'[t] = "reading"
    BY <2>2, <2>4, <2>6 DEF TypeOK
  <2>10. \A q \in Proc : todo'[q] # {} => pc'[q] = "reading"
    BY <2>3, <2>4 DEF TypeOK
  <2> QED
    BY <1>6, <2>3, <2>4, <2>5, <2>8, <2>9, <2>10
       DEF SyncRead, SessionStep, TypeOK, compactorVars
<1>7. CASE SyncApply(s)
  <2>1. MergeOps(current[s], batch[s]) \in SUBSET Op
    BY MergeOpsType DEF TypeOK
  <2> QED
    BY <1>7, <2>1 DEF SyncApply, Goto, SessionStep, TypeOK, DirTypeOK, PC,
                      compactorVars, Proc
<1>8. CASE Crash(s)
  <2>1. DirTypeOK'
    BY <1>8 DEF Crash, Die, TypeOK, DirTypeOK, PC, NoFile
  <2>2. /\ \A q \in Proc \ {s} : pc'[q] = pc[q] /\ todo'[q] = todo[q] /\ wfile'[q] = wfile[q]
        /\ pc'[s] = "idle" /\ todo'[s] = {} /\ wfile'[s] = NoFile
    BY <1>8 DEF Crash, Die, TypeOK, DirTypeOK
  <2>3. /\ current' \in [Session -> SUBSET Op]
        /\ outbox' \in [Session -> SUBSET Op]
        /\ lastTx' \in [Session -> Tx \cup {NoTx}]
        /\ processed' \in [Session -> SUBSET File]
        /\ failing' \in [Session -> SUBSET File]
        /\ batch' \in [Session -> SUBSET Op]
        /\ own' \in [Session -> SUBSET Op]
        /\ crashes' \in 0 .. MaxCrashes
    BY <1>8 DEF Crash, TypeOK
  <2>4. \A t \in Session : /\ batch'[t] # {} => pc'[t] = "reading"
                           /\ (failing'[t] \cup todo'[t]) \cap processed'[t] = {}
    BY <1>8, <2>2 DEF Crash, TypeOK, Proc
  <2>5. \A q \in Proc :
          /\ todo'[q] # {} => pc'[q] = "reading"
          /\ wfile'[q] # NoFile <=> pc'[q] \in {"renaming", "verifying", "discarding"}
    BY <2>2 DEF TypeOK
  <2>6. \A c \in Compactor : c \in Proc /\ c # s
    BY DEF Proc
  <2>7. UNCHANGED compactorVars
    BY DEF SessionStep
  <2> QED
    BY <2>1, <2>2, <2>3, <2>4, <2>5, <2>6, <2>7 DEF TypeOK, compactorVars
<1> QED
  BY <1>1, <1>2, <1>3, <1>4, <1>5, <1>6, <1>7, <1>8 DEF SessionStep, NextStore, SyncStep

(* What a compactor does keeps the types (wal.rs `compact`). *)
LEMMA CompactorType ==
  ASSUME TypeOK, NEW c \in Compactor, CompactorStep(c)
  PROVE  TypeOK'
<1> c \in Proc
  BY DEF Proc
<1> USE WalDirAssumption, StoreAssumption, CompactorAssumption, FileType
<1>0. UNCHANGED storeVars
  BY DEF CompactorStep
<1>1. CASE CompactList(c)
  <2>1. Listed \in SUBSET File
    BY DEF Listed
  <2>2. DirTypeOK'
    BY <1>1, <2>1 DEF CompactList, List, Goto, TypeOK, DirTypeOK, PC
  <2>3. /\ \A q \in Proc \ {c} : pc'[q] = pc[q] /\ todo'[q] = todo[q]
        /\ pc'[c] = "reading" /\ pc[c] = "idle" /\ wfile' = wfile
    BY <1>1 DEF CompactList, List, Goto, TypeOK, DirTypeOK
  <2> QED
    BY <1>0, <1>1, <2>2, <2>3 DEF CompactList, TypeOK, storeVars, Proc
<1>2. ASSUME NEW f \in File, CompactRead(c, f)
      PROVE  TypeOK'
  <2>1. content[f] \in SUBSET Op /\ merged[c] \in SUBSET Op
    BY DEF TypeOK, DirTypeOK
  <2>2. MergeOps(merged[c], content[f]) \in SUBSET Op
    BY <2>1, MergeOpsType
  <2>3. merged' \in [Compactor -> SUBSET Op] /\ sources' \in [Compactor -> SUBSET File]
    BY <1>2, <2>2 DEF CompactRead, TypeOK
  <2>4. DirTypeOK' /\ \A q \in Proc : todo'[q] \subseteq todo[q]
    BY <1>2 DEF CompactRead, TakeListed, ReadsWhole, ReadsMissing, ReadsBad, Fault, TypeOK, DirTypeOK
  <2>5. /\ pc' = pc /\ wfile' = wfile /\ pc[c] = "reading"
        /\ \A d \in Compactor \ {c} : merged'[d] = merged[d] /\ sources'[d] = sources[d]
    BY <1>2 DEF CompactRead, TakeListed, TypeOK
  <2>6. \/ f \in sources'[c]
        \/ sources'[c] = sources[c] /\ merged'[c] = merged[c]
    BY <1>2 DEF CompactRead, TypeOK
  <2>7. \A d \in Compactor :
          /\ pc'[d] = "idle" => sources'[d] = {}
          /\ sources'[d] = {} /\ pc'[d] # "deleting" => merged'[d] = {}
    BY <2>5, <2>6 DEF TypeOK
  <2>8. \A q \in Proc :
          /\ todo'[q] # {} => pc'[q] = "reading"
          /\ wfile'[q] # NoFile <=> pc'[q] \in {"renaming", "verifying", "discarding"}
    BY <2>4, <2>5 DEF TypeOK
  <2>9. \A s \in Session : /\ batch'[s] # {} => pc'[s] = "reading"
                           /\ (failing'[s] \cup todo'[s]) \cap processed'[s] = {}
    BY <1>0, <2>4, <2>5 DEF TypeOK, storeVars, Proc
  <2> QED
    BY <1>0, <1>2, <2>3, <2>4, <2>7, <2>8, <2>9 DEF CompactRead, TypeOK, storeVars
<1>3. CASE CompactNothing(c)
  <2>1. sources[c] = {} /\ merged[c] = {}
    BY <1>3 DEF CompactNothing, ReadAll, TypeOK
  <2> QED
    BY <1>0, <1>3, <2>1 DEF CompactNothing, ReadAll, Goto, TypeOK, DirTypeOK, PC,
                       storeVars, compactorVars, Proc
<1>4. CASE CompactNoOps(c)
  BY <1>0, <1>4 DEF CompactNoOps, ReadAll, Goto, TypeOK, DirTypeOK, PC,
                       storeVars, compactorVars, Proc
<1>5. CASE CompactWrite(c)
  <2>1. merged[c] \in SUBSET Op /\ WriteTemp(c, merged[c])
    BY <1>5 DEF CompactWrite, TypeOK
  <2> QED
    BY <1>0, <1>5, <2>1, WriteTempType
       DEF CompactWrite, ReadAll, TypeOK, storeVars, compactorVars, Proc
<1>6. CASE CompactWriteStep(c)
  <2>1. /\ merged' \in [Compactor -> SUBSET Op]
        /\ sources' \in [Compactor -> SUBSET File]
        /\ \A d \in Compactor \ {c} : merged'[d] = merged[d] /\ sources'[d] = sources[d]
        /\ pc'[c] = "idle" => merged'[c] = {} /\ sources'[c] = {}
    BY <1>6 DEF CompactWriteStep, TypeOK
  <2>2. /\ DirTypeOK'
        /\ todo' = todo
        /\ \A q \in Proc \ {c} : pc'[q] = pc[q] /\ wfile'[q] = wfile[q]
        /\ pc'[c] \in {"idle", "verifying", "discarding"}
        /\ pc[c] \in {"renaming", "verifying", "discarding"}
        /\ wfile'[c] # NoFile <=> pc'[c] \in {"renaming", "verifying", "discarding"}
    BY <1>6, WriteStepType DEF CompactWriteStep
  <2>3. /\ pc'[c] = "idle" => sources'[c] = {}
        /\ pc'[c] # "idle" => sources'[c] = sources[c] /\ merged'[c] = merged[c]
        /\ UNCHANGED compactions
    BY <1>6 DEF CompactWriteStep, TypeOK
  <2>4. \A d \in Compactor :
          /\ pc'[d] = "idle" => sources'[d] = {}
          /\ sources'[d] = {} /\ pc'[d] # "deleting" => merged'[d] = {}
    BY <2>1, <2>2, <2>3 DEF TypeOK, Proc
  <2>5. \A q \in Proc :
          /\ todo'[q] # {} => pc'[q] = "reading"
          /\ wfile'[q] # NoFile <=> pc'[q] \in {"renaming", "verifying", "discarding"}
    BY <2>2 DEF TypeOK
  <2>6. \A s \in Session : /\ batch'[s] # {} => pc'[s] = "reading"
                           /\ (failing'[s] \cup todo'[s]) \cap processed'[s] = {}
    BY <1>0, <2>2 DEF TypeOK, storeVars, Proc
  <2> QED
    BY <1>0, <2>1, <2>2, <2>3, <2>4, <2>5, <2>6 DEF TypeOK, storeVars
<1>7. CASE CompactVerified(c)
  <2>0. wfile[c] \in File
    BY <1>7 DEF CompactVerified, VerifyOk, TypeOK, DirTypeOK
  <2>1. DirTypeOK'
    BY <1>7, <2>0 DEF CompactVerified, VerifyOk, Goto, TypeOK, DirTypeOK, PC
  <2>2. /\ todo' = todo
        /\ \A q \in Proc \ {c} : pc'[q] = pc[q] /\ wfile'[q] = wfile[q]
        /\ pc'[c] = "deleting" /\ wfile'[c] = NoFile /\ pc[c] = "verifying"
    BY <1>7 DEF CompactVerified, VerifyOk, Goto, TypeOK, DirTypeOK
  <2> QED
    BY <1>0, <1>7, <2>1, <2>2 DEF CompactVerified, TypeOK, storeVars, compactorVars, Proc
<1>8. ASSUME NEW f \in File, CompactDelete(c, f)
      PROVE  TypeOK'
  <2>1. DirTypeOK'
    BY <1>8 DEF CompactDelete, Fault, TypeOK, DirTypeOK, Status
  <2>2. sources' \in [Compactor -> SUBSET File] /\ sources'[c] \subseteq sources[c]
    BY <1>8 DEF CompactDelete, TypeOK
  <2>3. /\ \A d \in Compactor \ {c} : sources'[d] = sources[d]
        /\ pc[c] = "deleting"
        /\ UNCHANGED <<merged, compactions, pc, todo, wfile>>
    BY <1>8 DEF CompactDelete, TypeOK
  <2> QED
    BY <1>0, <2>1, <2>2, <2>3 DEF TypeOK, storeVars
<1>9. CASE CompactDone(c)
  BY <1>0, <1>9 DEF CompactDone, Goto, TypeOK, DirTypeOK, PC, storeVars, Proc
<1> QED
  BY <1>1, <1>2, <1>3, <1>4, <1>5, <1>6, <1>7, <1>8, <1>9
     DEF CompactorStep, NextCompactor, CompactStep

(* Every step keeps the types. *)
LEMMA TypeNext ==
  ASSUME TypeOK, [Next]_vars
  PROVE  TypeOK'
<1>1. ASSUME NEW c \in Compactor, CompactorCrash(c)
      PROVE  TypeOK'
  <2>0. c \in Proc /\ \A s \in Session : s \in Proc /\ s # c
    BY WalDirAssumption DEF Proc
  <2>1. DirTypeOK'
    BY <1>1 DEF CompactorCrash, CompactDie, Die, TypeOK, DirTypeOK, PC, NoFile
  <2>2. /\ merged' \in [Compactor -> SUBSET Op]
        /\ sources' \in [Compactor -> SUBSET File]
        /\ \A d \in Compactor \ {c} : merged'[d] = merged[d] /\ sources'[d] = sources[d]
        /\ merged'[c] = {} /\ sources'[c] = {}
    BY <1>1 DEF CompactorCrash, CompactDie, TypeOK
  <2>3. /\ \A q \in Proc \ {c} : pc'[q] = pc[q] /\ todo'[q] = todo[q] /\ wfile'[q] = wfile[q]
        /\ pc'[c] = "idle" /\ todo'[c] = {} /\ wfile'[c] = NoFile
    BY <1>1, <2>0 DEF CompactorCrash, CompactDie, Die, TypeOK, DirTypeOK
  <2>4. crashes' \in 0 .. MaxCrashes
    BY <1>1, StoreAssumption DEF CompactorCrash, TypeOK
  <2>5. \A s \in Session : todo'[s] = todo[s] /\ pc'[s] = pc[s]
    BY <2>0, <2>3
  <2>6. \A q \in Proc :
          /\ todo'[q] # {} => pc'[q] = "reading"
          /\ wfile'[q] # NoFile <=> pc'[q] \in {"renaming", "verifying", "discarding"}
    BY <2>3 DEF TypeOK
  <2>7. \A d \in Compactor :
          /\ pc'[d] = "idle" => sources'[d] = {}
          /\ sources'[d] = {} /\ pc'[d] # "deleting" => merged'[d] = {}
    BY <2>2, <2>3 DEF TypeOK, Proc
  <2> QED
    BY <1>1, <2>1, <2>2, <2>4, <2>5, <2>6, <2>7 DEF CompactorCrash, CompactDie, TypeOK
<1>2. ASSUME NEW f \in File, FileArrives(f)
      PROVE  TypeOK'
  BY <1>2 DEF FileArrives, Land, TypeOK, DirTypeOK, Status, storeVars, compactorVars
<1>3. CASE UNCHANGED vars
  BY <1>3 DEF vars, dirVars, storeVars, compactorVars, TypeOK, DirTypeOK
<1> QED
  BY <1>1, <1>2, <1>3, SessionType, CompactorType DEF Next

(* Every call is at a known place and holds ops and files only while it
   needs them; no session has a file both processed and in quarantine. *)
THEOREM TypeCorrect == Spec => []TypeOK
  BY TypeInit, TypeNext, PTL DEF Spec

-----------------------------------------------------------------------------
(***************************************************************************)
(* Nothing verified is lost: DurabilityInv is inductive.                   *)
(***************************************************************************)
LEMMA DurabilityInit == Init => DurabilityInv
<1> SUFFICES ASSUME Init
             PROVE  DurabilityInv
  OBVIOUS
<1> USE WalDirAssumption, FileType DEF Init, InitDir, InitStore, InitCompactor
<1>1. NamesInOrder
  BY DEF NamesInOrder, File, NoFile
<1>2. OneWriter
  BY DEF OneWriter
<1>3. SourcesCarried
  BY DEF SourcesCarried, CarriesSources, Proc
<1>4. StillOffered
  BY DEF StillOffered
<1> QED
  BY <1>1, <1>2, <1>3, <1>4 DEF DurabilityInv

(* A file that was ever created has one of the first names. *)
LEMMA TakenName ==
  ASSUME TypeOK, NamesInOrder, NEW f \in File, disk[f] # "unused"
  PROVE  f < nextFile
<1>1. f \in Nat /\ ~(f >= nextFile)
  BY FileType DEF NamesInOrder
<1>2. nextFile \in Nat
  <2>1. MaxFiles \in Nat /\ nextFile \in 1 .. MaxFiles + 1
    BY WalDirAssumption DEF TypeOK, DirTypeOK
  <2> QED
    BY ONLY <2>1
<1> QED
  BY ONLY <1>1, <1>2

(* The steps that leave verified files, names and contents alone: a process
   may forget what it was doing, and a file nobody verified may change. *)
LEMMA QuietStep ==
  ASSUME TypeOK, DurabilityInv,
         UNCHANGED <<content, nextFile, verified>>,
         \A f \in File : \/ disk'[f] = disk[f]
                         \/ /\ f \notin verified
                            /\ f < nextFile
                            /\ disk[f] \in {"whole", "gone"} => disk'[f] \in {"whole", "gone"},
         \A p \in Proc : wfile'[p] \in {wfile[p], NoFile},
         \A p \in Proc : pc'[p] = "renaming" =>
                          /\ pc[p] = "renaming" /\ wfile'[p] = wfile[p]
                          /\ disk'[wfile[p]] = disk[wfile[p]],
         \A c \in Compactor :
           \/ sources'[c] = {} /\ wfile'[c] = NoFile
           \/ /\ sources'[c] = sources[c] /\ merged'[c] = merged[c]
              /\ wfile'[c] = wfile[c]
              /\ pc'[c] = "deleting" <=> pc[c] = "deleting"
  PROVE  DurabilityInv'
<1> USE FileType
<1>0. /\ NamesInOrder /\ OneWriter /\ SourcesCarried /\ StillOffered
      /\ verified \subseteq File
      /\ nextFile \in Nat /\ \A p \in Proc : wfile[p] \in File \cup {NoFile}
      /\ \A c \in Compactor : c \in Proc /\ sources[c] \subseteq File
  BY DEF DurabilityInv, TypeOK, DirTypeOK, Proc, File
<1>1. NamesInOrder'
  <2>1. \A p \in Proc : wfile'[p] < nextFile
    BY <1>0, WalDirAssumption DEF NamesInOrder, NoFile, TypeOK, DirTypeOK
  <2>2. \A f \in File : f >= nextFile => disk'[f] = disk[f]
    BY <1>0
  <2> QED
    BY <1>0, <2>1, <2>2 DEF NamesInOrder
<1>2. OneWriter'
  <2>1. \A p, q \in Proc : wfile'[p] = wfile'[q] /\ wfile'[p] # NoFile => p = q
    BY <1>0 DEF OneWriter
  <2>2. \A p \in Proc : wfile'[p] \notin verified
    <3>1. \A p \in Proc : wfile[p] \notin verified
      BY <1>0 DEF OneWriter
    <3>2. NoFile \notin verified
      BY <1>0
    <3> QED
      BY <3>1, <3>2, Zenon
  <2>5. \A p \in Proc : pc'[p] = "renaming" => disk'[wfile'[p]] = "temp"
    BY <1>0 DEF OneWriter
  <2>3. \A f \in verified : disk'[f] \in {"whole", "gone"}
    BY <1>0 DEF OneWriter
  <2>4. verified' = verified
    OBVIOUS
  <2> QED
    BY ONLY <2>1, <2>2, <2>3, <2>4, <2>5 DEF OneWriter
<1>3. SourcesCarried'
  <2>1. ASSUME NEW c \in Compactor
        PROVE  CarriesSources(c)'
    <3>1. CASE sources'[c] = {} /\ wfile'[c] = NoFile
      BY <3>1 DEF CarriesSources
    <3>2. CASE /\ sources'[c] = sources[c] /\ merged'[c] = merged[c]
               /\ wfile'[c] = wfile[c]
               /\ pc'[c] = "deleting" <=> pc[c] = "deleting"
      <4>1. CarriesSources(c)
        BY <1>0 DEF SourcesCarried
      <4>2. \A f \in sources[c] : f < nextFile /\ disk'[f] \in {"whole", "gone"}
        BY <1>0, <4>1 DEF CarriesSources
      <4>3. \A f \in File : Carried(f)' <=> Carried(f)
        BY DEF Carried
      <4> QED
        BY <1>0, <3>2, <4>1, <4>2, <4>3 DEF CarriesSources
    <3> QED
      BY <3>1, <3>2
  <2> QED
    BY <2>1 DEF SourcesCarried
<1>4. StillOffered'
  <2>1. \A h \in verified : disk'[h] = disk[h]
    BY <1>0
  <2> QED
    BY <1>0, <2>1 DEF StillOffered
<1> QED
  BY <1>1, <1>2, <1>3, <1>4 DEF DurabilityInv

(* A new temporary file: its name is later than every name taken. *)
LEMMA WriteTempStep ==
  ASSUME TypeOK, DurabilityInv, NEW p \in Proc, NEW ops, WriteTemp(p, ops),
         UNCHANGED <<merged, sources>>,
         p \in Compactor => ops = merged[p] /\ pc[p] = "reading"
  PROVE  DurabilityInv'
<1> USE FileType
<1>0. /\ NamesInOrder /\ OneWriter /\ SourcesCarried /\ StillOffered
      /\ verified \subseteq File
      /\ \A q \in Proc : wfile[q] \in File \cup {NoFile}
      /\ \A c \in Compactor : c \in Proc /\ sources[c] \subseteq File
  BY DEF DurabilityInv, TypeOK, DirTypeOK, Proc
<1>1. nextFile \in File /\ nextFile \in Nat
  BY WalDirAssumption DEF WriteTemp, TypeOK, DirTypeOK, File
<1>2. /\ nextFile' = nextFile + 1
      /\ verified' = verified
      /\ disk'[nextFile] = "temp"
      /\ \A f \in File \ {nextFile} : disk'[f] = disk[f] /\ content'[f] = content[f]
      /\ content'[nextFile] = ops
      /\ wfile'[p] = nextFile /\ pc'[p] = "renaming"
      /\ \A q \in Proc \ {p} : wfile'[q] = wfile[q] /\ pc'[q] = pc[q]
  BY <1>1 DEF WriteTemp, Goto, TypeOK, DirTypeOK
<1>3. nextFile \notin verified /\ \A q \in Proc : wfile[q] # nextFile
  BY <1>0, <1>1 DEF NamesInOrder, OneWriter
<1>4. NamesInOrder'
  <2>1. \A f \in File : f >= nextFile + 1 => disk'[f] = "unused"
    BY <1>0, <1>1, <1>2 DEF NamesInOrder
  <2>2. \A q \in Proc : wfile'[q] < nextFile + 1
    <3>1. \A q \in Proc : wfile[q] < nextFile
      BY <1>0 DEF NamesInOrder
    <3>2. File \cup {NoFile} \subseteq Nat
      BY DEF NoFile
    <3>3. \A q \in Proc : wfile[q] \in Nat
      BY ONLY <1>0, <3>2
    <3> QED
      BY ONLY <1>1, <1>2, <3>1, <3>3
  <2> QED
    BY <1>2, <2>1, <2>2 DEF NamesInOrder
<1>5. OneWriter'
  <2>1. \A q, r \in Proc : wfile'[q] = wfile'[r] /\ wfile'[q] # NoFile => q = r
    BY <1>0, <1>2, <1>3 DEF OneWriter
  <2>2. \A q \in Proc : wfile'[q] \notin verified
    BY <1>0, <1>2, <1>3 DEF OneWriter
  <2>3. \A q \in Proc : pc'[q] = "renaming" => disk'[wfile'[q]] = "temp"
    <3>1. ASSUME NEW q \in Proc \ {p}, pc[q] = "renaming"
          PROVE  disk'[wfile[q]] = "temp"
      <4>1. wfile[q] \in File \ {nextFile}
        BY <1>0, <1>3, <3>1 DEF TypeOK
      <4> QED
        BY <1>0, <1>2, <3>1, <4>1 DEF OneWriter
    <3> QED
      BY <1>2, <3>1
  <2>4. \A f \in verified : disk'[f] \in {"whole", "gone"}
    BY <1>0, <1>2, <1>3 DEF OneWriter
  <2> QED
    BY ONLY <1>2, <2>1, <2>2, <2>3, <2>4 DEF OneWriter
<1>6. SourcesCarried'
  <2>1. ASSUME NEW c \in Compactor
        PROVE  CarriesSources(c)'
    <3>1. CarriesSources(c)
      BY <1>0 DEF SourcesCarried
    <3>2. nextFile \notin sources[c]
      BY <1>1, <3>1 DEF CarriesSources
    <3>a. sources[c] \subseteq File \ {nextFile}
      BY <1>0, <3>2
    <3>b. \A f \in sources[c] : f < nextFile /\ disk[f] \in {"whole", "gone"}
      BY <3>1 DEF CarriesSources
    <3>c. \A f \in sources[c] : f < nextFile + 1
      <4>1. sources[c] \subseteq Nat
        BY <3>a
      <4> QED
        BY ONLY <1>1, <3>b, <4>1
    <3>d. \A f \in sources[c] : disk'[f] = disk[f] /\ content'[f] = content[f]
      BY ONLY <1>2, <3>a
    <3>3. \A f \in sources[c] : /\ f < nextFile + 1
                                /\ disk'[f] \in {"whole", "gone"}
                                /\ content'[f] = content[f]
      BY ONLY <3>b, <3>c, <3>d
    <3>4. \A f \in sources[c] : Carried(f) => Carried(f)'
      BY <1>0, <1>2, <1>3, <3>3 DEF Carried
    <3>5. CASE c = p
      BY <1>1, <1>2, <3>1, <3>3, <3>5 DEF CarriesSources
    <3>6. CASE c # p
      <4>1. wfile[c] # NoFile => content'[wfile[c]] = content[wfile[c]]
        BY <1>0, <1>2, <1>3
      <4>2. wfile'[c] = wfile[c] /\ pc'[c] = pc[c]
        BY <1>0, <1>2, <3>6
      <4> QED
        BY <1>2, <3>1, <3>3, <3>4, <4>1, <4>2 DEF CarriesSources
    <3> QED
      BY <3>5, <3>6
  <2> QED
    BY <2>1 DEF SourcesCarried
<1>7. StillOffered'
  BY <1>0, <1>2, <1>3 DEF StillOffered
<1> QED
  BY <1>4, <1>5, <1>6, <1>7 DEF DurabilityInv

(* A read-back that succeeds: the verified file offers its own ops, and, if
   a compactor wrote it, it carries the sources. *)
LEMMA VerifiedStep ==
  ASSUME TypeOK, DurabilityInv, NEW p \in Proc, VerifyOk(p),
         UNCHANGED <<merged, sources>>,
         wfile' = [wfile EXCEPT ![p] = NoFile],
         pc' = [pc EXCEPT ![p] = IF p \in Compactor THEN "deleting" ELSE "idle"]
  PROVE  DurabilityInv'
<1> USE FileType
<1> DEFINE w == wfile[p]
<1>0. /\ NamesInOrder /\ OneWriter /\ SourcesCarried /\ StillOffered
      /\ verified \subseteq File
      /\ \A q \in Proc : wfile[q] \in File \cup {NoFile}
      /\ \A c \in Compactor : c \in Proc /\ sources[c] \subseteq File
  BY DEF DurabilityInv, TypeOK, DirTypeOK, Proc
<1>1. /\ w \in File /\ w # NoFile /\ disk[w] = "whole"
      /\ verified' = verified \cup {w}
      /\ UNCHANGED <<disk, content, nextFile>>
      /\ wfile'[p] = NoFile /\ pc'[p] # "renaming"
      /\ pc'[p] = IF p \in Compactor THEN "deleting" ELSE "idle"
      /\ \A q \in Proc \ {p} : wfile'[q] = wfile[q] /\ pc'[q] = pc[q]
      /\ pc[p] = "verifying"
  BY DEF VerifyOk, TypeOK, DirTypeOK
<1> HIDE DEF w
<1>2. NamesInOrder'
  <2>1. NoFile < nextFile
    BY DEF NoFile, TypeOK, DirTypeOK
  <2>2. \A q \in Proc : wfile'[q] < nextFile
    BY <1>0, <1>1, <2>1 DEF NamesInOrder
  <2> QED
    BY <1>0, <1>1, <2>2 DEF NamesInOrder
<1>3. OneWriter'
  <2>1. \A q, r \in Proc : wfile'[q] = wfile'[r] /\ wfile'[q] # NoFile => q = r
    BY <1>0, <1>1 DEF OneWriter
  <2>2. \A q \in Proc : wfile'[q] \notin verified'
    <3>1. ASSUME NEW q \in Proc \ {p}
          PROVE  wfile[q] \notin verified \cup {w}
      BY <1>0, <1>1 DEF OneWriter, w
    <3>2. NoFile \notin verified'
      BY <1>0, <1>1
    <3> QED
      BY ONLY <1>1, <3>1, <3>2
  <2>3. \A q \in Proc : pc'[q] = "renaming" => disk'[wfile'[q]] = "temp"
    BY <1>0, <1>1 DEF OneWriter
  <2>4. \A f \in verified' : disk'[f] \in {"whole", "gone"}
    BY <1>0, <1>1 DEF OneWriter
  <2> QED
    BY ONLY <2>1, <2>2, <2>3, <2>4 DEF OneWriter
<1>4. SourcesCarried'
  <2>1. ASSUME NEW c \in Compactor
        PROVE  CarriesSources(c)'
    <3>1. CarriesSources(c)
      BY <1>0 DEF SourcesCarried
    <3>2. \A f \in sources[c] : Carried(f) => Carried(f)'
      BY <1>1 DEF Carried
    <3>3. CASE c = p
      <4>1. /\ content[w] = merged[c]
            /\ \A f \in sources[c] : f < w
            /\ \A f \in sources[c] : \A o \in content[f] : Covers(merged[c], o)
        BY <1>1, <3>1, <3>3 DEF CarriesSources, w
      <4>2. \A f \in sources[c] : Carried(f)'
        BY <1>0, <1>1, <4>1 DEF Carried
      <4> QED
        BY <1>1, <3>1, <3>3, <4>2 DEF CarriesSources
    <3>4. CASE c # p
      <4>1. wfile'[c] = wfile[c] /\ pc'[c] = pc[c]
        BY <1>0, <1>1, <3>4
      <4> QED
        BY <1>1, <3>1, <3>2, <4>1 DEF CarriesSources
    <3> QED
      BY <3>3, <3>4
  <2> QED
    BY <2>1 DEF SourcesCarried
<1>5. StillOffered'
  <2>1. \A o \in content[w] : Covers(content[w], o)
    BY MemberCovers
  <2> QED
    BY <1>0, <1>1, <2>1 DEF StillOffered
<1> QED
  BY <1>2, <1>3, <1>4, <1>5 DEF DurabilityInv

(* The steps in which write_verified goes on or fails touch one file, which
   nobody verified, and no other process. *)
LEMMA WriteStepQuiet ==
  ASSUME TypeOK, DurabilityInv, NEW p \in Proc, WriteStep(p)
  PROVE  /\ UNCHANGED <<content, nextFile, verified>>
         /\ \A f \in File :
              \/ disk'[f] = disk[f]
              \/ /\ f \notin verified
                 /\ f < nextFile
                 /\ disk[f] \in {"whole", "gone"} => disk'[f] \in {"whole", "gone"}
         /\ \A q \in Proc : wfile'[q] \in {wfile[q], NoFile}
         /\ \A q \in Proc : pc'[q] = "renaming" =>
                             /\ pc[q] = "renaming" /\ wfile'[q] = wfile[q]
                             /\ disk'[wfile[q]] = disk[wfile[q]]
         /\ \A q \in Proc \ {p} : wfile'[q] = wfile[q] /\ pc'[q] = pc[q]
         /\ wfile'[p] = IF pc'[p] = "idle" THEN NoFile ELSE wfile[p]
         /\ pc[p] # "deleting" /\ pc'[p] \notin {"deleting", "renaming"}
<1> USE FileType
<1> DEFINE w == wfile[p]
<1>1. /\ w \in File /\ w # NoFile
      /\ pc[p] \in {"renaming", "verifying", "discarding"}
  BY DEF WriteStep, Rename, RenameFails, VerifyUnreadable, VerifyMismatch, Discard,
         TypeOK, DirTypeOK
<1>2. w \notin verified /\ (pc[p] = "renaming" => disk[w] = "temp")
  BY DEF DurabilityInv, OneWriter
<1>3. w < nextFile
  BY DEF DurabilityInv, NamesInOrder
<1>4. \A q \in Proc \ {p} : wfile[q] # w
  BY <1>1 DEF DurabilityInv, OneWriter
<1>5. /\ UNCHANGED <<content, nextFile, verified>>
      /\ \A f \in File \ {w} : disk'[f] = disk[f]
      /\ \A q \in Proc \ {p} : wfile'[q] = wfile[q] /\ pc'[q] = pc[q]
      /\ wfile'[p] = IF pc'[p] = "idle" THEN NoFile ELSE w
      /\ pc'[p] \notin {"deleting", "renaming"}
      /\ \/ disk'[w] = disk[w]
         \/ pc[p] = "renaming" /\ disk'[w] \in {"whole", "torn", "gone"}
         \/ disk'[w] = "gone"
  <2> USE <1>1 DEF TypeOK, DirTypeOK, Goto
  <2>1. CASE Rename(p)
    BY <2>1 DEF Rename
  <2>2. CASE RenameFails(p)
    BY <2>2 DEF RenameFails
  <2>3. CASE VerifyUnreadable(p)
    BY <2>3 DEF VerifyUnreadable
  <2>4. CASE VerifyMismatch(p)
    BY <2>4 DEF VerifyMismatch
  <2>5. CASE Discard(p)
    BY <2>5 DEF Discard
  <2> QED
    BY <2>1, <2>2, <2>3, <2>4, <2>5 DEF WriteStep
<1>6. \A q \in Proc : pc'[q] = "renaming" =>
                       /\ pc[q] = "renaming" /\ wfile'[q] = wfile[q]
                       /\ disk'[wfile[q]] = disk[wfile[q]]
  <2>1. \A q \in Proc : pc[q] = "renaming" => wfile[q] \in File
    BY DEF TypeOK, DirTypeOK
  <2> QED
    BY ONLY <1>4, <1>5, <2>1
<1> QED
  BY ONLY <1>1, <1>2, <1>3, <1>5, <1>6

(* What is carried, a file that is there and came later offers. *)
LEMMA CarriedIsOffered ==
  ASSUME TypeOK, DurabilityInv, NEW f \in File, Carried(f), NEW o \in content[f]
  PROVE  \E h \in verified : h > f /\ disk[h] = "whole" /\ Covers(content[h], o)
<1>0. /\ verified \subseteq Nat /\ verified \subseteq File /\ f \in Nat
      /\ \A g \in File : content[g] \subseteq Op
  BY FileType DEF TypeOK, DirTypeOK
<1>1. PICK w \in verified : w > f /\ Covers(content[w], o)
  BY DEF Carried
<1>2. PICK q \in content[w] : q = o \/ Supersedes(q, o)
  BY <1>1 DEF Covers
<1>3. PICK h \in verified : h >= w /\ disk[h] = "whole" /\ Covers(content[h], q)
  BY DEF DurabilityInv, StillOffered
<1>4. PICK r \in content[h] : r = q \/ Supersedes(r, q)
  BY <1>3 DEF Covers
<1>5. o \in Op /\ q \in Op /\ r \in Op
  BY <1>0, <1>2, <1>4
<1>6. r = o \/ Supersedes(r, o)
  BY <1>2, <1>4, <1>5, SupersedesTransitive
<1>7. h > f
  BY ONLY <1>0, <1>1, <1>3
<1> QED
  BY <1>3, <1>4, <1>6, <1>7 DEF Covers

(* The step that matters: a compactor removes a source. *)
LEMMA RemoveStep ==
  ASSUME TypeOK, DurabilityInv, NEW c \in Compactor, NEW f \in File,
         CompactDelete(c, f)
  PROVE  DurabilityInv'
<1> USE FileType
<1>0. /\ NamesInOrder /\ OneWriter /\ SourcesCarried /\ StillOffered
      /\ verified \subseteq File /\ c \in Proc
      /\ \A q \in Proc : pc[q] = "renaming" => wfile[q] \in File
  BY DEF DurabilityInv, TypeOK, DirTypeOK, Proc
<1>1. /\ UNCHANGED <<content, nextFile, pc, wfile, verified, merged>>
      /\ \A g \in File \ {f} : disk'[g] = disk[g]
      /\ disk'[f] = disk[f] \/ disk'[f] = "gone"
      /\ f \in sources[c] /\ pc[c] = "deleting"
      /\ \A d \in Compactor : sources'[d] \subseteq sources[d]
  BY DEF CompactDelete, TypeOK, DirTypeOK
<1>2. Carried(f) /\ disk[f] \in {"whole", "gone"} /\ disk'[f] \in {"whole", "gone"}
  BY <1>0, <1>1 DEF SourcesCarried, CarriesSources
<1>3. NamesInOrder'
  <2>1. f < nextFile
    BY <1>0, <1>1 DEF SourcesCarried, CarriesSources
  <2>2. \A g \in File : g >= nextFile => disk'[g] = disk[g]
    BY <1>0, <1>1, <2>1 DEF TypeOK, DirTypeOK
  <2>3. /\ \A g \in File : g >= nextFile => disk[g] = "unused"
        /\ \A q \in Proc : wfile[q] < nextFile
    BY <1>0 DEF NamesInOrder
  <2> QED
    BY ONLY <1>1, <2>2, <2>3 DEF NamesInOrder
<1>4. OneWriter'
  <2>1. \A q \in Proc : pc[q] = "renaming" => disk[wfile[q]] = "temp"
    BY <1>0 DEF OneWriter
  <2>2. \A q \in Proc : pc[q] = "renaming" => disk'[wfile[q]] = "temp"
    BY <1>0, <1>1, <1>2, <2>1
  <2>3. \A g \in verified : disk'[g] \in {"whole", "gone"}
    BY <1>0, <1>1, <1>2 DEF OneWriter
  <2> QED
    BY <1>0, <1>1, <2>2, <2>3 DEF OneWriter
<1>5. SourcesCarried'
  <2>1. \A g \in File : Carried(g) => Carried(g)'
    BY <1>1 DEF Carried
  <2>2. ASSUME NEW d \in Compactor
        PROVE  CarriesSources(d)'
    <3>1. CarriesSources(d) /\ sources[d] \subseteq File
      BY <1>0 DEF SourcesCarried, TypeOK
    <3>2. \A g \in sources'[d] : g < nextFile /\ disk'[g] \in {"whole", "gone"}
      BY <1>1, <1>2, <3>1 DEF CarriesSources
    <3> QED
      BY <1>1, <2>1, <3>1, <3>2 DEF CarriesSources
  <2> QED
    BY <2>2 DEF SourcesCarried
<1>6. StillOffered'
  <2>1. ASSUME NEW g \in verified, NEW o \in content[g]
        PROVE  \E h \in verified : h >= g /\ disk'[h] = "whole" /\ Covers(content[h], o)
    <3>1. PICK h \in verified : h >= g /\ disk[h] = "whole" /\ Covers(content[h], o)
      BY <1>0 DEF StillOffered
    <3>2. CASE h # f
      BY <1>0, <1>1, <3>1, <3>2
    <3>3. CASE h = f
      <4>1. PICK q \in content[f] : q = o \/ Supersedes(q, o)
        BY <3>1, <3>3 DEF Covers
      <4>2. PICK k \in verified : k > f /\ disk[k] = "whole" /\ Covers(content[k], q)
        BY <1>2, CarriedIsOffered
      <4>3. PICK r \in content[k] : r = q \/ Supersedes(r, q)
        BY <4>2 DEF Covers
      <4>4. o \in Op /\ q \in Op /\ r \in Op
        BY <1>0, <4>1, <4>3 DEF TypeOK, DirTypeOK
      <4>5. r = o \/ Supersedes(r, o)
        BY <4>1, <4>3, <4>4, SupersedesTransitive
      <4>6. k >= g /\ k # f /\ k \in File
        <5>1. k \in Nat /\ f \in Nat /\ g \in Nat /\ k \in File
          BY <1>0
        <5> QED
          BY ONLY <3>1, <3>3, <4>2, <5>1
      <4> QED
        BY <1>1, <4>2, <4>3, <4>5, <4>6 DEF Covers
    <3> QED
      BY <3>2, <3>3
  <2> QED
    BY <1>1, <2>1 DEF StillOffered
<1> QED
  BY <1>3, <1>4, <1>5, <1>6 DEF DurabilityInv

(* A source read: the merge covers it and what it covered before. *)
LEMMA ReadStep ==
  ASSUME TypeOK, DurabilityInv, NEW c \in Compactor, NEW f \in File,
         CompactRead(c, f), ReadsWhole(f),
         merged' = [merged EXCEPT ![c] = MergeOps(@, content[f])],
         sources' = [sources EXCEPT ![c] = @ \cup {f}]
  PROVE  DurabilityInv'
<1>0. /\ UNCHANGED <<disk, content, nextFile, pc, wfile, verified>>
      /\ pc[c] = "reading" /\ disk[f] = "whole"
      /\ c \in Proc /\ merged[c] \in SUBSET Op
      /\ sources[c] \subseteq File
      /\ \A g \in File : content[g] \subseteq Op
  BY DEF CompactRead, TakeListed, ReadsWhole, Proc, TypeOK, DirTypeOK
<1>1. NamesInOrder' /\ OneWriter' /\ StillOffered'
  BY <1>0 DEF DurabilityInv, NamesInOrder, OneWriter, StillOffered
<1>2. \A g \in File : Carried(g) <=> Carried(g)'
  BY <1>0 DEF Carried
<1>3. CarriesSources(c)'
  <2>1. CarriesSources(c)
    BY DEF DurabilityInv, SourcesCarried
  <2>2. wfile[c] = NoFile
    BY <1>0 DEF TypeOK
  <2>3. f < nextFile
    <3>1. ~(f >= nextFile)
      BY <1>0 DEF DurabilityInv, NamesInOrder
    <3> QED
      BY <3>1, FileType DEF TypeOK, DirTypeOK
  <2>4. ASSUME NEW g \in sources[c] \cup {f}, NEW o \in content[g]
        PROVE  Covers(MergeOps(merged[c], content[f]), o)
    <3>0. o \in Op /\ content[f] \in SUBSET Op
      BY <1>0, <2>4
    <3>1. MergeOps(merged[c], content[f]) \in SUBSET Op
      BY <1>0, <3>0, MergeOpsType
    <3>2. CASE g = f
      BY <1>0, <2>4, <3>0, <3>2, MergeOpsCover
    <3>3. CASE g \in sources[c]
      <4>1. Covers(merged[c], o)
        BY <1>0, <2>1, <2>4, <3>3 DEF CarriesSources
      <4>2. \A p \in merged[c] : Covers(MergeOps(merged[c], content[f]), p)
        BY <1>0, <3>0, MergeOpsCover
      <4> QED
        BY <1>0, <3>0, <3>1, <4>1, <4>2, CoversTransitive
    <3> QED
      BY <3>2, <3>3
  <2>5. /\ sources'[c] = sources[c] \cup {f}
        /\ merged'[c] = MergeOps(merged[c], content[f])
    BY DEF TypeOK
  <2>6. \A g \in sources'[c] : g < nextFile /\ disk[g] \in {"whole", "gone"}
    BY <1>0, <2>1, <2>3, <2>5 DEF CarriesSources
  <2> QED
    BY <1>0, <2>2, <2>4, <2>5, <2>6 DEF CarriesSources
<1>4. ASSUME NEW d \in Compactor, d # c
      PROVE  CarriesSources(d)'
  <2>1. CarriesSources(d)
    BY DEF DurabilityInv, SourcesCarried
  <2>2. sources'[d] = sources[d] /\ merged'[d] = merged[d] /\ sources[d] \subseteq File
    BY <1>4 DEF TypeOK
  <2> QED
    BY <1>0, <1>2, <2>1, <2>2 DEF CarriesSources
<1> QED
  BY <1>1, <1>3, <1>4 DEF DurabilityInv, SourcesCarried

(* Sources without an op are carried as they are. *)
LEMMA NoOpsStep ==
  ASSUME TypeOK, DurabilityInv, NEW c \in Compactor, CompactNoOps(c)
  PROVE  DurabilityInv'
<1>0. /\ UNCHANGED <<disk, content, nextFile, wfile, verified, merged, sources>>
      /\ pc[c] = "reading" /\ merged[c] = {} /\ c \in Proc
      /\ pc'[c] = "deleting"
      /\ \A q \in Proc \ {c} : pc'[q] = pc[q]
      /\ \A d \in Compactor : d \in Proc
  BY DEF CompactNoOps, ReadAll, Goto, compactorVars, Proc, TypeOK, DirTypeOK
<1>1. NamesInOrder' /\ OneWriter' /\ StillOffered'
  BY <1>0 DEF DurabilityInv, NamesInOrder, OneWriter, StillOffered
<1>2. \A g \in File : Carried(g) <=> Carried(g)'
  BY <1>0 DEF Carried
<1>3. CarriesSources(c)'
  <2>1. CarriesSources(c)
    BY DEF DurabilityInv, SourcesCarried
  <2>2. wfile[c] = NoFile
    BY <1>0 DEF TypeOK
  <2>3. \A f \in sources[c] : content[f] = {}
    BY <1>0, <2>1 DEF CarriesSources, Covers
  <2>4. \A f \in sources[c] : Carried(f)'
    BY <1>0, <2>3 DEF Carried
  <2> QED
    BY <1>0, <2>1, <2>2, <2>4 DEF CarriesSources
<1>4. ASSUME NEW d \in Compactor, d # c
      PROVE  CarriesSources(d)'
  <2>1. CarriesSources(d) /\ sources[d] \subseteq File
    BY DEF DurabilityInv, SourcesCarried, TypeOK
  <2>2. pc'[d] = pc[d]
    BY <1>0, <1>4
  <2> QED
    BY <1>0, <1>2, <2>1, <2>2 DEF CarriesSources
<1> QED
  BY <1>1, <1>3, <1>4 DEF DurabilityInv, SourcesCarried

(* A step of a process that only reads, forgets or moves on. *)
LEMMA DirUntouchedStep ==
  ASSUME TypeOK, DurabilityInv, UNCHANGED <<disk, content, nextFile, verified>>,
         \A p \in Proc : wfile'[p] \in {wfile[p], NoFile},
         \A p \in Proc : pc'[p] = "renaming" => pc[p] = "renaming" /\ wfile'[p] = wfile[p],
         \A c \in Compactor :
           \/ sources'[c] = {} /\ wfile'[c] = NoFile
           \/ /\ sources'[c] = sources[c] /\ merged'[c] = merged[c]
              /\ wfile'[c] = wfile[c]
              /\ pc'[c] = "deleting" <=> pc[c] = "deleting"
  PROVE  DurabilityInv'
  BY QuietStep

(* Flushes, syncs and crashes of a session lose nothing verified. *)
LEMMA SessionKeepsDurability ==
  ASSUME TypeOK, DurabilityInv, NEW s \in Session, SessionStep(s)
  PROVE  DurabilityInv'
<1>0. /\ s \in Proc /\ s \notin Compactor
      /\ \A c \in Compactor : c \in Proc /\ c # s
      /\ UNCHANGED <<merged, sources>>
  BY WalDirAssumption DEF Proc, SessionStep, compactorVars
<1>9. pc \in [Proc -> PC] /\ wfile \in [Proc -> File \cup {NoFile}]
  BY DEF TypeOK, DirTypeOK
<1>1. ASSUME NEW e \in Entity, NEW fields \in FieldLists, Write(s, e, fields)
      PROVE  DurabilityInv'
  <2>1. UNCHANGED <<disk, content, nextFile, verified, wfile, pc>>
    BY <1>1 DEF Write, dirVars
  <2> QED
    BY <1>0, <2>1, DirUntouchedStep
<1>2. CASE Flush(s)
  BY <1>0, <1>2, WriteTempStep DEF Flush
<1>3. CASE FlushStep(s)
  <2>1. WriteStep(s)
    BY <1>3 DEF FlushStep
  <2>2. \A c \in Compactor : wfile'[c] = wfile[c] /\ pc'[c] = pc[c]
    BY <1>0, <2>1, WriteStepQuiet
  <2>3. /\ UNCHANGED <<content, nextFile, verified>>
        /\ \A f \in File :
             \/ disk'[f] = disk[f]
             \/ /\ f \notin verified
                /\ f < nextFile
                /\ disk[f] \in {"whole", "gone"} => disk'[f] \in {"whole", "gone"}
        /\ \A q \in Proc : wfile'[q] \in {wfile[q], NoFile}
        /\ \A q \in Proc : pc'[q] = "renaming" =>
                            /\ pc[q] = "renaming" /\ wfile'[q] = wfile[q]
                            /\ disk'[wfile[q]] = disk[wfile[q]]
    BY <1>0, <2>1, WriteStepQuiet
  <2> QED
    BY <1>0, <2>2, <2>3, QuietStep
<1>4. CASE FlushOk(s)
  BY <1>0, <1>4, VerifiedStep DEF FlushOk, Goto
<1>5. CASE SyncList(s)
  <2>1. /\ UNCHANGED <<disk, content, nextFile, verified, wfile>>
        /\ \A p \in Proc \ {s} : pc'[p] = pc[p]
        /\ pc'[s] = "reading"
    BY ONLY <1>0, <1>5, <1>9 DEF SyncList, List, Goto
  <2> QED
    BY <1>0, <2>1, DirUntouchedStep
<1>6. ASSUME NEW f \in File, SyncRead(s, f)
      PROVE  DurabilityInv'
  BY <1>0, <1>6, DirUntouchedStep DEF SyncRead, TakeListed
<1>7. CASE SyncApply(s)
  <2>1. /\ UNCHANGED <<disk, content, nextFile, verified, wfile>>
        /\ \A p \in Proc \ {s} : pc'[p] = pc[p]
        /\ pc'[s] = "idle"
    BY ONLY <1>0, <1>7, <1>9 DEF SyncApply, Goto
  <2> QED
    BY <1>0, <2>1, DirUntouchedStep
<1>8. CASE Crash(s)
  <2>1. /\ UNCHANGED <<disk, content, nextFile, verified>>
        /\ \A p \in Proc \ {s} : pc'[p] = pc[p] /\ wfile'[p] = wfile[p]
        /\ pc'[s] = "idle" /\ wfile'[s] = NoFile
    BY ONLY <1>0, <1>8, <1>9 DEF Crash, Die
  <2> QED
    BY <1>0, <2>1, DirUntouchedStep
<1> QED
  BY <1>1, <1>2, <1>3, <1>4, <1>5, <1>6, <1>7, <1>8 DEF SessionStep, NextStore, SyncStep

(* compact() loses nothing verified. *)
LEMMA CompactorKeepsDurability ==
  ASSUME TypeOK, DurabilityInv, NEW c \in Compactor, CompactorStep(c)
  PROVE  DurabilityInv'
<1>0. c \in Proc /\ \A d \in Compactor : d \in Proc
  BY DEF Proc
<1>10. /\ pc \in [Proc -> PC] /\ merged \in [Compactor -> SUBSET Op]
       /\ sources \in [Compactor -> SUBSET File]
  BY DEF TypeOK, DirTypeOK
<1>1. CASE CompactList(c)
  <2>1. /\ UNCHANGED <<disk, content, nextFile, verified, wfile, merged, sources>>
        /\ \A p \in Proc \ {c} : pc'[p] = pc[p]
        /\ pc'[c] = "reading" /\ pc[c] = "idle"
    BY ONLY <1>0, <1>1, <1>10 DEF CompactList, List, Goto
  <2> QED
    BY <1>0, <2>1, DirUntouchedStep
<1>2. ASSUME NEW f \in File, CompactRead(c, f)
      PROVE  DurabilityInv'
  <2>1. CASE /\ ReadsWhole(f)
             /\ merged' = [merged EXCEPT ![c] = MergeOps(@, content[f])]
             /\ sources' = [sources EXCEPT ![c] = @ \cup {f}]
    BY <1>2, <2>1, ReadStep
  <2>2. CASE UNCHANGED <<merged, sources>>
    BY <1>2, <2>2, DirUntouchedStep DEF CompactRead, TakeListed
  <2> QED
    BY <1>2, <2>1, <2>2 DEF CompactRead
<1>3. CASE CompactNothing(c)
  <2>1. /\ UNCHANGED <<disk, content, nextFile, verified, wfile, merged, sources>>
        /\ \A p \in Proc \ {c} : pc'[p] = pc[p]
        /\ pc'[c] = "idle" /\ pc[c] = "reading"
    BY ONLY <1>0, <1>3, <1>10 DEF CompactNothing, ReadAll, Goto, compactorVars
  <2> QED
    BY <1>0, <2>1, DirUntouchedStep
<1>4. CASE CompactNoOps(c)
  BY <1>4, NoOpsStep
<1>5. CASE CompactWrite(c)
  BY <1>0, <1>5, WriteTempStep DEF CompactWrite, ReadAll, compactorVars
<1>6. CASE CompactWriteStep(c)
  <2>1. WriteStep(c)
    BY <1>6 DEF CompactWriteStep
  <2>2. /\ \A d \in Compactor \ {c} :
             /\ wfile'[d] = wfile[d] /\ pc'[d] = pc[d]
             /\ sources'[d] = sources[d] /\ merged'[d] = merged[d]
    BY <1>0, <1>6, <2>1, WriteStepQuiet DEF CompactWriteStep, TypeOK
  <2>3. /\ wfile'[c] = IF pc'[c] = "idle" THEN NoFile ELSE wfile[c]
        /\ pc[c] # "deleting" /\ pc'[c] # "deleting"
    BY <1>0, <2>1, WriteStepQuiet
  <2>4. IF pc'[c] = "idle" THEN sources'[c] = {}
        ELSE sources'[c] = sources[c] /\ merged'[c] = merged[c]
    BY <1>6 DEF CompactWriteStep, TypeOK
  <2>5. \A d \in Compactor :
          \/ sources'[d] = {} /\ wfile'[d] = NoFile
          \/ /\ sources'[d] = sources[d] /\ merged'[d] = merged[d]
             /\ wfile'[d] = wfile[d]
             /\ pc'[d] = "deleting" <=> pc[d] = "deleting"
    BY <2>2, <2>3, <2>4
  <2>6. /\ UNCHANGED <<content, nextFile, verified>>
        /\ \A f \in File :
             \/ disk'[f] = disk[f]
             \/ /\ f \notin verified
                /\ f < nextFile
                /\ disk[f] \in {"whole", "gone"} => disk'[f] \in {"whole", "gone"}
        /\ \A q \in Proc : wfile'[q] \in {wfile[q], NoFile}
        /\ \A q \in Proc : pc'[q] = "renaming" =>
                            /\ pc[q] = "renaming" /\ wfile'[q] = wfile[q]
                            /\ disk'[wfile[q]] = disk[wfile[q]]
    BY <1>0, <2>1, WriteStepQuiet
  <2> QED
    BY <2>5, <2>6, QuietStep
<1>7. CASE CompactVerified(c)
  BY <1>0, <1>7, VerifiedStep DEF CompactVerified, Goto, compactorVars
<1>8. ASSUME NEW f \in File, CompactDelete(c, f)
      PROVE  DurabilityInv'
  BY <1>8, RemoveStep
<1>9. CASE CompactDone(c)
  <2>1. /\ UNCHANGED <<disk, content, nextFile, verified, wfile, sources>>
        /\ \A p \in Proc \ {c} : pc'[p] = pc[p]
        /\ pc'[c] = "idle" /\ pc[c] = "deleting" /\ sources'[c] = {}
        /\ \A d \in Compactor \ {c} : merged'[d] = merged[d]
    BY ONLY <1>0, <1>9, <1>10 DEF CompactDone, Goto
  <2>2. wfile'[c] = NoFile
    BY <1>0, <2>1 DEF TypeOK
  <2> QED
    BY <1>0, <2>1, <2>2, DirUntouchedStep
<1> QED
  BY <1>1, <1>2, <1>3, <1>4, <1>5, <1>6, <1>7, <1>8, <1>9
     DEF CompactorStep, NextCompactor, CompactStep

(* Every step keeps DurabilityInv. *)
LEMMA DurabilityNext ==
  ASSUME TypeOK, DurabilityInv, [Next]_vars
  PROVE  DurabilityInv'
<1>1. ASSUME NEW c \in Compactor, CompactorCrash(c)
      PROVE  DurabilityInv'
  <2>1. /\ UNCHANGED <<disk, content, nextFile, verified>>
        /\ \A p \in Proc \ {c} : pc'[p] = pc[p] /\ wfile'[p] = wfile[p]
        /\ pc'[c] = "idle" /\ wfile'[c] = NoFile /\ sources'[c] = {}
        /\ \A d \in Compactor \ {c} : merged'[d] = merged[d] /\ sources'[d] = sources[d]
        /\ \A d \in Compactor : d \in Proc
    BY <1>1 DEF CompactorCrash, CompactDie, Die, TypeOK, DirTypeOK, Proc
  <2> QED
    BY <2>1, DirUntouchedStep
<1>2. ASSUME NEW f \in File, FileArrives(f)
      PROVE  DurabilityInv'
  <2>1. /\ UNCHANGED <<content, nextFile, verified, pc, wfile, merged, sources>>
        /\ disk[f] = "torn" /\ disk'[f] = "whole"
        /\ \A g \in File \ {f} : disk'[g] = disk[g]
    BY <1>2 DEF FileArrives, Land, compactorVars, TypeOK, DirTypeOK
  <2>2. f \notin verified /\ \A p \in Proc : pc[p] = "renaming" => wfile[p] # f
    BY <2>1 DEF DurabilityInv, OneWriter
  <2>3. \A p \in Proc : pc[p] = "renaming" => disk'[wfile[p]] = disk[wfile[p]]
    BY <2>1, <2>2 DEF TypeOK, DirTypeOK
  <2>4. f < nextFile
    BY <2>1, TakenName DEF DurabilityInv
  <2> QED
    BY <2>1, <2>2, <2>3, <2>4, QuietStep
<1>3. CASE UNCHANGED vars
  BY <1>3, DirUntouchedStep DEF vars, dirVars, storeVars, compactorVars
<1> QED
  BY <1>1, <1>2, <1>3, SessionKeepsDurability, CompactorKeepsDurability DEF Next

(* The named invariant holds in every reachable state. *)
THEOREM DurabilityInvariant == Spec => [](TypeOK /\ DurabilityInv)
<1>1. Init => TypeOK /\ DurabilityInv
  BY TypeInit, DurabilityInit
<1>2. TypeOK /\ DurabilityInv /\ [Next]_vars => (TypeOK /\ DurabilityInv)'
  BY TypeNext, DurabilityNext
<1> QED
  BY <1>1, <1>2, PTL DEF Spec

(* What is still offered is on the disk. *)
LEMMA OfferedIsOnDisk ==
  ASSUME TypeOK, DurabilityInv
  PROVE  Durability
<1> SUFFICES ASSUME NEW f \in verified, NEW o \in content[f]
             PROVE  Covers(DiskOps, o)
  BY DEF Durability
<1>1. PICK h \in verified : disk[h] = "whole" /\ Covers(content[h], o)
  BY DEF DurabilityInv, StillOffered
<1>2. content[h] \subseteq DiskOps
  BY <1>1 DEF DiskOps, WholeFiles, TypeOK, DirTypeOK
<1> QED
  BY <1>1, <1>2, CoversMonotone

(* Nothing flush() acknowledged and nothing a compactor carried over is ever
   lost: some readable file holds or supersedes it. *)
THEOREM NothingVerifiedIsLost == Spec => []Durability
<1>1. TypeOK /\ DurabilityInv => Durability
  BY OfferedIsOnDisk
<1> QED
  BY <1>1, DurabilityInvariant, PTL

(* Who removes a file that is listed, if not its own writer: a compactor
   that has its content carried.  It touches nothing else. *)
LEMMA RemoverCarries ==
  ASSUME TypeOK, DurabilityInv, [Next]_vars,
         NEW f \in File, f \in Listed, disk'[f] = "gone",
         \A p \in Proc : ~Discards(p, f)
  PROVE  /\ Carried(f) /\ disk[f] = "whole"
         /\ \A h \in File \ {f} : disk'[h] = disk[h]
         /\ UNCHANGED <<content, verified>>
<1>0. disk[f] \in {"whole", "torn", "foreign"} /\ disk' # disk
  BY DEF Listed
<1>1. ASSUME NEW p \in Proc, WriteStep(p)
      PROVE  FALSE
  <2>1. pc[p] = "renaming" => disk[wfile[p]] = "temp"
    BY DEF DurabilityInv, OneWriter
  <2> QED
    BY <1>0, <1>1, <2>1 DEF WriteStep, Rename, RenameFails, VerifyUnreadable, VerifyMismatch,
                 Discard, Discards, TypeOK, DirTypeOK
<1>2. PICK c \in Compactor : CompactDelete(c, f)
  <2>1. ASSUME NEW s \in Session, SessionStep(s)
        PROVE  FALSE
    <3>1. s \in Proc
      BY DEF Proc
    <3>2. ASSUME WriteTemp(s, outbox[s])
          PROVE  FALSE
      BY <1>0, <3>2 DEF WriteTemp, TypeOK, DirTypeOK
    <3> QED
      BY <1>0, <1>1, <2>1, <3>1, <3>2
         DEF SessionStep, NextStore, Write, Flush, FlushStep, FlushOk, VerifyOk,
             SyncStep, SyncList, List, SyncRead, TakeListed, SyncApply, Crash, Die,
             dirVars
  <2>2. ASSUME NEW c \in Compactor, CompactorStep(c)
        PROVE  CompactDelete(c, f)
    <3>1. c \in Proc
      BY DEF Proc
    <3>2. ASSUME WriteTemp(c, merged[c])
          PROVE  FALSE
      BY <1>0, <3>2 DEF WriteTemp, TypeOK, DirTypeOK
    <3>3. ASSUME NEW g \in File, CompactDelete(c, g)
          PROVE  g = f
      BY <1>0, <3>3 DEF CompactDelete, TypeOK, DirTypeOK
    <3> QED
      BY <1>0, <1>1, <2>2, <3>1, <3>2, <3>3
         DEF CompactorStep, NextCompactor, CompactStep, CompactList, List, CompactRead,
             TakeListed, CompactNothing, CompactNoOps, CompactWrite, CompactWriteStep,
             CompactVerified, VerifyOk, CompactDone
  <2>3. ASSUME NEW c \in Compactor, CompactorCrash(c)
        PROVE  FALSE
    BY <1>0, <2>3 DEF CompactorCrash, CompactDie, Die
  <2>4. ASSUME NEW g \in File, FileArrives(g)
        PROVE  FALSE
    BY <1>0, <2>4 DEF FileArrives, Land, TypeOK, DirTypeOK
  <2> QED
    BY <1>0, <2>1, <2>2, <2>3, <2>4 DEF Next, vars, dirVars
<1>3. c \in Proc /\ disk[f] # "gone" /\ disk' = [disk EXCEPT ![f] = "gone"]
      /\ UNCHANGED <<content, verified>>
      /\ pc[c] = "deleting" /\ f \in sources[c]
  BY <1>0, <1>2 DEF CompactDelete, Proc
<1> QED
  BY <1>0, <1>3 DEF DurabilityInv, SourcesCarried, CarriesSources, TypeOK, DirTypeOK

(* A step removes a file only if it is its writer's, who found it bad, or
   if its ops stay covered. *)
CarriedRemoval ==
  \A f \in File :
    f \in Listed /\ disk'[f] = "gone" /\ (\A p \in Proc : ~Discards(p, f)) =>
      /\ disk[f] = "whole"
      /\ \A o \in content[f] : Covers(DiskOps', o)

(* Every step removes only what is carried. *)
LEMMA RemovalIsCarried ==
  ASSUME TypeOK, DurabilityInv, [Next]_vars
  PROVE  CarriedRemoval
<1> SUFFICES ASSUME NEW f \in File, f \in Listed, disk'[f] = "gone",
                    \A p \in Proc : ~Discards(p, f)
             PROVE  /\ disk[f] = "whole"
                    /\ \A o \in content[f] : Covers(DiskOps', o)
  BY DEF CarriedRemoval
<1>1. /\ Carried(f) /\ disk[f] = "whole"
      /\ \A h \in File \ {f} : disk'[h] = disk[h]
      /\ content' = content
  BY RemoverCarries
<1>2. ASSUME NEW o \in content[f]
      PROVE  Covers(DiskOps', o)
  <2>1. PICK h \in verified : h > f /\ disk[h] = "whole" /\ Covers(content[h], o)
    BY <1>1, CarriedIsOffered
  <2>2. h \in File /\ h # f
    BY <2>1, FileType DEF TypeOK, DirTypeOK
  <2>3. content[h] \subseteq DiskOps'
    BY <1>1, <2>1, <2>2 DEF DiskOps, WholeFiles
  <2> QED
    BY <2>1, <2>3, CoversMonotone
<1> QED
  BY <1>1, <1>2

(* A file is removed by its own writer, who found it bad, or by a compactor
   that leaves its ops covered: a file that never parsed is not touched. *)
THEOREM OnlyCarriedFilesGo == Spec => RemovedOnlyIfCarried
<1>1. TypeOK /\ DurabilityInv /\ [Next]_vars => [CarriedRemoval]_vars
  BY RemovalIsCarried
<1>2. Spec => [][CarriedRemoval]_vars
  BY <1>1, DurabilityInvariant, PTL DEF Spec
<1> QED
  BY <1>2 DEF RemovedOnlyIfCarried, CarriedRemoval

=============================================================================
