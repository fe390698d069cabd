--------------------------- MODULE SessionProofs ---------------------------
(***************************************************************************)
(* What sessions may rely on, for every number of sessions, compactors,    *)
(* files, faults and crashes: their edits are kept, what they read is      *)
(* applied, transactions are shown whole, they converge, and together they *)
(* implement SharedLog.                                                    *)
(***************************************************************************)
EXTENDS WalburgLog, WalburgProofs

-----------------------------------------------------------------------------
(* What a step may do, and to whom.                                        *)

(* write_verified only goes on: it writes to no file again. *)
LEMMA WriteStepFrame ==
  ASSUME TypeOK, NEW p \in Proc, WriteStep(p)
  PROVE  /\ UNCHANGED <<content, nextFile, todo, verified>>
         /\ faults' \in {faults, faults + 1}
<1> USE DEF Fault
<1>1. CASE Rename(p)
  BY <1>1 DEF Rename
<1>2. CASE RenameFails(p)
  BY <1>2 DEF RenameFails
<1>3. CASE VerifyUnreadable(p)
  BY <1>3 DEF VerifyUnreadable
<1>4. CASE VerifyMismatch(p)
  BY <1>4 DEF VerifyMismatch
<1>5. CASE Discard(p)
  BY <1>5 DEF Discard
<1> QED
  BY <1>1, <1>2, <1>3, <1>4, <1>5 DEF WriteStep

(* Of all files a step writes at most the next one; nothing is verified and
   then no longer so, and no fault or crash is forgotten. *)
LEMMA DirFrame ==
  ASSUME TypeOK, [Next]_vars
  PROVE  /\ nextFile' \in {nextFile, nextFile + 1}
         /\ \A f \in File : f < nextFile => content'[f] = content[f]
         /\ \A f \in File : f >= nextFile' => content'[f] = content[f]
         /\ verified \subseteq verified'
         /\ faults' \in {faults, faults + 1}
         /\ crashes' \in {crashes, crashes + 1}
<1> DEFINE Frame ==
      /\ nextFile' \in {nextFile, nextFile + 1}
      /\ \A f \in File : f < nextFile => content'[f] = content[f]
      /\ \A f \in File : f >= nextFile' => content'[f] = content[f]
      /\ verified \subseteq verified'
      /\ faults' \in {faults, faults + 1}
      /\ crashes' \in {crashes, crashes + 1}
<1>0. nextFile \in Nat /\ File \subseteq Nat /\ content \in [File -> SUBSET Op]
  BY WalDirAssumption, FileType DEF TypeOK, DirTypeOK
<1>a. ASSUME NEW p \in Proc, NEW ops, WriteTemp(p, ops), UNCHANGED crashes
      PROVE  Frame
  BY <1>0, <1>a DEF WriteTemp
<1>b. ASSUME UNCHANGED <<content, nextFile, crashes>>, verified \subseteq verified',
             faults' \in {faults, faults + 1}
      PROVE  Frame
  BY <1>b
<1> HIDE DEF Frame
<1> USE DEF ReadsWhole, ReadsMissing, ReadsBad, Fault
<1>1. ASSUME NEW s \in Session, SessionStep(s)
      PROVE  Frame
  <2>0. s \in Proc
    BY DEF Proc
  <2>1. ASSUME NEW e \in Entity, NEW fields \in FieldLists, Write(s, e, fields)
        PROVE  Frame
    BY <1>b, <2>1 DEF Write, dirVars
  <2>2. CASE Flush(s)
    BY <1>a, <2>0, <2>2 DEF Flush, storeVars
  <2>3. CASE FlushStep(s)
    BY <1>b, <2>0, <2>3, WriteStepFrame DEF FlushStep, storeVars
  <2>4. CASE FlushOk(s)
    BY <1>b, <2>4 DEF FlushOk, VerifyOk
  <2>5. CASE SyncList(s)
    BY <1>b, <2>5 DEF SyncList, List
  <2>6. ASSUME NEW f \in File, SyncRead(s, f)
        PROVE  Frame
    BY <1>b, <2>6 DEF SyncRead, TakeListed
  <2>7. CASE SyncApply(s)
    BY <1>b, <2>7 DEF SyncApply
  <2>8. CASE Crash(s)
    BY <2>8 DEF Crash, Die, Frame
  <2> QED
    BY <1>1, <2>1, <2>2, <2>3, <2>4, <2>5, <2>6, <2>7, <2>8
       DEF SessionStep, NextStore, SyncStep
<1>2. ASSUME NEW c \in Compactor, CompactorStep(c)
      PROVE  Frame
  <2>0. c \in Proc /\ UNCHANGED crashes
    BY <1>2 DEF Proc, CompactorStep, storeVars
  <2>1. CASE CompactList(c)
    BY <1>b, <2>0, <2>1 DEF CompactList, List
  <2>2. ASSUME NEW f \in File, CompactRead(c, f)
        PROVE  Frame
    BY <1>b, <2>0, <2>2 DEF CompactRead, TakeListed
  <2>3. CASE CompactNothing(c)
    BY <1>b, <2>0, <2>3 DEF CompactNothing
  <2>4. CASE CompactNoOps(c)
    BY <1>b, <2>0, <2>4 DEF CompactNoOps
  <2>5. CASE CompactWrite(c)
    BY <1>a, <2>0, <2>5 DEF CompactWrite
  <2>6. CASE CompactWriteStep(c)
    BY <1>b, <2>0, <2>6, WriteStepFrame DEF CompactWriteStep
  <2>7. CASE CompactVerified(c)
    BY <1>b, <2>0, <2>7 DEF CompactVerified, VerifyOk
  <2>8. ASSUME NEW f \in File, CompactDelete(c, f)
        PROVE  Frame
    BY <1>b, <2>0, <2>8 DEF CompactDelete
  <2>9. CASE CompactDone(c)
    BY <1>b, <2>0, <2>9 DEF CompactDone
  <2> QED
    BY <1>2, <2>1, <2>2, <2>3, <2>4, <2>5, <2>6, <2>7, <2>8, <2>9
       DEF CompactorStep, NextCompactor, CompactStep
<1>3. ASSUME NEW c \in Compactor, CompactorCrash(c)
      PROVE  Frame
  BY <1>3 DEF CompactorCrash, CompactDie, Die, Frame
<1>4. ASSUME NEW f \in File, FileArrives(f)
      PROVE  Frame
  BY <1>b, <1>4 DEF FileArrives, Land, storeVars
<1>5. CASE UNCHANGED vars
  BY <1>b, <1>5 DEF vars, dirVars, storeVars
<1> QED
  BY <1>1, <1>2, <1>3, <1>4, <1>5 DEF Next, Frame

(* A session's own state changes in its own steps only. *)
LEMMA OthersFrame ==
  ASSUME TypeOK, [Next]_vars, NEW s \in Session, ~SessionStep(s)
  PROVE  /\ current'[s] = current[s] /\ outbox'[s] = outbox[s]
         /\ processed'[s] = processed[s] /\ batch'[s] = batch[s]
         /\ own'[s] = own[s]
         /\ pc'[s] = pc[s] /\ todo'[s] = todo[s] /\ wfile'[s] = wfile[s]
<1> DEFINE Frame ==
      /\ current'[s] = current[s] /\ outbox'[s] = outbox[s]
      /\ processed'[s] = processed[s] /\ batch'[s] = batch[s]
      /\ own'[s] = own[s]
      /\ pc'[s] = pc[s] /\ todo'[s] = todo[s] /\ wfile'[s] = wfile[s]
<1>0. s \in Proc /\ \A c \in Compactor : c \in Proc /\ c # s
  BY WalDirAssumption DEF Proc
<1>a. /\ pc \in [Proc -> PC] /\ todo \in [Proc -> SUBSET File]
      /\ wfile \in [Proc -> File \cup {NoFile}]
  BY DEF TypeOK, DirTypeOK
<1>1. ASSUME NEW t \in Session, SessionStep(t)
      PROVE  Frame
  <2>0. t # s /\ t \in Proc
    BY <1>1 DEF Proc
  <2> USE <1>0, <1>a, <2>0 DEF Goto, TypeOK
  <2>1. ASSUME NEW e \in Entity, NEW fields \in FieldLists, Write(t, e, fields)
        PROVE  Frame
    BY <2>1 DEF Write, dirVars
  <2>2. CASE Flush(t)
    BY <2>2 DEF Flush, WriteTemp, storeVars
  <2>3. CASE FlushStep(t)
    BY <2>3, WriteStepFrame, WriteStepType DEF FlushStep, storeVars
  <2>4. CASE FlushOk(t)
    BY <2>4 DEF FlushOk, VerifyOk
  <2>5. CASE SyncList(t)
    BY <2>5 DEF SyncList, List
  <2>6. ASSUME NEW f \in File, SyncRead(t, f)
        PROVE  Frame
    BY <2>6 DEF SyncRead, TakeListed
  <2>7. CASE SyncApply(t)
    BY <2>7 DEF SyncApply
  <2>8. CASE Crash(t)
    BY <2>8 DEF Crash, Die
  <2> QED
    BY <1>1, <2>1, <2>2, <2>3, <2>4, <2>5, <2>6, <2>7, <2>8
       DEF SessionStep, NextStore, SyncStep
<1>2. ASSUME NEW c \in Compactor, CompactorStep(c)
      PROVE  Frame
  <2> USE <1>0, <1>a DEF Goto
  <2>0. UNCHANGED storeVars
    BY <1>2 DEF CompactorStep
  <2>1. CASE CompactList(c)
    BY <2>0, <2>1 DEF CompactList, List, storeVars
  <2>2. ASSUME NEW f \in File, CompactRead(c, f)
        PROVE  Frame
    BY <2>0, <2>2 DEF CompactRead, TakeListed, storeVars
  <2>3. CASE CompactNothing(c)
    BY <2>0, <2>3 DEF CompactNothing, storeVars
  <2>4. CASE CompactNoOps(c)
    BY <2>0, <2>4 DEF CompactNoOps, storeVars
  <2>5. CASE CompactWrite(c)
    BY <2>0, <2>5 DEF CompactWrite, WriteTemp, storeVars
  <2>6. CASE CompactWriteStep(c)
    BY <2>0, <2>6, WriteStepFrame, WriteStepType DEF CompactWriteStep, storeVars
  <2>7. CASE CompactVerified(c)
    BY <2>0, <2>7 DEF CompactVerified, VerifyOk, storeVars
  <2>8. ASSUME NEW f \in File, CompactDelete(c, f)
        PROVE  Frame
    BY <2>0, <2>8 DEF CompactDelete, storeVars
  <2>9. CASE CompactDone(c)
    BY <2>0, <2>9 DEF CompactDone, storeVars
  <2> QED
    BY <1>2, <2>1, <2>2, <2>3, <2>4, <2>5, <2>6, <2>7, <2>8, <2>9
       DEF CompactorStep, NextCompactor, CompactStep
<1>3. ASSUME NEW c \in Compactor, CompactorCrash(c)
      PROVE  Frame
  BY <1>0, <1>a, <1>3 DEF CompactorCrash, CompactDie, Die
<1>4. ASSUME NEW f \in File, FileArrives(f)
      PROVE  Frame
  BY <1>4 DEF FileArrives, Land, storeVars
<1>5. CASE UNCHANGED vars
  BY <1>5 DEF vars, dirVars, storeVars
<1> QED
  BY <1>1, <1>2, <1>3, <1>4, <1>5 DEF Next

-----------------------------------------------------------------------------
(***************************************************************************)
(* What a session holds.  A file that was read is written already, so its  *)
(* content stays as it was; the file of a flush under way is the outbox,   *)
(* for no edit is made during a flush; and the merged state is a merge of  *)
(* what the session wrote and read and of nothing else.                    *)
(***************************************************************************)
ReadBy(s) == UNION {content[f] : f \in processed[s]}

ReadIsApplied(s) ==
  \A f \in processed[s] :
    /\ f < nextFile
    /\ \A o \in content[f] : Covers(current[s] \cup batch[s], o)

OwnIsKept(s) ==
  /\ wfile[s] # NoFile => content[wfile[s]] = outbox[s]
  /\ outbox[s] \subseteq own[s]
  /\ \A o \in own[s] :
       /\ o \in outbox[s] \/ \E f \in verified : o \in content[f]
       /\ Covers(current[s], o)

HoldsItsMerge(s) ==
  /\ current[s] \cup batch[s] \subseteq own[s] \cup ReadBy(s)
  /\ \A p, o \in current[s] : ~Supersedes(p, o)

SessionInv ==
  \A s \in Session : ReadIsApplied(s) /\ OwnIsKept(s) /\ HoldsItsMerge(s)

(* Sessions that know nothing. *)
LEMMA SessionInit == Init => SessionInv
  BY DEF Init, InitDir, InitStore, SessionInv, ReadIsApplied, OwnIsKept, HoldsItsMerge,
         ReadBy, Proc

(* The steps of others take nothing from a session: files that are written
   keep their content, and verified files stay verified. *)
LEMMA SessionKeptByOthers ==
  ASSUME TypeOK, DurabilityInv, SessionInv, [Next]_vars,
         NEW s \in Session, ~SessionStep(s)
  PROVE  ReadIsApplied(s)' /\ OwnIsKept(s)' /\ HoldsItsMerge(s)'
<1>0. /\ nextFile \in Nat /\ nextFile' \in Nat /\ nextFile <= nextFile'
      /\ File \subseteq Nat /\ processed[s] \subseteq File /\ verified \subseteq File
      /\ verified \subseteq verified'
  BY WalDirAssumption, FileType, DirFrame DEF TypeOK, DirTypeOK
<1>1. \A f \in File : f < nextFile => content'[f] = content[f]
  BY DirFrame
<1>2. /\ current'[s] = current[s] /\ outbox'[s] = outbox[s]
      /\ processed'[s] = processed[s] /\ batch'[s] = batch[s]
      /\ own'[s] = own[s] /\ wfile'[s] = wfile[s]
  BY OthersFrame
<1>3. ReadIsApplied(s) /\ OwnIsKept(s) /\ HoldsItsMerge(s)
  BY DEF SessionInv
<1>4. /\ \A f \in processed[s] : f < nextFile' /\ content'[f] = content[f]
      /\ \A f \in verified : content'[f] = content[f]
      /\ wfile[s] # NoFile => content'[wfile[s]] = content[wfile[s]]
  <2>1. \A f \in processed[s] : f < nextFile
    BY <1>3 DEF ReadIsApplied
  <2>2. \A f \in verified : f < nextFile
    <3> SUFFICES ASSUME NEW f \in verified
                 PROVE  f < nextFile
      OBVIOUS
    <3>1. disk[f] # "unused"
      BY DEF DurabilityInv, OneWriter
    <3>2. f \in File /\ f \in Nat
      BY <1>0
    <3>3. ~ (f >= nextFile)
      BY <3>1, <3>2 DEF DurabilityInv, NamesInOrder
    <3> QED
      BY ONLY <1>0, <3>2, <3>3
  <2>3. wfile[s] # NoFile => wfile[s] \in File /\ wfile[s] < nextFile
    BY DEF DurabilityInv, NamesInOrder, TypeOK, DirTypeOK, Proc
  <2>4. \A f \in File : f < nextFile => f < nextFile'
    BY ONLY <1>0
  <2> QED
    BY ONLY <1>0, <1>1, <2>1, <2>2, <2>3, <2>4
<1>5. ReadIsApplied(s)'
  BY <1>2, <1>3, <1>4 DEF ReadIsApplied
<1>6. OwnIsKept(s)'
  BY <1>0, <1>2, <1>3, <1>4 DEF OwnIsKept
<1>7. HoldsItsMerge(s)'
  BY <1>2, <1>3, <1>4 DEF HoldsItsMerge, ReadBy
<1> QED
  BY <1>5, <1>6, <1>7

(* A step that leaves what a session holds alone. *)
LEMMA SessionUntouched ==
  ASSUME SessionInv, NEW s \in Session, UNCHANGED <<content, nextFile>>,
         verified \subseteq verified', wfile'[s] \in {wfile[s], NoFile},
         current'[s] = current[s], outbox'[s] = outbox[s], batch'[s] = batch[s],
         processed'[s] = processed[s], own'[s] = own[s]
  PROVE  ReadIsApplied(s)' /\ OwnIsKept(s)' /\ HoldsItsMerge(s)'
<1>1. ReadIsApplied(s) /\ OwnIsKept(s) /\ HoldsItsMerge(s)
  BY DEF SessionInv
<1>2. ReadIsApplied(s)'
  BY <1>1 DEF ReadIsApplied
<1>3. OwnIsKept(s)'
  BY <1>1 DEF OwnIsKept
<1>4. HoldsItsMerge(s)'
  BY <1>1 DEF HoldsItsMerge, ReadBy
<1> QED
  BY <1>2, <1>3, <1>4

(* A session's own step: it applies what it writes and what it read, and
   empties its outbox only into a verified file (store.rs `write`, `flush`,
   `sync`; wal.rs `consume`). *)
LEMMA SessionKeptBySession ==
  ASSUME TypeOK, DurabilityInv, SessionInv, NEW s \in Session, SessionStep(s)
  PROVE  ReadIsApplied(s)' /\ OwnIsKept(s)' /\ HoldsItsMerge(s)'
<1> DEFINE Kept == ReadIsApplied(s)' /\ OwnIsKept(s)' /\ HoldsItsMerge(s)'
<1>0. /\ s \in Proc
      /\ content \in [File -> SUBSET Op] /\ processed[s] \in SUBSET File
      /\ current[s] \in SUBSET Op /\ batch[s] \in SUBSET Op
      /\ outbox[s] \in SUBSET Op /\ own[s] \in SUBSET Op
      /\ verified \subseteq File /\ wfile[s] \in File \cup {NoFile}
  BY DEF TypeOK, DirTypeOK, Proc
<1>1. ReadIsApplied(s) /\ OwnIsKept(s) /\ HoldsItsMerge(s)
  BY DEF SessionInv
<1>2. /\ pc[s] = "idle" => wfile[s] = NoFile
      /\ pc[s] # "reading" => batch[s] = {}
  BY <1>0 DEF TypeOK
<1>3. \A f \in File : f < nextFile => content'[f] = content[f]
  BY DirFrame DEF Next
<1>4. \A f \in processed[s] : f \in File /\ f < nextFile
  BY <1>0, <1>1 DEF ReadIsApplied
<1> HIDE DEF Kept
<1>5. ASSUME NEW e \in Entity, NEW fields \in FieldLists, Write(s, e, fields)
      PROVE  Kept
  <2>1. PICK tx \in Tx :
          LET ops == Transaction(tx, e, fields, UserOf[s])
          IN  /\ NextTx(s, tx)
              /\ current' = [current EXCEPT ![s] = MergeOps(@, ops)]
              /\ outbox' = [outbox EXCEPT ![s] = @ \cup ops]
              /\ own' = [own EXCEPT ![s] = @ \cup ops]
    BY <1>5 DEF Write
  <2> DEFINE ops == Transaction(tx, e, fields, UserOf[s])
  <2>2. ops \in SUBSET Op
    BY TransactionOps
  <2>3. /\ current'[s] = MergeOps(current[s], ops)
        /\ outbox'[s] = outbox[s] \cup ops
        /\ own'[s] = own[s] \cup ops
    BY <2>1 DEF TypeOK
  <2>4. /\ UNCHANGED <<processed, batch, content, nextFile, wfile, verified>>
        /\ pc[s] = "idle"
    BY <1>5 DEF Write, dirVars
  <2> HIDE DEF ops
  <2>5. wfile[s] = NoFile /\ batch[s] = {}
    BY <1>2, <2>4
  <2>6. \A o \in Op : Covers(current[s], o) => Covers(MergeOps(current[s], ops), o)
    BY <1>0, <2>2, MergeCoversMore
  <2>7. ReadIsApplied(s)'
    <3>1. ASSUME NEW f \in processed[s], NEW o \in content[f]
          PROVE  Covers(MergeOps(current[s], ops), o)
      <4>1. Covers(current[s], o)
        BY <1>1, <2>5 DEF ReadIsApplied
      <4> QED
        BY <1>0, <2>6, <4>1
    <3> QED
      BY <1>4, <2>3, <2>4, <2>5, <3>1 DEF ReadIsApplied
  <2>8. OwnIsKept(s)'
    <3>1. \A o \in ops : Covers(MergeOps(current[s], ops), o)
      BY <1>0, <2>2, MergeOpsCover
    <3> QED
      BY <1>0, <1>1, <2>3, <2>4, <2>5, <2>6, <3>1 DEF OwnIsKept
  <2>9. HoldsItsMerge(s)'
    BY <1>1, <2>3, <2>4, MergeIsMinimal DEF HoldsItsMerge, ReadBy
  <2> QED
    BY <2>7, <2>8, <2>9 DEF Kept
<1>6. CASE Flush(s)
  <2>1. /\ UNCHANGED <<current, outbox, processed, batch, own, verified>>
        /\ wfile'[s] = nextFile /\ nextFile' = nextFile + 1
        /\ content'[nextFile] = outbox[s]
    <3>1. nextFile \in File
      BY <1>6, WalDirAssumption DEF Flush, WriteTemp, TypeOK, DirTypeOK, File
    <3> QED
      BY <1>0, <1>6, <3>1 DEF Flush, WriteTemp, storeVars, TypeOK, DirTypeOK
  <2>2. /\ \A f \in processed[s] : f < nextFile' /\ content'[f] = content[f]
        /\ \A f \in verified : content'[f] = content[f]
    <3>1. \A f \in File : f < nextFile => f < nextFile + 1
      BY FileType, WalDirAssumption DEF TypeOK, DirTypeOK
    <3>2. \A f \in verified : f < nextFile
      BY <1>0, FileType, WalDirAssumption
         DEF DurabilityInv, OneWriter, NamesInOrder, TypeOK, DirTypeOK
    <3> QED
      BY <1>0, <1>3, <1>4, <2>1, <3>1, <3>2
  <2>3. ReadIsApplied(s)'
    BY <1>1, <2>1, <2>2 DEF ReadIsApplied
  <2>4. OwnIsKept(s)'
    BY <1>1, <2>1, <2>2 DEF OwnIsKept
  <2>5. HoldsItsMerge(s)'
    BY <1>1, <2>1, <2>2 DEF HoldsItsMerge, ReadBy
  <2> QED
    BY <2>3, <2>4, <2>5 DEF Kept
<1>7. CASE FlushStep(s)
  <2>1. /\ UNCHANGED <<current, outbox, processed, batch, own>>
        /\ UNCHANGED <<content, nextFile, verified>>
        /\ wfile'[s] \in {wfile[s], NoFile}
    BY <1>0, <1>7, WriteStepQuiet DEF FlushStep, storeVars
  <2> QED
    BY <2>1, SessionUntouched DEF Kept
<1>8. CASE FlushOk(s)
  <2>1. /\ UNCHANGED <<current, processed, batch, own, content, nextFile>>
        /\ verified' = verified \cup {wfile[s]}
        /\ outbox'[s] = {} /\ wfile'[s] = NoFile /\ pc[s] = "verifying"
    BY <1>0, <1>8 DEF FlushOk, VerifyOk, TypeOK, DirTypeOK
  <2>2. content[wfile[s]] = outbox[s]
    BY <1>0, <1>1, <2>1 DEF OwnIsKept, TypeOK
  <2>3. OwnIsKept(s)'
    BY <1>1, <2>1, <2>2 DEF OwnIsKept
  <2>4. ReadIsApplied(s)'
    BY <1>1, <2>1 DEF ReadIsApplied
  <2>5. HoldsItsMerge(s)'
    BY <1>1, <2>1 DEF HoldsItsMerge, ReadBy
  <2> QED
    BY <2>3, <2>4, <2>5 DEF Kept
<1>9. CASE SyncList(s)
  BY <1>9, SessionUntouched DEF SyncList, List, Kept
<1>10. ASSUME NEW f \in File, SyncRead(s, f)
       PROVE  Kept
  <2>1. UNCHANGED <<current, outbox, own, content, nextFile, wfile, verified>>
    BY <1>10 DEF SyncRead, TakeListed
  <2>2. OwnIsKept(s)'
    BY <1>1, <2>1 DEF OwnIsKept
  <2>3. CASE /\ disk[f] = "whole"
             /\ batch'[s] = batch[s] \cup content[f]
             /\ processed'[s] = processed[s] \cup {f}
    <3>1. f < nextFile
      BY <2>3, FileType, WalDirAssumption DEF DurabilityInv, NamesInOrder, TypeOK, DirTypeOK
    <3>2. ASSUME NEW g \in processed[s] \cup {f}, NEW o \in content[g]
          PROVE  Covers(current[s] \cup (batch[s] \cup content[f]), o)
      <4>1. CASE g = f
        BY <4>1, <3>2, MemberCovers
      <4>2. CASE g \in processed[s]
        BY <1>1, <4>2, <3>2 DEF ReadIsApplied, Covers
      <4> QED
        BY <4>1, <4>2
    <3>3. ReadIsApplied(s)'
      BY <1>4, <2>1, <2>3, <3>1, <3>2 DEF ReadIsApplied
    <3>4. HoldsItsMerge(s)'
      BY <1>1, <2>1, <2>3 DEF HoldsItsMerge, ReadBy
    <3> QED
      BY <2>2, <3>3, <3>4 DEF Kept
  <2>4. CASE batch'[s] = batch[s] /\ processed'[s] = processed[s]
    BY <2>1, <2>4, SessionUntouched DEF Kept
  <2>5. \/ /\ disk[f] = "whole"
           /\ batch'[s] = batch[s] \cup content[f]
           /\ processed'[s] = processed[s] \cup {f}
        \/ batch'[s] = batch[s] /\ processed'[s] = processed[s]
    BY <1>10 DEF SyncRead, ReadsWhole, TypeOK
  <2> QED
    BY <2>3, <2>4, <2>5
<1>11. CASE SyncApply(s)
  <2>1. /\ UNCHANGED <<outbox, own, processed, content, nextFile, wfile, verified>>
        /\ current'[s] = MergeOps(current[s], batch[s])
        /\ batch'[s] = {}
    BY <1>11 DEF SyncApply, TypeOK
  <2>2. ReadIsApplied(s)'
    <3>1. ASSUME NEW f \in processed[s], NEW o \in content[f]
          PROVE  Covers(MergeOps(current[s], batch[s]), o)
      <4>1. Covers(current[s] \cup batch[s], o)
        BY <1>1 DEF ReadIsApplied
      <4> QED
        BY <1>0, <4>1, MergeKeepsCover
    <3> QED
      BY <1>4, <2>1, <3>1 DEF ReadIsApplied
  <2>3. OwnIsKept(s)'
    <3>1. \A o \in own[s] : Covers(MergeOps(current[s], batch[s]), o)
      <4>1. \A o \in own[s] : Covers(current[s], o)
        BY <1>1 DEF OwnIsKept
      <4> QED
        BY <1>0, <4>1, MergeCoversMore
    <3> QED
      BY <1>1, <2>1, <3>1 DEF OwnIsKept
  <2>4. HoldsItsMerge(s)'
    BY <1>1, <2>1, MergeIsMinimal DEF HoldsItsMerge, ReadBy
  <2> QED
    BY <2>2, <2>3, <2>4 DEF Kept
<1>12. CASE Crash(s)
  <2>1. /\ current'[s] = {} /\ outbox'[s] = {} /\ processed'[s] = {}
        /\ batch'[s] = {} /\ own'[s] = {} /\ wfile'[s] = NoFile
    BY <1>0, <1>12 DEF Crash, Die, TypeOK, DirTypeOK
  <2> QED
    BY <2>1 DEF ReadIsApplied, OwnIsKept, HoldsItsMerge, ReadBy, Kept
<1> QED
  BY <1>5, <1>6, <1>7, <1>8, <1>9, <1>10, <1>11, <1>12
     DEF SessionStep, NextStore, SyncStep, Kept

(* SessionInv is inductive, beside what is known of files. *)
LEMMA SessionNext ==
  ASSUME TypeOK, DurabilityInv, SessionInv, [Next]_vars
  PROVE  SessionInv'
  BY SessionKeptByOthers, SessionKeptBySession DEF SessionInv

(* What sessions hold, in every state. *)
THEOREM SessionInvariant == Spec => []SessionInv
  BY DurabilityInvariant, SessionInit, SessionNext, PTL DEF Spec

(* A file a session will never open again has all its ops in the session's
   state or in the batch about to be applied (wal.rs `consume`). *)
THEOREM WhatIsReadIsApplied == Spec => []ProcessedApplied
<1>1. SessionInv => ProcessedApplied
  BY DEF SessionInv, ReadIsApplied, ProcessedApplied
<1> QED
  BY <1>1, SessionInvariant, PTL

(* No failed flush, and no number of them, loses an edit, and a session
   reads its own writes (store.rs `flush`). *)
THEOREM EditsAreKept == Spec => []OwnEditsKept
<1>1. SessionInv => OwnEditsKept
  BY DEF SessionInv, OwnIsKept, OwnEditsKept
<1> QED
  BY <1>1, SessionInvariant, PTL

-----------------------------------------------------------------------------
(***************************************************************************)
(* Transactions.  A set of ops is whole if it holds, or holds newer values *)
(* for, everything of each transaction it has an op of.  Every set of ops  *)
(* in the system is whole: a transaction is made at once, a flush writes   *)
(* the outbox, a file is read from end to end, and merging keeps it so.    *)
(***************************************************************************)
HasNewer(X, p) ==
  \E r \in X : r.ent = p.ent /\ (IsPurge(r) \/ (r.field = p.field /\ r.tx >= p.tx))

IsWhole(X, I) ==
  \A o \in X : \A p \in I : p.tx = o.tx /\ p.ent = o.ent => HasNewer(X, p)

Written == UNION {content[f] : f \in File}

(* A file has ops once it is written, and a compactor has those of files. *)
HeldInv ==
  /\ \A f \in File : f >= nextFile => content[f] = {}
  /\ \A c \in Compactor : merged[c] \subseteq Written

TransactionInv ==
  /\ \A f \in File : IsWhole(content[f], Issued)
  /\ \A c \in Compactor : IsWhole(merged[c], Issued)
  /\ \A s \in Session : /\ IsWhole(current[s], Issued)
                        /\ IsWhole(outbox[s], Issued)
                        /\ IsWhole(batch[s], Issued)

(* A newer value is superseded by one newer still, or by a purge. *)
LEMMA NewerInMerge ==
  ASSUME NEW X \in SUBSET Op, NEW p \in Op, HasNewer(X, p)
  PROVE  HasNewer(Winners(X), p)
<1>1. PICK r \in X : r.ent = p.ent /\ (IsPurge(r) \/ (r.field = p.field /\ r.tx >= p.tx))
  BY DEF HasNewer
<1>2. PICK q \in Winners(X) : q = r \/ Supersedes(q, r)
  BY WinnersCover DEF Covers
<1>3. q \in Op /\ r \in Op
  BY <1>1, <1>2 DEF Winners
<1>4. q.tx \in Int /\ r.tx \in Int /\ p.tx \in Int
  BY <1>3, EavcAssumption DEF Op, Tx
<1>5. CASE IsPurge(q)
  BY <1>1, <1>2, <1>5 DEF HasNewer, Supersedes
<1>6. CASE ~IsPurge(q)
  <2>1. ~IsPurge(r) /\ q.ent = p.ent /\ q.field = r.field /\ q.tx >= r.tx
    BY <1>1, <1>2, <1>4, <1>6 DEF Supersedes, Wins, IsPurge
  <2>2. r.field = p.field /\ r.tx >= p.tx
    BY <1>1, <2>1
  <2>3. q.tx >= p.tx
    BY ONLY <1>4, <2>1, <2>2
  <2> QED
    BY <2>1, <2>2, <2>3 DEF HasNewer
<1> QED
  BY <1>5, <1>6

(* The merge of whole sets is whole. *)
LEMMA WholeMerge ==
  ASSUME NEW X \in SUBSET Op, NEW Y \in SUBSET Op, NEW I \in SUBSET Op,
         IsWhole(X, I), IsWhole(Y, I)
  PROVE  IsWhole(X \cup Y, I) /\ IsWhole(MergeOps(X, Y), I)
<1>1. IsWhole(X \cup Y, I)
  BY DEF IsWhole, HasNewer
<1>2. \A p \in I : HasNewer(X \cup Y, p) => HasNewer(Winners(X \cup Y), p)
  BY NewerInMerge
<1>3. IsWhole(Winners(X \cup Y), I)
  BY <1>1, <1>2 DEF IsWhole, Winners
<1> QED
  BY <1>1, <1>3 DEF MergeOps

(* A set of ops that are all known stays whole when ops with another
   transaction id are issued, and when ops are forgotten. *)
LEMMA WholeStays ==
  ASSUME NEW X, NEW I, NEW J, IsWhole(X, I),
         \A p \in J : p \in I \/ \A o \in X : p.tx # o.tx
  PROVE  IsWhole(X, J)
  BY DEF IsWhole

(* A call that writes, as a step of the system. *)
EditStep(s) ==
  SessionStep(s) /\ \E e \in Entity, fields \in FieldLists : Write(s, e, fields)

(* Where ops go in a step that is no edit: into a file from an outbox or a
   merge, from a file into a batch or a merge, and from a batch into the
   session's state.  The rest of what was held is kept or dropped. *)
LEMMA OpsMove ==
  ASSUME TypeOK, [Next]_vars,
         \A s \in Session : ~EditStep(s)
  PROVE  /\ \A f \in File : \/ content'[f] = content[f]
                            \/ \E s \in Session : content'[f] = outbox[s]
                            \/ \E c \in Compactor : content'[f] = merged[c]
         /\ \A s \in Session :
              /\ own'[s] \in {own[s], {}}
              /\ outbox'[s] \in {outbox[s], {}}
              /\ current'[s] \in {current[s], {}, MergeOps(current[s], batch[s])}
              /\ \/ batch'[s] \in {batch[s], {}}
                 \/ \E f \in File : batch'[s] = batch[s] \cup content[f]
         /\ \A c \in Compactor :
              \/ merged'[c] \in {merged[c], {}}
              \/ \E f \in File : merged'[c] = MergeOps(merged[c], content[f])
<1> DEFINE
      FileMove(f) == \/ content'[f] = content[f]
                     \/ \E s \in Session : content'[f] = outbox[s]
                     \/ \E c \in Compactor : content'[f] = merged[c]
      SessionMove(s) ==
        /\ own'[s] \in {own[s], {}}
        /\ outbox'[s] \in {outbox[s], {}}
        /\ current'[s] \in {current[s], {}, MergeOps(current[s], batch[s])}
        /\ \/ batch'[s] \in {batch[s], {}}
           \/ \E f \in File : batch'[s] = batch[s] \cup content[f]
      MergeMove(c) ==
        \/ merged'[c] \in {merged[c], {}}
        \/ \E f \in File : merged'[c] = MergeOps(merged[c], content[f])
      Moves == /\ \A f \in File : FileMove(f)
               /\ \A c \in Compactor : MergeMove(c)
<1>1. ASSUME NEW p \in Proc, NEW ops, WriteTemp(p, ops), UNCHANGED merged,
             (\E s \in Session : ops = outbox[s]) \/ (\E c \in Compactor : ops = merged[c])
      PROVE  Moves
  <2>1. \A f \in File : content'[f] = content[f] \/ content'[f] = ops
    BY <1>1 DEF WriteTemp, TypeOK, DirTypeOK
  <2> QED
    BY <1>1, <2>1
<1>2. ASSUME UNCHANGED content, UNCHANGED merged
      PROVE  Moves
  BY <1>2
<1>3. ASSUME UNCHANGED content,
             NEW c \in Compactor,
             \A d \in Compactor \ {c} : merged'[d] = merged[d],
             MergeMove(c)
      PROVE  Moves
  BY <1>3
<1> HIDE DEF FileMove, MergeMove
<1>4. ASSUME NEW s \in Session, SessionStep(s)
      PROVE  Moves /\ SessionMove(s)
  <2>0. s \in Proc /\ UNCHANGED merged
    BY <1>4 DEF Proc, SessionStep, compactorVars
  <2>1. ~ \E e \in Entity, fields \in FieldLists : Write(s, e, fields)
    BY <1>4 DEF EditStep
  <2>2. CASE Flush(s)
    BY <1>1, <2>0, <2>2 DEF Flush, storeVars
  <2>3. CASE FlushStep(s)
    BY <1>2, <2>0, <2>3, WriteStepFrame DEF FlushStep, storeVars
  <2>4. CASE FlushOk(s)
    BY <1>2, <2>0, <2>4 DEF FlushOk, VerifyOk, TypeOK
  <2>5. CASE SyncList(s)
    BY <1>2, <2>0, <2>5 DEF SyncList, List
  <2>6. ASSUME NEW f \in File, SyncRead(s, f)
        PROVE  Moves /\ SessionMove(s)
    <3>1. batch'[s] = batch[s] \/ batch'[s] = batch[s] \cup content[f]
      BY <2>6 DEF SyncRead, TypeOK
    <3> QED
      BY <1>2, <2>0, <2>6, <3>1 DEF SyncRead, TakeListed
  <2>7. CASE SyncApply(s)
    BY <1>2, <2>0, <2>7 DEF SyncApply, TypeOK
  <2>8. CASE Crash(s)
    BY <1>2, <2>0, <2>8 DEF Crash, Die, TypeOK
  <2> QED
    BY <1>4, <2>1, <2>2, <2>3, <2>4, <2>5, <2>6, <2>7, <2>8
       DEF SessionStep, NextStore, SyncStep
<1>5. ASSUME NEW c \in Compactor, CompactorStep(c)
      PROVE  Moves
  <2>0. c \in Proc
    BY DEF Proc
  <2>1. CASE CompactList(c)
    BY <1>2, <2>1 DEF CompactList, List
  <2>2. ASSUME NEW f \in File, CompactRead(c, f)
        PROVE  Moves
    <3>1. UNCHANGED content /\ \A d \in Compactor \ {c} : merged'[d] = merged[d]
      BY <2>2 DEF CompactRead, TakeListed, TypeOK
    <3>2. merged'[c] = merged[c] \/ merged'[c] = MergeOps(merged[c], content[f])
      BY <2>2 DEF CompactRead, TypeOK
    <3>3. MergeMove(c)
      BY <3>2 DEF MergeMove
    <3> QED
      BY <1>3, <3>1, <3>3
  <2>3. CASE CompactNothing(c)
    BY <1>2, <2>3 DEF CompactNothing, compactorVars
  <2>4. CASE CompactNoOps(c)
    BY <1>2, <2>4 DEF CompactNoOps, compactorVars
  <2>5. CASE CompactWrite(c)
    BY <1>1, <2>0, <2>5 DEF CompactWrite, compactorVars
  <2>6. CASE CompactWriteStep(c)
    <3>1. UNCHANGED content
      BY <2>0, <2>6, WriteStepFrame DEF CompactWriteStep
    <3>2. /\ \A d \in Compactor \ {c} : merged'[d] = merged[d]
          /\ merged'[c] \in {merged[c], {}}
      BY <2>6 DEF CompactWriteStep, TypeOK
    <3>3. MergeMove(c)
      BY <3>2 DEF MergeMove
    <3> QED
      BY <1>3, <3>1, <3>2, <3>3
  <2>7. CASE CompactVerified(c)
    BY <1>2, <2>7 DEF CompactVerified, VerifyOk, compactorVars
  <2>8. ASSUME NEW f \in File, CompactDelete(c, f)
        PROVE  Moves
    BY <1>2, <2>8 DEF CompactDelete
  <2>9. CASE CompactDone(c)
    <3>1. /\ UNCHANGED content
          /\ \A d \in Compactor \ {c} : merged'[d] = merged[d]
          /\ merged'[c] = {}
      BY <2>9 DEF CompactDone, TypeOK
    <3>2. MergeMove(c)
      BY <3>1 DEF MergeMove
    <3> QED
      BY <1>3, <3>1, <3>2
  <2> QED
    BY <1>5, <2>1, <2>2, <2>3, <2>4, <2>5, <2>6, <2>7, <2>8, <2>9
       DEF CompactorStep, NextCompactor, CompactStep
<1>6. ASSUME NEW c \in Compactor, CompactorCrash(c)
      PROVE  Moves
  <2>1. /\ UNCHANGED content
        /\ \A d \in Compactor \ {c} : merged'[d] = merged[d]
        /\ merged'[c] = {}
    BY <1>6 DEF CompactorCrash, CompactDie, Die, TypeOK
  <2>2. MergeMove(c)
    BY <2>1 DEF MergeMove
  <2> QED
    BY <1>3, <2>1, <2>2
<1>7. ASSUME NEW f \in File, FileArrives(f)
      PROVE  Moves
  BY <1>2, <1>7 DEF FileArrives, Land, compactorVars
<1>8. ASSUME UNCHANGED vars
      PROVE  Moves
  BY <1>2, <1>8 DEF vars, dirVars, compactorVars
<1>9. Moves
  BY <1>4, <1>5, <1>6, <1>7, <1>8 DEF Next
<1>10. \A s \in Session : SessionMove(s)
  BY <1>4, OthersFrame
<1> QED
  BY <1>9, <1>10 DEF FileMove, MergeMove

(* What is issued and what is written, op by op, before and after a step. *)
LEMMA IssuedMembers ==
  /\ \A o : o \in Written <=> \E f \in File : o \in content[f]
  /\ \A o : o \in Issued <=> o \in Written \/ \E s \in Session : o \in own[s]
  /\ \A o : o \in Written' <=> \E f \in File : o \in content'[f]
  /\ \A o : o \in Issued' <=> o \in Written' \/ \E s \in Session : o \in own'[s]
<1>1. ASSUME NEW o
      PROVE  o \in Written <=> \E f \in File : o \in content[f]
  BY SMT DEF Written
<1>2. ASSUME NEW o
      PROVE  o \in Written' <=> \E f \in File : o \in content'[f]
  BY SMT DEF Written
<1>3. ASSUME NEW o
      PROVE  o \in Issued <=> o \in Written \/ \E s \in Session : o \in own[s]
  BY SMT DEF Issued, Written
<1>4. ASSUME NEW o
      PROVE  o \in Issued' <=> o \in Written' \/ \E s \in Session : o \in own'[s]
  BY SMT DEF Issued, Written
<1> QED
  BY <1>1, <1>2, <1>3, <1>4

(* Every op that is held anywhere is in a file, or was written by a session
   that is still open. *)
LEMMA HeldIsIssued ==
  ASSUME TypeOK, SessionInv
  PROVE  /\ Issued \in SUBSET Op
         /\ Written \subseteq Issued
         /\ \A f \in File : content[f] \subseteq Issued
         /\ \A s \in Session : /\ own[s] \subseteq Issued
                               /\ outbox[s] \subseteq Issued
                               /\ current[s] \cup batch[s] \subseteq Issued
<1>1. /\ content \in [File -> SUBSET Op] /\ own \in [Session -> SUBSET Op]
      /\ processed \in [Session -> SUBSET File]
  BY DEF TypeOK, DirTypeOK
<1>2. Issued \in SUBSET Op /\ Written \subseteq Issued
  BY <1>1, IssuedMembers
<1>3. \A f \in File : content[f] \subseteq Issued
  BY IssuedMembers
<1>4. \A s \in Session : own[s] \subseteq Issued
  BY IssuedMembers
<1>5. \A s \in Session : ReadBy(s) \subseteq Issued
  BY <1>1, <1>3 DEF ReadBy
<1>6. ASSUME NEW s \in Session
      PROVE  outbox[s] \subseteq own[s] /\ current[s] \cup batch[s] \subseteq own[s] \cup ReadBy(s)
  BY DEF SessionInv, OwnIsKept, HoldsItsMerge
<1> QED
  BY <1>2, <1>3, <1>4, <1>5, <1>6

LEMMA HeldInit == Init => HeldInv
  BY DEF Init, InitDir, InitCompactor, HeldInv

(* Only a file that gets its name changes what files hold. *)
LEMMA HeldNext ==
  ASSUME TypeOK, HeldInv, [Next]_vars
  PROVE  HeldInv'
<1>1. CASE \E s \in Session : EditStep(s)
  <2>1. UNCHANGED <<content, nextFile, merged>>
    BY <1>1 DEF EditStep, Write, dirVars, SessionStep, compactorVars
  <2> QED
    BY <2>1 DEF HeldInv, Written
<1>2. CASE \A s \in Session : ~EditStep(s)
  <2>1. \A c \in Compactor :
          \/ merged'[c] \in {merged[c], {}}
          \/ \E f \in File : merged'[c] = MergeOps(merged[c], content[f])
    BY <1>2, OpsMove
  <2>2. \A f \in File : f >= nextFile' => content'[f] = {}
    <3>1. \A f \in File : f >= nextFile' => f >= nextFile
      BY DirFrame, FileType, WalDirAssumption DEF TypeOK, DirTypeOK
    <3> QED
      BY <3>1, DirFrame DEF HeldInv
  <2>3. Written \subseteq Written'
    <3>1. \A f \in File : f < nextFile => content'[f] = content[f]
      BY DirFrame
    <3>2. \A f \in File : f < nextFile \/ f >= nextFile
      BY FileType, WalDirAssumption DEF TypeOK, DirTypeOK
    <3>3. \A f \in File : content[f] # {} => content'[f] = content[f]
      BY <3>1, <3>2 DEF HeldInv
    <3> QED
      BY <3>3 DEF Written
  <2>4. \A c \in Compactor, f \in File :
          /\ MergeOps(merged[c], content[f]) \subseteq merged[c] \cup content[f]
          /\ content[f] \subseteq Written
    BY MergeIsMinimal DEF Written
  <2>5. \A c \in Compactor : merged'[c] \subseteq Written'
    BY <2>1, <2>3, <2>4 DEF HeldInv
  <2> QED
    BY <2>2, <2>5 DEF HeldInv
<1> QED
  BY <1>1, <1>2

THEOREM HeldInvariant == Spec => []HeldInv
  BY DurabilityInvariant, HeldInit, HeldNext, PTL DEF Spec

(* An edit issues its ops, with the id it drew; no other step issues any. *)
LEMMA EditIssues ==
  ASSUME TypeOK, NEW s \in Session, EditStep(s)
  PROVE  \E tx \in Tx, e \in Entity, fields \in FieldLists :
           LET ops == Transaction(tx, e, fields, UserOf[s])
           IN  /\ NextTx(s, tx)
               /\ Issued' \subseteq Issued \cup ops
<1>1. PICK e \in Entity, fields \in FieldLists : Write(s, e, fields)
  BY DEF EditStep
<1>2. PICK tx \in Tx :
        LET ops == Transaction(tx, e, fields, UserOf[s])
        IN  NextTx(s, tx) /\ own' = [own EXCEPT ![s] = @ \cup ops]
  BY <1>1 DEF Write
<1> DEFINE ops == Transaction(tx, e, fields, UserOf[s])
<1>3. /\ UNCHANGED content
      /\ own'[s] = own[s] \cup ops /\ \A t \in Session \ {s} : own'[t] = own[t]
  BY <1>1, <1>2 DEF Write, dirVars, TypeOK
<1> HIDE DEF ops
<1>4. Issued' \subseteq Issued \cup ops
  BY <1>3, IssuedMembers
<1> QED
  BY <1>2, <1>4 DEF ops

LEMMA OthersIssueNothing ==
  ASSUME TypeOK, SessionInv, HeldInv, [Next]_vars, \A s \in Session : ~EditStep(s)
  PROVE  Issued' \subseteq Issued
<1>1. /\ \A f \in File : \/ content'[f] = content[f]
                         \/ \E s \in Session : content'[f] = outbox[s]
                         \/ \E c \in Compactor : content'[f] = merged[c]
      /\ \A s \in Session : own'[s] \in {own[s], {}}
  BY OpsMove
<1>2. /\ \A f \in File : content[f] \subseteq Issued
      /\ \A s \in Session : own[s] \subseteq Issued /\ outbox[s] \subseteq Issued
      /\ \A c \in Compactor : merged[c] \subseteq Issued
  BY HeldIsIssued DEF HeldInv
<1>3. \A f \in File : content'[f] \subseteq Issued
  BY <1>1, <1>2
<1>4. \A s \in Session : own'[s] \subseteq Issued
  BY <1>1, <1>2
<1> QED
  BY <1>3, <1>4, IssuedMembers

(* Nothing is written. *)
LEMMA TransactionInit == Init => TransactionInv
  BY DEF Init, InitDir, InitStore, InitCompactor, TransactionInv, IsWhole

(* An edit: its ops have an id nobody has used, and come all together. *)
LEMMA WriteKeepsWhole ==
  ASSUME TypeOK, SessionInv, HeldInv, TransactionInv, ~TxCollides,
         NEW s \in Session, NEW e \in Entity, NEW fields \in FieldLists,
         Write(s, e, fields), SessionStep(s)
  PROVE  TransactionInv'
<1>1. PICK tx \in Tx :
        LET ops == Transaction(tx, e, fields, UserOf[s])
        IN  /\ NextTx(s, tx)
            /\ current' = [current EXCEPT ![s] = MergeOps(@, ops)]
            /\ outbox' = [outbox EXCEPT ![s] = @ \cup ops]
            /\ own' = [own EXCEPT ![s] = @ \cup ops]
  BY DEF Write
<1> DEFINE ops == Transaction(tx, e, fields, UserOf[s])
<1>2. /\ UNCHANGED <<content, nextFile, batch, merged>>
      /\ current'[s] = MergeOps(current[s], ops)
      /\ outbox'[s] = outbox[s] \cup ops
      /\ own'[s] = own[s] \cup ops
      /\ \A t \in Session \ {s} : /\ current'[t] = current[t]
                                  /\ outbox'[t] = outbox[t] /\ own'[t] = own[t]
  BY <1>1 DEF Write, dirVars, SessionStep, compactorVars, TypeOK
<1>3. ops \in SUBSET Op /\ \A o \in ops : o.tx = tx
  BY TransactionOps DEF Transaction
<1>4. \A o \in Issued : o.tx # tx
  BY <1>1 DEF NextTx
<1> HIDE DEF ops
<1>5. Issued' \subseteq Issued \cup ops
  BY <1>2, IssuedMembers
<1>6. Issued' \in SUBSET Op
  BY <1>3, <1>5, HeldIsIssued
<1>7. ASSUME NEW X, X \subseteq Issued, IsWhole(X, Issued)
      PROVE  IsWhole(X, Issued')
  BY <1>3, <1>4, <1>5, <1>7, WholeStays
<1>8. IsWhole(ops, Issued')
  <2>1. SUFFICES ASSUME NEW o \in ops, NEW p \in Issued', p.tx = o.tx, p.ent = o.ent
                 PROVE  HasNewer(ops, p)
    BY DEF IsWhole
  <2>2. p \in ops /\ p.tx >= p.tx
    <3>1. p \in ops
      BY <1>3, <1>4, <1>5, <2>1
    <3>2. p.tx \in Int
      BY <1>3, <3>1, EavcAssumption DEF Op, Tx
    <3> QED
      BY <3>1, <3>2
  <2> QED
    BY <2>2 DEF HasNewer
<1>9. /\ \A f \in File : IsWhole(content[f], Issued')
      /\ \A c \in Compactor : IsWhole(merged[c], Issued')
      /\ \A t \in Session : /\ IsWhole(current[t], Issued')
                            /\ IsWhole(outbox[t], Issued')
                            /\ IsWhole(batch[t], Issued')
  <2>1. /\ \A f \in File : content[f] \subseteq Issued
        /\ \A c \in Compactor : merged[c] \subseteq Issued
        /\ \A t \in Session : /\ current[t] \subseteq Issued
                              /\ outbox[t] \subseteq Issued
                              /\ batch[t] \subseteq Issued
    BY HeldIsIssued DEF HeldInv
  <2>2. \A f \in File : IsWhole(content[f], Issued')
    BY <1>7, <2>1 DEF TransactionInv
  <2>3. \A c \in Compactor : IsWhole(merged[c], Issued')
    BY <1>7, <2>1 DEF TransactionInv
  <2>4. ASSUME NEW t \in Session
        PROVE  /\ IsWhole(current[t], Issued')
               /\ IsWhole(outbox[t], Issued')
               /\ IsWhole(batch[t], Issued')
    <3>1. /\ IsWhole(current[t], Issued) /\ IsWhole(outbox[t], Issued)
          /\ IsWhole(batch[t], Issued)
      BY DEF TransactionInv
    <3> QED
      BY <1>7, <2>1, <3>1
  <2> QED
    BY <2>2, <2>3, <2>4
<1>10. IsWhole(current'[s], Issued') /\ IsWhole(outbox'[s], Issued')
  <2>1. current[s] \in SUBSET Op /\ outbox[s] \in SUBSET Op
    BY DEF TypeOK
  <2>2. IsWhole(current[s], Issued') /\ IsWhole(outbox[s], Issued')
    BY <1>9
  <2>3. ops \in SUBSET Op
    BY <1>3
  <2>4. /\ IsWhole(MergeOps(current[s], ops), Issued')
        /\ IsWhole(outbox[s] \cup ops, Issued')
    BY <1>6, <1>8, <2>1, <2>2, <2>3, WholeMerge
  <2> QED
    BY <1>2, <2>4
<1>11. \A t \in Session : /\ IsWhole(current'[t], Issued')
                          /\ IsWhole(outbox'[t], Issued')
                          /\ IsWhole(batch'[t], Issued')
  BY <1>2, <1>9, <1>10
<1> QED
  BY <1>2, <1>9, <1>11 DEF TransactionInv

(* Any other step: nothing new is issued, and whole sets are moved whole. *)
LEMMA MovesKeepWhole ==
  ASSUME TypeOK, SessionInv, HeldInv, TransactionInv, [Next]_vars,
         \A s \in Session : ~EditStep(s)
  PROVE  TransactionInv'
<1>1. /\ \A f \in File : \/ content'[f] = content[f]
                         \/ \E s \in Session : content'[f] = outbox[s]
                         \/ \E c \in Compactor : content'[f] = merged[c]
      /\ \A s \in Session :
           /\ own'[s] \in {own[s], {}}
           /\ outbox'[s] \in {outbox[s], {}}
           /\ current'[s] \in {current[s], {}, MergeOps(current[s], batch[s])}
           /\ \/ batch'[s] \in {batch[s], {}}
              \/ \E f \in File : batch'[s] = batch[s] \cup content[f]
      /\ \A c \in Compactor :
           \/ merged'[c] \in {merged[c], {}}
           \/ \E f \in File : merged'[c] = MergeOps(merged[c], content[f])
  BY OpsMove
<1>2. /\ Issued \in SUBSET Op
      /\ \A f \in File : content[f] \subseteq Issued
      /\ \A s \in Session : own[s] \subseteq Issued /\ outbox[s] \subseteq Issued
      /\ \A c \in Compactor : merged[c] \subseteq Issued
  BY HeldIsIssued DEF HeldInv
<1>3. Issued' \subseteq Issued
  BY OthersIssueNothing
<1>4. /\ \A f \in File : content[f] \in SUBSET Op
      /\ \A c \in Compactor : merged[c] \in SUBSET Op
      /\ \A s \in Session : current[s] \in SUBSET Op /\ batch[s] \in SUBSET Op
  BY DEF TypeOK, DirTypeOK
<1>5. \A X : IsWhole(X, Issued) => IsWhole(X, Issued')
  BY <1>3 DEF IsWhole
<1>6. IsWhole({}, Issued)
  BY DEF IsWhole
<1>7. \A f \in File : IsWhole(content'[f], Issued')
  BY <1>1, <1>5 DEF TransactionInv
<1>8. ASSUME NEW s \in Session
      PROVE  /\ IsWhole(current'[s], Issued')
             /\ IsWhole(outbox'[s], Issued')
             /\ IsWhole(batch'[s], Issued')
  <2>1. IsWhole(MergeOps(current[s], batch[s]), Issued)
    BY <1>2, <1>4, WholeMerge DEF TransactionInv
  <2>2. \A f \in File : IsWhole(batch[s] \cup content[f], Issued)
    BY <1>2, <1>4, WholeMerge DEF TransactionInv
  <2>3. /\ IsWhole(current[s], Issued) /\ IsWhole(outbox[s], Issued)
        /\ IsWhole(batch[s], Issued)
    BY DEF TransactionInv
  <2>4. IsWhole(current'[s], Issued)
    BY <1>1, <1>6, <2>1, <2>3
  <2>5. IsWhole(outbox'[s], Issued)
    BY <1>1, <1>6, <2>3
  <2>6. IsWhole(batch'[s], Issued)
    BY <1>1, <1>6, <2>2, <2>3
  <2> QED
    BY <1>5, <2>4, <2>5, <2>6
<1>9. ASSUME NEW c \in Compactor
      PROVE  IsWhole(merged'[c], Issued')
  <2>1. \A f \in File : IsWhole(MergeOps(merged[c], content[f]), Issued)
    BY <1>2, <1>4, WholeMerge DEF TransactionInv
  <2>2. IsWhole(merged[c], Issued)
    BY DEF TransactionInv
  <2>3. IsWhole(merged'[c], Issued)
    <3>1. \/ merged'[c] \in {merged[c], {}}
          \/ \E f \in File : merged'[c] = MergeOps(merged[c], content[f])
      BY <1>1
    <3> QED
      BY ONLY <1>6, <2>1, <2>2, <3>1
  <2> QED
    BY <1>5, <2>3
<1> QED
  BY <1>7, <1>8, <1>9 DEF TransactionInv

(* Every set of ops stays whole, if no two sessions draw the same id. *)
THEOREM TransactionInvariant ==
  ASSUME ~TxCollides
  PROVE  Spec => []TransactionInv
<1>1. TypeOK /\ SessionInv /\ HeldInv /\ TransactionInv /\ [Next]_vars => TransactionInv'
  <2> SUFFICES ASSUME TypeOK, SessionInv, HeldInv, TransactionInv, [Next]_vars
               PROVE  TransactionInv'
    OBVIOUS
  <2>1. CASE \E s \in Session : EditStep(s)
    BY <2>1, WriteKeepsWhole DEF EditStep
  <2> QED
    BY <2>1, MovesKeepWhole
<1> QED
  BY <1>1, DurabilityInvariant, SessionInvariant, HeldInvariant, TransactionInit, PTL DEF Spec

(* A session that shows one op of a transaction shows, for every other
   field it set, that value or a newer one (eavc.rs `transaction`), if no
   two sessions draw the same transaction id. *)
THEOREM TransactionsAreWhole ==
  ASSUME ~TxCollides
  PROVE  Spec => []TransactionsWhole
<1>1. TransactionInv => TransactionsWhole
  BY DEF TransactionInv, IsWhole, HasNewer, TransactionsWhole
<1> QED
  BY <1>1, TransactionInvariant, PTL

-----------------------------------------------------------------------------
(***************************************************************************)
(* What a listed file that is gone held (MissingIsKept).  Until a process  *)
(* crashes, every op that was ever written to a file is in the outbox of   *)
(* its session, or in a file that parses and that nobody is about to       *)
(* discard: the outbox is emptied only when such a file is there, and what *)
(* a compactor removes is carried by a later file.                         *)
(***************************************************************************)
Sturdy(f) == disk[f] = "whole" /\ \A p \in Proc : ~Discards(p, f)

Kept(o) ==
  \/ \E f \in File : Sturdy(f) /\ Covers(content[f], o)
  \/ \E w \in Session : o \in outbox[w]

KeptInv ==
  crashes = 0 =>
    /\ \A f \in File : \A o \in content[f] : Kept(o)
    /\ \A c \in Compactor : \A o \in merged[c] : Kept(o)

(* write_verified removes no file that parses, but those it is discarding,
   and it discards only what did not parse. *)
LEMMA WriteStepFate ==
  ASSUME TypeOK, DurabilityInv, NEW p \in Proc, WriteStep(p),
         NEW f \in File, Sturdy(f)
  PROVE  disk'[f] = "whole" /\ \A q \in Proc : ~Discards(q, f)'
<1>1. pc[p] = "renaming" => disk[wfile[p]] = "temp"
  BY DEF DurabilityInv, OneWriter
<1>2. \A q \in Proc \ {p} : pc'[q] = pc[q] /\ wfile'[q] = wfile[q]
  BY WriteStepType
<1>3. disk'[f] = "whole" /\ ~Discards(p, f)'
  <2> USE DEF TypeOK, DirTypeOK, Sturdy, Discards, Goto
  <2>1. CASE Rename(p)
    BY <1>1, <2>1 DEF Rename
  <2>2. CASE RenameFails(p)
    BY <1>1, <2>2 DEF RenameFails
  <2>3. CASE VerifyUnreadable(p)
    BY <2>3 DEF VerifyUnreadable
  <2>4. CASE VerifyMismatch(p)
    BY <2>4 DEF VerifyMismatch
  <2>5. CASE Discard(p)
    BY <2>5 DEF Discard
  <2> QED
    BY <2>1, <2>2, <2>3, <2>4, <2>5 DEF WriteStep
<1> QED
  BY <1>2, <1>3 DEF Sturdy, Discards

(* A sturdy file stays sturdy, or a compactor that has its content carried
   removes it. *)
LEMMA SturdyFate ==
  ASSUME TypeOK, DurabilityInv, [Next]_vars, NEW f \in File, Sturdy(f)
  PROVE  Sturdy(f)' \/ disk'[f] = "gone"
<1>0. f < nextFile /\ nextFile \in Nat /\ f \in Nat
  BY TakenName, WalDirAssumption, FileType DEF DurabilityInv, Sturdy, TypeOK, DirTypeOK
<1>1. /\ disk \in [File -> Status] /\ pc \in [Proc -> PC]
      /\ wfile \in [Proc -> File \cup {NoFile}]
  BY DEF TypeOK, DirTypeOK
<1>2. ASSUME NEW p \in Proc, NEW ops, WriteTemp(p, ops)
      PROVE  Sturdy(f)'
  BY <1>0, <1>1, <1>2 DEF WriteTemp, Goto, Sturdy, Discards
<1>3. ASSUME UNCHANGED <<disk, wfile>>, NEW p \in Proc, NEW l, pc' = [pc EXCEPT ![p] = l],
             l # "discarding"
      PROVE  Sturdy(f)'
  BY <1>1, <1>3 DEF Sturdy, Discards
<1>4. ASSUME UNCHANGED <<disk, wfile, pc>>
      PROVE  Sturdy(f)'
  BY <1>4 DEF Sturdy, Discards
<1>5. ASSUME NEW p \in Proc, WriteStep(p)
      PROVE  Sturdy(f)'
  BY <1>5, WriteStepFate DEF Sturdy
<1>6. ASSUME NEW p \in Proc, UNCHANGED disk, wfile' = [wfile EXCEPT ![p] = NoFile],
             NEW l, pc' = [pc EXCEPT ![p] = l], l # "discarding"
      PROVE  Sturdy(f)'
  BY <1>1, <1>6 DEF Sturdy, Discards
<1> HIDE DEF Sturdy
<1> USE DEF Goto
<1>7. ASSUME NEW s \in Session, SessionStep(s)
      PROVE  Sturdy(f)'
  <2>0. s \in Proc
    BY DEF Proc
  <2>1. ASSUME NEW e \in Entity, NEW fields \in FieldLists, Write(s, e, fields)
        PROVE  Sturdy(f)'
    BY <1>4, <2>1 DEF Write, dirVars
  <2>2. CASE Flush(s)
    BY <1>2, <2>0, <2>2 DEF Flush
  <2>3. CASE FlushStep(s)
    BY <1>5, <2>0, <2>3 DEF FlushStep
  <2>4. CASE FlushOk(s)
    BY <1>6, <2>0, <2>4 DEF FlushOk, VerifyOk
  <2>5. CASE SyncList(s)
    BY <1>3, <2>0, <2>5 DEF SyncList, List
  <2>6. ASSUME NEW g \in File, SyncRead(s, g)
        PROVE  Sturdy(f)'
    BY <1>4, <2>6 DEF SyncRead, TakeListed, ReadsWhole, ReadsMissing, ReadsBad
  <2>7. CASE SyncApply(s)
    BY <1>3, <2>0, <2>7 DEF SyncApply
  <2>8. CASE Crash(s)
    BY <1>6, <2>0, <2>8 DEF Crash, Die
  <2> QED
    BY <1>7, <2>1, <2>2, <2>3, <2>4, <2>5, <2>6, <2>7, <2>8
       DEF SessionStep, NextStore, SyncStep
<1>8. ASSUME NEW c \in Compactor, CompactorStep(c)
      PROVE  Sturdy(f)' \/ disk'[f] = "gone"
  <2>0. c \in Proc
    BY DEF Proc
  <2>1. CASE CompactList(c)
    BY <1>3, <2>0, <2>1 DEF CompactList, List
  <2>2. ASSUME NEW g \in File, CompactRead(c, g)
        PROVE  Sturdy(f)'
    BY <1>4, <2>2 DEF CompactRead, TakeListed, ReadsWhole, ReadsMissing, ReadsBad
  <2>3. CASE CompactNothing(c)
    BY <1>3, <2>0, <2>3 DEF CompactNothing
  <2>4. CASE CompactNoOps(c)
    BY <1>3, <2>0, <2>4 DEF CompactNoOps
  <2>5. CASE CompactWrite(c)
    BY <1>2, <2>0, <2>5 DEF CompactWrite
  <2>6. CASE CompactWriteStep(c)
    BY <1>5, <2>0, <2>6 DEF CompactWriteStep
  <2>7. CASE CompactVerified(c)
    BY <1>6, <2>0, <2>7 DEF CompactVerified, VerifyOk
  <2>8. ASSUME NEW g \in File, CompactDelete(c, g)
        PROVE  Sturdy(f)' \/ disk'[f] = "gone"
    <3>1. UNCHANGED <<wfile, pc>> /\ (disk'[f] = disk[f] \/ disk'[f] = "gone")
      BY <1>1, <2>8 DEF CompactDelete
    <3> QED
      BY <3>1 DEF Sturdy, Discards
  <2>9. CASE CompactDone(c)
    BY <1>3, <2>0, <2>9 DEF CompactDone
  <2> QED
    BY <1>8, <2>1, <2>2, <2>3, <2>4, <2>5, <2>6, <2>7, <2>8, <2>9
       DEF CompactorStep, NextCompactor, CompactStep
<1>9. ASSUME NEW c \in Compactor, CompactorCrash(c)
      PROVE  Sturdy(f)'
  BY <1>6, <1>9 DEF CompactorCrash, CompactDie, Die, Proc
<1>10. ASSUME NEW g \in File, FileArrives(g)
      PROVE  Sturdy(f)'
  BY <1>1, <1>10 DEF FileArrives, Land, Sturdy, Discards
<1>11. CASE UNCHANGED vars
  BY <1>4, <1>11 DEF vars, dirVars
<1> QED
  BY <1>7, <1>8, <1>9, <1>10, <1>11 DEF Next

(* What a sturdy file covers, a sturdy file covers after the step. *)
LEMMA SturdyCoverStays ==
  ASSUME TypeOK, DurabilityInv, [Next]_vars,
         NEW f \in File, Sturdy(f), NEW o \in Op, Covers(content[f], o)
  PROVE  (\E g \in File : Sturdy(g) /\ Covers(content[g], o))'
<1>0. /\ File \subseteq Nat /\ nextFile \in Nat /\ content \in [File -> SUBSET Op]
      /\ verified \subseteq File
  BY WalDirAssumption, FileType DEF TypeOK, DirTypeOK
<1>1. CASE Sturdy(f)'
  <2>1. f < nextFile
    BY <1>0 DEF DurabilityInv, NamesInOrder, Sturdy
  <2>2. content'[f] = content[f]
    BY <2>1, DirFrame
  <2> QED
    BY <1>1, <2>2
<1>2. CASE disk'[f] = "gone"
  <2>1. /\ Carried(f)
        /\ \A h \in File \ {f} : disk'[h] = disk[h]
        /\ UNCHANGED <<content, verified>>
    BY <1>2, RemoverCarries DEF Listed, Sturdy
  <2>2. PICK p \in content[f] : p = o \/ Supersedes(p, o)
    BY DEF Covers
  <2>3. PICK h \in verified : h > f /\ disk[h] = "whole" /\ Covers(content[h], p)
    BY <2>1, CarriedIsOffered
  <2>4. h \in File /\ h # f /\ p \in Op /\ content[h] \in SUBSET Op /\ {p} \in SUBSET Op
    BY <1>0, <2>3
  <2>5. Covers({p}, o)
    BY <2>2 DEF Covers
  <2>6. \A q \in {p} : Covers(content[h], q)
    BY <2>3
  <2>7. Covers(content[h], o)
    BY <2>4, <2>5, <2>6, CoversTransitive
  <2>8. \A q \in Proc : wfile'[q] \notin verified'
    BY DurabilityNext DEF DurabilityInv, OneWriter
  <2>9. Sturdy(h)'
    BY <2>1, <2>3, <2>4, <2>8 DEF Sturdy, Discards
  <2> QED
    BY <2>1, <2>4, <2>7, <2>9
<1> QED
  BY <1>1, <1>2, SturdyFate

(* A session that does not crash drops from its outbox only what is in the
   file it has just verified. *)
LEMMA OutboxFate ==
  ASSUME TypeOK, [Next]_vars, crashes' = crashes, NEW s \in Session
  PROVE  outbox[s] \subseteq outbox'[s] \/ FlushOk(s)
<1>1. CASE ~SessionStep(s)
  BY <1>1, OthersFrame
<1>2. CASE SessionStep(s)
  <2>0. s \in Proc
    BY DEF Proc
  <2>1. ASSUME NEW e \in Entity, NEW fields \in FieldLists, Write(s, e, fields)
        PROVE  outbox[s] \subseteq outbox'[s]
    BY <2>1 DEF Write, TypeOK
  <2>2. ~Crash(s)
    BY DEF Crash, TypeOK
  <2> QED
    BY <1>2, <2>1, <2>2
       DEF SessionStep, NextStore, SyncStep, Flush, FlushStep, SyncList, SyncRead,
           SyncApply, storeVars
<1> QED
  BY <1>1, <1>2

(* What is kept stays kept. *)
LEMMA KeptStays ==
  ASSUME TypeOK, DurabilityInv, SessionInv, [Next]_vars, crashes' = crashes,
         NEW o \in Op, Kept(o)
  PROVE  Kept(o)'
<1>1. ASSUME NEW f \in File, Sturdy(f), Covers(content[f], o)
      PROVE  Kept(o)'
  BY <1>1, SturdyCoverStays DEF Kept
<1>2. ASSUME NEW w \in Session, o \in outbox[w], FlushOk(w)
      PROVE  Kept(o)'
  <2>1. PICK g \in File : g = wfile[w] /\ g # NoFile /\ disk[g] = "whole"
    BY <1>2 DEF FlushOk, VerifyOk, Proc, TypeOK, DirTypeOK
  <2>2. content[g] = outbox[w] /\ w \in Proc
    BY <2>1 DEF SessionInv, OwnIsKept, Proc
  <2>3. /\ UNCHANGED <<disk, content>>
        /\ pc'[w] = "idle" /\ \A p \in Proc \ {w} : wfile'[p] = wfile[p]
    BY <1>2, <2>2 DEF FlushOk, VerifyOk, Goto, TypeOK, DirTypeOK
  <2>4. \A p \in Proc \ {w} : wfile[p] # g
    BY <2>1, <2>2 DEF DurabilityInv, OneWriter
  <2>5. Sturdy(g)'
    BY <2>1, <2>3, <2>4 DEF Sturdy, Discards
  <2> QED
    BY <1>2, <2>1, <2>2, <2>3, <2>5, MemberCovers DEF Kept
<1>3. ASSUME NEW w \in Session, o \in outbox[w], ~FlushOk(w)
      PROVE  Kept(o)'
  BY <1>3, OutboxFate DEF Kept
<1> QED
  BY <1>1, <1>2, <1>3 DEF Kept

(* Nothing is written before the first step. *)
LEMMA KeptInit == Init => KeptInv
  BY DEF Init, InitDir, InitCompactor, KeptInv

(* What a step writes to a file or adds to a merge was in an outbox, in a
   merge or in a file. *)
LEMMA KeptNext ==
  ASSUME TypeOK, DurabilityInv, SessionInv, KeptInv, [Next]_vars
  PROVE  KeptInv'
<1> SUFFICES ASSUME crashes' = 0
             PROVE  /\ \A f \in File : \A o \in content'[f] : Kept(o)'
                    /\ \A c \in Compactor : \A o \in merged'[c] : Kept(o)'
  BY DEF KeptInv
<1>0. /\ content \in [File -> SUBSET Op] /\ merged \in [Compactor -> SUBSET Op]
      /\ outbox \in [Session -> SUBSET Op]
  BY DEF TypeOK, DirTypeOK
<1>1. crashes = 0 /\ crashes' = crashes
  <2>1. crashes \in Nat
    BY StoreAssumption DEF TypeOK
  <2> QED
    BY <2>1, DirFrame
<1>2. /\ \A f \in File : \A o \in content[f] : Kept(o)
      /\ \A c \in Compactor : \A o \in merged[c] : Kept(o)
      /\ \A s \in Session : \A o \in outbox[s] : Kept(o)
  BY <1>1 DEF KeptInv, Kept
<1>3. \A o \in Op : Kept(o) => Kept(o)'
  BY <1>1, KeptStays
<1>4. /\ \A f \in File : \A o \in content[f] : Kept(o)'
      /\ \A c \in Compactor : \A o \in merged[c] : Kept(o)'
      /\ \A s \in Session : \A o \in outbox[s] : Kept(o)'
  BY <1>0, <1>2, <1>3
<1>5. CASE \E s \in Session : EditStep(s)
  <2>1. UNCHANGED <<content, merged>>
    BY <1>5 DEF EditStep, SessionStep, Write, dirVars, compactorVars
  <2> QED
    BY <1>4, <2>1
<1>6. CASE ~ \E s \in Session : EditStep(s)
  <2>1. \A f \in File : \/ content'[f] = content[f]
                        \/ \E s \in Session : content'[f] = outbox[s]
                        \/ \E c \in Compactor : content'[f] = merged[c]
    BY <1>6, OpsMove
  <2>2. \A c \in Compactor : \/ merged'[c] \subseteq merged[c]
                             \/ \E f \in File : merged'[c] \subseteq merged[c] \cup content[f]
    BY <1>6, OpsMove DEF MergeOps, Winners
  <2> QED
    BY <1>4, <2>1, <2>2
<1> QED
  BY <1>5, <1>6

(* Until a process crashes, nothing written to a file is ever out of reach. *)
THEOREM KeptInvariant == Spec => []KeptInv
<1>1. TypeOK /\ DurabilityInv /\ SessionInv /\ KeptInv /\ [Next]_vars => KeptInv'
  BY KeptNext
<1> QED
  BY <1>1, KeptInit, DurabilityInvariant, SessionInvariant, PTL DEF Spec

(* A reader may pass over a listed file that is gone: what it held is in a
   file that parses, or its session will flush it again (wal.rs `WalReader`). *)
THEOREM MissingMayBeSkipped == Spec => [](crashes = 0 => MissingIsKept)
<1>1. ASSUME TypeOK, KeptInv, crashes = 0
      PROVE  MissingIsKept
  <2>1. ASSUME NEW f \in File, NEW o \in content[f]
        PROVE  Covers(DiskOps, o) \/ \E w \in Session : o \in outbox[w]
    <3>1. Kept(o)
      BY <1>1 DEF KeptInv
    <3>2. ASSUME NEW g \in File, Sturdy(g), Covers(content[g], o)
          PROVE  Covers(DiskOps, o)
      <4>1. content[g] \subseteq DiskOps
        BY <3>2 DEF Sturdy, DiskOps, WholeFiles
      <4> QED
        BY <3>2, <4>1, CoversMonotone
    <3> QED
      BY <3>1, <3>2 DEF Kept
  <2>2. \A s \in Session : todo[s] \subseteq File
    BY <1>1 DEF TypeOK, DirTypeOK, Proc
  <2> QED
    BY <2>1, <2>2 DEF MissingIsKept
<1>2. TypeOK /\ KeptInv => (crashes = 0 => MissingIsKept)
  BY <1>1
<1> QED
  BY <1>2, KeptInvariant, DurabilityInvariant, PTL

-----------------------------------------------------------------------------
(***************************************************************************)
(* Convergence.  Without a fault no file is ever bad and nobody discards   *)
(* one, so whatever a session has read some readable file still covers;    *)
(* and after faults KeptInv says the same once nothing is owed.  Two       *)
(* settled sessions then cover each other, and neither holds an op that    *)
(* another of its ops supersedes.                                          *)
(***************************************************************************)
NoBadFiles ==
  /\ \A f \in File : disk[f] # "torn"
  /\ \A p \in Proc : pc[p] # "discarding"

Readable(o) == \E g \in File : Sturdy(g) /\ Covers(content[g], o)

FaultlessInv ==
  faults = 0 =>
    /\ NoBadFiles
    /\ \A s \in Session : \A f \in processed[s] : \A o \in content[f] : Readable(o)

(* A file is found without a fault, and nobody has read one yet. *)
LEMMA FaultlessInit == Init => FaultlessInv
  BY DEF Init, InitDir, InitStore, FaultlessInv, NoBadFiles

(* A file becomes bad by a fault only. *)
LEMMA NoBadFilesStep ==
  ASSUME TypeOK, NoBadFiles, [Next]_vars, faults' = faults
  PROVE  NoBadFiles'
<1>1. /\ disk \in [File -> Status] /\ pc \in [Proc -> PC]
      /\ faults \in Nat
      /\ \A p \in Proc : wfile[p] \in File \cup {NoFile}
  BY WalDirAssumption DEF TypeOK, DirTypeOK
<1>2. ASSUME NEW p \in Proc, NEW ops, WriteTemp(p, ops)
      PROVE  NoBadFiles'
  BY <1>1, <1>2 DEF WriteTemp, Goto, NoBadFiles
<1>3. ASSUME UNCHANGED disk, NEW p \in Proc, NEW l, pc' = [pc EXCEPT ![p] = l],
             l # "discarding"
      PROVE  NoBadFiles'
  BY <1>1, <1>3 DEF NoBadFiles
<1>4. ASSUME UNCHANGED <<disk, pc>>
      PROVE  NoBadFiles'
  BY <1>4 DEF NoBadFiles
<1>5. ASSUME NEW p \in Proc, WriteStep(p)
      PROVE  NoBadFiles'
  <2>0. wfile[p] \in File
    BY <1>1, <1>5 DEF WriteStep, Rename, RenameFails, VerifyUnreadable, VerifyMismatch,
                      Discard, TypeOK
  <2> USE <1>1, <2>0 DEF NoBadFiles, Goto, Fault
  <2>1. CASE Rename(p)
    BY <2>1 DEF Rename
  <2>2. CASE RenameFails(p)
    BY <2>2 DEF RenameFails
  <2>3. CASE VerifyUnreadable(p)
    BY <2>3 DEF VerifyUnreadable
  <2>4. CASE VerifyMismatch(p)
    BY <2>4 DEF VerifyMismatch
  <2>5. CASE Discard(p)
    BY <2>5 DEF Discard
  <2> QED
    BY <1>5, <2>1, <2>2, <2>3, <2>4, <2>5 DEF WriteStep
<1> USE DEF Goto
<1>7. ASSUME NEW s \in Session, SessionStep(s)
      PROVE  NoBadFiles'
  <2>0. s \in Proc
    BY DEF Proc
  <2>1. ASSUME NEW e \in Entity, NEW fields \in FieldLists, Write(s, e, fields)
        PROVE  NoBadFiles'
    BY <1>4, <2>1 DEF Write, dirVars
  <2>2. CASE Flush(s)
    BY <1>2, <2>0, <2>2 DEF Flush
  <2>3. CASE FlushStep(s)
    BY <1>5, <2>0, <2>3 DEF FlushStep
  <2>4. CASE FlushOk(s)
    BY <1>3, <2>0, <2>4 DEF FlushOk, VerifyOk
  <2>5. CASE SyncList(s)
    BY <1>3, <2>0, <2>5 DEF SyncList, List
  <2>6. ASSUME NEW g \in File, SyncRead(s, g)
        PROVE  NoBadFiles'
    BY <1>4, <2>6 DEF SyncRead, TakeListed
  <2>7. CASE SyncApply(s)
    BY <1>3, <2>0, <2>7 DEF SyncApply
  <2>8. CASE Crash(s)
    BY <1>3, <2>0, <2>8 DEF Crash, Die
  <2> QED
    BY <1>7, <2>1, <2>2, <2>3, <2>4, <2>5, <2>6, <2>7, <2>8
       DEF SessionStep, NextStore, SyncStep
<1>8. ASSUME NEW c \in Compactor, CompactorStep(c)
      PROVE  NoBadFiles'
  <2>0. c \in Proc
    BY DEF Proc
  <2>1. CASE CompactList(c)
    BY <1>3, <2>0, <2>1 DEF CompactList, List
  <2>2. ASSUME NEW g \in File, CompactRead(c, g)
        PROVE  NoBadFiles'
    BY <1>4, <2>2 DEF CompactRead, TakeListed
  <2>3. CASE CompactNothing(c)
    BY <1>3, <2>0, <2>3 DEF CompactNothing
  <2>4. CASE CompactNoOps(c)
    BY <1>3, <2>0, <2>4 DEF CompactNoOps
  <2>5. CASE CompactWrite(c)
    BY <1>2, <2>0, <2>5 DEF CompactWrite
  <2>6. CASE CompactWriteStep(c)
    BY <1>5, <2>0, <2>6 DEF CompactWriteStep
  <2>7. CASE CompactVerified(c)
    BY <1>3, <2>0, <2>7 DEF CompactVerified, VerifyOk
  <2>8. ASSUME NEW g \in File, CompactDelete(c, g)
        PROVE  NoBadFiles'
    BY <1>1, <2>8 DEF CompactDelete, NoBadFiles
  <2>9. CASE CompactDone(c)
    BY <1>3, <2>0, <2>9 DEF CompactDone
  <2> QED
    BY <1>8, <2>1, <2>2, <2>3, <2>4, <2>5, <2>6, <2>7, <2>8, <2>9
       DEF CompactorStep, NextCompactor, CompactStep
<1>9. ASSUME NEW c \in Compactor, CompactorCrash(c)
      PROVE  NoBadFiles'
  BY <1>3, <1>9 DEF CompactorCrash, CompactDie, Die, Proc
<1>10. ASSUME NEW g \in File, FileArrives(g)
       PROVE  NoBadFiles'
  BY <1>1, <1>10 DEF FileArrives, Land, NoBadFiles
<1>11. CASE UNCHANGED vars
  BY <1>4, <1>11 DEF vars, dirVars
<1> QED
  BY <1>7, <1>8, <1>9, <1>10, <1>11 DEF Next

(* The files a session has read grow by files that parse. *)
LEMMA ProcessedFate ==
  ASSUME TypeOK, [Next]_vars, NEW s \in Session, NEW f \in processed'[s]
  PROVE  f \in processed[s] \/ (f \in File /\ disk[f] = "whole")
<1>1. CASE ~SessionStep(s)
  BY <1>1, OthersFrame
<1>2. CASE SessionStep(s)
  <2>1. ASSUME NEW g \in File, SyncRead(s, g)
        PROVE  f \in processed[s] \/ (f \in File /\ disk[f] = "whole")
    BY <2>1 DEF SyncRead, ReadsWhole, TypeOK
  <2>2. CASE Crash(s)
    BY <2>2 DEF Crash, TypeOK
  <2> QED
    BY <1>2, <2>1, <2>2
       DEF SessionStep, NextStore, SyncStep, Write, Flush, FlushStep, FlushOk, SyncList,
           SyncApply, storeVars
<1> QED
  BY <1>1, <1>2

(* No step takes away what a session has read, while there is no fault. *)
LEMMA FaultlessNext ==
  ASSUME TypeOK, DurabilityInv, SessionInv, FaultlessInv, [Next]_vars
  PROVE  FaultlessInv'
<1> SUFFICES ASSUME faults' = 0
             PROVE  /\ NoBadFiles'
                    /\ \A s \in Session : \A f \in processed'[s] :
                         \A o \in content'[f] : Readable(o)'
  BY DEF FaultlessInv
<1>1. faults = 0 /\ faults' = faults
  <2>1. faults \in Nat
    BY WalDirAssumption DEF TypeOK, DirTypeOK
  <2> QED
    BY <2>1, DirFrame
<1>2. NoBadFiles
  BY <1>1 DEF FaultlessInv
<1>3. ASSUME NEW s \in Session, NEW f \in processed'[s], NEW o \in content'[f]
      PROVE  Readable(o)'
  <2>0. /\ content \in [File -> SUBSET Op] /\ File \subseteq Nat /\ nextFile \in Nat
        /\ processed[s] \subseteq File
    BY WalDirAssumption, FileType DEF TypeOK, DirTypeOK
  <2>1. /\ f \in File /\ f < nextFile
        /\ \A p \in content[f] : Readable(p)
    <3>1. CASE f \in processed[s]
      <4>1. f < nextFile
        BY <3>1 DEF SessionInv, ReadIsApplied
      <4> QED
        BY <1>1, <2>0, <3>1, <4>1 DEF FaultlessInv
    <3>2. CASE f \in File /\ disk[f] = "whole"
      <4>1. f < nextFile
        BY <3>2, TakenName DEF DurabilityInv
      <4>2. Sturdy(f)
        BY <1>2, <3>2 DEF Sturdy, Discards, NoBadFiles
      <4> QED
        BY <3>2, <4>1, <4>2, MemberCovers DEF Readable
    <3> QED
      BY <3>1, <3>2, ProcessedFate
  <2>2. content'[f] = content[f]
    BY <2>1, DirFrame
  <2>3. Readable(o) /\ o \in Op
    BY <2>0, <2>1, <2>2
  <2> QED
    BY <2>3, SturdyCoverStays DEF Readable
<1> QED
  BY <1>1, <1>2, <1>3, NoBadFilesStep

(* Without a fault, what a session has read stays readable. *)
THEOREM FaultlessInvariant == Spec => []FaultlessInv
<1>1. TypeOK /\ DurabilityInv /\ SessionInv /\ FaultlessInv /\ [Next]_vars => FaultlessInv'
  BY FaultlessNext
<1> QED
  BY <1>1, FaultlessInit, DurabilityInvariant, SessionInvariant, PTL DEF Spec

(* What a settled session shows, some readable file covers, if it was not
   withdrawn. *)
LEMMA ShownIsReadable ==
  ASSUME TypeOK, DurabilityInv, SessionInv, KeptInv, FaultlessInv,
         NEW s \in Session, Settled(s), NEW o \in current[s], ~Withdrawn(o)
  PROVE  \E g \in File : disk[g] = "whole" /\ Covers(content[g], o)
<1>0. /\ processed[s] \subseteq File /\ verified \subseteq File
      /\ faults \in Nat /\ crashes \in Nat
  BY WalDirAssumption, StoreAssumption DEF TypeOK, DirTypeOK
<1>1. ASSUME o \in own[s]
      PROVE  \E g \in File : disk[g] = "whole" /\ Covers(content[g], o)
  <2>1. PICK f \in verified : o \in content[f]
    BY <1>1 DEF SessionInv, OwnIsKept, Settled
  <2> QED
    BY <1>0, <2>1 DEF DurabilityInv, StillOffered
<1>2. ASSUME NEW f \in processed[s], o \in content[f]
      PROVE  \E g \in File : disk[g] = "whole" /\ Covers(content[g], o)
  <2>1. CASE faults = 0
    BY <1>2, <2>1 DEF FaultlessInv, Readable, Sturdy
  <2>2. CASE crashes = 0 /\ \A w \in Session : o \notin outbox[w]
    BY <1>0, <1>2, <2>2 DEF KeptInv, Kept, Sturdy
  <2>3. CASE Covers(DiskOps, o)
    <3>1. PICK p \in DiskOps : p = o \/ Supersedes(p, o)
      BY <2>3 DEF Covers
    <3>2. PICK g \in WholeFiles : p \in content[g]
      BY <3>1 DEF DiskOps
    <3> QED
      BY <3>1, <3>2 DEF Covers, WholeFiles
  <2> QED
    BY <1>0, <2>1, <2>2, <2>3 DEF Withdrawn
<1>3. o \in own[s] \/ \E f \in processed[s] : o \in content[f]
  BY DEF SessionInv, HoldsItsMerge, ReadBy
<1> QED
  BY <1>1, <1>2, <1>3

(* Sessions converge (README.md "Convergence"): two that have flushed all they
   wrote and read all that is readable show the same, whatever they read before,
   in whatever order, and whatever was compacted meanwhile.  What only one of
   them shows comes from a file whose writer, after a fault, read it back as bad:
   it has the op in its outbox still, or there was a crash. *)
THEOREM SessionsConverge == Spec => []Converged
<1>1. ASSUME TypeOK, DurabilityInv, SessionInv, KeptInv, FaultlessInv
      PROVE  Converged
  <2> USE <1>1
  <2>1. ASSUME NEW s \in Session, NEW t \in Session, Settled(s), Settled(t),
               NEW o \in current[s], ~Withdrawn(o)
        PROVE  Covers(current[t], o)
    <3>1. PICK g \in File : disk[g] = "whole" /\ Covers(content[g], o)
      BY <2>1, ShownIsReadable
    <3>2. g \in processed[t] /\ batch[t] = {}
      BY <2>1, <3>1 DEF Settled, WholeFiles, TypeOK
    <3>3. \A p \in content[g] : Covers(current[t], p)
      <4>1. \A p \in content[g] : Covers(current[t] \cup batch[t], p)
        BY <3>2 DEF SessionInv, ReadIsApplied
      <4>2. current[t] \cup batch[t] = current[t]
        BY <3>2
      <4> QED
        BY <4>1, <4>2
    <3>4. o \in Op /\ content[g] \in SUBSET Op /\ current[t] \in SUBSET Op
      BY DEF TypeOK, DirTypeOK
    <3> QED
      BY <3>1, <3>3, <3>4, CoversTransitive
  <2>2. ASSUME NEW s \in Session, NEW t \in Session, Settled(s), Settled(t),
               NEW o \in current[s] \ current[t], ~Withdrawn(o)
        PROVE  \E p \in current[t] : Supersedes(p, o) /\ Withdrawn(p)
    <3>1. PICK p \in current[t] : Supersedes(p, o)
      BY <2>1, <2>2 DEF Covers
    <3>2. CASE ~Withdrawn(p)
      <4>1. PICK q \in current[s] : q = p \/ Supersedes(q, p)
        BY <2>1, <2>2, <3>2 DEF Covers
      <4>2. /\ o \in Op /\ p \in Op /\ q \in Op
            /\ ~Supersedes(q, o)
        BY DEF TypeOK, SessionInv, HoldsItsMerge
      <4> QED
        BY <3>1, <4>1, <4>2, SupersedesTransitive
    <3> QED
      BY <3>1, <3>2
  <2> QED
    BY <2>2 DEF Converged
<1>2. TypeOK /\ DurabilityInv /\ SessionInv /\ KeptInv /\ FaultlessInv => Converged
  BY <1>1
<1> QED
  BY <1>2, DurabilityInvariant, SessionInvariant, KeptInvariant, FaultlessInvariant, PTL

-----------------------------------------------------------------------------
(***************************************************************************)
(* Walburg implements SharedLog: whatever the files do, it looks as if all *)
(* wrote to one merged log that never goes back.                           *)
(***************************************************************************)

(* SharedLog merges as the files do. *)
LEMMA SameMerge ==
  ASSUME NEW S, NEW O
  PROVE  Log!MergeOps(S, O) = MergeOps(S, O)
  BY DEF Log!MergeOps, Log!Winners, Log!Supersedes, Log!Wins, Log!IsPurge,
         Log!ContentAfter, Log!PURGE, MergeOps, Winners, Supersedes, Wins, IsPurge,
         ContentAfter, PURGE

-----------------------------------------------------------------------------
(* The log never goes back.                                                *)

\* A file in the log: it can be read, and nobody has still to verify it.
Clear(f) == disk[f] = "whole" /\ ~InDoubt(f)

(* No process takes up a file that another began. *)
LEMMA WriterFate ==
  ASSUME TypeOK, DurabilityInv, [Next]_vars, NEW p \in Proc
  PROVE  wfile'[p] \in {wfile[p], NoFile, nextFile}
<1> DEFINE Fate == wfile'[p] \in {wfile[p], NoFile, nextFile}
<1>0. wfile \in [Proc -> File \cup {NoFile}]
  BY DEF TypeOK, DirTypeOK
<1>1. ASSUME UNCHANGED wfile
      PROVE  Fate
  BY <1>1
<1>2. ASSUME NEW q \in Proc, NEW x \in {NoFile, nextFile}, wfile' = [wfile EXCEPT ![q] = x]
      PROVE  Fate
  BY <1>0, <1>2
<1>3. ASSUME NEW q \in Proc, WriteStep(q)
      PROVE  Fate
  BY <1>3, WriteStepQuiet
<1> HIDE DEF Fate
<1>4. ASSUME NEW s \in Session, SessionStep(s)
      PROVE  Fate
  <2>0. s \in Proc
    BY DEF Proc
  <2> QED
    BY <1>1, <1>2, <1>3, <1>4, <2>0
       DEF SessionStep, NextStore, SyncStep, Write, dirVars, Flush, WriteTemp,
           FlushStep, FlushOk, SyncList, List, SyncRead, TakeListed, SyncApply, Crash, Die
<1>5. ASSUME NEW c \in Compactor, CompactorStep(c) \/ CompactorCrash(c)
      PROVE  Fate
  <2>0. c \in Proc
    BY DEF Proc
  <2> QED
    BY <1>1, <1>2, <1>3, <1>5, <2>0
       DEF CompactorStep, NextCompactor, CompactStep, CompactList, List, CompactRead,
           TakeListed, CompactNothing, CompactNoOps, CompactWrite, WriteTemp,
           CompactWriteStep, CompactVerified, CompactDelete, CompactDone,
           CompactorCrash, CompactDie, Die
<1>6. ASSUME NEW f \in File, FileArrives(f)
      PROVE  Fate
  BY <1>1, <1>6 DEF FileArrives, Land
<1>7. CASE UNCHANGED vars
  BY <1>1, <1>7 DEF vars, dirVars
<1> QED
  BY <1>4, <1>5, <1>6, <1>7 DEF Next, Fate

(* What is in the log, op by op, before and after a step. *)
LEMMA LogMembers ==
  /\ \A o : o \in LogOps <=> \E f \in File : Clear(f) /\ o \in content[f]
  /\ \A o : o \in LogOps' <=> \E f \in File : Clear(f)' /\ o \in content'[f]
<1>1. ASSUME NEW o
      PROVE  o \in LogOps <=> \E f \in File : Clear(f) /\ o \in content[f]
  BY SMT DEF LogOps, Clear, WholeFiles
<1>2. ASSUME NEW o
      PROVE  o \in LogOps' <=> \E f \in File : Clear(f)' /\ o \in content'[f]
  BY SMT DEF LogOps, Clear, WholeFiles
<1> QED
  BY <1>1, <1>2

(* A verified file that can be read is in the log. *)
LEMMA VerifiedIsClear ==
  ASSUME TypeOK, DurabilityInv, NEW f \in verified, disk[f] = "whole"
  PROVE  Clear(f)
  BY DEF Clear, InDoubt, DurabilityInv, OneWriter

(* What was in the log, the log still covers after any step: only a
   compactor takes a file out of it, and what it takes a later verified
   file carries (wal.rs `compact`). *)
LEMMA LogKeepsCover ==
  ASSUME TypeOK, DurabilityInv, [Next]_vars, NEW o \in LogOps
  PROVE  Covers(LogOps', o)
<1>1. PICK f \in File : Clear(f) /\ o \in content[f]
  BY LogMembers
<1>2. Sturdy(f) /\ \A p \in Proc : wfile[p] # f
  BY <1>1 DEF Clear, InDoubt, Sturdy, Discards
<1>3. /\ f < nextFile /\ f # NoFile
      /\ File \subseteq Nat /\ nextFile \in Nat /\ verified \subseteq File
  BY <1>1, TakenName, WalDirAssumption, FileType DEF DurabilityInv, Clear, TypeOK, DirTypeOK
<1>4. CASE Sturdy(f)'
  <2>1. f # nextFile
    BY ONLY <1>3
  <2>2. \A p \in Proc : wfile'[p] # f
    BY <1>2, <1>3, <2>1, WriterFate
  <2>3. Clear(f)' /\ content'[f] = content[f]
    BY <1>3, <1>4, <2>2, DirFrame DEF Clear, InDoubt, Sturdy
  <2>4. o \in LogOps'
    BY <1>1, <2>3, LogMembers
  <2> QED
    BY <2>4, MemberCovers
<1>5. CASE disk'[f] = "gone"
  <2>1. /\ Carried(f)
        /\ \A h \in File \ {f} : disk'[h] = disk[h]
        /\ UNCHANGED <<content, verified>>
    BY <1>2, <1>5, RemoverCarries DEF Listed, Sturdy
  <2>2. PICK h \in verified : h > f /\ disk[h] = "whole" /\ Covers(content[h], o)
    BY <1>1, <2>1, CarriedIsOffered
  <2>3. h \in File /\ h # f
    BY <1>3, <2>2
  <2>4. \A q \in Proc : wfile'[q] \notin verified'
    BY DurabilityNext DEF DurabilityInv, OneWriter
  <2>5. Clear(h)'
    BY <2>1, <2>2, <2>3, <2>4 DEF Clear, InDoubt
  <2>6. content[h] \subseteq LogOps'
    BY <2>1, <2>3, <2>5, LogMembers
  <2> QED
    BY <2>2, <2>6, CoversMonotone
<1> QED
  BY <1>2, <1>4, <1>5, SturdyFate

(* So every step merges something into the log. *)
LEMMA LogGrows ==
  ASSUME TypeOK, DurabilityInv, [Next]_vars
  PROVE  Winners(LogOps') = MergeOps(Winners(LogOps), LogOps')
<1>1. LogOps \in SUBSET Op
  BY LogMembers DEF TypeOK, DirTypeOK
<1>2. LogOps' \in SUBSET Op
  BY TypeNext, LogMembers DEF TypeOK, DirTypeOK
<1> QED
  BY <1>1, <1>2, LogKeepsCover, CoveredAddsNothing

-----------------------------------------------------------------------------
(* Step by step.                                                           *)

(* The edits that may still be seen: those in files, and those a session
   owes. *)
Seen == (UNION {content[f] : f \in File}) \cup (UNION {outbox[s] : s \in Session})

(* Its members, before and after a step. *)
LEMMA SeenMembers ==
  /\ \A o : o \in Seen <=> (\E f \in File : o \in content[f]) \/ (\E s \in Session : o \in outbox[s])
  /\ \A o : o \in Seen' <=> (\E f \in File : o \in content'[f]) \/ (\E s \in Session : o \in outbox'[s])
<1>1. ASSUME NEW o
      PROVE  o \in Seen <=> (\E f \in File : o \in content[f]) \/ (\E s \in Session : o \in outbox[s])
  BY SMT DEF Seen
<1>2. ASSUME NEW o
      PROVE  o \in Seen' <=> (\E f \in File : o \in content'[f]) \/ (\E s \in Session : o \in outbox'[s])
  BY SMT DEF Seen
<1> QED
  BY <1>1, <1>2

(* What is in the log may be seen. *)
LEMMA LogIsSeen == LogOps \subseteq Seen /\ LogOps' \subseteq Seen'
  BY LogMembers, SeenMembers

(* The files a step writes hold what is already to be seen. *)
LEMMA FilesAreSeen ==
  ASSUME TypeOK, SessionInv, HeldInv, [Next]_vars, \A s \in Session : ~EditStep(s)
  PROVE  \A f \in File : /\ content'[f] \subseteq Seen
                         /\ content[f] \subseteq content'[f]
<1> SUFFICES ASSUME NEW f \in File
             PROVE  content'[f] \subseteq Seen /\ content[f] \subseteq content'[f]
  OBVIOUS
<1>1. content[f] \subseteq Seen
  BY SeenMembers
<1>2. CASE f < nextFile
  BY <1>1, <1>2, DirFrame
<1>3. CASE f >= nextFile
  <2>1. content[f] = {}
    BY <1>3 DEF HeldInv
  <2>2. \A c \in Compactor : merged[c] \subseteq Seen
    BY SeenMembers DEF HeldInv, Written
  <2>3. \A s \in Session : outbox[s] \subseteq Seen
    BY SeenMembers
  <2>4. \/ content'[f] = content[f]
        \/ \E s \in Session : content'[f] = outbox[s]
        \/ \E c \in Compactor : content'[f] = merged[c]
    BY OpsMove
  <2> QED
    BY <1>1, <2>1, <2>2, <2>3, <2>4
<1>4. f \in Nat /\ nextFile \in Nat
  BY FileType, WalDirAssumption DEF TypeOK, DirTypeOK
<1> QED
  BY <1>2, <1>3, <1>4

(* A session draws later and later ids, so that an op of its user never comes
   twice, whatever ids others draw: unless it was opened again and knows no more
   what it drew, or shares its user with another session. *)
DrawnOnce ==
  MaxCrashes = 0 /\ \A s, t \in Session : UserOf[s] = UserOf[t] => s = t

DrawInv == \A s \in Session : \A o \in Issued : o.user = UserOf[s] => o.tx <= lastTx[s]

LEMMA DrawInit == Init => DrawInv
  BY DEF Init, InitDir, InitStore, DrawInv, Issued

LEMMA DrawNext ==
  ASSUME DrawnOnce, TypeOK, SessionInv, HeldInv, DrawInv, [Next]_vars
  PROVE  DrawInv'
<1>1. CASE \E s \in Session : EditStep(s)
  <2>1. PICK s \in Session : EditStep(s)
    BY <1>1
  <2>2. PICK tx \in Tx, e \in Entity, fields \in FieldLists :
          /\ NextTx(s, tx)
          /\ Issued' \subseteq Issued \cup Transaction(tx, e, fields, UserOf[s])
    BY <2>1, EditIssues
  <2>3. /\ tx > lastTx[s] /\ lastTx'[s] = tx
        /\ \A t \in Session \ {s} : lastTx'[t] = lastTx[t]
    BY <2>2 DEF NextTx, TypeOK
  <2>4. \A o \in Transaction(tx, e, fields, UserOf[s]) : o.tx = tx /\ o.user = UserOf[s]
    BY DEF Transaction
  <2>5. /\ tx \in Int /\ lastTx[s] \in Int
        /\ \A o \in Issued : o.tx \in Int
    BY HeldIsIssued, EavcAssumption DEF TypeOK, Op, Tx, NoTx
  <2>6. ASSUME NEW t \in Session, NEW o \in Issued', o.user = UserOf[t]
        PROVE  o.tx <= lastTx'[t]
    <3>1. CASE o \in Issued
      BY <2>3, <2>5, <2>6, <3>1 DEF DrawInv
    <3>2. CASE o \in Transaction(tx, e, fields, UserOf[s])
      <4>1. t = s
        BY <2>4, <2>6, <3>2 DEF DrawnOnce
      <4> QED
        BY <2>3, <2>4, <2>5, <3>2, <4>1
    <3> QED
      BY <2>2, <3>1, <3>2
  <2> QED
    BY <2>6 DEF DrawInv
<1>2. CASE \A s \in Session : ~EditStep(s)
  <2>1. Issued' \subseteq Issued
    BY <1>2, OthersIssueNothing
  <2>2. UNCHANGED lastTx
    <3>1. ~ (crashes < MaxCrashes)
      BY DEF DrawnOnce, TypeOK
    <3>2. CASE \E s \in Session : SessionStep(s)
      BY <1>2, <3>1, <3>2
         DEF SessionStep, NextStore, EditStep, SyncStep, Flush, FlushStep, FlushOk,
             SyncList, SyncRead, SyncApply, Crash, storeVars
    <3>3. CASE ~\E s \in Session : SessionStep(s)
      BY <3>3 DEF Next, CompactorStep, CompactorCrash, FileArrives, vars, storeVars
    <3> QED
      BY <3>2, <3>3
  <2> QED
    BY <2>1, <2>2 DEF DrawInv
<1> QED
  BY <1>1, <1>2

THEOREM DrawInvariant ==
  ASSUME DrawnOnce
  PROVE  Spec => []DrawInv
  BY DurabilityInvariant, SessionInvariant, HeldInvariant, DrawInit, DrawNext, PTL DEF Spec

(* Which steps change what a session shows or owes. *)
LEMMA StepKinds ==
  ASSUME TypeOK, [Next]_vars, ~ UNCHANGED <<current, outbox>>
  PROVE  \E s \in Session : EditStep(s) \/ FlushOk(s) \/ SyncApply(s) \/ Crash(s)
<1>1. PICK s \in Session : SessionStep(s)
  BY DEF Next, CompactorStep, CompactorCrash, FileArrives, vars, storeVars
<1> QED
  BY <1>1 DEF EditStep, SessionStep, NextStore, SyncStep, Flush, FlushStep, SyncList,
              SyncRead, storeVars

(* A call that writes is an Edit, or nothing if it sets no field: its ops
   are new, shown at once, and owed. *)
LEMMA EditMaps ==
  ASSUME TypeOK, SessionInv, ~TxCollides \/ DrawInv, NEW s \in Session, EditStep(s)
  PROVE  Log!Edit(s) \/ UNCHANGED Log!vars
<1>1. PICK e \in Entity, fields \in FieldLists : Write(s, e, fields)
  BY DEF EditStep
<1>2. PICK tx \in Tx :
        LET ops == Transaction(tx, e, fields, UserOf[s])
        IN  /\ NextTx(s, tx)
            /\ current' = [current EXCEPT ![s] = MergeOps(@, ops)]
            /\ outbox' = [outbox EXCEPT ![s] = @ \cup ops]
            /\ own' = [own EXCEPT ![s] = @ \cup ops]
  BY <1>1 DEF Write
<1> DEFINE ops == Transaction(tx, e, fields, UserOf[s])
<1>3. /\ current' = [current EXCEPT ![s] = MergeOps(@, ops)]
      /\ outbox' = [outbox EXCEPT ![s] = @ \cup ops]
      /\ \A o \in Issued : o.tx # tx \/ o.user # UserOf[s]
      /\ UNCHANGED <<disk, content, wfile>>
  <2>1. ASSUME DrawInv, NEW o \in Issued, o.user = UserOf[s]
        PROVE  o.tx # tx
    <3>1. o.tx <= lastTx[s] /\ tx > lastTx[s]
      BY <1>2, <2>1 DEF DrawInv, NextTx
    <3>2. tx \in Int /\ lastTx[s] \in Int /\ o.tx \in Int
      BY HeldIsIssued, EavcAssumption DEF TypeOK, Op, Tx, NoTx
    <3> QED
      BY <3>1, <3>2
  <2> QED
    BY <1>1, <1>2, <2>1 DEF NextTx, Write, dirVars
<1>4. /\ ops \in SUBSET Op
      /\ \A o \in ops : o.tx = tx /\ o.ent = e /\ o.user = UserOf[s]
  BY TransactionOps DEF Transaction
<1> HIDE DEF ops
<1>5. Seen \subseteq Issued
  BY SeenMembers, HeldIsIssued
<1>6. ops \cap Seen = {} /\ outbox[s] \subseteq Seen
  BY <1>3, <1>4, <1>5, SeenMembers
<1>7. /\ outbox'[s] = outbox[s] \cup ops
      /\ \A t \in Session \ {s} : outbox'[t] = outbox[t]
  BY <1>3 DEF TypeOK
<1>8. Seen' = Seen \cup ops
  <2>1. ASSUME NEW o
        PROVE  o \in Seen' <=> o \in Seen \/ o \in ops
    BY <1>3, <1>7, SeenMembers
  <2> QED
    BY <2>1
<1>9. LogOps' = LogOps
  BY <1>3 DEF LogOps, WholeFiles, InDoubt
<1>10. CASE ops = {}
  <2>1. MergeOps(current[s], {}) = current[s]
    BY DEF SessionInv, HoldsItsMerge, MergeOps, Winners
  <2>2. current' = current /\ outbox' = outbox
    BY <1>3, <1>10, <2>1 DEF TypeOK
  <2> QED
    BY <1>8, <1>9, <1>10, <2>2 DEF Log!vars, Seen
<1>11. CASE ops # {}
  <2>1. outbox'[s] \ outbox[s] = ops
    BY <1>6, <1>7
  <2> QED
    BY <1>3, <1>4, <1>6, <1>8, <1>9, <1>11, <2>1, SameMerge DEF Log!Edit, Seen
<1> QED
  BY <1>10, <1>11

(* A verified flush is a Confirm: what the session owed is in the log. *)
LEMMA FlushOkMaps ==
  ASSUME TypeOK, DurabilityInv, SessionInv, NEW s \in Session, FlushOk(s)
  PROVE  Log!Confirm(s)
<1>1. PICK w : w = wfile[s]
  OBVIOUS
<1>2. /\ s \in Proc /\ w \in File /\ disk[w] = "whole"
      /\ content[w] = outbox[s]
      /\ UNCHANGED <<disk, content, current>>
      /\ outbox' = [outbox EXCEPT ![s] = {}]
      /\ wfile' = [wfile EXCEPT ![s] = NoFile]
  BY <1>1, FileType
     DEF FlushOk, VerifyOk, SessionInv, OwnIsKept, TypeOK, DirTypeOK, Proc
<1>3. \A f \in File : Clear(f)' <=> Clear(f) \/ f = w
  <2>1. \A p \in Proc : wfile[p] = w => p = s
    BY <1>1, <1>2, FileType DEF DurabilityInv, OneWriter
  <2>2. \A p \in Proc : wfile'[p] = IF p = s THEN NoFile ELSE wfile[p]
    BY <1>2 DEF TypeOK, DirTypeOK
  <2> QED
    BY <1>1, <1>2, <2>1, <2>2, FileType DEF Clear, InDoubt
<1>4. LogOps' = LogOps \cup outbox[s]
  <2>1. ASSUME NEW o
        PROVE  o \in LogOps' <=> o \in LogOps \/ o \in outbox[s]
    BY <1>2, <1>3, LogMembers
  <2> QED
    BY <2>1
<1>5. Winners(LogOps') = MergeOps(Winners(LogOps), outbox[s])
  <2>1. LogOps \in SUBSET Op /\ outbox[s] \in SUBSET Op
    BY LogMembers DEF TypeOK, DirTypeOK
  <2> QED
    BY <1>4, <2>1, CompactionTransparency DEF MergeOps
<1>6. Seen' = Seen
  <2>1. \A t \in Session : outbox'[t] = IF t = s THEN {} ELSE outbox[t]
    BY <1>2 DEF TypeOK
  <2>2. ASSUME NEW o
        PROVE  o \in Seen' <=> o \in Seen
    BY <1>2, <2>1, SeenMembers
  <2> QED
    BY <2>2
<1> QED
  BY <1>2, <1>5, <1>6, SameMerge DEF Log!Confirm, Seen

(* A sync that has read its files is a Learn. *)
LEMMA SyncApplyMaps ==
  ASSUME TypeOK, SessionInv, NEW s \in Session, SyncApply(s)
  PROVE  Log!Learn(s)
<1>1. /\ UNCHANGED <<disk, content, wfile, outbox>>
      /\ current' = [current EXCEPT ![s] = MergeOps(@, batch[s])]
  BY DEF SyncApply
<1>2. LogOps' = LogOps /\ Seen' = Seen
  BY <1>1 DEF LogOps, WholeFiles, InDoubt, Seen
<1>3. batch[s] \subseteq Seen
  <2>1. batch[s] \subseteq own[s] \cup ReadBy(s)
    BY DEF SessionInv, HoldsItsMerge
  <2>2. own[s] \subseteq Seen
    BY SeenMembers DEF SessionInv, OwnIsKept, TypeOK, DirTypeOK
  <2>3. ReadBy(s) \subseteq Seen
    BY SeenMembers DEF ReadBy, TypeOK
  <2> QED
    BY <2>1, <2>2, <2>3
<1> QED
  BY <1>1, <1>2, <1>3, SameMerge DEF Log!Learn, Seen

(* A session that stops is a Restart: what it owed may be in the log, in a
   file that arrives late, or nowhere. *)
LEMMA CrashMaps ==
  ASSUME TypeOK, DurabilityInv, [Next]_vars, NEW s \in Session, Crash(s)
  PROVE  Log!Restart(s)
<1>1. /\ UNCHANGED content
      /\ current' = [current EXCEPT ![s] = {}]
      /\ outbox' = [outbox EXCEPT ![s] = {}]
  BY DEF Crash, Die
<1>2. \A t \in Session : outbox'[t] = IF t = s THEN {} ELSE outbox[t]
  BY <1>1 DEF TypeOK
<1>3. Seen \ Seen' \subseteq outbox[s] /\ Seen' \subseteq Seen
  <2>1. ASSUME NEW o \in Seen
        PROVE  o \in Seen' \/ o \in outbox[s]
    BY <1>1, <1>2, SeenMembers
  <2>2. ASSUME NEW o \in Seen'
        PROVE  o \in Seen
    BY <1>1, <1>2, SeenMembers
  <2> QED
    BY <2>1, <2>2
<1> QED
  BY <1>1, <1>3, LogIsSeen, LogGrows, SameMerge DEF Log!Restart, Seen

(* Any other step, of a writer between two of its accesses, of a compactor,
   or of the share, is a Publish. *)
LEMMA OthersPublish ==
  ASSUME TypeOK, DurabilityInv, SessionInv, HeldInv, [Next]_vars,
         \A s \in Session : ~EditStep(s), UNCHANGED <<current, outbox>>
  PROVE  Log!Publish
<1>1. Seen' = Seen
  <2>1. ASSUME NEW o \in Seen
        PROVE  o \in Seen'
    BY <2>1, FilesAreSeen, SeenMembers
  <2>2. ASSUME NEW o \in Seen'
        PROVE  o \in Seen
    BY <2>2, FilesAreSeen, SeenMembers
  <2> QED
    BY <2>1, <2>2
<1> QED
  BY <1>1, LogIsSeen, LogGrows, SameMerge DEF Log!Publish, Seen

-----------------------------------------------------------------------------
(* Nothing is written, shown or owed. *)
LEMMA LogInit == Init => Log!Init
<1> SUFFICES ASSUME Init
             PROVE  Log!Init
  OBVIOUS
<1>1. Seen = {} /\ LogOps = {}
  BY DEF Init, InitDir, InitStore, Seen, LogOps, WholeFiles
<1> QED
  BY <1>1 DEF Init, InitStore, Log!Init, Seen, Winners

(* Every step of the files is a step of the log, or none. *)
LEMMA LogNext ==
  ASSUME TypeOK, DurabilityInv, SessionInv, HeldInv, ~TxCollides \/ DrawInv,
         [Next]_vars
  PROVE  [Log!Next]_(Log!vars)
<1>1. CASE \E s \in Session : EditStep(s)
  BY <1>1, EditMaps DEF Log!Next
<1>2. CASE (\A s \in Session : ~EditStep(s)) /\ UNCHANGED <<current, outbox>>
  BY <1>2, OthersPublish DEF Log!Next
<1>3. CASE (\A s \in Session : ~EditStep(s)) /\ ~ UNCHANGED <<current, outbox>>
  BY <1>3, StepKinds, FlushOkMaps, SyncApplyMaps, CrashMaps DEF Log!Next
<1> QED
  BY <1>1, <1>2, <1>3

(* Sessions and compactors of any number, with writes that fail, files that
   arrive late and crashes at any step, behave as one merged log that never
   goes back (wal.rs `compact`, store.rs `flush`). *)
THEOREM WalburgImplementsLog ==
  ASSUME ~TxCollides \/ DrawnOnce
  PROVE  Spec => ImplementsLog
<1>1. TypeOK /\ DurabilityInv /\ SessionInv /\ HeldInv /\ (~TxCollides \/ DrawInv) /\ [Next]_vars
        => [Log!Next]_(Log!vars)
  BY LogNext
<1>2. CASE ~TxCollides
  BY <1>1, <1>2, LogInit, DurabilityInvariant, SessionInvariant, HeldInvariant, PTL
     DEF Spec, ImplementsLog, Log!Spec
<1>3. CASE DrawnOnce
  BY <1>1, <1>3, LogInit, DurabilityInvariant, SessionInvariant, HeldInvariant, DrawInvariant, PTL
     DEF Spec, ImplementsLog, Log!Spec
<1> QED
  BY <1>2, <1>3

=============================================================================
