-------------------------- MODULE PowerLossProofs --------------------------
(***************************************************************************)
(* What is acknowledged survives any number of losses of power, at any     *)
(* step of any number of sessions and compactors, with crashes and faults. *)
(***************************************************************************)
EXTENDS PowerLoss, SessionProofs

(***************************************************************************)
(* What the medium may show.  The cache is one of the possibilities; a     *)
(* name that was never taken is not there; content is synced before a file *)
(* has a name; only what was removed may be missing; and a file that was   *)
(* found in the directory or verified is there or was removed.             *)
(***************************************************************************)
MediumFollows ==
  /\ \A f \in File :
       /\ disk[f] \in names[f]
       /\ f >= nextFile => names[f] = {"unused"}
       /\ names[f] \cap {"temp", "whole"} # {} => f \in synced
       /\ "gone" \in names[f] => disk[f] = "gone"
  /\ \A f \in verified : names[f] \subseteq {"whole", "gone"}
  /\ \A f \in File : f <= NumForeign + NumEmpty =>
       names[f] \subseteq {"foreign", "whole", "gone"}

\* From its fsync of the directory on, the file a process reads back has its
\* name on the medium for as long as it has it in the cache.
SyncedFirst ==
  \A p \in Proc : dirSynced[p] =>
    /\ pc[p] = "verifying"
    /\ disk[wfile[p]] = "whole" => names[wfile[p]] = {"whole"}

\* What a verified file holds, it or a later verified file has on the medium.
MediumOffers ==
  \A f \in verified : \A o \in content[f] : \E h \in verified :
    h >= f /\ Survives(h) = {"whole"} /\ Covers(content[h], o)

PowerTypeOK ==
  /\ synced \subseteq File
  /\ names \in [File -> SUBSET Status]
  /\ dirSynced \in [Proc -> BOOLEAN]
  /\ losses \in Nat

PowerInv ==
  /\ TypeOK /\ DurabilityInv
  /\ PowerTypeOK /\ MediumFollows /\ SyncedFirst /\ MediumOffers

(* All that is found in the directory is on the medium. *)
LEMMA PowerInit == InitPower => PowerInv
<1> SUFFICES ASSUME InitPower
             PROVE  PowerInv
  OBVIOUS
<1>1. TypeOK /\ DurabilityInv
  BY TypeInit, DurabilityInit DEF InitPower
<1>2. PowerTypeOK /\ SyncedFirst
  BY <1>1 DEF InitPower, PowerTypeOK, SyncedFirst, TypeOK, DirTypeOK
<1>3. MediumFollows /\ MediumOffers
  <2>1. /\ verified = {} /\ \A f \in File : disk[f] \in {"unused", "whole", "foreign"}
        /\ \A f \in File : f <= NumForeign + NumEmpty => disk[f] \in {"whole", "foreign"}
    BY DEF InitPower, Init, InitDir
  <2>2. \A f \in File : f >= nextFile => disk[f] = "unused"
    BY <1>1 DEF DurabilityInv, NamesInOrder
  <2> QED
    BY <2>1, <2>2 DEF InitPower, MediumFollows, MediumOffers
<1> QED
  BY <1>1, <1>2, <1>3 DEF PowerInv

(* Where content has been synced before it got a name, no file comes back
   cut: the medium has of a file what the names say. *)
LEMMA SurvivesNames ==
  ASSUME PowerInv, NEW f \in File
  PROVE  Survives(f) = names[f]
  BY DEF PowerInv, MediumFollows, Survives

-----------------------------------------------------------------------------
(* What a process does to files and to itself in one step. *)
Moves(p) ==
  /\ \A q \in Proc \ {p} : pc'[q] = pc[q] /\ wfile'[q] = wfile[q]
  /\ \A f \in File :
       \/ disk'[f] = disk[f]
       \/ disk[f] = "unused" /\ disk'[f] = "temp"
       \/ disk[f] = "temp" /\ f = wfile[p] /\ pc[p] = "renaming"
       \/ disk'[f] = "gone"
  /\ \/ verified' = verified
     \/ /\ pc[p] = "verifying" /\ disk[wfile[p]] = "whole"
        /\ verified' = verified \cup {wfile[p]}
        /\ UNCHANGED <<disk, crashes>>
  /\ pc[p] = "verifying" => pc'[p] # "verifying"

(* So moves every step of a session or a compactor. *)
LEMMA ProcessMoves ==
  ASSUME TypeOK, DurabilityInv, NEW p \in Proc,
         \/ p \in Session /\ SessionStep(p)
         \/ p \in Compactor /\ (CompactorStep(p) \/ CompactorCrash(p))
  PROVE  Moves(p)
<1>0. /\ disk \in [File -> Status] /\ pc \in [Proc -> PC]
      /\ wfile \in [Proc -> File \cup {NoFile}]
  BY DEF TypeOK, DirTypeOK
<1>1. ASSUME NEW ops, WriteTemp(p, ops), pc[p] # "verifying"
      PROVE  Moves(p)
  <2>1. nextFile \in File => disk[nextFile] = "unused"
    BY FileType DEF DurabilityInv, NamesInOrder
  <2> QED
    BY <1>0, <1>1, <2>1 DEF WriteTemp, Goto, Moves
<1>2. ASSUME UNCHANGED <<disk, wfile, verified>>,
             NEW l, pc' = [pc EXCEPT ![p] = l], l # "verifying"
      PROVE  Moves(p)
  BY <1>0, <1>2 DEF Moves
<1>3. ASSUME UNCHANGED <<disk, wfile, pc, verified>>, pc[p] # "verifying"
      PROVE  Moves(p)
  BY <1>3 DEF Moves
<1>4. ASSUME UNCHANGED disk, wfile' = [wfile EXCEPT ![p] = NoFile],
             NEW l, pc' = [pc EXCEPT ![p] = l], l # "verifying",
             \/ verified' = verified
             \/ /\ pc[p] = "verifying" /\ disk[wfile[p]] = "whole"
                /\ verified' = verified \cup {wfile[p]} /\ UNCHANGED crashes
      PROVE  Moves(p)
  BY <1>0, <1>4 DEF Moves
<1>5. ASSUME WriteStep(p)
      PROVE  Moves(p)
  <2>1. wfile[p] \in File /\ (pc[p] = "renaming" => disk[wfile[p]] = "temp")
    BY <1>5 DEF WriteStep, Rename, RenameFails, VerifyUnreadable, VerifyMismatch,
                Discard, TypeOK, DirTypeOK, DurabilityInv, OneWriter
  <2>2. /\ \A q \in Proc \ {p} : pc'[q] = pc[q] /\ wfile'[q] = wfile[q]
        /\ UNCHANGED verified
    BY <1>5, WriteStepType, WriteStepFrame
  <2>3. /\ \A f \in File \ {wfile[p]} : disk'[f] = disk[f]
        /\ \/ disk'[wfile[p]] = disk[wfile[p]]
           \/ pc[p] = "renaming"
           \/ disk'[wfile[p]] = "gone"
        /\ pc[p] = "verifying" => pc'[p] # "verifying"
    <3> USE <1>0, <2>1 DEF Goto
    <3>1. CASE Rename(p)
      BY <3>1 DEF Rename
    <3>2. CASE RenameFails(p)
      BY <3>2 DEF RenameFails
    <3>3. CASE VerifyUnreadable(p)
      BY <3>3 DEF VerifyUnreadable
    <3>4. CASE VerifyMismatch(p)
      BY <3>4 DEF VerifyMismatch
    <3>5. CASE Discard(p)
      BY <3>5 DEF Discard
    <3> QED
      BY <1>5, <3>1, <3>2, <3>3, <3>4, <3>5 DEF WriteStep
  <2> QED
    BY <2>1, <2>2, <2>3 DEF Moves
<1> USE DEF Goto
<1>6. CASE p \in Session /\ SessionStep(p)
  <2>1. ASSUME NEW e \in Entity, NEW fields \in FieldLists, Write(p, e, fields)
        PROVE  Moves(p)
    BY <1>3, <2>1 DEF Write, dirVars
  <2>2. CASE Flush(p)
    BY <1>1, <2>2 DEF Flush
  <2>3. CASE FlushStep(p)
    BY <1>5, <2>3 DEF FlushStep
  <2>4. CASE FlushOk(p)
    BY <1>4, <2>4 DEF FlushOk, VerifyOk
  <2>5. CASE SyncList(p)
    BY <1>2, <2>5 DEF SyncList, List
  <2>6. ASSUME NEW g \in File, SyncRead(p, g)
        PROVE  Moves(p)
    BY <1>3, <2>6 DEF SyncRead, TakeListed
  <2>7. CASE SyncApply(p)
    BY <1>2, <2>7 DEF SyncApply
  <2>8. CASE Crash(p)
    BY <1>4, <2>8 DEF Crash, Die
  <2> QED
    BY <1>6, <2>1, <2>2, <2>3, <2>4, <2>5, <2>6, <2>7, <2>8
       DEF SessionStep, NextStore, SyncStep
<1>7. CASE p \in Compactor /\ CompactorStep(p)
  <2>1. CASE CompactList(p)
    BY <1>2, <2>1 DEF CompactList, List
  <2>2. ASSUME NEW g \in File, CompactRead(p, g)
        PROVE  Moves(p)
    BY <1>3, <2>2 DEF CompactRead, TakeListed
  <2>3. CASE CompactNothing(p)
    BY <1>2, <2>3 DEF CompactNothing
  <2>4. CASE CompactNoOps(p)
    BY <1>2, <2>4 DEF CompactNoOps
  <2>5. CASE CompactWrite(p)
    BY <1>1, <2>5 DEF CompactWrite, ReadAll
  <2>6. CASE CompactWriteStep(p)
    BY <1>5, <2>6 DEF CompactWriteStep
  <2>7. CASE CompactVerified(p)
    BY <1>4, <1>7, <2>7 DEF CompactVerified, VerifyOk, CompactorStep, storeVars
  <2>8. ASSUME NEW g \in File, CompactDelete(p, g)
        PROVE  Moves(p)
    BY <1>0, <2>8 DEF CompactDelete, Moves
  <2>9. CASE CompactDone(p)
    BY <1>2, <2>9 DEF CompactDone
  <2> QED
    BY <1>7, <2>1, <2>2, <2>3, <2>4, <2>5, <2>6, <2>7, <2>8, <2>9
       DEF CompactorStep, NextCompactor, CompactStep
<1>8. CASE p \in Compactor /\ CompactorCrash(p)
  BY <1>4, <1>8 DEF CompactorCrash, CompactDie, Die
<1> QED
  BY <1>6, <1>7, <1>8

(* Compactors remove what the medium has elsewhere. *)
LEMMA OfferStays ==
  ASSUME PowerInv, [Next]_vars, NEW h \in verified, NEW o \in Op,
         Survives(h) = {"whole"}, Covers(content[h], o)
  PROVE  \E k \in verified : /\ k >= h /\ disk'[k] = "whole"
                             /\ Survives(k) = {"whole"} /\ Covers(content[k], o)
<1>0. /\ TypeOK /\ DurabilityInv /\ verified \subseteq File /\ File \subseteq Nat
      /\ content \in [File -> SUBSET Op]
      /\ \A g \in File : disk[g] \in names[g] /\ Survives(g) = names[g]
  BY FileType, SurvivesNames DEF PowerInv, MediumFollows, TypeOK, DirTypeOK
<1>1. disk[h] = "whole" /\ \A p \in Proc : ~Discards(p, h)
  BY <1>0 DEF Discards, DurabilityInv, OneWriter
<1>2. disk'[h] \in {"whole", "gone"}
  BY <1>0, <1>1, SturdyFate DEF Sturdy
<1>3. CASE disk'[h] = "whole"
  BY <1>0, <1>3
<1>4. CASE disk'[h] = "gone"
  <2>1. Carried(h) /\ \A g \in File \ {h} : disk'[g] = disk[g]
    BY <1>0, <1>1, <1>4, RemoverCarries DEF Listed
  <2>2. PICK q \in content[h] : q = o \/ Supersedes(q, o)
    BY DEF Covers
  <2>3. PICK w \in verified : w > h /\ Covers(content[w], q)
    BY <2>1 DEF Carried
  <2>4. PICK r \in content[w] : r = q \/ Supersedes(r, q)
    BY <2>3 DEF Covers
  <2>5. PICK k \in verified : k >= w /\ Survives(k) = {"whole"} /\ Covers(content[k], r)
    BY DEF PowerInv, MediumOffers
  <2>6. PICK u \in content[k] : u = r \/ Supersedes(u, r)
    BY <2>5 DEF Covers
  <2>7. q \in Op /\ r \in Op /\ u \in Op
    BY <1>0
  <2>8. u = o \/ Supersedes(u, o)
    BY <2>2, <2>4, <2>6, <2>7, SupersedesTransitive
  <2>9. k >= h /\ k # h
    <3>1. k \in Nat /\ w \in Nat /\ h \in Nat
      BY <1>0
    <3> QED
      BY ONLY <2>3, <2>5, <3>1
  <2>10. disk'[k] = "whole"
    BY <1>0, <2>1, <2>5, <2>9
  <2> QED
    BY <2>5, <2>8, <2>9, <2>10 DEF Covers
<1> QED
  BY <1>2, <1>3, <1>4

(* A step of one process. *)
LEMMA ProcessKeepsPower ==
  ASSUME PowerInv, NEW p \in Proc, ProcessStep(p)
  PROVE  PowerInv'
<1>1. /\ TypeOK /\ DurabilityInv /\ PowerTypeOK /\ MediumFollows /\ SyncedFirst
      /\ MediumOffers
      /\ \/ p \in Session /\ SessionStep(p)
         \/ p \in Compactor /\ (CompactorStep(p) \/ CompactorCrash(p))
  BY DEF PowerInv, ProcessStep
<1>2. [Next]_vars
  BY <1>1 DEF Next
<1>3. Moves(p)
  BY <1>1, ProcessMoves
<1>4. TypeOK' /\ DurabilityInv'
  BY <1>1, <1>2, TypeNext, DurabilityNext
<1>5. /\ synced' = synced \cup {f \in File : disk'[f] = "temp" /\ disk[f] # "temp"}
      /\ \A f \in File : names'[f] = names[f] \cup {disk'[f]}
      /\ \A q \in Proc \ {p} : dirSynced'[q] = dirSynced[q]
      /\ dirSynced'[p] = (dirSynced[p] /\ pc'[p] = "verifying")
  BY <1>1 DEF ProcessStep, SyncContent, PowerTypeOK
<1>6. /\ disk' \in [File -> Status] /\ disk \in [File -> Status]
      /\ verified \subseteq File /\ verified' \subseteq File
      /\ \A q \in Proc : wfile[q] \in File \cup {NoFile}
      /\ \A q \in Proc : pc[q] \in {"renaming", "verifying"} => wfile[q] \in File
      /\ NoFile \notin File
  BY <1>1, <1>4, FileType DEF TypeOK, DirTypeOK
<1>7. pc[p] = "verifying" /\ crashes' = crashes => dirSynced[p]
  <2>1. crashes \in Int
    BY <1>1, StoreAssumption DEF TypeOK
  <2> QED
    BY <2>1 DEF ProcessStep, MustSyncDir
<1>8. PowerTypeOK'
  <2>1. names' = [f \in File |-> names[f] \cup {disk'[f]}]
    BY DEF ProcessStep
  <2>2. dirSynced' \in [Proc -> BOOLEAN]
    BY <1>1 DEF ProcessStep, PowerTypeOK
  <2>3. losses' = losses
    BY DEF ProcessStep
  <2> QED
    BY <1>1, <1>5, <1>6, <2>1, <2>2, <2>3 DEF PowerTypeOK
<1>9. ASSUME NEW f \in verified'
      PROVE  /\ names'[f] \subseteq {"whole", "gone"}
             /\ f \notin verified => names'[f] = {"whole"}
  <2>1. disk'[f] \in {"whole", "gone"} /\ f \in File
    BY <1>4, <1>6 DEF DurabilityInv, OneWriter
  <2>2. CASE f \in verified
    BY <1>1, <1>5, <2>1, <2>2 DEF MediumFollows
  <2>3. CASE f \notin verified
    <3>1. /\ f = wfile[p] /\ pc[p] = "verifying"
          /\ disk[f] = "whole" /\ disk'[f] = "whole" /\ crashes' = crashes
      BY <1>3, <2>3 DEF Moves
    <3>2. names[f] = {"whole"}
      BY <1>1, <1>7, <3>1 DEF SyncedFirst
    <3> QED
      BY <1>5, <2>1, <3>1, <3>2
  <2> QED
    BY <2>2, <2>3
<1>10. MediumFollows'
  <2>1. ASSUME NEW f \in File
        PROVE  /\ disk'[f] \in names'[f]
               /\ f >= nextFile' => names'[f] = {"unused"}
               /\ names'[f] \cap {"temp", "whole"} # {} => f \in synced'
               /\ "gone" \in names'[f] => disk'[f] = "gone"
               /\ f <= NumForeign + NumEmpty =>
                    names'[f] \subseteq {"foreign", "whole", "gone"}
    <3>1. /\ disk[f] \in names[f]
          /\ f >= nextFile => names[f] = {"unused"}
          /\ names[f] \cap {"temp", "whole"} # {} => f \in synced
          /\ "gone" \in names[f] => disk[f] = "gone"
          /\ f <= NumForeign + NumEmpty =>
               names[f] \subseteq {"foreign", "whole", "gone"}
      BY <1>1 DEF MediumFollows
    <3>2. \/ disk'[f] = disk[f]
          \/ disk[f] = "unused" /\ disk'[f] = "temp"
          \/ disk[f] = "temp"
          \/ disk'[f] = "gone"
      BY <1>3 DEF Moves
    <3>3. disk[f] = "gone" => disk'[f] = "gone"
      BY <3>2
    <3>4. f >= nextFile' => names'[f] = {"unused"}
      <4>1. f >= nextFile' => disk'[f] = "unused"
        BY <1>4 DEF DurabilityInv, NamesInOrder
      <4>2. nextFile' \in {nextFile, nextFile + 1}
        BY <1>1, <1>2, DirFrame
      <4>3. nextFile \in Nat /\ f \in Nat
        BY <1>1, WalDirAssumption, FileType DEF TypeOK, DirTypeOK
      <4>4. f >= nextFile' => f >= nextFile
        BY ONLY <4>2, <4>3
      <4> QED
        BY <1>5, <3>1, <4>1, <4>4
    <3> QED
      BY <1>5, <3>1, <3>2, <3>3, <3>4
  <2> QED
    BY <1>9, <2>1 DEF MediumFollows
<1>11. SyncedFirst'
  <2> SUFFICES ASSUME NEW q \in Proc, dirSynced'[q]
               PROVE  /\ pc'[q] = "verifying"
                      /\ disk'[wfile'[q]] = "whole" => names'[wfile'[q]] = {"whole"}
    BY DEF SyncedFirst
  <2>1. q # p
    BY <1>1, <1>3, <1>5 DEF Moves, SyncedFirst
  <2>2. pc'[q] = "verifying" /\ pc[q] = "verifying" /\ wfile'[q] = wfile[q]
    BY <1>1, <1>3, <1>5, <2>1 DEF Moves, SyncedFirst
  <2>3. PICK f \in File : f = wfile[q]
    BY <1>6, <2>2
  <2>4. disk[f] = "whole" => names[f] = {"whole"}
    BY <1>1, <1>5, <2>1, <2>3 DEF SyncedFirst
  <2>5. pc[p] = "renaming" => f # wfile[p]
    BY <1>1, <1>6, <2>1, <2>3 DEF DurabilityInv, OneWriter
  <2>6. disk'[f] = "whole" => disk[f] = "whole"
    BY <1>3, <2>5 DEF Moves
  <2> QED
    BY <1>5, <2>2, <2>3, <2>4, <2>6
<1>12. MediumOffers'
  <2> SUFFICES ASSUME NEW f \in verified', NEW o \in content'[f]
               PROVE  \E k \in verified' : /\ k >= f /\ Survives(k)' = {"whole"}
                                            /\ Covers(content'[k], o)
    BY DEF MediumOffers
  <2>1. \A g \in verified' : names'[g] = {"whole"} => Survives(g)' = {"whole"}
    BY <1>6, <1>10 DEF MediumFollows, Survives
  <2>2. f \in Nat /\ verified \subseteq verified'
    BY <1>1, <1>2, <1>6, FileType, DirFrame
  <2>3. CASE f \notin verified
    BY <1>9, <2>1, <2>2, <2>3, MemberCovers
  <2>4. CASE f \in verified
    <3>1. \A g \in verified : content'[g] = content[g]
      <4>1. \A g \in verified : disk[g] # "unused"
        BY <1>1 DEF DurabilityInv, OneWriter
      <4>2. \A g \in verified : g < nextFile
        BY <1>1, <1>6, <4>1, TakenName DEF DurabilityInv
      <4> QED
        BY <1>1, <1>2, <1>6, <4>2, DirFrame
    <3>2. o \in content[f] /\ o \in Op
      BY <1>1, <1>6, <2>4, <3>1 DEF TypeOK, DirTypeOK
    <3>3. PICK h \in verified : h >= f /\ Survives(h) = {"whole"} /\ Covers(content[h], o)
      BY <1>1, <2>4, <3>2 DEF MediumOffers
    <3>4. PICK k \in verified : /\ k >= h /\ disk'[k] = "whole"
                                /\ Survives(k) = {"whole"} /\ Covers(content[k], o)
      BY <1>2, <3>2, <3>3, OfferStays
    <3>5. k >= f
      <4>1. k \in Nat /\ h \in Nat
        BY <1>6, FileType
      <4> QED
        BY ONLY <2>2, <3>3, <3>4, <4>1
    <3>6. names'[k] = {"whole"}
      BY <1>5, <1>6, <3>4, SurvivesNames
    <3> QED
      BY <2>1, <2>2, <3>1, <3>4, <3>5, <3>6
  <2> QED
    BY <2>3, <2>4
<1> QED
  BY <1>4, <1>8, <1>10, <1>11, <1>12 DEF PowerInv

(* An fsync of the directory brings every name to the medium. *)
LEMMA SyncDirKeepsPower ==
  ASSUME PowerInv, NEW p \in Proc, SyncDir(p)
  PROVE  PowerInv'
<1>1. /\ TypeOK /\ DurabilityInv /\ PowerTypeOK /\ MediumFollows /\ SyncedFirst
      /\ MediumOffers
  BY DEF PowerInv
<1>2. /\ [Next]_vars /\ UNCHANGED <<disk, content, nextFile, pc, wfile, verified, synced>>
      /\ names' = [f \in File |-> {disk[f]}]
      /\ pc[p] = "verifying" /\ losses' = losses
      /\ dirSynced' = [dirSynced EXCEPT ![p] = TRUE]
  BY DEF SyncDir, MustSyncDir, NamesOnMedium, vars, dirVars
<1>3. TypeOK' /\ DurabilityInv'
  BY <1>1, <1>2, TypeNext, DurabilityNext
<1>4. /\ disk \in [File -> Status] /\ verified \subseteq File
      /\ \A q \in Proc : pc[q] = "verifying" => wfile[q] \in File
  BY <1>1 DEF TypeOK, DirTypeOK
<1>5. PowerTypeOK' /\ SyncedFirst'
  BY <1>1, <1>2, <1>4 DEF PowerTypeOK, SyncedFirst
<1>6. \A f \in File : /\ disk[f] \in names[f] /\ names'[f] = {disk[f]}
                      /\ f >= nextFile => disk[f] = "unused"
  BY <1>1, <1>2 DEF MediumFollows, DurabilityInv, NamesInOrder
<1>7. MediumFollows'
  BY <1>1, <1>2, <1>4, <1>6 DEF MediumFollows
<1>8. MediumOffers'
  <2>1. ASSUME NEW h \in verified, Survives(h) = {"whole"}
        PROVE  Survives(h)' = {"whole"}
    <3>1. names[h] = {"whole"} /\ h \in File
      BY <1>4, <2>1, SurvivesNames
    <3>2. names'[h] = {"whole"} /\ h \in synced
      BY <1>1, <1>6, <3>1 DEF MediumFollows
    <3> QED
      BY <1>2, <3>2 DEF Survives
  <2> QED
    BY <1>1, <1>2, <2>1 DEF MediumOffers
<1> QED
  BY <1>3, <1>5, <1>7, <1>8 DEF PowerInv

(* The machine comes back with what the medium has, and no process. *)
LEMMA LosePowerKeepsPower ==
  ASSUME PowerInv, LosePower
  PROVE  /\ PowerInv'
         /\ \A f \in File : disk'[f] \in names[f]
<1>1. /\ TypeOK /\ DurabilityInv /\ PowerTypeOK /\ MediumFollows /\ SyncedFirst
      /\ MediumOffers
  BY DEF PowerInv
<1>2. /\ UNCHANGED <<content, nextFile, faults, verified, synced, crashes, compactions>>
      /\ disk' \in [File -> Status]
      /\ \A f \in File : disk'[f] \in names[f]
      /\ names' = [f \in File |-> {disk'[f]}]
  <2> DEFINE unsure == {f \in File : Survives(f) # {disk[f]}}
  <2>1. PICK back \in [unsure -> Status] :
          /\ \A f \in unsure : back[f] \in Survives(f)
          /\ disk' = [f \in File |-> IF f \in unsure THEN back[f] ELSE disk[f]]
          /\ names' = [f \in File |-> {disk'[f]}]
    BY DEF LosePower
  <2>2. \A f \in File : disk[f] \in names[f] /\ disk[f] \in Status
    BY <1>1 DEF MediumFollows, TypeOK, DirTypeOK
  <2>3. disk' \in [File -> Status] /\ \A f \in File : disk'[f] \in names[f]
    BY <2>1, <2>2, SurvivesNames
  <2> QED
    BY <2>1, <2>3 DEF LosePower
<1>3. /\ \A p \in Proc : /\ pc'[p] = "idle" /\ todo'[p] = {} /\ wfile'[p] = NoFile
                         /\ dirSynced'[p] = FALSE
      /\ \A c \in Compactor : merged'[c] = {} /\ sources'[c] = {}
  BY DEF LosePower
<1>4. TypeOK'
  <2>1. DirTypeOK'
    BY <1>1, <1>2 DEF LosePower, TypeOK, DirTypeOK, PC
  <2>2. /\ current' \in [Session -> SUBSET Op]
        /\ outbox' \in [Session -> SUBSET Op]
        /\ lastTx' \in [Session -> Tx \cup {NoTx}]
        /\ processed' \in [Session -> SUBSET File]
        /\ failing' \in [Session -> SUBSET File]
        /\ batch' \in [Session -> SUBSET Op]
        /\ own' \in [Session -> SUBSET Op]
        /\ merged' \in [Compactor -> SUBSET Op]
        /\ sources' \in [Compactor -> SUBSET File]
        /\ \A s \in Session : batch'[s] = {} /\ failing'[s] = {} /\ processed'[s] = {}
    BY DEF LosePower
  <2>3. crashes' \in 0 .. MaxCrashes /\ compactions' \in 0 .. MaxCompactions
    BY <1>1, <1>2 DEF TypeOK
  <2> QED
    BY <1>3, <2>1, <2>2, <2>3 DEF TypeOK
<1>5. \A f \in verified : \A o \in content[f] : \E h \in verified :
        /\ h >= f /\ names[h] = {"whole"} /\ h \in synced
        /\ Covers(content[h], o)
  <2>1. \A h \in verified : h \in File /\ Survives(h) = names[h]
    BY <1>1, SurvivesNames DEF TypeOK, DirTypeOK
  <2>2. \A h \in verified : names[h] = {"whole"} => h \in synced
    BY <1>1, <2>1 DEF MediumFollows
  <2> QED
    BY <1>1, <2>1, <2>2 DEF MediumOffers
<1>6. \A h \in verified : names[h] = {"whole"} => disk'[h] = "whole" /\ names'[h] = {"whole"}
  BY <1>1, <1>2 DEF TypeOK, DirTypeOK
<1>7. DurabilityInv'
  <2>1. NamesInOrder'
    <3>1. NoFile < nextFile
      BY <1>1 DEF NoFile, TypeOK, DirTypeOK
    <3> QED
      BY <1>1, <1>2, <1>3, <3>1 DEF NamesInOrder, MediumFollows
  <2>2. OneWriter'
    <3>1. NoFile \notin verified /\ verified \subseteq File
      BY <1>1, FileType DEF TypeOK, DirTypeOK
    <3> QED
      BY <1>1, <1>2, <1>3, <3>1 DEF OneWriter, MediumFollows
  <2>3. SourcesCarried'
    BY <1>3 DEF SourcesCarried, CarriesSources, Proc
  <2>4. StillOffered'
    BY <1>2, <1>5, <1>6 DEF StillOffered
  <2> QED
    BY <2>1, <2>2, <2>3, <2>4 DEF DurabilityInv
<1>8. PowerTypeOK' /\ SyncedFirst'
  <2>1. names' \in [File -> SUBSET Status]
    BY <1>2
  <2>2. dirSynced' \in [Proc -> BOOLEAN]
    BY DEF LosePower
  <2>3. losses' \in Nat
    BY <1>1 DEF LosePower, PowerTypeOK
  <2> QED
    BY <1>1, <1>2, <1>3, <2>1, <2>2, <2>3 DEF PowerTypeOK, SyncedFirst
<1>9. MediumFollows'
  <2>1. verified \subseteq File
    BY <1>1 DEF TypeOK, DirTypeOK
  <2> QED
    BY <1>1, <1>2, <2>1 DEF MediumFollows
<1>10. MediumOffers'
  <2>1. \A h \in verified : names[h] = {"whole"} /\ h \in synced => Survives(h)' = {"whole"}
    BY <1>2, <1>6 DEF Survives
  <2> QED
    BY <1>2, <1>5, <2>1 DEF MediumOffers
<1> QED
  BY <1>2, <1>4, <1>7, <1>8, <1>9, <1>10 DEF PowerInv

(* Every step keeps PowerInv. *)
LEMMA PowerNext ==
  ASSUME PowerInv, [NextPower]_<<vars, powerVars>>
  PROVE  PowerInv'
<1>1. CASE LosePower
  BY <1>1, LosePowerKeepsPower
<1>2. ASSUME NEW p \in Proc, ProcessStep(p) \/ SyncDir(p)
      PROVE  PowerInv'
  BY <1>2, ProcessKeepsPower, SyncDirKeepsPower
<1>3. CASE UNCHANGED <<vars, powerVars>>
  <2>1. /\ [Next]_vars /\ UNCHANGED <<disk, content, nextFile, pc, wfile, verified>>
        /\ UNCHANGED <<synced, names, dirSynced, losses>>
    BY <1>3 DEF vars, dirVars, powerVars
  <2>2. TypeOK' /\ DurabilityInv'
    BY <2>1, TypeNext, DurabilityNext DEF PowerInv
  <2>3. (PowerTypeOK /\ MediumFollows /\ SyncedFirst /\ MediumOffers)'
    BY <2>1 DEF PowerInv, PowerTypeOK, MediumFollows, SyncedFirst, MediumOffers, Survives
  <2> QED
    BY <2>2, <2>3 DEF PowerInv
<1> QED
  BY <1>1, <1>2, <1>3 DEF NextPower

(* What the medium has, in every state: what a process relies on is there,
   whenever the power goes (wal.rs `write_verified`). *)
THEOREM PowerInvariant == SpecPower => []PowerInv
<1>1. PowerInv /\ [NextPower]_<<vars, powerVars>> => PowerInv'
  BY PowerNext
<1> QED
  BY <1>1, PowerInit, PTL DEF SpecPower

(* Whatever flush() acknowledged or a compactor verified, the medium has a
   file that holds or supersedes it, at every moment, before, between and
   after the removals of compactors (wal.rs `write_verified`). *)
THEOREM AcknowledgedIsOnMedium == SpecPower => []DurableOnMedium
<1>1. PowerInv => DurableOnMedium
  <2> SUFFICES ASSUME PowerInv, NEW f \in verified, NEW o \in content[f]
               PROVE  Covers(OnMedium, o)
    BY DEF DurableOnMedium
  <2>1. PICK h \in verified : Survives(h) = {"whole"} /\ Covers(content[h], o)
    BY DEF PowerInv, MediumOffers
  <2>2. content[h] \subseteq OnMedium
    BY <2>1 DEF OnMedium, PowerInv, TypeOK, DirTypeOK
  <2> QED
    BY <2>1, <2>2, CoversMonotone
<1> QED
  BY <1>1, PowerInvariant, PTL

(* Losses of power included, nothing verified is lost to those who read the
   directory afterwards. *)
THEOREM NothingIsLostWithPower == SpecPower => []Durability
<1>1. PowerInv => Durability
  BY OfferedIsOnDisk DEF PowerInv
<1> QED
  BY <1>1, PowerInvariant, PTL

(* A listed file that a process relies on is listed after a loss of power. *)
LEMMA ReliedStays ==
  ASSUME PowerInv, LosePower, NEW f \in File, f \in Listed, Relied(f)
  PROVE  f \in Listed'
<1>1. disk'[f] \in names[f]
  BY LosePowerKeepsPower
<1>2. "gone" \notin names[f] /\ names[f] \subseteq {"foreign", "whole", "gone"}
  BY DEF PowerInv, MediumFollows, Relied, Listed
<1> QED
  BY <1>1, <1>2 DEF Listed

(* What a process takes out of the directory it has removed. *)
LEMMA LeavesByRemoval ==
  ASSUME PowerInv, NEW p \in Proc, ProcessStep(p),
         NEW f \in File, f \in Listed, f \notin Listed'
  PROVE  disk'[f] = "gone"
<1>1. Moves(p)
  BY ProcessMoves DEF PowerInv, ProcessStep
<1> QED
  BY <1>1 DEF Moves, Listed

(* Losses of power included, a listed file goes only if its writer found it
   bad, or if its ops stay covered, or with the power, if nobody was told of
   it and it was not there from the start. *)
THEOREM PowerTakesOnlyUntold == SpecPower => LeavesOnlyIfCarried
<1> DEFINE Step == \A f \in File :
             f \in Listed /\ f \notin Listed' /\ (\A p \in Proc : ~Discards(p, f)) =>
               \/ losses' > losses /\ ~Relied(f)
               \/ /\ losses' = losses /\ disk[f] = "whole"
                  /\ \A o \in content[f] : Covers(DiskOps', o)
<1>1. ASSUME PowerInv, [NextPower]_<<vars, powerVars>>,
             NEW f \in File, f \in Listed, f \notin Listed',
             \A p \in Proc : ~Discards(p, f)
      PROVE  \/ losses' > losses /\ ~Relied(f)
             \/ /\ losses' = losses /\ disk[f] = "whole"
                /\ \A o \in content[f] : Covers(DiskOps', o)
  <2>1. CASE LosePower
    <3>1. losses' > losses
      BY <1>1, <2>1 DEF LosePower, PowerInv, PowerTypeOK
    <3> QED
      BY <1>1, <2>1, <3>1, ReliedStays
  <2>2. ASSUME NEW p \in Proc, ProcessStep(p)
        PROVE  /\ losses' = losses /\ disk[f] = "whole"
               /\ \A o \in content[f] : Covers(DiskOps', o)
    <3>1. disk'[f] = "gone"
      BY <1>1, <2>2, LeavesByRemoval
    <3>2. [Next]_vars /\ losses' = losses
      BY <2>2 DEF ProcessStep, Next
    <3> QED
      BY <1>1, <3>1, <3>2, RemovalIsCarried DEF PowerInv, CarriedRemoval
  <2>3. ASSUME UNCHANGED disk
        PROVE  FALSE
    BY <1>1, <2>3 DEF Listed
  <2> QED
    BY <1>1, <2>1, <2>2, <2>3 DEF NextPower, SyncDir, vars, dirVars
<1>2. PowerInv /\ [NextPower]_<<vars, powerVars>> => [Step]_<<vars, powerVars>>
  BY <1>1
<1>3. SpecPower => [][Step]_<<vars, powerVars>>
  BY <1>2, PowerInvariant, PTL DEF SpecPower
<1> QED
  BY <1>3 DEF LeavesOnlyIfCarried

-----------------------------------------------------------------------------
(* Without an IO fault no name the medium has is that of a bad file. *)
NoTornOnMedium ==
  faults = 0 => NoBadFiles /\ \A f \in File : "torn" \notin names[f]

(* Without a fault no step puts a cut file on the medium. *)
LEMMA NoTornStep ==
  ASSUME PowerInv, NoTornOnMedium, [NextPower]_<<vars, powerVars>>
  PROVE  NoTornOnMedium'
<1> SUFFICES ASSUME faults' = 0
             PROVE  NoBadFiles' /\ \A f \in File : "torn" \notin names'[f]
  BY DEF NoTornOnMedium
<1>1. TypeOK
  BY DEF PowerInv
<1>2. CASE LosePower
  <2>1. faults = 0 /\ names' = [f \in File |-> {disk'[f]}]
    BY <1>2 DEF LosePower
  <2>2. \A f \in File : disk'[f] # "torn"
    BY <1>2, <2>1, LosePowerKeepsPower DEF NoTornOnMedium
  <2>3. \A p \in Proc : pc'[p] = "idle"
    BY <1>2 DEF LosePower
  <2> QED
    BY <2>1, <2>2, <2>3 DEF NoBadFiles
<1>3. CASE /\ [Next]_vars
           /\ \A f \in File : names'[f] \subseteq names[f] \cup {disk[f], disk'[f]}
  <2>1. faults = 0 /\ faults' = faults
    <3>1. faults \in Nat
      BY <1>1, WalDirAssumption DEF TypeOK, DirTypeOK
    <3> QED
      BY <1>1, <1>3, <3>1, DirFrame
  <2>2. NoBadFiles /\ \A f \in File : "torn" \notin names[f]
    BY <2>1 DEF NoTornOnMedium
  <2>3. NoBadFiles'
    BY <1>1, <1>3, <2>1, <2>2, NoBadFilesStep
  <2> QED
    BY <1>3, <2>2, <2>3 DEF NoBadFiles
<1>4. ASSUME NEW p \in Proc, ProcessStep(p) \/ SyncDir(p)
      PROVE  /\ [Next]_vars
             /\ \A f \in File : names'[f] \subseteq names[f] \cup {disk[f], disk'[f]}
  BY <1>4 DEF ProcessStep, SyncDir, NamesOnMedium, Next
<1>5. CASE UNCHANGED <<vars, powerVars>>
  BY <1>3, <1>5 DEF powerVars
<1> QED
  BY <1>2, <1>3, <1>4, <1>5 DEF NextPower

(* On a machine that fsyncs what it is told to, no file comes back cut or
   zeroed under its final name, whoever was writing when the power went. *)
THEOREM NoFileComesBackCut == SpecPower => [](faults = 0 => NoTornNames)
<1>1. InitPower => NoTornOnMedium
  BY DEF InitPower, Init, InitDir, NoTornOnMedium, NoBadFiles
<1>2. PowerInv /\ NoTornOnMedium /\ [NextPower]_<<vars, powerVars>> => NoTornOnMedium'
  BY NoTornStep
<1>3. NoTornOnMedium => (faults = 0 => NoTornNames)
  BY DEF NoTornOnMedium, NoBadFiles, NoTornNames
<1> QED
  BY <1>1, <1>2, <1>3, PowerInvariant, PTL DEF SpecPower

=============================================================================
