----------------------------- MODULE PowerLoss -----------------------------
(***************************************************************************)
(* Walburg on one machine that may lose power.  What processes see is the  *)
(* page cache (disk); the medium may lag behind it: the content of a file  *)
(* is safe from its fsync on, and a name from an fsync of the directory    *)
(* on.  Until then any of the steps that changed the name may or may not   *)
(* be on the medium, in any combination, as POSIX allows.                  *)
(*                                                                         *)
(* fsync is honoured here.  With set_fsync(false), or on a medium that     *)
(* refuses it, write_verified reads its file back from the cache and       *)
(* promises nothing after a loss of power; that is the mutants' case.      *)
(***************************************************************************)
EXTENDS Walburg

CONSTANT MaxLosses   \* bound: losses of power

ASSUME PowerLossAssumption == MaxLosses \in Nat

VARIABLES
  synced,      \* the files whose content is on the medium
  names,       \* file -> the statuses the medium may show for it
  dirSynced,   \* process -> has the call under way fsynced the directory?
  losses

powerVars == <<synced, names, dirSynced, losses>>

InitPower ==
  /\ Init
  /\ synced = {f \in File : disk[f] = "whole"}
  /\ names = [f \in File |-> {disk[f]}]
  /\ dirSynced = [p \in Proc |-> FALSE]
  /\ losses = 0

-----------------------------------------------------------------------------
\* Mutant: set_fsync(false).
SyncNothing(written) == {}

\* sync_all on the temporary files just written, before they are renamed.
SyncContent(written) == written

\* The new name is not fsynced yet: the process does this next, or dies.
MustSyncDir(p) == pc[p] = "verifying" /\ ~dirSynced[p]

ProcessStep(p) ==
  /\ \/ p \in Session /\ SessionStep(p)
     \/ p \in Compactor /\ (CompactorStep(p) \/ CompactorCrash(p))
  /\ MustSyncDir(p) => crashes' > crashes
  /\ synced' = synced \cup SyncContent({f \in File : disk'[f] = "temp" /\ disk[f] # "temp"})
  /\ names' = [f \in File |-> names[f] \cup {disk'[f]}]
  /\ dirSynced' = [dirSynced EXCEPT ![p] = @ /\ pc'[p] = "verifying"]
  /\ UNCHANGED losses

\* Mutant: the rename is not made durable.
SyncDirNot(p) ==
  /\ MustSyncDir(p)
  /\ dirSynced' = [dirSynced EXCEPT ![p] = TRUE]
  /\ UNCHANGED <<names, synced, losses, vars>>

\* What sync_dir leaves on the medium: every change of a name so far, those of
\* other processes too.
NamesOnMedium == [f \in File |-> {disk[f]}]

\* The call of sync_dir, between the rename and the read-back.
SyncDir(p) ==
  /\ MustSyncDir(p)
  /\ dirSynced' = [dirSynced EXCEPT ![p] = TRUE]
  /\ names' = NamesOnMedium
  /\ UNCHANGED <<synced, losses, vars>>

\* What the medium has of a file: unsynced content may be cut or zeroed.
Survives(f) ==
  names[f] \cup (IF "whole" \in names[f] /\ f \notin synced THEN {"torn"} ELSE {})

\* All processes die and the machine comes back with what the medium has.
LosePower ==
  /\ losses < MaxLosses
  /\ losses' = losses + 1
  /\ LET unsure == {f \in File : Survives(f) # {disk[f]}}
     IN  \E back \in [unsure -> Status] :
           /\ \A f \in unsure : back[f] \in Survives(f)
           /\ disk' = [f \in File |-> IF f \in unsure THEN back[f] ELSE disk[f]]
           /\ names' = [f \in File |-> {disk'[f]}]
  /\ dirSynced' = [p \in Proc |-> FALSE]
  /\ pc' = [p \in Proc |-> "idle"]
  /\ todo' = [p \in Proc |-> {}]
  /\ wfile' = [p \in Proc |-> NoFile]
  /\ current' = [s \in Session |-> {}]
  /\ outbox' = [s \in Session |-> {}]
  /\ lastTx' = [s \in Session |-> NoTx]
  /\ processed' = [s \in Session |-> {}]
  /\ failing' = [s \in Session |-> {}]
  /\ batch' = [s \in Session |-> {}]
  /\ own' = [s \in Session |-> {}]
  /\ merged' = [c \in Compactor |-> {}]
  /\ sources' = [c \in Compactor |-> {}]
  /\ UNCHANGED <<content, nextFile, faults, verified, synced, crashes, compactions>>

NextPower == LosePower \/ \E p \in Proc : ProcessStep(p) \/ SyncDir(p)

SpecPower == InitPower /\ [][NextPower]_<<vars, powerVars>>

-----------------------------------------------------------------------------
(***************************************************************************)
(* Whatever flush() acknowledged or a compactor verified, and the power    *)
(* lost at any moment, before, between and after the removals a compactor  *)
(* makes, which no fsync follows: some file the medium would bring back    *)
(* holds or supersedes it (wal.rs `write_verified`: "Callers may only rely *)
(* on a file this function returned Ok for").                              *)
(***************************************************************************)
OnMedium == UNION {content[f] : f \in {g \in File : Survives(g) = {"whole"}}}

DurableOnMedium == \A f \in verified : \A o \in content[f] : Covers(OnMedium, o)

(***************************************************************************)
(* No file comes back cut or zeroed under its final name, not even one     *)
(* whose writer never got to read it back: its content is synced before it *)
(* gets the name (wal.rs `write_verified`, steps 2 and 3).                 *)
(***************************************************************************)
NoTornNames == \A f \in File : disk[f] # "torn"

(***************************************************************************)
(* Of the files a listing shows, one leaves the directory in three ways    *)
(* only: its own writer found it bad on read-back; a compactor removes it, *)
(* and the files that stay carry its ops; or the power goes before anyone  *)
(* was told of it, so that its name may be lost with it.  A file that was  *)
(* found in the directory, or that write_verified returned Ok for, is      *)
(* still there when the machine comes back (wal.rs `write_verified`,       *)
(* `compact`).                                                             *)
(***************************************************************************)
Relied(f) == f \in verified \/ f <= NumForeign + NumEmpty

LeavesOnlyIfCarried ==
  [][\A f \in File :
       f \in Listed /\ f \notin Listed' /\ (\A p \in Proc : ~Discards(p, f)) =>
         \/ losses' > losses /\ ~Relied(f)
         \/ /\ losses' = losses /\ disk[f] = "whole"
            /\ \A o \in content[f] : Covers(DiskOps', o)]_<<vars, powerVars>>

=============================================================================
