------------------------------- MODULE WalDir -------------------------------
(***************************************************************************)
(* The shared directory of WAL files and the one way the program adds a    *)
(* file to it: write_verified of src/wal.rs, run by a session that flushes *)
(* and by a compactor.                                                     *)
(*                                                                         *)
(* A file is a number, given in the order in which names are chosen; the   *)
(* ULID in the real name makes it fresh, and nothing below compares two    *)
(* numbers.  A file is                                                     *)
(*   unused    not created yet                                             *)
(*   temp      .{name}.tmp, which no listing shows                         *)
(*   whole     under its final name, and parses                            *)
(*   torn      under its final name, but not fully arrived or damaged: its *)
(*             hash is wrong and it does not parse                         *)
(*   foreign   of another schema version                                   *)
(*   gone      removed                                                     *)
(* content keeps what was written to the file, also after it is gone.      *)
(***************************************************************************)
EXTENDS Merge

CONSTANTS
  Session,     \* the stores open on the directory
  Compactor,   \* the callers of compact()
  NumForeign,  \* files of another version found in the directory
  NumEmpty,    \* v3 files with no op (n = 0) found in the directory
  MaxFiles,    \* bound: names ever chosen, the files found included
  MaxFaults    \* bound: IO faults in a behaviour

Proc   == Session \cup Compactor
File   == 1 .. MaxFiles
NoFile == 0
Status == {"unused", "temp", "whole", "torn", "foreign", "gone"}
PC     == {"idle", "reading", "renaming", "verifying", "discarding", "deleting"}

ASSUME WalDirAssumption ==
  /\ NumForeign \in Nat /\ NumEmpty \in Nat /\ MaxFiles \in Nat /\ MaxFaults \in Nat
  /\ NumForeign + NumEmpty <= MaxFiles
  /\ Session \cap Compactor = {}

VARIABLES
  disk,      \* file -> status
  content,   \* file -> the ops written to it
  nextFile,  \* the next name
  faults,    \* how many IO faults happened
  pc,        \* process -> where its current call stands
  todo,      \* process -> listed files its call has still to read
  wfile,     \* process -> the file its call is writing
  verified   \* history: the files write_verified returned Ok for

dirVars == <<disk, content, nextFile, faults, pc, todo, wfile, verified>>

InitDir ==
  /\ disk = [f \in File |-> IF f <= NumForeign THEN "foreign"
                            ELSE IF f <= NumForeign + NumEmpty THEN "whole"
                            ELSE "unused"]
  /\ content = [f \in File |-> {}]
  /\ nextFile = NumForeign + NumEmpty + 1
  /\ faults = 0
  /\ pc = [p \in Proc |-> "idle"]
  /\ todo = [p \in Proc |-> {}]
  /\ wfile = [p \in Proc |-> NoFile]
  /\ verified = {}

-----------------------------------------------------------------------------
\* What list_wal_files shows: every .wal file, hidden ones excepted.
Listed == {f \in File : disk[f] \in {"whole", "torn", "foreign"}}

WholeFiles == {f \in File : disk[f] = "whole"}

\* The ops a reader could read now.
DiskOps == UNION {content[f] : f \in WholeFiles}

Fault == faults < MaxFaults /\ faults' = faults + 1

Goto(p, label) == pc' = [pc EXCEPT ![p] = label]

\* read_wal_file told by its outcome: the ops, NotFound, or another error,
\* which a file that parses may also give, now and then.
ReadsWhole(f)   == disk[f] = "whole" /\ UNCHANGED faults
ReadsMissing(f) == disk[f] = "gone" /\ UNCHANGED faults
ReadsBad(f) ==
  \/ disk[f] \in {"torn", "foreign"} /\ UNCHANGED faults
  \/ disk[f] = "whole" /\ Fault

\* A listing, and the removal of a file from it once it is read.
List(p, files) ==
  /\ pc[p] = "idle"
  /\ todo' = [todo EXCEPT ![p] = files]
  /\ Goto(p, "reading")
  /\ UNCHANGED <<disk, content, nextFile, faults, wfile, verified>>

TakeListed(p, f) ==
  /\ pc[p] = "reading"
  /\ f \in todo[p]
  /\ todo' = [todo EXCEPT ![p] = @ \ {f}]
  /\ UNCHANGED <<disk, content, nextFile, pc, wfile, verified>>

-----------------------------------------------------------------------------
(***************************************************************************)
(* write_verified: stream the ops to a temporary file, rename it, read it  *)
(* back.  Each step may fail, and other processes run between the steps.   *)
(***************************************************************************)
WriteTemp(p, ops) ==
  /\ nextFile <= MaxFiles
  /\ disk' = [disk EXCEPT ![nextFile] = "temp"]
  /\ content' = [content EXCEPT ![nextFile] = ops]
  /\ wfile' = [wfile EXCEPT ![p] = nextFile]
  /\ nextFile' = nextFile + 1
  /\ Goto(p, "renaming")
  /\ UNCHANGED <<faults, todo, verified>>

\* The rename; a share may show other machines less than was written.
Rename(p) ==
  /\ pc[p] = "renaming"
  /\ \/ /\ disk' = [disk EXCEPT ![wfile[p]] = "whole"]
        /\ UNCHANGED faults
     \/ /\ disk' = [disk EXCEPT ![wfile[p]] = "torn"]
        /\ Fault
  /\ Goto(p, "verifying")
  /\ UNCHANGED <<content, nextFile, todo, wfile, verified>>

\* Writing or renaming the temporary file failed: it is removed, Err.
RenameFails(p) ==
  /\ pc[p] = "renaming"
  /\ Fault
  /\ disk' = [disk EXCEPT ![wfile[p]] = "gone"]
  /\ wfile' = [wfile EXCEPT ![p] = NoFile]
  /\ Goto(p, "idle")
  /\ UNCHANGED <<content, nextFile, todo, verified>>

\* The hash of the file read back is right: Ok.
VerifyOk(p) ==
  /\ pc[p] = "verifying"
  /\ disk[wfile[p]] = "whole"
  /\ verified' = verified \cup {wfile[p]}
  /\ UNCHANGED <<disk, content, nextFile, faults, todo>>

\* The file cannot be opened, because a compactor took it already, or the
\* read fails: Err, and the file, if any, stays.
VerifyUnreadable(p) ==
  /\ pc[p] = "verifying"
  /\ \/ disk[wfile[p]] = "gone" /\ UNCHANGED faults
     \/ disk[wfile[p]] # "gone" /\ Fault
  /\ wfile' = [wfile EXCEPT ![p] = NoFile]
  /\ Goto(p, "idle")
  /\ UNCHANGED <<disk, content, nextFile, todo, verified>>

VerifyMismatch(p) ==
  /\ pc[p] = "verifying"
  /\ disk[wfile[p]] = "torn"
  /\ Goto(p, "discarding")
  /\ UNCHANGED <<disk, content, nextFile, faults, todo, wfile, verified>>

\* Our own file, known bad: remove it if that works, Err.
Discard(p) ==
  /\ pc[p] = "discarding"
  /\ \/ disk' = [disk EXCEPT ![wfile[p]] = "gone"] /\ UNCHANGED faults
     \/ UNCHANGED disk /\ Fault
  /\ wfile' = [wfile EXCEPT ![p] = NoFile]
  /\ Goto(p, "idle")
  /\ UNCHANGED <<content, nextFile, todo, verified>>

\* The steps in which write_verified goes on or fails.
WriteStep(p) ==
  \/ Rename(p)
  \/ RenameFails(p)
  \/ VerifyUnreadable(p)
  \/ VerifyMismatch(p)
  \/ Discard(p)

\* A file that had not fully arrived arrives.
Land(f) ==
  /\ disk[f] = "torn"
  /\ disk' = [disk EXCEPT ![f] = "whole"]
  /\ UNCHANGED <<content, nextFile, faults, pc, todo, wfile, verified>>

\* The process stops in the middle of whatever it was doing.  What it wrote
\* stays, a temporary file included.
Die(p) ==
  /\ pc' = [pc EXCEPT ![p] = "idle"]
  /\ todo' = [todo EXCEPT ![p] = {}]
  /\ wfile' = [wfile EXCEPT ![p] = NoFile]
  /\ UNCHANGED <<disk, content, nextFile, faults, verified>>

-----------------------------------------------------------------------------
\* The calls under way are at a known place, and write to a file of theirs.
DirTypeOK ==
  /\ disk \in [File -> Status]
  /\ content \in [File -> SUBSET Op]
  /\ nextFile \in 1 .. MaxFiles + 1
  /\ faults \in 0 .. MaxFaults
  /\ pc \in [Proc -> PC]
  /\ todo \in [Proc -> SUBSET File]
  /\ wfile \in [Proc -> File \cup {NoFile}]
  /\ verified \subseteq File

=============================================================================
