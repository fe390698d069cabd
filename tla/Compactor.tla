----------------------------- MODULE Compactor -----------------------------
(***************************************************************************)
(* compact() of src/wal.rs: read every file that parses, write their merge *)
(* to a new verified file, then delete exactly the files that were read.   *)
(* Nothing locks the directory, so several compactors may run at once.     *)
(***************************************************************************)
EXTENDS WalDir

CONSTANT MaxCompactions   \* bound: calls of compact()

ASSUME CompactorAssumption == MaxCompactions \in Nat

VARIABLES
  merged,      \* compactor -> its MergeState
  sources,     \* compactor -> source_files, less those removed already
  compactions  \* how many calls began

compactorVars == <<merged, sources, compactions>>

InitCompactor ==
  /\ merged = [c \in Compactor |-> {}]
  /\ sources = [c \in Compactor |-> {}]
  /\ compactions = 0

-----------------------------------------------------------------------------
CompactList(c) ==
  /\ compactions < MaxCompactions
  /\ compactions' = compactions + 1
  /\ List(c, Listed)
  /\ UNCHANGED <<merged, sources>>

\* Mutant: a file that could not be read is deleted with the others.
CompactReadAny(c, f) ==
  /\ TakeListed(c, f)
  /\ \/ ReadsWhole(f) /\ merged' = [merged EXCEPT ![c] = MergeOps(@, content[f])]
     \/ (ReadsMissing(f) \/ ReadsBad(f)) /\ UNCHANGED merged
  /\ sources' = [sources EXCEPT ![c] = @ \cup {f}]
  /\ UNCHANGED compactions

\* Mutant: the ops of the files are put together and not merged.
CompactReadConcat(c, f) ==
  /\ TakeListed(c, f)
  /\ \/ /\ ReadsWhole(f)
        /\ merged' = [merged EXCEPT ![c] = @ \cup content[f]]
        /\ sources' = [sources EXCEPT ![c] = @ \cup {f}]
     \/ /\ ReadsMissing(f) \/ ReadsBad(f)
        /\ UNCHANGED <<merged, sources>>
  /\ UNCHANGED compactions

CompactRead(c, f) ==
  /\ TakeListed(c, f)
  /\ \/ /\ ReadsWhole(f)
        /\ merged' = [merged EXCEPT ![c] = MergeOps(@, content[f])]
        /\ sources' = [sources EXCEPT ![c] = @ \cup {f}]
     \/ /\ ReadsMissing(f) \/ ReadsBad(f)
        /\ UNCHANGED <<merged, sources>>
  /\ UNCHANGED compactions

ReadAll(c) == pc[c] = "reading" /\ todo[c] = {}

\* Nothing was read: Ok(None).
CompactNothing(c) ==
  /\ ReadAll(c)
  /\ sources[c] = {}
  /\ Goto(c, "idle")
  /\ UNCHANGED <<disk, content, nextFile, faults, todo, wfile, verified>>
  /\ UNCHANGED compactorVars

\* Mutant: the sources are deleted without an output.
CompactNoOutput(c) ==
  /\ ReadAll(c)
  /\ sources[c] # {}
  /\ Goto(c, "deleting")
  /\ UNCHANGED <<disk, content, nextFile, faults, todo, wfile, verified>>
  /\ UNCHANGED compactorVars

\* Every source was readable and held no op: no output is needed.
CompactNoOps(c) ==
  /\ ReadAll(c)
  /\ sources[c] # {}
  /\ merged[c] = {}
  /\ Goto(c, "deleting")
  /\ UNCHANGED <<disk, content, nextFile, faults, todo, wfile, verified>>
  /\ UNCHANGED compactorVars

CompactWrite(c) ==
  /\ ReadAll(c)
  /\ merged[c] # {}
  /\ WriteTemp(c, merged[c])
  /\ UNCHANGED compactorVars

CompactWriteStep(c) ==
  /\ WriteStep(c)
  /\ IF pc'[c] = "idle"   \* Err: the call returns and deletes nothing
       THEN /\ merged' = [merged EXCEPT ![c] = {}]
            /\ sources' = [sources EXCEPT ![c] = {}]
       ELSE UNCHANGED <<merged, sources>>
  /\ UNCHANGED compactions

\* Mutant: the sources are deleted without a look at the output.
CompactUnverified(c) ==
  /\ pc[c] = "verifying"
  /\ wfile' = [wfile EXCEPT ![c] = NoFile]
  /\ Goto(c, "deleting")
  /\ UNCHANGED <<disk, content, nextFile, faults, todo, verified>>
  /\ UNCHANGED compactorVars

CompactVerified(c) ==
  /\ VerifyOk(c)
  /\ wfile' = [wfile EXCEPT ![c] = NoFile]
  /\ Goto(c, "deleting")
  /\ UNCHANGED compactorVars

\* An error of remove_file, of a file already gone for one, is ignored.
CompactDelete(c, f) ==
  /\ pc[c] = "deleting"
  /\ f \in sources[c]
  /\ sources' = [sources EXCEPT ![c] = @ \ {f}]
  /\ \/ disk' = [disk EXCEPT ![f] = "gone"] /\ UNCHANGED faults
     \/ UNCHANGED disk /\ Fault
  /\ UNCHANGED <<merged, compactions>>
  /\ UNCHANGED <<content, nextFile, pc, todo, wfile, verified>>

CompactDone(c) ==
  /\ pc[c] = "deleting"
  /\ sources[c] = {}
  /\ merged' = [merged EXCEPT ![c] = {}]
  /\ Goto(c, "idle")
  /\ UNCHANGED <<sources, compactions>>
  /\ UNCHANGED <<disk, content, nextFile, faults, todo, wfile, verified>>

CompactStep(c) ==
  \/ \E f \in File : CompactRead(c, f)
  \/ CompactNothing(c)
  \/ CompactNoOps(c)
  \/ CompactWrite(c)
  \/ CompactWriteStep(c)
  \/ CompactVerified(c)
  \/ \E f \in File : CompactDelete(c, f)
  \/ CompactDone(c)

NextCompactor(c) == CompactList(c) \/ CompactStep(c)

\* The compactor's process stops.
CompactDie(c) ==
  /\ Die(c)
  /\ merged' = [merged EXCEPT ![c] = {}]
  /\ sources' = [sources EXCEPT ![c] = {}]
  /\ UNCHANGED compactions

=============================================================================
