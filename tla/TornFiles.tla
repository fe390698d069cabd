------------------------------ MODULE TornFiles ------------------------------
(***************************************************************************)
(* Why the other modules may tell files by a status: the files Walburg     *)
(* writes, seen cell by cell.                                              *)
(***************************************************************************)
EXTENDS Walburg, WalFile

CONSTANT MaxFileOps   \* bound: the ops of the files looked into

ASSUME TornFilesAssumption == MaxFileOps \in Nat

Parsed == [n \in 0 .. MaxFileOps |-> NeverMisread(n) /\ WholeParses(n)]

(***************************************************************************)
(* A file that has not fully arrived fails to parse or gives all its ops,  *)
(* and one that is whole parses: a reader never marks as processed, and a  *)
(* compactor never removes, a file of which it took only a part (wal.rs    *)
(* `read_wal_file`).                                                       *)
(***************************************************************************)
TornNeverMisread ==
  \A f \in File :
    LET n == Cardinality(content[f])
    IN  disk[f] \in {"torn", "whole"} /\ n <= MaxFileOps => Parsed[n]

=============================================================================
