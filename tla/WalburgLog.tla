----------------------------- MODULE WalburgLog -----------------------------
(***************************************************************************)
(* Walburg implements SharedLog.  The log is the merge of the files that   *)
(* can be read and that no writer has still to verify: until then its      *)
(* writer may remove a file again, so a session may learn from it but it   *)
(* is not in the log.                                                      *)
(***************************************************************************)
EXTENDS Walburg

InDoubt(f) == \E p \in Proc : wfile[p] = f

LogOps == UNION {content[f] : f \in {g \in WholeFiles : ~InDoubt(g)}}

Log == INSTANCE SharedLog WITH
         written <- (UNION {content[f] : f \in File}) \cup (UNION {outbox[s] : s \in Session}),
         log     <- Winners(LogOps),
         view    <- current,
         owed    <- outbox

(***************************************************************************)
(* Sessions and compactors of any number, with writes that fail, files     *)
(* that arrive late and crashes at any step, behave as if all wrote to one *)
(* merged log that only grows: removing, merging and stripping files never *)
(* shows, and a flush that returns Ok has brought every edit to the log    *)
(* (wal.rs `compact`, store.rs `flush`, README.md "Compaction").           *)
(***************************************************************************)
ImplementsLog == Log!Spec

=============================================================================
