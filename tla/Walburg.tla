------------------------------ MODULE Walburg ------------------------------
(***************************************************************************)
(* The whole system: sessions and compactors on one shared directory.      *)
(***************************************************************************)
EXTENDS Store, Compactor

vars == <<dirVars, storeVars, compactorVars>>

Init == InitDir /\ InitStore /\ InitCompactor

SessionStep(s) == NextStore(s) /\ UNCHANGED compactorVars

CompactorStep(c) == NextCompactor(c) /\ UNCHANGED storeVars

CompactorCrash(c) ==
  /\ crashes < MaxCrashes
  /\ pc[c] # "idle"
  /\ crashes' = crashes + 1
  /\ CompactDie(c)
  /\ UNCHANGED <<current, outbox, lastTx, processed, failing, batch, own>>

FileArrives(f) == Land(f) /\ UNCHANGED <<storeVars, compactorVars>>

Next ==
  \/ \E s \in Session : SessionStep(s)
  \/ \E c \in Compactor : CompactorStep(c) \/ CompactorCrash(c)
  \/ \E f \in File : FileArrives(f)

Spec == Init /\ [][Next]_vars

(***************************************************************************)
(* Fairness.  A call that began returns, and the application goes on       *)
(* calling sync(), as every loop in the README, the examples and the tests *)
(* does.  Nothing is assumed of compactors, of writes and flushes, or of   *)
(* files that have not fully arrived.                                      *)
(***************************************************************************)
Fairness ==
  \A s \in Reader :
    /\ WF_vars(SyncList(s) /\ UNCHANGED compactorVars)
    /\ WF_vars((SyncApply(s) \/ \E f \in File : SyncRead(s, f)) /\ UNCHANGED compactorVars)
    /\ WF_vars((FlushOk(s) \/ FlushStep(s)) /\ UNCHANGED compactorVars)

FairSpec == Spec /\ Fairness

-----------------------------------------------------------------------------
\* The types; a call holds files and ops only while it needs them; and a file
\* a session has read is in quarantine no longer.
TypeOK ==
  /\ DirTypeOK
  /\ current \in [Session -> SUBSET Op]
  /\ outbox \in [Session -> SUBSET Op]
  /\ lastTx \in [Session -> Tx \cup {NoTx}]
  /\ processed \in [Session -> SUBSET File]
  /\ failing \in [Session -> SUBSET File]
  /\ batch \in [Session -> SUBSET Op]
  /\ own \in [Session -> SUBSET Op]
  /\ crashes \in 0 .. MaxCrashes
  /\ merged \in [Compactor -> SUBSET Op]
  /\ sources \in [Compactor -> SUBSET File]
  /\ compactions \in 0 .. MaxCompactions
  /\ \A p \in Proc :
       /\ todo[p] # {} => pc[p] = "reading"
       /\ wfile[p] # NoFile <=> pc[p] \in {"renaming", "verifying", "discarding"}
  /\ \A c \in Compactor :
       /\ pc[c] = "idle" => sources[c] = {}
       /\ sources[c] = {} /\ pc[c] # "deleting" => merged[c] = {}
  /\ \A s \in Session :
       /\ batch[s] # {} => pc[s] = "reading"
       /\ (failing[s] \cup todo[s]) \cap processed[s] = {}

(***************************************************************************)
(* Nothing verified is lost.  Whatever flush() acknowledged, and whatever  *)
(* a compactor carried over into a verified file, some readable file still *)
(* holds or supersedes, in every interleaving of flushes, compactors,      *)
(* crashes and faults (wal.rs `compact`, `write_verified`).                *)
(***************************************************************************)
Durability ==
  \A f \in verified : \A o \in content[f] : Covers(DiskOps, o)

(***************************************************************************)
(* A file leaves the directory in two ways only: its own writer found it   *)
(* bad on read-back, or a compactor removes it when the ops in it are      *)
(* covered by the files that stay.  A file that did not parse when the     *)
(* compactor read the directory is never removed by it, not even when it   *)
(* has fully arrived since.                                                *)
(***************************************************************************)
Discards(p, f) == pc[p] = "discarding" /\ wfile[p] = f

RemovedOnlyIfCarried ==
  [][\A f \in File :
       f \in Listed /\ disk'[f] = "gone" /\ (\A p \in Proc : ~Discards(p, f)) =>
         /\ disk[f] = "whole"
         /\ \A o \in content[f] : Covers(DiskOps', o)]_vars

(***************************************************************************)
(* A file a session counts as processed, and will never open again, has    *)
(* all its ops in the session's state or in the batch about to be applied, *)
(* though the file may have failed or been missing before, or be gone now  *)
(* (wal.rs `WalReader::consume`).                                          *)
(***************************************************************************)
ProcessedApplied ==
  \A s \in Session : \A f \in processed[s] : \A o \in content[f] :
    Covers(current[s] \cup batch[s], o)

(***************************************************************************)
(* A session's edits survive failed flushes: each is in the outbox or in a *)
(* verified file, and the session always reads its own writes (store.rs    *)
(* `flush`: "a dropped share doesn't silently discard local edits").       *)
(***************************************************************************)
OwnEditsKept ==
  \A s \in Session : \A o \in own[s] :
    /\ o \in outbox[s] \/ \E f \in verified : o \in content[f]
    /\ Covers(current[s], o)

(***************************************************************************)
(* Transactions never tear (README.md "Transactions", eavc.rs              *)
(* `transaction`): a session that shows one op of a transaction shows, for *)
(* every other field the transaction set, that value or a newer one.       *)
(***************************************************************************)
TransactionsWhole ==
  \A s \in Session : \A o \in current[s] : \A p \in Issued :
    p.tx = o.tx /\ p.ent = o.ent =>
      \E r \in current[s] :
        /\ r.ent = p.ent
        /\ IsPurge(r) \/ (r.field = p.field /\ r.tx >= p.tx)

(***************************************************************************)
(* Two sessions that have nothing left to flush and have read every        *)
(* readable file show the same state, though one of them may have read     *)
(* fragments that were compacted away before the other came (README.md     *)
(* "Convergence").                                                         *)
(*                                                                         *)
(* They may differ by ops that were withdrawn.  After a fault a reader may *)
(* have learned an op from a file that arrived after its writer had read   *)
(* it back as bad: then no file has it until the writer, whose outbox      *)
(* still does, has flushed it again; and if that crashes, none ever will.  *)
(***************************************************************************)
Withdrawn(o) ==
  /\ ~Covers(DiskOps, o)
  /\ faults > 0
  /\ crashes > 0 \/ \E w \in Session : o \in outbox[w]

Settled(s) ==
  pc[s] = "idle" /\ outbox[s] = {} /\ WholeFiles \subseteq processed[s]

Converged ==
  \A s, t \in Session : Settled(s) /\ Settled(t) =>
    \A o \in current[s] \ current[t] :
      \/ Withdrawn(o)
      \/ \E p \in current[t] : Supersedes(p, o) /\ Withdrawn(p)

(***************************************************************************)
(* A listed file that is missing when the reader comes to it was removed   *)
(* by a compactor, or by its own writer, whose read-back failed.  It may   *)
(* be passed over: its ops are in files that are there, or its writer, as  *)
(* long as it lives, has them in its outbox and will flush them again      *)
(* (wal.rs on WalReader).                                                  *)
(***************************************************************************)
MissingIsKept ==
  \A s \in Session : \A f \in todo[s] :
    disk[f] = "gone" =>
      \A o \in content[f] : Covers(DiskOps, o) \/ \E w \in Session : o \in outbox[w]

(***************************************************************************)
(* An acknowledged op reaches every session that goes on calling sync(),   *)
(* though compactors keep replacing the files while it reads them.         *)
(***************************************************************************)
EventuallySeen ==
  \A s \in Reader : \A f \in File :
    f \in verified ~> \A o \in content[f] : Covers(current[s], o)

-----------------------------------------------------------------------------
(***************************************************************************)
(* Why Durability holds, as an inductive invariant (WalburgProofs).  Names *)
(* are numbered in the order they are chosen, and a compactor chooses the  *)
(* name of its output after it read its sources; so what carries a removed *)
(* file is always a later file, and two compactors can never each remove   *)
(* what the other one relies on.                                           *)
(***************************************************************************)
\* The names from nextFile on are not taken.
NamesInOrder ==
  /\ \A f \in File : f >= nextFile => disk[f] = "unused"
  /\ \A p \in Proc : wfile[p] < nextFile

\* A file is written by one process, and not after it is verified.
OneWriter ==
  /\ \A p, q \in Proc : wfile[p] = wfile[q] /\ wfile[p] # NoFile => p = q
  /\ \A p \in Proc : /\ wfile[p] \notin verified
                     /\ pc[p] = "renaming" => disk[wfile[p]] = "temp"
  /\ \A f \in verified : disk[f] \in {"whole", "gone"}

\* What a file holds is carried by verified files that came after it.
Carried(f) ==
  \A o \in content[f] : \E w \in verified : w > f /\ Covers(content[w], o)

\* A compactor's merge covers what it read, its output is its merge, and it
\* removes only what a verified file carries.
CarriesSources(c) ==
  /\ \A f \in sources[c] : f < nextFile /\ disk[f] \in {"whole", "gone"}
  /\ pc[c] # "deleting" =>
       \A f \in sources[c] : \A o \in content[f] : Covers(merged[c], o)
  /\ wfile[c] # NoFile =>
       /\ content[wfile[c]] = merged[c]
       /\ \A f \in sources[c] : f < wfile[c]
  /\ pc[c] = "deleting" => \A f \in sources[c] : Carried(f)

SourcesCarried == \A c \in Compactor : CarriesSources(c)

\* What a verified file holds, it or a later verified file still offers.
StillOffered ==
  \A f \in verified : \A o \in content[f] :
    \E h \in verified : h >= f /\ disk[h] = "whole" /\ Covers(content[h], o)

DurabilityInv ==
  NamesInOrder /\ OneWriter /\ SourcesCarried /\ StillOffered

=============================================================================
