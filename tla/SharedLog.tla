------------------------------ MODULE SharedLog ------------------------------
(***************************************************************************)
(* What walburg promises its callers, without files: one merged log that   *)
(* every session reaches in its own time.                                  *)
(*                                                                         *)
(* A session shows its edits at once and owes them to the log.  Edits may  *)
(* reach the log at any time; a session stops owing them only when they    *)
(* are there.  It learns what others wrote in any order, old or new, some  *)
(* of it before it is in the log.  A session that restarts has nothing,    *)
(* and what it owed is in the log, or may come late, or is gone.  There    *)
(* are no compactors here, and the log never goes back.                    *)
(***************************************************************************)
EXTENDS Merge

CONSTANT Session

VARIABLES
  written,   \* the edits that may still be seen somewhere
  log,       \* what a session shows that reads all there is to read
  view,      \* session -> what it shows
  owed       \* session -> the edits it has still to bring to the log

vars == <<written, log, view, owed>>

Init ==
  /\ written = {}
  /\ log = {}
  /\ view = [s \in Session |-> {}]
  /\ owed = [s \in Session |-> {}]

\* A transaction: new ops of one session, one tx and one entity.
Edit(s) ==
  /\ LET ops == owed'[s] \ owed[s]
     IN  /\ ops # {}
         /\ ops \cap written = {}
         /\ \A o, p \in ops : o.tx = p.tx /\ o.ent = p.ent /\ o.user = p.user
         /\ owed' = [owed EXCEPT ![s] = @ \cup ops]
         /\ written' = written \cup ops
         /\ view' = [view EXCEPT ![s] = MergeOps(@, ops)]
  /\ UNCHANGED log

Publish ==
  /\ \E ops \in SUBSET written : log' = MergeOps(log, ops)
  /\ UNCHANGED <<written, view, owed>>

Confirm(s) ==
  /\ log' = MergeOps(log, owed[s])
  /\ owed' = [owed EXCEPT ![s] = {}]
  /\ UNCHANGED <<written, view>>

Learn(s) ==
  /\ \E ops \in SUBSET written : view' = [view EXCEPT ![s] = MergeOps(@, ops)]
  /\ UNCHANGED <<written, log, owed>>

Restart(s) ==
  /\ written \ written' \subseteq owed[s]
  /\ written' \subseteq written
  /\ \E ops \in SUBSET written' : log' = MergeOps(log, ops)
  /\ view' = [view EXCEPT ![s] = {}]
  /\ owed' = [owed EXCEPT ![s] = {}]

Next ==
  \/ Publish
  \/ \E s \in Session : Edit(s) \/ Confirm(s) \/ Learn(s) \/ Restart(s)

Spec == Init /\ [][Next]_vars

=============================================================================
