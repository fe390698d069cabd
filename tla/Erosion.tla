------------------------------ MODULE Erosion ------------------------------
(***************************************************************************)
(* Compactors that never stop, on a directory where a session purged an    *)
(* entity: does the purged data leave the disk?                            *)
(*                                                                         *)
(* Sessions flush a few times, with every step and failure of              *)
(* write_verified; what they read and keep in memory has no part in it     *)
(* (Walburg).  Compactors go on for ever.  To keep the files few, the      *)
(* names of files that are gone and of no use to anyone are given out      *)
(* again (Renumber), at once and in the order the files have: a step of    *)
(* the model, not of the program, which draws a fresh ULID for every name. *)
(***************************************************************************)
EXTENDS Compactor

CONSTANTS
  Flushed,     \* what sessions may flush, as sets of ops
  InOrder,     \* do file names sort in the order in which they were chosen?
  MaxEvents    \* bound: flushes, and processes that stop

ASSUME ErosionAssumption ==
  Flushed \subseteq SUBSET Op /\ InOrder \in BOOLEAN /\ MaxEvents \in Nat

VARIABLE events

vars == <<dirVars, compactorVars, events>>

Init == InitDir /\ InitCompactor /\ events = 0

Event == events < MaxEvents /\ events' = events + 1

-----------------------------------------------------------------------------
InUse(f) ==
  \/ disk[f] \notin {"unused", "gone"}
  \/ \E p \in Proc : f \in todo[p] \/ f = wfile[p]
  \/ \E c \in Compactor : f \in sources[c]

Tidy == compactions = 0 /\ \A f \in File : disk[f] = "gone" => InUse(f)

\* The place of a file in use among those in use.
Place(f) == Cardinality({g \in File : g <= f /\ InUse(g)})

Renumber ==
  /\ ~Tidy
  /\ LET kept   == {f \in File : InUse(f)}
         n      == Cardinality(kept)
         At(i)  == CHOOSE f \in kept : Place(f) = i
         Moved(F) == {Place(f) : f \in F}
     IN  /\ disk' = [i \in File |-> IF i <= n THEN disk[At(i)] ELSE "unused"]
         /\ content' = [i \in File |-> IF i <= n THEN content[At(i)] ELSE {}]
         /\ nextFile' = n + 1
         /\ todo' = [p \in Proc |-> Moved(todo[p])]
         /\ wfile' = [p \in Proc |-> IF wfile[p] = NoFile THEN NoFile ELSE Place(wfile[p])]
         /\ verified' = Moved(verified \cap kept)
         /\ sources' = [c \in Compactor |-> Moved(sources[c])]
  /\ compactions' = 0
  /\ UNCHANGED <<faults, pc, merged, events>>

-----------------------------------------------------------------------------
\* A session flushes what it wrote, or tries again.
Flushes(s, ops) ==
  /\ Event
  /\ pc[s] = "idle"
  /\ WriteTemp(s, ops)
  /\ UNCHANGED compactorVars

FlushGoesOn(s) ==
  /\ \/ WriteStep(s)
     \/ /\ VerifyOk(s)
        /\ wfile' = [wfile EXCEPT ![s] = NoFile]
        /\ Goto(s, "idle")
  /\ UNCHANGED <<compactorVars, events>>

SessionStops(s) == pc[s] # "idle" /\ Event /\ Die(s) /\ UNCHANGED compactorVars

Stops(c) == pc[c] # "idle" /\ Event /\ CompactDie(c)

Arrives(f) == Land(f) /\ UNCHANGED <<compactorVars, events>>

Lists(c) == Tidy /\ CompactList(c) /\ UNCHANGED events

\* Files are read and removed in the order of their names, which start with
\* the clock of their writers.
FirstOnly(F, G) == \A f \in F \ G : \A g \in F : f <= g

Goes(c) ==
  /\ Tidy
  /\ CompactStep(c)
  /\ InOrder => FirstOnly(todo[c], todo'[c])
  /\ InOrder /\ pc[c] = "deleting" => FirstOnly(sources[c], sources'[c])
  /\ UNCHANGED events

Next ==
  \/ Renumber
  \/ \E c \in Compactor : Lists(c) \/ Goes(c)
  \/ /\ Tidy
     /\ \/ \E s \in Session :
              \/ \E ops \in Flushed : Flushes(s, ops)
              \/ FlushGoesOn(s) \/ SessionStops(s)
        \/ \E c \in Compactor : Stops(c)
        \/ \E f \in File : Arrives(f)

(***************************************************************************)
(* Every compactor's calls return and are made again.  A session may stop  *)
(* in the middle of a flush, and need not try again.                       *)
(***************************************************************************)
Spec ==
  /\ Init /\ [][Next]_vars
  /\ WF_vars(Renumber)
  /\ \A c \in Compactor : WF_vars(Lists(c)) /\ WF_vars(Goes(c))

-----------------------------------------------------------------------------
(***************************************************************************)
(* Once a purge is on disk and verified, by the flush of a session or by a *)
(* compactor, and compactions go on, the data of the purged entity leaves  *)
(* the files that can be read and does not come back, though sessions that *)
(* did not know may flush more of it (README.md "Purge erosion": "Over     *)
(* successive compaction passes, all field data for purged entities is     *)
(* eroded from the filesystem").  A purge that can only be read may yet be *)
(* withdrawn by its writer, whose read-back of the file did not match.     *)
(***************************************************************************)
VerifiedOps == UNION {content[f] : f \in verified \cap WholeFiles}

Eroded(e) == \A o \in Facts(DiskOps, e) : IsPurge(o)

PurgeErodes == \A e \in Entity : Purged(VerifiedOps, e) ~> []Eroded(e)

=============================================================================
