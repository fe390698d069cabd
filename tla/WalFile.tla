------------------------------ MODULE WalFile ------------------------------
(***************************************************************************)
(* One WAL file, as far as bytes matter: what read_wal_file of src/wal.rs  *)
(* makes of a file of which only parts have arrived.                       *)
(*                                                                         *)
(* A sync tool, a share or a disk that lost power shows a file cut short,  *)
(* or with zeros in place of blocks that have not come yet.  A file is a   *)
(* row of cells, three per line: the two halves of its text, and its       *)
(* newline.  Lines are the header, the debug line and one line per op.  A  *)
(* view of a file written with n ops is what shows of it: its version, how *)
(* many cells there are, and which of them have arrived.                   *)
(***************************************************************************)
EXTENDS Integers, FiniteSets

SUPPORTED_VERSION == 3

HeaderLine == 1
DebugLine  == 2
OpLines(n) == 3 .. n + 2

Cell(n) == 1 .. 3 * (n + 2)

LineOf(c)    == (c - 1) \div 3 + 1
IsNewline(c) == c % 3 = 0

\* What may show of a file with n ops, of this version or its neighbours.
Views(n) ==
  UNION {[n : {n}, v : SUPPORTED_VERSION - 1 .. SUPPORTED_VERSION + 1,
          length : {l}, arrived : SUBSET (1 .. l)] : l \in {0} \cup Cell(n)}

AllArrived(view) == view.length = 3 * (view.n + 2) /\ view.arrived = Cell(view.n)

-----------------------------------------------------------------------------
(***************************************************************************)
(* BufRead::lines: the runs between newlines, the last one perhaps without *)
(* its newline, but never an empty last one.                               *)
(***************************************************************************)
Ends(view) == {c \in view.arrived : IsNewline(c)}

Starts(view) == {c \in 1 .. view.length : c = 1 \/ c - 1 \in Ends(view)}

\* The cells of the line that starts at a, newline excepted.
LineAt(view, a) == {c \in a .. view.length : \A d \in a .. c : d \notin Ends(view)}

\* The text is line i as it was written: only then is it JSON of the right shape.
Is(view, text, i) ==
  /\ text = {c \in Cell(view.n) : LineOf(c) = i /\ ~IsNewline(c)}
  /\ text \subseteq view.arrived

Body(view) == {a \in Starts(view) : \E b, d \in Starts(view) : b < d /\ d < a}

\* The lines after the second that are not empty.
BodyTexts(view) == {LineAt(view, a) : a \in Body(view)} \ {{}}

OpsIn(view) == {i \in OpLines(view.n) : \E text \in BodyTexts(view) : Is(view, text, i)}

\* Mutant: the number of ops is not compared with the header.
CountsAny(view) == TRUE

\* The header's n is the number of ops found.
Counts(view) == Cardinality(OpsIn(view)) = view.n

(***************************************************************************)
(* read_wal_file returns Ok: there is a header of this version, a debug    *)
(* line, which is not looked at, only ops after it, and as many as the     *)
(* header says.                                                            *)
(***************************************************************************)
ReadsOk(view) ==
  /\ view.length > 0
  /\ Is(view, LineAt(view, 1), HeaderLine)
  /\ view.v = SUPPORTED_VERSION
  /\ Cardinality(Starts(view)) > 1
  /\ \A text \in BodyTexts(view) : \E i \in OpLines(view.n) : Is(view, text, i)
  /\ Counts(view)

-----------------------------------------------------------------------------
\* A view that parses gives every op that was written.
NeverMisread(n) == \A view \in Views(n) : ReadsOk(view) => OpsIn(view) = OpLines(n)

\* A file that is all there parses if it is of this version, and only then.
WholeParses(n) ==
  \A view \in Views(n) :
    AllArrived(view) => (ReadsOk(view) <=> view.v = SUPPORTED_VERSION)

=============================================================================
