--------------------------- MODULE WalFileProofs ---------------------------
(***************************************************************************)
(* A file of any number of ops never parses with some of them missing, and *)
(* parses when it is all there; the files of Walburg are such files.       *)
(***************************************************************************)
EXTENDS TornFiles, SessionProofs, FiniteSetTheorems

\* A file that was written has as many op lines as its header says.
LEMMA OpLinesCount ==
  ASSUME NEW n \in Nat
  PROVE  IsFiniteSet(OpLines(n)) /\ Cardinality(OpLines(n)) = n
<1>1. n + 2 \in Int /\ 3 \in Int
  OBVIOUS
<1>2. IsFiniteSet(3 .. n + 2)
      /\ Cardinality(3 .. n + 2) = IF 3 > n + 2 THEN 0 ELSE n + 2 - 3 + 1
  BY <1>1, FS_Interval
<1>3. (IF 3 > n + 2 THEN 0 ELSE n + 2 - 3 + 1) = n
  OBVIOUS
<1> QED
  BY <1>2, <1>3 DEF OpLines

(***************************************************************************)
(* read_wal_file compares the number of ops it found with the header's n.  *)
(* That is enough, whatever has arrived: it finds only ops that were       *)
(* written, and as many of them as were written.                           *)
(***************************************************************************)
THEOREM ReadsAllOrNothing ==
  ASSUME NEW n \in Nat
  PROVE  NeverMisread(n)
<1> SUFFICES ASSUME NEW view \in Views(n), ReadsOk(view)
             PROVE  OpsIn(view) = OpLines(n)
  BY DEF NeverMisread
<1>1. view.n = n
  BY DEF Views
<1>2. OpsIn(view) \subseteq OpLines(n)
  BY <1>1 DEF OpsIn
<1>3. Cardinality(OpsIn(view)) = Cardinality(OpLines(n))
  BY <1>1, OpLinesCount DEF ReadsOk, Counts
<1>4. IsFiniteSet(OpLines(n))
  BY OpLinesCount
<1> QED
  BY <1>2, <1>3, <1>4, FS_Subset

-----------------------------------------------------------------------------
(* A file of which everything has arrived, cell by cell.                   *)

(* Its lines start at every third cell and are two cells long. *)
LEMMA LinesOfAll ==
  ASSUME NEW n \in Nat, NEW view, view.n = n, AllArrived(view)
  PROVE  /\ \A a : a \in Starts(view) <=> a \in Cell(n) /\ a % 3 = 1
         /\ \A a \in Starts(view) : LineAt(view, a) = {a, a + 1}
<1>1. /\ view.length = 3 * (n + 2) /\ view.arrived = Cell(n)
      /\ 3 * (n + 2) \in Nat
  BY DEF AllArrived
<1>2. \A c : c \in Ends(view) <=> c \in Cell(n) /\ c % 3 = 0
  BY <1>1 DEF Ends, IsNewline
<1>3. \A a : a \in Starts(view) <=> a \in Cell(n) /\ a % 3 = 1
  <2>1. ASSUME NEW a \in Cell(n)
        PROVE  (a = 1 \/ a - 1 \in Ends(view)) <=> a % 3 = 1
    <3>1. a \in Nat /\ 1 <= a /\ a <= 3 * (n + 2)
      BY <2>1, <1>1 DEF Cell
    <3>2. a - 1 \in Ends(view) <=> a # 1 /\ (a - 1) % 3 = 0
      BY <3>1, <1>1, <1>2 DEF Cell
    <3>3. a = 1 \/ (a - 1) % 3 = 0 <=> a % 3 = 1
      BY ONLY <3>1
    <3> QED
      BY <3>1, <3>2, <3>3
  <2>2. Starts(view) = {a \in Cell(n) : a = 1 \/ a - 1 \in Ends(view)}
    BY <1>1 DEF Starts, Cell
  <2> QED
    BY <2>1, <2>2
<1>4. ASSUME NEW a \in Starts(view)
      PROVE  LineAt(view, a) = {a, a + 1}
  <2>1. a \in Cell(n) /\ a % 3 = 1
    BY <1>3
  <2>2. a \in Nat /\ 1 <= a /\ a <= 3 * (n + 2)
    BY <2>1, <1>1 DEF Cell
  <2>3. a + 2 <= 3 * (n + 2) /\ (a + 1) % 3 = 2 /\ (a + 2) % 3 = 0
    BY ONLY <2>1, <2>2, n \in Nat
  <2>4. a + 2 \in Ends(view) /\ a \notin Ends(view) /\ a + 1 \notin Ends(view)
    BY <1>1, <1>2, <2>1, <2>2, <2>3 DEF Cell
  <2>5. ASSUME NEW c \in LineAt(view, a)
        PROVE  c \in {a, a + 1}
    <3>1. c \in Int /\ a <= c /\ \A d \in a .. c : d \notin Ends(view)
      BY <2>5, <1>1, <2>2 DEF LineAt
    <3>2. ~(a + 2 <= c)
      BY <2>2, <2>4, <3>1
    <3> QED
      BY ONLY <2>2, <3>1, <3>2
  <2>6. a \in LineAt(view, a) /\ a + 1 \in LineAt(view, a)
    <3>1. \A d \in a .. a : d = a
      BY <2>2
    <3>2. \A d \in a .. a + 1 : d = a \/ d = a + 1
      BY <2>2
    <3>3. a \in a .. 3 * (n + 2) /\ a + 1 \in a .. 3 * (n + 2)
      BY ONLY <1>1, <2>2, <2>3
    <3> QED
      BY <1>1, <2>4, <3>1, <3>2, <3>3 DEF LineAt
  <2> QED
    BY <2>5, <2>6
<1> QED
  BY <1>3, <1>4

(* The two cells that start line i are its text. *)
LEMMA TextOfLine ==
  ASSUME NEW n \in Nat, NEW view, view.n = n, AllArrived(view), NEW i \in 1 .. n + 2
  PROVE  /\ 3 * i - 2 \in Starts(view)
         /\ Is(view, LineAt(view, 3 * i - 2), i)
<1> DEFINE a == 3 * i - 2
<1>1. i \in Nat /\ 1 <= i /\ i <= n + 2 /\ n + 2 \in Nat
  OBVIOUS
<1>2. /\ a \in Nat /\ 1 <= a /\ a + 2 <= 3 * (n + 2)
      /\ a % 3 = 1 /\ a + 1 \in Nat /\ 3 * (n + 2) \in Nat
  BY ONLY <1>1
<1>3. a \in Starts(view)
  BY <1>2, LinesOfAll DEF Cell
<1>4. LineAt(view, a) = {a, a + 1}
  BY <1>3, LinesOfAll
<1>5. {c \in Cell(n) : LineOf(c) = i /\ ~IsNewline(c)} = {a, a + 1}
  <2>1. ASSUME NEW c \in Cell(n)
        PROVE  (c - 1) \div 3 + 1 = i /\ ~(c % 3 = 0) <=> c = a \/ c = a + 1
    <3>1. c \in Nat /\ 1 <= c
      BY <1>2, <2>1 DEF Cell
    <3> QED
      BY ONLY <1>1, <3>1
  <2>2. a \in Cell(n) /\ a + 1 \in Cell(n)
    BY <1>2 DEF Cell
  <2> QED
    BY <2>1, <2>2 DEF LineOf, IsNewline
<1>6. {a, a + 1} \subseteq view.arrived
  BY <1>2 DEF AllArrived, Cell
<1> QED
  BY <1>3, <1>4, <1>5, <1>6 DEF Is

(* A file of any number of ops that is all there parses, if it is of this
   version, and only then (wal.rs `read_wal_file`). *)
THEOREM WholeFilesParse ==
  ASSUME NEW n \in Nat
  PROVE  WholeParses(n)
<1> SUFFICES ASSUME NEW view \in Views(n), AllArrived(view), view.v = SUPPORTED_VERSION
             PROVE  ReadsOk(view)
  BY DEF WholeParses, ReadsOk
<1>1. view.n = n /\ view.length = 3 * (n + 2)
  BY DEF Views, AllArrived
<1>2. \A i \in 1 .. n + 2 : /\ 3 * i - 2 \in Starts(view)
                            /\ Is(view, LineAt(view, 3 * i - 2), i)
  BY <1>1, TextOfLine
<1>3. 1 \in Starts(view) /\ 4 \in Starts(view) /\ Is(view, LineAt(view, 1), HeaderLine)
  <2>1. 1 \in 1 .. n + 2 /\ 2 \in 1 .. n + 2 /\ 3 * 1 - 2 = 1 /\ 3 * 2 - 2 = 4
    OBVIOUS
  <2> QED
    BY <1>2, <2>1 DEF HeaderLine
<1>4. Cardinality(Starts(view)) > 1
  <2>1. 1 .. 3 * (n + 2) = 1 .. view.length /\ 3 * (n + 2) \in Int
    BY <1>1
  <2>2. IsFiniteSet(1 .. view.length)
    BY <2>1, FS_Interval
  <2>3. Starts(view) \subseteq 1 .. view.length
    BY DEF Starts
  <2>4. IsFiniteSet(Starts(view))
    BY <2>2, <2>3, FS_Subset
  <2>5. Cardinality(Starts(view)) \in Nat
    BY <2>4, FS_CardinalityType
  <2>6. Cardinality(Starts(view)) # 0
    BY <1>3, <2>4, FS_EmptySet
  <2>7. Cardinality(Starts(view)) # 1
    BY <1>3, <2>4, FS_Singleton
  <2> QED
    BY ONLY <2>5, <2>6, <2>7
<1>5. ASSUME NEW i \in OpLines(n)
      PROVE  3 * i - 2 \in Body(view) /\ Is(view, LineAt(view, 3 * i - 2), i)
  <2>1. i \in 3 .. n + 2 /\ i \in 1 .. n + 2 /\ i \in Nat /\ 3 <= i
    BY DEF OpLines
  <2>2. 3 * i - 2 \in Starts(view) /\ Is(view, LineAt(view, 3 * i - 2), i)
    BY <1>2, <2>1
  <2>3. 1 < 4 /\ 4 < 3 * i - 2
    BY ONLY <2>1
  <2> QED
    BY <1>3, <2>2, <2>3 DEF Body
<1>6. ASSUME NEW a \in Body(view)
      PROVE  \E i \in OpLines(n) : a = 3 * i - 2
  <2>1. PICK b \in Starts(view), d \in Starts(view) : b < d /\ d < a
    BY DEF Body
  <2>2. a \in Starts(view)
    BY DEF Body
  <2>3. /\ a \in Cell(n) /\ a % 3 = 1 /\ b \in Cell(n) /\ b % 3 = 1
        /\ d \in Cell(n) /\ d % 3 = 1
    BY <1>1, <2>1, <2>2, LinesOfAll
  <2>4. /\ a \in Nat /\ b \in Nat /\ d \in Nat /\ 1 <= b /\ a <= 3 * (n + 2)
    BY <2>3 DEF Cell
  <2> DEFINE i == (a + 2) \div 3
  <2>5. i \in Int /\ 3 <= i /\ i <= n + 2 /\ a = 3 * i - 2
    BY ONLY <2>1, <2>3, <2>4, n \in Nat
  <2> QED
    BY <2>5 DEF OpLines
<1>7. \A text \in BodyTexts(view) : \E i \in OpLines(view.n) : Is(view, text, i)
  BY <1>1, <1>5, <1>6 DEF BodyTexts
<1>8. OpsIn(view) = OpLines(n)
  <2>1. ASSUME NEW i \in OpLines(n)
        PROVE  \E text \in BodyTexts(view) : Is(view, text, i)
    <3>1. 3 * i - 2 \in Body(view) /\ Is(view, LineAt(view, 3 * i - 2), i)
      BY <1>5
    <3>2. LineAt(view, 3 * i - 2) # {}
      <4>1. LineAt(view, 3 * i - 2) = {3 * i - 2, 3 * i - 2 + 1}
        BY <1>1, <3>1, LinesOfAll DEF Body
      <4> QED
        BY <4>1
    <3> QED
      BY <3>1, <3>2 DEF BodyTexts
  <2> QED
    BY <1>1, <2>1 DEF OpsIn
<1>9. Counts(view)
  BY <1>1, <1>8, OpLinesCount DEF Counts
<1>10. view.length > 0
  BY <1>1
<1> QED
  BY <1>3, <1>4, <1>7, <1>9, <1>10 DEF ReadsOk

-----------------------------------------------------------------------------
(***************************************************************************)
(* Every file of Walburg has a number of ops, which its header names: a    *)
(* transaction is finite, and so is what an outbox or a merge collects.    *)
(***************************************************************************)
FiniteInv ==
  /\ \A f \in File : IsFiniteSet(content[f])
  /\ \A s \in Session : IsFiniteSet(outbox[s])
  /\ \A c \in Compactor : IsFiniteSet(merged[c])

(* Nothing is written. *)
LEMMA FiniteInit == Init => FiniteInv
  BY FS_EmptySet DEF Init, InitDir, InitStore, InitCompactor, FiniteInv

(* A transaction has at most as many ops as fields were given. *)
LEMMA TransactionFinite ==
  ASSUME NEW tx \in Tx, NEW e \in Entity, NEW fields \in FieldLists, NEW s \in Session
  PROVE  IsFiniteSet(Transaction(tx, e, fields, UserOf[s]))
<1>1. fields \in Seq(Field \X Value)
  BY StoreAssumption DEF FieldList
<1>2. Len(fields) \in Nat /\ DOMAIN fields = 1 .. Len(fields)
  BY <1>1
<1>3. IsFiniteSet(1 .. Len(fields))
  BY <1>2, FS_Interval
<1> DEFINE last == {j \in DOMAIN fields :
                      \A k \in DOMAIN fields : k > j => fields[k][1] # fields[j][1]}
           op(i) == [tx |-> tx, ent |-> e, field |-> fields[i][1],
                     value |-> fields[i][2], user |-> UserOf[s]]
<1>4. IsFiniteSet(last)
  BY <1>2, <1>3, FS_Subset
<1>5. IsFiniteSet({op(i) : i \in last})
  <2> HIDE DEF last, op
  <2>1. [i \in last |-> op(i)] \in Surjection(last, {op(i) : i \in last})
    BY DEF Surjection
  <2> QED
    BY <1>4, <2>1, FS_Surjection
<1> QED
  BY <1>5 DEF Transaction

(* Every step keeps the files finite. *)
LEMMA FiniteNext ==
  ASSUME TypeOK, FiniteInv, [Next]_vars
  PROVE  FiniteInv'
<1>1. CASE \A s \in Session : ~EditStep(s)
  <2>1. /\ \A f \in File : \/ content'[f] = content[f]
                           \/ \E s \in Session : content'[f] = outbox[s]
                           \/ \E c \in Compactor : content'[f] = merged[c]
        /\ \A s \in Session : outbox'[s] \in {outbox[s], {}}
        /\ \A c \in Compactor :
             \/ merged'[c] \in {merged[c], {}}
             \/ \E f \in File : merged'[c] = MergeOps(merged[c], content[f])
    BY <1>1, OpsMove
  <2>2. IsFiniteSet({})
    BY FS_EmptySet
  <2>3. ASSUME NEW c \in Compactor, NEW f \in File
        PROVE  IsFiniteSet(MergeOps(merged[c], content[f]))
    <3>1. IsFiniteSet(merged[c] \cup content[f])
      BY FS_Union DEF FiniteInv
    <3> QED
      BY <3>1, MergeIsMinimal, FS_Subset
  <2> QED
    BY <2>1, <2>2, <2>3 DEF FiniteInv
<1>2. ASSUME NEW s \in Session, EditStep(s)
      PROVE  FiniteInv'
  <2>1. PICK e \in Entity, fields \in FieldLists : Write(s, e, fields)
    BY <1>2 DEF EditStep
  <2>2. PICK tx \in Tx :
          outbox' = [outbox EXCEPT ![s] = @ \cup Transaction(tx, e, fields, UserOf[s])]
    BY <2>1 DEF Write
  <2>3. IsFiniteSet(outbox[s] \cup Transaction(tx, e, fields, UserOf[s]))
    BY TransactionFinite, FS_Union DEF FiniteInv
  <2>4. \A t \in Session : IsFiniteSet(outbox'[t])
    BY <2>2, <2>3 DEF FiniteInv, TypeOK
  <2>5. UNCHANGED <<content, merged>>
    BY <1>2, <2>1 DEF Write, dirVars, EditStep, SessionStep, compactorVars
  <2> QED
    BY <2>4, <2>5 DEF FiniteInv
<1> QED
  BY <1>1, <1>2

(* A reader of the shared directory takes all the ops of a file or none,
   and every file that is whole can be read (wal.rs `read_wal_file`). *)
THEOREM FilesAreNeverMisread == Spec => []TornNeverMisread
<1>1. FiniteInv => TornNeverMisread
  <2> SUFFICES ASSUME FiniteInv, NEW f \in File, Cardinality(content[f]) <= MaxFileOps
               PROVE  Parsed[Cardinality(content[f])]
    BY DEF TornNeverMisread
  <2>1. Cardinality(content[f]) \in Nat
    BY FS_CardinalityType DEF FiniteInv
  <2>2. Cardinality(content[f]) \in 0 .. MaxFileOps
    BY <2>1, TornFilesAssumption
  <2> QED
    BY <2>1, <2>2, ReadsAllOrNothing, WholeFilesParse DEF Parsed
<1> QED
  BY <1>1, FiniteInit, FiniteNext, DurabilityInvariant, PTL DEF Spec

=============================================================================
