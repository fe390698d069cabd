\* A writer and two readers under torn files that may arrive later, failed renames
\* and unreadable read-backs; each file is looked at cell by cell.
SPECIFICATION Spec
CONSTANTS
  s1 = s1
  s2 = s2
  c1 = c1
  c2 = c2
  t1 = t1
  Entity = {t1}
  DataField = {"f", "g"}
  MaxTx = 1
  MaxVal = 1
  MaxUser = 1
  JTrue = 1
  Session = {s1, s2}
  Writer = {s1}
  Reader = {s1, s2}
  Compactor = {c1}
  NumForeign = 0
  NumEmpty = 0
  MaxFiles = 3
  MaxFileOps = 2
  MaxFaults = 2
  MaxCrashes = 0
  MaxCompactions = 1
  TxCollides = FALSE
  UserOf <- MCUserOf
  FieldLists <- MCOneField
INVARIANTS TypeOK TornNeverMisread MissingIsKept OwnEditsKept ProcessedApplied Converged
CHECK_DEADLOCK FALSE
