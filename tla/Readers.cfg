\* Two sessions write transactions on two fields, and purges, and read while a
\* compactor replaces the files.
SPECIFICATION Spec
CONSTANTS
  s1 = s1
  s2 = s2
  c1 = c1
  c2 = c2
  t1 = t1
  Entity = {t1}
  DataField = {"f", "g"}
  MaxTx = 1
  MaxVal = 1
  MaxUser = 1
  JTrue = 1
  Session = {s1, s2}
  Writer = {s1, s2}
  Reader = {s1, s2}
  Compactor = {c1}
  NumForeign = 0
  NumEmpty = 0
  MaxFiles = 3
  MaxFaults = 0
  MaxCrashes = 0
  MaxCompactions = 1
  TxCollides = FALSE
  UserOf <- MCUserOf
  FieldLists <- MCTwoFields
INVARIANTS ProcessedApplied TransactionsWhole Converged
CHECK_DEADLOCK FALSE
