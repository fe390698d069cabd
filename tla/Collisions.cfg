\* Two writers may draw the same transaction id for different values.
SPECIFICATION Spec
CONSTANTS
  s1 = s1
  s2 = s2
  c1 = c1
  c2 = c2
  t1 = t1
  Entity = {t1}
  DataField = {"f"}
  MaxTx = 0
  MaxVal = 1
  MaxUser = 1
  JTrue = 1
  Session = {s1, s2}
  Writer = {s1, s2}
  Reader = {s1, s2}
  Compactor = {c1}
  NumForeign = 0
  NumEmpty = 0
  MaxFiles = 3
  MaxFaults = 0
  MaxCrashes = 0
  MaxCompactions = 1
  TxCollides = TRUE
  UserOf <- MCUserOf
  FieldLists <- MCCollide
INVARIANTS Converged
CHECK_DEADLOCK FALSE
PROPERTIES ImplementsLog
