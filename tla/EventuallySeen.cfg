\* A reader that goes on calling sync() while a compactor replaces the files,
\* beside a file of another version; one fault, one crash.
SPECIFICATION FairSpec
CONSTANTS
  s1 = s1
  s2 = s2
  c1 = c1
  c2 = c2
  t1 = t1
  Entity = {t1}
  DataField = {"f", "g"}
  MaxTx = 0
  MaxVal = 1
  MaxUser = 1
  JTrue = 1
  Session = {s1, s2}
  Writer = {s1}
  Reader = {s2}
  Compactor = {c1}
  NumForeign = 1
  NumEmpty = 0
  MaxFiles = 4
  MaxFaults = 1
  MaxCrashes = 1
  MaxCompactions = 2
  TxCollides = FALSE
  UserOf <- MCUserOf
  FieldLists <- MCOneField
PROPERTIES EventuallySeen ImplementsLog
CHECK_DEADLOCK FALSE
