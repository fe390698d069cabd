\* Two compactors race over the files of one session and over each other's
\* output; one IO fault anywhere.  All of it must look like one shared log.
SPECIFICATION Spec
CONSTANTS
  s1 = s1
  s2 = s2
  c1 = c1
  c2 = c2
  t1 = t1
  Entity = {t1}
  DataField = {"f"}
  MaxTx = 1
  MaxVal = 1
  MaxUser = 1
  JTrue = 1
  Session = {s1}
  Writer = {s1}
  Reader = {}
  Compactor = {c1, c2}
  NumForeign = 0
  NumEmpty = 0
  MaxFiles = 4
  MaxFaults = 1
  MaxCrashes = 0
  MaxCompactions = 3
  TxCollides = FALSE
  UserOf <- MCUserOf
  FieldLists <- MCOneField
INVARIANTS Durability OwnEditsKept DurabilityInv
PROPERTIES RemovedOnlyIfCarried ImplementsLog
CHECK_DEADLOCK FALSE
