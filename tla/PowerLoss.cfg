\* One session and two compactors, a crash of either, on a machine that loses power
\* once, in a directory with a file without ops.
SPECIFICATION SpecPower
CONSTANTS
  s1 = s1
  c1 = c1
  c2 = c2
  t1 = t1
  Entity = {t1}
  DataField = {"f"}
  MaxTx = 1
  MaxVal = 1
  MaxUser = 0
  JTrue = 1
  Session = {s1}
  Writer = {s1}
  Reader = {}
  Compactor = {c1, c2}
  NumForeign = 0
  NumEmpty = 1
  MaxFiles = 4
  MaxFaults = 0
  MaxCrashes = 1
  MaxCompactions = 2
  MaxLosses = 1
  TxCollides = FALSE
  UserOf <- MCUserOf
  FieldLists <- MCOneField
INVARIANTS DurableOnMedium NoTornNames
CHECK_DEADLOCK FALSE
PROPERTIES LeavesOnlyIfCarried
