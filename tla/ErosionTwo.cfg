\* Two compactors that never stop.
SPECIFICATION Spec
CONSTANTS
  s1 = s1
  c1 = c1
  c2 = c2
  t1 = t1
  Entity = {t1}
  DataField = {"f"}
  MaxTx = 1
  MaxVal = 1
  MaxUser = 0
  JTrue = 1
  Session = {s1}
  Compactor = {c1, c2}
  NumForeign = 0
  NumEmpty = 0
  MaxFiles = 5
  MaxFaults = 0
  MaxCompactions = 1
  Flushed <- MCFlushed
  InOrder = TRUE
  MaxEvents = 2
PROPERTIES PurgeErodes
