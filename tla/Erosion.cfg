\* One compactor that never stops compacting; one session whose flushes may fail or stop;
\* one fault, and three flushes or crashes.
SPECIFICATION Spec
CONSTANTS
  s1 = s1
  c1 = c1
  c2 = c2
  t1 = t1
  Entity = {t1}
  DataField = {"f"}
  MaxTx = 1
  MaxVal = 1
  MaxUser = 0
  JTrue = 1
  Session = {s1}
  Compactor = {c1}
  NumForeign = 0
  NumEmpty = 0
  MaxFiles = 7
  MaxFaults = 1
  MaxCompactions = 1
  Flushed <- MCFlushed
  InOrder = FALSE
  MaxEvents = 3
PROPERTIES PurgeErodes
