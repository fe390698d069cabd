\* One session; a string that is skipped while it is empty.
SPECIFICATION Spec
CONSTANTS
  s1 = s1
  s2 = s2
  t1 = t1
  Entity = {t1}
  DataField = {"f", "g"}
  MaxTx = 2
  MaxVal = 2
  MaxUser = 1
  JTrue = 2
  JNull = 1
  DefaultVal = 0
  Underscored = {"_deleted", "_purge", "_x"}
  Session = {s1}
  UserOf <- MCUserOf
  Tables <- MCSkipsEmpty
INVARIANTS SettledDecodes
CHECK_DEADLOCK FALSE
