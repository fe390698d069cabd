\* Two sessions, four tables: two of a struct with reserved keys, one of a struct
\* with an option that is skipped, one of two versions of a struct; and every declaration of a struct with short names.
SPECIFICATION TypedSpec
CONSTANTS
  MaxName = 4
  Char <- MCChar
  LowerUpper <- MCLowerUpper
  FieldNames <- MCFieldNames
  StructNames <- MCStructNames
  Rules <- MCRules
  s1 = s1
  s2 = s2
  t1 = t1
  Entity = {t1}
  DataField = {"f", "g"}
  MaxTx = 2
  MaxVal = 2
  MaxUser = 1
  JTrue = 2
  JNull = 1
  DefaultVal = 0
  Underscored = {"_deleted", "_purge", "_x"}
  Session = {s1, s2}
  UserOf <- MCUserOf
  Tables <- MCTables
INVARIANTS TypeOK IdFieldAgrees TablesDiffer LatestEditShows SettledDecodes
PROPERTIES EditsKeepLive UpdatedIsRead InsertedIsRead
CHECK_DEADLOCK FALSE
