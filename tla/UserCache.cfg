SPECIFICATION MCSpec
CONSTANTS
  Users = {"u", "a"}
  Groups = {"g"}
  Attrs = {"a","b"}
  Values = {"x", "y"}
  Inputs = {"y"}
  Absent = "absent"
  Record = "record"
  Exists = "exists"
  Unknown = "unknown"
  Tasks = {t1, t2}
  MaxOps = 3
INVARIANTS
  TypeOK
  Coherent
  LostForCause
PROPERTIES
  ImplementsDirectory
  CatchesUp
CHECK_DEADLOCK FALSE
