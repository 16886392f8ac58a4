SPECIFICATION FairSpec
CONSTANTS
  Queries = {q1, q2}
  Sessions = {s1, s2, s3}
  MaxWrites = 2
INVARIANTS
  TypeOK
  SharedIsStored
  ReadsCompleted
PROPERTIES
  SessionsEnd
\* Sessions that write are bounded.
CHECK_DEADLOCK FALSE
