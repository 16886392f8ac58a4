\* Two calls of two attempts, which may share a packet or an identifier.
SPECIFICATION FairSpec
CONSTANTS
  IdRange = 2
  RetryCount = 2
  SocketTimeout = 1
  DuplicateInterval = 1
  Tasks = {t1, t2}
  MaxLag = 1
  MaxFaults = 1
  MaxCalls = 2
  MaxTime = 3
INVARIANTS
  TypeOK
  AnsweredMeansExecuted
  MismatchForCause
PROPERTIES
  ExecutedOnce
  CallEnds
\* Calls and clock are bounded.
CHECK_DEADLOCK FALSE
