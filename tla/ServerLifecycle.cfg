\* Two starts, each followed by a stop, on both ports.
SPECIFICATION FairSpec
CONSTANT MaxStarts = 2
INVARIANTS
  TypeOK
  NoLostSocket
  NoBusyLoop
PROPERTY StopEndsListening
\* The calls of start() are bounded and a server need not be stopped.
CHECK_DEADLOCK FALSE
