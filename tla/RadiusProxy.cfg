SPECIFICATION FairSpec
CONSTANTS
  Clients = {c1, c2}
  Tasks = {t1, t2}
  Listener = listener
  Null = null
  MaxRequests = 2
  MaxArrivals = 3
INVARIANTS
  TypeOK
  AnswersToAsker
  FirstAnswerOnly
PROPERTIES
  StopEndsListener
\* Requests and answers are bounded.
CHECK_DEADLOCK FALSE
