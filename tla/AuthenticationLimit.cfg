\* The limit of one session, no failures.
SPECIFICATION Spec
CONSTANTS
  dave = dave
  erin = erin
  frank = frank
  gail = gail
  harry = harry
  ivan = ivan
  kate = kate
  mallory = mallory
  m1 = m1
  m2 = m2
  MaxInt = 32767
  UserNames = {dave, erin, frank, gail, harry, ivan, kate, mallory}
  Users = {dave, erin, frank, gail, harry, ivan, kate}
  Account <- MCAccount
  Macs = {m1, m2}
  Requests <- MCRequests
  Times <- MCTimes
  Usages = {60}
  Tasks = {t1, t2}
  MaxCrashes = 0
  DatabaseFails = FALSE
SYMMETRY MCSymmetry
INVARIANT OnlineWithinLimit
\* Every request of the instance may have been answered.
CHECK_DEADLOCK FALSE
