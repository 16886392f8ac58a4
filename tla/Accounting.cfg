\* Three requests at a time over two sessions, one crash.
SPECIFICATION Spec
CONSTANTS
  MaxInt = 32767
  nas1 = nas1
  nas2 = nas2
  s1 = s1
  alice = alice
  bob = bob
  carol = carol
  mallory = mallory
  Clients = {nas1, nas2}
  SessionIds = {s1}
  UserNames = {alice, bob, carol, mallory}
  Users = {alice, bob, carol}
  CreditUsers = {alice}
  Policy <- MCPolicy
  Price <- MCPrice
  InitialCredit <- MCInitialCredit
  Requests <- MCRequests
  Tasks = {t1, t2, t3}
  MaxCrashes = 1
  DatabaseFails = TRUE
SYMMETRY TaskSymmetry
INVARIANTS
  TypeOK
  CreditWithinBounds
  ChargesExact
  SessionsExact
PROPERTY RowsStable
\* Every request of the instance may have been processed.
CHECK_DEADLOCK FALSE
