\* Two Stops of one by-the-minute user, no crash: lost deductions.
SPECIFICATION Spec
CONSTANTS
  MaxInt = 32767
  nas1 = nas1
  nas2 = nas2
  s1 = s1
  alice = alice
  bob = bob
  carol = carol
  mallory = mallory
  Clients = {nas1, nas2}
  SessionIds = {s1}
  UserNames = {alice, bob, carol, mallory}
  Users = {alice, bob, carol}
  CreditUsers = {alice}
  Policy <- MCPolicy
  Price <- MCPrice
  InitialCredit <- MCInitialCredit
  Requests <- MCRequests
  Tasks = {t1, t2}
  MaxCrashes = 0
  DatabaseFails = FALSE
SYMMETRY TaskSymmetry
INVARIANT DeductedMeansDeducted
CHECK_DEADLOCK FALSE
