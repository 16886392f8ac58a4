\* Two clients of one host, two tasks: where answers go.
SPECIFICATION Spec
CONSTANTS
  h1 = h1
  p1 = p1
  p2 = p2
  i1 = i1
  a1 = a1
  a2 = a2
  Hosts = {h1}
  Ports = {p1, p2}
  Ids = {i1}
  Authenticators = {a1, a2}
  KnownHosts = {h1}
  LocalPort = "auth"
  Datagrams <- MCDatagrams
  DuplicateInterval = 2
  MaxLag = 1
  MaxTime = 4
  Tasks = {t1, t2}
SYMMETRY TaskSymmetry
INVARIANT RepliesToSender
\* The clock and the tasks are bounded, and the server stops.
CHECK_DEADLOCK FALSE
