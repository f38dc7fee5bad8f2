\* The process is killed at any point, database and cache calls may fail, more
\* users are invited than a room takes, and clients come back with old links.
SPECIFICATION Spec
CONSTANTS
  None = None
  u1 = u1
  u2 = u2
  u3 = u3
  u4 = u4
  c1 = c1
  c2 = c2
  c3 = c3
  User = {u1, u2, u3}
  Conn = {c1, c2, c3}
  userId <- HostTwice
  Hosts = {c1, c3}
  Named = {u2, u3}
  Command <- ShareOnly
  Grant <- CoHosts
  InviteeLimit = 2
  StoreFails = TRUE
  MaxCrashes = 1
SYMMETRY HostTwiceSymmetry
INVARIANTS
  ShareSeen
  RecordedOnce
  GaugesExact
  WithinLimit
