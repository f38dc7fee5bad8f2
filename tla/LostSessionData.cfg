\* Host reconnects while its room goes from taken to left behind.
SPECIFICATION Spec
CONSTANTS
  None = None
  u1 = u1
  u2 = u2
  u3 = u3
  u4 = u4
  c1 = c1
  c2 = c2
  c3 = c3
  User = {u1, u2}
  Conn = {c1, c2, c3}
  userId <- HostTwice
  Hosts = {c1, c2, c3}
  Named = {u2}
  Command <- ShareOnly
  Grant <- CoHosts
  InviteeLimit = 2
  StoreFails = FALSE
  MaxCrashes = 0
INVARIANT
  RoomHasSessionData
