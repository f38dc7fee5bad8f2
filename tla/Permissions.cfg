\* A host and a guest use every command, also against the host, and the guest
\* visits twice: one visit after the other, or both at once.
SPECIFICATION Spec
CONSTANTS
  None = None
  u1 = u1
  u2 = u2
  u3 = u3
  u4 = u4
  c1 = c1
  c2 = c2
  c3 = c3
  User = {u1, u2}
  Conn = {c1, c2, c3}
  userId <- GuestTwice
  Hosts = {c1}
  Named = {u1, u2}
  Command <- AllButSecondVisit
  Grant <- Inverted
  InviteeLimit = 2
  StoreFails = FALSE
  MaxCrashes = 0
INVARIANTS
  ClosedRoomDisconnects
  CreatorInvited
  OnlyHostStops
PROPERTY
  StreamsListed
