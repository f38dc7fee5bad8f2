\* Three requests on up to two tunnels, while time passes.
SPECIFICATION FairSpec
CONSTANTS
  None = None
  Tunnel = {t1, t2}
  Request = {r1, r2, r3}
  Timeout = 2
INVARIANTS
  HandOver
  NoLostTunnel
  ClosedRejected
  ExpiresInTime
PROPERTIES
  TunnelsClose
  RequestsEnd
