\* Two notifications for a user between the two Adds of a connection.
SPECIFICATION FairSpec
CONSTANTS
  None = None
  c1 = c1
  c2 = c2
  ann = ann
  bob = bob
  desktop = desktop
  Key = {ann, bob, desktop}
  Conn = {c1, c2}
  userKey <- TwoUsers
  appKey <- TwoApps
  Notified = {ann, bob, desktop}
CHECK_DEADLOCK FALSE
PROPERTY
  DisconnectReported
