\* Two users of one application, whose clients stop reading; notifications for
\* applications only.
SPECIFICATION FairSpec
CONSTANTS
  None = None
  c1 = c1
  c2 = c2
  ann = ann
  bob = bob
  desktop = desktop
  Key = {ann, bob, desktop}
  Conn = {c1, c2}
  userKey <- TwoUsers
  appKey <- TwoApps
  Notified = {desktop}
INVARIANTS
  NoSendOnClosed
  ListedWhileServed
PROPERTIES
  NotificationServed
  ServerEnds
  DisconnectReported
