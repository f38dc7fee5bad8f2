\* A host that sends every command and a guest; either may stop reading, go
\* away or be cut off.
SPECIFICATION FairSpec
CONSTANTS
  None = None
  h = h
  g1 = g1
  g2 = g2
  Client = {h, g1}
  Host = h
  Present = {h}
  Command <- Commands
  Fate <- Anything
INVARIANT
  NoCircle
PROPERTIES
  ClosedHandlersFinish
  AbandonedRoomCloses
