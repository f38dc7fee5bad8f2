\* Two guests that hold up each other's joins and leaves.
SPECIFICATION FairSpec
CONSTANTS
  None = None
  h = h
  g1 = g1
  g2 = g2
  Client = {h, g1, g2}
  Host = h
  Present = {h, g2}
  Command <- Stops
  Fate <- Guests
PROPERTY
  StopShareFrees
