SPECIFICATION FairSpec
CONSTANTS
  c1 = c1
  c2 = c2
  Conns = {c1, c2}
  None = None
  CapIn = 1
  CapOut = 4
  MaxAuth = 1
  DesktopConfigured = FALSE
INVARIANTS
  TypeOK
  OneFrameExchange
  NoMutualBlock
PROPERTIES
  WritesReturn
  FramesFlow
  PeerLossNoticed
