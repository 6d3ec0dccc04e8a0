SPECIFICATION FairSpec
CONSTANTS
  l = l
  r = r
  p1 = p1
  p2 = p2
  Monitors = {l, r}
  DesktopWidth = 5
  StepPx = 2
  StepCount = 4
  CursorOn = {l, r}
  Planes = {p1, p2}
  NoPlane = NoPlane
  Unknown = Unknown
  FileMayFail = TRUE
  PhysicalMouse = TRUE
  PositionX <- TwoPositionX
  Width <- TwoWidth
  PlaneOf <- DedicatedPlanes
INVARIANTS
  TypeOK
  QuietBurstLands
PROPERTIES
  OwnerCatchesUp
  CursorFollows
