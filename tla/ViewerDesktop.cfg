SPECIFICATION DesktopSpec
CONSTANTS
  v1 = v1
  v2 = v2
  Clients = {v1, v2}
  Modes <- Wide
  PlaneSizes <- Covering
  Requests <- Asked
  Default <- Forced
  Landscape = FALSE
  DesktopSize <- WholeDesktop
  Monitor <- Beside
  PointerMax = 40
  MayResize = TRUE
  Named = TRUE
  LibVNC = TRUE
  None = None
INVARIANTS
  DesktopTypeOK
  PointsAtPixel
  RequestFollowed
