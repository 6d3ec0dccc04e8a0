SPECIFICATION DesktopSpec
CONSTANTS
  v1 = v1
  v2 = v2
  Clients = {v1}
  Modes <- Wide
  PlaneSizes <- Covering
  Requests <- Asked
  Default <- Unset
  Landscape = TRUE
  DesktopSize <- Unset
  Monitor <- Unset
  PointerMax = 40
  MayResize = TRUE
  Named = TRUE
  LibVNC = TRUE
  None = None
PROPERTY NameIsKept
