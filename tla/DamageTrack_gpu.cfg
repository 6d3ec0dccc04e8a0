SPECIFICATION Spec
CONSTANTS
  v1 = v1
  v2 = v2
  Clients = {v1}
  Sizes <- Row
  Pictures <- Bars
  Undefined <- Garbage
  DamageType = "gpu"
  Tile <- TilePx
  Digest <- Lookup
  LibVNC = TRUE
  ImportMayFail = TRUE
  ReadMayFail = TRUE
  None = None
INVARIANTS
  TilesTold
