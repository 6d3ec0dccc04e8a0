SPECIFICATION Spec
CONSTANTS
  v1 = v1
  v2 = v2
  Clients = {v1}
  Sizes <- Column
  Pictures <- Opaque
  Undefined <- Garbage
  DamageType = "cpu"
  Tile <- TilePx
  Digest <- Lookup
  LibVNC = TRUE
  ImportMayFail = TRUE
  ReadMayFail = TRUE
  None = None
INVARIANTS
  TypeOK
  NothingLost
  NewestPicture
PROPERTY FirstUpdateIsFull
