SPECIFICATION Spec
CONSTANTS
  c1 = c1
  c2 = c2
  Conns = {c1, c2}
  None = None
  CapIn = 1
  CapOut = 3
  MaxAuth = 0
  DesktopConfigured = FALSE
PROPERTY NoReleaseWhileProcessing
