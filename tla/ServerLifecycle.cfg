SPECIFICATION FairSpec
CONSTANTS
  Clients = {v1, v2, v3}
  LibVNC = TRUE
INVARIANTS
  TypeOK
  ClientsCounted
  ResourcesFollowClients
  SessionNeedsStreamer
PROPERTIES
  OnDemandSafety
  OnDemandFairness
  GoneNoticed
