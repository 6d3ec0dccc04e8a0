SPECIFICATION FairSpec
CONSTANTS
  h1 = h1
  h2 = h2
  c1 = c1
  c2 = c2
  Helpers = {h1, h2}
  Trusted = {h1}
  Conns = {c1, c2}
  Nobody = Nobody
  MaxEvents = 2
  MaxAsked = 3
INVARIANTS
  TypeOK
  OnlyTrustedServed
  WaitingIsAsked
PROPERTIES
  PendingEnds
  EofNoticed
