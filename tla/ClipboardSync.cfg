SPECIFICATION FairSpec
CONSTANTS
  s1 = s1
  s2 = s2
  w1 = w1
  w2 = w2
  a = a
  b = b
  Sessions = {s1, s2}
  Viewers = {w1}
  Texts = {a, b}
  Else = Else
  Unset = Unset
  MayDrop = TRUE
  ViewersCopy = TRUE
  MaxReads = 2
  MaxQueue = 1
INVARIANTS
  TypeOK
  NoEcho
PROPERTY LoneCopyArrives
