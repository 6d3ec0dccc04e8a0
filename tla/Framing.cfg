SPECIFICATION FairSpec
CONSTANTS
  Senders <- Both
  Room = 3
  Copies = 2
  Sizes = {1, 3}
  Torn = Torn
INVARIANTS
  TypeOK
  AstrayAfterTorn
PROPERTIES
  MessagesWhole
  TextsArrive
CHECK_DEADLOCK FALSE
