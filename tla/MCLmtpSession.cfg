SPECIFICATION SessionSpec
CONSTANTS
  Paths = {pa, pb, pc}
  NoPath = nopath
INVARIANTS
  ViewsAgree
PROPERTIES
  HandsOverTheTransaction
CHECK_DEADLOCK FALSE
