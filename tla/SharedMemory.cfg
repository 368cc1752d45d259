CONSTANTS
  p1 = p1
  p2 = p2
  Procs = {p1, p2}
  None = None
  MaxId = 2
  Sizes <- PageCounts
SPECIFICATION MSpec
INVARIANTS
  PagesAreBacked
  CreatorCanGiveBack
PROPERTIES
  NameTakenByCreator
CHECK_DEADLOCK FALSE
