\* The queue of itc-server holds one message: those of two threads concern
\* different names, and one thread waits for room between its own.
CONSTANTS
  Threads = {t1, t2}
  Talkers = {t1}
  Slots = {s1, s2}
  None = None
  QueueCap = 1
  InboxCap = 1
SYMMETRY SlotSymmetry
SPECIFICATION PSpec
INVARIANTS
  MineIsMine
  DirectoryMatches
  NothingLeftBehind
CHECK_DEADLOCK FALSE
