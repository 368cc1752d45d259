\* Three threads compete for two entries and use two names.
CONSTANTS
  NIL = NIL
  Producers = {t1, t2, t3}
  Consumers = {t1, t2, t3}
  Elements = {e1, e2}
  Keys = {k1, k2}
  Size = 2
  Wrap = 32
  Start = 27
  MaxTickets = 9
  Remap <- Identity
SYMMETRY Symmetry
SPECIFICATION CSpec
INVARIANTS
  EntryInOnePlace
  NamedEntriesOwned
