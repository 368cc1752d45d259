\* One producer and one consumer, a ring of two slots, three elements in
\* circulation, 3-bit indexes that overflow at the first push and keep
\* overflowing.
CONSTANTS
  NIL = NIL
  Producers = {p}
  Consumers = {c}
  Elements = {e1, e2, e3}
  Size = 2
  Wrap = 8
  Start = 7
  Remap <- Identity
SPECIFICATION SFairSpec
PROPERTIES
  ImplementsFifo
  PushCompletes
