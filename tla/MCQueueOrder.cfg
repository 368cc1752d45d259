\* A mailbox: two senders that lap a ring of two slots, and one receiver; the
\* 4-bit indexes overflow on the way.
CONSTANTS
  NIL = NIL
  Producers = {p1, p2}
  Consumers = {c1}
  Elements = {e1, e2, e3, e4}
  Size = 2
  Wrap = 16
  Start = 14
  Remap <- Identity
SPECIFICATION OSpec
INVARIANTS
  TypeOK
  Conservation
  IndexBalance
  NoElementMissed
  FifoWithinCapacity
PROPERTIES
  ImplementsChannel
  EveryReservedDelivered
CHECK_DEADLOCK FALSE
