\* ItcMailboxTest test4 with two senders of two messages each.
CONSTANTS
  NIL = NIL
  Owner = o
  Producers = {s1, s2}
  Consumers = {o}
  PerSender = 2
  Limit = 1
  Elements <- Messages
  Size = 4
  Wrap = 16
  Start = 15
  Remap <- Identity
SPECIFICATION TSpec
INVARIANT
  EmptyAfterDeactivation
CHECK_DEADLOCK FALSE
