\* Two senders, three messages, so that a push can find its slot taken, and a
\* mailbox that is activated and deactivated repeatedly.
CONSTANTS
  NIL = NIL
  Owner = o
  Producers = {s1, s2}
  Consumers = {o}
  Elements = {m1, m2, m3}
  Size = 2
  Wrap = 10
  Start = 9
  Remap <- Identity
SPECIFICATION MFairSpec
INVARIANTS
  OwnershipExclusive
  StrandedBound
PROPERTIES
  DeactivationTerminates
  TryReceiveReturns
  InFlightSendEnds
CHECK_DEADLOCK FALSE
