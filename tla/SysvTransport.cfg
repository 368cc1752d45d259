\* Two senders that share a contact, a receiver that lives twice, and a kernel
\* queue that one message fills.
CONSTANTS
  NoMsg = NoMsg
  m1 = m1
  m2 = m2
  m3 = m3
  Senders = {s1, s2}
  Messages = {m1, m2, m3}
  UserSize <- MCUserSize
  KernelMax = 64
  QueueBytes = 96
  MaxMsgSize = 0
  Capacity = 1
  Lives = 2
SPECIFICATION FairSpec
INVARIANTS
  SentAtMostOnce
  NothingFromFormerLife
PROPERTY
  SendRecovers
CHECK_DEADLOCK FALSE
