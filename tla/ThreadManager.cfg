\* Two threads in a list reserved for one, started and terminated repeatedly.
CONSTANTS
  Entries = 2
  Reserve = 1
  MaxPthreads = 4
SPECIFICATION FairSpec
INVARIANTS
  NeverWaitsForReadyThread
  OneThreadPerEntry
  TerminateLeavesNone
  StartedMeansReady
PROPERTY
  CallsReturn
CHECK_DEADLOCK FALSE
