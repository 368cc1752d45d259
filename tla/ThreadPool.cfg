\* Two workers, two enqueueing threads and a termination at any moment.
CONSTANTS
  None = None
  WorkerCount = 2
  Callers = {c1, c2}
  Tasks = {t1, t2, t3}
SPECIFICATION PFairSpec
INVARIANTS
  WorkIsNoticed
  TerminateDrains
PROPERTIES
  EveryTaskRuns
  TerminateReturns
CHECK_DEADLOCK FALSE
