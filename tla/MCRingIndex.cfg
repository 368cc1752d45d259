\* Rings below and above the size at which slots are shuffled, for one to
\* eight elements per cache line, through a whole period of the index type.
CONSTANTS
  Width = 8
  Requested <- MCRequested
  PerLine = {1, 2, 4, 8}
SPECIFICATION Spec
INVARIANT
  LapUsesDistinctSlots
PROPERTY
  NoSeamAtOverflow
