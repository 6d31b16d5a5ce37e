\* Every time that a configuration can hold, steps down to zero, and ends at
\* which the clock overflows.
CONSTANTS
  HalfInt = 8
  Long = 64
  Starts <- LongStart
  Ends <- LongEnd
  Steps <- SmallSteps
SPECIFICATION FairSpec
INVARIANT FieldAgrees
PROPERTIES Forward ClockEnds
CHECK_DEADLOCK FALSE
