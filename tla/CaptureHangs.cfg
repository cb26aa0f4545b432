SPECIFICATION ControlSpec
CONSTANTS
  Leader = Leader
  Descendant = {q1}
  MaxStdout = 2
  MaxStderr = 1
  MaxCombined = 2
  PipeCapacity = 2
  MaxWritten = 1
CHECK_DEADLOCK FALSE
PROPERTY
  TimeIsBounded
