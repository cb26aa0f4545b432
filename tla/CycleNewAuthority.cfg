SPECIFICATION Spec
CONSTANTS
  r1 = r1
  r2 = r2
  d1 = d1
  Process = {r1}
  Effect = {d1}
  ExpiryTurns = 1
  MaxTurns = 2
  MaxCommits = 1
  MaxCrashes = 0
CHECK_DEADLOCK FALSE
INVARIANT
  OwnAuthorityVisible
