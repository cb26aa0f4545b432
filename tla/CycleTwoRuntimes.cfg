SPECIFICATION Spec
CONSTANTS
  r1 = r1
  r2 = r2
  d1 = d1
  Process = {r1, r2}
  Effect = {d1}
  ExpiryTurns = 1
  MaxTurns = 1
  MaxCommits = 1
  MaxCrashes = 0
SYMMETRY ProcessSymmetry
CHECK_DEADLOCK FALSE
INVARIANTS
  ReceiptsChain
  NoStaleCommit
  OwnApplicationsVisible
  DiscourseDense
  OwnCommitsInFocus
