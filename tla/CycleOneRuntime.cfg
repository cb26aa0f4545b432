SPECIFICATION Spec
CONSTANTS
  r1 = r1
  r2 = r2
  d1 = d1
  Process = {r1}
  Effect = {d1}
  ExpiryTurns = 1
  MaxTurns = 3
  MaxCommits = 1
  MaxCrashes = 1
CHECK_DEADLOCK FALSE
INVARIANTS
  DialogueMatchesAuthority
  ObligationOutlivesCommit
  JournaledWasExecuted
PROPERTY
  ConclusionsFinal
