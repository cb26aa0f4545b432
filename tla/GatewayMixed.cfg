SPECIFICATION Spec
CONSTANTS
  p1 = p1
  p2 = p2
  r1 = r1
  l1 = l1
  a1 = a1
  a2 = a2
  Process = {p1, p2}
  ExternalKey = {}
  AdmitKey = {a1, a2}
  ReadKey = {r1}
  LearnKey = {l1}
  Key = {r1, l1, a1, a2}
  MaxAttempts = 1
  MaxCrashes = 1
SYMMETRY ProcessAndKeySymmetry
CONSTRAINT TwoEffects
INVARIANTS
  WorldMatchesJournal
  CommittedPinsExact
PROPERTIES
  CompareAndSwap
