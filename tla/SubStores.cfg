SPECIFICATION SubSpec
CONSTANTS
  None = None
  p1 = p1
  p2 = p2
  g1 = g1
  g2 = g2
  o1 = o1
  c1 = c1
  c2 = c2
  k1 = k1
  Process = {p1, p2}
  Generation = {g1, g2}
  Obligation = {o1}
  Receipt = {c1, c2}
  EffectKey = {k1}
  MaxCommits = 4
  MaxCrashes = 1
SYMMETRY SubStoresSymmetry
CHECK_DEADLOCK FALSE
INVARIANTS
  Dense
  GenerationsMatch
  EffectHasItsFacts
PROPERTIES
  CompletionConsumes
