SPECIFICATION TurnSpec
CONSTANTS
  p1 = p1
  p2 = p2
  e1 = e1
  l1 = l1
  l2 = l2
  i1 = i1
  Nobody = Nobody
  Process = {p1, p2}
  ExternalKey = {e1}
  AdmitKey = {}
  ReadKey = {}
  LearnKey = {l1, l2}
  Key = {e1, l1, l2}
  Input = {i1}
  MaxAlternatives = 1
  MaxAttempts = 1
  MaxCrashes = 1
SYMMETRY ProcessSymmetry
INVARIANT
  TurnsSerial
PROPERTIES
  RowsMoveWithTheirCall
  SessionKept
  FullSessionStands
