SPECIFICATION ServerSpec
CONSTANTS
  s1 = s1
  s2 = s2
  t1 = t1
  d1 = d1
  d2 = d2
  Signed = Signed
  None = None
  Server = {s1, s2}
  Tab = {t1}
  Decision = {d1, d2}
  Required = {d1}
  MaxFiles = 2
  MaxCrashes = 1
SYMMETRY ServerSymmetry
CHECK_DEADLOCK FALSE
INVARIANTS
  AcknowledgedSurvives
  JournalKeeps
PROPERTIES
  ConfirmedIsCommitted
  ExportFinal
