SPECIFICATION Spec
CONSTANTS
  p1 = p1
  p2 = p2
  e1 = e1
  Process = {p1, p2}
  ExternalKey = {e1}
  AdmitKey = {}
  ReadKey = {}
  LearnKey = {}
  Key = {e1}
  MaxAttempts = 3
  MaxCrashes = 2
SYMMETRY ProcessSymmetry
INVARIANTS
  TypeOK
  AtMostOneInvocation
  JournalTellsTheTruth
  AnswersAgree
PROPERTIES
  PromiseKept
