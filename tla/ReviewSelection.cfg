SPECIFICATION SelectionSpec
CONSTANTS
  k1 = k1
  k2 = k2
  d1 = d1
  x1 = x1
  OrdinaryCase = {}
  ConditionalCase = {k1, k2}
  DiagnosticCase = {d1}
  CandidateCase = {x1}
  Purpose = {"train", "frozen_test"}
  Group = {{k1, k2}}
  Holdout = {{x1}}
  DenominatorRow = {}
  ProposalFamily = {{k1, x1}}
  RealizationFamily = {{k2}}
  DesignatedCase = {k1, x1}
  Cohort = {{k1, x1}}
INVARIANTS
  NothingStale
  NoDecisionRefused
  RecipesOwnTheirPartition
  ExportMeansDecided
