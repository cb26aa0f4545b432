SPECIFICATION SelectionSpec
CONSTANTS
  k1 = k1
  k2 = k2
  d1 = d1
  x1 = x1
  n1 = n1
  OrdinaryCase = {}
  ConditionalCase = {k1, k2}
  DiagnosticCase = {d1}
  CandidateCase = {x1}
  Purpose = {"train", "frozen_test"}
  Group = {{k1, k2}}
  Holdout = {{x1}}
  DenominatorRow = {n1}
  ProposalFamily = {{k1, x1}}
  RealizationFamily = {{k2}}
  DesignatedCase = {k1, x1}
  Cohort = {{k1, x1}}
INVARIANT
  GuidedOffersApplicable
