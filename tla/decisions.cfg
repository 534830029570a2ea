SPECIFICATION Spec
CONSTANTS
  MaxModelFields = 3
  MaxBlocks = 3
  MaxSentences = 3
  MaxFacts = 2
  MaxIssues = 100
  PlanLimit = 2
  MaxCitations = 3
  MaxLength = 4
INVARIANTS
  OneScale
  PeersKeepTheOrder
  NumbersReadBack
  WindowsInOrder
  RobotsAreObeyed
  PagesHaveTheirBank
PROPERTIES
  TablesAreReadBelow
  CandidatesReplay
  ValidatedOnEvidence
  AnswersKeepToTheQuestion
