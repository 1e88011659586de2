SPECIFICATION Spec
CONSTANTS
  Keys <- ThreeCards
  AgentRank <- Agents
  TextRank <- Detectors
  TextLength <- Lengths
  TitleLength = 65
  MinEvidence = 3
  MinAdherence = 5000
  MinJudgeEvidence = 4
  MinConcordance = 5000
  Shrinkage = 4
  MinLineTokens = 8
  MaxRules = 3
  Budgets = {24, 31, 40, 41, 42, 64, 65, 66, 67, 68, 92, 160}
  Loaded <- SomeCards
  MaxLoaded = 12
  MaxSamples = 2
  MaxLabels = 3
INVARIANTS
  TypeOK
  HeaderWithinBudget
PROPERTIES
  DisagreementNeverHelps
  FollowingNeverHurts
CHECK_DEADLOCK FALSE
