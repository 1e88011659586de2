SPECIFICATION Spec
CONSTANTS
  None = None
  shell = shell
  tests = tests
  edit = edit
  Observed <- Stream
  MaxEvents = 6
  TokensOf <- Tokens
  PathOf <- Paths
  EditTools = {edit}
  TestTools = {tests}
  LoopWindow = 3
  LoopThreshold = 3
  Denied = {".env"}
  Allowed = {}
  NudgeUnobserved = FALSE
  Confusable <- Similar
  BindingLookback = 4
  RotWindow = 2
  QuietLookback = 5
  MinQuiet = 60
  MaxConsecutive = 3
  MaxChars = 4000
  DriftWindow = 3
  Baseline = 10
  Slack = 25
  UnknownWeight = 75
  MinBaselineSamples = 2
  Threshold = 150
  WatchPct = 60
  ReviewClean = FALSE
PROPERTIES
  DriftNeedsARun
  FailureRunAlarms
  RotNeedsQuiet
  FirstDeniedEditsBlocked
CHECK_DEADLOCK FALSE
