SPECIFICATION Spec
CONSTANTS
  s1 = s1
  s2 = s2
  claude = claude
  codex = codex
  Nobody = Nobody
  Requests = {r1, r2, r3}
  Sessions = {s1}
  Agents = {claude}
  AgentOf <- OneSession
  Enabled = {claude}
  OptedIn = {}
  Kinds = {"tool_call", "tool_result", "iteration_end"}
  Firing = {"offspec"}
  JudgeActions = {"block"}
  Confidences = {70}
  Times = {0, 1}
  Cooldown = 1
  NudgeLine = 60
  BlockLine = 85
  RefitLines = {60}
  WindowSize = 2
  LoopRepeats = 1
  FailOpen = TRUE
  RulebookOn = TRUE
  FeedbackOn = TRUE
  ReviewClean = FALSE
  NudgeUnobserved = TRUE
  DiskFaults = FALSE
  MaxInFlight = 2
  MaxRestarts = 0
SYMMETRY Symmetry
INVARIANTS
  TypeOK
  AdvisoryAgentsNeverStopped
  StatsNeverOverstate
  TierZeroSilencedBecauseAdvised
  WindowTracksEvents
PROPERTIES
  ImplementsDelivery
CHECK_DEADLOCK FALSE
