SPECIFICATION Spec
CONSTANTS
  s1 = s1
  s2 = s2
  claude = claude
  codex = codex
  Nobody = Nobody
  Requests = {r1, r2, r3}
  Sessions = {s1, s2}
  Agents = {claude, codex}
  AgentOf <- TwoSessions
  Enabled = {claude, codex}
  OptedIn = {claude}
  Kinds = {"tool_call", "iteration_end", "poll"}
  Firing = {"offspec"}
  JudgeActions = {"block"}
  Confidences = {70}
  Times = {0}
  Cooldown = 1
  NudgeLine = 60
  BlockLine = 85
  RefitLines = {60}
  WindowSize = 2
  LoopRepeats = 1
  FailOpen = TRUE
  RulebookOn = TRUE
  FeedbackOn = TRUE
  ReviewClean = FALSE
  NudgeUnobserved = FALSE
  DiskFaults = TRUE
  MaxInFlight = 2
  MaxRestarts = 1
SYMMETRY Symmetry
INVARIANTS
  InterventionsAudited
  ParkedHandedOutOnce
  DeliveryInvariant
CHECK_DEADLOCK FALSE
