SPECIFICATION FairSpec
CONSTANTS
  s1 = s1
  s2 = s2
  claude = claude
  codex = codex
  Nobody = Nobody
  Requests = {r1, r2}
  Sessions = {s1, s2}
  Agents = {claude, codex}
  AgentOf <- TwoSessions
  Enabled = {claude}
  OptedIn = {}
  Kinds = {"tool_call", "tool_result", "reasoning", "stop", "prompt_submit"}
  Firing = {"loop", "contextrot", "drift"}
  JudgeActions = {"pass"}
  Confidences = {40}
  Times = {0}
  Cooldown = 1
  NudgeLine = 60
  BlockLine = 85
  RefitLines = {60}
  WindowSize = 2
  LoopRepeats = 1
  FailOpen = TRUE
  RulebookOn = TRUE
  FeedbackOn = TRUE
  ReviewClean = FALSE
  NudgeUnobserved = FALSE
  DiskFaults = FALSE
  MaxInFlight = 2
  MaxRestarts = 0
PROPERTIES
  AcceptedIsAnswered
CHECK_DEADLOCK FALSE
