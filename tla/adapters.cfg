SPECIFICATION SpecMC
CONSTANTS
  s1 = s1
  s2 = s2
  Requests = {1, 2, 3}
  Sessions = {s1, s2}
  MayStop = {s1}
  None = None
  Events = {"PreToolUse", "Stop", "UserPromptSubmit", "acting", "text_end", "tools_end", "live_call", "approval"}
  Actions = {"nudge", "block"}
  MaxAdvised = 1
  MaxWaiting = 1
  MaxRestarts = 1
INVARIANTS
  CollectedIsHeard
  HeardAtMostTwice
  StoppedOnlyWhereAgreed
CHECK_DEADLOCK FALSE
