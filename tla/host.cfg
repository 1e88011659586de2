SPECIFICATION SpecMC
CONSTANTS
  Pids = {11, 12, 13}
  Terminals = {1, 2}
  Desk = 1
  NoPid = NoPid
  Empty = Empty
  HookFiles = {"claude", "codex"}
  Plugins = {"qwenpaw"}
  Allowances <- OneSideAtATime
  Mentions = {2}
INVARIANTS
  LoneDaemonStopped
  OnlyLateEditsLost
PROPERTIES
  NeverASecondBundle
  DaemonGoesLast
  SupervisedAgain
CHECK_DEADLOCK FALSE
