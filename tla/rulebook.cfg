SPECIFICATION Spec
CONSTANTS
  s1 = s1
  claude = claude
  run = run
  run2 = run2
  edit = edit
  t1 = t1
  Threads = {t1}
  Sessions = {s1}
  Agents = {claude}
  AgentOf <- OneSession
  Families <- TwoFamilies
  Calls = {run, run2, edit}
  NameOf <- Tools
  PathOf <- Paths
  Near <- Jaccard
  NoCall = NoCall
  NoPath = "none"
  Window = 2
  Times = {0}
  Observed <- Alphabet
  MaxRecords = 5
  MaxLabels = 1
  MaxCrashes = 1
INVARIANTS
  CountedOnce
  MatchesReplay
PROPERTIES
  StopSettles
CHECK_DEADLOCK FALSE
