SPECIFICATION Spec
CONSTANTS
  t1 = t1
  t2 = t2
  claude = claude
  Threads = {t1, t2}
  Keys = {claude}
  Scores <- SomeScores
  Labels <- SomeLabels
  TargetPct = 60
  MinSamples = 1
  Pauses = {7, 61}
  Kept = 2
  OnDisk = 1
  Inodes = {1, 2, 3, 4}
  NoInode = 0
  MaxLabels = 3
  MaxCrashes = 1
INVARIANTS
  LineStandsOnEvidence
  LineFitsBudget
  LabelsDurable
SYMMETRY Swaps
CHECK_DEADLOCK FALSE
