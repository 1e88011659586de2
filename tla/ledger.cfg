SPECIFICATION Spec
CONSTANTS
  t1 = t1
  t2 = t2
  Threads = {t1, t2}
  Wide = {2}
  Nobody = Nobody
  MaxRecords = 5
  MaxFaults = 3
INVARIANTS
  DamageConfined
  TailMissesOnlyVanished
PROPERTIES
  OnlyUnendedVanish
CHECK_DEADLOCK FALSE
