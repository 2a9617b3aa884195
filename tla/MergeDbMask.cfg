SPECIFICATION Spec
CONSTANTS
  m1 = m1
  m2 = m2
  m3 = m3
  Mergers = {m1, m2, m3}
  Firsts = {m1, m3}
  Nobody = Nobody
  New <- MCNew
  InitialDb <- MCInitialDb
  IsMask = TRUE
  MayDie = FALSE
INVARIANT ExistingDbIsLocked
CHECK_DEADLOCK FALSE
