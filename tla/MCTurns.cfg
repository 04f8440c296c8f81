SPECIFICATION SpecAll
CONSTANTS
  Starts = {x1, x2}
  Polite = {x2}
  Askers = {x1}
  Impatient = {x1}
  Deleters = {d1}
  Note = note
  NoStart = nostart
  a1 = a1
  a2 = a2
  u1 = u1
  f1 = f1
  i1 = i1
  i2 = i2
  q1 = q1
  q2 = q2
  s1 = s1
  s2 = s2
  o1 = o1
  t1 = t1
  t2 = t2
  w1 = w1
  b1 = b1
  Nothing = Nothing
SYMMETRY Symmetry
INVARIANTS TypeOK DeletionAwaitsRuns RetiredIsGone ArchiveIsWhole WindowGetsTheTurn
PROPERTIES PoliteNeverPreempts TurnKeepsTrace RunningTurnIsAnswered JournalIsRecord InputReachesTheTurn MemoryIsChosen
CHECK_DEADLOCK FALSE
