SPECIFICATION Spec
CONSTANTS
  m1 = m1
  m2 = m2
  t1 = t1
  t2 = t2
  t3 = t3
  u1 = u1
  Mission = {m1, m2}
  Task = {t1, t2, t3, u1}
  NoTask = NoTask
  MissionOf <- Owners
  WaveOf <- Waves
  Conflicts <- Rivals
  MaxWorkers = 2
  RunWorkers <- Modes
  MaxTurns = 3
SYMMETRY Symmetry
CHECK_DEADLOCK FALSE
INVARIANT ResourceExclusion
