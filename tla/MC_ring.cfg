\* The ring in depth: one process, logs of up to 3 records, a moving clock.
CONSTANTS
  h1 = h1
  h2 = h2
  h3 = h3
  a1 = a1
  a2 = a2
  a3 = a3
  Pids = {1}
  PidArgs <- Args1
  SizeArgs <- SizesRing
  LevelArgs <- LevelsAll
  Passwords <- BothPasswords
  LogIds = {h1}
  ArrIds = {a1}
  NULL = NULL
  UNINIT = UNINIT
  MaxJiffies = 1
  LogLargeEnough = TRUE
SPECIFICATION Spec
PROPERTIES
  Refines
