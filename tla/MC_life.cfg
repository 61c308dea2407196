\* The promise of PolicySpec with several processes: fork, exit and reaping.

CONSTANTS
  h1 = h1
  h2 = h2
  h3 = h3
  a1 = a1
  a2 = a2
  a3 = a3
  Pids <- Pids2
  PidArgs <- Args2
  SizeArgs <- SizesOwn
  LevelArgs <- LevelsAll
  Passwords <- BothPasswords
  LogIds = {h1, h2, h3}
  ArrIds = {a1, a2, a3}
  NULL = NULL
  UNINIT = UNINIT
  MaxJiffies = 0
  LogLargeEnough = TRUE
SPECIFICATION Spec
SYMMETRY Blocks
PROPERTIES
  Refines
