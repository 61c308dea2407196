\* Three processes: heap and rings, parents and orphans, sleeping and waking;
\* more refused calls than a log holds.
CONSTANTS
  h1 = h1
  h2 = h2
  h3 = h3
  a1 = a1
  a2 = a2
  a3 = a3
  Pids <- Pids3
  PidArgs = {2, 3}
  SizeArgs <- SizesOwn
  LevelArgs = {0, 3}
  Passwords <- GoodPassword
  LogIds = {h1, h2}
  ArrIds = {a1, a2}
  NULL = NULL
  UNINIT = UNINIT
  MaxJiffies = 0
  LogLargeEnough = FALSE
SPECIFICATION LiveSpec
INVARIANTS
  TypeOK
  HeapOwned
  RingSafe
  NoLostWakeup
  ParentAlive
PROPERTIES
  WaitAnswered
