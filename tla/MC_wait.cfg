\* Threads that wait for each other's children, exit and ignore SIGCHLD.
CONSTANTS
  init = init
  t1 = t1
  t2 = t2
  t3 = t3
  Tasks <- FourTasks
  InitTask = init
  Forks <- AllForks
  WaitArgs <- SomeWaits
  MayRefuse = {t1, t2, t3}
  NULL = NULL
  STALE = STALE
SPECIFICATION Spec
SYMMETRY Others
CONSTRAINT OneRefused
INVARIANTS
  TypeOK
  HeldIsThere
  NoSleepOverDead
  SleepsForSomeone
  IgnoredIsPending
  ParentLives
CHECK_DEADLOCK FALSE
