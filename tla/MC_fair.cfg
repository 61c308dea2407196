\* Fairness among three tasks: one that sleeps, one that runs, one that allocates.
CONSTANTS
  t1 = t1
  t2 = t2
  t3 = t3
  Idle = Idle
  NULL = NULL
  Tasks = {t1, t2, t3}
  InitTask = t1
  Started = {t1, t2, t3}
  Mortal = {}
  Sleepers = {t1}
  Yielders = {}
  SleepStates = {"INTERRUPTIBLE"}
  MAX_RT_PRIO = 2
  MAX_PRIO = 5
  PrioBonus = 2
  INTERACTIVE_DELTA = 0
  MAX_SLEEP_AVG = 2
  STARVATION_LIMIT = 1
  MIN_TIMESLICE = 1
  MAX_TIMESLICE = 2
  Nices = {}
  Policies = {}
  NiceOthers = FALSE
  Allocators = {t3}
  Restricted = {}
SPECIFICATION LiveSpec
PROPERTIES
  ExpiredReturns
  AllocLetsOthersRun
