\* set_user_nice loses a preemption.
CONSTANTS
  t1 = t1
  t2 = t2
  t3 = t3
  Idle = Idle
  NULL = NULL
  Tasks = {t1, t2}
  InitTask = t1
  Started = {t1}
  Mortal = {t2}
  Sleepers = {t1, t2}
  Yielders = {t1, t2}
  SleepStates = {"INTERRUPTIBLE"}
  MAX_RT_PRIO = 2
  MAX_PRIO = 5
  PrioBonus = 2
  INTERACTIVE_DELTA = 1
  MAX_SLEEP_AVG = 1
  STARVATION_LIMIT = 1
  MIN_TIMESLICE = 1
  MAX_TIMESLICE = 2
  Nices <- TwoNices
  Policies = {}
  NiceOthers = TRUE
  Allocators = {}
  Restricted = {}
SPECIFICATION Spec
INVARIANTS
  PreemptPending
