\* A refused call while get_process_log copies out is lost.
CONSTANTS
  h1 = h1
  h2 = h2
  h3 = h3
  a1 = a1
  a2 = a2
  a3 = a3
  Pids = {1, 2}
  Sizes = {1, 2}
  LogIds = {h1, h2}
  ArrIds = {a1, a2}
  NULL = NULL
  UNINIT = UNINIT
  Parent <- Family
  MaxDenied <- ThreeKept
  Disciplines = {"family"}
SPECIFICATION Spec
INVARIANTS
  LogIsQueue
CHECK_DEADLOCK FALSE
