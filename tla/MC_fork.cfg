\* Process ids that wrap, with forks in flight.
CONSTANTS
  s1 = s1
  s2 = s2
  s3 = s3
  s4 = s4
  s5 = s5
  Slots = {s1, s2, s3, s4, s5}
  InitSlot = s1
  PID_MAX = 5
  RESERVED_PIDS = 2
  max_threads = 3
  RLIMIT_NPROC = 4
  Capable = {s1}
  NULL = NULL
SPECIFICATION Spec
SYMMETRY Others
CONSTRAINT Seen
INVARIANTS
  GapIsFree
  PidsUnique
  CountersExact
  ThreadsBounded
