\* Two processes enable the policy of one: a log is leaked.
CONSTANTS
  h1 = h1
  h2 = h2
  h3 = h3
  a1 = a1
  a2 = a2
  a3 = a3
  Pids = {1, 2}
  Sizes = {1}
  LogIds = {h1, h2, h3}
  ArrIds = {a1, a2, a3}
  NULL = NULL
  UNINIT = UNINIT
  Parent <- Family
  MaxDenied <- NoneRefused
  Disciplines = {"any"}
SPECIFICATION Spec
SYMMETRY Blocks
INVARIANTS
  NoLeak
CHECK_DEADLOCK FALSE
