\* Sleeping calls of a parent and a child, refused at any moment: whoever calls
\* about whom, and in the family discipline.
CONSTANTS
  h1 = h1
  h2 = h2
  h3 = h3
  a1 = a1
  a2 = a2
  a3 = a3
  Pids = {1, 2}
  Sizes = {0, 1, 2, 3}
  LogIds = {h1, h2, h3}
  ArrIds = {a1, a2}
  NULL = NULL
  UNINIT = UNINIT
  Parent <- Family
  MaxDenied <- SomeRefused
  Disciplines = {"any", "family"}
SPECIFICATION Spec
SYMMETRY Blocks
CONSTRAINT SmallIfAny
INVARIANTS
  TypeOK
  NoUseAfterFree
  NoLeakIfKept
  KeptLogIsQueue
CHECK_DEADLOCK FALSE
