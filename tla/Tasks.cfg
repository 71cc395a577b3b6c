\* Ids 1 to 6, three threads, and room for races to drive the counter past the
\* limit.
CONSTANTS
  Threads = {t1, t2, t3}
  Limit = 7
  IDCap = 10
SPECIFICATION Spec
SYMMETRY Alike
INVARIANT TasksTypeOK
INVARIANT IdsDistinct
