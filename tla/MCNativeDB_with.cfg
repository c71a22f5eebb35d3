SPECIFICATION Spec
CONSTANTS
  t1 = t1
  t2 = t2
  o1 = o1
  o2 = o2
  o3 = o3
  i1 = i1
  i2 = i2
  NULL = NULL
  Threads = {t1, t2}
  Paths = {"default", "books"}
  DefaultPath = "default"
  Objects = {o1, o2, o3}
  Iters = {i1, i2}
  Obligations = {"alone", "ownHandle", "closeIterators", "oneThread", "unloadOpen"}
  StrdupMayFail = FALSE
SYMMETRY Symmetry
INVARIANTS
  UsableHandleIsOpen
