SPECIFICATION Spec
CONSTANTS
  NBUF = 2
  SIZE = 6
  NINODES = 3
  NINDIRECT = 1
  NAMES = {a, b}
  NDIRECT = 1
  NINODE = 2
  NFILE = 1
  MAX_CRASH = 1
  MAX_LATER = 3
SYMMETRY Symmetry
CHECK_DEADLOCK FALSE
INVARIANT CrashSafe
