SPECIFICATION Spec
CONSTANTS
  NTHREAD = 3
  NMUTEX = 3
  NSEM = 0
  NCOND = 0
  WAIT_QUEUE_MAX_LENGTH = 3
  BLOCKING_ARGS = {1}
  SEM_COUNTS = {}
  DETECT_ARGS = {0,1}
  DISCIPLINED = TRUE
  NESTED = TRUE
  MAX_COUNT = 1
  MAX_ALLOC = 1
CHECK_DEADLOCK FALSE
INVARIANTS MutualExclusion AllocationTruth DetectorExact
PROPERTIES DetectionPreventsDeadlock
