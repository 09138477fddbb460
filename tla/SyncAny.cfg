SPECIFICATION Spec
CONSTANTS
  NTHREAD = 2
  NMUTEX = 1
  NSEM = 1
  NCOND = 1
  WAIT_QUEUE_MAX_LENGTH = 2
  BLOCKING_ARGS = {0,1}
  SEM_COUNTS = {0,1}
  DETECT_ARGS = {0,1}
  DISCIPLINED = FALSE
  NESTED = TRUE
  MAX_COUNT = 1
  MAX_ALLOC = 2
CHECK_DEADLOCK FALSE
INVARIANTS TypeOK WaitersQueued NoPanic SemaphoreQueue SemaphoreUnits DetectorIsBanker
