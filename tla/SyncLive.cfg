SPECIFICATION FairSpec
CONSTANTS
  NTHREAD = 3
  NMUTEX = 1
  NSEM = 0
  NCOND = 1
  WAIT_QUEUE_MAX_LENGTH = 3
  BLOCKING_ARGS = {1}
  SEM_COUNTS = {}
  DETECT_ARGS = {0}
  DISCIPLINED = TRUE
  NESTED = FALSE
  MAX_COUNT = 1
  MAX_ALLOC = 1
CHECK_DEADLOCK FALSE
PROPERTIES WaiterServed
