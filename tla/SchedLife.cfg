SPECIFICATION Spec
CONSTANTS
  NPROC = 2
  NTHREAD = 2
  QUEUE_SIZE = 5
  BIG_STRIDE = 4
  DEFAULT_PRIORITY = 4
  STRIDE_MOD = 64
  PRIORITIES = {1, 2}
  MAX_PID = 3
  MAX_STRIDE = 4
CHECK_DEADLOCK FALSE
INVARIANTS TasksTrue ParentTruth BoundedOvertaking
