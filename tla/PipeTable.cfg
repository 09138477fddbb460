SPECIFICATION Spec
CONSTANTS
  NPROC = 2
  NTHREAD = 2
  FD_BUFFER_SIZE = 2
  FILEPOOLSIZE = 3
  NPAGE = 1
  PIPESIZE = 2
  COUNTER_MOD = 4
  SIZES = {0, 3}
  MAX_BYTES = 4
  MAX_REF = 2
CHECK_DEADLOCK FALSE
INVARIANTS FilesTrue StreamIntact SuspendedSafe
