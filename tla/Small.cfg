SPECIFICATION SmallSpec
CONSTANTS
  SIZE = 4
  VALUES = {1, 2, 3}
  TCP_PCB_SIZE = 3
CHECK_DEADLOCK FALSE
INVARIANTS ChatAccounted
PROPERTIES RefinesQueue
