SPECIFICATION Spec
CONSTANTS
    NPC_COUNT = 2
    FIRST_PID = 3
    NPC_INIT_PRIO = 1
    NPC_DECAY_RATE = 1
    NPC_IPC_REWARD_BYTES = 1
    NPC_DEATH_THRESHOLD = 0
    NPC_PRIO_MAX = 1
    NPC_MEMORY_MAX = 1
    NPC_MEMORY_L2_SIZE = 4
    ME = 1
    PIPESIZE = 2
    INBOX = 2
    L3_HISTORY_SIZE = 5
    LENGTHS = {2}
    WORN = {"perception"}
    MAX_LOOPS = 1
    MAX_SENT = 1
INVARIANT KernelTrue ReplyStable
PROPERTY DeadStaysDead OutboxKept Ends
CHECK_DEADLOCK FALSE
