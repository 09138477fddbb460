----------------------------- MODULE NpcKernel -----------------------------
(***************************************************************************)
(* What the kernel keeps for the NPCs: the priority of the evolution        *)
(* scheduler (ai_sched.c) in each process, and the memories (npc_memory.c), *)
(* of which only the lengths are kept.  The world clock is only reported.   *)
(*                                                                         *)
(* Process i runs NPC i; its id is -1 before it registers.                  *)
(***************************************************************************)
EXTENDS Integers, FiniteSets

CONSTANTS
    NPC_COUNT,            \* NPCs of the world, numbered from 1
    FIRST_PID,            \* pid of NPC 1
    NPC_INIT_PRIO, NPC_DECAY_RATE, NPC_IPC_REWARD_BYTES, NPC_DEATH_THRESHOLD, NPC_PRIO_MAX,
    NPC_MEMORY_MAX, NPC_MEMORY_L2_SIZE

ASSUME KernelAssumption ==
    /\ NPC_COUNT \in Nat \ {0} /\ FIRST_PID \in Nat /\ NPC_PRIO_MAX \in Nat
    /\ NPC_IPC_REWARD_BYTES \in Nat \ {0} /\ NPC_DECAY_RATE \in Nat
    /\ NPC_INIT_PRIO \in 1 .. NPC_PRIO_MAX /\ NPC_DEATH_THRESHOLD \in 0 .. NPC_INIT_PRIO - 1
    /\ NPC_MEMORY_MAX \in Nat \ {0} /\ NPC_MEMORY_L2_SIZE \in Nat \ {0, 1}

NPCS == 1 .. NPC_COUNT

VARIABLES
    npc,          \* npc_id, dynamic_prio and ipc_rx_bytes of the processes
    alive,        \* g_alive_npcs
    memories      \* g_memories

Least(a, b) == IF a < b THEN a ELSE b

----------------------------------------------------------------------------
(* ai_sched.c *)

\* As allocproc leaves a process.
NotNpc == [used |-> TRUE, id |-> -1, prio |-> 0, rx |-> 0]

Counted(p) == p.used /\ p.id >= 0 /\ p.prio >= 0

\* One process of ai_sched_tick.
Ticked_unmarked(p) ==           \* mutant: the dead are not marked with -1
    LET v == Least(p.prio - NPC_DECAY_RATE + p.rx \div NPC_IPC_REWARD_BYTES, NPC_PRIO_MAX)
    IN  IF ~Counted(p) THEN p ELSE [p EXCEPT !.prio = v, !.rx = 0]
Ticked(p) ==
    LET v == Least(p.prio - NPC_DECAY_RATE + p.rx \div NPC_IPC_REWARD_BYTES, NPC_PRIO_MAX)
    IN  IF ~Counted(p) THEN p
        ELSE [p EXCEPT !.prio = IF v <= NPC_DEATH_THRESHOLD THEN -1 ELSE v, !.rx = 0]

\* alive counts those that die in this tick too.
ai_sched_tick ==
    /\ npc' = [i \in NPCS |-> Ticked(npc[i])]
    /\ alive' = Cardinality({i \in NPCS : Counted(npc[i])})

ai_sched_register_uncounted(i) ==   \* mutant: alive is left to the next tick
    /\ npc' = [npc EXCEPT ![i] = [@ EXCEPT !.id = i, !.prio = NPC_INIT_PRIO, !.rx = 0]]
    /\ UNCHANGED alive
ai_sched_register(i) ==
    /\ npc' = [npc EXCEPT ![i] = [@ EXCEPT !.id = i, !.prio = NPC_INIT_PRIO, !.rx = 0]]
    /\ alive' = alive + 1

\* More bytes than these earn nothing more: the count is capped there.
RX_CAP == NPC_IPC_REWARD_BYTES * (NPC_PRIO_MAX + NPC_DECAY_RATE + 1)

\* The process with the pid, dead or not; nothing when there is none.
ai_sched_add_ipc(pid, bytes) ==
    npc' = [i \in NPCS |-> IF npc[i].used /\ FIRST_PID + i - 1 = pid /\ npc[i].id >= 0
                           THEN [npc[i] EXCEPT !.rx = Least(@ + bytes, RX_CAP)] ELSE npc[i]]

----------------------------------------------------------------------------
(* npc_memory.c *)

MemorySlots == 1 .. NPC_MEMORY_MAX
NoMemory == [id |-> -1, len |-> 0]

\* find_or_alloc_memory: the slot of the NPC, otherwise the first free one.
FirstOf(S) == {k \in S : \A j \in S : k <= j}
find_or_alloc_memory(id) ==
    LET own == {k \in MemorySlots : memories[k].id = id}
    IN  IF own # {} THEN FirstOf(own) ELSE FirstOf({k \in MemorySlots : memories[k].id = -1})

\* The new length: cleared when full, a newline before what is appended.
Appended(old, len) ==
    LET base == IF NPC_MEMORY_L2_SIZE - old - 1 <= 0 THEN 0 ELSE old
        sep == IF base > 0 /\ base < NPC_MEMORY_L2_SIZE - 1 THEN 1 ELSE 0
    IN  base + sep + Least(len, NPC_MEMORY_L2_SIZE - base - 1 - sep)

npc_memory_save(id, len) ==
    memories' = [k \in MemorySlots |-> IF k \in find_or_alloc_memory(id)
                                       THEN [id |-> id, len |-> Appended(IF memories[k].id = id THEN memories[k].len ELSE 0, len)]
                                       ELSE memories[k]]
=============================================================================
