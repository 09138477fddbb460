----------------------------- MODULE NpcProps -----------------------------
(* Correctness properties of the NPC world (Npc). *)
EXTENDS Npc

\* Priorities stay in their range: a process that is not an NPC has 0, a living NPC
\* is above the death threshold, a dead one has exactly -1 (ai_sched_tick).
TypeOK ==
    /\ \A i \in NPCS : /\ npc[i].id \in {-1, i} /\ npc[i].rx \in Nat
                       /\ IF npc[i].id = -1 THEN npc[i].prio = 0
                          ELSE npc[i].prio \in {-1} \cup NPC_DEATH_THRESHOLD + 1 .. NPC_PRIO_MAX
    /\ alive \in 0 .. NPC_COUNT
    /\ mutex \in {"none", "communication"} /\ polls \in BOOLEAN /\ world \subseteq NPCS
    /\ in \in [Others -> 0 .. PIPESIZE] /\ out \in [Others -> 0 .. PIPESIZE]

\* g_alive_npcs, which npc_get_status reports, is never less than the number of NPCs
\* that live: registration counts at once and a tick counts before it kills.
AliveCounted == Cardinality({i \in NPCS : Counted(npc[i])}) <= alive

\* An NPC that ai_sched_tick has killed stays dead, whatever rewards for messages
\* sent to it arrive later (ai_sched_add_ipc does not ask whether it lives).
DeadStaysDead == [][\A i \in NPCS : npc[i].id # -1 /\ npc[i].prio <= 0 => npc'[i].prio <= 0]_npcVars

\* The message a thought answers is still in the inbox when the AI has answered,
\* although the mutex was given up meanwhile (thinking_thread, perception_thread).
ReplyStable ==
    th.thinking.reply_to > 0 => /\ shared.has_new_msg
                                /\ shared.inbox_from = th.thinking.reply_to

\* A message waiting in the outbox is replaced by no other one before the
\* communication thread has dealt with it.
OutboxKept ==
    [][shared.has_pending_send /\ shared'.has_pending_send
         => shared'.outbox_to = shared.outbox_to /\ shared'.outbox_len = shared.outbox_len]_npcVars

\* The histories and the memories end, with their final zero, inside their buffers
\* (append_to_l3, npc_memory_save).
BuffersFit ==
    /\ shared.l3 < L3_HISTORY_SIZE
    /\ \A k \in MemorySlots : memories[k].len < NPC_MEMORY_L2_SIZE

\* KernelTrue: the kernel's account of the NPCs is right while all their calls
\* interleave: priorities, the number alive, pipes, histories and memories.
KernelTrue == TypeOK /\ AliveCounted /\ BuffersFit

\* The communication thread waits, with the mutex locked, for room in a pipe that
\* its reader does not empty.
Stuck == th.communication.at = "copy" /\ out[shared.outbox_to] = PIPESIZE

\* Every NPC dies, its threads end and the world reaps it, unless its communication
\* thread is stuck or somebody's AI call keeps the kernel for ever: the other workers and
\* main itself never wait for ever.
Ends == <>(ME \notin world \/ Stuck \/ polls)
=============================================================================
