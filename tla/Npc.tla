-------------------------------- MODULE Npc --------------------------------
(***************************************************************************)
(* A world of NPCs (ch11_world.c) seen from one of them, ME, whose five     *)
(* threads (ch11_npc.c) are modelled step by step: main watches the         *)
(* priority, perception reads the pipes, thinking asks the AI, communication *)
(* writes the pipes, memory saves.  The other NPCs send, read, yield and die *)
(* whenever they like; what they save is in slots of their own.             *)
(*                                                                         *)
(* The threads share g_shared under a mutex, except that main writes        *)
(* running and the descriptors without it, and thinking gives it up around  *)
(* the AI call.  A critical section that does not block is one action.      *)
(* Messages are lengths; the world keeps both ends of every pipe open.  What *)
(* an AI call does inside the kernel is in Chat; here it returns with an    *)
(* answer or without, or comes to poll the network for ever.                *)
(***************************************************************************)
EXTENDS NpcKernel

CONSTANTS
    ME,
    PIPESIZE,             \* bytes of a pipe
    INBOX,                \* most bytes one read returns
    L3_HISTORY_SIZE,
    LENGTHS,              \* lengths of messages and of memories
    WORN,                 \* threads that may reach their limit of 100 loops
    MAX_LOOPS,            \* loops of main (120)
    MAX_SENT              \* bound on the messages sent to ME

ASSUME NpcAssumption ==
    /\ ME \in NPCS /\ PIPESIZE \in Nat \ {0} /\ INBOX \in Nat \ {0}
    /\ LENGTHS \subseteq Nat \ {0} /\ L3_HISTORY_SIZE \in Nat \ {0, 1}
    /\ MAX_LOOPS \in Nat /\ MAX_SENT \in Nat

VARIABLES
    shared,       \* g_shared
    th,           \* where the threads are, and their local variables
    polls,        \* an AI call sleeps in the kernel and does not return
    mutex,        \* who holds the mutex between two actions
    in, out,      \* bytes in the pipes from and to each other NPC
    sent,         \* messages sent to ME so far
    world         \* NPCs the world still waits for

npcVars == <<npc, alive, memories, polls, shared, th, mutex, in, out, sent, world>>
kernel == <<npc, alive, memories>>
pipes == <<in, out, sent>>

Others == NPCS \ {ME}
NextOther(i) == LET up == {j \in Others : j > i}
                    S == IF up = {} THEN Others ELSE up
                IN  CHOOSE j \in S : \A k \in S : j <= k
Workers == {"perception", "thinking", "communication", "memory"}

\* sched_sleep polls and does not yield: while a call is in it, no thread of any process runs.
Runs == th.main.at # "gone" /\ ~polls

At(t, s) == [th EXCEPT ![t].at = s]
Free == mutex = "none"

\* sched_yield at the end of a loop; past 100 loops the thread leaves.
Looped(t) == {At(t, s) : s \in IF t \in WORN THEN {"loop", "exit"} ELSE {"loop"}}

\* while (shared->running), then mutex_lock: the mutex is had.
Enters(t) == Runs /\ th[t].at = "loop" /\ shared.running /\ Free

\* The loop ends because running is 0.
leaves(t) ==
    /\ Runs /\ th[t].at = "loop" /\ ~shared.running
    /\ th' = At(t, "exit")
    /\ UNCHANGED <<kernel, polls, shared, mutex, pipes, world>>

----------------------------------------------------------------------------
(* perception_thread *)

\* The next pipe: running is looked at, then read is called.
perception_polls ==
    /\ Runs /\ th.perception.at = "loop" /\ shared.running
    /\ th' = At("perception", "read")
    /\ UNCHANGED <<kernel, polls, shared, mutex, pipes, world>>

\* piperead returns what is there.
perception_reads ==
    /\ Runs /\ th.perception.at = "read"
    /\ LET j == th.perception.from
           n == Least(in[j], INBOX)
       IN  /\ n > 0
           /\ in' = [in EXCEPT ![j] = @ - n]
           /\ th' = At("perception", "lock")
    /\ UNCHANGED <<kernel, polls, shared, mutex, out, sent, world>>

\* A message is dropped when the last one has not been dealt with.
Inbox(j) == IF shared.has_new_msg THEN shared ELSE [shared EXCEPT !.has_new_msg = TRUE, !.inbox_from = j]

perception_stores ==
    /\ Runs /\ th.perception.at = "lock" /\ Free
    /\ shared' = Inbox(th.perception.from)
    /\ \E t \in Looped("perception") :
          th' = [t EXCEPT !.perception.from = NextOther(@)]
    /\ UNCHANGED <<kernel, polls, mutex, pipes, world>>

----------------------------------------------------------------------------
(* thinking_thread *)

\* append_to_l3: the history starts again when the entry and its separator do not fit.
append_to_l3_tight(len, n) ==         \* mutant: the separator is not counted
    LET base == IF L3_HISTORY_SIZE - len - 1 < n THEN 0 ELSE len
    IN  base + (IF base > 0 THEN 1 ELSE 0) + Least(n, L3_HISTORY_SIZE - 2)
append_to_l3(len, n) ==
    LET base == IF L3_HISTORY_SIZE - len - 2 < n THEN 0 ELSE len
    IN  base + (IF base > 0 THEN 1 ELSE 0) + Least(n, L3_HISTORY_SIZE - 2)

\* Nothing is thought while a message waits to be sent.
MayThink_busy == TRUE                 \* mutant: has_pending_send is not looked at
MayThink == ~shared.has_pending_send

\* The message that is answered goes into the history.
Noted_taken(s, n) == [s EXCEPT !.l3 = append_to_l3(@, n), !.has_new_msg = FALSE]  \* mutant: it is taken out already
Noted(s, n) == [s EXCEPT !.l3 = append_to_l3(@, n)]

\* A message, or one time in five nothing in particular, starts a thought.  Then
\* the prompt is built and the mutex given up.
thinking_starts ==
    /\ Enters("thinking") /\ MayThink
    /\ LET r == IF shared.has_new_msg THEN shared.inbox_from ELSE 0
       IN  /\ th' = [At("thinking", "call") EXCEPT !.thinking.reply_to = r]
           /\ \E n \in LENGTHS : shared' = IF r > 0 THEN Noted(shared, n) ELSE shared
    /\ UNCHANGED <<kernel, polls, mutex, pipes, world>>

\* No thought this time.
thinking_passes ==
    /\ Enters("thinking")
    /\ ~MayThink \/ ~shared.has_new_msg
    /\ th' \in Looped("thinking")
    /\ UNCHANGED <<kernel, polls, shared, mutex, pipes, world>>

\* What parse_ai_response makes of an answer: whom to (-1 nobody, 0 not parsed, an
\* NPC that may be ME itself), how long a message, how long a memory.
Targets == {-1, 0} \cup NPCS
Answers == [target : Targets, message : LENGTHS \cup {0}, memory : LENGTHS \cup {0}]

\* The decision of an answer; a message of its own goes into the history too
\* (outbox_to means nothing unless a message is pending).
Decided(s, a) ==
    LET m == IF a.target > 0 /\ a.message > 0
             THEN [s EXCEPT !.outbox_to = a.target, !.outbox_len = a.message, !.has_pending_send = TRUE,
                            !.l3 = append_to_l3(@, a.message)]
             ELSE s
    IN  IF a.target # 0 /\ a.memory > 0 THEN [m EXCEPT !.pending_memory = a.memory] ELSE m

\* Without an answer a message is acknowledged.
Fallback(s) ==
    IF s.has_new_msg /\ s.inbox_from > 0
    THEN [s EXCEPT !.outbox_to = s.inbox_from, !.outbox_len = 1, !.has_pending_send = TRUE]
    ELSE s

\* npc_ai_chat returns, mutex_lock and the decision.  The call touches nothing the other
\* threads see, so it is taken together with the lock that follows it.
thinking_decides ==
    /\ Runs /\ th.thinking.at = "call" /\ Free
    /\ \E s \in {Fallback(shared)} \cup {Decided(shared, a) : a \in Answers} :
          shared' = [s EXCEPT !.has_new_msg = FALSE, !.inbox_from = -1]
    /\ \E t \in Looped("thinking") : th' = [t EXCEPT !.thinking.reply_to = 0]
    /\ UNCHANGED <<kernel, polls, mutex, pipes, world>>

\* npc_ai_chat does not return: the server is silent and the kernel polls, although the
\* mutex was given up for the others.
thinking_waits ==
    /\ Runs /\ th.thinking.at = "call"
    /\ polls' = TRUE
    /\ UNCHANGED <<kernel, shared, th, mutex, pipes, world>>

----------------------------------------------------------------------------
(* communication_thread *)

\* find_write_fd_idx, and the descriptor is still open.
HasPipe == shared.outbox_to \in Others /\ shared.open

Sent(s) == [s EXCEPT !.has_pending_send = FALSE, !.outbox_to = -1, !.outbox_len = 0]

\* Nothing to send, or nowhere to send it to.
communication_passes ==
    /\ Enters("communication")
    /\ ~(shared.has_pending_send /\ HasPipe)
    /\ shared' = IF shared.has_pending_send THEN Sent(shared) ELSE shared
    /\ th' \in Looped("communication")
    /\ UNCHANGED <<kernel, polls, mutex, pipes, world>>

\* The mutex stays locked from here to the end of write.
communication_locks ==
    /\ Enters("communication")
    /\ shared.has_pending_send /\ HasPipe
    /\ mutex' = "communication"
    /\ th' = At("communication", "write")
    /\ UNCHANGED <<kernel, polls, shared, pipes, world>>

\* write is called; it fails when main has closed the descriptor meanwhile.
communication_writes ==
    /\ Runs /\ th.communication.at = "write"
    /\ \/ /\ shared.open
          /\ th' = [At("communication", "copy") EXCEPT !.communication.left = shared.outbox_len]
          /\ UNCHANGED <<shared, mutex>>
       \/ /\ ~shared.open
          /\ th' \in Looped("communication")
          /\ shared' = Sent(shared) /\ mutex' = "none"
    /\ UNCHANGED <<kernel, polls, pipes, world>>

\* pipewrite copies what fits, and yields as long as the pipe is full.
communication_copies ==
    /\ Runs /\ th.communication.at = "copy"
    /\ LET j == shared.outbox_to
           n == Least(th.communication.left, PIPESIZE - out[j])
       IN  /\ n > 0 /\ n < th.communication.left
           /\ out' = [out EXCEPT ![j] = @ + n]
           /\ th' = [th EXCEPT !.communication.left = @ - n]
    /\ UNCHANGED <<kernel, polls, shared, mutex, in, sent, world>>

\* The rest fits: npc_ipc_notify to the pid the receiver is supposed to have, and
\* the mutex is unlocked.
communication_sent ==
    /\ Runs /\ th.communication.at = "copy"
    /\ LET j == shared.outbox_to
       IN  /\ out[j] + th.communication.left <= PIPESIZE
           /\ out' = [out EXCEPT ![j] = @ + th.communication.left]
           /\ ai_sched_add_ipc(3 + j - 1, shared.outbox_len)
    /\ shared' = Sent(shared)
    /\ mutex' = "none"
    /\ \E t \in Looped("communication") : th' = [t EXCEPT !.communication.left = 0]
    /\ UNCHANGED <<alive, memories, polls, in, sent, world>>

----------------------------------------------------------------------------
(* memory_thread *)

memory_saves ==
    /\ Enters("memory")
    /\ IF shared.pending_memory > 0 THEN npc_memory_save(ME, shared.pending_memory) ELSE UNCHANGED memories
    /\ shared' = [shared EXCEPT !.pending_memory = 0]
    /\ th' \in Looped("memory")
    /\ UNCHANGED <<npc, alive, polls, mutex, pipes, world>>

----------------------------------------------------------------------------
(* main *)

\* Registers, then creates the threads.
main_registers ==
    /\ Runs /\ th.main.at = "start"
    /\ ai_sched_register(ME)
    /\ th' = [t \in DOMAIN th |-> [th[t] EXCEPT !.at = IF t = "main" THEN "status" ELSE "loop"]]
    /\ UNCHANGED <<memories, polls, shared, mutex, pipes, world>>

\* running = 0 and the descriptors closed.
Dying == [shared EXCEPT !.running = FALSE, !.open = FALSE]

main_looks ==
    /\ Runs /\ th.main.at = "status"
    /\ \/ npc[ME].prio > 0 /\ th' = At("main", "yield") /\ UNCHANGED shared
       \/ npc[ME].prio <= 0 /\ th' = At("main", "join") /\ shared' = Dying
    /\ UNCHANGED <<kernel, polls, mutex, pipes, world>>

main_yields ==
    /\ Runs /\ th.main.at = "yield"
    /\ ai_sched_tick
    /\ LET n == th.main.loops + 1
       IN  /\ th' = [At("main", IF n > MAX_LOOPS THEN "join" ELSE "status") EXCEPT !.main.loops = n]
           /\ shared' = IF n > MAX_LOOPS THEN Dying ELSE shared
    /\ UNCHANGED <<memories, polls, mutex, pipes, world>>

\* g_shared and the threads before they are created.
Shared0 ==
    [running |-> TRUE, open |-> TRUE, has_new_msg |-> FALSE, inbox_from |-> -1,
     has_pending_send |-> FALSE, outbox_to |-> -1, outbox_len |-> 0, l3 |-> 0, pending_memory |-> 0]
Threads0 ==
    [main |-> [at |-> "start", loops |-> 0],
     perception |-> [at |-> "none", from |-> NextOther(0)],
     thinking |-> [at |-> "none", reply_to |-> 0],
     communication |-> [at |-> "none", left |-> 0],
     memory |-> [at |-> "none"]]

\* The threads main waits for.
Joined_all == Workers                 \* mutant: perception is waited for too
Joined == Workers \ {"perception"}

\* The memory of the process and the perception thread are gone with it.
main_exits ==
    /\ Runs /\ th.main.at = "join"
    /\ \A t \in Joined : th[t].at = "exit"
    /\ th' = [Threads0 EXCEPT !.main.at = "gone"] /\ shared' = Shared0
    /\ npc' = [npc EXCEPT ![ME].used = FALSE]
    /\ UNCHANGED <<alive, memories, polls, mutex, pipes, world>>

----------------------------------------------------------------------------
(* The other NPCs and the world *)

Other(j) == npc[j].used /\ ~polls
Active(j) == Other(j) /\ npc[j].id = j /\ npc[j].prio > 0

other_registers(j) ==
    /\ Other(j) /\ npc[j].id = -1
    /\ ai_sched_register(j)
    /\ UNCHANGED <<memories, polls, shared, th, mutex, pipes, world>>

other_yields(j) ==
    /\ Active(j)
    /\ ai_sched_tick
    /\ UNCHANGED <<memories, polls, shared, th, mutex, pipes, world>>

other_exits(j) ==
    /\ Other(j) /\ npc[j].id = j /\ npc[j].prio <= 0
    /\ npc' = [npc EXCEPT ![j].used = FALSE]
    /\ UNCHANGED <<alive, memories, polls, shared, th, mutex, pipes, world>>

other_sends(j, n) ==
    /\ Active(j) /\ sent < MAX_SENT /\ in[j] + n <= PIPESIZE
    /\ in' = [in EXCEPT ![j] = @ + n]
    /\ sent' = sent + 1
    /\ ai_sched_add_ipc(3 + ME - 1, n)
    /\ UNCHANGED <<alive, memories, polls, shared, th, mutex, out, world>>

other_reads(j) ==
    /\ Active(j) /\ out[j] > 0
    /\ out' = [out EXCEPT ![j] = 0]
    /\ UNCHANGED <<kernel, polls, shared, th, mutex, in, sent, world>>

\* The AI call of another NPC that does not return (one that does changes nothing here).
other_asks(j) ==
    /\ Active(j)
    /\ polls' = TRUE
    /\ UNCHANGED <<kernel, shared, th, mutex, pipes, world>>

world_waits(j) ==
    /\ j \in world /\ ~npc[j].used /\ ~polls
    /\ world' = world \ {j}
    /\ UNCHANGED <<kernel, polls, shared, th, mutex, pipes>>

----------------------------------------------------------------------------
Init ==
    /\ npc = [i \in NPCS |-> NotNpc] /\ alive = 0
    /\ memories = [k \in MemorySlots |-> NoMemory]
    /\ polls = FALSE
    /\ shared = Shared0 /\ th = Threads0
    /\ mutex = "none"
    /\ in = [j \in Others |-> 0] /\ out = [j \in Others |-> 0] /\ sent = 0
    /\ world = NPCS

Main == main_registers \/ main_looks \/ main_yields \/ main_exits
Perception == leaves("perception") \/ perception_polls \/ perception_reads \/ perception_stores
Thinking ==
    \/ leaves("thinking") \/ thinking_starts \/ thinking_passes
    \/ thinking_decides \/ thinking_waits
Communication ==
    \/ leaves("communication") \/ communication_passes \/ communication_locks
    \/ communication_writes \/ communication_copies \/ communication_sent
Memory == leaves("memory") \/ memory_saves
Neighbour(j) ==
    \/ other_registers(j) \/ other_yields(j) \/ other_exits(j) \/ other_reads(j) \/ other_asks(j)
    \/ \E n \in LENGTHS : other_sends(j, n)

Next ==
    \/ Main \/ Perception \/ Thinking \/ Communication \/ Memory
    \/ \E j \in Others : Neighbour(j)
    \/ \E j \in NPCS : world_waits(j)

\* The scheduler lets every thread of ME run again and again as long as no AI call keeps
\* the kernel; that a call returns is not assumed.  Nothing is assumed of the other NPCs.
Fairness ==
    /\ WF_npcVars(Main) /\ WF_npcVars(Perception) /\ WF_npcVars(Thinking)
    /\ WF_npcVars(Communication) /\ WF_npcVars(Memory)
    /\ WF_npcVars(world_waits(ME))

Spec == Init /\ [][Next]_npcVars /\ Fairness
=============================================================================
