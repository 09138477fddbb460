----------------------------- MODULE NpcProofs -----------------------------
(***************************************************************************)
(* For any number of NPCs, sizes of pipes and buffers, lengths of messages *)
(* and constants of the evolution scheduler: the dead stay dead, a thought *)
(* answers the message that is still in the inbox, a message waiting in    *)
(* the outbox is not overwritten, and the kernel's account of the NPCs is  *)
(* right: the numbers of the evolution scheduler stay in their ranges, its *)
(* count of the living is never too small, pipes, histories and memories   *)
(* stay within their buffers.  For any number of control blocks,           *)
(* npc_ai_chat gives back or accounts for what it takes on each path.      *)
(***************************************************************************)
EXTENDS NpcProps, Chat, FiniteSetTheorems, TLAPS

Names == {"main", "perception", "thinking", "communication", "memory"}
Fields == {"running", "open", "has_new_msg", "inbox_from", "has_pending_send",
           "outbox_to", "outbox_len", "l3", "pending_memory"}
Process == [used : BOOLEAN, id : Int, prio : Int, rx : Int]

\* The threads as far as the proofs follow them.
ThreadShape ==
    /\ th = [x \in Names |-> th[x]]
    /\ th["main"] = [x \in {"at", "loops"} |-> th["main"][x]]
    /\ th["thinking"] = [x \in {"at", "reply_to"} |-> th["thinking"][x]]

\* g_shared, and what its flags and the length of the outbox may be.
SharedShape ==
    /\ shared = [x \in Fields |-> shared[x]]
    /\ shared.has_new_msg \in BOOLEAN /\ shared.has_pending_send \in BOOLEAN
    /\ shared.outbox_len \in Nat

\* A registered NPC lives with a positive priority or is dead with -1: 0, which
\* would be dead for main and counted by the tick, does not occur; and ME registers
\* once, before its main loop.
PrioInv ==
    /\ npc \in [NPCS -> Process]
    /\ \A i \in NPCS : npc[i].id # -1 => npc[i].prio = -1 \/ npc[i].prio > 0
    /\ th.main.at = "start" => npc[ME].id = -1

\* While the AI is asked nothing is pending: only the thinking thread fills the outbox.
CallInv == th.thinking.at = "call" => ~shared.has_pending_send

NpcInv == ThreadShape /\ SharedShape /\ PrioInv /\ ReplyStable /\ CallInv

\* A step that moves another thread than main and thinking, or none.
LEMMA OtherThread ==
  ASSUME ThreadShape, NEW t \in Names \ {"main", "thinking"}, NEW s, th' = [th EXCEPT ![t].at = s]
  PROVE  ThreadShape' /\ th'["main"] = th["main"] /\ th'["thinking"] = th["thinking"]
  BY DEF ThreadShape, Names

LEMMA MainThread ==
  ASSUME ThreadShape, NEW s, th' = [th EXCEPT !["main"].at = s]
  PROVE  ThreadShape' /\ th'["main"]["at"] = s /\ th'["thinking"] = th["thinking"]
  BY DEF ThreadShape, Names

LEMMA ThinkingThread ==
  ASSUME ThreadShape, NEW s, th' = [th EXCEPT !["thinking"].at = s]
  PROVE  /\ ThreadShape' /\ th'["main"] = th["main"]
         /\ th'["thinking"]["at"] = s /\ th'["thinking"]["reply_to"] = th["thinking"]["reply_to"]
  BY DEF ThreadShape, Names

\* An AI call that does not return changes nothing else.
KernelPolls == polls' = TRUE /\ UNCHANGED <<kernel, shared, th, mutex, pipes, world>>

\* Every action of Next.
LEMMA Actions ==
  ASSUME Next
  PROVE  \/ main_registers \/ main_looks \/ main_yields \/ main_exits
         \/ \E t \in Workers : leaves(t)
         \/ perception_polls \/ perception_reads \/ perception_stores
         \/ thinking_starts \/ thinking_passes \/ thinking_decides
         \/ communication_passes \/ communication_locks \/ communication_writes
         \/ communication_copies \/ communication_sent
         \/ memory_saves
         \/ (\E j \in Others : \/ other_registers(j) \/ other_yields(j) \/ other_exits(j) \/ other_reads(j)
                               \/ \E n \in LENGTHS : other_sends(j, n))
         \/ \E j \in NPCS : world_waits(j)
         \/ KernelPolls
  BY DEF thinking_waits, other_asks, KernelPolls, Next, Main, Perception, Thinking, Communication, Memory, Neighbour, Workers

\* What the invariant says of threads: the steps keep their shape, main never goes
\* back to its start, and only the thinking thread touches its own state, except
\* that main starts and ends it.
MainFrame == th'["main"]["at"] = "start" => th["main"]["at"] = "start"
ThinkingFrame ==
    \/ th'["thinking"] = th["thinking"]
    \/ th'["thinking"]["at"] # "call" /\ th'["thinking"]["reply_to"] = th["thinking"]["reply_to"]
    \/ th'["thinking"]["at"] # "call" /\ th'["thinking"]["reply_to"] = 0

LEMMA LeavesThread ==
  ASSUME NpcInv, NEW t \in Workers, leaves(t)
  PROVE  ThreadShape' /\ MainFrame /\ ThinkingFrame
<1>1. th' = [th EXCEPT ![t].at = "exit"]
  BY DEF leaves, At
<1>2. CASE t = "thinking"
  BY <1>1, <1>2, ThinkingThread DEF NpcInv, MainFrame, ThinkingFrame
<1>3. CASE t # "thinking"
  BY <1>1, <1>3, OtherThread DEF NpcInv, MainFrame, ThinkingFrame, Workers, Names
<1> QED
  BY <1>2, <1>3

\* A thread comes to the end of its loop.
LEMMA LoopedThread ==
  ASSUME ThreadShape, NEW t \in Workers, th' \in Looped(t)
  PROVE  /\ ThreadShape' /\ MainFrame /\ ThinkingFrame
<1>1. PICK s \in {"loop", "exit"} : th' = [th EXCEPT ![t].at = s]
  BY DEF Looped, At
<1>2. CASE t = "thinking"
  BY <1>1, <1>2, ThinkingThread DEF MainFrame, ThinkingFrame
<1>3. CASE t # "thinking"
  BY <1>1, <1>3, OtherThread DEF MainFrame, ThinkingFrame, Workers, Names
<1> QED
  BY <1>2, <1>3

LEMMA MainSteps ==
  ASSUME NpcInv, main_registers \/ main_looks \/ main_yields \/ main_exits
  PROVE  ThreadShape' /\ th'["main"]["at"] # "start" /\ ThinkingFrame
<1> USE DEF NpcInv
<1>1. CASE main_registers
  BY <1>1 DEF main_registers, ThreadShape, ThinkingFrame, Names
<1>2. CASE main_looks
  BY <1>2, MainThread DEF main_looks, At, ThinkingFrame
<1>3. CASE main_yields
  <2>1. PICK s \in {"join", "status"} :
           \E n : th' = [[th EXCEPT !["main"].at = s] EXCEPT !["main"].loops = n]
    BY <1>3 DEF main_yields, At
  <2>2. PICK n : th' = [[th EXCEPT !["main"].at = s] EXCEPT !["main"].loops = n]
    BY <2>1
  <2>3. /\ th' = [x \in Names |-> th'[x]] /\ th'["thinking"] = th["thinking"]
        /\ th'["main"] = [[th["main"] EXCEPT !["at"] = s] EXCEPT !["loops"] = n]
    BY <2>2 DEF ThreadShape, Names
  <2>4. th'["main"] = [x \in {"at", "loops"} |-> th'["main"][x]] /\ th'["main"]["at"] = s
    BY <2>3 DEF ThreadShape
  <2> QED
    BY <2>3, <2>4 DEF ThreadShape, ThinkingFrame
<1>4. CASE main_exits
  BY <1>4 DEF main_exits, Threads0, ThreadShape, ThinkingFrame, Names
<1> QED
  BY <1>1, <1>2, <1>3, <1>4

LEMMA PerceptionSteps ==
  ASSUME NpcInv, perception_polls \/ perception_reads \/ perception_stores
  PROVE  ThreadShape' /\ th'["main"] = th["main"] /\ th'["thinking"] = th["thinking"]
<1>1. PICK r : th' = [th EXCEPT !["perception"] = r]
  <2>1. CASE perception_polls
    BY <2>1 DEF perception_polls, At
  <2>2. CASE perception_reads
    BY <2>2 DEF perception_reads, At
  <2>3. CASE perception_stores
    <3>1. PICK t \in Looped("perception") : th' = [t EXCEPT !["perception"].from = NextOther(@)]
      BY <2>3 DEF perception_stores
    <3>2. PICK s \in {"loop", "exit"} : t = [th EXCEPT !["perception"].at = s]
      BY DEF Looped, At
    <3>3. PICK v : th' = [t EXCEPT !["perception"].from = v]
      BY <3>1
    <3>4. th' = [th EXCEPT !["perception"] = [[th["perception"] EXCEPT !.at = s] EXCEPT !.from = v]]
      BY <3>2, <3>3 DEF NpcInv, ThreadShape, Names
    <3> QED
      BY <3>4
  <2> QED
    BY <2>1, <2>2, <2>3
<1> QED
  BY <1>1 DEF NpcInv, ThreadShape, Names

LEMMA CommunicationSteps ==
  ASSUME NpcInv, \/ communication_passes \/ communication_locks \/ communication_writes
                 \/ communication_copies \/ communication_sent
  PROVE  ThreadShape' /\ th'["main"] = th["main"] /\ th'["thinking"] = th["thinking"]
<1> USE DEF NpcInv
<1>1. PICK r : th' = [th EXCEPT !["communication"] = r]
  <2>1. CASE communication_passes
    BY <2>1 DEF communication_passes, Looped, At
  <2>2. CASE communication_locks
    BY <2>2 DEF communication_locks, At
  <2>3. CASE communication_writes
    <3>1. CASE th' \in Looped("communication")
      BY <3>1 DEF Looped, At
    <3>2. CASE th' = [At("communication", "copy") EXCEPT !.communication.left = shared.outbox_len]
      <4>1. th' = [[th EXCEPT !["communication"].at = "copy"] EXCEPT !["communication"].left = shared.outbox_len]
        BY <3>2 DEF At
      <4> QED
        BY <4>1 DEF ThreadShape, Names
    <3> QED
      BY <2>3, <3>1, <3>2 DEF communication_writes
  <2>4. CASE communication_copies
    <3>1. PICK v : th' = [th EXCEPT !["communication"].left = v]
      BY <2>4 DEF communication_copies
    <3> QED
      BY <3>1
  <2>5. CASE communication_sent
    <3>1. PICK t \in Looped("communication") : th' = [t EXCEPT !["communication"].left = 0]
      BY <2>5 DEF communication_sent
    <3>2. PICK s \in {"loop", "exit"} : t = [th EXCEPT !["communication"].at = s]
      BY DEF Looped, At
    <3> QED
      BY <3>1, <3>2 DEF ThreadShape, Names
  <2> QED
    BY <2>1, <2>2, <2>3, <2>4, <2>5
<1> QED
  BY <1>1 DEF ThreadShape, Names

LEMMA StartsThread ==
  ASSUME NpcInv, thinking_starts
  PROVE  /\ ThreadShape' /\ th'["main"] = th["main"]
         /\ th'["thinking"]["reply_to"] = IF shared.has_new_msg THEN shared.inbox_from ELSE 0
<1> DEFINE r == IF shared.has_new_msg THEN shared.inbox_from ELSE 0
<1>1. th' = [[th EXCEPT !["thinking"].at = "call"] EXCEPT !["thinking"].reply_to = r]
  BY DEF thinking_starts, At
<1> HIDE DEF r
<1>2. /\ ThreadShape' /\ th'["main"] = th["main"] /\ th'["thinking"]["reply_to"] = r
  BY <1>1 DEF NpcInv, ThreadShape, Names
<1> QED
  BY <1>2 DEF r

LEMMA DecidesThread ==
  ASSUME NpcInv, thinking_decides
  PROVE  /\ ThreadShape' /\ th'["main"] = th["main"]
         /\ th'["thinking"]["reply_to"] = 0 /\ th'["thinking"]["at"] # "call"
<1>1. PICK s \in {"loop", "exit"} : th' = [[th EXCEPT !["thinking"].at = s] EXCEPT !["thinking"].reply_to = 0]
  BY DEF thinking_decides, Looped, At
<1> QED
  BY <1>1 DEF NpcInv, ThreadShape, Names

\* All steps but the one that starts a thought.
LEMMA ThreadStep ==
  ASSUME NpcInv, Next
  PROVE  ThreadShape' /\ MainFrame /\ (thinking_starts \/ ThinkingFrame)
<1>1. CASE main_registers \/ main_looks \/ main_yields \/ main_exits
  BY <1>1, MainSteps DEF MainFrame
<1>2. CASE \E t \in Workers : leaves(t)
  BY <1>2, LeavesThread
<1>3. CASE perception_polls \/ perception_reads \/ perception_stores
  BY <1>3, PerceptionSteps DEF MainFrame, ThinkingFrame
<1>4. CASE thinking_starts
  BY <1>4, StartsThread DEF MainFrame
<1>5. CASE thinking_passes
  BY <1>5, LoopedThread DEF NpcInv, thinking_passes, Workers
<1>6. CASE thinking_decides
  BY <1>6, DecidesThread DEF MainFrame, ThinkingFrame
<1>7. CASE \/ communication_passes \/ communication_locks \/ communication_writes
           \/ communication_copies \/ communication_sent
  BY <1>7, CommunicationSteps DEF MainFrame, ThinkingFrame
<1>8. CASE memory_saves
  BY <1>8, LoopedThread DEF NpcInv, memory_saves, Workers
<1>9. CASE UNCHANGED th
  BY <1>9 DEF NpcInv, ThreadShape, MainFrame, ThinkingFrame
<1> QED
  BY <1>1, <1>2, <1>3, <1>4, <1>5, <1>6, <1>7, <1>8, <1>9, Actions
     DEF other_registers, other_yields, other_exits, other_reads, other_sends, world_waits, KernelPolls

\* What the steps do to g_shared: a pending message is either left alone or dealt
\* with, and a message in the inbox stays there, unless a thought ends or main exits.
PendingFrame ==
    shared'.has_pending_send => /\ shared.has_pending_send
                                /\ shared'.outbox_to = shared.outbox_to
                                /\ shared'.outbox_len = shared.outbox_len
InboxFrame ==
    shared.has_new_msg => shared'.has_new_msg /\ shared'.inbox_from = shared.inbox_from

LEMMA SentShared ==
  ASSUME SharedShape, shared' = Sent(shared)
  PROVE  SharedShape' /\ PendingFrame /\ InboxFrame
  BY DEF SharedShape, Fields, Sent, PendingFrame, InboxFrame

LEMMA DyingShared ==
  ASSUME SharedShape, shared' = Dying
  PROVE  SharedShape' /\ PendingFrame /\ InboxFrame
  BY DEF SharedShape, Fields, Dying, PendingFrame, InboxFrame

LEMMA SameShared ==
  ASSUME SharedShape, shared' = shared
  PROVE  SharedShape' /\ PendingFrame /\ InboxFrame
  BY DEF SharedShape, Fields, PendingFrame, InboxFrame

LEMMA InboxShared ==
  ASSUME SharedShape, perception_stores
  PROVE  SharedShape' /\ PendingFrame /\ InboxFrame
  BY DEF SharedShape, Fields, perception_stores, Inbox, PendingFrame, InboxFrame

LEMMA StartsShared ==
  ASSUME SharedShape, thinking_starts
  PROVE  SharedShape' /\ PendingFrame /\ InboxFrame
<1>1. PICK n : shared' = shared \/ shared' = Noted(shared, n)
  BY DEF thinking_starts
<1>2. CASE shared' = Noted(shared, n)
  <2>1. PICK v : shared' = [shared EXCEPT !.l3 = v]
    BY <1>2 DEF Noted
  <2> QED
    BY <2>1 DEF SharedShape, Fields, PendingFrame, InboxFrame
<1> QED
  BY <1>1, <1>2, SameShared

\* The outbox takes a message of a length that was chosen, or the acknowledgement.
LEMMA DecidesShared ==
  ASSUME SharedShape, thinking_decides
  PROVE  SharedShape'
<1> DEFINE Shape(s) == /\ s = [x \in Fields |-> s[x]]
                       /\ s.has_new_msg \in BOOLEAN /\ s.has_pending_send \in BOOLEAN
                       /\ s.outbox_len \in Nat
<1>1. PICK s : /\ s = Fallback(shared) \/ \E a \in Answers : s = Decided(shared, a)
               /\ shared' = [s EXCEPT !.has_new_msg = FALSE, !.inbox_from = -1]
  BY DEF thinking_decides
<1>2. Shape(shared)
  BY DEF SharedShape
<1>3. Shape(s)
  <2>1. CASE s = Fallback(shared)
    BY <1>2, <2>1 DEF Fallback, Fields
  <2>2. ASSUME NEW a \in Answers, s = Decided(shared, a)
        PROVE  Shape(s)
    <3> DEFINE l == append_to_l3(shared.l3, a.message)
               m == IF a.target > 0 /\ a.message > 0
                    THEN [shared EXCEPT !.outbox_to = a.target, !.outbox_len = a.message,
                                        !.has_pending_send = TRUE, !.l3 = l]
                    ELSE shared
    <3>1. s = m \/ s = [m EXCEPT !.pending_memory = a.memory]
      BY <2>2 DEF Decided
    <3>2. a.message \in Nat
      <4>1. a.message \in LENGTHS \cup {0}
        BY <2>2 DEF Answers
      <4>2. \A x \in LENGTHS \cup {0} : x \in Nat
        BY NpcAssumption
      <4> QED
        BY <4>1, <4>2, Zenon
    <3> HIDE DEF l
    <3>3. Shape(m)
      BY <1>2, <3>2 DEF Fields
    <3> HIDE DEF m
    <3> QED
      BY <3>1, <3>3 DEF Fields
  <2> QED
    BY <1>1, <2>1, <2>2
<1> QED
  BY <1>1, <1>3 DEF SharedShape, Fields

LEMMA SharedStep ==
  ASSUME SharedShape, Next
  PROVE  /\ SharedShape'
         /\ thinking_decides \/ PendingFrame
         /\ thinking_decides \/ main_exits \/ InboxFrame
<1>1. CASE shared' = shared
  BY <1>1, SameShared
<1>2. CASE shared' = Sent(shared)
  BY <1>2, SentShared
<1>3. CASE shared' = Dying
  BY <1>3, DyingShared
<1>4. CASE perception_stores
  BY <1>4, InboxShared
<1>5. CASE thinking_starts
  BY <1>5, StartsShared
<1>6. CASE thinking_decides
  BY <1>6, DecidesShared
<1>7. CASE main_exits
  BY <1>7 DEF main_exits, Shared0, SharedShape, Fields, PendingFrame
<1>8. CASE memory_saves
  BY <1>8 DEF memory_saves, SharedShape, Fields, PendingFrame, InboxFrame
<1>9. CASE main_looks \/ main_yields
  BY <1>1, <1>3, <1>9 DEF main_looks, main_yields
<1>10. CASE communication_passes \/ communication_writes \/ communication_sent
  BY <1>1, <1>2, <1>10 DEF communication_passes, communication_writes, communication_sent
<1>11. CASE \/ main_registers \/ perception_polls \/ perception_reads \/ thinking_passes
            \/ communication_locks \/ communication_copies
  BY <1>1, <1>11 DEF main_registers, perception_polls, perception_reads, thinking_passes,
     communication_locks, communication_copies
<1>12. CASE \E t \in Workers : leaves(t)
  BY <1>1, <1>12 DEF leaves
<1> QED
  BY <1>1, <1>4, <1>5, <1>6, <1>7, <1>8, <1>9, <1>10, <1>11, <1>12, Actions
     DEF other_registers, other_yields, other_exits, other_reads, other_sends, world_waits, KernelPolls

\* A process with a new priority, its rewards spent, is a process.
Written(p, w) == [p EXCEPT !.prio = w, !.rx = 0]

LEMMA WrittenProcess ==
  ASSUME NEW p \in Process, NEW w \in Int
  PROVE  Written(p, w) \in Process /\ Written(p, w).id = p.id /\ Written(p, w).prio = w
<1> DEFINE a == [p EXCEPT !.prio = w]
<1>1. a \in Process /\ a.id = p.id /\ a.prio = w
  BY DEF Process
<1>2. Written(p, w) = [a EXCEPT !.rx = 0]
  BY DEF Written, Process
<1> HIDE DEF a
<1>3. [a EXCEPT !.rx = 0] \in Process /\ [a EXCEPT !.rx = 0].id = a.id /\ [a EXCEPT !.rx = 0].prio = a.prio
  BY <1>1 DEF Process
<1> QED
  BY <1>1, <1>2, <1>3

\* The rewards do not revive the dead, nor does a tick: it skips them, and those it
\* leaves alive are above the threshold.
LEMMA TickedProcess ==
  ASSUME NEW p \in Process, p.id # -1 => p.prio = -1 \/ p.prio > 0
  PROVE  LET q == Ticked(p) IN /\ q \in Process /\ q.id = p.id
                               /\ q.id # -1 => q.prio = -1 \/ q.prio > 0
                               /\ p.id # -1 /\ p.prio <= 0 => q.prio <= 0
<1> DEFINE g == p.rx \div NPC_IPC_REWARD_BYTES
           v == Least(p.prio - NPC_DECAY_RATE + g, NPC_PRIO_MAX)
<1>1. g \in Int
  BY KernelAssumption DEF Process
<1> HIDE DEF g
<1>2. v \in Int
  BY <1>1, KernelAssumption DEF Process, Least
<1>3. NPC_DEATH_THRESHOLD \in Nat
  BY KernelAssumption
<1>4. Ticked(p) = IF ~Counted(p) THEN p
                  ELSE [p EXCEPT !.prio = IF v <= NPC_DEATH_THRESHOLD THEN -1 ELSE v, !.rx = 0]
  BY DEF Ticked, g
<1> HIDE DEF v
<1>5. CASE ~Counted(p)
  BY <1>4, <1>5
<1>6. CASE Counted(p)
  <2> DEFINE w == IF v <= NPC_DEATH_THRESHOLD THEN -1 ELSE v
  <2>1. w \in Int /\ (w = -1 \/ w > 0)
    BY <1>2, <1>3
  <2>2. Ticked(p) = Written(p, w)
    BY <1>4, <1>6 DEF Written
  <2>3. ~(p.id # -1 /\ p.prio <= 0)
    BY <1>6 DEF Process, Counted
  <2> HIDE DEF w
  <2>4. Ticked(p) \in Process /\ Ticked(p).id = p.id /\ Ticked(p).prio = w
    BY <2>1, <2>2, WrittenProcess
  <2> QED
    BY <2>1, <2>3, <2>4
<1> QED
  BY <1>5, <1>6

\* What every step does to the processes of the NPCs.
NpcStep ==
    /\ npc' \in [NPCS -> Process]
    /\ \A i \in NPCS : /\ npc'[i].id # -1 => npc'[i].prio = -1 \/ npc'[i].prio > 0
                       /\ npc[i].id # -1 /\ npc[i].prio <= 0 => npc'[i].prio <= 0

LEMMA TickNpc ==
  ASSUME PrioInv, ai_sched_tick
  PROVE  NpcStep /\ npc'[ME].id = npc[ME].id
<1>1. ASSUME NEW i \in NPCS
      PROVE  /\ npc'[i] \in Process /\ npc'[i].id = npc[i].id
             /\ npc'[i].id # -1 => npc'[i].prio = -1 \/ npc'[i].prio > 0
             /\ npc[i].id # -1 /\ npc[i].prio <= 0 => npc'[i].prio <= 0
  <2>1. npc'[i] = Ticked(npc[i])
    BY DEF ai_sched_tick
  <2>2. npc[i] \in Process /\ (npc[i].id # -1 => npc[i].prio = -1 \/ npc[i].prio > 0)
    BY DEF PrioInv
  <2> QED
    BY <2>1, <2>2, TickedProcess
<1>2. npc' = [i \in NPCS |-> npc'[i]]
  BY DEF ai_sched_tick
<1> QED
  BY <1>1, <1>2, NpcAssumption DEF NpcStep

LEMMA RegisterNpc ==
  ASSUME PrioInv, NEW j \in NPCS, npc[j].id = -1, ai_sched_register(j)
  PROVE  NpcStep /\ (j # ME => npc'[ME].id = npc[ME].id)
<1>1. NPC_INIT_PRIO \in Int /\ NPC_INIT_PRIO > 0 /\ j \in Int
  BY KernelAssumption DEF NPCS
<1> DEFINE q == [npc[j] EXCEPT !.id = j, !.prio = NPC_INIT_PRIO, !.rx = 0]
<1>2. npc' = [npc EXCEPT ![j] = q]
  BY DEF ai_sched_register
<1>3. q \in Process /\ q.prio > 0
  <2> DEFINE a == [npc[j] EXCEPT !.id = j]
  <2>1. a \in Process
    BY <1>1 DEF PrioInv, Process
  <2>2. q = Written(a, NPC_INIT_PRIO)
    BY DEF PrioInv, Process, Written
  <2> HIDE DEF a, q
  <2>3. q \in Process /\ q.prio = NPC_INIT_PRIO
    BY <1>1, <2>1, <2>2, WrittenProcess
  <2> QED
    BY <1>1, <2>3
<1> HIDE DEF q
<1> QED
  BY <1>2, <1>3, NpcAssumption DEF PrioInv, NpcStep

LEMMA RewardNpc ==
  ASSUME PrioInv, NEW pid, NEW n \in Nat, ai_sched_add_ipc(pid, n)
  PROVE  NpcStep /\ npc'[ME].id = npc[ME].id
<1>1. RX_CAP \in Int
  BY KernelAssumption DEF RX_CAP
<1>2. \A r \in Int : Least(r + n, RX_CAP) \in Int
  BY <1>1 DEF Least
<1> QED
  BY <1>2, NpcAssumption DEF PrioInv, NpcStep, ai_sched_add_ipc, Process

LEMMA ExitNpc ==
  ASSUME PrioInv, NEW j \in NPCS, npc' = [npc EXCEPT ![j].used = FALSE]
  PROVE  NpcStep /\ npc'[ME].id = npc[ME].id
  BY NpcAssumption DEF PrioInv, NpcStep, Process

LEMMA SameNpc ==
  ASSUME PrioInv, npc' = npc
  PROVE  NpcStep /\ npc'[ME].id = npc[ME].id
  BY DEF PrioInv, NpcStep

LEMMA NpcStepped ==
  ASSUME NpcInv, Next
  PROVE  NpcStep /\ (main_registers \/ npc'[ME].id = npc[ME].id)
<1>0. PrioInv /\ ME \in NPCS /\ NPCS \subseteq Int /\ LENGTHS \subseteq Nat /\ shared.outbox_len \in Nat
  BY NpcAssumption, KernelAssumption DEF NpcInv, SharedShape, NPCS
<1>1. CASE npc' = npc
  BY <1>0, <1>1, SameNpc
<1>2. CASE main_registers
  BY <1>0, <1>2, RegisterNpc DEF main_registers, PrioInv
<1>3. CASE main_yields
  BY <1>0, <1>3, TickNpc DEF main_yields
<1>4. CASE main_exits
  BY <1>0, <1>4, ExitNpc DEF main_exits
<1>5. CASE communication_sent
  BY <1>0, <1>5, RewardNpc DEF communication_sent
<1>6. ASSUME NEW j \in Others,
             \/ other_registers(j) \/ other_yields(j) \/ other_exits(j) \/ other_reads(j)
             \/ \E n \in LENGTHS : other_sends(j, n)
      PROVE  NpcStep /\ npc'[ME].id = npc[ME].id
  <2>1. j \in NPCS /\ j # ME
    BY DEF Others
  <2>2. CASE other_registers(j)
    BY <1>0, <2>1, <2>2, RegisterNpc DEF other_registers
  <2>3. CASE other_yields(j)
    BY <1>0, <2>3, TickNpc DEF other_yields
  <2>4. CASE other_exits(j)
    BY <1>0, <2>1, <2>4, ExitNpc DEF other_exits
  <2>5. CASE other_reads(j)
    BY <1>1, <2>5, <1>0, SameNpc DEF other_reads, kernel
  <2>6. ASSUME NEW n \in LENGTHS, other_sends(j, n)
        PROVE  NpcStep /\ npc'[ME].id = npc[ME].id
    BY <1>0, <2>6, RewardNpc DEF other_sends
  <2> QED
    BY <1>6, <2>2, <2>3, <2>4, <2>5, <2>6
<1>7. CASE \/ main_looks \/ perception_polls \/ perception_reads \/ perception_stores
           \/ thinking_starts \/ thinking_passes \/ thinking_decides
           \/ communication_passes \/ communication_locks \/ communication_writes
           \/ communication_copies \/ memory_saves
  BY <1>1, <1>7 DEF main_looks, perception_polls, perception_reads, perception_stores,
     thinking_starts, thinking_passes, thinking_decides, communication_passes,
     communication_locks, communication_writes, communication_copies, memory_saves, kernel
<1>8. CASE \E t \in Workers : leaves(t)
  BY <1>1, <1>8 DEF leaves, kernel
<1>9. CASE \E j \in NPCS : world_waits(j)
  BY <1>1, <1>9 DEF world_waits, kernel
<1>10. CASE KernelPolls
  BY <1>1, <1>10 DEF KernelPolls, kernel
<1> QED
  BY <1>2, <1>3, <1>4, <1>5, <1>6, <1>7, <1>8, <1>9, <1>10, Actions

\* The invariant is inductive.
LEMMA NpcInvInit == Init => NpcInv
<1> SUFFICES ASSUME Init PROVE NpcInv
  OBVIOUS
<1>1. ThreadShape /\ CallInv /\ ReplyStable
  BY DEF Init, Threads0, Shared0, ThreadShape, CallInv, ReplyStable, Names
<1>2. SharedShape
  BY DEF Init, Shared0, SharedShape, Fields
<1>3. PrioInv
  BY NpcAssumption DEF Init, NotNpc, PrioInv, Process
<1> QED
  BY <1>1, <1>2, <1>3 DEF NpcInv

LEMMA NpcInvNext == NpcInv /\ [Next]_npcVars => NpcInv'
<1> SUFFICES ASSUME NpcInv, [Next]_npcVars PROVE NpcInv'
  OBVIOUS
<1>1. CASE UNCHANGED npcVars
  BY <1>1 DEF NpcInv, npcVars, ThreadShape, SharedShape, PrioInv, ReplyStable, CallInv
<1>2. CASE Next
  <2>1. ThreadShape' /\ MainFrame /\ (thinking_starts \/ ThinkingFrame)
    BY <1>2, ThreadStep
  <2>2. SharedShape' /\ (thinking_decides \/ PendingFrame) /\ (thinking_decides \/ main_exits \/ InboxFrame)
    BY <1>2, SharedStep DEF NpcInv
  <2>3. PrioInv'
    <3>1. NpcStep /\ (main_registers \/ npc'[ME].id = npc[ME].id)
      BY <1>2, NpcStepped
    <3>2. th'["main"]["at"] = "start" => npc'[ME].id = -1
      <4>1. CASE main_registers
        BY <4>1, MainSteps
      <4> QED
        BY <2>1, <3>1, <4>1 DEF NpcInv, PrioInv, MainFrame
    <3> QED
      BY <3>1, <3>2 DEF PrioInv, NpcStep
  <2>4. ReplyStable' /\ CallInv'
    <3>1. CASE thinking_starts
      <4>1. th'["thinking"]["reply_to"] = IF shared.has_new_msg THEN shared.inbox_from ELSE 0
        BY <3>1, StartsThread
      <4>2. PendingFrame /\ InboxFrame /\ ~shared.has_pending_send
        BY <3>1, StartsShared DEF NpcInv, thinking_starts, MayThink
      <4> QED
        BY <2>2, <4>1, <4>2 DEF ReplyStable, CallInv, PendingFrame, InboxFrame, SharedShape
    <3>2. CASE thinking_decides
      BY <3>2, DecidesThread DEF ReplyStable, CallInv
    <3>3. CASE main_exits
      BY <3>3 DEF main_exits, Threads0, ReplyStable, CallInv
    <3>4. CASE ThinkingFrame /\ PendingFrame /\ InboxFrame
      <4>1. CASE th'["thinking"] = th["thinking"]
        BY <3>4, <4>1 DEF NpcInv, ReplyStable, CallInv, PendingFrame, InboxFrame
      <4>2. CASE th'["thinking"]["at"] # "call" /\ th'["thinking"]["reply_to"] = th["thinking"]["reply_to"]
        BY <3>4, <4>2 DEF NpcInv, ReplyStable, CallInv, InboxFrame
      <4>3. CASE th'["thinking"]["at"] # "call" /\ th'["thinking"]["reply_to"] = 0
        BY <4>3 DEF ReplyStable, CallInv
      <4> QED
        BY <3>4, <4>1, <4>2, <4>3 DEF ThinkingFrame
    <3> QED
      BY <2>1, <2>2, <3>1, <3>2, <3>3, <3>4
  <2> QED
    BY <2>1, <2>2, <2>3, <2>4 DEF NpcInv
<1> QED
  BY <1>1, <1>2

LEMMA NpcInvariant == Spec => []NpcInv
  BY NpcInvInit, NpcInvNext, PTL DEF Spec

\* What a thought answers is still in the inbox when the answer is decided on, for
\* any number of NPCs and any messages (thinking_thread, perception_thread).
THEOREM ReplyIsStable == Spec => []ReplyStable
<1>1. NpcInv => ReplyStable
  BY DEF NpcInv
<1> QED
  BY <1>1, NpcInvariant, PTL

\* The dead stay dead, whatever rewards arrive (ai_sched_tick, ai_sched_add_ipc,
\* ai_sched_register).
THEOREM DeadNeverReturn == Spec => DeadStaysDead
<1>1. NpcInv /\ [Next]_npcVars
        => [\A i \in NPCS : npc[i].id # -1 /\ npc[i].prio <= 0 => npc'[i].prio <= 0]_npcVars
  BY NpcStepped DEF NpcStep
<1> QED
  BY <1>1, NpcInvariant, PTL DEF Spec, DeadStaysDead

\* A message that waits in the outbox is not replaced by another one: only a thought
\* fills the outbox, and none starts while a message waits (thinking_thread,
\* communication_thread).
THEOREM OutboxIsKept == Spec => OutboxKept
<1>1. NpcInv /\ [Next]_npcVars
        => [shared.has_pending_send /\ shared'.has_pending_send
              => shared'.outbox_to = shared.outbox_to /\ shared'.outbox_len = shared.outbox_len]_npcVars
  <2> SUFFICES ASSUME NpcInv, Next, shared.has_pending_send, shared'.has_pending_send
               PROVE  shared'.outbox_to = shared.outbox_to /\ shared'.outbox_len = shared.outbox_len
    OBVIOUS
  <2>1. ~thinking_decides
    BY DEF NpcInv, CallInv, thinking_decides
  <2> QED
    BY <2>1, SharedStep DEF NpcInv, PendingFrame
<1> QED
  BY <1>1, NpcInvariant, PTL DEF Spec, OutboxKept

----------------------------------------------------------------------------
(* Buffers *)

\* The lengths the buffers are filled with, and what is in them.
Lengths ==
    /\ shared.l3 \in Int /\ shared.l3 < L3_HISTORY_SIZE /\ shared.pending_memory \in Nat
    /\ th["communication"] = [x \in {"at", "left"} |-> th["communication"][x]]
    /\ th["communication"]["left"] \in Nat
Memories ==
    /\ memories \in [MemorySlots -> [id : Int, len : Nat]]
    /\ \A k \in MemorySlots : memories[k].len < NPC_MEMORY_L2_SIZE
Pipes == in \in [Others -> 0 .. PIPESIZE] /\ out \in [Others -> 0 .. PIPESIZE]

\* An entry of the history fits with its separator, or the history starts again.
LEMMA AppendFits ==
  ASSUME NEW len \in Int, len < L3_HISTORY_SIZE, NEW n \in Nat
  PROVE  append_to_l3(len, n) \in Int /\ append_to_l3(len, n) < L3_HISTORY_SIZE
  BY NpcAssumption DEF append_to_l3, Least

\* A memory is cleared when it is full, and what is appended is cut.
LEMMA AppendedFits ==
  ASSUME NEW old \in Nat, old < NPC_MEMORY_L2_SIZE, NEW len \in Nat
  PROVE  Appended(old, len) \in Nat /\ Appended(old, len) < NPC_MEMORY_L2_SIZE
<1> DEFINE base == IF NPC_MEMORY_L2_SIZE - old - 1 <= 0 THEN 0 ELSE old
           sep == IF base > 0 /\ base < NPC_MEMORY_L2_SIZE - 1 THEN 1 ELSE 0
<1>1. base \in Nat /\ base <= NPC_MEMORY_L2_SIZE - 1 /\ NPC_MEMORY_L2_SIZE \in Nat
  BY KernelAssumption
<1>2. sep \in {0, 1} /\ base + sep <= NPC_MEMORY_L2_SIZE - 1
  BY <1>1, KernelAssumption
<1>3. Appended(old, len) = base + sep + Least(len, NPC_MEMORY_L2_SIZE - base - 1 - sep)
  BY DEF Appended
<1> HIDE DEF base, sep
<1> QED
  BY <1>1, <1>2, <1>3 DEF Least

LEMMA SaveFits ==
  ASSUME Memories, NEW id \in Int, NEW len \in Nat, npc_memory_save(id, len)
  PROVE  Memories'
<1>1. ASSUME NEW k \in MemorySlots
      PROVE  memories'[k] \in [id : Int, len : Nat] /\ memories'[k].len < NPC_MEMORY_L2_SIZE
  <2>1. PICK old : old = IF memories[k].id = id THEN memories[k].len ELSE 0
    OBVIOUS
  <2>2. memories[k] \in [id : Int, len : Nat] /\ memories[k].len < NPC_MEMORY_L2_SIZE
    BY DEF Memories
  <2>3. old \in Nat /\ old < NPC_MEMORY_L2_SIZE
    BY <2>1, <2>2, KernelAssumption
  <2>4. Appended(old, len) \in Nat /\ Appended(old, len) < NPC_MEMORY_L2_SIZE
    BY <2>3, AppendedFits
  <2>5. memories'[k] = memories[k] \/ memories'[k] = [id |-> id, len |-> Appended(old, len)]
    BY <2>1 DEF npc_memory_save
  <2> QED
    BY <2>2, <2>4, <2>5
<1>2. memories' = [k \in MemorySlots |-> memories'[k]]
  BY DEF npc_memory_save
<1> QED
  BY <1>1, <1>2 DEF Memories

\* g_shared keeps its lengths, whichever thread writes it.
SharedLengths == shared'.l3 \in Int /\ shared'.l3 < L3_HISTORY_SIZE /\ shared'.pending_memory \in Nat

LEMMA DecidesLengths ==
  ASSUME SharedShape, Lengths, thinking_decides
  PROVE  SharedLengths
<1> DEFINE Fit(s) == /\ s = [x \in Fields |-> s[x]]
                     /\ s.l3 \in Int /\ s.l3 < L3_HISTORY_SIZE /\ s.pending_memory \in Nat
<1>1. PICK s : /\ s = Fallback(shared) \/ \E a \in Answers : s = Decided(shared, a)
               /\ shared' = [s EXCEPT !.has_new_msg = FALSE, !.inbox_from = -1]
  BY DEF thinking_decides
<1>2. Fit(shared)
  BY DEF SharedShape, Lengths
<1>3. Fit(s)
  <2>1. CASE s = Fallback(shared)
    BY <1>2, <2>1 DEF Fallback, Fields
  <2>2. ASSUME NEW a \in Answers, s = Decided(shared, a)
        PROVE  Fit(s)
    <3>1. PICK l : l = append_to_l3(shared.l3, a.message)
      OBVIOUS
    <3>2. PICK m : m = IF a.target > 0 /\ a.message > 0
                       THEN [shared EXCEPT !.outbox_to = a.target, !.outbox_len = a.message,
                                           !.has_pending_send = TRUE, !.l3 = l]
                       ELSE shared
      OBVIOUS
    <3>3. s = m \/ s = [m EXCEPT !.pending_memory = a.memory]
      BY <2>2, <3>1, <3>2 DEF Decided
    <3>4. a.message \in Nat /\ a.memory \in Nat
      <4>1. a.message \in LENGTHS \cup {0} /\ a.memory \in LENGTHS \cup {0}
        BY <2>2 DEF Answers
      <4>2. \A x \in LENGTHS \cup {0} : x \in Nat
        BY NpcAssumption
      <4> QED
        BY <4>1, <4>2, Zenon
    <3>5. l \in Int /\ l < L3_HISTORY_SIZE
      BY <1>2, <3>1, <3>4, AppendFits
    <3>6. Fit(m)
      BY <1>2, <3>2, <3>5 DEF Fields
    <3> QED
      BY <3>3, <3>4, <3>6 DEF Fields
  <2> QED
    BY <1>1, <2>1, <2>2
<1> QED
  BY <1>1, <1>3 DEF SharedLengths, Fields

LEMMA StartsLengths ==
  ASSUME SharedShape, Lengths, thinking_starts
  PROVE  SharedLengths
<1>1. PICK n \in LENGTHS : shared' = shared \/ shared' = Noted(shared, n)
  BY DEF thinking_starts
<1>2. PICK l : l = append_to_l3(shared.l3, n)
  OBVIOUS
<1>3. l \in Int /\ l < L3_HISTORY_SIZE
  BY <1>2, AppendFits, NpcAssumption DEF Lengths
<1>4. shared' = shared \/ shared' = [shared EXCEPT !.l3 = l]
  BY <1>1, <1>2 DEF Noted
<1> QED
  BY <1>3, <1>4 DEF SharedShape, Fields, Lengths, SharedLengths

LEMMA LengthsStep ==
  ASSUME NpcInv, Lengths, Next
  PROVE  SharedLengths
<1> USE DEF NpcInv, SharedShape, Fields, Lengths, SharedLengths
<1>1. CASE shared' = shared
  BY <1>1
<1>2. CASE shared' = Sent(shared)
  BY <1>2 DEF Sent
<1>3. CASE shared' = Dying
  BY <1>3 DEF Dying
<1>4. CASE perception_stores
  BY <1>4 DEF perception_stores, Inbox
<1>5. CASE thinking_starts
  BY <1>5, StartsLengths
<1>6. CASE thinking_decides
  BY <1>6, DecidesLengths
<1>7. CASE main_exits
  BY <1>7, NpcAssumption DEF main_exits, Shared0
<1>8. CASE memory_saves
  BY <1>8 DEF memory_saves
<1>9. CASE main_looks \/ main_yields
  BY <1>1, <1>3, <1>9 DEF main_looks, main_yields
<1>10. CASE communication_passes \/ communication_writes \/ communication_sent
  BY <1>1, <1>2, <1>10 DEF communication_passes, communication_writes, communication_sent
<1>11. CASE \/ main_registers \/ perception_polls \/ perception_reads \/ thinking_passes
            \/ communication_locks \/ communication_copies
  BY <1>1, <1>11 DEF main_registers, perception_polls, perception_reads, thinking_passes,
     communication_locks, communication_copies
<1>12. CASE \E t \in Workers : leaves(t)
  BY <1>1, <1>12 DEF leaves
<1> QED
  BY <1>1, <1>4, <1>5, <1>6, <1>7, <1>8, <1>9, <1>10, <1>11, <1>12, Actions
     DEF other_registers, other_yields, other_exits, other_reads, other_sends, world_waits, KernelPolls

----------------------------------------------------------------------------
(* The communication thread *)

\* It is at the end of its loop, or another thread moves, or it sends.
CommAt(s) == th'["communication"] = [th["communication"] EXCEPT !.at = s]
CommSteps == communication_locks \/ communication_writes \/ communication_copies \/ communication_sent
CommFrame == th'["communication"] = th["communication"] \/ CommAt("loop") \/ CommAt("exit")

LEMMA CommStep ==
  ASSUME NpcInv, Next
  PROVE  CommFrame \/ main_exits \/ CommSteps
<1> USE DEF NpcInv, ThreadShape, Names
<1>1. CASE th'["communication"] = th["communication"]
  BY <1>1 DEF CommFrame
<1>2. CASE main_registers
  BY <1>2 DEF main_registers, CommFrame, CommAt
<1>3. CASE main_looks \/ main_yields
  <2>1. PICK s : th' = [th EXCEPT !["main"].at = s] \/ UNCHANGED th
                 \/ \E n : th' = [[th EXCEPT !["main"].at = s] EXCEPT !["main"].loops = n]
    BY <1>3 DEF main_looks, main_yields, At
  <2> QED
    BY <1>1, <2>1
<1>4. ASSUME NEW t \in Workers, NEW s \in {"read", "lock", "loop", "exit"}, th' = [th EXCEPT ![t].at = s],
             t = "perception" \/ s \in {"loop", "exit"}
      PROVE  CommFrame
  BY <1>1, <1>4 DEF Workers, CommFrame, CommAt
<1>5. ASSUME NEW t \in Workers, th' \in Looped(t)
      PROVE  CommFrame
  BY <1>4, <1>5 DEF Looped, At
<1>6. CASE \E t \in Workers : leaves(t)
  BY <1>4, <1>6 DEF leaves, At
<1>7. CASE perception_polls \/ perception_reads
  BY <1>4, <1>7 DEF perception_polls, perception_reads, At, Workers
<1>8. CASE perception_stores
  <2>1. PICK t \in Looped("perception") : th' = [t EXCEPT !["perception"].from = NextOther(@)]
    BY <1>8 DEF perception_stores
  <2> QED
    BY <1>1, <2>1 DEF Looped, At
<1>9. CASE thinking_starts
  <2>1. PICK r : th' = [[th EXCEPT !["thinking"].at = "call"] EXCEPT !["thinking"].reply_to = r]
    BY <1>9 DEF thinking_starts, At
  <2> QED
    BY <1>1, <2>1
<1>10. CASE thinking_decides
  <2>1. PICK s \in {"loop", "exit"} : th' = [[th EXCEPT !["thinking"].at = s] EXCEPT !["thinking"].reply_to = 0]
    BY <1>10 DEF thinking_decides, Looped, At
  <2> QED
    BY <1>1, <2>1
<1>11. CASE thinking_passes \/ memory_saves \/ communication_passes
  BY <1>5, <1>11 DEF thinking_passes, memory_saves, communication_passes, Workers
<1> QED
  BY <1>1, <1>2, <1>3, <1>6, <1>7, <1>8, <1>9, <1>10, <1>11, Actions
     DEF other_registers, other_yields, other_exits, other_reads, other_sends, world_waits, KernelPolls, CommSteps

\* What it is about to write goes to another NPC: it holds the mutex from the moment
\* it has looked until the message is out, and main writes only running and open.
Sending == th["communication"]["at"] \in {"write", "copy"}
HeldInv == Sending => mutex = "communication" /\ shared.outbox_to \in Others

LEMMA HeldStep ==
  ASSUME NpcInv, Lengths, HeldInv, Next
  PROVE  HeldInv'
<1> USE DEF NpcInv, ThreadShape, Names, HeldInv, Sending
<1>1. CASE communication_locks
  BY <1>1 DEF communication_locks, HasPipe
<1>2. CASE communication_writes
  <2>1. CASE shared' = shared /\ mutex' = mutex
    BY <1>2, <2>1 DEF communication_writes
  <2>2. CASE th' \in Looped("communication")
    BY <2>2 DEF Looped, At, Lengths
  <2> QED
    BY <1>2, <2>1, <2>2 DEF communication_writes
<1>3. CASE communication_copies
  <2>1. shared' = shared /\ mutex' = mutex /\ Sending
    BY <1>3 DEF communication_copies
  <2> QED
    BY <2>1
<1>4. CASE communication_sent
  <2>1. PICK s \in {"loop", "exit"} :
           th' = [[th EXCEPT !["communication"].at = s] EXCEPT !["communication"].left = 0]
    BY <1>4 DEF communication_sent, Looped, At
  <2> QED
    BY <2>1 DEF Lengths
<1>5. CASE main_exits
  BY <1>5 DEF main_exits, Threads0
<1>6. CASE CommFrame
  <2>1. CASE ~Sending
    BY <1>6, <2>1 DEF CommFrame, CommAt, Lengths
  <2>2. CASE ~Sending'
    BY <2>2
  <2>3. CASE Sending /\ mutex' = mutex /\ (shared' = shared \/ shared' = Dying)
    BY <2>3 DEF Dying, SharedShape, Fields
  <2>4. CASE main_looks \/ main_yields
    BY <2>1, <2>3, <2>4 DEF main_looks, main_yields
  <2>5. CASE \/ perception_stores \/ thinking_starts \/ thinking_passes \/ thinking_decides
             \/ communication_passes \/ memory_saves
    BY <2>1, <2>5 DEF perception_stores, thinking_starts, thinking_passes, thinking_decides,
       communication_passes, memory_saves, Enters, Free
  <2>6. CASE main_registers \/ perception_polls \/ perception_reads \/ \E t \in Workers : leaves(t)
    BY <2>1, <2>3, <2>6 DEF main_registers, perception_polls, perception_reads, leaves
  <2> QED
    BY <1>1, <1>2, <1>3, <1>4, <1>5, <2>1, <2>3, <2>4, <2>5, <2>6, Actions
       DEF other_registers, other_yields, other_exits, other_reads, other_sends, world_waits, KernelPolls
<1> QED
  BY <1>1, <1>2, <1>3, <1>4, <1>5, <1>6, CommStep DEF CommSteps

\* What is left to write comes from the length of the outbox.
CommunicationShape(r) == r = [x \in {"at", "left"} |-> r[x]] /\ r["left"] \in Nat

LEMMA LeftStep ==
  ASSUME NpcInv, Lengths, HeldInv, Pipes, Next
  PROVE  CommunicationShape(th'["communication"])
<1> USE DEF NpcInv, ThreadShape, Names
<1>1. CommunicationShape(th["communication"]) /\ shared.outbox_len \in Nat
  BY DEF Lengths, CommunicationShape, SharedShape
<1>2. CASE CommFrame
  BY <1>1, <1>2 DEF CommFrame, CommAt, CommunicationShape
<1>3. CASE main_exits
  BY <1>3 DEF main_exits, Threads0, CommunicationShape
<1>4. ASSUME NEW s, NEW v \in Nat,
             th' = [[th EXCEPT !["communication"].at = s] EXCEPT !["communication"].left = v]
      PROVE  CommunicationShape(th'["communication"])
  BY <1>1, <1>4 DEF CommunicationShape
<1>5. CASE communication_locks
  BY <1>1, <1>5 DEF communication_locks, At, CommunicationShape
<1>6. CASE communication_writes
  <2>1. CASE th' \in Looped("communication")
    BY <1>1, <2>1 DEF Looped, At, CommunicationShape
  <2>2. CASE th' = [At("communication", "copy") EXCEPT !.communication.left = shared.outbox_len]
    BY <1>1, <1>4, <2>2 DEF At
  <2> QED
    BY <1>6, <2>1, <2>2 DEF communication_writes
<1>7. CASE communication_sent
  <2>1. PICK s \in {"loop", "exit"} :
           th' = [[th EXCEPT !["communication"].at = s] EXCEPT !["communication"].left = 0]
    BY <1>7 DEF communication_sent, Looped, At
  <2> QED
    BY <1>4, <2>1
<1>8. CASE communication_copies
  <2>1. PICK n : /\ n = Least(th["communication"]["left"], PIPESIZE - out[shared.outbox_to])
                 /\ n > 0 /\ n < th["communication"]["left"]
                 /\ th' = [th EXCEPT !["communication"].left = @ - n]
    BY <1>8 DEF communication_copies
  <2>2. out[shared.outbox_to] \in Int
    BY <1>8 DEF communication_copies, HeldInv, Sending, Pipes
  <2>3. n \in Int
    BY <1>1, <2>1, <2>2, NpcAssumption DEF Least, CommunicationShape
  <2> QED
    BY <1>1, <2>1, <2>3 DEF CommunicationShape
<1> QED
  BY <1>2, <1>3, <1>5, <1>6, <1>7, <1>8, CommStep DEF CommSteps

\* No pipe holds more than PIPESIZE: pipewrite copies what fits.
LEMMA PipesStep ==
  ASSUME NpcInv, Lengths, Pipes, Next
  PROVE  Pipes'
<1> USE DEF Pipes
<1>0. PIPESIZE \in Nat /\ INBOX \in Nat /\ th["communication"]["left"] \in Nat
  BY NpcAssumption DEF Lengths
<1>1. CASE UNCHANGED <<in, out>>
  BY <1>1
<1>2. CASE perception_reads
  <2>1. PICK j, n : n = Least(in[j], INBOX) /\ n > 0 /\ in' = [in EXCEPT ![j] = @ - n] /\ out' = out
    BY <1>2 DEF perception_reads
  <2>2. CASE j \notin Others
    BY <2>1, <2>2
  <2>3. CASE j \in Others
    <3>1. in[j] - n \in 0 .. PIPESIZE
      BY <1>0, <2>1, <2>3 DEF Least
    <3> QED
      BY <2>1, <2>3, <3>1
  <2> QED
    BY <2>2, <2>3
<1>3. CASE communication_copies
  <2>1. PICK j, n : /\ n = Least(th["communication"]["left"], PIPESIZE - out[j])
                    /\ n > 0 /\ out' = [out EXCEPT ![j] = @ + n] /\ in' = in
    BY <1>3 DEF communication_copies
  <2>2. CASE j \notin Others
    BY <2>1, <2>2
  <2>3. CASE j \in Others
    <3>1. out[j] + n \in 0 .. PIPESIZE
      BY <1>0, <2>1, <2>3 DEF Least
    <3> QED
      BY <2>1, <2>3, <3>1
  <2> QED
    BY <2>2, <2>3
<1>4. CASE communication_sent
  <2>1. PICK j : /\ out[j] + th["communication"]["left"] <= PIPESIZE
                 /\ out' = [out EXCEPT ![j] = @ + th["communication"]["left"]] /\ in' = in
    BY <1>4 DEF communication_sent
  <2>2. CASE j \notin Others
    BY <2>1, <2>2
  <2>3. CASE j \in Others
    <3>1. out[j] + th["communication"]["left"] \in 0 .. PIPESIZE
      BY <1>0, <2>1, <2>3
    <3> QED
      BY <2>1, <2>3, <3>1
  <2> QED
    BY <2>2, <2>3
<1>5. ASSUME NEW j \in Others, other_reads(j)
      PROVE  Pipes'
  BY <1>0, <1>5 DEF other_reads
<1>6. ASSUME NEW j \in Others, NEW n \in LENGTHS, other_sends(j, n)
      PROVE  Pipes'
  <2>1. n \in Nat /\ in[j] + n \in 0 .. PIPESIZE
    BY <1>0, <1>6, NpcAssumption DEF other_sends
  <2> QED
    BY <1>6, <2>1 DEF other_sends
<1>7. CASE \/ main_registers \/ main_looks \/ main_yields \/ main_exits
           \/ perception_polls \/ perception_stores
           \/ thinking_starts \/ thinking_passes \/ thinking_decides
           \/ communication_passes \/ communication_locks \/ communication_writes \/ memory_saves
  BY <1>1, <1>7 DEF main_registers, main_looks, main_yields, main_exits, perception_polls,
     perception_stores, thinking_starts, thinking_passes, thinking_decides,
     communication_passes, communication_locks, communication_writes, memory_saves, pipes
<1>8. CASE \E t \in Workers : leaves(t)
  BY <1>1, <1>8 DEF leaves, pipes
<1>9. CASE \E j \in NPCS : world_waits(j)
  BY <1>1, <1>9 DEF world_waits, pipes
<1>10. ASSUME NEW j \in Others, other_registers(j) \/ other_yields(j) \/ other_exits(j)
       PROVE  Pipes'
  BY <1>1, <1>10 DEF other_registers, other_yields, other_exits, pipes
<1>11. CASE KernelPolls
  BY <1>1, <1>11 DEF KernelPolls, pipes
<1> QED
  BY <1>2, <1>3, <1>4, <1>5, <1>6, <1>7, <1>8, <1>9, <1>10, <1>11, Actions

----------------------------------------------------------------------------
(* The evolution scheduler *)

\* What a process may hold: nothing of an NPC yet, or NPC i alive or dead.
Valued(i, p) ==
    /\ p.id \in {-1, i} /\ p.rx \in Nat
    /\ IF p.id = -1 THEN p.prio = 0 ELSE p.prio \in {-1} \cup NPC_DEATH_THRESHOLD + 1 .. NPC_PRIO_MAX
Values == \A i \in NPCS : Valued(i, npc[i])

Registered == {i \in NPCS : npc[i].id # -1}
Living == {i \in NPCS : Counted(npc[i])}

\* g_alive_npcs lies between the number of the living and that of all who came.
CountInv ==
    /\ alive \in Nat
    /\ Cardinality(Living) <= alive
    /\ alive <= Cardinality(Registered)

LEMMA NpcsFinite == IsFiniteSet(NPCS) /\ Cardinality(NPCS) = NPC_COUNT
<1>1. NPC_COUNT \in Nat /\ 1 \in Int /\ NPC_COUNT \in Int
  BY KernelAssumption
<1> QED
  BY <1>1, FS_Interval DEF NPCS

LEMMA SizeSmaller ==
  ASSUME NEW S \in SUBSET NPCS, NEW T \in SUBSET S
  PROVE  /\ IsFiniteSet(S) /\ IsFiniteSet(T)
         /\ Cardinality(S) \in Nat /\ Cardinality(T) \in Nat /\ Cardinality(T) <= Cardinality(S)
<1>1. IsFiniteSet(S)
  BY NpcsFinite, FS_Subset
<1>2. IsFiniteSet(T) /\ Cardinality(T) <= Cardinality(S)
  BY <1>1, FS_Subset
<1> QED
  BY <1>1, <1>2, FS_CardinalityType

\* Nobody registers, nobody comes back to life, and nobody is counted.
LEMMA CountKept ==
  ASSUME CountInv, alive' = alive, Registered' = Registered, Living' \subseteq Living
  PROVE  CountInv'
<1>1. Cardinality(Living') <= Cardinality(Living) /\ Cardinality(Living') \in Nat /\ Cardinality(Living) \in Nat
  BY SizeSmaller DEF Living
<1>2. Cardinality(Registered) \in Nat
  BY SizeSmaller DEF Registered
<1> QED
  BY <1>1, <1>2 DEF CountInv

LEMMA WrittenFields ==
  ASSUME NEW p \in Process, NEW w
  PROVE  Written(p, w) = [used |-> p.used, id |-> p.id, prio |-> w, rx |-> 0]
<1>1. PICK a : a = [p EXCEPT !.prio = w]
  OBVIOUS
<1>2. a = [used |-> p.used, id |-> p.id, prio |-> w, rx |-> p.rx]
  BY <1>1 DEF Process
<1>3. Written(p, w) = [a EXCEPT !.rx = 0]
  BY <1>1 DEF Written, Process
<1> QED
  BY <1>2, <1>3

\* One process of a tick: dead, or above the threshold and at most NPC_PRIO_MAX.
LEMMA TickedValue ==
  ASSUME NEW i \in NPCS, NEW p \in Process, Valued(i, p)
  PROVE  /\ Valued(i, Ticked(p)) /\ Ticked(p).id = p.id
         /\ Counted(Ticked(p)) => Counted(p)
<1>1. CASE ~Counted(p)
  BY <1>1 DEF Ticked
<1>2. CASE Counted(p)
  <2>1. PICK g : g = p.rx \div NPC_IPC_REWARD_BYTES
    OBVIOUS
  <2>2. PICK v : v = Least(p.prio - NPC_DECAY_RATE + g, NPC_PRIO_MAX)
    OBVIOUS
  <2>3. PICK w : w = IF v <= NPC_DEATH_THRESHOLD THEN -1 ELSE v
    OBVIOUS
  <2>4. g \in Int
    BY <2>1, KernelAssumption DEF Process
  <2>5. v \in Int /\ v <= NPC_PRIO_MAX
    BY <2>2, <2>4, KernelAssumption DEF Process, Least
  <2>6. w \in {-1} \cup NPC_DEATH_THRESHOLD + 1 .. NPC_PRIO_MAX
    BY <2>3, <2>5, KernelAssumption
  <2>7. Ticked(p) = Written(p, w)
    BY <1>2, <2>1, <2>2, <2>3 DEF Ticked, Written
  <2>8. Ticked(p) = [used |-> p.used, id |-> p.id, prio |-> w, rx |-> 0]
    BY <2>7, WrittenFields
  <2>9. p.id # -1
    BY <1>2 DEF Counted, Process
  <2> QED
    BY <1>2, <2>6, <2>8, <2>9 DEF Valued
<1> QED
  BY <1>1, <1>2

LEMMA TickCount ==
  ASSUME PrioInv, Values, CountInv, ai_sched_tick
  PROVE  Values' /\ CountInv'
<1>1. ASSUME NEW i \in NPCS
      PROVE  /\ Valued(i, npc'[i]) /\ npc'[i].id = npc[i].id
             /\ Counted(npc'[i]) => Counted(npc[i])
  <2>1. npc'[i] = Ticked(npc[i])
    BY DEF ai_sched_tick
  <2> QED
    BY <2>1, TickedValue DEF PrioInv, Values
<1>2. Values'
  BY <1>1 DEF Values
<1>3. Registered' = Registered /\ Living' \subseteq Living
  BY <1>1 DEF Registered, Living
<1>4. Living \subseteq Registered
  BY DEF Living, Registered, PrioInv, Process, Counted
<1>5. Cardinality(Living') <= Cardinality(Living) /\ Cardinality(Living) \in Nat
  BY <1>3, SizeSmaller DEF Living
<1>6. Cardinality(Living) <= Cardinality(Registered)
  BY <1>4, SizeSmaller DEF Registered
<1>7. alive' = Cardinality(Living)
  BY DEF ai_sched_tick, Living
<1> QED
  BY <1>2, <1>3, <1>5, <1>6, <1>7 DEF CountInv

LEMMA RegisterCount ==
  ASSUME PrioInv, Values, CountInv, NEW j \in NPCS, npc[j].id = -1, ai_sched_register(j)
  PROVE  Values' /\ CountInv'
<1>1. npc'[j] = [used |-> npc[j].used, id |-> j, prio |-> NPC_INIT_PRIO, rx |-> 0]
  <2>1. npc[j] \in Process
    BY DEF PrioInv
  <2>2. npc' = [npc EXCEPT ![j] = [npc[j] EXCEPT !.id = j, !.prio = NPC_INIT_PRIO, !.rx = 0]]
    BY DEF ai_sched_register
  <2>3. PICK a : a = [npc[j] EXCEPT !.id = j]
    OBVIOUS
  <2>4. a = [used |-> npc[j].used, id |-> j, prio |-> npc[j].prio, rx |-> npc[j].rx]
    BY <2>1, <2>3 DEF Process
  <2>5. a \in Process
    BY <2>1, <2>4 DEF Process, NPCS
  <2>6. npc'[j] = Written(a, NPC_INIT_PRIO)
    BY <2>2, <2>3 DEF Written, PrioInv
  <2> QED
    BY <2>4, <2>5, <2>6, WrittenFields
<1>2. \A i \in NPCS : i # j => npc'[i] = npc[i]
  BY DEF ai_sched_register, PrioInv
<1>3. Values'
  <2>1. Valued(j, npc'[j])
    <3>1. /\ NPC_INIT_PRIO \in Int /\ NPC_DEATH_THRESHOLD \in Int /\ NPC_PRIO_MAX \in Int
          /\ NPC_DEATH_THRESHOLD + 1 <= NPC_INIT_PRIO /\ NPC_INIT_PRIO <= NPC_PRIO_MAX
      BY KernelAssumption
    <3>2. NPC_INIT_PRIO \in NPC_DEATH_THRESHOLD + 1 .. NPC_PRIO_MAX
      BY <3>1
    <3>3. j # -1
      BY KernelAssumption DEF NPCS
    <3> QED
      BY <1>1, <3>2, <3>3 DEF Valued
  <2> QED
    BY <1>2, <2>1 DEF Values
<1>4. Registered' = Registered \cup {j} /\ j \notin Registered
  BY <1>1, <1>2, KernelAssumption DEF Registered, NPCS
<1>5. Living' \subseteq Living \cup {j} /\ j \notin Living
  BY <1>2 DEF Living, Counted
<1>6. IsFiniteSet(Registered) /\ IsFiniteSet(Living) /\ Cardinality(Registered) \in Nat /\ Cardinality(Living) \in Nat
  BY SizeSmaller DEF Registered, Living
<1>7. Cardinality(Registered') = Cardinality(Registered) + 1
  BY <1>4, <1>6, FS_AddElement
<1>8. Cardinality(Living \cup {j}) = Cardinality(Living) + 1
  BY <1>5, <1>6, FS_AddElement
<1>9. Cardinality(Living') <= Cardinality(Living \cup {j}) /\ Cardinality(Living') \in Nat
  BY <1>5, SizeSmaller DEF Living
<1> QED
  BY <1>3, <1>6, <1>7, <1>8, <1>9 DEF CountInv, ai_sched_register

\* A reward is a number, whoever gets it.
LEMMA RewardCount ==
  ASSUME PrioInv, Values, CountInv, NEW pid, NEW n \in Nat, ai_sched_add_ipc(pid, n), alive' = alive
  PROVE  Values' /\ CountInv'
<1>1. RX_CAP \in Nat
  BY KernelAssumption DEF RX_CAP
<1>2. ASSUME NEW i \in NPCS
      PROVE  Valued(i, npc'[i]) /\ npc'[i].id = npc[i].id /\ (Counted(npc'[i]) => Counted(npc[i]))
  <2>1. PICK r : r = Least(npc[i].rx + n, RX_CAP)
    OBVIOUS
  <2>2. npc'[i] = npc[i] \/ npc'[i] = [npc[i] EXCEPT !.rx = r]
    BY <2>1 DEF ai_sched_add_ipc
  <2>3. npc[i] \in Process /\ Valued(i, npc[i])
    BY DEF PrioInv, Values
  <2>4. r \in Nat
    BY <1>1, <2>1, <2>3 DEF Valued, Least
  <2>5. npc'[i] = npc[i] \/ npc'[i] = [used |-> npc[i].used, id |-> npc[i].id, prio |-> npc[i].prio, rx |-> r]
    BY <2>2, <2>3 DEF Process
  <2> QED
    BY <2>3, <2>4, <2>5 DEF Valued, Counted
<1>3. Values' /\ Registered' = Registered /\ Living' \subseteq Living
  BY <1>2 DEF Values, Registered, Living
<1> QED
  BY <1>3, CountKept

LEMMA ExitCount ==
  ASSUME PrioInv, Values, CountInv, NEW j \in NPCS, npc' = [npc EXCEPT ![j].used = FALSE], alive' = alive
  PROVE  Values' /\ CountInv'
<1>1. ASSUME NEW i \in NPCS
      PROVE  Valued(i, npc'[i]) /\ npc'[i].id = npc[i].id /\ (Counted(npc'[i]) => Counted(npc[i]))
  BY DEF PrioInv, Process, Values, Valued, Counted
<1>2. Values' /\ Registered' = Registered /\ Living' \subseteq Living
  BY <1>1 DEF Values, Registered, Living
<1> QED
  BY <1>2, CountKept

LEMMA SameCount ==
  ASSUME Values, CountInv, npc' = npc, alive' = alive
  PROVE  Values' /\ CountInv'
  BY DEF Values, CountInv, Registered, Living

LEMMA CountStep ==
  ASSUME NpcInv, Values, CountInv, Next
  PROVE  Values' /\ CountInv'
<1>0. PrioInv /\ ME \in NPCS /\ LENGTHS \subseteq Nat /\ shared.outbox_len \in Nat
  BY NpcAssumption DEF NpcInv, SharedShape
<1>1. CASE npc' = npc /\ alive' = alive
  BY <1>1, SameCount
<1>2. CASE main_registers
  BY <1>0, <1>2, RegisterCount DEF main_registers, PrioInv
<1>3. CASE main_yields
  BY <1>0, <1>3, TickCount DEF main_yields
<1>4. CASE main_exits
  BY <1>0, <1>4, ExitCount DEF main_exits
<1>5. CASE communication_sent
  BY <1>0, <1>5, RewardCount DEF communication_sent
<1>6. ASSUME NEW j \in Others,
             \/ other_registers(j) \/ other_yields(j) \/ other_exits(j) \/ other_reads(j)
             \/ \E n \in LENGTHS : other_sends(j, n)
      PROVE  Values' /\ CountInv'
  <2>1. j \in NPCS
    BY DEF Others
  <2>2. CASE other_registers(j)
    BY <1>0, <2>1, <2>2, RegisterCount DEF other_registers
  <2>3. CASE other_yields(j)
    BY <1>0, <2>3, TickCount DEF other_yields
  <2>4. CASE other_exits(j)
    BY <1>0, <2>1, <2>4, ExitCount DEF other_exits
  <2>5. CASE other_reads(j)
    BY <1>1, <2>5 DEF other_reads, kernel
  <2>6. ASSUME NEW n \in LENGTHS, other_sends(j, n)
        PROVE  Values' /\ CountInv'
    BY <1>0, <2>6, RewardCount DEF other_sends
  <2> QED
    BY <1>6, <2>2, <2>3, <2>4, <2>5, <2>6
<1>7. CASE \/ main_looks \/ perception_polls \/ perception_reads \/ perception_stores
           \/ thinking_starts \/ thinking_passes \/ thinking_decides
           \/ communication_passes \/ communication_locks \/ communication_writes
           \/ communication_copies \/ memory_saves
  BY <1>1, <1>7 DEF main_looks, perception_polls, perception_reads, perception_stores,
     thinking_starts, thinking_passes, thinking_decides, communication_passes,
     communication_locks, communication_writes, communication_copies, memory_saves, kernel
<1>8. CASE \E t \in Workers : leaves(t)
  BY <1>1, <1>8 DEF leaves, kernel
<1>9. CASE \E j \in NPCS : world_waits(j)
  BY <1>1, <1>9 DEF world_waits, kernel
<1>10. CASE KernelPolls
  BY <1>1, <1>10 DEF KernelPolls, kernel
<1> QED
  BY <1>2, <1>3, <1>4, <1>5, <1>6, <1>7, <1>8, <1>9, <1>10, Actions

----------------------------------------------------------------------------
(* The invariant *)

LockAndWorld == mutex \in {"none", "communication"} /\ polls \in BOOLEAN /\ world \subseteq NPCS

KernelInv ==
    /\ NpcInv /\ Values /\ CountInv
    /\ Lengths /\ Memories /\ Pipes /\ HeldInv
    /\ LockAndWorld

LEMMA KernelInit == Init => KernelInv
<1> SUFFICES ASSUME Init PROVE KernelInv
  OBVIOUS
<1>1. NpcInv
  BY NpcInvInit
<1>2. Values
  BY DEF Init, NotNpc, Values, Valued
<1>3. CountInv
  <2>1. Living = {} /\ Registered = {}
    BY DEF Init, NotNpc, Living, Registered, Counted
  <2> QED
    BY <2>1, FS_EmptySet DEF Init, CountInv
<1>4. Lengths
  <2>1. th["communication"] = [at |-> "none", left |-> 0]
    BY DEF Init, Threads0
  <2> QED
    BY <2>1, NpcAssumption DEF Init, Shared0, Lengths
<1>5. HeldInv
  BY DEF Init, Threads0, HeldInv, Sending
<1>6. Memories
  BY KernelAssumption DEF Init, NoMemory, Memories
<1>7. Pipes
  BY NpcAssumption DEF Init, Pipes
<1>8. LockAndWorld
  BY DEF Init, LockAndWorld
<1> QED
  BY <1>1, <1>2, <1>3, <1>4, <1>5, <1>6, <1>7, <1>8 DEF KernelInv

\* Only the memory thread writes memories.
LEMMA MemoriesStep ==
  ASSUME Lengths, Memories, Next
  PROVE  Memories'
<1>1. CASE memories' = memories
  BY <1>1 DEF Memories
<1>2. CASE memory_saves
  <2>1. ME \in Int
    BY NpcAssumption DEF NPCS
  <2> QED
    BY <1>1, <1>2, <2>1, SaveFits DEF memory_saves, Lengths
<1> QED
  BY <1>1, <1>2, Actions
     DEF main_registers, main_looks, main_yields, main_exits, leaves, perception_polls, perception_reads,
     perception_stores, thinking_starts, thinking_passes, thinking_decides, communication_passes,
     communication_locks, communication_writes, communication_copies, communication_sent,
     other_registers, other_yields, other_exits, other_reads, other_sends, world_waits, KernelPolls, kernel

LEMMA OthersStep ==
  ASSUME LockAndWorld, Next
  PROVE  LockAndWorld'
<1> USE DEF LockAndWorld
<1>1. CASE communication_locks \/ communication_writes \/ communication_sent
  BY <1>1 DEF communication_locks, communication_writes, communication_sent
<1>2. CASE \E j \in NPCS : world_waits(j)
  BY <1>2 DEF world_waits
<1>3. CASE UNCHANGED <<mutex, polls, world>>
  BY <1>3
<1>4. CASE KernelPolls
  BY <1>4 DEF KernelPolls
<1> QED
  BY <1>1, <1>2, <1>3, <1>4, Actions
     DEF main_registers, main_looks, main_yields, main_exits, leaves, perception_polls, perception_reads,
     perception_stores, thinking_starts, thinking_passes, thinking_decides, communication_passes,
     communication_copies, memory_saves,
     other_registers, other_yields, other_exits, other_reads, other_sends

LEMMA KernelNext == KernelInv /\ [Next]_npcVars => KernelInv'
<1> SUFFICES ASSUME KernelInv, [Next]_npcVars PROVE KernelInv'
  OBVIOUS
<1>1. NpcInv'
  BY NpcInvNext DEF KernelInv
<1>2. CASE UNCHANGED npcVars
  BY <1>1, <1>2 DEF KernelInv, npcVars, Values, CountInv, Living, Registered, Lengths, Memories, Pipes,
     HeldInv, Sending, LockAndWorld
<1>3. CASE Next
  <2>1. Values' /\ CountInv'
    BY <1>3, CountStep DEF KernelInv
  <2>2. Lengths'
    BY <1>3, LengthsStep, LeftStep DEF KernelInv, Lengths, SharedLengths, CommunicationShape
  <2>3. Memories' /\ Pipes' /\ HeldInv' /\ LockAndWorld'
    BY <1>3, MemoriesStep, PipesStep, HeldStep, OthersStep DEF KernelInv
  <2> QED
    BY <1>1, <2>1, <2>2, <2>3 DEF KernelInv
<1> QED
  BY <1>2, <1>3

\* At most all NPCs have registered, so at most all are counted.
LEMMA KernelProperty == KernelInv => KernelTrue
<1> SUFFICES ASSUME KernelInv PROVE KernelTrue
  OBVIOUS
<1>1. Cardinality(Registered) <= NPC_COUNT /\ Cardinality(Registered) \in Nat
  BY SizeSmaller, NpcsFinite DEF Registered
<1>2. alive \in 0 .. NPC_COUNT
  BY <1>1, KernelAssumption DEF KernelInv, CountInv
<1>3. TypeOK
  BY <1>2 DEF KernelInv, TypeOK, Values, Valued, LockAndWorld, Pipes
<1>4. AliveCounted
  BY DEF KernelInv, CountInv, Living, AliveCounted
<1>5. BuffersFit
  BY DEF KernelInv, Lengths, Memories, BuffersFit
<1> QED
  BY <1>3, <1>4, <1>5 DEF KernelTrue

\* The kernel's account of the NPCs is right, for any number of NPCs, constants of
\* the scheduler, sizes of pipes and buffers and lengths of messages: priorities and
\* the number alive (ai_sched_tick, ai_sched_register), the pipes, histories and
\* memories within their buffers (append_to_l3, npc_memory_save).
THEOREM KernelTheorem == Spec => []KernelTrue
<1>1. Spec => []KernelInv
  BY KernelInit, KernelNext, PTL DEF Spec
<1> QED
  BY <1>1, KernelProperty, PTL
----------------------------------------------------------------------------
(* npc_ai_chat (Chat) *)

\* The fields of a call's state.
CallShape(c) == c = [held |-> c.held, sock |-> c.sock,
                     kept |-> c.kept, closing |-> c.closing, ret |-> c.ret]

\* Every control block is free, given up and not free, or the call's own.
Blocks(c) ==
    /\ c.kept \in Nat /\ c.closing \in Nat
    /\ c.kept + c.closing + (IF c.sock = "none" THEN 0 ELSE 1) <= TCP_PCB_SIZE

\* A call that goes on, holding pages of S and, once the request has succeeded, of R.
Going(c, S, R, socks) ==
    /\ CallShape(c) /\ Blocks(c) /\ c.sock \in socks /\ c.ret \in {-1, 0}
    /\ c.held \subseteq IF c.ret = 0 THEN S \cup R ELSE S

\* A call that polls for ever: it has got as far as a connection, so it holds all pages.
Polling(c) ==
    /\ CallShape(c) /\ Blocks(c) /\ c.sock = "polls" /\ c.ret = -1
    /\ c.held = Buffers \cup HttpBuffers

Socks == {"none", "CLOSED", "ESTABLISHED"}

\* memory_alloc adds pages of those wanted, memory_free takes pages away.
LEMMA AllocHeld ==
  ASSUME NEW c, CallShape(c), NEW W, NEW d \in memory_alloc(c, W)
  PROVE  /\ CallShape(d) /\ d.sock = c.sock /\ d.ret = c.ret
         /\ d.kept = c.kept /\ d.closing = c.closing
         /\ c.held \subseteq d.held /\ d.held \subseteq c.held \cup W
<1>1. PICK got \in SUBSET W : d = [c EXCEPT !.held = @ \cup got]
  BY DEF memory_alloc
<1> QED
  BY <1>1 DEF CallShape

LEMMA FreeHeld ==
  ASSUME NEW c, CallShape(c), c.sock # "polls", NEW W
  PROVE  LET d == memory_free(c, W)
         IN  /\ CallShape(d) /\ d.sock = c.sock /\ d.ret = c.ret
             /\ d.kept = c.kept /\ d.closing = c.closing /\ d.held = c.held \ W
  BY DEF memory_free, CallShape

\* A call that polls comes to no later stage.
LEMMA FreePolling ==
  ASSUME NEW c, Polling(c), NEW W
  PROVE  memory_free(c, W) = c
  BY DEF Polling, memory_free

\* What the network does to the blocks that were closed does not make them more.
LEMMA PolledBlocks ==
  ASSUME NEW c, CallShape(c), Blocks(c), NEW d \in Polled(c)
  PROVE  /\ CallShape(d) /\ Blocks(d) /\ d.sock = c.sock
         /\ d.ret = c.ret /\ d.held = c.held
<1>n. PICK n \in 0 .. c.closing : d \in {[c EXCEPT !.closing = @ - n, !.kept = @ + k] : k \in 0 .. n}
  BY DEF Polled
<1>1. PICK k \in 0 .. n : d = [c EXCEPT !.closing = @ - n, !.kept = @ + k]
  BY <1>n
<1>2. /\ CallShape(d) /\ d.sock = c.sock /\ d.ret = c.ret /\ d.held = c.held
      /\ d.closing = c.closing - n /\ d.kept = c.kept + k
  BY <1>1 DEF CallShape
<1>3. n \in Nat /\ k \in Nat /\ n <= c.closing /\ k <= n
  BY DEF Blocks
<1> QED
  BY <1>2, <1>3, ChatAssumption DEF Blocks

\* tcp_connect leaves the pages alone, and a block is open, released or still CLOSED.
LEMMA ConnectHeld ==
  ASSUME NEW c, Going(c, Buffers \cup HttpBuffers, {}, {"CLOSED"}), c.ret = -1,
         c.held = Buffers \cup HttpBuffers, NEW d \in tcp_connect(c)
  PROVE  \/ Polling(d)
         \/ Going(d, Buffers \cup HttpBuffers, {}, Socks) /\ d.ret = -1 /\ d.held = c.held
<1>1. CASE d = c
  BY <1>1 DEF Going, Socks
<1>2. CASE d \in Silence(c)
  <2>1. d = [c EXCEPT !.sock = "polls"]
    BY <1>2 DEF Silence
  <2> QED
    BY <2>1 DEF Going, Polling, CallShape, Blocks
<1>3. ASSUME NEW e \in Polled(c), NEW s \in {"none", "ESTABLISHED"}, d = [e EXCEPT !.sock = s]
      PROVE  Going(d, Buffers \cup HttpBuffers, {}, Socks) /\ d.ret = -1 /\ d.held = c.held
  <2>1. /\ CallShape(e) /\ Blocks(e) /\ e.sock = "CLOSED"
        /\ e.ret = -1 /\ e.held = c.held
    BY PolledBlocks DEF Going
  <2>2. /\ CallShape(d) /\ d.sock = s /\ d.ret = -1 /\ d.held = c.held
        /\ d.kept = e.kept /\ d.closing = e.closing
    BY <1>3, <2>1 DEF CallShape
  <2> QED
    BY <2>1, <2>2, ChatAssumption DEF Going, Blocks, Socks
<1> QED
  BY <1>1, <1>2, <1>3 DEF tcp_connect

\* tcp_close moves the call's own block to the ones that were given up.
LEMMA CloseHeld ==
  ASSUME NEW c, CallShape(c), Blocks(c), c.sock \in Socks, NEW d, d = tcp_close(c)
  PROVE  /\ CallShape(d) /\ Blocks(d) /\ d.sock = "none"
         /\ d.ret = c.ret /\ d.held = c.held
<1>1. CASE c.sock = "none"
  BY <1>1 DEF tcp_close
<1>2. CASE c.sock = "CLOSED"
  <2>1. d = [c EXCEPT !.sock = "none", !.kept = @ + 1]
    BY <1>2 DEF tcp_close
  <2>2. /\ CallShape(d) /\ d.sock = "none" /\ d.ret = c.ret /\ d.held = c.held
        /\ d.kept = c.kept + 1 /\ d.closing = c.closing
    BY <2>1 DEF CallShape
  <2> QED
    BY <1>2, <2>2, ChatAssumption DEF Blocks
<1>3. CASE c.sock = "ESTABLISHED"
  <2>1. d = [c EXCEPT !.sock = "none", !.closing = @ + 1]
    BY <1>3 DEF tcp_close
  <2>2. /\ CallShape(d) /\ d.sock = "none" /\ d.ret = c.ret /\ d.held = c.held
        /\ d.kept = c.kept /\ d.closing = c.closing + 1
    BY <2>1 DEF CallShape
  <2> QED
    BY <1>3, <2>2, ChatAssumption DEF Blocks
<1> QED
  BY <1>1, <1>2, <1>3 DEF Socks

\* The request and the answer: the call polls, or its socket is closed.
LEMMA ExchangeHeld ==
  ASSUME NEW c, Going(c, Buffers \cup HttpBuffers, {}, {"ESTABLISHED"}), c.ret = -1,
         c.held = Buffers \cup HttpBuffers, NEW d \in http_exchange(c)
  PROVE  Polling(d) \/ Going(d, Buffers \cup HttpBuffers, {"resp"}, {"none"})
<1>1. CASE d \in Silence(c)
  <2>1. d = [c EXCEPT !.sock = "polls"]
    BY <1>1 DEF Silence
  <2> QED
    BY <2>1 DEF Going, Polling, CallShape, Blocks
<1>2. ASSUME NEW s \in Socks, NEW g, g = tcp_close([c EXCEPT !.sock = s])
      PROVE  Going(g, Buffers \cup HttpBuffers, {}, {"none"}) /\ g.ret = -1
  <2>1. PICK e : e = [c EXCEPT !.sock = s]
    OBVIOUS
  <2>2. /\ CallShape(e) /\ e.sock = s /\ e.ret = -1 /\ e.held = c.held
        /\ e.kept = c.kept /\ e.closing = c.closing
    BY <2>1 DEF Going, CallShape
  <2>3. Blocks(e)
    BY <2>2, ChatAssumption DEF Going, Blocks
  <2> QED
    BY <1>2, <2>1, <2>2, <2>3, CloseHeld DEF Going
<1>3. CASE d = tcp_close([c EXCEPT !.sock = "none"])
  BY <1>2, <1>3 DEF Socks, Going
<1>4. ASSUME NEW s \in {"CLOSED", "ESTABLISHED"}, d \in http_parse_response(tcp_close([c EXCEPT !.sock = s]))
      PROVE  Going(d, Buffers \cup HttpBuffers, {"resp"}, {"none"})
  <2>1. PICK g : g = tcp_close([c EXCEPT !.sock = s])
    OBVIOUS
  <2>2. Going(g, Buffers \cup HttpBuffers, {}, {"none"}) /\ g.ret = -1
    BY <1>2, <2>1 DEF Socks
  <2>3. CASE d = g
    BY <2>2, <2>3 DEF Going
  <2>4. ASSUME NEW f \in memory_alloc(g, {"resp"}), d = [f EXCEPT !.ret = 0]
        PROVE  Going(d, Buffers \cup HttpBuffers, {"resp"}, {"none"})
    <3>1. /\ CallShape(f) /\ f.sock = "none" /\ f.kept = g.kept /\ f.closing = g.closing
          /\ f.held \subseteq Buffers \cup HttpBuffers \cup {"resp"}
      BY <2>2, AllocHeld DEF Going
    <3>2. /\ CallShape(d) /\ d.sock = "none" /\ d.kept = g.kept /\ d.closing = g.closing
          /\ d.held = f.held /\ d.ret = 0
      BY <2>4, <3>1 DEF CallShape
    <3> QED
      BY <2>2, <3>1, <3>2 DEF Going, Blocks
  <2> QED
    BY <1>4, <2>1, <2>3, <2>4 DEF http_parse_response
<1> QED
  BY <1>1, <1>3, <1>4 DEF http_exchange

\* http_execute frees both its buffers and gives its socket up, whatever fails.
LEMMA HttpHeld ==
  ASSUME NEW c, Going(c, Buffers, {}, {"none"}), c.ret = -1, c.held = Buffers, NEW h \in http_execute(c)
  PROVE  Polling(h) \/ Going(h, Buffers, {"resp"}, {"none"})
<1>1. PICK a, o, t, d :
        /\ a \in memory_alloc(c, HttpBuffers)
        /\ o = IF HttpBuffers \subseteq a.held THEN tcp_open(a) ELSE a
        /\ t \in IF o.sock = "none" THEN {o} ELSE tcp_connect(o)
        /\ d \in IF t.sock = "ESTABLISHED" THEN http_exchange(t) ELSE {Refused(t)}
        /\ h = http_cleanup(d)
  BY DEF http_execute
<1>2. /\ CallShape(a) /\ Blocks(a) /\ a.sock = "none" /\ a.ret = -1
      /\ Buffers \subseteq a.held /\ a.held \subseteq Buffers \cup HttpBuffers
  BY <1>1, AllocHeld DEF Going, Blocks
<1>3. /\ Going(o, Buffers \cup HttpBuffers, {}, {"none", "CLOSED"}) /\ o.ret = -1
      /\ o.sock = "CLOSED" => o.held = Buffers \cup HttpBuffers
  <2>1. CASE o = a
    BY <1>2, <2>1 DEF Going
  <2>2. CASE HttpBuffers \subseteq a.held /\ a.kept + a.closing < TCP_PCB_SIZE /\ o = [a EXCEPT !.sock = "CLOSED"]
    <3>1. /\ CallShape(o) /\ o.sock = "CLOSED" /\ o.ret = -1 /\ o.held = a.held
          /\ o.kept = a.kept /\ o.closing = a.closing
      BY <1>2, <2>2 DEF CallShape
    <3> QED
      BY <1>2, <2>2, <3>1, ChatAssumption DEF Going, Blocks
  <2> QED
    BY <1>1, <2>1, <2>2 DEF tcp_open
<1>4. \/ Polling(t)
      \/ /\ Going(t, Buffers \cup HttpBuffers, {}, Socks) /\ t.ret = -1
         /\ t.sock = "ESTABLISHED" => t.held = Buffers \cup HttpBuffers
  <2>1. CASE o.sock = "none"
    BY <1>1, <1>3, <2>1 DEF Going, Socks
  <2>2. CASE o.sock = "CLOSED"
    <3>1. Going(o, Buffers \cup HttpBuffers, {}, {"CLOSED"})
      BY <1>3, <2>2 DEF Going
    <3> QED
      BY <1>1, <1>3, <2>2, <3>1, ConnectHeld
  <2> QED
    BY <1>3, <2>1, <2>2 DEF Going
<1>5. Polling(d) \/ Going(d, Buffers \cup HttpBuffers, {"resp"}, {"none"})
  <2>1. CASE Polling(t)
    BY <1>1, <2>1 DEF Refused, tcp_close, Polling
  <2>2. CASE t.sock = "ESTABLISHED"
    BY <1>1, <1>4, <2>2, ExchangeHeld DEF Going, Polling
  <2>3. CASE t.sock \in {"none", "CLOSED"}
    <3>1. d = tcp_close(t)
      BY <1>1, <2>3 DEF Refused
    <3> QED
      BY <1>4, <2>3, <3>1, CloseHeld DEF Going, Polling
  <2> QED
    BY <1>4, <2>1, <2>2, <2>3 DEF Polling, Going, Socks
<1>6. CASE Polling(d)
  BY <1>1, <1>6, FreePolling DEF http_cleanup
<1>7. CASE Going(d, Buffers \cup HttpBuffers, {"resp"}, {"none"})
  <2>0. CallShape(d) /\ d.sock = "none" /\ h = memory_free(d, HttpBuffers)
    BY <1>1, <1>7 DEF http_cleanup, Going
  <2>1. /\ CallShape(h) /\ h.sock = "none" /\ h.ret = d.ret
        /\ h.kept = d.kept /\ h.closing = d.closing /\ h.held = d.held \ HttpBuffers
    BY <2>0, FreeHeld
  <2>2. {"resp"} \cap HttpBuffers = {} /\ Buffers \cap HttpBuffers = {}
    BY DEF Buffers, HttpBuffers
  <2> QED
    BY <1>7, <2>1, <2>2 DEF Going, Blocks
<1> QED
  BY <1>5, <1>6, <1>7

\* ai_chat_response frees the body of the answer; at most a content is left.
LEMMA ResponseHeld ==
  ASSUME NEW c, Going(c, Buffers, {"resp"}, {"none"}), NEW h \in ai_chat_response(c)
  PROVE  Going(h, Buffers, {"content"}, {"none"})
<1>1. CASE c.ret = -1
  BY <1>1 DEF Going, ai_chat_response
<1>2. CASE c.ret = 0
  <2>1. PICK d \in IF "resp" \in c.held THEN Extracted(c) ELSE {c} : h = http_response_free(d)
    BY <1>2 DEF ai_chat_response
  <2>2. /\ CallShape(d) /\ Blocks(d) /\ d.sock = "none" /\ d.ret = 0
        /\ d.held \subseteq Buffers \cup {"resp", "content"}
    <3>1. CASE d = c
      BY <1>2, <3>1 DEF Going
    <3>2. CASE d \in memory_alloc(c, {"content"})
      BY <1>2, <3>2, AllocHeld DEF Going, Blocks
    <3> QED
      BY <2>1, <3>1, <3>2 DEF Extracted
  <2>3. /\ CallShape(h) /\ h.sock = "none" /\ h.ret = 0
        /\ h.kept = d.kept /\ h.closing = d.closing /\ h.held = d.held \ {"resp"}
    BY <2>1, <2>2, FreeHeld DEF http_response_free
  <2> QED
    BY <2>2, <2>3 DEF Going, Blocks
<1> QED
  BY <1>1, <1>2 DEF Going

\* The three pages of ai_chat are freed, however far it came.
LEMMA ChatHeld ==
  ASSUME NEW c, Going(c, {}, {}, {"none"}), c.ret = -1, NEW h \in ai_chat(c)
  PROVE  Polling(h) \/ Going(h, {}, {"content"}, {"none"})
<1>1. PICK a, d :
        /\ a \in memory_alloc(c, Buffers)
        /\ d \in IF Buffers \subseteq a.held THEN UNION {ai_chat_response(e) : e \in http_execute(a)} ELSE {a}
        /\ h = memory_free(d, Buffers)
  BY DEF ai_chat
<1>2. Going(a, Buffers, {}, {"none"}) /\ a.ret = -1
  BY <1>1, AllocHeld DEF Going, Blocks
<1>3. Polling(d) \/ Going(d, Buffers, {"content"}, {"none"})
  <2>1. CASE d = a
    BY <1>2, <2>1 DEF Going
  <2>2. ASSUME Buffers \subseteq a.held, NEW e \in http_execute(a), d \in ai_chat_response(e)
        PROVE  Polling(d) \/ Going(d, Buffers, {"content"}, {"none"})
    <3>1. a.held = Buffers
      BY <1>2, <2>2 DEF Going
    <3>2. CASE Polling(e)
      BY <2>2, <3>2 DEF Polling, ai_chat_response
    <3>3. CASE Going(e, Buffers, {"resp"}, {"none"})
      BY <2>2, <3>3, ResponseHeld
    <3> QED
      BY <1>2, <2>2, <3>1, <3>2, <3>3, HttpHeld
  <2> QED
    BY <1>1, <2>1, <2>2
<1>4. CASE Polling(d)
  BY <1>1, <1>4, FreePolling
<1>5. CASE Going(d, Buffers, {"content"}, {"none"})
  <2>1. /\ CallShape(h) /\ h.sock = "none" /\ h.ret = d.ret
        /\ h.kept = d.kept /\ h.closing = d.closing /\ h.held = d.held \ Buffers
    <3>1. CallShape(d) /\ d.sock = "none"
      BY <1>5 DEF Going
    <3> QED
      BY <1>1, <3>1, FreeHeld
  <2> QED
    BY <1>5, <2>1 DEF Going, Blocks
<1> QED
  BY <1>3, <1>4, <1>5

\* Between two calls nothing is held, and a call that polls holds what it has for ever.
ChatInv == Polling(chat) \/ (Going(chat, {}, {}, {"none"}) /\ chat.ret = -1)

LEMMA ChatStep == ChatInv /\ [ChatNext]_chat => ChatInv'
<1> SUFFICES ASSUME ChatInv, [ChatNext]_chat PROVE ChatInv'
  OBVIOUS
<1>1. CASE chat' = chat
  BY <1>1 DEF ChatInv
<1>2. CASE ChatNext
  <2>1. Going(chat, {}, {}, {"none"}) /\ chat.ret = -1
    BY <1>2 DEF ChatInv, Polling, ChatNext, sys_npc_ai_chat, sys_npc_ai_chat_waits
  <2>2. PICK c \in ai_chat(chat) : chat' = IF c.sock = "polls" THEN c ELSE Returned(c)
    <3>1. CASE sys_npc_ai_chat
      <4>1. PICK e \in ai_chat(chat) : e.sock # "polls" /\ chat' = Returned(e)
        BY <3>1 DEF sys_npc_ai_chat
      <4>2. chat' = IF e.sock = "polls" THEN e ELSE Returned(e)
        BY <4>1
      <4> QED
        BY <4>1, <4>2
    <3>2. CASE sys_npc_ai_chat_waits
      <4>1. PICK e \in ai_chat(chat) : e.sock = "polls" /\ chat' = e
        BY <3>2 DEF sys_npc_ai_chat_waits
      <4>2. chat' = IF e.sock = "polls" THEN e ELSE Returned(e)
        BY <4>1
      <4> QED
        BY <4>1, <4>2
    <3> QED
      BY <1>2, <3>1, <3>2 DEF ChatNext
  <2>3. Polling(c) \/ Going(c, {}, {"content"}, {"none"})
    BY <2>1, ChatHeld
  <2>4. CASE c.sock = "polls"
    BY <2>2, <2>3, <2>4 DEF ChatInv, Going
  <2>5. CASE c.sock # "polls"
    <3>1. Going(c, {}, {"content"}, {"none"})
      BY <2>3, <2>5 DEF Polling
    <3>2. PICK d : d = IF c.ret < 0 THEN c ELSE ai_chat_response_free(c)
      OBVIOUS
    <3>3. /\ CallShape(d) /\ d.sock = "none" /\ d.held = {}
          /\ d.kept = c.kept /\ d.closing = c.closing
      <4>1. CASE c.ret = -1
        BY <3>1, <3>2, <4>1 DEF Going
      <4>2. CASE c.ret = 0
        <5>1. CallShape(c) /\ c.sock = "none" /\ d = memory_free(c, {"content"})
          BY <3>1, <3>2, <4>2 DEF Going, ai_chat_response_free
        <5> QED
          BY <3>1, <4>2, <5>1, FreeHeld DEF Going
      <4> QED
        BY <3>1, <4>1, <4>2 DEF Going
    <3>4. chat' = [d EXCEPT !.ret = -1]
      BY <2>2, <2>5, <3>2 DEF Returned
    <3>5. /\ CallShape(chat') /\ chat'.sock = "none" /\ chat'.held = {}
          /\ chat'.kept = c.kept /\ chat'.closing = c.closing /\ chat'.ret = -1
      BY <3>3, <3>4 DEF CallShape
    <3> QED
      BY <3>1, <3>5 DEF ChatInv, Going, Blocks, CallShape
  <2> QED
    BY <2>4, <2>5
<1> QED
  BY <1>1, <1>2

\* npc_ai_chat accounts for what it takes on each of its paths, whatever fails and call
\* after call: every page comes back, and the control block is free or one of those that
\* tcp_close did not free; a call that does not return holds everything (http_execute,
\* ai_chat, tcp_close).
THEOREM ChatTheorem == ChatSpec => []ChatAccounted
<1>1. ChatInit => ChatInv
  BY ChatAssumption DEF ChatInit, NoChat, ChatInv, Going, CallShape, Blocks
<1>2. ChatInv => ChatAccounted
  BY DEF ChatInv, Polling, Going, Blocks, ChatAccounted
<1> QED
  BY <1>1, <1>2, ChatStep, PTL DEF ChatSpec
=============================================================================
