---------------------------- MODULE SchedProofs -----------------------------
(***************************************************************************)
(* For any number of processes and threads, sizes of the task queue and    *)
(* priorities: the ring implements the task queue, the queue tells the     *)
(* truth about thread states, parent pointers lead to the process that     *)
(* forked, and stride scheduling bounds how far a waiting thread is        *)
(* overtaken.                                                              *)
(***************************************************************************)
EXTENDS SchedProps, RingQueue, FoldProofs, TLAPS

\* A task is not the mark that the scheduler is running.
LEMMA NoTaskApart == NoTask \notin Tasks
  BY DEF NoTask, Tasks

\* The same of sequences of tasks.
LEMMA AppendTasks ==
  ASSUME NEW q \in Seq(Tasks), NEW x \in Tasks
  PROVE  /\ Append(q, x) \in Seq(Tasks)
         /\ ToSet(Append(q, x)) = ToSet(q) \cup {x}
         /\ x \notin ToSet(q) /\ IsInjective(q) => IsInjective(Append(q, x))
  BY AppendedSeq, Zenon

LEMMA RemoveTask ==
  ASSUME NEW q \in Seq(Tasks), NEW i \in 1 .. Len(q)
  PROVE  /\ RemoveAt(q, i) \in Seq(Tasks)
         /\ q[i] \in ToSet(q) /\ q[i] \in Tasks
         /\ ToSet(q) \ {q[i]} \subseteq ToSet(RemoveAt(q, i))
         /\ IsInjective(q) => /\ ToSet(RemoveAt(q, i)) = ToSet(q) \ {q[i]}
                              /\ IsInjective(RemoveAt(q, i))
  BY RemovedSet, Zenon

LEMMA TailTasks ==
  ASSUME NEW q \in Seq(Tasks), q # <<>>
  PROVE  /\ Tail(q) \in Seq(Tasks)
         /\ Head(q) \in ToSet(q) /\ Head(q) \in Tasks
         /\ ToSet(q) \ {Head(q)} \subseteq ToSet(Tail(q))
         /\ IsInjective(q) => /\ ToSet(Tail(q)) = ToSet(q) \ {Head(q)}
                              /\ IsInjective(Tail(q))
  BY TailSet, Zenon

(***************************************************************************)
(* Thread states, the task queue and the running thread                    *)
(***************************************************************************)
Panics == {"no", "overflow", "over", "allocproc", "loader"}

TaskInv ==
    /\ tstate \in [Tasks -> States] /\ queue \in Seq(Tasks)
    /\ current \in Tasks \cup {NoTask}
    /\ panicked \in Panics /\ joined \in BOOLEAN
    /\ RunnableQueued /\ QueueExact

\* u, which was not RUNNABLE, becomes so and is queued; the CPU is given back if it
\* was u's.
LEMMA Enqueued ==
  ASSUME TaskInv, panicked = "no", NEW u \in Tasks, tstate[u] # "RUNNABLE",
         add_task(u), tstate' = [tstate EXCEPT ![u] = "RUNNABLE"],
         current' = IF current = u THEN NoTask ELSE current, joined' = joined
  PROVE  TaskInv'
<1> USE DEF TaskInv
<1>1. CASE Full
  <2>1. panicked' = "overflow" /\ queue' = queue
    BY <1>1 DEF add_task
  <2> QED
    BY <2>1 DEF RunnableQueued, QueueExact, States, Panics
<1>2. CASE ~Full
  <2>1. panicked' = "no" /\ queue' = Append(queue, u)
    BY <1>2 DEF add_task
  <2>2. /\ queue' \in Seq(Tasks) /\ ToSet(queue') = ToSet(queue) \cup {u}
        /\ u \notin ToSet(queue) /\ IsInjective(queue) => IsInjective(queue')
    BY <2>1, AppendTasks
  <2>3. RunnableQueued'
    BY <2>2, NoTaskApart DEF RunnableQueued
  <2>4. QueueExact'
    BY <2>1, <2>2 DEF QueueExact
  <2> QED
    BY <2>1, <2>2, <2>3, <2>4 DEF States, Panics
<1> QED
  BY <1>1, <1>2

\* The running thread sleeps or ends.
LEMMA Left ==
  ASSUME TaskInv, panicked = "no", NEW x \in Tasks, current = x, NEW s \in {"SLEEPING", "EXITED"},
         Leave(x, s), UNCHANGED <<queue, panicked, joined>>
  PROVE  TaskInv'
<1> USE DEF TaskInv
<1>1. tstate[x] = "RUNNING"
  BY DEF RunnableQueued
<1>2. RunnableQueued'
  BY NoTaskApart DEF RunnableQueued, Leave
<1>3. \A y \in Tasks : tstate'[y] = "RUNNABLE" <=> tstate[y] = "RUNNABLE"
  BY <1>1 DEF Leave
<1>4. QueueExact'
  BY <1>3 DEF QueueExact
<1> QED
  BY <1>2, <1>4 DEF Leave, States

\* The scheduler takes x, which can run, out of the queue and switches to it.
LEMMA Dispatched ==
  ASSUME TaskInv, panicked = "no", current = NoTask, NEW x \in Tasks, tstate[x] = "RUNNABLE",
         tstate' = [tstate EXCEPT ![x] = "RUNNING"], current' = x,
         queue' \in Seq(Tasks), ToSet(queue) \ {x} \subseteq ToSet(queue'),
         IsInjective(queue) => ToSet(queue') = ToSet(queue) \ {x} /\ IsInjective(queue'),
         UNCHANGED <<panicked, joined>>
  PROVE  TaskInv'
<1> USE DEF TaskInv
<1>1. RunnableQueued'
  BY NoTaskApart DEF RunnableQueued
<1>2. QueueExact'
  BY DEF QueueExact
<1> QED
  BY <1>1, <1>2 DEF States

\* An entry y that cannot run is dropped.
LEMMA Dropped ==
  ASSUME TaskInv, panicked = "no", NEW y \in ToSet(queue), tstate[y] # "RUNNABLE",
         queue' \in Seq(Tasks), ToSet(queue) \ {y} \subseteq ToSet(queue'),
         UNCHANGED <<tstate, current, panicked, joined>>
  PROVE  TaskInv'
<1> USE DEF TaskInv
<1>1. RunnableQueued'
  BY DEF RunnableQueued
<1>2. ~joined
  BY DEF QueueExact
<1> QED
  BY <1>1, <1>2 DEF QueueExact

\* waittid gives a slot back.
LEMMA Joined ==
  ASSUME TaskInv, NEW u \in Tasks, tstate[u] = "EXITED", tstate' = [tstate EXCEPT ![u] = "T_UNUSED"],
         UNCHANGED <<queue, current, panicked, joined>>
  PROVE  TaskInv'
<1> USE DEF TaskInv
<1>1. \A y \in Tasks : /\ tstate'[y] = "RUNNABLE" <=> tstate[y] = "RUNNABLE"
                       /\ tstate'[y] = "RUNNING" <=> tstate[y] = "RUNNING"
  OBVIOUS
<1> QED
  BY <1>1 DEF RunnableQueued, QueueExact, States

\* The thread states and the queue stay, whatever the kernel panics about.
LEMMA SameTasks ==
  ASSUME TaskInv, panicked = "no", panicked' \in Panics, UNCHANGED <<tstate, queue, current, joined>>
  PROVE  TaskInv'
  BY DEF TaskInv, RunnableQueued, QueueExact

\* A process ends: joined says whether all its other threads had ended before.
LEMMA ProcessLeft ==
  ASSUME TaskInv, panicked = "no", NEW x \in Tasks, exit_process(x)
  PROVE  TaskInv'
<1> USE DEF TaskInv
<1>1. tstate[x] = "RUNNING"
  BY DEF RunnableQueued, exit_process, Running
<1>2. tstate' \in [Tasks -> States] /\ current' = NoTask /\ queue' = queue /\ panicked' = "no"
  BY DEF exit_process, States
<1>3. RunnableQueued'
  BY <1>2, NoTaskApart DEF RunnableQueued, exit_process, Running
<1>4. joined' \in BOOLEAN /\ (joined' => joined)
  BY DEF exit_process
<1>5. ASSUME joined'
      PROVE  \A y \in Tasks : tstate'[y] = "RUNNABLE" <=> tstate[y] = "RUNNABLE"
  BY <1>1, <1>5 DEF exit_process
<1>6. QueueExact'
  BY <1>2, <1>4, <1>5 DEF QueueExact
<1> QED
  BY <1>2, <1>3, <1>4, <1>6 DEF Panics

(***************************************************************************)
(* Process slots                                                           *)
(***************************************************************************)
\* Only a process in use has threads.
SlotInv == \A x \in Tasks : pstate[Proc(x)] # "P_USED" => tstate[x] = "T_UNUSED"

ProcInv ==
    /\ pstate \in [Procs -> {"P_UNUSED", "P_USED", "ZOMBIE"}]
    /\ pid \in [Procs -> Nat] /\ forker \in [Procs -> Nat] /\ nextPid \in Nat
    /\ parent \in [Procs -> Procs \cup {Null}]
    /\ waitArg \in [Tasks -> Int]
    /\ SlotInv /\ ParentTruth

LEMMA TaskParts ==
  ASSUME NEW x \in Tasks
  PROVE  Proc(x) \in Procs /\ Tid(x) \in Tids /\ x = <<Proc(x), Tid(x)>>
  BY DEF Tasks, Proc, Tid

LEMMA PartsTask ==
  ASSUME NEW p \in Procs, NEW t \in Tids
  PROVE  <<p, t>> \in Tasks /\ Proc(<<p, t>>) = p /\ Tid(<<p, t>>) = t
  BY DEF Tasks, Proc, Tid

LEMMA ZeroTid == 0 \in Tids
  BY SlotAssumption DEF Tids

\* The thread that traps is RUNNING, and its process is in use.
LEMMA Trapped ==
  ASSUME TaskInv, ProcInv, panicked = "no", NEW x \in Tasks, current = x
  PROVE  tstate[x] = "RUNNING" /\ pstate[Proc(x)] = "P_USED" /\ Proc(x) \in Procs
<1>1. tstate[x] = "RUNNING"
  BY DEF TaskInv, RunnableQueued
<1> QED
  BY <1>1, TaskParts DEF ProcInv, SlotInv

LEMMA NewProcessTask ==
  ASSUME TaskInv, ProcInv, panicked = "no", NEW x \in Tasks, current = x, NEW p \in Procs,
         allocproc(p, Proc(x)), UNCHANGED <<current, joined>>
  PROVE  TaskInv'
<1> DEFINE u == <<p, 0>>
<1>1. u \in Tasks /\ Proc(u) = p
  BY ZeroTid, PartsTask
<1>2. tstate[u] = "T_UNUSED"
  BY <1>1 DEF ProcInv, SlotInv, allocproc, FreeSlot
<1>3. current # u
  BY <1>2, Trapped
<1>4. add_task(u) /\ tstate' = [tstate EXCEPT ![u] = "RUNNABLE"]
  BY DEF allocproc
<1> HIDE DEF u
<1> QED
  BY <1>1, <1>2, <1>3, <1>4, Enqueued

LEMMA WaitTask ==
  ASSUME TaskInv, ProcInv, panicked = "no", NEW x \in Tasks, current = x, NEW a,
         wait_turn(x, a), UNCHANGED joined
  PROVE  TaskInv'
<1>1. CASE UNCHANGED <<tstate, queue, current, panicked>>
  BY <1>1, SameTasks DEF Panics
<1>2. CASE add_task(x) /\ Leave(x, "RUNNABLE")
  BY <1>2, Trapped, Enqueued DEF Leave
<1> QED
  BY <1>1, <1>2 DEF wait_turn

LEMMA SchedulerTask ==
  ASSUME TaskInv, panicked = "no", scheduler
  PROVE  TaskInv'
<1>1. CASE fetch_none
  BY <1>1, SameTasks DEF fetch_none, Panics
<1>2. CASE fetch_head
  <2> DEFINE y == Head(queue)
  <2>1. queue \in Seq(Tasks) /\ queue # <<>> /\ queue' = Tail(queue)
    BY <1>2 DEF fetch_head, TaskInv
  <2>2. /\ queue' \in Seq(Tasks)
        /\ y \in ToSet(queue) /\ y \in Tasks
        /\ ToSet(queue) \ {y} \subseteq ToSet(queue')
        /\ IsInjective(queue) => ToSet(queue') = ToSet(queue) \ {y} /\ IsInjective(queue')
    BY <2>1, TailTasks, Zenon
  <2>3. /\ current = NoTask /\ UNCHANGED <<panicked, joined>>
        /\ tstate[y] = "RUNNABLE" => tstate' = [tstate EXCEPT ![y] = "RUNNING"] /\ current' = y
        /\ tstate[y] # "RUNNABLE" => UNCHANGED <<tstate, current>>
    BY <1>2 DEF fetch_head, Dispatch
  <2> HIDE DEF y
  <2>4. CASE tstate[y] = "RUNNABLE"
    BY <2>2, <2>3, <2>4, Dispatched
  <2>5. CASE tstate[y] # "RUNNABLE"
    BY <2>2, <2>3, <2>5, Dropped
  <2> QED
    BY <2>4, <2>5
<1>3. ASSUME NEW i \in 1 .. Len(queue), fetch_min(i)
      PROVE  TaskInv'
  <2> DEFINE y == queue[i]
  <2>1. queue \in Seq(Tasks) /\ queue' = RemoveAt(queue, i)
    BY <1>3 DEF fetch_min, Rest, TaskInv
  <2>2. /\ queue' \in Seq(Tasks)
        /\ y \in ToSet(queue) /\ y \in Tasks
        /\ ToSet(queue) \ {y} \subseteq ToSet(queue')
        /\ IsInjective(queue) => ToSet(queue') = ToSet(queue) \ {y} /\ IsInjective(queue')
    BY <2>1, RemoveTask, Zenon
  <2>3. /\ current = NoTask /\ UNCHANGED <<panicked, joined>> /\ tstate[y] = "RUNNABLE"
        /\ tstate' = [tstate EXCEPT ![y] = "RUNNING"] /\ current' = y
    BY <1>3 DEF fetch_min, Dispatch, Smallest, Candidates
  <2> HIDE DEF y
  <2> QED
    BY <2>2, <2>3, Dispatched
<1> QED
  BY <1>1, <1>2, <1>3 DEF scheduler

\* Every step keeps the queue true.
LEMMA TaskStep ==
  ASSUME TaskInv, ProcInv, Next
  PROVE  TaskInv'
<1>0. panicked = "no"
  BY DEF Next
<1>1. CASE scheduler
  BY <1>0, <1>1, SchedulerTask
<1>2. ASSUME NEW x \in Tasks, SchedulingCall(x)
      PROVE  TaskInv'
  <2>1. CASE yield(x)
    BY <1>0, <2>1, Trapped, Enqueued DEF yield, Running, Leave
  <2>2. CASE sleep(x)
    BY <1>0, <2>2, Left DEF sleep, Running
  <2>3. ASSUME NEW u \in Tasks, wake(x, u)
        PROVE  TaskInv'
    <3>1. current = x /\ tstate[u] = "SLEEPING" /\ tstate[x] = "RUNNING" /\ current' = current /\ joined' = joined
      BY <1>0, <2>3, Trapped DEF wake, Running
    <3> QED
      BY <1>0, <2>3, <3>1, Enqueued DEF wake
  <2>4. ASSUME NEW n \in PRIORITIES, sys_set_priority(x, n)
        PROVE  TaskInv'
    BY <1>0, <2>4, SameTasks DEF sys_set_priority, Panics
  <2> QED
    BY <1>2, <2>1, <2>2, <2>3, <2>4 DEF SchedulingCall
<1>3. ASSUME NEW x \in Tasks, ProcessCall(x)
      PROVE  TaskInv'
  <2>1. ASSUME fork(x) \/ sys_spawn(x)
        PROVE  TaskInv'
    <3>1. ASSUME NEW p \in Procs, allocproc(p, Proc(x)), UNCHANGED <<current, joined>>
          PROVE  TaskInv'
      BY <1>0, <2>1, <3>1, NewProcessTask DEF fork, sys_spawn, Running
    <3>2. CASE panicked' = "allocproc" /\ UNCHANGED <<tstate, queue, current, joined>>
      BY <1>0, <3>2, SameTasks DEF Panics
    <3> QED
      BY <2>1, <3>1, <3>2 DEF fork, sys_spawn
  <2>2. CASE exec(x)
    BY <1>0, <2>2, SameTasks DEF exec, Panics
  <2>3. CASE exit_process(x)
    BY <1>0, <2>3, ProcessLeft
  <2>4. ASSUME NEW a \in 0 .. MAX_PID, wait(x, a)
        PROVE  TaskInv'
    BY <1>0, <2>4, WaitTask DEF wait, Running
  <2>5. CASE wait_resume(x)
    BY <1>0, <2>5, WaitTask DEF wait_resume
  <2> QED
    BY <1>3, <2>1, <2>2, <2>3, <2>4, <2>5 DEF ProcessCall
<1>4. ASSUME NEW x \in Tasks, ThreadCall(x)
      PROVE  TaskInv'
  <2>1. CASE sys_thread_create(x)
    <3>1. PICK t \in Tids : /\ tstate[<<Proc(x), t>>] = "T_UNUSED"
                            /\ tstate' = [tstate EXCEPT ![<<Proc(x), t>>] = "RUNNABLE"]
                            /\ add_task(<<Proc(x), t>>)
      BY <2>1 DEF sys_thread_create
    <3> DEFINE u == <<Proc(x), t>>
    <3>2. u \in Tasks
      BY TaskParts, PartsTask
    <3>3. tstate[u] = "T_UNUSED" /\ tstate' = [tstate EXCEPT ![u] = "RUNNABLE"] /\ add_task(u)
      BY <3>1
    <3> HIDE DEF u
    <3>4. tstate[x] = "RUNNING" /\ current = x /\ UNCHANGED <<current, joined>>
      BY <1>0, <2>1, Trapped DEF sys_thread_create, Running
    <3> QED
      BY <1>0, <3>2, <3>3, <3>4, Enqueued
  <2>2. ASSUME NEW t \in Tids, sys_waittid(x, t)
        PROVE  TaskInv'
    <3> DEFINE u == <<Proc(x), t>>
    <3>1. u \in Tasks
      BY TaskParts, PartsTask
    <3>2. /\ tstate[u] = "EXITED" /\ tstate' = [tstate EXCEPT ![u] = "T_UNUSED"]
          /\ UNCHANGED <<queue, current, panicked, joined>>
      BY <2>2 DEF sys_waittid
    <3> HIDE DEF u
    <3> QED
      BY <3>1, <3>2, Joined
  <2>3. CASE exit_thread(x)
    BY <1>0, <2>3, Left DEF exit_thread, Running
  <2> QED
    BY <1>4, <2>1, <2>2, <2>3 DEF ThreadCall
<1> QED
  BY <1>1, <1>2, <1>3, <1>4 DEF Next

LEMMA NewProcessProc ==
  ASSUME TaskInv, ProcInv, panicked = "no", NEW x \in Tasks, current = x, NEW p \in Procs,
         allocproc(p, Proc(x)), UNCHANGED waitArg
  PROVE  ProcInv'
<1> USE DEF ProcInv
<1>1. pstate[Proc(x)] = "P_USED" /\ Proc(x) \in Procs /\ pstate[p] = "P_UNUSED" /\ p # Proc(x)
  BY Trapped DEF allocproc, FreeSlot
<1>2. /\ pstate' = [pstate EXCEPT ![p] = "P_USED"] /\ pid' = [pid EXCEPT ![p] = nextPid]
      /\ parent' = [parent EXCEPT ![p] = Proc(x)] /\ forker' = [forker EXCEPT ![p] = pid[Proc(x)]]
      /\ nextPid' = nextPid + 1 /\ tstate' = [tstate EXCEPT ![<<p, 0>>] = "RUNNABLE"]
  BY DEF allocproc
<1>3. /\ pstate' \in [Procs -> {"P_UNUSED", "P_USED", "ZOMBIE"}]
      /\ pid' \in [Procs -> Nat] /\ forker' \in [Procs -> Nat] /\ nextPid' \in Nat
      /\ parent' \in [Procs -> Procs \cup {Null}]
  BY <1>1, <1>2
<1>4. SlotInv'
  <2> SUFFICES ASSUME NEW y \in Tasks, pstate'[Proc(y)] # "P_USED"
               PROVE  tstate'[y] = "T_UNUSED"
    BY DEF SlotInv
  <2>1. Proc(y) \in Procs /\ Proc(y) # p /\ pstate[Proc(y)] # "P_USED"
    BY <1>2, TaskParts
  <2>2. y # <<p, 0>>
    BY <2>1, ZeroTid, PartsTask
  <2> QED
    BY <1>2, <2>1, <2>2 DEF SlotInv, TaskInv
<1>5. ParentTruth'
  <2> SUFFICES ASSUME NEW q \in Procs, pstate'[q] # "P_UNUSED", parent'[q] # Null
               PROVE  pstate'[parent'[q]] = "P_USED" /\ pid'[parent'[q]] = forker'[q]
    BY DEF ParentTruth
  <2>1. CASE q = p
    BY <1>1, <1>2, <2>1
  <2>2. CASE q # p
    <3>1. pstate[q] # "P_UNUSED" /\ parent'[q] = parent[q] /\ parent[q] \in Procs /\ forker'[q] = forker[q]
      BY <1>2, <2>2
    <3>2. pstate[parent[q]] = "P_USED" /\ pid[parent[q]] = forker[q] /\ parent[q] # p
      BY <1>1, <3>1 DEF ParentTruth
    <3> QED
      BY <1>2, <3>1, <3>2
  <2> QED
    BY <2>1, <2>2
<1> QED
  BY <1>3, <1>4, <1>5

LEMMA EndedProc ==
  ASSUME TaskInv, ProcInv, panicked = "no", NEW x \in Tasks, exit_process(x)
  PROVE  ProcInv'
<1> USE DEF ProcInv
<1> DEFINE p == Proc(x)
<1>1. p \in Procs
  BY TaskParts
<1> HIDE DEF p
<1>2. /\ pstate' = [pstate EXCEPT ![p] = IF parent[p] # Null THEN "ZOMBIE" ELSE "P_UNUSED"]
      /\ parent' = [q \in Procs |-> IF parent[q] = p THEN Null ELSE parent[q]]
      /\ tstate' = [u \in Tasks |-> IF Proc(u) = p THEN "T_UNUSED" ELSE tstate[u]]
      /\ waitArg' = [u \in Tasks |-> IF Proc(u) = p THEN NotWaiting ELSE waitArg[u]]
      /\ UNCHANGED <<pid, forker, nextPid>>
  BY DEF exit_process, Orphaned, p
<1>3. /\ pstate' \in [Procs -> {"P_UNUSED", "P_USED", "ZOMBIE"}]
      /\ pid' \in [Procs -> Nat] /\ forker' \in [Procs -> Nat] /\ nextPid' \in Nat
      /\ parent' \in [Procs -> Procs \cup {Null}]
      /\ waitArg' \in [Tasks -> Int]
  BY <1>1, <1>2 DEF NotWaiting
<1>4. SlotInv'
  <2> SUFFICES ASSUME NEW y \in Tasks, pstate'[Proc(y)] # "P_USED"
               PROVE  tstate'[y] = "T_UNUSED"
    BY DEF SlotInv
  <2> QED
    BY <1>2, TaskParts DEF SlotInv
<1>5. ParentTruth'
  <2> SUFFICES ASSUME NEW q \in Procs, pstate'[q] # "P_UNUSED", parent'[q] # Null
               PROVE  pstate'[parent'[q]] = "P_USED" /\ pid'[parent'[q]] = forker'[q]
    BY DEF ParentTruth
  <2>1. parent[q] # p /\ parent'[q] = parent[q] /\ parent[q] \in Procs
    BY <1>2
  <2>2. pstate[q] # "P_UNUSED"
    <3>1. CASE q = p
      <4>1. pstate[p] = "P_USED"
        BY Trapped DEF exit_process, Running, p
      <4> QED
        BY <3>1, <4>1
    <3>2. CASE q # p
      BY <1>2, <3>2
    <3> QED
      BY <3>1, <3>2
  <2> QED
    BY <1>2, <2>1, <2>2 DEF ParentTruth
<1> QED
  BY <1>3, <1>4, <1>5

\* What a step does to threads of processes in use concerns no slot.
LEMMA SameProc ==
  ASSUME TaskInv, ProcInv, UNCHANGED <<pstate, pid, parent, forker, nextPid>>, waitArg' \in [Tasks -> Int],
         \A y \in Tasks : tstate'[y] = tstate[y] \/ pstate[Proc(y)] = "P_USED"
  PROVE  ProcInv'
  BY DEF ProcInv, SlotInv, ParentTruth

LEMMA WaitProc ==
  ASSUME TaskInv, ProcInv, panicked = "no", NEW x \in Tasks, current = x, NEW a \in Int,
         wait_turn(x, a)
  PROVE  ProcInv'
<1>1. waitArg' \in [Tasks -> Int]
  BY DEF ProcInv, wait_turn, NotWaiting
<1>2. CASE UNCHANGED <<procVars, tstate>>
  BY <1>1, <1>2, SameProc DEF procVars
<1>3. CASE UNCHANGED procVars /\ Leave(x, "RUNNABLE")
  <2>1. \A y \in Tasks : tstate'[y] = tstate[y] \/ pstate[Proc(y)] = "P_USED"
    BY <1>3, Trapped DEF Leave, TaskInv
  <2> QED
    BY <1>1, <1>3, <2>1, SameProc DEF procVars
<1>4. ASSUME NEW q \in Procs, pstate[q] = "ZOMBIE", pstate' = [pstate EXCEPT ![q] = "P_UNUSED"],
             UNCHANGED <<pid, parent, forker, nextPid, tstate>>
      PROVE  ProcInv'
  <2>1. SlotInv'
    BY <1>4, TaskParts DEF ProcInv, SlotInv
  <2>2. ParentTruth'
    BY <1>4 DEF ProcInv, ParentTruth
  <2> QED
    BY <1>1, <1>4, <2>1, <2>2 DEF ProcInv
<1>5. CASE \E q \in Kids(Proc(x), a) : /\ pstate[q] = "ZOMBIE"
                                       /\ pstate' = [pstate EXCEPT ![q] = "P_UNUSED"]
                                       /\ UNCHANGED <<pid, parent, forker, nextPid, tstate>>
  BY <1>4, <1>5 DEF Kids
<1> QED
  BY <1>2, <1>3, <1>5 DEF wait_turn

\* Every step keeps the slots and the parent pointers.
LEMMA ProcStep ==
  ASSUME TaskInv, ProcInv, Next
  PROVE  ProcInv'
<1>0. panicked = "no" /\ waitArg \in [Tasks -> Int] /\ tstate \in [Tasks -> States]
  BY DEF Next, ProcInv, TaskInv
<1> DEFINE Others == \A y \in Tasks : tstate'[y] = tstate[y] \/ pstate[Proc(y)] = "P_USED"
<1>1. CASE scheduler
  <2>1. UNCHANGED <<procVars, waitArg>>
    BY <1>1 DEF scheduler, fetch_none, fetch_head, fetch_min, strideVars
  <2>2. ASSUME NEW y \in Tasks, tstate[y] = "RUNNABLE", tstate' = [tstate EXCEPT ![y] = "RUNNING"]
        PROVE  Others
    BY <1>0, <2>2, TaskParts DEF ProcInv, SlotInv
  <2>3. Others
    <3>1. CASE fetch_none
      BY <3>1 DEF fetch_none
    <3>2. CASE fetch_head
      <4>1. Head(queue) \in Tasks
        BY <3>2, TailTasks DEF fetch_head, TaskInv
      <4> QED
        BY <2>2, <3>2, <4>1 DEF fetch_head, Dispatch
    <3>3. ASSUME NEW i \in 1 .. Len(queue), fetch_min(i)
          PROVE  Others
      <4>1. queue[i] \in Tasks /\ tstate[queue[i]] = "RUNNABLE"
        BY <3>3 DEF fetch_min, Smallest, Candidates, TaskInv
      <4> QED
        BY <2>2, <3>3, <4>1 DEF fetch_min, Dispatch
    <3> QED
      BY <1>1, <3>1, <3>2, <3>3 DEF scheduler
  <2> QED
    BY <1>0, <2>1, <2>3, SameProc DEF procVars
<1>2. ASSUME NEW x \in Tasks, SchedulingCall(x)
      PROVE  ProcInv'
  <2>1. current = x /\ UNCHANGED <<procVars, waitArg>>
    BY <1>2 DEF SchedulingCall, yield, sleep, wake, sys_set_priority, Running
  <2>2. Others
    <3>1. pstate[Proc(x)] = "P_USED"
      BY <1>0, <2>1, Trapped
    <3>2. \A y \in Tasks : tstate[y] = "SLEEPING" => pstate[Proc(y)] = "P_USED"
      BY DEF ProcInv, SlotInv
    <3> QED
      BY <1>0, <1>2, <3>1, <3>2 DEF SchedulingCall, yield, sleep, wake, sys_set_priority, Leave
  <2> QED
    BY <1>0, <2>1, <2>2, SameProc DEF procVars
<1>3. ASSUME NEW x \in Tasks, ProcessCall(x)
      PROVE  ProcInv'
  <2>1. ASSUME fork(x) \/ sys_spawn(x)
        PROVE  ProcInv'
    <3>1. ASSUME NEW p \in Procs, allocproc(p, Proc(x)), UNCHANGED waitArg
          PROVE  ProcInv'
      BY <1>0, <2>1, <3>1, NewProcessProc DEF fork, sys_spawn, Running
    <3>2. CASE UNCHANGED <<procVars, waitArg, tstate>>
      BY <1>0, <3>2, SameProc DEF procVars
    <3> QED
      BY <2>1, <3>1, <3>2 DEF fork, sys_spawn
  <2>2. CASE exec(x)
    BY <1>0, <2>2, SameProc DEF exec, procVars
  <2>3. CASE exit_process(x)
    BY <1>0, <2>3, EndedProc
  <2>4. ASSUME NEW a \in 0 .. MAX_PID, wait(x, a)
        PROVE  ProcInv'
    BY <1>0, <2>4, WaitProc DEF wait, Running
  <2>5. CASE wait_resume(x)
    <3>1. waitArg[x] \in Int
      BY <1>0
    <3> QED
      BY <1>0, <2>5, <3>1, WaitProc DEF wait_resume
  <2> QED
    BY <1>3, <2>1, <2>2, <2>3, <2>4, <2>5 DEF ProcessCall
<1>4. ASSUME NEW x \in Tasks, ThreadCall(x)
      PROVE  ProcInv'
  <2>1. current = x /\ UNCHANGED <<procVars, waitArg>>
    BY <1>4 DEF ThreadCall, sys_thread_create, sys_waittid, exit_thread, Running
  <2>2. pstate[Proc(x)] = "P_USED" /\ Proc(x) \in Procs
    BY <1>0, <2>1, Trapped
  <2>3. ASSUME NEW u \in Tasks, NEW s, Proc(u) = Proc(x), tstate' = [tstate EXCEPT ![u] = s]
        PROVE  Others
    BY <1>0, <2>2, <2>3
  <2>4. \A t \in Tids : <<Proc(x), t>> \in Tasks /\ Proc(<<Proc(x), t>>) = Proc(x)
    BY <2>2, PartsTask
  <2>5. Others
    <3>1. CASE sys_thread_create(x)
      <4>1. PICK t \in Tids : tstate' = [tstate EXCEPT ![<<Proc(x), t>>] = "RUNNABLE"]
        BY <3>1 DEF sys_thread_create
      <4> QED
        BY <2>3, <2>4, <4>1
    <3>2. CASE \E t \in Tids : sys_waittid(x, t)
      <4>1. PICK t \in Tids : tstate' = [tstate EXCEPT ![<<Proc(x), t>>] = "T_UNUSED"]
        BY <3>2 DEF sys_waittid
      <4> QED
        BY <2>3, <2>4, <4>1
    <3>3. CASE exit_thread(x)
      <4>1. tstate' = [tstate EXCEPT ![x] = "EXITED"]
        BY <3>3 DEF exit_thread, Leave
      <4> QED
        BY <2>3, <4>1
    <3> QED
      BY <1>4, <3>1, <3>2, <3>3 DEF ThreadCall
  <2> QED
    BY <1>0, <2>1, <2>5, SameProc DEF procVars
<1> QED
  BY <1>1, <1>2, <1>3, <1>4 DEF Next

(***************************************************************************)
(* Strides                                                                 *)
(***************************************************************************)
StrideType ==
    /\ stride \in [Procs -> 0 .. STRIDE_MOD - 1] /\ priority \in [Procs -> Nat \ {0, 1}]
    /\ passed \in [Tasks -> SUBSET Procs] /\ crowded \in BOOLEAN

\* A pass is a natural number, at most that of the lowest priority.
LEMMA PassBound ==
  ASSUME StrideType, NEW p \in Procs
  PROVE  Pass(p) \in 0 .. BIG_STRIDE \div 2 /\ BIG_STRIDE \div 2 \in Nat
<1>1. BIG_STRIDE \in Nat
  BY StrideAssumption
<1>2. \A n \in Nat \ {0, 1} : BIG_STRIDE \div n \in 0 .. BIG_STRIDE \div 2
  <2> TAKE n \in Nat \ {0, 1}
  <2> DEFINE a == BIG_STRIDE \div n
             b == BIG_STRIDE \div 2
  <2>1. a \in Int /\ b \in Int /\ n * a <= BIG_STRIDE /\ BIG_STRIDE < 2 * b + 2 /\ BIG_STRIDE < n * a + n
    BY <1>1, SMT
  <2> HIDE DEF a, b
  <2>2. a >= 0
    BY <1>1, <2>1
  <2>3. 2 * a <= n * a
    BY <2>1, <2>2
  <2> QED
    BY <1>1, <2>1, <2>2, <2>3 DEF a, b
<1>3. BIG_STRIDE \div 2 \in Nat
  BY <1>1, SMT
<1>4. priority[p] \in Nat \ {0, 1}
  BY DEF StrideType
<1> QED
  BY <1>2, <1>3, <1>4 DEF Pass

LEMMA DispatchType ==
  ASSUME StrideType, NEW x \in Tasks, Dispatch(x)
  PROVE  passed' \in [Tasks -> SUBSET Procs]
  BY TaskParts DEF Dispatch, StrideType

\* Every step keeps strides and priorities in their ranges.
LEMMA StrideTypeStep ==
  ASSUME TaskInv, StrideType, Next
  PROVE  StrideType'
<1>1. CASE fetch_none
  BY <1>1 DEF fetch_none, strideVars, StrideType
<1>2. CASE fetch_head
  <2>1. Head(queue) \in Tasks
    BY <1>2, TailTasks DEF fetch_head, TaskInv
  <2>2. passed' \in [Tasks -> SUBSET Procs]
    BY <1>2, <2>1, DispatchType DEF fetch_head, StrideType
  <2>3. UNCHANGED <<stride, priority>> /\ crowded' \in BOOLEAN
    BY <1>2 DEF fetch_head, strideVars, StrideType
  <2> QED
    BY <2>2, <2>3 DEF StrideType
<1>3. ASSUME NEW i \in 1 .. Len(queue), fetch_min(i)
      PROVE  StrideType'
  <2> DEFINE p == Proc(queue[i])
  <2>1. queue[i] \in Tasks
    BY DEF TaskInv
  <2>2. passed' \in [Tasks -> SUBSET Procs]
    BY <1>3, <2>1, DispatchType DEF fetch_min
  <2>3. NewStride(p) \in 0 .. STRIDE_MOD - 1
    <3>1. stride[p] \in Nat /\ Pass(p) \in Nat /\ STRIDE_MOD \in Nat \ {0}
      BY <2>1, TaskParts, PassBound, StrideAssumption DEF StrideType
    <3> QED
      BY <3>1, SMT DEF NewStride
  <2>4. stride' = [stride EXCEPT ![p] = NewStride(p)] /\ UNCHANGED <<priority, crowded>>
    BY <1>3 DEF fetch_min
  <2> QED
    BY <2>1, <2>2, <2>3, <2>4, TaskParts DEF StrideType
<1>4. ASSUME NEW x \in Tasks, SchedulingCall(x)
      PROVE  StrideType'
  <2>1. UNCHANGED <<stride, passed, crowded>>
    BY <1>4 DEF SchedulingCall, yield, sleep, wake, sys_set_priority, strideVars
  <2>2. priority' \in [Procs -> Nat \ {0, 1}]
    <3>1. \A n \in PRIORITIES : Accepts(n) => n \in Nat \ {0, 1}
      BY ClientAssumption DEF Accepts
    <3> QED
      BY <1>4, <3>1, TaskParts
         DEF SchedulingCall, yield, sleep, wake, sys_set_priority, strideVars, StrideType
  <2> QED
    BY <2>1, <2>2 DEF StrideType
<1>5. ASSUME NEW x \in Tasks, ProcessCall(x)
      PROVE  StrideType'
  <2>1. ASSUME NEW p \in Procs, allocproc(p, Proc(x)), UNCHANGED crowded
        PROVE  StrideType'
    BY <2>1, StrideAssumption, ZeroTid, PartsTask DEF allocproc, StrideType
  <2>2. CASE UNCHANGED <<strideVars, passed, crowded>>
    BY <2>2 DEF strideVars, StrideType
  <2> QED
    BY <1>5, <2>1, <2>2 DEF ProcessCall, fork, sys_spawn, exec, exit_process, wait, wait_resume
<1>6. ASSUME NEW x \in Tasks, ThreadCall(x)
      PROVE  StrideType'
  <2>1. UNCHANGED <<strideVars, crowded>>
    BY <1>6 DEF ThreadCall, sys_thread_create, sys_waittid, exit_thread
  <2>2. passed' \in [Tasks -> SUBSET Procs]
    BY <1>6, TaskParts, PartsTask DEF ThreadCall, sys_thread_create, sys_waittid, exit_thread, StrideType
  <2> QED
    BY <2>1, <2>2 DEF strideVars, StrideType
<1> QED
  BY <1>1, <1>2, <1>3, <1>4, <1>5, <1>6 DEF Next, scheduler

(***************************************************************************)
(* TasksTrue and ParentTruth                                               *)
(***************************************************************************)
SchedInv == TaskInv /\ ProcInv /\ StrideType

LEMMA SchedInit ==
  ASSUME Init
  PROVE  SchedInv
<1> USE DEF Init
<1>1. 0 \in Procs /\ <<0, 0>> \in Tasks /\ NPROC \in Nat
  BY SlotAssumption, ZeroTid, PartsTask DEF Procs
<1>2. TaskInv
  <2>1. queue \in Seq(Tasks) /\ DOMAIN queue = {1} /\ queue[1] = <<0, 0>>
    BY <1>1
  <2>2. ToSet(queue) = {<<0, 0>>} /\ IsInjective(queue)
    BY <2>1 DEF ToSet, IsInjective
  <2>3. tstate \in [Tasks -> States] /\ current = NoTask /\ panicked \in Panics /\ joined \in BOOLEAN
    BY DEF States, Panics
  <2>4. \A x \in Tasks : (tstate[x] = "RUNNABLE" <=> x = <<0, 0>>) /\ tstate[x] # "RUNNING"
    OBVIOUS
  <2>5. RunnableQueued /\ QueueExact
    BY <1>1, <2>2, <2>3, <2>4, NoTaskApart DEF RunnableQueued, QueueExact
  <2> QED
    BY <2>1, <2>3, <2>5 DEF TaskInv
<1>3. ProcInv
  <2>1. SlotInv
    <3> SUFFICES ASSUME NEW x \in Tasks, pstate[Proc(x)] # "P_USED"
                 PROVE  tstate[x] = "T_UNUSED"
      BY DEF SlotInv
    <3>1. x # <<0, 0>>
      BY <1>1, TaskParts DEF Proc
    <3> QED
      BY <3>1
  <2> QED
    BY <1>1, <2>1 DEF ProcInv, ParentTruth, NotWaiting
<1>4. StrideType
  <2>1. 0 \in 0 .. STRIDE_MOD - 1 /\ DEFAULT_PRIORITY \in Nat \ {0, 1}
    BY StrideAssumption
  <2> QED
    BY <2>1 DEF StrideType
<1> QED
  BY <1>2, <1>3, <1>4 DEF SchedInv

LEMMA SchedStep ==
  ASSUME SchedInv, [Next]_vars
  PROVE  SchedInv'
<1>1. CASE Next
  BY <1>1, TaskStep, ProcStep, StrideTypeStep DEF SchedInv
<1>2. CASE UNCHANGED vars
  <2> USE <1>2 DEF vars, procVars, strideVars
  <2>1. TaskInv'
    BY DEF SchedInv, TaskInv, RunnableQueued, QueueExact
  <2>2. ProcInv'
    BY DEF SchedInv, ProcInv, SlotInv, ParentTruth
  <2>3. StrideType'
    BY DEF SchedInv, StrideType
  <2> QED
    BY <2>1, <2>2, <2>3 DEF SchedInv
<1> QED
  BY <1>1, <1>2

LEMMA SchedAlways == Spec => []SchedInv
<1>1. Init => SchedInv
  BY SchedInit
<1>2. SchedInv /\ [Next]_vars => SchedInv'
  BY SchedStep
<1> QED
  BY <1>1, <1>2, PTL DEF Spec

\* In every reachable state of any instance the tables keep their ranges, every
\* RUNNABLE thread is queued, exactly the dispatched thread is RUNNING, and the
\* queue is exact as long as every main thread has exited last.
THEOREM QueueTheorem == Spec => []TasksTrue
<1>1. SchedInv => TasksTrue
  BY DEF SchedInv, TaskInv, ProcInv, StrideType, Panics, TasksTrue, TypeOK
<1> QED
  BY <1>1, SchedAlways, PTL

\* In every reachable state of any instance the parent pointer of a process leads
\* to the live process that forked it: exit_process and wait never leave one that a
\* reused slot would answer.
THEOREM ParentTheorem == Spec => []ParentTruth
<1>1. SchedInv => ParentTruth
  BY DEF SchedInv, ProcInv
<1> QED
  BY <1>1, SchedAlways, PTL

(***************************************************************************)
(* Bounded overtaking                                                      *)
(***************************************************************************)
\* Nobody has passed a thread that does not wait for the CPU.
FreshInv == \A x \in Tasks : tstate[x] \in {"RUNNING", "SLEEPING"} => passed[x] = {}

StrideBound == \A p \in Procs : stride[p] <= MAX_STRIDE

OvertakeInv == FreshInv /\ StrideBound /\ BoundedOvertaking

\* The scan of a queue that is not full misses no RUNNABLE thread.
LEMMA AllCandidates ==
  ASSUME MAX_STRIDE < STRIDE_MOD - 1, TaskInv, StrideType, StrideBound, panicked = "no", ~Full,
         NEW y \in Tasks, tstate[y] = "RUNNABLE"
  PROVE  \E j \in Candidates : queue[j] = y
<1>1. PICK j \in 1 .. Len(queue) : queue[j] = y
  BY DEF TaskInv, RunnableQueued, ToSet
<1>2. stride[Proc(y)] < STRIDE_MOD - 1
  <2>1. Proc(y) \in Procs
    BY TaskParts
  <2>2. stride[Proc(y)] \in Int /\ stride[Proc(y)] <= MAX_STRIDE /\ MAX_STRIDE \in Int /\ STRIDE_MOD \in Int
    BY <2>1, ClientAssumption, StrideAssumption DEF StrideBound, StrideType
  <2> QED
    BY <2>2
<1> QED
  BY <1>1, <1>2 DEF Candidates, Scanned

\* The thread chosen has the smallest stride, so its process overtakes nobody by
\* more than a pass.
LEMMA OvertakeMin ==
  ASSUME MAX_STRIDE < STRIDE_MOD - 1, SchedInv, OvertakeInv, panicked = "no",
         NEW i \in 1 .. Len(queue), fetch_min(i)
  PROVE  OvertakeInv'
<1> DEFINE x == queue[i]
           p == Proc(x)
           B == BIG_STRIDE \div 2
<1>1. x \in Tasks /\ p \in Procs /\ ~Full /\ tstate[x] = "RUNNABLE"
  BY TaskParts DEF SchedInv, TaskInv, fetch_min, Smallest, Candidates, Scanned
<1>2. /\ stride[p] \in Nat /\ Pass(p) \in 0 .. B /\ B \in Nat
      /\ \A q \in Procs : stride[q] \in Nat
  BY <1>1, PassBound DEF SchedInv, StrideType
<1>3. NewStride(p) = stride[p] + Pass(p) /\ stride[p] + Pass(p) <= MAX_STRIDE
  <2>1. stride[p] + Pass(p) <= MAX_STRIDE /\ MAX_STRIDE \in Nat /\ STRIDE_MOD \in Nat
    BY ClientAssumption, StrideAssumption DEF fetch_min
  <2>2. stride[p] + Pass(p) \in 0 .. STRIDE_MOD - 1
    BY <1>2, <2>1
  <2> QED
    BY <2>1, <2>2, SMT DEF NewStride
<1>4. /\ tstate' = [tstate EXCEPT ![x] = "RUNNING"]
      /\ stride' = [stride EXCEPT ![p] = stride[p] + Pass(p)]
      /\ passed' = [u \in Tasks |->
                      IF u = x THEN {}
                      ELSE IF tstate[u] = "RUNNABLE" /\ Proc(u) # p
                      THEN passed[u] \cup {p} ELSE passed[u]]
      /\ crowded' = crowded
  BY <1>3 DEF fetch_min, Dispatch
<1>5. \A y \in Tasks : tstate[y] = "RUNNABLE" => stride[p] <= stride[Proc(y)]
  <2> SUFFICES ASSUME NEW y \in Tasks, tstate[y] = "RUNNABLE"
               PROVE  stride[p] <= stride[Proc(y)]
    OBVIOUS
  <2>1. PICK j \in Candidates : queue[j] = y
    BY <1>1, AllCandidates DEF SchedInv, OvertakeInv
  <2>2. stride[Proc(y)] \in Nat
    BY <1>2, TaskParts
  <2> QED
    BY <1>2, <2>1, <2>2 DEF fetch_min, Smallest
<1> HIDE DEF x, p, B
<1>6. FreshInv'
  <2> SUFFICES ASSUME NEW y \in Tasks, tstate'[y] \in {"RUNNING", "SLEEPING"}
               PROVE  passed'[y] = {}
    BY DEF FreshInv
  <2> QED
    BY <1>1, <1>4 DEF SchedInv, TaskInv, OvertakeInv, FreshInv
<1>7. StrideBound'
  BY <1>1, <1>2, <1>3, <1>4 DEF SchedInv, StrideType, OvertakeInv, StrideBound
<1>8. BoundedOvertaking'
  <2> SUFFICES ASSUME ~crowded, NEW y \in Tasks, tstate'[y] = "RUNNABLE", NEW q \in passed'[y]
               PROVE  stride'[q] <= stride'[Proc(y)] + B
    BY <1>4 DEF BoundedOvertaking, B
  <2>1. y # x /\ tstate[y] = "RUNNABLE" /\ Proc(y) \in Procs
    BY <1>1, <1>4, TaskParts DEF SchedInv, TaskInv
  <2>2. passed[y] \subseteq Procs
    BY DEF SchedInv, StrideType
  <2>3. stride[Proc(y)] \in Nat /\ stride'[Proc(y)] >= stride[Proc(y)] /\ stride'[Proc(y)] \in Nat
    BY <1>1, <1>2, <1>4, <2>1 DEF SchedInv, StrideType
  <2>4. CASE q = p
    <3>1. stride'[p] = stride[p] + Pass(p)
      BY <1>1, <1>4 DEF SchedInv, StrideType
    <3>2. stride[p] <= stride[Proc(y)]
      BY <1>5, <2>1
    <3> QED
      BY <1>2, <2>3, <2>4, <3>1, <3>2
  <2>5. CASE q # p
    <3>1. q \in passed[y] /\ q \in Procs
      BY <1>4, <2>1, <2>2, <2>5
    <3>2. stride[q] <= stride[Proc(y)] + B
      BY <2>1, <3>1 DEF OvertakeInv, BoundedOvertaking, B
    <3>3. stride'[q] = stride[q] /\ stride[q] \in Nat
      BY <1>2, <1>4, <2>5, <3>1 DEF SchedInv, StrideType
    <3> QED
      BY <1>2, <2>3, <3>2, <3>3
  <2> QED
    BY <2>4, <2>5
<1> QED
  BY <1>6, <1>7, <1>8 DEF OvertakeInv

\* A full queue gives up the promise; from any other one the head that fetch_head
\* pops cannot run.
LEMMA OvertakeHead ==
  ASSUME MAX_STRIDE < STRIDE_MOD - 1, SchedInv, OvertakeInv, panicked = "no", fetch_head
  PROVE  OvertakeInv'
<1> DEFINE x == Head(queue)
<1>1. x \in Tasks
  BY TailTasks DEF SchedInv, TaskInv, fetch_head
<1>2. StrideBound'
  BY DEF OvertakeInv, StrideBound, fetch_head, strideVars
<1>3. CASE ~Full
  <2>1. tstate[x] # "RUNNABLE"
    BY <1>1, <1>3, AllCandidates DEF SchedInv, OvertakeInv, fetch_head
  <2>2. UNCHANGED <<tstate, passed, stride>> /\ (crowded => crowded')
    BY <2>1 DEF fetch_head, strideVars
  <2> QED
    BY <1>2, <2>2 DEF OvertakeInv, FreshInv, BoundedOvertaking
<1>4. CASE Full
  <2>1. crowded'
    BY <1>4 DEF fetch_head
  <2>2. CASE tstate[x] = "RUNNABLE"
    <3>1. Dispatch(x)
      BY <2>2 DEF fetch_head
    <3> HIDE DEF x
    <3>2. FreshInv'
      BY <1>1, <3>1 DEF Dispatch, SchedInv, TaskInv, OvertakeInv, FreshInv
    <3> QED
      BY <1>2, <2>1, <3>2 DEF OvertakeInv, BoundedOvertaking
  <2>3. CASE tstate[x] # "RUNNABLE"
    BY <1>2, <2>1, <2>3 DEF fetch_head, OvertakeInv, FreshInv, BoundedOvertaking
  <2> QED
    BY <2>2, <2>3
<1> QED
  BY <1>3, <1>4

\* A step that raises no stride, and lets no thread start to wait unless nobody
\* counts as having passed it.
Undisturbed ==
    /\ crowded' = crowded
    /\ \A p \in Procs : stride'[p] <= stride[p]
    /\ \A y \in Tasks :
          /\ tstate'[y] = "RUNNABLE" =>
                \/ passed'[y] = {}
                \/ /\ tstate[y] = "RUNNABLE" /\ passed'[y] = passed[y]
                   /\ stride'[Proc(y)] = stride[Proc(y)]
          /\ tstate'[y] \in {"RUNNING", "SLEEPING"} => passed'[y] = {}

LEMMA OvertakeKept ==
  ASSUME SchedInv, SchedInv', OvertakeInv, Undisturbed
  PROVE  OvertakeInv'
<1>1. FreshInv'
  BY DEF FreshInv, Undisturbed
<1>2. /\ \A p \in Procs : stride[p] \in Nat /\ stride'[p] \in Nat
      /\ MAX_STRIDE \in Nat /\ BIG_STRIDE \in Nat
  BY ClientAssumption, StrideAssumption DEF SchedInv, StrideType
<1>3. StrideBound'
  BY <1>2 DEF OvertakeInv, StrideBound, Undisturbed
<1>4. BoundedOvertaking'
  <2> SUFFICES ASSUME ~crowded, NEW y \in Tasks, tstate'[y] = "RUNNABLE", NEW q \in passed'[y]
               PROVE  stride'[q] <= stride'[Proc(y)] + BIG_STRIDE \div 2
    BY DEF BoundedOvertaking, Undisturbed
  <2>1. /\ tstate[y] = "RUNNABLE" /\ q \in passed[y] /\ stride'[Proc(y)] = stride[Proc(y)]
        /\ q \in Procs /\ Proc(y) \in Procs
    BY TaskParts DEF Undisturbed, SchedInv, StrideType
  <2>2. stride[q] <= stride[Proc(y)] + BIG_STRIDE \div 2 /\ stride'[q] <= stride[q]
    BY <2>1 DEF OvertakeInv, BoundedOvertaking, Undisturbed
  <2>3. BIG_STRIDE \div 2 \in Int
    BY <1>2, SMT
  <2> QED
    BY <1>2, <2>1, <2>2, <2>3
<1> QED
  BY <1>1, <1>3, <1>4 DEF OvertakeInv

\* Steps that leave strides and the record of who passed alone: only a RUNNING or
\* SLEEPING thread starts to wait.
LEMMA OvertakeSame ==
  ASSUME SchedInv, SchedInv', OvertakeInv, UNCHANGED <<stride, passed, crowded>>,
         \A y \in Tasks : \/ tstate'[y] = tstate[y]
                          \/ tstate'[y] \in {"T_UNUSED", "EXITED"}
                          \/ tstate[y] \in {"RUNNING", "SLEEPING"}
  PROVE  OvertakeInv'
<1>1. \A p \in Procs : stride'[p] <= stride[p]
  BY DEF SchedInv, StrideType
<1>2. Undisturbed
  BY <1>1 DEF Undisturbed, OvertakeInv, FreshInv
<1> QED
  BY <1>2, OvertakeKept

\* A new process starts at stride 0 and nobody has passed its main thread.
LEMMA OvertakeNew ==
  ASSUME SchedInv, SchedInv', OvertakeInv, NEW p \in Procs, NEW q \in Procs, allocproc(p, q),
         UNCHANGED crowded
  PROVE  OvertakeInv'
<1> DEFINE u == <<p, 0>>
<1>1. u \in Tasks /\ Proc(u) = p
  BY ZeroTid, PartsTask
<1>2. /\ stride' = [stride EXCEPT ![p] = 0] /\ passed' = [passed EXCEPT ![u] = {}]
      /\ tstate' = [tstate EXCEPT ![u] = "RUNNABLE"] /\ pstate[p] = "P_UNUSED"
  BY DEF allocproc, FreeSlot
<1>3. \A y \in Tasks : Proc(y) = p => tstate[y] = "T_UNUSED"
  BY <1>2 DEF SchedInv, ProcInv, SlotInv
<1> HIDE DEF u
<1>4. \A r \in Procs : stride'[r] <= stride[r]
  BY <1>2 DEF SchedInv, StrideType
<1>5. ASSUME NEW y \in Tasks
      PROVE  /\ tstate'[y] = "RUNNABLE" =>
                   \/ passed'[y] = {}
                   \/ /\ tstate[y] = "RUNNABLE" /\ passed'[y] = passed[y]
                      /\ stride'[Proc(y)] = stride[Proc(y)]
             /\ tstate'[y] \in {"RUNNING", "SLEEPING"} => passed'[y] = {}
  <2>1. CASE y = u
    BY <1>1, <1>2, <2>1 DEF SchedInv, StrideType
  <2>2. CASE y # u
    <3>1. tstate'[y] = tstate[y] /\ passed'[y] = passed[y] /\ Proc(y) \in Procs
      BY <1>2, <2>2, TaskParts DEF SchedInv, StrideType, TaskInv
    <3>2. tstate[y] = "RUNNABLE" => stride'[Proc(y)] = stride[Proc(y)]
      BY <1>2, <1>3, <3>1 DEF SchedInv, StrideType
    <3> QED
      BY <3>1, <3>2 DEF OvertakeInv, FreshInv
  <2> QED
    BY <2>1, <2>2
<1> QED
  BY <1>4, <1>5, OvertakeKept DEF Undisturbed

LEMMA OvertakeStep ==
  ASSUME MAX_STRIDE < STRIDE_MOD - 1, SchedInv, SchedInv', OvertakeInv, Next
  PROVE  OvertakeInv'
<1>0. panicked = "no" /\ tstate \in [Tasks -> States]
  BY DEF Next, SchedInv, TaskInv
<1> DEFINE Quiet == \A y \in Tasks : \/ tstate'[y] = tstate[y]
                                     \/ tstate'[y] \in {"T_UNUSED", "EXITED"}
                                     \/ tstate[y] \in {"RUNNING", "SLEEPING"}
<1>1. CASE scheduler
  BY <1>0, <1>1, OvertakeMin, OvertakeHead, OvertakeSame DEF scheduler, fetch_none, strideVars
<1>2. ASSUME NEW x \in Tasks, SchedulingCall(x)
      PROVE  OvertakeInv'
  <2>1. UNCHANGED <<stride, passed, crowded>>
    BY <1>2 DEF SchedulingCall, yield, sleep, wake, sys_set_priority, strideVars
  <2>2. Quiet
    <3>1. tstate[x] = "RUNNING"
      BY <1>0, <1>2, Trapped DEF SchedInv, SchedulingCall, yield, sleep, wake, sys_set_priority, Running
    <3> QED
      BY <1>0, <1>2, <3>1 DEF SchedulingCall, yield, sleep, wake, sys_set_priority, Leave
  <2> QED
    BY <2>1, <2>2, OvertakeSame
<1>3. ASSUME NEW x \in Tasks, ProcessCall(x)
      PROVE  OvertakeInv'
  <2>1. ASSUME NEW p \in Procs, allocproc(p, Proc(x)), UNCHANGED crowded
        PROVE  OvertakeInv'
    BY <2>1, TaskParts, OvertakeNew
  <2>2. CASE UNCHANGED <<strideVars, passed, crowded, tstate>>
    BY <2>2, OvertakeSame DEF strideVars
  <2>3. CASE exit_process(x)
    <3>1. UNCHANGED <<stride, passed, crowded>> /\ Quiet
      BY <2>3 DEF exit_process, strideVars
    <3> QED
      BY <3>1, OvertakeSame
  <2>4. ASSUME NEW a, wait_turn(x, a), current = x, UNCHANGED <<strideVars, passed, crowded>>
        PROVE  OvertakeInv'
    <3>1. tstate[x] = "RUNNING"
      BY <1>0, <2>4, Trapped DEF SchedInv
    <3>2. Quiet
      BY <1>0, <2>4, <3>1 DEF wait_turn, Leave
    <3> QED
      BY <2>4, <3>2, OvertakeSame DEF strideVars
  <2> QED
    BY <1>3, <2>1, <2>2, <2>3, <2>4 DEF ProcessCall, fork, sys_spawn, exec, wait, wait_resume, Running
<1>4. ASSUME NEW x \in Tasks, ThreadCall(x)
      PROVE  OvertakeInv'
  <2>1. CASE sys_thread_create(x)
    <3>1. PICK t \in Tids : /\ tstate' = [tstate EXCEPT ![<<Proc(x), t>>] = "RUNNABLE"]
                            /\ passed' = [passed EXCEPT ![<<Proc(x), t>>] = {}]
      BY <2>1 DEF sys_thread_create
    <3>2. UNCHANGED <<stride, crowded>>
      BY <2>1 DEF sys_thread_create, strideVars
    <3>3. \A p \in Procs : stride'[p] <= stride[p]
      BY <3>2 DEF SchedInv, StrideType
    <3>4. Undisturbed
      BY <1>0, <3>1, <3>2, <3>3 DEF Undisturbed, OvertakeInv, FreshInv, SchedInv, StrideType
    <3> QED
      BY <3>4, OvertakeKept
  <2>2. ASSUME NEW t \in Tids, sys_waittid(x, t)
        PROVE  OvertakeInv'
    <3>1. UNCHANGED <<stride, passed, crowded>> /\ Quiet
      BY <1>0, <2>2 DEF sys_waittid, strideVars
    <3> QED
      BY <3>1, OvertakeSame
  <2>3. CASE exit_thread(x)
    <3>1. UNCHANGED <<stride, passed, crowded>> /\ Quiet
      BY <1>0, <2>3 DEF exit_thread, strideVars, Leave
    <3> QED
      BY <3>1, OvertakeSame
  <2> QED
    BY <1>4, <2>1, <2>2, <2>3 DEF ThreadCall
<1> QED
  BY <1>1, <1>2, <1>3, <1>4 DEF Next

\* As long as strides stay below their wrap-around, a thread that waits for the CPU
\* is never overtaken by more than the largest pass, in any instance, unless the
\* scheduler has met a full queue.
THEOREM OvertakingTheorem ==
  ASSUME MAX_STRIDE < STRIDE_MOD - 1
  PROVE  Spec => []BoundedOvertaking
<1>1. Init => OvertakeInv
  BY ClientAssumption DEF Init, OvertakeInv, FreshInv, StrideBound, BoundedOvertaking
<1>2. SchedInv /\ SchedInv' /\ OvertakeInv /\ [Next]_vars => OvertakeInv'
  <2>1. CASE Next
    BY <2>1, OvertakeStep
  <2>2. CASE UNCHANGED vars
    BY <2>2 DEF vars, procVars, strideVars, OvertakeInv, FreshInv, StrideBound, BoundedOvertaking
  <2> QED
    BY <2>1, <2>2
<1>3. OvertakeInv => BoundedOvertaking
  BY DEF OvertakeInv
<1> QED
  BY <1>1, <1>2, <1>3, SchedAlways, PTL DEF Spec

(***************************************************************************)
(* The ring behind the task queue, for every size and every set of values  *)
(***************************************************************************)
\* x as a slot, for x that has passed the end of the ring at most once.
Wrap(x) == IF x < SIZE THEN x ELSE x - SIZE

\* Reduction modulo the ring size of an index that wrapped at most once.
LEMMA ModWrap == ASSUME NEW x \in 0 .. 2 * SIZE - 1
                 PROVE  x % SIZE = Wrap(x) /\ Wrap(x) \in Slots
<1>1. \A y \in Nat, n \in Nat \ {0} : y < n => y % n = y
  OBVIOUS
<1>2. \A y \in Nat, n \in Nat \ {0} : n <= y /\ y < 2 * n => y % n = y - n
  OBVIOUS
<1>3. x \in Nat /\ x < 2 * SIZE
  BY SizeAssumption
<1>4. CASE x < SIZE
  <2>1. x % SIZE = x
    BY <1>1, <1>3, <1>4, SizeAssumption
  <2> QED
    BY <1>3, <1>4, <2>1, SizeAssumption DEF Wrap, Slots
<1>5. CASE ~(x < SIZE)
  <2>1. SIZE <= x
    BY <1>3, <1>5, SizeAssumption
  <2>2. x % SIZE = x - SIZE
    BY <1>2, <1>3, <2>1, SizeAssumption
  <2> QED
    BY <1>3, <1>5, <2>2, SizeAssumption DEF Wrap, Slots
<1> QED
  BY <1>4, <1>5

\* The slot after a slot.
LEMMA SuccWrap == ASSUME NEW i \in Slots
                  PROVE  Succ(i) = Wrap(i + 1) /\ Succ(i) \in Slots
  BY ModWrap, SizeAssumption DEF Succ, Slots

\* Two sequences with the same length and elements are equal.
LEMMA SameSeq ==
  ASSUME NEW S, NEW s \in Seq(S), NEW t \in Seq(S), Len(s) = Len(t),
         \A i \in 1 .. Len(s) : s[i] = t[i]
  PROVE  s = t
  OBVIOUS

\* Contents is a sequence of Count entries, and where they are stored.
Laid ==
    /\ Count \in 0 .. SIZE
    /\ Contents \in Seq(Nat)
    /\ Len(Contents) = Count
    /\ \A i \in 1 .. Count :
          /\ Wrap(front + i - 1) \in Slots
          /\ Contents[i] = data[Wrap(front + i - 1)]

\* A well-formed ring is laid out as its front, tail and empty flag say.
LEMMA ContentsSeq == Shape => Laid
<1> SUFFICES ASSUME Shape PROVE Laid
  OBVIOUS
<1> USE SizeAssumption
<1>1. Count \in 0 .. SIZE
  BY DEF Count, Shape, RingType, Slots
<1>2. ASSUME NEW i \in 1 .. Count
      PROVE  /\ (front + i - 1) % SIZE = Wrap(front + i - 1)
             /\ Wrap(front + i - 1) \in Slots
  <2>1. front + i - 1 \in 0 .. 2 * SIZE - 1
    BY <1>1 DEF Shape, RingType, Slots
  <2> QED
    BY <2>1, ModWrap
<1>3. \A i \in 1 .. Count : data[(front + i - 1) % SIZE] \in Nat
  BY <1>2 DEF Shape, RingType
<1>4. Contents \in Seq(Nat) /\ Len(Contents) = Count
  BY <1>1, <1>3 DEF Contents
<1>5. \A i \in 1 .. Count : Contents[i] = data[Wrap(front + i - 1)]
  BY <1>2 DEF Contents
<1> QED
  BY <1>1, <1>2, <1>4, <1>5 DEF Laid

\* The same of the next state.
LEMMA ContentsSeqNext == Shape' => Laid'
  BY ContentsSeq, PTL

\* init_queue makes an empty ring.
LEMMA ShapeInit == RingInit => Shape
<1> SUFFICES ASSUME RingInit PROVE Shape
  OBVIOUS
<1>1. 0 \in Slots
  BY SizeAssumption DEF Slots
<1>2. data \in [Slots -> Nat]
  BY DEF RingInit
<1> QED
  BY <1>1, <1>2 DEF RingInit, Shape, RingType

\* push_queue, pop_queue and the removal in fetch_task keep the shape.
LEMMA ShapeNext == Shape /\ [RingNext]_ringVars => Shape'
<1> SUFFICES ASSUME Shape, [RingNext]_ringVars PROVE Shape'
  OBVIOUS
<1> USE DEF Shape, RingType
<1>1. ASSUME NEW v \in VALUES, push_queue(v) PROVE Shape'
  BY <1>1, SuccWrap, ValuesAssumption DEF push_queue
<1>2. CASE pop_queue
  BY <1>2, SuccWrap DEF pop_queue
<1>3. ASSUME NEW k \in 0 .. ScanCount - 1, take(k) PROVE Shape'
  <2>1. (tail - 1 + SIZE) % SIZE \in Slots
    <3>1. tail - 1 + SIZE \in 0 .. 2 * SIZE - 1
      BY SizeAssumption DEF Slots
    <3> QED
      BY <3>1, ModWrap
  <2>2. (front + k) % SIZE \in Slots
    <3>1. front + k \in 0 .. 2 * SIZE - 1
      BY SizeAssumption DEF Slots, ScanCount
    <3> QED
      BY <3>1, ModWrap
  <2>3. \A i \in Slots : Succ(i) \in Slots
    BY SuccWrap
  <2>4. data' \in [Slots -> Nat]
    BY <1>3, <2>3 DEF take
  <2> QED
    BY <1>3, <2>1, <2>2, <2>4 DEF take
<1>4. CASE UNCHANGED ringVars
  BY <1>4 DEF ringVars
<1> QED
  BY <1>1, <1>2, <1>3, <1>4 DEF RingNext

\* An initialised ring represents the empty queue.
LEMMA AbstractInit == RingInit => Abstract!Init
<1> SUFFICES ASSUME RingInit PROVE Abstract!Init
  OBVIOUS
<1>1. Count = 0
  BY DEF RingInit, Count
<1>2. Contents = <<>>
  BY <1>1 DEF Contents
<1> QED
  BY <1>2 DEF RingInit, Abstract!Init

\* push_queue is Push on the represented queue.
LEMMA PushStep ==
  ASSUME Shape, Shape', NEW v \in VALUES, push_queue(v)
  PROVE  Abstract!Push(v)
<1> USE SizeAssumption
<1>1. CASE RingFull(front, tail)
  <2>1. Count = SIZE
    BY <1>1 DEF RingFull, Count, Shape, RingType, Slots
  <2>2. Contents' = Contents
    BY <1>1 DEF push_queue, Contents, Count
  <2> QED
    BY <1>1, <2>1, <2>2, ContentsSeq DEF push_queue, Abstract!Push, Laid
<1>2. CASE ~RingFull(front, tail)
  <2>1. Count < SIZE /\ Wrap(front + Count) = tail
    BY <1>2 DEF RingFull, Count, Wrap, Shape, RingType, Slots
  <2>2. /\ empty' = FALSE /\ data' = [data EXCEPT ![tail] = v]
        /\ tail' = Wrap(tail + 1) /\ front' = front
        /\ overflow' = overflow /\ out' = out
    BY <1>2, SuccWrap DEF push_queue, Shape, RingType
  <2>3. Count' = Count + 1
    BY <1>2, <2>2 DEF RingFull, Count, Wrap, Shape, RingType, Slots
  <2>4. ASSUME NEW i \in 1 .. Count + 1
        PROVE  Contents'[i] = IF i <= Count THEN Contents[i] ELSE v
    <3>1. Contents'[i] = data'[Wrap(front + i - 1)]
      BY <2>2, <2>3, ContentsSeqNext DEF Laid, Wrap
    <3>2. Count \in Nat
      BY ContentsSeq DEF Laid
    <3>3. CASE i = Count + 1
      BY <2>1, <2>2, <3>1, <3>2, <3>3 DEF Shape, RingType, Slots
    <3>4. CASE i <= Count
      <4>1. Wrap(front + i - 1) # tail /\ Wrap(front + i - 1) \in Slots
        BY <2>1, <3>2, <3>4 DEF Wrap, Shape, RingType, Slots
      <4> QED
        BY <2>2, <3>1, <3>4, <4>1, ContentsSeq DEF Shape, RingType, Laid
    <3> QED
      BY <3>2, <3>3, <3>4
  <2>5. Contents' \in Seq(Nat) /\ Len(Contents') = Count + 1
    BY <2>3, ContentsSeqNext DEF Laid
  <2>6. Append(Contents, v) \in Seq(Nat) /\ Len(Append(Contents, v)) = Count + 1
    BY ContentsSeq, ValuesAssumption DEF Laid
  <2>7. \A i \in 1 .. Count + 1 : Contents'[i] = Append(Contents, v)[i]
    BY <2>4, ContentsSeq DEF Laid
  <2>8. Contents' = Append(Contents, v)
    BY <2>5, <2>6, <2>7, SameSeq
  <2> QED
    BY <2>1, <2>2, <2>8, ContentsSeq DEF Abstract!Push, Laid
<1> QED
  BY <1>1, <1>2

\* pop_queue is Pop on the represented queue.
LEMMA PopStep ==
  ASSUME Shape, Shape', pop_queue
  PROVE  Abstract!Pop
<1> USE SizeAssumption
<1>1. CASE empty
  <2>1. Count = 0
    BY <1>1 DEF Count
  <2>2. Contents = <<>>
    BY <2>1 DEF Contents
  <2>3. Contents' = Contents
    BY <1>1 DEF pop_queue, Contents, Count
  <2> QED
    BY <1>1, <2>2, <2>3 DEF pop_queue, Abstract!Pop
<1>2. CASE ~empty
  <2>1. Count \in 1 .. SIZE
    BY <1>2 DEF Count, Shape, RingType, Slots
  <2>2. /\ out' = data[front] /\ front' = Wrap(front + 1)
        /\ empty' = (Wrap(front + 1) = tail)
        /\ data' = data /\ tail' = tail /\ overflow' = overflow
    BY <1>2, SuccWrap DEF pop_queue, Shape, RingType
  <2>3. Count' = Count - 1
    <3>1. CASE Wrap(front + 1) = tail
      <4>1. empty' = TRUE
        BY <2>2, <3>1
      <4>2. Count' = 0
        BY <4>1 DEF Count
      <4>3. Count = 1
        BY <1>2, <3>1 DEF Count, Wrap, Shape, RingType, Slots
      <4> QED
        BY <4>2, <4>3
    <3>2. CASE Wrap(front + 1) # tail
      <4>1. empty' = FALSE
        BY <2>2, <3>2
      <4> QED
        BY <1>2, <2>2, <3>2, <4>1 DEF Count, Wrap, Shape, RingType, Slots
    <3> QED
      BY <3>1, <3>2
  <2>4. ASSUME NEW i \in 1 .. Count - 1
        PROVE  Contents'[i] = Contents[i + 1]
    <3>1. Contents'[i] = data[Wrap(Wrap(front + 1) + i - 1)]
      BY <2>2, <2>3, ContentsSeqNext DEF Laid, Wrap
    <3>2. Wrap(Wrap(front + 1) + i - 1) = Wrap(front + (i + 1) - 1)
      BY <2>1 DEF Wrap, Shape, RingType, Slots
    <3>3. i + 1 \in 1 .. Count
      BY <2>1
    <3> QED
      BY <3>1, <3>2, <3>3, ContentsSeq DEF Laid
  <2>5. Contents # <<>> /\ Head(Contents) = data[front]
    <3>1. 1 \in 1 .. Count /\ Wrap(front + 1 - 1) = front
      BY <2>1 DEF Wrap, Shape, RingType, Slots
    <3> QED
      BY <2>1, <3>1, ContentsSeq DEF Laid
  <2>6. Contents' \in Seq(Nat) /\ Len(Contents') = Count - 1
    BY <2>3, ContentsSeqNext DEF Laid
  <2>7. Tail(Contents) \in Seq(Nat) /\ Len(Tail(Contents)) = Count - 1
    BY <2>5, ContentsSeq DEF Laid
  <2>8. \A i \in 1 .. Count - 1 : Contents'[i] = Tail(Contents)[i]
    BY <2>4, <2>5, ContentsSeq DEF Laid
  <2>9. Contents' = Tail(Contents)
    BY <2>6, <2>7, <2>8, SameSeq
  <2> QED
    BY <2>2, <2>5, <2>9 DEF Abstract!Pop
<1> QED
  BY <1>1, <1>2

\* fetch_task's removal is Take on the represented queue.
LEMMA TakeStep ==
  ASSUME Shape, Shape', NEW k \in 0 .. ScanCount - 1, take(k)
  PROVE  k + 1 \in 1 .. Len(Contents) /\ Abstract!Take(k + 1)
<1> USE SizeAssumption
<1> DEFINE idx == Wrap(front + k)
           last == Wrap(tail - 1 + SIZE)
<1>1. ~empty /\ front # tail /\ ScanCount = Count /\ k < Count /\ k \in Nat
  BY DEF ScanCount, Count, Shape, RingType, Slots
<1>2. Count \in 1 .. SIZE - 1 /\ Wrap(front + Count - 1) = last
  BY <1>1 DEF Count, Wrap, Shape, RingType, Slots
<1>3. (front + k) % SIZE = idx /\ idx \in Slots
  <2>1. front + k \in 0 .. 2 * SIZE - 1
    BY <1>1, <1>2 DEF Shape, RingType, Slots
  <2> QED
    BY <2>1, ModWrap
<1>4. (tail - 1 + SIZE) % SIZE = last /\ last \in Slots
  <2>1. tail - 1 + SIZE \in 0 .. 2 * SIZE - 1
    BY DEF Shape, RingType, Slots
  <2> QED
    BY <2>1, ModWrap
<1> DEFINE behind(i) == Wrap(i - idx + SIZE)
<1>5. ASSUME NEW i \in Slots PROVE (i - idx + SIZE) % SIZE = behind(i)
  <2> HIDE DEF idx
  <2>1. i - idx + SIZE \in 0 .. 2 * SIZE - 1
    BY <1>3 DEF Slots
  <2> QED
    BY <2>1, ModWrap
<1>6. /\ out' = data[idx]
      /\ data' = [i \in Slots |-> IF behind(i) < behind(last)
                                 THEN data[Wrap(i + 1)] ELSE data[i]]
      /\ tail' = last /\ empty' = (front = last)
      /\ front' = front /\ overflow' = overflow
  BY <1>3, <1>4, <1>5, SuccWrap DEF take
<1>7. Count' = Count - 1
  <2>1. CASE front = last
    <3>1. Count = 1
      BY <1>1, <2>1 DEF Count, Wrap, Shape, RingType, Slots
    <3>2. empty' = TRUE
      BY <1>6, <2>1
    <3> QED
      BY <3>1, <3>2 DEF Count
  <2>2. CASE front # last
    <3>1. empty' = FALSE
      BY <1>6, <2>2
    <3> QED
      BY <1>1, <1>6, <2>2, <3>1 DEF Count, Wrap, Shape, RingType, Slots
  <2> QED
    BY <2>1, <2>2
<1>8. behind(last) = Count - 1 - k
  <2>1. behind(Wrap(front + Count - 1)) = Count - 1 - k
    BY <1>1, <1>2 DEF Wrap, Shape, RingType, Slots
  <2> QED
    BY <1>2, <2>1
<1>9. ASSUME NEW j \in 1 .. Count - 1
      PROVE  Contents'[j] = IF j < k + 1 THEN Contents[j] ELSE Contents[j + 1]
  <2> DEFINE p == Wrap(front + j - 1)
  <2>1. Contents'[j] = data'[p] /\ p \in Slots
    BY <1>6, <1>7, ContentsSeqNext DEF Laid, Wrap
  <2>2. CASE j < k + 1
    <3>1. behind(p) >= Count - 1 - k
      BY <1>1, <1>2, <2>2 DEF Wrap, Shape, RingType, Slots
    <3>2. data'[p] = data[p]
      <4> HIDE DEF p, behind, last
      <4>1. behind(p) \in Int
        BY <2>1, <1>3 DEF behind, Wrap, Slots
      <4> QED
        BY <1>1, <1>2, <1>6, <1>8, <2>1, <3>1, <4>1
    <3> QED
      BY <1>2, <2>1, <2>2, <3>2, ContentsSeq DEF Laid
  <2>3. CASE ~(j < k + 1)
    <3>1. behind(p) < Count - 1 - k
      BY <1>1, <1>2, <2>3 DEF Wrap, Shape, RingType, Slots
    <3>2. Wrap(p + 1) = Wrap(front + (j + 1) - 1)
      BY <1>2 DEF Wrap, Shape, RingType, Slots
    <3>3. data'[p] = data[Wrap(p + 1)]
      <4> HIDE DEF p, behind, last
      <4> QED
        BY <1>6, <1>8, <2>1, <3>1
    <3>4. j + 1 \in 1 .. Count
      BY <1>2
    <3> QED
      BY <2>1, <2>3, <3>2, <3>3, <3>4, ContentsSeq DEF Laid
  <2> QED
    BY <2>2, <2>3
<1>10. Contents[k + 1] = data[idx] /\ k + 1 \in 1 .. Len(Contents)
  BY <1>1, <1>2, ContentsSeq DEF Laid
<1>11. Contents' = Abstract!Without(Contents, k + 1)
  <2>1. Contents' = [j \in 1 .. Count - 1 |-> Contents'[j]]
    BY <1>7 DEF Contents
  <2>2. Len(Contents) = Count
    BY ContentsSeq DEF Laid
  <2> QED
    BY <1>9, <2>1, <2>2 DEF Abstract!Without
<1> QED
  BY <1>6, <1>10, <1>11 DEF Abstract!Take

\* Every step of the ring is a step of the bounded queue, or leaves it alone.
LEMMA AbstractNext == Shape /\ Shape' /\ [RingNext]_ringVars => [Abstract!Next]_Abstract!vars
<1> SUFFICES ASSUME Shape, Shape', [RingNext]_ringVars PROVE [Abstract!Next]_Abstract!vars
  OBVIOUS
<1>1. CASE RingNext
  <2>1. ASSUME NEW v \in VALUES, push_queue(v) PROVE Abstract!Next
    BY <1>1, <2>1, PushStep DEF RingNext, Abstract!Next
  <2>2. CASE pop_queue
    BY <1>1, <2>2, PopStep DEF RingNext, Abstract!Next
  <2>3. ASSUME NEW k \in 0 .. ScanCount - 1, take(k) PROVE Abstract!Next
    BY <1>1, <2>3, TakeStep DEF RingNext, Abstract!Next
  <2> QED
    BY <1>1, <2>1, <2>2, <2>3 DEF RingNext
<1>2. CASE UNCHANGED ringVars
  BY <1>2 DEF ringVars, Abstract!vars, Contents, Count
<1> QED
  BY <1>1, <1>2

\* The ring keeps its shape.
THEOREM RingShape == RingSpec => []Shape
  BY ShapeInit, ShapeNext, PTL DEF RingSpec

\* The ring buffer of os/queue.c implements the bounded queue.
THEOREM RingRefinesQueue == RingSpec => RefinesQueue
  BY AbstractInit, AbstractNext, RingShape, PTL DEF RingSpec, RefinesQueue, Abstract!Spec
=============================================================================
