------------------------------- MODULE Sched --------------------------------
(***************************************************************************)
(* The process table and the stride scheduler (os/proc.c), with the system *)
(* calls that create, end, join and prioritise processes and threads       *)
(* (os/syscall.c).                                                         *)
(*                                                                         *)
(* One hart; the kernel is not preempted.  A step is what the kernel does  *)
(* from a trap to its return or its switch to the scheduler, or one turn   *)
(* of the scheduler's loop.  The task queue is a sequence here; RingQueue  *)
(* shows that the ring implements it.                                      *)
(***************************************************************************)
EXTENDS Integers, Sequences, SequencesExt

CONSTANTS
    NPROC, NTHREAD,     \* process slots; thread slots of each
    QUEUE_SIZE,         \* slots of the task queue
    BIG_STRIDE,         \* stride of a process of priority 1
    DEFAULT_PRIORITY,   \* priority of a new process
    STRIDE_MOD,         \* strides are unsigned: 2^64 in the code
    PRIORITIES,         \* arguments clients pass to set_priority
    MAX_PID,            \* bound: processes ever created
    MAX_STRIDE          \* bound: largest stride explored

ASSUME SlotAssumption == NPROC \in Nat \ {0} /\ NTHREAD \in Nat \ {0}
ASSUME StrideAssumption ==
    /\ QUEUE_SIZE \in Nat \ {0} /\ BIG_STRIDE \in Nat
    /\ DEFAULT_PRIORITY \in Nat \ {0, 1} /\ STRIDE_MOD \in Nat \ {0}
ASSUME ClientAssumption ==
    /\ PRIORITIES \subseteq Int
    /\ MAX_PID \in Nat \ {0} /\ MAX_STRIDE \in Nat

Procs == 0 .. NPROC - 1
Tids == 0 .. NTHREAD - 1
Tasks == Procs \X Tids
Proc(x) == x[1]
Tid(x) == x[2]
Null == -1              \* no parent
NoTask == <<>>          \* the scheduler is running
NotWaiting == -1        \* the task is not inside wait

VARIABLES
    pstate, pid, parent, stride, priority,  \* struct proc
    tstate,         \* struct thread; T_USED never outlives a step
    waitArg,        \* the pid argument of the wait call a task is inside
    queue,          \* task_queue
    current,        \* current_thread
    nextPid,        \* allocpid's counter
    panicked,       \* "no", or what the kernel panicked about
    \* history
    forker,         \* pid of the process that created the one in a slot
    passed,         \* processes dispatched while a task waited for the CPU
    joined,         \* every main thread so far exited after its siblings
    crowded         \* the scheduler has met a full queue

procVars == <<pstate, pid, parent, forker, nextPid>>
strideVars == <<stride, priority>>
vars == <<procVars, strideVars, tstate, waitArg, queue, current, panicked, passed, joined, crowded>>

(***************************************************************************)
(* The task queue and the scheduler                                        *)
(***************************************************************************)
\* push_queue's overflow test.
Full == Len(queue) = QUEUE_SIZE

\* x becomes RUNNABLE and is queued; a full queue is a panic.
add_task(x) ==
    IF Full
    THEN panicked' = "overflow" /\ UNCHANGED queue
    ELSE queue' = Append(queue, x) /\ UNCHANGED panicked

\* The positions fetch_task's scan considers: a full ring looks empty to it.
Scanned == IF Full THEN {} ELSE 1 .. Len(queue)
Candidates ==
    {i \in Scanned : /\ tstate[queue[i]] = "RUNNABLE"
                     /\ stride[Proc(queue[i])] < STRIDE_MOD - 1}

\* The first position with the smallest stride.
Smallest_first(i) ==    \* mutant: the oldest entry, whatever its stride
    i \in Candidates /\ \A j \in Candidates : i <= j
Smallest(i) ==
    /\ i \in Candidates
    /\ \A j \in Candidates :
          \/ stride[Proc(queue[i])] < stride[Proc(queue[j])]
          \/ stride[Proc(queue[i])] = stride[Proc(queue[j])] /\ i <= j

\* The queue once position i has been taken out.
Rest_kept(i) == queue   \* mutant: the entry stays
Rest(i) == RemoveAt(queue, i)

Pass(p) == BIG_STRIDE \div priority[p]
NewStride(p) == (stride[p] + Pass(p)) % STRIDE_MOD

\* The scheduler switches to x.
Dispatch(x) ==
    /\ tstate' = [tstate EXCEPT ![x] = "RUNNING"]
    /\ current' = x
    /\ passed' = [u \in Tasks |->
                    IF u = x THEN {}
                    ELSE IF tstate[u] = "RUNNABLE" /\ Proc(u) # Proc(x)
                    THEN passed[u] \cup {Proc(x)} ELSE passed[u]]

fetch_min(i) ==
    LET x == queue[i] IN
    /\ current = NoTask
    /\ Smallest(i)
    /\ stride[Proc(x)] + Pass(Proc(x)) <= MAX_STRIDE
    /\ queue' = Rest(i)
    /\ stride' = [stride EXCEPT ![Proc(x)] = NewStride(Proc(x))]
    /\ Dispatch(x)
    /\ UNCHANGED <<procVars, priority, waitArg, panicked, joined, crowded>>

\* Nothing to choose from: the head is popped, run if it can be, else dropped.
fetch_head ==
    /\ current = NoTask
    /\ queue # <<>> /\ Candidates = {}
    /\ queue' = Tail(queue)
    /\ IF tstate[Head(queue)] = "RUNNABLE"
       THEN Dispatch(Head(queue))
       ELSE UNCHANGED <<tstate, current, passed>>
    /\ crowded' = (crowded \/ Full)
    /\ UNCHANGED <<procVars, strideVars, waitArg, panicked, joined>>

\* "all app are over!"
fetch_none ==
    /\ current = NoTask
    /\ queue = <<>>
    /\ panicked' = "over"
    /\ UNCHANGED <<procVars, strideVars, tstate, waitArg, queue, current, passed, joined, crowded>>

scheduler == fetch_none \/ fetch_head \/ \E i \in 1 .. Len(queue) : fetch_min(i)

\* x runs user code and traps.
Running(x) == current = x /\ waitArg[x] = NotWaiting

\* x, with n as its state, gives the CPU back.
Leave(x, s) == tstate' = [tstate EXCEPT ![x] = s] /\ current' = NoTask

yield(x) ==
    /\ Running(x)
    /\ add_task(x)
    /\ Leave(x, "RUNNABLE")
    /\ UNCHANGED <<procVars, strideVars, waitArg, passed, joined, crowded>>

\* The blocking and waking of sync.c, as the scheduler sees it.
sleep(x) ==
    /\ Running(x)
    /\ Leave(x, "SLEEPING")
    /\ UNCHANGED <<procVars, strideVars, waitArg, queue, panicked, passed, joined, crowded>>

wake(x, u) ==
    /\ Running(x)
    /\ Proc(u) = Proc(x) /\ tstate[u] = "SLEEPING"
    /\ tstate' = [tstate EXCEPT ![u] = "RUNNABLE"]
    /\ add_task(u)
    /\ UNCHANGED <<procVars, strideVars, waitArg, current, passed, joined, crowded>>

Accepts(n) == n >= 2
sys_set_priority(x, n) ==
    /\ Running(x)
    /\ Accepts(n)
    /\ priority' = [priority EXCEPT ![Proc(x)] = n]
    /\ UNCHANGED <<procVars, stride, tstate, waitArg, queue, current, panicked, passed, joined, crowded>>

(***************************************************************************)
(* Processes                                                               *)
(***************************************************************************)
\* The slot allocproc finds.
FreeSlot(p) == pstate[p] = "P_UNUSED" /\ \A q \in Procs : q < p => pstate[q] # "P_UNUSED"
NoSlot == \A p \in Procs : pstate[p] # "P_UNUSED"

\* allocproc and allocthread: slot p becomes a process with one thread.
allocproc(p, par) ==
    /\ FreeSlot(p)
    /\ nextPid <= MAX_PID
    /\ pid' = [pid EXCEPT ![p] = nextPid]
    /\ nextPid' = nextPid + 1
    /\ pstate' = [pstate EXCEPT ![p] = "P_USED"]
    /\ parent' = [parent EXCEPT ![p] = par]
    /\ forker' = [forker EXCEPT ![p] = pid[par]]
    /\ stride' = [stride EXCEPT ![p] = 0]
    /\ priority' = [priority EXCEPT ![p] = DEFAULT_PRIORITY]
    /\ tstate' = [tstate EXCEPT ![<<p, 0>>] = "RUNNABLE"]
    /\ passed' = [passed EXCEPT ![<<p, 0>>] = {}]
    /\ add_task(<<p, 0>>)

\* fork and sys_spawn differ in what a full process table does.
fork(x) ==
    /\ Running(x)
    /\ \/ (\E p \in Procs : allocproc(p, Proc(x))) /\ UNCHANGED <<waitArg, current, joined, crowded>>
       \/ /\ NoSlot
          /\ panicked' = "allocproc"
          /\ UNCHANGED <<procVars, strideVars, tstate, waitArg, queue, current, passed, joined, crowded>>

sys_spawn(x) ==
    /\ Running(x)
    /\ \E p \in Procs : allocproc(p, Proc(x))
    /\ UNCHANGED <<waitArg, current, joined, crowded>>

\* bin_loader wants the new main thread in slot 0: exec by another thread
\* panics, exec by the main thread changes nothing here.
exec(x) ==
    /\ Running(x)
    /\ Tid(x) # 0
    /\ panicked' = "loader"
    /\ UNCHANGED <<procVars, strideVars, tstate, waitArg, queue, current, passed, joined, crowded>>

sys_thread_create(x) ==
    /\ Running(x)
    /\ \E t \in Tids :
          LET u == <<Proc(x), t>> IN
          /\ tstate[u] = "T_UNUSED"
          /\ \A v \in Tids : v < t => tstate[<<Proc(x), v>>] # "T_UNUSED"
          /\ tstate' = [tstate EXCEPT ![u] = "RUNNABLE"]
          /\ passed' = [passed EXCEPT ![u] = {}]
          /\ add_task(u)
    /\ UNCHANGED <<procVars, strideVars, waitArg, current, joined, crowded>>

sys_waittid(x, t) ==
    LET u == <<Proc(x), t>> IN
    /\ Running(x)
    /\ u # x /\ tstate[u] = "EXITED"
    /\ tstate' = [tstate EXCEPT ![u] = "T_UNUSED"]
    /\ UNCHANGED <<procVars, strideVars, waitArg, queue, current, panicked, passed, joined, crowded>>

exit_thread(x) ==
    /\ Running(x)
    /\ Tid(x) # 0
    /\ Leave(x, "EXITED")
    /\ UNCHANGED <<procVars, strideVars, waitArg, queue, panicked, passed, joined, crowded>>

\* The children of p lose their parent.
Orphaned_none(p) == parent      \* mutant: they keep it
Orphaned(p) == [q \in Procs |-> IF parent[q] = p THEN Null ELSE parent[q]]

\* The main thread exits: freeproc drops all threads, entries of theirs in the
\* task queue stay, and the slot is a ZOMBIE if there is a parent to reap it.
exit_process(x) ==
    LET p == Proc(x) IN
    /\ Running(x)
    /\ Tid(x) = 0
    /\ tstate' = [u \in Tasks |-> IF Proc(u) = p THEN "T_UNUSED" ELSE tstate[u]]
    /\ waitArg' = [u \in Tasks |-> IF Proc(u) = p THEN NotWaiting ELSE waitArg[u]]
    /\ pstate' = [pstate EXCEPT ![p] = IF parent[p] # Null THEN "ZOMBIE" ELSE "P_UNUSED"]
    /\ parent' = Orphaned(p)
    /\ current' = NoTask
    /\ joined' = (joined /\ \A u \in Tasks : Proc(u) = p /\ u # x =>
                                tstate[u] \in {"T_UNUSED", "EXITED"})
    /\ UNCHANGED <<pid, forker, nextPid, strideVars, queue, panicked, passed, crowded>>

\* The children wait(a) looks for: all of them when a is not positive.
Kids(p, a) == {q \in Procs : /\ pstate[q] # "P_UNUSED" /\ parent[q] = p
                             /\ a <= 0 \/ pid[q] = a}

\* One turn of wait's loop: reap the first ZOMBIE, fail without children, or
\* give the CPU away and look again.
wait_turn(x, a) ==
    LET kids == Kids(Proc(x), a)
        dead == {q \in kids : pstate[q] = "ZOMBIE"}
    IN \/ \E q \in dead :
             /\ \A r \in dead : q <= r
             /\ pstate' = [pstate EXCEPT ![q] = "P_UNUSED"]
             /\ waitArg' = [waitArg EXCEPT ![x] = NotWaiting]
             /\ UNCHANGED <<pid, parent, forker, nextPid, tstate, queue, current, panicked>>
       \/ /\ kids = {}
          /\ waitArg' = [waitArg EXCEPT ![x] = NotWaiting]
          /\ UNCHANGED <<procVars, tstate, queue, current, panicked>>
       \/ /\ kids # {} /\ dead = {}
          /\ waitArg' = [waitArg EXCEPT ![x] = a]
          /\ add_task(x)
          /\ Leave(x, "RUNNABLE")
          /\ UNCHANGED procVars

wait(x, a) ==
    /\ Running(x)
    /\ wait_turn(x, a)
    /\ UNCHANGED <<strideVars, passed, joined, crowded>>

wait_resume(x) ==
    /\ current = x /\ waitArg[x] # NotWaiting
    /\ wait_turn(x, waitArg[x])
    /\ UNCHANGED <<strideVars, passed, joined, crowded>>

(***************************************************************************)
(* The specification                                                       *)
(***************************************************************************)
\* After proc_init and load_init_app: the first process is queued.
Init ==
    /\ pstate = [p \in Procs |-> IF p = 0 THEN "P_USED" ELSE "P_UNUSED"]
    /\ pid = [p \in Procs |-> IF p = 0 THEN 1 ELSE 0]
    /\ parent = [p \in Procs |-> Null]
    /\ forker = [p \in Procs |-> 0]
    /\ nextPid = 2
    /\ stride = [p \in Procs |-> 0]
    /\ priority = [p \in Procs |-> DEFAULT_PRIORITY]
    /\ tstate = [x \in Tasks |-> IF x = <<0, 0>> THEN "RUNNABLE" ELSE "T_UNUSED"]
    /\ waitArg = [x \in Tasks |-> NotWaiting]
    /\ queue = << <<0, 0>> >>
    /\ current = NoTask
    /\ panicked = "no"
    /\ passed = [x \in Tasks |-> {}]
    /\ joined = TRUE
    /\ crowded = FALSE

SchedulingCall(x) ==
    \/ yield(x)
    \/ sleep(x)
    \/ \E u \in Tasks : wake(x, u)
    \/ \E n \in PRIORITIES : sys_set_priority(x, n)

ProcessCall(x) ==
    \/ fork(x)
    \/ sys_spawn(x)
    \/ exec(x)
    \/ exit_process(x)
    \/ \E a \in 0 .. MAX_PID : wait(x, a)
    \/ wait_resume(x)

ThreadCall(x) ==
    \/ sys_thread_create(x)
    \/ \E t \in Tids : sys_waittid(x, t)
    \/ exit_thread(x)

Next ==
    /\ panicked = "no"
    /\ \/ scheduler
       \/ \E x \in Tasks : SchedulingCall(x) \/ ProcessCall(x) \/ ThreadCall(x)

Spec == Init /\ [][Next]_vars
=============================================================================
