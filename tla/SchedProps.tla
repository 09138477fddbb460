----------------------------- MODULE SchedProps -----------------------------
(***************************************************************************)
(* What the scheduler and the process table promise.                       *)
(***************************************************************************)
EXTENDS Sched

States == {"T_UNUSED", "RUNNABLE", "RUNNING", "SLEEPING", "EXITED"}

\* TypeOK: the fields of struct proc and struct thread keep their ranges; a
\* stride wraps at STRIDE_MOD and a priority is at least 2 (sys_set_priority).
TypeOK ==
    /\ pstate \in [Procs -> {"P_UNUSED", "P_USED", "ZOMBIE"}]
    /\ pid \in [Procs -> Nat] /\ forker \in [Procs -> Nat] /\ nextPid \in Nat
    /\ parent \in [Procs -> Procs \cup {Null}]
    /\ stride \in [Procs -> 0 .. STRIDE_MOD - 1]
    /\ priority \in [Procs -> Nat \ {0, 1}]
    /\ tstate \in [Tasks -> States]
    /\ waitArg \in [Tasks -> Int]
    /\ queue \in Seq(Tasks)
    /\ current \in Tasks \cup {NoTask}
    /\ panicked \in {"no", "overflow", "over", "allocproc", "loader"}
    /\ passed \in [Tasks -> SUBSET Procs]
    /\ joined \in BOOLEAN /\ crowded \in BOOLEAN

\* No thread is forgotten: every RUNNABLE thread has an entry in the task queue
\* (yield, add_task, fetch_task, wait), whatever stale entries are in it, and
\* exactly the thread the scheduler switched to is RUNNING.
RunnableQueued ==
    panicked = "no" =>
        \A x \in Tasks : /\ tstate[x] = "RUNNABLE" => x \in ToSet(queue)
                         /\ tstate[x] = "RUNNING" <=> current = x

\* ParentTruth: a parent pointer leads to the process that forked, never to a later one in
\* the same slot: wait reaps only the caller's own children.
ParentTruth ==
    \A p \in Procs : pstate[p] # "P_UNUSED" /\ parent[p] # Null =>
        pstate[parent[p]] = "P_USED" /\ pid[parent[p]] = forker[p]

\* While every main thread has exited last, the task queue is exactly the
\* RUNNABLE threads, each once (add_task, fetch_task, freeproc).
QueueExact ==
    joined /\ panicked = "no" =>
        /\ ToSet(queue) = {x \in Tasks : tstate[x] = "RUNNABLE"}
        /\ IsInjective(queue)

\* TasksTrue: the tables are well typed and the task queue tells the truth about
\* thread states across yield, wait, exit and reuse of slots: no RUNNABLE thread is
\* missing, and no other one is in it while every main thread has exited last.
TasksTrue == TypeOK /\ RunnableQueued /\ QueueExact

\* Stride scheduling keeps its promise to a thread that waits for the CPU: no
\* process that ran in the meantime is ahead of the thread's own process by
\* more than the largest pass, unless the queue was full when the scheduler looked
\* (fetch_task takes the oldest entry of a full one): entries that freeproc left
\* behind and reused slots do not disturb it.
BoundedOvertaking ==
    ~crowded => \A x \in Tasks : tstate[x] = "RUNNABLE" =>
        \A p \in passed[x] : stride[p] <= stride[Proc(x)] + BIG_STRIDE \div 2

=============================================================================
