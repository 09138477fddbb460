-------------------------------- MODULE Sync --------------------------------
(***************************************************************************)
(* Threads of one process and the kernel objects they synchronise with:    *)
(* mutexes, semaphores, condition variables (os/sync.c), the deadlock      *)
(* detector in front of them (os/syscall.c) and the part of a thread's     *)
(* life that touches them (thread creation, exit, waittid, process exit    *)
(* and reuse of the process slot).                                         *)
(*                                                                         *)
(* The kernel runs on one hart and is preempted only in user mode, so a    *)
(* system call is one atomic step up to the point where it gives the CPU   *)
(* away (sched or yield).  What it does when it is scheduled again is an   *)
(* action of its own: mutex_resume, spin_retry, semaphore_resume,          *)
(* condvar_resume.                                                         *)
(***************************************************************************)
EXTENDS Integers, Sequences, FiniteSets, FiniteSetsExt, SequencesExt

CONSTANTS
    NTHREAD,                \* thread slots of a process
    NMUTEX, NSEM, NCOND,    \* pool sizes (all LOCK_POOL_SIZE in the code)
    WAIT_QUEUE_MAX_LENGTH,  \* capacity of every wait queue
    BLOCKING_ARGS,          \* arguments clients pass to mutex_create
    SEM_COUNTS,             \* arguments clients pass to semaphore_create
    DETECT_ARGS,            \* arguments clients pass to enable_deadlock_detect
    DISCIPLINED,            \* clients release only what they hold
    NESTED,                 \* clients may lock while they hold a mutex
    MAX_COUNT,              \* bound: largest semaphore count explored
    MAX_ALLOC               \* bound: largest sem_allocation entry explored

ASSUME PoolAssumption ==
    /\ NTHREAD \in Nat \ {0}
    /\ NMUTEX \in Nat /\ NSEM \in Nat /\ NCOND \in Nat

ASSUME QueueAssumption ==
    WAIT_QUEUE_MAX_LENGTH \in Nat /\ WAIT_QUEUE_MAX_LENGTH >= NTHREAD

ASSUME ClientAssumption ==
    /\ BLOCKING_ARGS \subseteq {0, 1}
    /\ SEM_COUNTS \subseteq Int
    /\ DETECT_ARGS \subseteq {0, 1}
    /\ DISCIPLINED \in BOOLEAN
    /\ NESTED \in BOOLEAN
    /\ MAX_COUNT \in Int
    /\ MAX_ALLOC \in Int

Tids == 0 .. NTHREAD - 1
Mutexes == 0 .. NMUTEX - 1
Semaphores == 0 .. NSEM - 1
Condvars == 0 .. NCOND - 1

VARIABLES
    tstate,     \* thread state; RUNNABLE stands for T_USED, RUNNABLE, RUNNING
    pc,         \* "user", or the call the thread is suspended in
    obj,        \* id of the object that call waits for
    mtx,        \* for "cond": the mutex to take again on wake-up
    nextMutex, blocking, locked, mqueue,            \* struct mutex
    nextSem, count, squeue,                         \* struct semaphore
    nextCond, cqueue,                               \* struct condvar
    detect,                                         \* deadlock_detect_enable
    mAlloc, mReq,   \* columns of mutex_allocation, mutex_request: the threads
    sAlloc, sReq,   \* ... of sem_allocation (numbers) and sem_request
    panicked,                                       \* panic() was called
    \* history: what the clients rely on and the kernel does not record
    holders,    \* mutex -> threads between lock's and unlock's return
    sheld,      \* semaphore -> thread -> units downed and not upped again
    units       \* semaphore -> units in circulation: created, upped without a
                \* down before, not taken along by a thread that exited

threadVars == <<tstate, pc, obj, mtx>>
mutexVars == <<nextMutex, blocking, locked, mqueue, mAlloc, mReq, holders>>
semVars == <<nextSem, count, squeue, sAlloc, sReq, sheld, units>>
condVars == <<nextCond, cqueue>>
vars == <<threadVars, mutexVars, semVars, condVars, detect, panicked>>

(***************************************************************************)
(* Threads                                                                 *)
(***************************************************************************)
\* t is executing user code: it may make a system call.
Running(t) == tstate[t] = "RUNNABLE" /\ pc[t] = "user"

\* t was woken inside call c and the scheduler can pick it.
Woken(t, c) == tstate[t] = "RUNNABLE" /\ pc[t] = c

HoldsNone(t) == \A m \in Mutexes : t \notin holders[m]

\* t gives up the CPU inside call c, waiting for object o.
Suspend(t, c, o) ==
    /\ pc' = [pc EXCEPT ![t] = c]
    /\ obj' = [obj EXCEPT ![t] = o]

\* t's system call returns to user code.
Return(t) == pc' = [pc EXCEPT ![t] = "user"]

\* The threads of S become RUNNABLE and are handed to the scheduler.
Wake(S) == [u \in Tids |-> IF u \in S THEN "RUNNABLE" ELSE tstate[u]]

\* init_queue empties a queue, whatever an earlier process left in it.
init_queue_skipped(q) == q      \* mutant: the queue is not reset
init_queue(q) == <<>>

\* push_queue panics when the queue is full.
Overflows(q) == ~(Len(q) < WAIT_QUEUE_MAX_LENGTH)

(***************************************************************************)
(* The deadlock detector                                                   *)
(***************************************************************************)
Finished == {i \in Tids : tstate[i] \in {"T_UNUSED", "EXITED"}}

\* Work once the threads of F are assumed to have run to completion.
work_mutex(F, j) ==
    (IF locked[j] # 0 THEN 0 ELSE 1)
        + Cardinality(mAlloc[j] \cap (F \ Finished))
work_sem(F, j) ==
    (IF count[j] > 0 THEN count[j] ELSE 0)
        + MapThenSumSet(LAMBDA i : sAlloc[j][i], F \ Finished)

\* Thread i's requests (columns mr and sr) can be met after F finished.
Possible(i, F, mr, sr) ==
    /\ \A j \in Mutexes : i \in mr[j] => work_mutex(F, j) >= 1
    /\ \A j \in Semaphores : i \in sr[j] => work_sem(F, j) >= 1

TidSeq == [k \in 1 .. NTHREAD |-> k - 1]

\* One round of the loop over the threads, in tid order.
DetectPass(F, mr, sr) ==
    FoldLeft(LAMBDA f, i : IF i \notin f /\ Possible(i, f, mr, sr)
                           THEN f \cup {i} ELSE f,
             F, TidSeq)

\* Rounds until nothing changes: each that counts finishes a thread, so
\* NTHREAD rounds reach the fixed point and the rest are idle.
deadlock_detect_one_round(mr, sr) ==    \* mutant: no outer loop
    DetectPass(Finished, mr, sr) # Tids
deadlock_detect(mr, sr) ==
    FoldLeft(LAMBDA f, k : DetectPass(f, mr, sr), Finished, TidSeq) # Tids

RefuseLock_no_request(t, m) ==  \* mutant: judged without the new request
    deadlock_detect(mReq, sReq)
RefuseLock(t, m) == deadlock_detect([mReq EXCEPT ![m] = @ \cup {t}], sReq)
RefuseDown(t, s) == deadlock_detect(mReq, [sReq EXCEPT ![s] = @ \cup {t}])

(***************************************************************************)
(* Mutexes                                                                 *)
(***************************************************************************)
sys_mutex_create(t, b) ==
    /\ Running(t)
    /\ nextMutex < NMUTEX
    /\ nextMutex' = nextMutex + 1
    /\ blocking' = [blocking EXCEPT ![nextMutex] = b]
    /\ locked' = [locked EXCEPT ![nextMutex] = 0]
    /\ mqueue' = IF b # 0 THEN [mqueue EXCEPT ![nextMutex] = init_queue(@)] ELSE mqueue
    /\ UNCHANGED <<threadVars, mAlloc, mReq, holders, semVars, condVars,
                   detect, panicked>>

\* mutex_lock up to its return or its first context switch; mr is the request
\* matrix it starts from.
lock_free(t, m, mr) ==
    /\ locked[m] = 0
    /\ locked' = [locked EXCEPT ![m] = 1]
    /\ mAlloc' = [mAlloc EXCEPT ![m] = @ \cup {t}]
    /\ holders' = [holders EXCEPT ![m] = @ \cup {t}]
    /\ mReq' = mr
    /\ Return(t)
    /\ UNCHANGED <<tstate, obj, mqueue, panicked>>

lock_spin(t, m, mr) ==
    /\ locked[m] # 0 /\ blocking[m] = 0
    /\ mReq' = [mr EXCEPT ![m] = @ \cup {t}]
    /\ Suspend(t, "spin", m)
    /\ UNCHANGED <<tstate, locked, mqueue, mAlloc, holders, panicked>>

lock_block(t, m, mr) ==
    /\ locked[m] # 0 /\ blocking[m] # 0
    /\ mqueue' = [mqueue EXCEPT ![m] = Append(@, t)]
    /\ panicked' = Overflows(mqueue[m])
    /\ tstate' = [tstate EXCEPT ![t] = "SLEEPING"]
    /\ mReq' = [mr EXCEPT ![m] = @ \cup {t}]
    /\ Suspend(t, "mutex", m)
    /\ UNCHANGED <<locked, mAlloc, holders>>

mutex_lock(t, m, mr) ==
    lock_free(t, m, mr) \/ lock_spin(t, m, mr) \/ lock_block(t, m, mr)

\* With detection on, the request is entered, judged and withdrawn; a refused
\* call (-0xDEAD) changes nothing else.
sys_mutex_lock(t, m) ==
    /\ Running(t)
    /\ m < nextMutex
    /\ NESTED \/ HoldsNone(t)
    /\ LET mr == IF detect # 0 THEN [mReq EXCEPT ![m] = @ \ {t}] ELSE mReq
       IN IF detect # 0 /\ RefuseLock(t, m)
          THEN /\ mReq' = mr
               /\ UNCHANGED <<tstate, pc, obj, locked, mqueue, mAlloc, holders,
                              panicked>>
          ELSE mutex_lock(t, m, mr)
    /\ UNCHANGED <<mtx, nextMutex, blocking, semVars, condVars, detect>>

\* The waiter of a blocking mutex is scheduled again: the lock is its own.
mutex_resume(t) ==
    /\ Woken(t, "mutex")
    /\ mReq' = [mReq EXCEPT ![obj[t]] = @ \ {t}]
    /\ mAlloc' = [mAlloc EXCEPT ![obj[t]] = @ \cup {t}]
    /\ holders' = [holders EXCEPT ![obj[t]] = @ \cup {t}]
    /\ Return(t)
    /\ UNCHANGED <<tstate, obj, mtx, nextMutex, blocking, locked, mqueue,
                   semVars, condVars, detect, panicked>>

\* The waiter of a spin mutex polls once more: it yields again while the mutex
\* is locked (no change), and leaves the loop as soon as it reads it unlocked.
\* It does not set locked.
spin_retry(t) ==
    /\ Woken(t, "spin")
    /\ locked[obj[t]] = 0
    /\ mReq' = [mReq EXCEPT ![obj[t]] = @ \ {t}]
    /\ mAlloc' = [mAlloc EXCEPT ![obj[t]] = @ \cup {t}]
    /\ holders' = [holders EXCEPT ![obj[t]] = @ \cup {t}]
    /\ Return(t)
    /\ UNCHANGED <<tstate, obj, mtx, nextMutex, blocking, locked, mqueue,
                   semVars, condVars, detect, panicked>>

\* The thread mutex_unlock takes from the wait queue, if any.
NextOwner_none(m) == {}         \* mutant: waiters are not looked for
NextOwner(m) ==
    IF blocking[m] # 0 /\ mqueue[m] # <<>> THEN {Head(mqueue[m])} ELSE {}

\* locked after an unlock: a mutex that is handed over stays locked.
LockedAfter_cleared(m) == 0     \* mutant: cleared before the hand-over
LockedAfter(m) == IF NextOwner(m) = {} THEN 0 ELSE locked[m]

\* The mutex's column of mutex_allocation after an unlock by t.
AllocAfter_kept(t, m) ==        \* mutant: the releasing thread keeps its entry
    mAlloc[m] \cup NextOwner(m)
AllocAfter(t, m) == (mAlloc[m] \ {t}) \cup NextOwner(m)

\* The mutex's own state after mutex_unlock by t; NextOwner(m) is to be woken.
mutex_unlock(t, m) ==
    /\ locked' = [locked EXCEPT ![m] = LockedAfter(m)]
    /\ mqueue' = [mqueue EXCEPT ![m] = IF NextOwner(m) = {} THEN @ ELSE Tail(@)]
    /\ mAlloc' = [mAlloc EXCEPT ![m] = AllocAfter(t, m)]
    /\ mReq' = [mReq EXCEPT ![m] = @ \ NextOwner(m)]
    /\ holders' = [holders EXCEPT ![m] = @ \ {t}]

sys_mutex_unlock(t, m) ==
    /\ Running(t)
    /\ m < nextMutex
    /\ DISCIPLINED => t \in holders[m]
    /\ mutex_unlock(t, m)
    /\ tstate' = Wake(NextOwner(m))
    /\ UNCHANGED <<pc, obj, mtx, nextMutex, blocking, semVars, condVars,
                   detect, panicked>>

(***************************************************************************)
(* Semaphores                                                              *)
(***************************************************************************)
sys_semaphore_create(t, n) ==
    /\ Running(t)
    /\ nextSem < NSEM
    /\ nextSem' = nextSem + 1
    /\ count' = [count EXCEPT ![nextSem] = n]
    /\ squeue' = [squeue EXCEPT ![nextSem] = init_queue(@)]
    /\ units' = [units EXCEPT ![nextSem] = n]
    /\ UNCHANGED <<threadVars, mutexVars, sAlloc, sReq, sheld, condVars,
                   detect, panicked>>

\* Whether an up leaves a count that should have a waiter behind it.
MustWake_before(s) == count[s] <= 0     \* mutant: tested before the increment
MustWake(s) == count[s] + 1 <= 0

\* An up gives a unit back, if the caller is on record with one.
Released_unguarded(n) == n - 1          \* mutant: no guard
Released(n) == IF n > 0 THEN n - 1 ELSE n

\* semaphore_up after count was raised; al is sem_allocation with the caller's
\* unit given back.
up_free(s, al) ==
    /\ ~MustWake(s)
    /\ sAlloc' = al
    /\ UNCHANGED <<tstate, squeue, sReq, panicked>>

\* The waiter is credited with the unit here, and again in semaphore_resume.
up_wake(s, al) ==
    /\ MustWake(s) /\ squeue[s] # <<>>
    /\ LET w == Head(squeue[s])
       IN /\ sAlloc' = [al EXCEPT ![s][w] = @ + 1]
          /\ sReq' = [sReq EXCEPT ![s] = @ \ {w}]
          /\ tstate' = Wake({w})
    /\ squeue' = [squeue EXCEPT ![s] = Tail(@)]
    /\ UNCHANGED panicked

up_panic(s, al) ==
    /\ MustWake(s) /\ squeue[s] = <<>>
    /\ sAlloc' = al
    /\ panicked' = TRUE
    /\ UNCHANGED <<tstate, squeue, sReq>>

sys_semaphore_up(t, s) ==
    /\ Running(t)
    /\ s < nextSem
    /\ count[s] < MAX_COUNT
    /\ DISCIPLINED => sheld[s][t] > 0
    /\ count' = [count EXCEPT ![s] = @ + 1]
    /\ sheld' = [sheld EXCEPT ![s][t] = Released(@)]
    /\ units' = [units EXCEPT ![s] = IF sheld[s][t] > 0 THEN @ ELSE @ + 1]
    /\ LET al == [sAlloc EXCEPT ![s][t] = Released(@)]
       IN up_free(s, al) \/ up_wake(s, al) \/ up_panic(s, al)
    /\ UNCHANGED <<pc, obj, mtx, mutexVars, nextSem, condVars, detect>>

\* Whether a down finds no unit and has to wait.
MustWait_at_zero(s) == count[s] < 0     \* mutant: off by one
MustWait(s) == count[s] - 1 < 0

down_free(t, s, sr) ==
    /\ ~MustWait(s)
    /\ sAlloc' = [sAlloc EXCEPT ![s][t] = @ + 1]
    /\ sheld' = [sheld EXCEPT ![s][t] = @ + 1]
    /\ sReq' = sr
    /\ UNCHANGED <<tstate, pc, obj, squeue, panicked>>

down_wait(t, s, sr) ==
    /\ MustWait(s)
    /\ squeue' = [squeue EXCEPT ![s] = Append(@, t)]
    /\ panicked' = Overflows(squeue[s])
    /\ tstate' = [tstate EXCEPT ![t] = "SLEEPING"]
    /\ sReq' = [sr EXCEPT ![s] = @ \cup {t}]
    /\ Suspend(t, "sem", s)
    /\ UNCHANGED <<sAlloc, sheld>>

semaphore_down(t, s, sr) ==
    /\ count' = [count EXCEPT ![s] = @ - 1]
    /\ down_free(t, s, sr) \/ down_wait(t, s, sr)

sys_semaphore_down(t, s) ==
    /\ Running(t)
    /\ s < nextSem
    /\ sAlloc[s][t] + 2 <= MAX_ALLOC
    /\ LET sr == IF detect # 0 THEN [sReq EXCEPT ![s] = @ \ {t}] ELSE sReq
       IN IF detect # 0 /\ RefuseDown(t, s)
          THEN /\ sReq' = sr
               /\ UNCHANGED <<tstate, pc, obj, count, squeue, sAlloc, sheld,
                              panicked>>
          ELSE semaphore_down(t, s, sr)
    /\ UNCHANGED <<mtx, mutexVars, nextSem, units, condVars, detect>>

semaphore_resume(t) ==
    /\ Woken(t, "sem")
    /\ sReq' = [sReq EXCEPT ![obj[t]] = @ \ {t}]
    /\ sAlloc' = [sAlloc EXCEPT ![obj[t]][t] = @ + 1]
    /\ sheld' = [sheld EXCEPT ![obj[t]][t] = @ + 1]
    /\ Return(t)
    /\ UNCHANGED <<tstate, obj, mtx, mutexVars, nextSem, count, squeue, units,
                   condVars, detect, panicked>>

(***************************************************************************)
(* Condition variables                                                     *)
(***************************************************************************)
sys_condvar_create(t) ==
    /\ Running(t)
    /\ nextCond < NCOND
    /\ nextCond' = nextCond + 1
    /\ cqueue' = [cqueue EXCEPT ![nextCond] = init_queue(@)]
    /\ UNCHANGED <<threadVars, mutexVars, semVars, detect, panicked>>

\* A signal with nobody waiting is lost.
sys_condvar_signal(t, c) ==
    /\ Running(t)
    /\ c < nextCond
    /\ IF cqueue[c] = <<>>
       THEN UNCHANGED <<tstate, cqueue>>
       ELSE /\ tstate' = Wake({Head(cqueue[c])})
            /\ cqueue' = [cqueue EXCEPT ![c] = Tail(@)]
    /\ UNCHANGED <<pc, obj, mtx, mutexVars, semVars, nextCond, detect,
                   panicked>>

\* cond_wait up to sched(): release the mutex, queue up, sleep.
sys_condvar_wait(t, c, m) ==
    /\ Running(t)
    /\ c < nextCond
    /\ m < nextMutex
    /\ DISCIPLINED => t \in holders[m]
    /\ mutex_unlock(t, m)
    /\ cqueue' = [cqueue EXCEPT ![c] = Append(@, t)]
    /\ panicked' = Overflows(cqueue[c])
    /\ tstate' = [Wake(NextOwner(m)) EXCEPT ![t] = "SLEEPING"]
    /\ Suspend(t, "cond", c)
    /\ mtx' = [mtx EXCEPT ![t] = m]
    /\ UNCHANGED <<nextMutex, blocking, semVars, nextCond, detect>>

\* The rest of cond_wait: mutex_lock is called directly, not through
\* sys_mutex_lock, so the detector is not asked.
condvar_resume(t) ==
    /\ Woken(t, "cond")
    /\ mutex_lock(t, mtx[t], mReq)
    /\ UNCHANGED <<mtx, nextMutex, blocking, semVars, condVars, detect>>

(***************************************************************************)
(* Detection switch, thread and process life                               *)
(***************************************************************************)
sys_enable_deadlock_detect(t, e) ==
    /\ Running(t)
    /\ detect' = e
    /\ UNCHANGED <<threadVars, mutexVars, semVars, condVars, panicked>>

\* allocthread takes the lowest free slot; the detector's rows are not cleared.
sys_thread_create(t) ==
    /\ Running(t)
    /\ \E u \in Tids :
          /\ tstate[u] = "T_UNUSED"
          /\ \A v \in Tids : v < u => tstate[v] # "T_UNUSED"
          /\ tstate' = [tstate EXCEPT ![u] = "RUNNABLE"]
          /\ pc' = [pc EXCEPT ![u] = "user"]
    /\ UNCHANGED <<obj, mtx, mutexVars, semVars, condVars, detect, panicked>>

sys_waittid(t, u) ==
    /\ Running(t)
    /\ u # t
    /\ tstate[u] = "EXITED"
    /\ tstate' = [tstate EXCEPT ![u] = "T_UNUSED"]
    /\ UNCHANGED <<pc, obj, mtx, mutexVars, semVars, condVars, detect, panicked>>

\* A thread other than the main one exits.  What it holds stays held.
exit_thread(t) ==
    /\ Running(t)
    /\ t # 0
    /\ DISCIPLINED => HoldsNone(t) /\ \A s \in Semaphores : sheld[s][t] = 0
    /\ tstate' = [tstate EXCEPT ![t] = "EXITED"]
    /\ holders' = [m \in Mutexes |-> holders[m] \ {t}]
    /\ sheld' = [s \in Semaphores |-> [sheld[s] EXCEPT ![t] = 0]]
    /\ units' = [s \in Semaphores |-> units[s] - sheld[s][t]]
    /\ UNCHANGED <<pc, obj, mtx, nextMutex, blocking, locked, mqueue, mAlloc,
                   mReq, nextSem, count, squeue, sAlloc, sReq, condVars,
                   detect, panicked>>

\* The main thread exits: freeproc drops every thread, wherever it is.  The
\* pools keep what was in them.
exit_process ==
    /\ Running(0)
    /\ tstate' = [t \in Tids |-> "T_UNUSED"]
    /\ pc' = [t \in Tids |-> "user"]
    /\ holders' = [m \in Mutexes |-> {}]
    /\ sheld' = [s \in Semaphores |-> [t \in Tids |-> 0]]
    /\ UNCHANGED <<obj, mtx, nextMutex, blocking, locked, mqueue, mAlloc, mReq,
                   nextSem, count, squeue, sAlloc, sReq, units, condVars,
                   detect, panicked>>

\* The slot is given to a new process with one thread.
allocproc ==
    /\ \A t \in Tids : tstate[t] = "T_UNUSED"
    /\ tstate' = [tstate EXCEPT ![0] = "RUNNABLE"]
    /\ nextMutex' = 0 /\ nextSem' = 0 /\ nextCond' = 0
    /\ detect' = 0
    /\ mAlloc' = [m \in Mutexes |-> {}]
    /\ mReq' = [m \in Mutexes |-> {}]
    /\ sAlloc' = [s \in Semaphores |-> [t \in Tids |-> 0]]
    /\ sReq' = [s \in Semaphores |-> {}]
    /\ UNCHANGED <<pc, obj, mtx, blocking, locked, mqueue, holders, count,
                   squeue, sheld, units, cqueue, panicked>>

(***************************************************************************)
(* The specification                                                       *)
(***************************************************************************)
Init ==
    /\ tstate = [t \in Tids |-> IF t = 0 THEN "RUNNABLE" ELSE "T_UNUSED"]
    /\ pc = [t \in Tids |-> "user"]
    /\ obj = [t \in Tids |-> 0]
    /\ mtx = [t \in Tids |-> 0]
    /\ nextMutex = 0 /\ nextSem = 0 /\ nextCond = 0
    /\ blocking = [m \in Mutexes |-> 0]
    /\ locked = [m \in Mutexes |-> 0]
    /\ mqueue = [m \in Mutexes |-> <<>>]
    /\ count = [s \in Semaphores |-> 0]
    /\ squeue = [s \in Semaphores |-> <<>>]
    /\ cqueue = [c \in Condvars |-> <<>>]
    /\ detect = 0
    /\ mAlloc = [m \in Mutexes |-> {}]
    /\ mReq = [m \in Mutexes |-> {}]
    /\ sAlloc = [s \in Semaphores |-> [t \in Tids |-> 0]]
    /\ sReq = [s \in Semaphores |-> {}]
    /\ panicked = FALSE
    /\ holders = [m \in Mutexes |-> {}]
    /\ sheld = [s \in Semaphores |-> [t \in Tids |-> 0]]
    /\ units = [s \in Semaphores |-> 0]

\* What a woken thread does when the scheduler picks it.
Resume(t) ==
    \/ mutex_resume(t)
    \/ spin_retry(t)
    \/ semaphore_resume(t)
    \/ condvar_resume(t)

MutexCall(t) ==
    \/ \E b \in BLOCKING_ARGS : sys_mutex_create(t, b)
    \/ \E m \in Mutexes : sys_mutex_lock(t, m)
    \/ \E m \in Mutexes : sys_mutex_unlock(t, m)

SemCall(t) ==
    \/ \E n \in SEM_COUNTS : sys_semaphore_create(t, n)
    \/ \E s \in Semaphores : sys_semaphore_up(t, s)
    \/ \E s \in Semaphores : sys_semaphore_down(t, s)

CondCall(t) ==
    \/ sys_condvar_create(t)
    \/ \E c \in Condvars : sys_condvar_signal(t, c)
    \/ \E c \in Condvars, m \in Mutexes : sys_condvar_wait(t, c, m)

ThreadCall(t) ==
    \/ \E e \in DETECT_ARGS : sys_enable_deadlock_detect(t, e)
    \/ sys_thread_create(t)
    \/ \E u \in Tids : sys_waittid(t, u)
    \/ exit_thread(t)

Next ==
    /\ ~panicked
    /\ \/ \E t \in Tids : Resume(t) \/ MutexCall(t) \/ SemCall(t)
                             \/ CondCall(t) \/ ThreadCall(t)
       \/ exit_process
       \/ allocproc

Spec == Init /\ [][Next]_vars

(***************************************************************************)
(* Fairness: the scheduler eventually runs every RUNNABLE thread (threads  *)
(* of one process share its stride, so fetch_task serves them in queue     *)
(* order), and a client eventually leaves its critical section.            *)
(***************************************************************************)
Unlock(t) == ~panicked /\ \E m \in Mutexes : t \in holders[m] /\ sys_mutex_unlock(t, m)

FairSpec ==
    /\ Spec
    /\ \A t \in Tids : WF_vars(~panicked /\ Resume(t)) /\ WF_vars(Unlock(t))
=============================================================================
