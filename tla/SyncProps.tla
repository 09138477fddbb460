----------------------------- MODULE SyncProps ------------------------------
(***************************************************************************)
(* What the synchronisation objects of Sync promise their clients.         *)
(***************************************************************************)
EXTENDS Sync

\* The process exists: its main thread, whose exit ends it, has a slot.
Alive == tstate[0] # "T_UNUSED"

\* The objects the process has created (none once it has exited).
CreatedBlocking == {m \in Mutexes : Alive /\ m < nextMutex /\ blocking[m] # 0}
CreatedSems == {s \in Semaphores : Alive /\ s < nextSem}
CreatedConds == {c \in Condvars : Alive /\ c < nextCond}

TypeThreads ==
    /\ tstate \in [Tids -> {"T_UNUSED", "RUNNABLE", "SLEEPING", "EXITED"}]
    /\ pc \in [Tids -> {"user", "mutex", "spin", "sem", "cond"}]
    /\ obj \in [Tids -> Nat]
    /\ mtx \in [Tids -> Nat]
    /\ \A t \in Tids :
          /\ pc[t] \in {"mutex", "spin"} => obj[t] \in Mutexes
          /\ pc[t] = "sem" => obj[t] \in Semaphores
          /\ pc[t] = "cond" => obj[t] \in Condvars /\ mtx[t] \in Mutexes
TypeMutexes ==
    /\ nextMutex \in 0 .. NMUTEX
    /\ blocking \in [Mutexes -> {0, 1}]
    /\ locked \in [Mutexes -> {0, 1}]
    /\ mqueue \in [Mutexes -> Seq(Tids)]
    /\ mAlloc \in [Mutexes -> SUBSET Tids]
    /\ mReq \in [Mutexes -> SUBSET Tids]
    /\ holders \in [Mutexes -> SUBSET Tids]
TypeSems ==
    /\ nextSem \in 0 .. NSEM
    /\ count \in [Semaphores -> Int]
    /\ squeue \in [Semaphores -> Seq(Tids)]
    /\ sAlloc \in [Semaphores -> [Tids -> Nat]]
    /\ sReq \in [Semaphores -> SUBSET Tids]
    /\ sheld \in [Semaphores -> [Tids -> Nat]]
    /\ units \in [Semaphores -> Int]
TypeConds ==
    /\ nextCond \in 0 .. NCOND
    /\ cqueue \in [Condvars -> Seq(Tids)]

\* Every variable has its type; in particular no allocation count that
\* semaphore_up lowers ever goes below zero.
TypeOK ==
    /\ TypeThreads
    /\ TypeMutexes
    /\ TypeSems
    /\ TypeConds
    /\ detect \in {0, 1}
    /\ panicked \in BOOLEAN

\* t sleeps in call c on object o.
Asleep(t, c, o) == tstate[t] = "SLEEPING" /\ pc[t] = c /\ obj[t] = o

Sleepers(c, o) == {t \in Tids : Asleep(t, c, o)}

\* q holds exactly the sleepers of one object, each once.
QueueOf(q, c, o) == ToSet(q) = Sleepers(c, o) /\ IsInjective(q)

\* A thread sleeps only while it is queued, once, on the created object it
\* waits for, and every queued thread sleeps: a wake-up (mutex_unlock,
\* semaphore_up, cond_signal) can neither miss a sleeper nor make a thread
\* RUNNABLE that is running, gone, or waiting for something else.
WaitersQueued ==
    /\ \A m \in CreatedBlocking : QueueOf(mqueue[m], "mutex", m)
    /\ \A s \in CreatedSems : QueueOf(squeue[s], "sem", s)
    /\ \A c \in CreatedConds : QueueOf(cqueue[c], "cond", c)
    /\ \A t \in Tids : tstate[t] = "SLEEPING" =>
          \/ pc[t] = "mutex" /\ obj[t] \in CreatedBlocking
          \/ pc[t] = "sem" /\ obj[t] \in CreatedSems
          \/ pc[t] = "cond" /\ obj[t] \in CreatedConds

\* No wait queue overflows (push_queue's panic) and semaphore_up always finds
\* the waiter that its count promises.
NoPanic == ~panicked

\* The threads mutex m belongs to: past mutex_lock, or handed the mutex by
\* mutex_unlock and not yet scheduled.
Granted(m) == {t \in Tids : t \in holders[m] \/ (Woken(t, "mutex") /\ obj[t] = m)}

\* At most one thread is between the return of mutex_lock and the call of
\* mutex_unlock, also when the mutex was handed over to a waiter, and when a
\* third thread calls mutex_lock before that waiter has run.
MutualExclusion == \A m \in Mutexes : \A t, u \in holders[m] : t = u

\* What the detector reads is true: mutex_allocation names exactly the owner
\* and mutex_request exactly the waiters of every mutex, through hand-over,
\* condition waits, thread exit and reuse of a thread slot.
AllocationTruth ==
    \A m \in CreatedBlocking :
        /\ mAlloc[m] = Granted(m)
        /\ mReq[m] = Sleepers("mutex", m)

\* The semaphore's count is minus the number of its waiters, or there are none.
SemaphoreQueue ==
    \A s \in CreatedSems : Len(squeue[s]) = IF count[s] < 0 THEN -count[s] ELSE 0

\* Units of s in the hands of t: downed, or passed to t by an up and t not yet
\* scheduled.
Held(t, s) == sheld[s][t] + (IF Woken(t, "sem") /\ obj[t] = s THEN 1 ELSE 0)

\* No unit is lost or made by semaphore_up, semaphore_down and the hand-over
\* between them: the free units and the units held add up to what the clients
\* put into circulation.
SemaphoreUnits ==
    \A s \in CreatedSems :
        (IF count[s] > 0 THEN count[s] ELSE 0)
            + MapThenSumSet(LAMBDA t : Held(t, s), Tids) = units[s]

(***************************************************************************)
(* Deadlock, stated on who really holds what                               *)
(***************************************************************************)
\* t cannot go on before mutex m, or semaphore s, is released to it.
NeedsMutex(t, m) == Asleep(t, "mutex", m) \/ (pc[t] = "spin" /\ obj[t] = m /\ locked[m] # 0)
NeedsSem(t, s) == Asleep(t, "sem", s)

\* Everybody in D waits for something that only members of D can release.
Stuck(D) ==
    \A t \in D :
        \/ \E m \in Mutexes : NeedsMutex(t, m) /\ Granted(m) \subseteq D
        \/ \E s \in Semaphores :
              NeedsSem(t, s) /\ \A u \in Tids : Held(u, s) > 0 => u \in D

Deadlocked == \E D \in SUBSET Tids : D # {} /\ Stuck(D)

\* While detection is enabled no step takes the process into a deadlock.
DetectionPreventsDeadlock ==
    [][detect # 0 /\ detect' # 0 /\ ~Deadlocked => ~Deadlocked']_vars

\* With t waiting for m as well, some set of threads would be stuck.
WouldDeadlock(t, m) ==
    \E D \in SUBSET Tids : D # {} /\ \A u \in D : \E x \in Mutexes :
        /\ Asleep(u, "mutex", x) \/ (u = t /\ x = m /\ locked[m] # 0)
        /\ Granted(x) \subseteq D

\* For mutexes the detector is exact: sys_mutex_lock is refused when waiting
\* would deadlock the process, and only then.
DetectorExact ==
    \A t \in Tids, m \in CreatedBlocking :
        Running(t) => (RefuseLock(t, m) <=> WouldDeadlock(t, m))

\* Reference definition of the banker's test: some set of unfinished threads
\* cannot be served even if every other thread finishes.
BankerDeadlock(mr, sr) ==
    \E D \in SUBSET (Tids \ Finished) :
        D # {} /\ \A i \in D : ~Possible(i, Tids \ D, mr, sr)

\* The detector's rounds in tid order reach the same verdict as the reference,
\* for every request any thread could make.
DetectorIsBanker ==
    /\ \A t \in Tids, m \in Mutexes :
          RefuseLock(t, m) <=> BankerDeadlock([mReq EXCEPT ![m] = @ \cup {t}], sReq)
    /\ \A t \in Tids, s \in Semaphores :
          RefuseDown(t, s) <=> BankerDeadlock(mReq, [sReq EXCEPT ![s] = @ \cup {t}])

\* A thread waiting for a blocking mutex, or woken inside cond_wait and on its
\* way to take the mutex again, returns from its call.
WaiterServed ==
    \A t \in Tids :
        (pc[t] = "mutex" \/ Woken(t, "cond")) ~> pc[t] = "user"

(***************************************************************************)
(* Inductive strengthenings, used by the proofs                            *)
(***************************************************************************)
\* The main thread never stays EXITED, a process without it has no thread, and
\* a thread inside a call waits for an object that the process has created.
ThreadInv ==
    /\ tstate[0] # "EXITED"
    /\ ~Alive => \A t \in Tids : tstate[t] = "T_UNUSED"
    /\ \A t \in Tids :
          /\ pc[t] # "user" => tstate[t] \in {"RUNNABLE", "SLEEPING"}
          /\ tstate[t] = "SLEEPING" => pc[t] \in {"mutex", "sem", "cond"}
          /\ pc[t] \in {"mutex", "spin"} => obj[t] < nextMutex
          /\ pc[t] = "mutex" => blocking[obj[t]] # 0
          /\ pc[t] = "sem" => obj[t] < nextSem
          /\ pc[t] = "cond" => obj[t] < nextCond /\ mtx[t] < nextMutex

\* The queues of created objects hold their sleepers.
QueueInv ==
    /\ \A m \in CreatedBlocking : QueueOf(mqueue[m], "mutex", m)
    /\ \A s \in CreatedSems : QueueOf(squeue[s], "sem", s)
    /\ \A c \in CreatedConds : QueueOf(cqueue[c], "cond", c)

WaitInv == ThreadInv /\ QueueInv

\* A mutex belongs to at most one thread, only while it is locked, and only
\* once it has been created.
OwnerInv ==
    \A m \in Mutexes :
        /\ \A t, u \in Granted(m) : t = u
        /\ Granted(m) # {} => locked[m] # 0 /\ Alive /\ m < nextMutex

\* The detector's columns for mutexes, created or not yet.
DetectorInv ==
    Alive => \A m \in Mutexes :
        /\ mAlloc[m] = Granted(m)
        /\ mReq[m] = Sleepers("mutex", m)
=============================================================================
