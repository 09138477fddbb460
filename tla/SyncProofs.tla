----------------------------- MODULE SyncProofs -----------------------------
(***************************************************************************)
(* Types, wait queues and semaphores of Sync, for every number of threads  *)
(* and objects and for clients that call anything; then mutexes and the    *)
(* deadlock detector.                                                      *)
(*                                                                         *)
(* WaitersQueued is not inductive by itself: that a new object starts with *)
(* nobody asleep on it, and that a thread inside a call waits for an       *)
(* object that exists, is ThreadInv; the queues themselves are QueueInv.   *)
(* With semaphores created at a non-negative count, the count tells the    *)
(* number of waiters, neither panic of the synchronisation code is         *)
(* reachable, and no unit is lost or made.                                 *)
(***************************************************************************)
EXTENDS SyncProps, FoldProofs, TLAPS

\* The initial state is well typed.
LEMMA TypeInit == Init => TypeOK
<1> SUFFICES ASSUME Init PROVE TypeOK
  OBVIOUS
<1> USE DEF Init
<1>1. TypeThreads
  BY DEF TypeThreads
<1>2. TypeMutexes
  BY PoolAssumption DEF TypeMutexes
<1>3. TypeSems
  BY PoolAssumption DEF TypeSems
<1>4. TypeConds
  BY PoolAssumption DEF TypeConds
<1> QED
  BY <1>1, <1>2, <1>3, <1>4 DEF TypeOK

\* Setting one cell of a matrix of naturals leaves such a matrix.
LEMMA SetCell ==
  ASSUME NEW S, NEW T, NEW f \in [S -> [T -> Nat]], NEW s, NEW t, NEW n,
         s \in S /\ t \in T => n \in Nat
  PROVE  [f EXCEPT ![s][t] = n] \in [S -> [T -> Nat]]
<1> DEFINE g == [f EXCEPT ![s][t] = n]
<1>1. ASSUME NEW x \in S PROVE g[x] \in [T -> Nat]
  <2>1. CASE x = s
    <3>1. g[x] = [f[x] EXCEPT ![t] = n]
      BY <2>1
    <3>2. f[x] \in [T -> Nat]
      OBVIOUS
    <3>3. t \in T => n \in Nat
      BY <2>1
    <3> HIDE DEF g
    <3> QED
      BY <3>1, <3>2, <3>3
  <2>2. CASE x # s
    BY <2>2
  <2> QED
    BY <2>1, <2>2
<1>2. g = [x \in S |-> g[x]]
  OBVIOUS
<1> HIDE DEF g
<1>3. g \in [S -> [T -> Nat]]
  BY <1>1, <1>2
<1> QED
  BY <1>3 DEF g

\* Replacing one queue leaves a function to queues.
LEMMA SetQueue ==
  ASSUME NEW S, NEW f \in [S -> Seq(Tids)], NEW x, NEW q \in Seq(Tids)
  PROVE  [f EXCEPT ![x] = q] \in [S -> Seq(Tids)]
  OBVIOUS

\* The empty queue is a queue of threads.
LEMMA EmptyQueue == <<>> \in Seq(Tids)
  OBVIOUS

\* push_queue's overflow test is a truth value.
LEMMA OverflowsBoolean == ASSUME NEW q PROVE Overflows(q) \in BOOLEAN
  BY Zenon DEF Overflows

\* mutex_lock keeps the types of what it touches.
LEMMA LockType ==
  ASSUME TypeOK, NEW t \in Tids, NEW m \in Mutexes, NEW mr \in [Mutexes -> SUBSET Tids],
         mutex_lock(t, m, mr), UNCHANGED <<mtx, nextMutex, blocking>>
  PROVE  TypeThreads' /\ TypeMutexes' /\ panicked' \in BOOLEAN
<1> USE DEF TypeOK
<1>0. m \in Nat
  BY PoolAssumption DEF Mutexes
<1>1. CASE lock_free(t, m, mr)
  <2>1. TypeThreads'
    BY <1>1 DEF lock_free, TypeThreads, Return
  <2>2. TypeMutexes'
    BY <1>1 DEF lock_free, TypeMutexes
  <2> QED
    BY <1>1, <2>1, <2>2 DEF lock_free
<1>2. CASE lock_spin(t, m, mr)
  <2>1. TypeThreads'
    BY <1>0, <1>2 DEF lock_spin, TypeThreads, Suspend
  <2>2. TypeMutexes'
    BY <1>2 DEF lock_spin, TypeMutexes
  <2> QED
    BY <1>2, <2>1, <2>2 DEF lock_spin
<1>3. CASE lock_block(t, m, mr)
  <2>1. TypeThreads'
    BY <1>0, <1>3 DEF lock_block, TypeThreads, Suspend
  <2>2. TypeMutexes'
    BY <1>3 DEF lock_block, TypeMutexes
  <2>3. panicked' \in BOOLEAN
    BY <1>3, OverflowsBoolean DEF lock_block
  <2> QED
    BY <2>1, <2>2, <2>3
<1> QED
  BY <1>1, <1>2, <1>3 DEF mutex_lock

\* mutex_unlock keeps the types of what it touches.
LEMMA UnlockType ==
  ASSUME TypeOK, NEW t \in Tids, NEW m \in Mutexes, mutex_unlock(t, m), UNCHANGED <<nextMutex, blocking>>
  PROVE  TypeMutexes' /\ NextOwner(m) \subseteq Tids
<1>1. NextOwner(m) \subseteq Tids
  BY DEF NextOwner, TypeOK, TypeMutexes
<1>2. LockedAfter(m) \in {0, 1}
  BY DEF LockedAfter, TypeOK, TypeMutexes
<1>3. AllocAfter(t, m) \subseteq Tids
  BY <1>1 DEF AllocAfter, TypeOK, TypeMutexes
<1>4. NextOwner(m) # {} => mqueue[m] # <<>>
  BY DEF NextOwner
<1>5. mqueue' \in [Mutexes -> Seq(Tids)]
  BY <1>4 DEF mutex_unlock, TypeOK, TypeMutexes
<1>6. holders' \in [Mutexes -> SUBSET Tids] /\ mReq' \in [Mutexes -> SUBSET Tids]
  BY DEF mutex_unlock, TypeOK, TypeMutexes
<1> QED
  BY <1>1, <1>2, <1>3, <1>5, <1>6 DEF mutex_unlock, TypeOK, TypeMutexes

\* Every step keeps the types: one case per action.
LEMMA TypeNext == TypeOK /\ [Next]_vars => TypeOK'
<1> SUFFICES ASSUME TypeOK, [Next]_vars PROVE TypeOK'
  OBVIOUS
<1> USE DEF TypeOK, threadVars, mutexVars, semVars, condVars
<1>1. ASSUME NEW t \in Tids, mutex_resume(t) PROVE TypeOK'
  <2>1. TypeThreads'
    BY <1>1 DEF mutex_resume, Return, TypeThreads
  <2>2. TypeMutexes'
    BY <1>1 DEF mutex_resume, TypeMutexes
  <2> QED
    BY <1>1, <2>1, <2>2 DEF mutex_resume, TypeSems, TypeConds
<1>2. ASSUME NEW t \in Tids, spin_retry(t) PROVE TypeOK'
  <2>1. TypeThreads'
    BY <1>2 DEF spin_retry, Return, TypeThreads
  <2>2. TypeMutexes'
    BY <1>2 DEF spin_retry, TypeMutexes
  <2> QED
    BY <1>2, <2>1, <2>2 DEF spin_retry, TypeSems, TypeConds
<1>3. ASSUME NEW t \in Tids, semaphore_resume(t) PROVE TypeOK'
  <2> DEFINE s == obj[t]
  <2>0. s \in Semaphores
    BY <1>3 DEF semaphore_resume, Woken, TypeThreads
  <2>1. TypeThreads'
    BY <1>3 DEF semaphore_resume, Return, TypeThreads
  <2>2. sAlloc' \in [Semaphores -> [Tids -> Nat]] /\ sheld' \in [Semaphores -> [Tids -> Nat]]
    <3>1. sAlloc[s][t] + 1 \in Nat /\ sheld[s][t] + 1 \in Nat
      BY <2>0 DEF TypeSems
    <3>2. /\ sAlloc' = [sAlloc EXCEPT ![s][t] = sAlloc[s][t] + 1]
          /\ sheld' = [sheld EXCEPT ![s][t] = sheld[s][t] + 1]
      BY <1>3 DEF semaphore_resume
    <3> QED
      BY <3>1, <3>2, SetCell DEF TypeSems
  <2>3. TypeSems'
    BY <1>3, <2>2 DEF semaphore_resume, TypeSems
  <2> QED
    BY <1>3, <2>1, <2>3 DEF semaphore_resume, TypeMutexes, TypeConds
<1>4. ASSUME NEW t \in Tids, condvar_resume(t) PROVE TypeOK'
  <2>1. mtx[t] \in Mutexes
    BY <1>4 DEF condvar_resume, Woken, TypeThreads
  <2>2. mReq \in [Mutexes -> SUBSET Tids]
    BY DEF TypeMutexes
  <2>3. TypeThreads' /\ TypeMutexes' /\ panicked' \in BOOLEAN
    BY <1>4, <2>1, <2>2, LockType DEF condvar_resume
  <2> QED
    BY <1>4, <2>3 DEF condvar_resume, TypeSems, TypeConds
<1>5. ASSUME NEW t \in Tids, NEW b \in BLOCKING_ARGS, sys_mutex_create(t, b) PROVE TypeOK'
  <2>1. b \in {0, 1} /\ nextMutex \in Mutexes /\ nextMutex + 1 \in 0 .. NMUTEX
    BY <1>5, PoolAssumption, ClientAssumption DEF sys_mutex_create, TypeMutexes, Mutexes
  <2>2. mqueue' \in [Mutexes -> Seq(Tids)]
    BY <1>5, SetQueue, EmptyQueue DEF sys_mutex_create, TypeMutexes, init_queue
  <2>3. TypeMutexes'
    BY <1>5, <2>1, <2>2 DEF sys_mutex_create, TypeMutexes
  <2> QED
    BY <1>5, <2>3 DEF sys_mutex_create, TypeThreads, TypeSems, TypeConds
<1>6. ASSUME NEW t \in Tids, NEW m \in Mutexes, sys_mutex_lock(t, m) PROVE TypeOK'
  <2> DEFINE mr == IF detect # 0 THEN [mReq EXCEPT ![m] = @ \ {t}] ELSE mReq
  <2>1. mr \in [Mutexes -> SUBSET Tids]
    BY DEF TypeMutexes
  <2>2. CASE mutex_lock(t, m, mr)
    <3> HIDE DEF mr
    <3>1. UNCHANGED <<mtx, nextMutex, blocking>>
      BY <1>6 DEF sys_mutex_lock
    <3>2. TypeThreads' /\ TypeMutexes' /\ panicked' \in BOOLEAN
      BY <2>1, <2>2, <3>1, LockType
    <3> QED
      BY <1>6, <3>2 DEF sys_mutex_lock, TypeSems, TypeConds
  <2>3. CASE /\ mReq' = mr
             /\ UNCHANGED <<tstate, pc, obj, locked, mqueue, mAlloc, holders, panicked>>
    BY <1>6, <2>1, <2>3 DEF sys_mutex_lock, TypeThreads, TypeMutexes, TypeSems, TypeConds
  <2> QED
    BY <1>6, <2>2, <2>3 DEF sys_mutex_lock
<1>7. ASSUME NEW t \in Tids, NEW m \in Mutexes, sys_mutex_unlock(t, m) PROVE TypeOK'
  <2>1. TypeMutexes' /\ NextOwner(m) \subseteq Tids
    BY <1>7, UnlockType DEF sys_mutex_unlock
  <2>2. TypeThreads'
    BY <1>7, <2>1 DEF sys_mutex_unlock, Wake, TypeThreads
  <2> QED
    BY <1>7, <2>1, <2>2 DEF sys_mutex_unlock, TypeSems, TypeConds
<1>8. ASSUME NEW t \in Tids, NEW n \in SEM_COUNTS, sys_semaphore_create(t, n) PROVE TypeOK'
  <2>1. n \in Int /\ nextSem \in Semaphores /\ nextSem + 1 \in 0 .. NSEM
    BY <1>8, PoolAssumption, ClientAssumption DEF sys_semaphore_create, TypeSems, Semaphores
  <2>2. squeue' \in [Semaphores -> Seq(Tids)]
    BY <1>8, SetQueue, EmptyQueue DEF sys_semaphore_create, TypeSems, init_queue
  <2>3. TypeSems'
    BY <1>8, <2>1, <2>2 DEF sys_semaphore_create, TypeSems
  <2> QED
    BY <1>8, <2>3 DEF sys_semaphore_create, TypeThreads, TypeMutexes, TypeConds
<1>9. ASSUME NEW t \in Tids, NEW s \in Semaphores, sys_semaphore_up(t, s) PROVE TypeOK'
  <2> DEFINE al == [sAlloc EXCEPT ![s][t] = Released(@)]
  <2>1. Released(sAlloc[s][t]) \in Nat /\ Released(sheld[s][t]) \in Nat
    <3>1. sAlloc[s][t] \in Nat /\ sheld[s][t] \in Nat
      BY DEF TypeSems
    <3> QED
      BY <3>1 DEF Released
  <2>2. al \in [Semaphores -> [Tids -> Nat]]
    BY <2>1, SetCell DEF TypeSems
  <2>3. sheld' \in [Semaphores -> [Tids -> Nat]]
    BY <1>9, <2>1, SetCell DEF sys_semaphore_up, TypeSems
  <2>4. count' \in [Semaphores -> Int]
    BY <1>9 DEF sys_semaphore_up, TypeSems
  <2>5. up_free(s, al) \/ up_wake(s, al) \/ up_panic(s, al)
    BY <1>9 DEF sys_semaphore_up
  <2> HIDE DEF al
  <2>6. /\ squeue' \in [Semaphores -> Seq(Tids)]
        /\ sAlloc' \in [Semaphores -> [Tids -> Nat]]
        /\ sReq' \in [Semaphores -> SUBSET Tids]
        /\ tstate' \in [Tids -> {"T_UNUSED", "RUNNABLE", "SLEEPING", "EXITED"}]
        /\ panicked' \in BOOLEAN
    <3>1. CASE up_free(s, al)
      BY <2>2, <3>1 DEF up_free, TypeSems, TypeThreads
    <3>2. CASE up_wake(s, al)
      <4> DEFINE w == Head(squeue[s])
      <4>1. w \in Tids
        BY <3>2 DEF up_wake, TypeSems
      <4>2. al[s][w] + 1 \in Nat
        BY <2>2, <4>1
      <4>3. sAlloc' = [al EXCEPT ![s][w] = al[s][w] + 1]
        BY <3>2 DEF up_wake
      <4>4. sAlloc' \in [Semaphores -> [Tids -> Nat]]
        BY <2>2, <4>2, <4>3, SetCell
      <4>5. squeue' \in [Semaphores -> Seq(Tids)]
        BY <3>2 DEF up_wake, TypeSems
      <4>6. sReq' \in [Semaphores -> SUBSET Tids]
        BY <3>2 DEF up_wake, TypeSems
      <4> QED
        BY <3>2, <4>4, <4>5, <4>6 DEF up_wake, Wake, TypeThreads
    <3>3. CASE up_panic(s, al)
      BY <2>2, <3>3 DEF up_panic, TypeSems, TypeThreads
    <3> QED
      BY <2>5, <3>1, <3>2, <3>3
  <2>9. units' \in [Semaphores -> Int]
    BY <1>9 DEF sys_semaphore_up, TypeSems
  <2>7. TypeSems'
    BY <1>9, <2>3, <2>4, <2>6, <2>9 DEF sys_semaphore_up, TypeSems
  <2>8. TypeThreads'
    BY <1>9, <2>6 DEF sys_semaphore_up, TypeThreads
  <2> QED
    BY <1>9, <2>6, <2>7, <2>8 DEF sys_semaphore_up, TypeMutexes, TypeConds
<1>10. ASSUME NEW t \in Tids, NEW s \in Semaphores, sys_semaphore_down(t, s) PROVE TypeOK'
  <2> DEFINE sr == IF detect # 0 THEN [sReq EXCEPT ![s] = @ \ {t}] ELSE sReq
  <2>1. sr \in [Semaphores -> SUBSET Tids]
    BY DEF TypeSems
  <2>2. CASE semaphore_down(t, s, sr)
    <3> HIDE DEF sr
    <3>0. s \in Nat
      BY PoolAssumption DEF Semaphores
    <3>1. count' \in [Semaphores -> Int]
      BY <2>2 DEF semaphore_down, TypeSems
    <3>2. CASE down_free(t, s, sr)
      <4>1. sAlloc[s][t] + 1 \in Nat /\ sheld[s][t] + 1 \in Nat
        BY DEF TypeSems
      <4>2. /\ sAlloc' = [sAlloc EXCEPT ![s][t] = sAlloc[s][t] + 1]
            /\ sheld' = [sheld EXCEPT ![s][t] = sheld[s][t] + 1]
        BY <3>2 DEF down_free
      <4>3. /\ sAlloc' \in [Semaphores -> [Tids -> Nat]]
            /\ sheld' \in [Semaphores -> [Tids -> Nat]]
        BY <4>1, <4>2, SetCell DEF TypeSems
      <4>4. TypeSems'
        BY <1>10, <2>1, <3>1, <3>2, <4>3 DEF sys_semaphore_down, down_free, TypeSems
      <4> QED
        BY <1>10, <3>2, <4>4
        DEF sys_semaphore_down, down_free, TypeThreads, TypeMutexes, TypeConds
    <3>3. CASE down_wait(t, s, sr)
      <4>1. squeue' \in [Semaphores -> Seq(Tids)] /\ sReq' \in [Semaphores -> SUBSET Tids]
        BY <2>1, <3>3 DEF down_wait, TypeSems
      <4>2. TypeSems'
        BY <1>10, <3>1, <3>3, <4>1 DEF sys_semaphore_down, down_wait, TypeSems
      <4>3. TypeThreads'
        BY <1>10, <3>0, <3>3 DEF sys_semaphore_down, down_wait, Suspend, TypeThreads
      <4>4. panicked' \in BOOLEAN
        BY <3>3, OverflowsBoolean DEF down_wait
      <4> QED
        BY <1>10, <4>2, <4>3, <4>4 DEF sys_semaphore_down, TypeMutexes, TypeConds
    <3> QED
      BY <2>2, <3>2, <3>3 DEF semaphore_down
  <2>3. CASE /\ sReq' = sr
             /\ UNCHANGED <<tstate, pc, obj, count, squeue, sAlloc, sheld, panicked>>
    BY <1>10, <2>1, <2>3 DEF sys_semaphore_down, TypeThreads, TypeMutexes, TypeSems, TypeConds
  <2> QED
    BY <1>10, <2>2, <2>3 DEF sys_semaphore_down
<1>11. ASSUME NEW t \in Tids, sys_condvar_create(t) PROVE TypeOK'
  <2>1. nextCond + 1 \in 0 .. NCOND
    BY <1>11, PoolAssumption DEF sys_condvar_create, TypeConds
  <2>2. TypeConds'
    BY <1>11, <2>1, SetQueue, EmptyQueue DEF sys_condvar_create, TypeConds, init_queue
  <2> QED
    BY <1>11, <2>2 DEF sys_condvar_create, TypeThreads, TypeMutexes, TypeSems
<1>12. ASSUME NEW t \in Tids, NEW c \in Condvars, sys_condvar_signal(t, c) PROVE TypeOK'
  <2>1. CASE cqueue[c] = <<>>
    BY <1>12, <2>1 DEF sys_condvar_signal, TypeThreads, TypeMutexes, TypeSems, TypeConds
  <2>2. CASE cqueue[c] # <<>>
    <3>0. Tail(cqueue[c]) \in Seq(Tids)
      BY <2>2 DEF TypeConds
    <3>1. TypeConds'
      BY <1>12, <2>2, <3>0, SetQueue DEF sys_condvar_signal, TypeConds
    <3>2. TypeThreads'
      BY <1>12, <2>2 DEF sys_condvar_signal, Wake, TypeThreads
    <3> QED
      BY <1>12, <3>1, <3>2 DEF sys_condvar_signal, TypeMutexes, TypeSems
  <2> QED
    BY <2>1, <2>2
<1>13. ASSUME NEW t \in Tids, NEW c \in Condvars, NEW m \in Mutexes, sys_condvar_wait(t, c, m)
       PROVE TypeOK'
  <2>0. c \in Nat /\ m \in Nat
    BY PoolAssumption DEF Condvars, Mutexes
  <2>1. TypeMutexes'
    BY <1>13, UnlockType DEF sys_condvar_wait
  <2>2. TypeConds'
    BY <1>13 DEF sys_condvar_wait, TypeConds
  <2>3. TypeThreads'
    BY <1>13, <2>0 DEF sys_condvar_wait, Wake, Suspend, TypeThreads
  <2>4. panicked' \in BOOLEAN
    BY <1>13, OverflowsBoolean DEF sys_condvar_wait
  <2> QED
    BY <1>13, <2>1, <2>2, <2>3, <2>4 DEF sys_condvar_wait, TypeSems
<1>14. ASSUME NEW t \in Tids, NEW e \in DETECT_ARGS, sys_enable_deadlock_detect(t, e)
       PROVE TypeOK'
  BY <1>14, ClientAssumption
  DEF sys_enable_deadlock_detect, TypeThreads, TypeMutexes, TypeSems, TypeConds
<1>15. ASSUME NEW t \in Tids, sys_thread_create(t) PROVE TypeOK'
  <2>1. TypeThreads'
    BY <1>15 DEF sys_thread_create, TypeThreads
  <2> QED
    BY <1>15, <2>1 DEF sys_thread_create, TypeMutexes, TypeSems, TypeConds
<1>16. ASSUME NEW t \in Tids, NEW u \in Tids, sys_waittid(t, u) PROVE TypeOK'
  BY <1>16 DEF sys_waittid, TypeThreads, TypeMutexes, TypeSems, TypeConds
<1>17. ASSUME NEW t \in Tids, exit_thread(t) PROVE TypeOK'
  <2>1. TypeThreads'
    BY <1>17 DEF exit_thread, TypeThreads
  <2>2. TypeMutexes'
    BY <1>17 DEF exit_thread, TypeMutexes
  <2>3. TypeSems'
    <3>1. \A s \in Semaphores : [sheld[s] EXCEPT ![t] = 0] \in [Tids -> Nat]
      BY DEF TypeSems
    <3>2. sheld' \in [Semaphores -> [Tids -> Nat]]
      BY <1>17, <3>1 DEF exit_thread
    <3> QED
      BY <1>17, <3>2 DEF exit_thread, TypeSems
  <2> QED
    BY <1>17, <2>1, <2>2, <2>3 DEF exit_thread, TypeConds
<1>18. CASE exit_process
  <2>1. TypeThreads'
    BY <1>18 DEF exit_process, TypeThreads
  <2>2. TypeMutexes'
    BY <1>18 DEF exit_process, TypeMutexes
  <2>3. TypeSems'
    BY <1>18 DEF exit_process, TypeSems
  <2> QED
    BY <1>18, <2>1, <2>2, <2>3 DEF exit_process, TypeConds
<1>19. CASE allocproc
  <2>1. TypeThreads'
    BY <1>19 DEF allocproc, TypeThreads
  <2>2. TypeMutexes'
    BY <1>19, PoolAssumption DEF allocproc, TypeMutexes
  <2>3. TypeSems'
    BY <1>19, PoolAssumption DEF allocproc, TypeSems
  <2>4. TypeConds'
    BY <1>19, PoolAssumption DEF allocproc, TypeConds
  <2> QED
    BY <1>19, <2>1, <2>2, <2>3, <2>4 DEF allocproc
<1>20. CASE UNCHANGED vars
  BY <1>20 DEF vars, TypeThreads, TypeMutexes, TypeSems, TypeConds
<1> QED
  BY <1>1, <1>2, <1>3, <1>4, <1>5, <1>6, <1>7, <1>8, <1>9, <1>10, <1>11, <1>12,
     <1>13, <1>14, <1>15, <1>16, <1>17, <1>18, <1>19, <1>20
  DEF Next, Resume, MutexCall, SemCall, CondCall, ThreadCall

\* Every variable keeps its type, for any number of threads and objects; in
\* particular semaphore_up never drives a sem_allocation entry below zero
\* (the guard at sync.c line 116).
THEOREM TypeCorrect == Spec => []TypeOK
  BY TypeInit, TypeNext, PTL DEF Spec

\* The initial state has one running thread, in user code.
LEMMA ThreadInit == Init => ThreadInv
<1> SUFFICES ASSUME Init PROVE ThreadInv
  OBVIOUS
<1>1. 0 \in Tids
  BY PoolAssumption DEF Tids
<1>2. tstate[0] = "RUNNABLE" /\ \A t \in Tids : pc[t] = "user" /\ tstate[t] # "SLEEPING"
  BY <1>1 DEF Init
<1> QED
  BY <1>2 DEF ThreadInv, Alive

\* mutex_lock leaves its caller running, spinning or queued on m.
LEMMA LockThread ==
  ASSUME TypeOK, ThreadInv, NEW t \in Tids, NEW m \in Mutexes, NEW mr,
         m < nextMutex, tstate[t] = "RUNNABLE", mutex_lock(t, m, mr),
         UNCHANGED <<mtx, nextMutex, blocking, nextSem, nextCond>>
  PROVE  ThreadInv'
<1> USE DEF TypeOK, TypeThreads, ThreadInv, Alive
<1>0. 0 \in Tids
  BY PoolAssumption DEF Tids
<1>1. CASE lock_free(t, m, mr)
  BY <1>0, <1>1 DEF lock_free, Return
<1>2. CASE lock_spin(t, m, mr)
  BY <1>0, <1>2 DEF lock_spin, Suspend
<1>3. CASE lock_block(t, m, mr)
  BY <1>0, <1>3 DEF lock_block, Suspend
<1> QED
  BY <1>1, <1>2, <1>3 DEF mutex_lock

\* Every step keeps the threads' states, calls and objects consistent.
LEMMA ThreadNext == TypeOK /\ ThreadInv /\ [Next]_vars => ThreadInv'
<1> SUFFICES ASSUME TypeOK, ThreadInv, [Next]_vars PROVE ThreadInv'
  OBVIOUS
<1> USE DEF TypeOK, TypeThreads, ThreadInv, Alive, threadVars, mutexVars, semVars, condVars
<1>0. 0 \in Tids
  BY PoolAssumption DEF Tids
<1>1. ASSUME NEW t \in Tids, mutex_resume(t) PROVE ThreadInv'
  BY <1>0, <1>1 DEF mutex_resume, Woken, Return
<1>2. ASSUME NEW t \in Tids, spin_retry(t) PROVE ThreadInv'
  BY <1>0, <1>2 DEF spin_retry, Woken, Return
<1>3. ASSUME NEW t \in Tids, semaphore_resume(t) PROVE ThreadInv'
  BY <1>0, <1>3 DEF semaphore_resume, Woken, Return
<1>4. ASSUME NEW t \in Tids, condvar_resume(t) PROVE ThreadInv'
  <2>1. mtx[t] \in Mutexes /\ mtx[t] < nextMutex /\ tstate[t] = "RUNNABLE"
    BY <1>4 DEF condvar_resume, Woken
  <2> QED
    BY <1>4, <2>1, LockThread DEF condvar_resume
<1>5. ASSUME NEW t \in Tids, NEW b \in BLOCKING_ARGS, sys_mutex_create(t, b) PROVE ThreadInv'
  <2>1. nextMutex' = nextMutex + 1 /\ nextMutex \in Nat
    BY <1>5, PoolAssumption DEF sys_mutex_create, TypeMutexes
  <2>2. \A u \in Tids : pc[u] = "mutex" => blocking'[obj[u]] # 0
    BY <1>5, <2>1 DEF sys_mutex_create, TypeMutexes
  <2> QED
    BY <1>0, <1>5, <2>1, <2>2 DEF sys_mutex_create
<1>6. ASSUME NEW t \in Tids, NEW m \in Mutexes, sys_mutex_lock(t, m) PROVE ThreadInv'
  <2> DEFINE mr == IF detect # 0 THEN [mReq EXCEPT ![m] = @ \ {t}] ELSE mReq
  <2>1. CASE mutex_lock(t, m, mr)
    <3> HIDE DEF mr
    <3> QED
      BY <1>6, <2>1, LockThread DEF sys_mutex_lock, Running
  <2>2. CASE UNCHANGED <<tstate, pc, obj>>
    BY <1>6, <2>2 DEF sys_mutex_lock
  <2> QED
    BY <1>6, <2>1, <2>2 DEF sys_mutex_lock
<1>7. ASSUME NEW t \in Tids, NEW m \in Mutexes, sys_mutex_unlock(t, m) PROVE ThreadInv'
  BY <1>0, <1>7 DEF sys_mutex_unlock, Running, Wake
<1>8. ASSUME NEW t \in Tids, NEW n \in SEM_COUNTS, sys_semaphore_create(t, n) PROVE ThreadInv'
  <2>1. nextSem' = nextSem + 1 /\ nextSem \in Nat
    BY <1>8, PoolAssumption DEF sys_semaphore_create, TypeSems
  <2> QED
    BY <1>0, <1>8, <2>1 DEF sys_semaphore_create
<1>9. ASSUME NEW t \in Tids, NEW s \in Semaphores, sys_semaphore_up(t, s) PROVE ThreadInv'
  <2>1. PICK S : tstate' = Wake(S) \/ tstate' = tstate
    BY <1>9 DEF sys_semaphore_up, up_free, up_wake, up_panic
  <2>2. CASE tstate' = Wake(S)
    BY <1>0, <1>9, <2>2 DEF sys_semaphore_up, Running, Wake
  <2>3. CASE tstate' = tstate
    BY <1>9, <2>3 DEF sys_semaphore_up
  <2> QED
    BY <2>1, <2>2, <2>3
<1>10. ASSUME NEW t \in Tids, NEW s \in Semaphores, sys_semaphore_down(t, s) PROVE ThreadInv'
  <2>1. CASE UNCHANGED <<tstate, pc, obj>>
    BY <1>10, <2>1 DEF sys_semaphore_down
  <2>2. CASE tstate' = [tstate EXCEPT ![t] = "SLEEPING"] /\ Suspend(t, "sem", s)
    BY <1>0, <1>10, <2>2 DEF sys_semaphore_down, Running, Suspend
  <2> QED
    BY <1>10, <2>1, <2>2 DEF sys_semaphore_down, semaphore_down, down_free, down_wait
<1>11. ASSUME NEW t \in Tids, sys_condvar_create(t) PROVE ThreadInv'
  <2>1. nextCond' = nextCond + 1 /\ nextCond \in Nat
    BY <1>11, PoolAssumption DEF sys_condvar_create, TypeConds
  <2> QED
    BY <1>0, <1>11, <2>1 DEF sys_condvar_create
<1>12. ASSUME NEW t \in Tids, NEW c \in Condvars, sys_condvar_signal(t, c) PROVE ThreadInv'
  <2>1. CASE cqueue[c] = <<>>
    BY <1>12, <2>1 DEF sys_condvar_signal
  <2>2. CASE cqueue[c] # <<>>
    BY <1>0, <1>12, <2>2 DEF sys_condvar_signal, Running, Wake
  <2> QED
    BY <2>1, <2>2
<1>13. ASSUME NEW t \in Tids, NEW c \in Condvars, NEW m \in Mutexes, sys_condvar_wait(t, c, m)
       PROVE ThreadInv'
  BY <1>0, <1>13 DEF sys_condvar_wait, Running, Wake, Suspend
<1>14. ASSUME NEW t \in Tids, NEW e \in DETECT_ARGS, sys_enable_deadlock_detect(t, e)
       PROVE ThreadInv'
  BY <1>14 DEF sys_enable_deadlock_detect
<1>15. ASSUME NEW t \in Tids, sys_thread_create(t) PROVE ThreadInv'
  BY <1>0, <1>15 DEF sys_thread_create, Running
<1>16. ASSUME NEW t \in Tids, NEW u \in Tids, sys_waittid(t, u) PROVE ThreadInv'
  BY <1>0, <1>16 DEF sys_waittid, Running
<1>17. ASSUME NEW t \in Tids, exit_thread(t) PROVE ThreadInv'
  BY <1>0, <1>17 DEF exit_thread, Running
<1>18. CASE exit_process
  BY <1>0, <1>18 DEF exit_process
<1>19. CASE allocproc
  <2>1. \A u \in Tids : pc[u] = "user"
    BY <1>19 DEF allocproc
  <2> QED
    BY <1>0, <1>19, <2>1 DEF allocproc
<1>20. CASE UNCHANGED vars
  BY <1>20 DEF vars
<1> QED
  BY <1>1, <1>2, <1>3, <1>4, <1>5, <1>6, <1>7, <1>8, <1>9, <1>10, <1>11, <1>12,
     <1>13, <1>14, <1>15, <1>16, <1>17, <1>18, <1>19, <1>20
  DEF Next, Resume, MutexCall, SemCall, CondCall, ThreadCall

\* Appending a new thread to a queue without repetitions.
LEMMA AppendQueue ==
  ASSUME NEW q \in Seq(Tids), NEW t \in Tids, t \notin ToSet(q), IsInjective(q)
  PROVE  /\ ToSet(Append(q, t)) = ToSet(q) \cup {t}
         /\ IsInjective(Append(q, t))
<1>1. ToSet(Append(q, t)) = ToSet(q) \cup {t}
  <2>1. \A i \in 1 .. Len(q) : Append(q, t)[i] = q[i]
    OBVIOUS
  <2>2. Append(q, t)[Len(q) + 1] = t /\ DOMAIN Append(q, t) = 1 .. Len(q) + 1
    OBVIOUS
  <2>3. DOMAIN q = 1 .. Len(q) /\ Len(q) \in Nat
    OBVIOUS
  <2>4. 1 .. Len(q) + 1 = (1 .. Len(q)) \cup {Len(q) + 1}
    BY <2>3
  <2> QED
    BY <2>1, <2>2, <2>3, <2>4 DEF ToSet
<1>2. IsInjective(Append(q, t))
  BY DEF IsInjective, ToSet
<1> QED
  BY <1>1, <1>2

\* Removing the head of a queue without repetitions.
LEMMA TailQueue ==
  ASSUME NEW q \in Seq(Tids), q # <<>>, IsInjective(q)
  PROVE  /\ Head(q) \in ToSet(q)
         /\ ToSet(Tail(q)) = ToSet(q) \ {Head(q)}
         /\ IsInjective(Tail(q))
<1>1. /\ DOMAIN q = 1 .. Len(q) /\ Len(q) \in Nat /\ Len(q) >= 1
      /\ Head(q) = q[1]
      /\ DOMAIN Tail(q) = 1 .. Len(q) - 1
      /\ \A i \in 1 .. Len(q) - 1 : Tail(q)[i] = q[i + 1]
  OBVIOUS
<1>2. Head(q) \in ToSet(q)
  BY <1>1 DEF ToSet
<1>3. ASSUME NEW x PROVE x \in ToSet(Tail(q)) <=> x \in ToSet(q) \ {Head(q)}
  <2>1. ASSUME x \in ToSet(Tail(q)) PROVE x \in ToSet(q) \ {Head(q)}
    <3>1. PICK i \in 1 .. Len(q) - 1 : x = q[i + 1]
      BY <1>1, <2>1 DEF ToSet
    <3>2. i + 1 \in 1 .. Len(q) /\ i + 1 # 1
      BY <1>1
    <3> QED
      BY <1>1, <3>1, <3>2 DEF ToSet, IsInjective
  <2>2. ASSUME x \in ToSet(q) \ {Head(q)} PROVE x \in ToSet(Tail(q))
    <3>1. PICK i \in 1 .. Len(q) : x = q[i] /\ i # 1
      BY <1>1, <2>2 DEF ToSet
    <3>2. i - 1 \in 1 .. Len(q) - 1 /\ Tail(q)[i - 1] = q[i]
      BY <1>1, <3>1
    <3> QED
      BY <1>1, <3>1, <3>2 DEF ToSet
  <2> QED
    BY <2>1, <2>2
<1>4. IsInjective(Tail(q))
  BY <1>1 DEF IsInjective
<1> QED
  BY <1>2, <1>3, <1>4

\* No thread falls asleep, wakes up or changes what it sleeps on.
SameSleep ==
    \A u \in Tids :
        /\ tstate'[u] = "SLEEPING" <=> tstate[u] = "SLEEPING"
        /\ tstate[u] = "SLEEPING" => pc'[u] = pc[u] /\ obj'[u] = obj[u]

\* Steps that leave sleepers and queues alone, and create nothing.
LEMMA QueueFrame ==
  ASSUME QueueInv, SameSleep, UNCHANGED <<mqueue, squeue, cqueue>>,
         CreatedBlocking' \subseteq CreatedBlocking,
         CreatedSems' \subseteq CreatedSems, CreatedConds' \subseteq CreatedConds
  PROVE  QueueInv'
<1>1. \A c, o : Sleepers(c, o)' = Sleepers(c, o)
  BY DEF SameSleep, Sleepers, Asleep
<1> QED
  BY <1>1 DEF QueueInv, QueueOf

\* A running thread is in nobody's queue.
LEMMA RunningNotQueued ==
  ASSUME NEW t, tstate[t] = "RUNNABLE", NEW q, NEW c, NEW o, QueueOf(q, c, o)
  PROVE  t \notin ToSet(q)
  BY DEF QueueOf, Sleepers, Asleep

\* mutex_lock keeps the queues.
LEMMA LockQueue ==
  ASSUME TypeOK, QueueInv, NEW t \in Tids, NEW m \in Mutexes, NEW mr,
         m < nextMutex, Alive, Alive', tstate[t] = "RUNNABLE", mutex_lock(t, m, mr),
         UNCHANGED <<nextMutex, blocking, nextSem, squeue, nextCond, cqueue>>
  PROVE  QueueInv'
<1>0. /\ CreatedBlocking' = CreatedBlocking
      /\ CreatedSems' = CreatedSems /\ CreatedConds' = CreatedConds
  BY DEF CreatedBlocking, CreatedSems, CreatedConds
<1>1. CASE lock_free(t, m, mr)
  <2>1. SameSleep
    BY <1>1 DEF lock_free, Return, SameSleep, TypeOK, TypeThreads
  <2> QED
    BY <1>0, <1>1, <2>1, QueueFrame DEF lock_free
<1>2. CASE lock_spin(t, m, mr)
  <2>1. SameSleep
    BY <1>2 DEF lock_spin, Suspend, SameSleep, TypeOK, TypeThreads
  <2> QED
    BY <1>0, <1>2, <2>1, QueueFrame DEF lock_spin
<1>3. CASE lock_block(t, m, mr)
  <2>1. \A c, o : Sleepers(c, o)' =
            IF c = "mutex" /\ o = m THEN Sleepers(c, o) \cup {t} ELSE Sleepers(c, o)
    <3>1. tstate' = [tstate EXCEPT ![t] = "SLEEPING"] /\ Suspend(t, "mutex", m)
      BY <1>3 DEF lock_block
    <3> QED
      BY <3>1 DEF Sleepers, Asleep, Suspend, TypeOK, TypeThreads
  <2>2. m \in CreatedBlocking /\ mqueue[m] \in Seq(Tids)
    BY <1>3 DEF lock_block, CreatedBlocking, TypeOK, TypeMutexes
  <2>3. QueueOf(mqueue[m], "mutex", m)
    BY <2>2 DEF QueueInv
  <2>4. t \notin ToSet(mqueue[m]) /\ IsInjective(mqueue[m])
    BY <2>3, RunningNotQueued DEF QueueOf
  <2>5. /\ ToSet(Append(mqueue[m], t)) = Sleepers("mutex", m)'
        /\ IsInjective(Append(mqueue[m], t))
    BY <2>1, <2>2, <2>3, <2>4, AppendQueue DEF QueueOf
  <2>6. \A x \in Mutexes : mqueue'[x] = IF x = m THEN Append(mqueue[m], t) ELSE mqueue[x]
    BY <1>3 DEF lock_block, TypeOK, TypeMutexes
  <2>7. \A x \in CreatedBlocking : QueueOf(mqueue[x], "mutex", x)'
    <3> TAKE x \in CreatedBlocking
    <3>1. x \in Mutexes
      BY DEF CreatedBlocking
    <3>2. CASE x = m
      BY <2>5, <2>6, <3>1, <3>2 DEF QueueOf
    <3>3. CASE x # m
      BY <2>1, <2>6, <3>1, <3>3 DEF QueueInv, QueueOf
    <3> QED
      BY <3>2, <3>3
  <2> QED
    BY <1>0, <2>1, <2>7 DEF QueueInv, QueueOf
<1> QED
  BY <1>1, <1>2, <1>3 DEF mutex_lock

\* The waiter that mutex_unlock picks, and the queue it leaves behind.
LEMMA UnlockQueue ==
  ASSUME TypeOK, QueueInv, Alive, NEW m \in Mutexes, m < nextMutex
  PROVE  \/ /\ NextOwner(m) = {}
            /\ m \in CreatedBlocking => mqueue[m] = <<>>
         \/ \E w \in Tids :
            /\ NextOwner(m) = {w} /\ m \in CreatedBlocking
            /\ Asleep(w, "mutex", m)
            /\ ToSet(Tail(mqueue[m])) = Sleepers("mutex", m) \ {w}
            /\ IsInjective(Tail(mqueue[m]))
<1>1. CASE blocking[m] # 0 /\ mqueue[m] # <<>>
  <2>1. m \in CreatedBlocking /\ mqueue[m] \in Seq(Tids)
    BY <1>1 DEF CreatedBlocking, TypeOK, TypeMutexes
  <2>2. QueueOf(mqueue[m], "mutex", m)
    BY <2>1 DEF QueueInv
  <2> DEFINE w == Head(mqueue[m])
  <2>3. w \in Sleepers("mutex", m)
    BY <1>1, <2>1, <2>2, TailQueue DEF QueueOf
  <2>4. w \in Tids /\ Asleep(w, "mutex", m)
    BY <2>3 DEF Sleepers
  <2>5. NextOwner(m) = {w}
    BY <1>1 DEF NextOwner
  <2>6. /\ ToSet(Tail(mqueue[m])) = Sleepers("mutex", m) \ {w}
        /\ IsInjective(Tail(mqueue[m]))
    BY <1>1, <2>1, <2>2, TailQueue DEF QueueOf
  <2> QED
    BY <2>1, <2>4, <2>5, <2>6
<1>2. CASE ~(blocking[m] # 0 /\ mqueue[m] # <<>>)
  BY <1>2 DEF NextOwner, CreatedBlocking
<1> QED
  BY <1>1, <1>2

\* Waking the thread that mutex_unlock picked leaves every queue right.
LEMMA UnlockKeepsQueues ==
  ASSUME TypeOK, ThreadInv, QueueInv, Alive, Alive', NEW t \in Tids, NEW m \in Mutexes,
         m < nextMutex, mutex_unlock(t, m), tstate' = Wake(NextOwner(m)),
         UNCHANGED <<pc, obj, nextMutex, blocking, nextSem, squeue, nextCond, cqueue>>
  PROVE  QueueInv'
<1>0. /\ CreatedBlocking' = CreatedBlocking
      /\ CreatedSems' = CreatedSems /\ CreatedConds' = CreatedConds
  BY DEF CreatedBlocking, CreatedSems, CreatedConds
<1>1. CASE NextOwner(m) = {}
  <2>1. SameSleep
    BY <1>1 DEF SameSleep, Wake, TypeOK, TypeThreads
  <2>2. UNCHANGED mqueue
    BY <1>1 DEF mutex_unlock, TypeOK, TypeMutexes
  <2> QED
    BY <1>0, <2>1, <2>2, QueueFrame
<1>2. ASSUME NEW w \in Tids, NextOwner(m) = {w}, m \in CreatedBlocking, Asleep(w, "mutex", m),
             ToSet(Tail(mqueue[m])) = Sleepers("mutex", m) \ {w},
             IsInjective(Tail(mqueue[m]))
      PROVE  QueueInv'
  <2>1. \A c, o : Sleepers(c, o)' =
            IF c = "mutex" /\ o = m THEN Sleepers(c, o) \ {w} ELSE Sleepers(c, o)
    BY <1>2 DEF Sleepers, Asleep, Wake, TypeOK, TypeThreads
  <2>2. \A x \in Mutexes : mqueue'[x] = IF x = m THEN Tail(mqueue[m]) ELSE mqueue[x]
    BY <1>2 DEF mutex_unlock, TypeOK, TypeMutexes
  <2>3. \A x \in CreatedBlocking : QueueOf(mqueue[x], "mutex", x)'
    <3> TAKE x \in CreatedBlocking
    <3>1. x \in Mutexes
      BY DEF CreatedBlocking
    <3>2. CASE x = m
      BY <1>2, <2>1, <2>2, <3>1, <3>2 DEF QueueOf
    <3>3. CASE x # m
      BY <2>1, <2>2, <3>1, <3>3 DEF QueueInv, QueueOf
    <3> QED
      BY <3>2, <3>3
  <2> QED
    BY <1>0, <2>1, <2>3 DEF QueueInv, QueueOf
<1> QED
  BY <1>1, <1>2, UnlockQueue

\* cond_wait: the mutex's next owner leaves its queue, the caller enters the
\* condition variable's.
LEMMA WaitKeepsQueues ==
  ASSUME TypeOK, ThreadInv, QueueInv, NEW t \in Tids, NEW c \in Condvars,
         NEW m \in Mutexes, sys_condvar_wait(t, c, m)
  PROVE  QueueInv'
<1> USE DEF TypeOK, TypeThreads, TypeMutexes, TypeConds
<1>0. 0 \in Tids /\ tstate[t] = "RUNNABLE" /\ Alive /\ Alive'
  BY PoolAssumption DEF Tids, sys_condvar_wait, Running, ThreadInv, Alive, Wake
<1>1. /\ CreatedBlocking' = CreatedBlocking
      /\ CreatedSems' = CreatedSems /\ CreatedConds' = CreatedConds
  BY <1>0 DEF CreatedBlocking, CreatedSems, CreatedConds, sys_condvar_wait, semVars
<1>2. /\ c \in CreatedConds /\ cqueue[c] \in Seq(Tids)
      /\ \A x \in Condvars : cqueue'[x] = IF x = c THEN Append(cqueue[c], t) ELSE cqueue[x]
  BY <1>0 DEF CreatedConds, sys_condvar_wait
<1>3. /\ ToSet(Append(cqueue[c], t)) = Sleepers("cond", c) \cup {t}
      /\ IsInjective(Append(cqueue[c], t))
  <2>1. QueueOf(cqueue[c], "cond", c)
    BY <1>2 DEF QueueInv
  <2>2. t \notin ToSet(cqueue[c])
    BY <1>0, <2>1, RunningNotQueued
  <2> QED
    BY <1>2, <2>1, <2>2, AppendQueue DEF QueueOf
<1>4. ASSUME NEW W \in SUBSET Tids, t \notin W,
             \A w \in W : Asleep(w, "mutex", m),
             tstate' = [Wake(W) EXCEPT ![t] = "SLEEPING"],
             m \in CreatedBlocking =>
                 /\ ToSet(mqueue'[m]) = Sleepers("mutex", m) \ W
                 /\ IsInjective(mqueue'[m]),
             \A x \in Mutexes : x # m => mqueue'[x] = mqueue[x]
      PROVE  QueueInv'
  <2>1. \A k, o : Sleepers(k, o)' =
            IF k = "mutex" /\ o = m THEN Sleepers(k, o) \ W
            ELSE IF k = "cond" /\ o = c THEN Sleepers(k, o) \cup {t} ELSE Sleepers(k, o)
    <3>1. \A u \in Tids : /\ u # t => pc'[u] = pc[u] /\ obj'[u] = obj[u]
                          /\ u = t => pc'[u] = "cond" /\ obj'[u] = c
      BY DEF sys_condvar_wait, Suspend
    <3>2. \A u \in Tids : tstate'[u] = IF u = t THEN "SLEEPING"
                            ELSE IF u \in W THEN "RUNNABLE" ELSE tstate[u]
      BY <1>4 DEF Wake
    <3>3. \A u \in W : tstate[u] = "SLEEPING" /\ pc[u] = "mutex" /\ obj[u] = m
      BY <1>4 DEF Asleep
    <3>4. ASSUME NEW k, NEW o, NEW u \in Tids
          PROVE  Asleep(u, k, o)' <=>
                    \/ Asleep(u, k, o) /\ ~(k = "mutex" /\ o = m /\ u \in W)
                    \/ k = "cond" /\ o = c /\ u = t
      BY <1>0, <3>1, <3>2, <3>3 DEF Asleep
    <3> QED
      BY <3>4 DEF Sleepers
  <2>2. \A x \in CreatedBlocking : QueueOf(mqueue[x], "mutex", x)'
    <3> TAKE x \in CreatedBlocking
    <3>1. x \in Mutexes
      BY DEF CreatedBlocking
    <3>2. CASE x = m
      BY <1>4, <2>1, <3>1, <3>2 DEF QueueOf
    <3>3. CASE x # m
      BY <1>4, <2>1, <3>1, <3>3 DEF QueueInv, QueueOf
    <3> QED
      BY <3>2, <3>3
  <2>3. \A x \in CreatedConds : QueueOf(cqueue[x], "cond", x)'
    <3> TAKE x \in CreatedConds
    <3>1. x \in Condvars
      BY DEF CreatedConds
    <3>2. CASE x = c
      BY <1>2, <1>3, <2>1, <3>1, <3>2 DEF QueueOf
    <3>3. CASE x # c
      BY <1>2, <2>1, <3>1, <3>3 DEF QueueInv, QueueOf
    <3> QED
      BY <3>2, <3>3
  <2>4. \A s \in CreatedSems : QueueOf(squeue[s], "sem", s)'
    <3>1. squeue' = squeue
      BY DEF sys_condvar_wait, semVars
    <3> QED
      BY <2>1, <3>1 DEF QueueInv, QueueOf
  <2> QED
    BY <1>1, <2>2, <2>3, <2>4 DEF QueueInv
<1>5. m < nextMutex /\ tstate' = [Wake(NextOwner(m)) EXCEPT ![t] = "SLEEPING"]
  BY DEF sys_condvar_wait
<1>6. /\ mqueue'[m] = IF NextOwner(m) = {} THEN mqueue[m] ELSE Tail(mqueue[m])
      /\ \A x \in Mutexes : x # m => mqueue'[x] = mqueue[x]
  BY DEF sys_condvar_wait, mutex_unlock
<1>7. CASE NextOwner(m) = {}
  <2>1. m \in CreatedBlocking => QueueOf(mqueue[m], "mutex", m)
    BY DEF QueueInv
  <2> QED
    BY <1>4, <1>5, <1>6, <1>7, <2>1 DEF QueueOf
<1>8. ASSUME NEW w \in Tids, NextOwner(m) = {w}, Asleep(w, "mutex", m),
             ToSet(Tail(mqueue[m])) = Sleepers("mutex", m) \ {w},
             IsInjective(Tail(mqueue[m]))
      PROVE  QueueInv'
  <2>1. w # t
    BY <1>0, <1>8 DEF Asleep
  <2> QED
    BY <1>4, <1>5, <1>6, <1>8, <2>1
<1> QED
  BY <1>0, <1>5, <1>7, <1>8, UnlockQueue

\* semaphore_up that finds a waiter keeps the queues.
LEMMA UpKeepsQueues ==
  ASSUME TypeOK, ThreadInv, QueueInv, NEW t \in Tids, NEW s \in Semaphores,
         sys_semaphore_up(t, s), squeue[s] # <<>>,
         squeue' = [squeue EXCEPT ![s] = Tail(@)], tstate' = Wake({Head(squeue[s])})
  PROVE  QueueInv'
<1> USE DEF TypeOK, TypeThreads, TypeSems
<1>0. 0 \in Tids /\ Alive /\ Alive'
  BY PoolAssumption DEF Tids, sys_semaphore_up, Running, ThreadInv, Alive, Wake
<1>1. /\ CreatedBlocking' = CreatedBlocking /\ mqueue' = mqueue
      /\ CreatedSems' = CreatedSems
      /\ CreatedConds' = CreatedConds /\ cqueue' = cqueue
  BY <1>0 DEF CreatedBlocking, CreatedSems, CreatedConds, sys_semaphore_up, mutexVars, condVars
<1>2. s \in CreatedSems /\ squeue[s] \in Seq(Tids)
  BY <1>0 DEF CreatedSems, sys_semaphore_up
<1>3. QueueOf(squeue[s], "sem", s)
  BY <1>2 DEF QueueInv
<1> DEFINE w == Head(squeue[s])
<1>4. /\ w \in Sleepers("sem", s) /\ IsInjective(Tail(squeue[s]))
      /\ ToSet(Tail(squeue[s])) = Sleepers("sem", s) \ {w}
  BY <1>2, <1>3, TailQueue DEF QueueOf
<1>5. w \in Tids /\ Asleep(w, "sem", s)
  BY <1>4 DEF Sleepers
<1>6. \A c, o : Sleepers(c, o)' =
          IF c = "sem" /\ o = s THEN Sleepers(c, o) \ {w} ELSE Sleepers(c, o)
  <2>1. pc' = pc /\ obj' = obj
    BY DEF sys_semaphore_up
  <2>2. \A u \in Tids : tstate'[u] = IF u = w THEN "RUNNABLE" ELSE tstate[u]
    BY DEF Wake
  <2> HIDE DEF w
  <2>3. ASSUME NEW c, NEW o, NEW u \in Tids
        PROVE  Asleep(u, c, o)' <=> Asleep(u, c, o) /\ ~(c = "sem" /\ o = s /\ u = w)
    BY <1>5, <2>1, <2>2 DEF Asleep
  <2> QED
    BY <2>3 DEF Sleepers
<1>7. \A x \in CreatedSems : QueueOf(squeue[x], "sem", x)'
  <2> TAKE x \in CreatedSems
  <2>1. x \in Semaphores /\ (x # s => squeue'[x] = squeue[x])
    BY DEF CreatedSems
  <2>2. CASE x = s
    BY <1>4, <1>6, <2>1, <2>2 DEF QueueOf
  <2>3. CASE x # s
    BY <1>6, <2>1, <2>3 DEF QueueInv, QueueOf
  <2> QED
    BY <2>2, <2>3
<1> QED
  BY <1>1, <1>6, <1>7 DEF QueueInv, QueueOf

\* semaphore_down that has to wait keeps the queues.
LEMMA DownKeepsQueues ==
  ASSUME TypeOK, ThreadInv, QueueInv, NEW t \in Tids, NEW s \in Semaphores,
         sys_semaphore_down(t, s), squeue' = [squeue EXCEPT ![s] = Append(@, t)],
         tstate' = [tstate EXCEPT ![t] = "SLEEPING"], Suspend(t, "sem", s)
  PROVE  QueueInv'
<1> USE DEF TypeOK, TypeThreads, TypeSems
<1>0. 0 \in Tids /\ Alive /\ Alive' /\ tstate[t] = "RUNNABLE"
  BY PoolAssumption DEF Tids, sys_semaphore_down, Running, ThreadInv, Alive
<1>1. /\ CreatedBlocking' = CreatedBlocking /\ mqueue' = mqueue
      /\ CreatedSems' = CreatedSems
      /\ CreatedConds' = CreatedConds /\ cqueue' = cqueue
  BY <1>0 DEF CreatedBlocking, CreatedSems, CreatedConds, sys_semaphore_down, mutexVars, condVars
<1>2. s \in CreatedSems /\ squeue[s] \in Seq(Tids)
  BY <1>0 DEF CreatedSems, sys_semaphore_down
<1>3. QueueOf(squeue[s], "sem", s)
  BY <1>2 DEF QueueInv
<1>4. t \notin ToSet(squeue[s])
  BY <1>0, <1>3, RunningNotQueued
<1>5. /\ ToSet(Append(squeue[s], t)) = Sleepers("sem", s) \cup {t}
      /\ IsInjective(Append(squeue[s], t))
  BY <1>2, <1>3, <1>4, AppendQueue DEF QueueOf
<1>6. \A c, o : Sleepers(c, o)' =
          IF c = "sem" /\ o = s THEN Sleepers(c, o) \cup {t} ELSE Sleepers(c, o)
  BY <1>0 DEF Sleepers, Asleep, Suspend
<1>7. \A x \in CreatedSems : QueueOf(squeue[x], "sem", x)'
  <2> TAKE x \in CreatedSems
  <2>1. x \in Semaphores /\ (x # s => squeue'[x] = squeue[x])
    BY DEF CreatedSems
  <2>2. CASE x = s
    BY <1>5, <1>6, <2>1, <2>2 DEF QueueOf
  <2>3. CASE x # s
    BY <1>6, <2>1, <2>3 DEF QueueInv, QueueOf
  <2> QED
    BY <2>2, <2>3
<1> QED
  BY <1>1, <1>6, <1>7 DEF QueueInv, QueueOf

\* cond_signal that finds a waiter keeps the queues.
LEMMA SignalKeepsQueues ==
  ASSUME TypeOK, ThreadInv, QueueInv, NEW t \in Tids, NEW c \in Condvars,
         sys_condvar_signal(t, c), cqueue[c] # <<>>
  PROVE  QueueInv'
<1> USE DEF TypeOK, TypeThreads, TypeConds
<1>0. 0 \in Tids /\ Alive /\ Alive'
  BY PoolAssumption, SMTT(30) DEF Tids, sys_condvar_signal, Running, ThreadInv, Alive, Wake
<1>1. /\ CreatedBlocking' = CreatedBlocking /\ mqueue' = mqueue
      /\ CreatedSems' = CreatedSems /\ squeue' = squeue
      /\ CreatedConds' = CreatedConds
  BY <1>0 DEF CreatedBlocking, CreatedSems, CreatedConds, sys_condvar_signal, mutexVars, semVars
<1>2. c \in CreatedConds /\ cqueue[c] \in Seq(Tids)
  BY <1>0 DEF CreatedConds, sys_condvar_signal
<1>3. QueueOf(cqueue[c], "cond", c)
  BY <1>2 DEF QueueInv
<1> DEFINE w == Head(cqueue[c])
<1>4. /\ w \in Sleepers("cond", c) /\ IsInjective(Tail(cqueue[c]))
      /\ ToSet(Tail(cqueue[c])) = Sleepers("cond", c) \ {w}
  BY <1>2, <1>3, TailQueue DEF QueueOf
<1>5. w \in Tids /\ Asleep(w, "cond", c)
  BY <1>4 DEF Sleepers
<1>6. \A k, o : Sleepers(k, o)' =
          IF k = "cond" /\ o = c THEN Sleepers(k, o) \ {w} ELSE Sleepers(k, o)
  <2>1. pc' = pc /\ obj' = obj /\ tstate' = Wake({w})
    BY DEF sys_condvar_signal
  <2> HIDE DEF w
  <2> QED
    BY <1>5, <2>1 DEF Sleepers, Asleep, Wake
<1>7. \A x \in CreatedConds : QueueOf(cqueue[x], "cond", x)'
  <2> TAKE x \in CreatedConds
  <2>1. /\ x \in Condvars
        /\ cqueue'[x] = IF x = c THEN Tail(cqueue[c]) ELSE cqueue[x]
    BY DEF CreatedConds, sys_condvar_signal
  <2>2. CASE x = c
    BY <1>4, <1>6, <2>1, <2>2 DEF QueueOf
  <2>3. CASE x # c
    BY <1>6, <2>1, <2>3 DEF QueueInv, QueueOf
  <2> QED
    BY <2>2, <2>3
<1> QED
  BY <1>1, <1>6, <1>7 DEF QueueInv, QueueOf

\* Nobody sleeps on an object that is not created yet.
LEMMA FreshHasNoSleeper ==
  ASSUME TypeOK, ThreadInv
  PROVE  /\ Sleepers("mutex", nextMutex) = {}
         /\ Sleepers("sem", nextSem) = {}
         /\ Sleepers("cond", nextCond) = {}
<1>1. nextMutex \in Nat /\ nextSem \in Nat /\ nextCond \in Nat
  BY PoolAssumption DEF TypeOK, TypeMutexes, TypeSems, TypeConds
<1> QED
  BY <1>1 DEF TypeOK, TypeThreads, ThreadInv, Sleepers, Asleep

\* The empty queue holds nobody.
LEMMA EmptyQueueOf == ToSet(<<>>) = {} /\ IsInjective(<<>>)
  BY DEF ToSet, IsInjective

\* Every step keeps each queue equal to the sleepers of its object.
LEMMA QueueNext == TypeOK /\ ThreadInv /\ QueueInv /\ [Next]_vars => QueueInv'
<1> SUFFICES ASSUME TypeOK, ThreadInv, QueueInv, [Next]_vars PROVE QueueInv'
  OBVIOUS
<1> USE DEF TypeOK, TypeThreads, threadVars, mutexVars, semVars, condVars
<1>0. 0 \in Tids
  BY PoolAssumption DEF Tids
<1>a. ASSUME NEW t \in Tids, tstate[t] = "RUNNABLE" PROVE Alive
  BY <1>a DEF ThreadInv, Alive
<1>b. ASSUME SameSleep, Alive, UNCHANGED <<mqueue, squeue, cqueue, nextMutex, blocking, nextSem, nextCond>>
      PROVE  QueueInv'
  <2>1. /\ CreatedBlocking' \subseteq CreatedBlocking
        /\ CreatedSems' \subseteq CreatedSems /\ CreatedConds' \subseteq CreatedConds
    BY <1>b DEF CreatedBlocking, CreatedSems, CreatedConds
  <2> QED
    BY <1>b, <2>1, QueueFrame
<1>1. ASSUME NEW t \in Tids, mutex_resume(t) PROVE QueueInv'
  <2>1. SameSleep
    BY <1>1 DEF mutex_resume, Woken, Return, SameSleep
  <2> QED
    BY <1>1, <1>a, <1>b, <2>1 DEF mutex_resume, Woken
<1>2. ASSUME NEW t \in Tids, spin_retry(t) PROVE QueueInv'
  <2>1. SameSleep
    BY <1>2 DEF spin_retry, Woken, Return, SameSleep
  <2> QED
    BY <1>2, <1>a, <1>b, <2>1 DEF spin_retry, Woken
<1>3. ASSUME NEW t \in Tids, semaphore_resume(t) PROVE QueueInv'
  <2>1. SameSleep
    BY <1>3 DEF semaphore_resume, Woken, Return, SameSleep
  <2> QED
    BY <1>3, <1>a, <1>b, <2>1 DEF semaphore_resume, Woken
<1>c. ASSUME NEW t \in Tids, NEW m \in Mutexes, NEW mr, m < nextMutex,
             tstate[t] = "RUNNABLE", mutex_lock(t, m, mr),
             UNCHANGED <<nextMutex, blocking, nextSem, squeue, nextCond, cqueue>>
      PROVE  QueueInv'
  <2>1. Alive
    BY <1>a, <1>c
  <2>2. Alive'
    BY <1>0, <1>c, <2>1 DEF Alive, mutex_lock, lock_free, lock_spin, lock_block
  <2> QED
    BY <1>c, <2>1, <2>2, LockQueue
<1>4. ASSUME NEW t \in Tids, condvar_resume(t) PROVE QueueInv'
  <2>1. mtx[t] \in Mutexes /\ mtx[t] < nextMutex /\ tstate[t] = "RUNNABLE"
    BY <1>4 DEF condvar_resume, Woken, ThreadInv
  <2> QED
    BY <1>4, <1>c, <2>1 DEF condvar_resume
<1>5. ASSUME NEW t \in Tids, NEW b \in BLOCKING_ARGS, sys_mutex_create(t, b) PROVE QueueInv'
  <2>1. \A c, o : Sleepers(c, o)' = Sleepers(c, o)
    BY <1>5 DEF sys_mutex_create, Sleepers, Asleep
  <2>2. /\ Alive /\ nextMutex \in Mutexes /\ nextMutex' = nextMutex + 1
        /\ CreatedSems' = CreatedSems /\ CreatedConds' = CreatedConds
        /\ UNCHANGED <<squeue, cqueue, nextSem, nextCond>>
    BY <1>5, <1>a, PoolAssumption
    DEF sys_mutex_create, Running, Mutexes, TypeMutexes, CreatedSems, CreatedConds, Alive
  <2>3. ASSUME NEW x \in CreatedBlocking' PROVE QueueOf(mqueue[x], "mutex", x)'
    <3>1. x \in Mutexes /\ x < nextMutex + 1 /\ blocking'[x] # 0
      BY <2>2, <2>3 DEF CreatedBlocking
    <3>2. CASE x = nextMutex
      <4>1. b # 0 /\ mqueue'[x] = <<>>
        BY <1>5, <2>2, <3>1, <3>2 DEF sys_mutex_create, TypeMutexes, init_queue
      <4> QED
        BY <2>1, <3>2, <4>1, FreshHasNoSleeper, EmptyQueueOf DEF QueueOf
    <3>3. CASE x # nextMutex
      <4>1. blocking'[x] = blocking[x] /\ mqueue'[x] = mqueue[x] /\ x < nextMutex
        BY <1>5, <2>2, <3>1, <3>3 DEF sys_mutex_create, TypeMutexes, Mutexes
      <4>2. x \in CreatedBlocking
        BY <2>2, <3>1, <4>1 DEF CreatedBlocking
      <4> QED
        BY <2>1, <4>1, <4>2 DEF QueueInv, QueueOf
    <3> QED
      BY <3>2, <3>3
  <2> QED
    BY <2>1, <2>2, <2>3 DEF QueueInv, QueueOf
<1>6. ASSUME NEW t \in Tids, NEW m \in Mutexes, sys_mutex_lock(t, m) PROVE QueueInv'
  <2> DEFINE mr == IF detect # 0 THEN [mReq EXCEPT ![m] = @ \ {t}] ELSE mReq
  <2>1. CASE mutex_lock(t, m, mr)
    <3> HIDE DEF mr
    <3> QED
      BY <1>6, <1>c, <2>1 DEF sys_mutex_lock, Running
  <2>2. CASE UNCHANGED <<tstate, pc, obj, mqueue>>
    <3>1. SameSleep
      BY <2>2 DEF SameSleep
    <3> QED
      BY <1>6, <1>a, <1>b, <2>2, <3>1 DEF sys_mutex_lock, Running
  <2> QED
    BY <1>6, <2>1, <2>2 DEF sys_mutex_lock
<1>7. ASSUME NEW t \in Tids, NEW m \in Mutexes, sys_mutex_unlock(t, m) PROVE QueueInv'
  <2>1. Alive /\ Alive'
    BY <1>0, <1>7, <1>a DEF sys_mutex_unlock, Running, Alive, Wake
  <2> QED
    BY <1>7, <2>1, UnlockKeepsQueues DEF sys_mutex_unlock
<1>8. ASSUME NEW t \in Tids, NEW n \in SEM_COUNTS, sys_semaphore_create(t, n) PROVE QueueInv'
  <2>1. \A c, o : Sleepers(c, o)' = Sleepers(c, o)
    BY <1>8 DEF sys_semaphore_create, Sleepers, Asleep
  <2>2. /\ Alive /\ nextSem \in Semaphores /\ nextSem' = nextSem + 1
        /\ CreatedBlocking' = CreatedBlocking /\ CreatedConds' = CreatedConds
        /\ UNCHANGED <<mqueue, cqueue>>
    BY <1>8, <1>a, PoolAssumption
    DEF sys_semaphore_create, Running, Semaphores, TypeSems, CreatedBlocking, CreatedConds, Alive
  <2>3. ASSUME NEW x \in CreatedSems' PROVE QueueOf(squeue[x], "sem", x)'
    <3>1. x \in Semaphores /\ x < nextSem + 1
      BY <2>2, <2>3 DEF CreatedSems
    <3>2. CASE x = nextSem
      <4>1. squeue'[x] = <<>>
        BY <1>8, <2>2, <3>1, <3>2 DEF sys_semaphore_create, TypeSems, init_queue
      <4> QED
        BY <2>1, <3>2, <4>1, FreshHasNoSleeper, EmptyQueueOf DEF QueueOf
    <3>3. CASE x # nextSem
      <4>1. squeue'[x] = squeue[x] /\ x < nextSem
        BY <1>8, <2>2, <3>1, <3>3 DEF sys_semaphore_create, TypeSems, Semaphores
      <4>2. x \in CreatedSems
        BY <2>2, <3>1, <4>1 DEF CreatedSems
      <4> QED
        BY <2>1, <4>1, <4>2 DEF QueueInv, QueueOf
    <3> QED
      BY <3>2, <3>3
  <2> QED
    BY <2>1, <2>2, <2>3 DEF QueueInv, QueueOf
<1>9. ASSUME NEW t \in Tids, NEW s \in Semaphores, sys_semaphore_up(t, s) PROVE QueueInv'
  <2>1. CASE UNCHANGED <<tstate, squeue>>
    <3>1. SameSleep
      BY <1>9, <2>1 DEF sys_semaphore_up, SameSleep
    <3> QED
      BY <1>9, <1>a, <1>b, <2>1, <3>1 DEF sys_semaphore_up, Running
  <2>2. CASE /\ squeue[s] # <<>> /\ squeue' = [squeue EXCEPT ![s] = Tail(@)]
             /\ tstate' = Wake({Head(squeue[s])})
    BY <1>9, <2>2, UpKeepsQueues
  <2> QED
    BY <1>9, <2>1, <2>2 DEF sys_semaphore_up, up_free, up_wake, up_panic
<1>10. ASSUME NEW t \in Tids, NEW s \in Semaphores, sys_semaphore_down(t, s) PROVE QueueInv'
  <2>1. CASE UNCHANGED <<tstate, pc, obj, squeue>>
    <3>1. SameSleep
      BY <2>1 DEF SameSleep
    <3> QED
      BY <1>10, <1>a, <1>b, <2>1, <3>1 DEF sys_semaphore_down, Running
  <2>2. CASE /\ squeue' = [squeue EXCEPT ![s] = Append(@, t)]
             /\ tstate' = [tstate EXCEPT ![t] = "SLEEPING"] /\ Suspend(t, "sem", s)
    BY <1>10, <2>2, DownKeepsQueues
  <2> QED
    BY <1>10, <2>1, <2>2 DEF sys_semaphore_down, semaphore_down, down_free, down_wait
<1>11. ASSUME NEW t \in Tids, sys_condvar_create(t) PROVE QueueInv'
  <2>1. \A c, o : Sleepers(c, o)' = Sleepers(c, o)
    BY <1>11 DEF sys_condvar_create, Sleepers, Asleep
  <2>2. /\ Alive /\ nextCond \in Condvars /\ nextCond' = nextCond + 1
        /\ CreatedBlocking' = CreatedBlocking /\ CreatedSems' = CreatedSems
        /\ UNCHANGED <<mqueue, squeue>>
    BY <1>11, <1>a, PoolAssumption
    DEF sys_condvar_create, Running, Condvars, TypeConds, CreatedBlocking, CreatedSems, Alive
  <2>3. ASSUME NEW x \in CreatedConds' PROVE QueueOf(cqueue[x], "cond", x)'
    <3>1. x \in Condvars /\ x < nextCond + 1
      BY <2>2, <2>3 DEF CreatedConds
    <3>2. CASE x = nextCond
      <4>1. cqueue'[x] = <<>>
        BY <1>11, <2>2, <3>1, <3>2 DEF sys_condvar_create, TypeConds, init_queue
      <4> QED
        BY <2>1, <3>2, <4>1, FreshHasNoSleeper, EmptyQueueOf DEF QueueOf
    <3>3. CASE x # nextCond
      <4>1. cqueue'[x] = cqueue[x] /\ x < nextCond
        BY <1>11, <2>2, <3>1, <3>3 DEF sys_condvar_create, TypeConds, Condvars
      <4>2. x \in CreatedConds
        BY <2>2, <3>1, <4>1 DEF CreatedConds
      <4> QED
        BY <2>1, <4>1, <4>2 DEF QueueInv, QueueOf
    <3> QED
      BY <3>2, <3>3
  <2> QED
    BY <2>1, <2>2, <2>3 DEF QueueInv, QueueOf
<1>12. ASSUME NEW t \in Tids, NEW c \in Condvars, sys_condvar_signal(t, c) PROVE QueueInv'
  <2>1. CASE cqueue[c] = <<>>
    <3>1. SameSleep
      BY <1>12, <2>1 DEF sys_condvar_signal, SameSleep
    <3> QED
      BY <1>12, <1>a, <1>b, <2>1, <3>1 DEF sys_condvar_signal, Running
  <2> QED
    BY <1>12, <2>1, SignalKeepsQueues
<1>13. ASSUME NEW t \in Tids, NEW c \in Condvars, NEW m \in Mutexes, sys_condvar_wait(t, c, m)
       PROVE QueueInv'
  BY <1>13, WaitKeepsQueues
<1>14. ASSUME NEW t \in Tids, NEW e \in DETECT_ARGS, sys_enable_deadlock_detect(t, e)
       PROVE QueueInv'
  <2>1. SameSleep
    BY <1>14 DEF sys_enable_deadlock_detect, SameSleep
  <2> QED
    BY <1>14, <1>a, <1>b, <2>1 DEF sys_enable_deadlock_detect, Running
<1>15. ASSUME NEW t \in Tids, sys_thread_create(t) PROVE QueueInv'
  <2>1. SameSleep
    BY <1>15 DEF sys_thread_create, SameSleep
  <2> QED
    BY <1>15, <1>a, <1>b, <2>1 DEF sys_thread_create, Running
<1>16. ASSUME NEW t \in Tids, NEW u \in Tids, sys_waittid(t, u) PROVE QueueInv'
  <2>1. SameSleep
    BY <1>16 DEF sys_waittid, SameSleep
  <2> QED
    BY <1>16, <1>a, <1>b, <2>1 DEF sys_waittid, Running
<1>17. ASSUME NEW t \in Tids, exit_thread(t) PROVE QueueInv'
  <2>1. SameSleep
    BY <1>17 DEF exit_thread, Running, SameSleep
  <2> QED
    BY <1>17, <1>a, <1>b, <2>1 DEF exit_thread, Running
<1>d. ASSUME CreatedBlocking' = {}, CreatedSems' = {}, CreatedConds' = {} PROVE QueueInv'
  BY <1>d DEF QueueInv
<1>18. CASE exit_process
  <2>1. ~Alive'
    BY <1>0, <1>18 DEF exit_process, Alive
  <2> QED
    BY <1>d, <2>1 DEF CreatedBlocking, CreatedSems, CreatedConds
<1>19. CASE allocproc
  <2>1. nextMutex' = 0 /\ nextSem' = 0 /\ nextCond' = 0
    BY <1>19 DEF allocproc
  <2> QED
    BY <1>d, <2>1, PoolAssumption DEF CreatedBlocking, CreatedSems, CreatedConds, Mutexes, Semaphores, Condvars
<1>20. CASE UNCHANGED vars
  BY <1>20 DEF vars, QueueInv, QueueOf, Sleepers, Asleep, CreatedBlocking, CreatedSems, CreatedConds, Alive
<1> QED
  BY <1>1, <1>2, <1>3, <1>4, <1>5, <1>6, <1>7, <1>8, <1>9, <1>10, <1>11, <1>12,
     <1>13, <1>14, <1>15, <1>16, <1>17, <1>18, <1>19, <1>20
  DEF Next, Resume, MutexCall, SemCall, CondCall, ThreadCall

\* At the start no object is created, so no queue is claimed.
LEMMA QueueInit == Init => QueueInv
  BY PoolAssumption DEF Init, QueueInv, CreatedBlocking, CreatedSems, CreatedConds,
     Mutexes, Semaphores, Condvars

\* The two parts of WaitInv imply the property the runs check.
LEMMA WaitInvImplies == TypeOK /\ WaitInv => WaitersQueued
<1> SUFFICES ASSUME TypeOK, WaitInv PROVE WaitersQueued
  OBVIOUS
<1>1. ASSUME NEW t \in Tids, tstate[t] = "SLEEPING"
      PROVE  \/ pc[t] = "mutex" /\ obj[t] \in CreatedBlocking
             \/ pc[t] = "sem" /\ obj[t] \in CreatedSems
             \/ pc[t] = "cond" /\ obj[t] \in CreatedConds
  <2>1. Alive
    BY <1>1 DEF WaitInv, ThreadInv
  <2> QED
    BY <1>1, <2>1 DEF WaitInv, ThreadInv, TypeOK, TypeThreads, CreatedBlocking, CreatedSems, CreatedConds
<1> QED
  BY <1>1 DEF WaitInv, QueueInv, WaitersQueued

\* No wake-up is lost and none is spurious: in every reachable state, for any
\* number of threads and objects and whatever the clients do, the wait queue of
\* every created mutex, semaphore and condition variable (sync.c) holds exactly
\* the threads asleep on it, each once.
THEOREM NoLostWakeup == Spec => []WaitersQueued
<1>1. Init => TypeOK /\ WaitInv
  BY TypeInit, ThreadInit, QueueInit DEF WaitInv
<1>2. TypeOK /\ WaitInv /\ [Next]_vars => (TypeOK /\ WaitInv)'
  BY TypeNext, ThreadNext, QueueNext DEF WaitInv
<1> QED
  BY <1>1, <1>2, WaitInvImplies, PTL DEF Spec

-----------------------------------------------------------------------------
(* Semaphore counts and panics *)

\* What the theorems about semaphores assume of the clients.
NaturalCounts == SEM_COUNTS \subseteq Nat

\* The invariants established so far.
BasicInv == TypeOK /\ ThreadInv /\ QueueInv

\* Steps that leave the semaphores alone.
LEMMA CountFrame ==
  ASSUME SemaphoreQueue, UNCHANGED <<count, squeue>>, CreatedSems' \subseteq CreatedSems
  PROVE  SemaphoreQueue'
  BY DEF SemaphoreQueue

\* A queue of distinct threads that lacks one of them is not full.
LEMMA QueueHasRoom ==
  ASSUME NEW q \in Seq(Tids), NEW t \in Tids, t \notin ToSet(q), IsInjective(q)
  PROVE  Overflows(q) = FALSE
<1> DEFINE n == Len(q) + 1
           f == Append(q, t)
<1>1. Len(q) \in Nat /\ n \in Nat
  OBVIOUS
<1>2. f \in [1 .. n -> Tids]
  <2>1. f \in Seq(Tids) /\ Len(f) = n
    OBVIOUS
  <2> HIDE DEF f, n
  <2> QED
    BY <2>1
<1>3. IsInjective(f)
  BY AppendQueue
<1>4. f \in Injection(1 .. n, Tids)
  BY <1>2, <1>3 DEF Injection
<1>5. IsFiniteSet(Tids) /\ Cardinality(Tids) = NTHREAD
  BY FS_Interval, PoolAssumption DEF Tids
<1>6. Cardinality(1 .. n) <= Cardinality(Tids)
  <2> HIDE DEF n, f
  <2> QED
    BY <1>4, <1>5, FS_Injection
<1>7. Cardinality(1 .. n) = n
  BY <1>1, FS_Interval
<1>8. Len(q) < WAIT_QUEUE_MAX_LENGTH
  BY <1>1, <1>5, <1>6, <1>7, QueueAssumption, PoolAssumption
<1> QED
  BY <1>8 DEF Overflows

\* semaphore_up: the count and the queue move together.
LEMMA UpCount ==
  ASSUME BasicInv, SemaphoreQueue, NEW t \in Tids, NEW s \in Semaphores,
         sys_semaphore_up(t, s)
  PROVE  SemaphoreQueue' /\ ~up_panic(s, [sAlloc EXCEPT ![s][t] = Released(@)])
<1> USE DEF BasicInv, TypeOK, TypeSems
<1>1. Alive
  BY DEF sys_semaphore_up, Running, ThreadInv, Alive
<1>2. s \in CreatedSems /\ squeue[s] \in Seq(Tids) /\ count[s] \in Int
  BY <1>1 DEF CreatedSems, sys_semaphore_up
<1>3. Len(squeue[s]) = IF count[s] < 0 THEN -count[s] ELSE 0
  BY <1>2 DEF SemaphoreQueue
<1>4. MustWake(s) => squeue[s] # <<>>
  BY <1>2, <1>3 DEF MustWake
<1>5. nextSem' = nextSem /\ \A x \in Semaphores : count'[x] = IF x = s THEN count[s] + 1 ELSE count[x]
  BY DEF sys_semaphore_up
<1>6. CreatedSems' \subseteq CreatedSems
  BY <1>1, <1>5 DEF CreatedSems
<1>7. \/ ~MustWake(s) /\ squeue' = squeue
      \/ MustWake(s) /\ squeue' = [squeue EXCEPT ![s] = Tail(@)]
  BY <1>4 DEF sys_semaphore_up, up_free, up_wake, up_panic
<1>8. Len(squeue'[s]) = IF count[s] + 1 < 0 THEN -(count[s] + 1) ELSE 0
  <2>1. CASE ~MustWake(s) /\ squeue' = squeue
    BY <1>2, <1>3, <2>1 DEF MustWake
  <2>2. CASE MustWake(s) /\ squeue' = [squeue EXCEPT ![s] = Tail(@)]
    <3>1. squeue'[s] = Tail(squeue[s]) /\ Len(Tail(squeue[s])) = Len(squeue[s]) - 1
      BY <1>2, <1>4, <2>2
    <3> QED
      BY <1>2, <1>3, <2>2, <3>1 DEF MustWake
  <2> QED
    BY <1>7, <2>1, <2>2
<1>9. \A x \in Semaphores : x # s => squeue'[x] = squeue[x]
  BY <1>7
<1>10. ASSUME NEW x \in CreatedSems'
       PROVE  Len(squeue'[x]) = IF count'[x] < 0 THEN -count'[x] ELSE 0
  <2>1. x \in CreatedSems /\ x \in Semaphores
    BY <1>6, <1>10 DEF CreatedSems
  <2>2. CASE x = s
    BY <1>5, <1>8, <2>1, <2>2
  <2>3. CASE x # s
    BY <1>5, <1>9, <2>1, <2>3 DEF SemaphoreQueue
  <2> QED
    BY <2>2, <2>3
<1> QED
  BY <1>4, <1>10 DEF SemaphoreQueue, up_panic

\* semaphore_down: the count and the queue move together.
LEMMA DownCount ==
  ASSUME BasicInv, SemaphoreQueue, NEW t \in Tids, NEW s \in Semaphores,
         sys_semaphore_down(t, s)
  PROVE  SemaphoreQueue'
<1> USE DEF BasicInv, TypeOK, TypeSems
<1>1. Alive /\ nextSem' = nextSem
  BY DEF sys_semaphore_down, Running, ThreadInv, Alive
<1>2. CreatedSems' \subseteq CreatedSems
  BY <1>1 DEF CreatedSems
<1>3. CASE UNCHANGED <<count, squeue>>
  BY <1>2, <1>3, CountFrame
<1>4. CASE /\ count' = [count EXCEPT ![s] = @ - 1]
           /\ \/ ~MustWait(s) /\ squeue' = squeue
              \/ MustWait(s) /\ squeue' = [squeue EXCEPT ![s] = Append(@, t)]
  <2>1. s \in CreatedSems /\ squeue[s] \in Seq(Tids) /\ count[s] \in Int
    BY <1>1 DEF CreatedSems, sys_semaphore_down
  <2>2. Len(squeue[s]) = IF count[s] < 0 THEN -count[s] ELSE 0
    BY <2>1 DEF SemaphoreQueue
  <2>3. Len(squeue'[s]) = IF count[s] - 1 < 0 THEN -(count[s] - 1) ELSE 0
    <3>1. CASE ~MustWait(s) /\ squeue' = squeue
      BY <2>1, <2>2, <3>1 DEF MustWait
    <3>2. CASE MustWait(s) /\ squeue' = [squeue EXCEPT ![s] = Append(@, t)]
      <4>1. squeue'[s] = Append(squeue[s], t) /\ Len(Append(squeue[s], t)) = Len(squeue[s]) + 1
        BY <2>1, <3>2
      <4> QED
        BY <2>1, <2>2, <3>2, <4>1 DEF MustWait
    <3> QED
      BY <1>4, <3>1, <3>2
  <2>4. ASSUME NEW x \in CreatedSems'
        PROVE  Len(squeue'[x]) = IF count'[x] < 0 THEN -count'[x] ELSE 0
    <3>1. x \in CreatedSems /\ x \in Semaphores
      BY <1>2, <2>4 DEF CreatedSems
    <3>2. CASE x = s
      BY <1>4, <2>3, <3>1, <3>2
    <3>3. CASE x # s
      <4>1. count'[x] = count[x] /\ squeue'[x] = squeue[x]
        BY <1>4, <3>1, <3>3
      <4> QED
        BY <3>1, <4>1 DEF SemaphoreQueue
    <3> QED
      BY <3>2, <3>3
  <2> QED
    BY <2>4 DEF SemaphoreQueue
<1> QED
  BY <1>3, <1>4 DEF sys_semaphore_down, semaphore_down, down_free, down_wait

\* Every step keeps the semaphores' counts and queues in agreement.
LEMMA CountNext ==
  ASSUME NaturalCounts, BasicInv, SemaphoreQueue, [Next]_vars
  PROVE  SemaphoreQueue'
<1> USE DEF BasicInv, TypeOK, TypeThreads, threadVars, mutexVars, semVars, condVars
<1>0. 0 \in Tids
  BY PoolAssumption DEF Tids
<1>a. ASSUME NEW t \in Tids, tstate[t] = "RUNNABLE", UNCHANGED <<nextSem, count, squeue>>
      PROVE  SemaphoreQueue'
  <2>1. Alive
    BY <1>a DEF ThreadInv, Alive
  <2>2. CreatedSems' \subseteq CreatedSems
    BY <1>a, <2>1 DEF CreatedSems
  <2> QED
    BY <1>a, <2>2, CountFrame
<1>1. ASSUME NEW t \in Tids, Resume(t) PROVE SemaphoreQueue'
  BY <1>1, <1>a DEF Resume, mutex_resume, spin_retry, semaphore_resume, condvar_resume, Woken
<1>2. ASSUME NEW t \in Tids, MutexCall(t) PROVE SemaphoreQueue'
  BY <1>2, <1>a DEF MutexCall, sys_mutex_create, sys_mutex_lock, sys_mutex_unlock, Running
<1>3. ASSUME NEW t \in Tids, CondCall(t) PROVE SemaphoreQueue'
  BY <1>3, <1>a DEF CondCall, sys_condvar_create, sys_condvar_signal, sys_condvar_wait, Running
<1>4. ASSUME NEW t \in Tids, ThreadCall(t) PROVE SemaphoreQueue'
  BY <1>4, <1>a DEF ThreadCall, sys_enable_deadlock_detect, sys_thread_create, sys_waittid,
                    exit_thread, Running
<1>5. ASSUME NEW t \in Tids, NEW n \in SEM_COUNTS, sys_semaphore_create(t, n)
      PROVE  SemaphoreQueue'
  <2>1. n \in Nat /\ Len(<<>>) = 0
    BY DEF NaturalCounts
  <2>2. /\ Alive /\ nextSem \in Semaphores /\ nextSem' = nextSem + 1
        /\ \A x \in Semaphores : count'[x] = IF x = nextSem THEN n ELSE count[x]
        /\ \A x \in Semaphores : squeue'[x] = IF x = nextSem THEN <<>> ELSE squeue[x]
    BY <1>5, PoolAssumption
    DEF sys_semaphore_create, Running, TypeSems, Semaphores, ThreadInv, Alive, init_queue
  <2>3. ASSUME NEW x \in CreatedSems'
        PROVE  Len(squeue'[x]) = IF count'[x] < 0 THEN -count'[x] ELSE 0
    <3>1. x \in Semaphores /\ x < nextSem + 1
      BY <2>2, <2>3 DEF CreatedSems
    <3>2. CASE x = nextSem
      BY <2>1, <2>2, <3>1, <3>2
    <3>3. CASE x # nextSem
      <4>1. x \in CreatedSems
        BY <2>2, <3>1, <3>3 DEF CreatedSems, Semaphores
      <4>2. count'[x] = count[x] /\ squeue'[x] = squeue[x]
        BY <2>2, <3>1, <3>3
      <4> QED
        BY <4>1, <4>2 DEF SemaphoreQueue
    <3> QED
      BY <3>2, <3>3
  <2> QED
    BY <2>3 DEF SemaphoreQueue
<1>6. ASSUME NEW t \in Tids, NEW s \in Semaphores, sys_semaphore_up(t, s)
      PROVE  SemaphoreQueue'
  BY <1>6, UpCount
<1>7. ASSUME NEW t \in Tids, NEW s \in Semaphores, sys_semaphore_down(t, s)
      PROVE  SemaphoreQueue'
  BY <1>7, DownCount
<1>8. CASE exit_process
  <2>1. ~Alive'
    BY <1>0, <1>8 DEF exit_process, Alive
  <2> QED
    BY <2>1 DEF SemaphoreQueue, CreatedSems
<1>9. CASE allocproc
  BY <1>9 DEF allocproc, SemaphoreQueue, CreatedSems, Semaphores
<1>10. CASE UNCHANGED vars
  BY <1>10, CountFrame DEF vars, CreatedSems, Alive
<1> QED
  BY <1>1, <1>2, <1>3, <1>4, <1>5, <1>6, <1>7, <1>8, <1>9, <1>10 DEF Next, SemCall

\* mutex_lock by a running thread finds room in the wait queue.
LEMMA LockNoPanic ==
  ASSUME BasicInv, Alive, ~panicked, NEW t \in Tids, NEW m \in Mutexes, NEW mr,
         m < nextMutex, tstate[t] = "RUNNABLE", mutex_lock(t, m, mr)
  PROVE  ~panicked'
<1>1. CASE lock_block(t, m, mr)
  <2>1. m \in CreatedBlocking /\ mqueue[m] \in Seq(Tids)
    BY <1>1 DEF lock_block, CreatedBlocking, BasicInv, TypeOK, TypeMutexes
  <2>2. QueueOf(mqueue[m], "mutex", m)
    BY <2>1 DEF BasicInv, QueueInv
  <2>3. t \notin ToSet(mqueue[m]) /\ IsInjective(mqueue[m])
    BY <2>2, RunningNotQueued DEF QueueOf
  <2>4. Overflows(mqueue[m]) = FALSE
    BY <2>1, <2>3, QueueHasRoom
  <2> QED
    BY <1>1, <2>4 DEF lock_block
<1> QED
  BY <1>1 DEF mutex_lock, lock_free, lock_spin

\* No step panics.
LEMMA PanicNext ==
  ASSUME BasicInv, SemaphoreQueue, NoPanic, [Next]_vars
  PROVE  NoPanic'
<1> USE DEF NoPanic, threadVars, mutexVars, semVars, condVars
<1>a. ASSUME NEW t \in Tids, tstate[t] = "RUNNABLE" PROVE Alive
  BY <1>a DEF BasicInv, ThreadInv, Alive
<1>1. ASSUME NEW t \in Tids, condvar_resume(t) PROVE NoPanic'
  <2>1. mtx[t] \in Mutexes /\ mtx[t] < nextMutex /\ tstate[t] = "RUNNABLE"
    BY <1>1 DEF condvar_resume, Woken, BasicInv, ThreadInv, TypeOK, TypeThreads
  <2> QED
    BY <1>1, <1>a, <2>1, LockNoPanic DEF condvar_resume
<1>2. ASSUME NEW t \in Tids, Resume(t) PROVE NoPanic'
  BY <1>1, <1>2 DEF Resume, mutex_resume, spin_retry, semaphore_resume
<1>3. ASSUME NEW t \in Tids, NEW m \in Mutexes, sys_mutex_lock(t, m) PROVE NoPanic'
  <2> DEFINE mr == IF detect # 0 THEN [mReq EXCEPT ![m] = @ \ {t}] ELSE mReq
  <2>1. CASE mutex_lock(t, m, mr)
    <3> HIDE DEF mr
    <3> QED
      BY <1>3, <1>a, <2>1, LockNoPanic DEF sys_mutex_lock, Running
  <2> QED
    BY <1>3, <2>1 DEF sys_mutex_lock
<1>4. ASSUME NEW t \in Tids, MutexCall(t) PROVE NoPanic'
  BY <1>3, <1>4 DEF MutexCall, sys_mutex_create, sys_mutex_unlock
<1>5. ASSUME NEW t \in Tids, NEW s \in Semaphores, sys_semaphore_up(t, s) PROVE NoPanic'
  <2>1. ~up_panic(s, [sAlloc EXCEPT ![s][t] = Released(@)])
    BY <1>5, UpCount
  <2> QED
    BY <1>5, <2>1 DEF sys_semaphore_up, up_free, up_wake
<1>6. ASSUME NEW t \in Tids, NEW s \in Semaphores, sys_semaphore_down(t, s) PROVE NoPanic'
  <2>1. s \in CreatedSems /\ squeue[s] \in Seq(Tids) /\ tstate[t] = "RUNNABLE"
    BY <1>6, <1>a DEF sys_semaphore_down, Running, CreatedSems, BasicInv, TypeOK, TypeSems
  <2>2. QueueOf(squeue[s], "sem", s)
    BY <2>1 DEF BasicInv, QueueInv
  <2>3. t \notin ToSet(squeue[s]) /\ IsInjective(squeue[s])
    BY <2>1, <2>2, RunningNotQueued DEF QueueOf
  <2>4. Overflows(squeue[s]) = FALSE
    BY <2>1, <2>3, QueueHasRoom
  <2> QED
    BY <1>6, <2>4 DEF sys_semaphore_down, semaphore_down, down_free, down_wait
<1>7. ASSUME NEW t \in Tids, SemCall(t) PROVE NoPanic'
  BY <1>5, <1>6, <1>7 DEF SemCall, sys_semaphore_create
<1>8. ASSUME NEW t \in Tids, NEW c \in Condvars, NEW m \in Mutexes, sys_condvar_wait(t, c, m)
      PROVE NoPanic'
  <2>1. c \in CreatedConds /\ cqueue[c] \in Seq(Tids) /\ tstate[t] = "RUNNABLE"
    BY <1>8, <1>a DEF sys_condvar_wait, Running, CreatedConds, BasicInv, TypeOK, TypeConds
  <2>2. QueueOf(cqueue[c], "cond", c)
    BY <2>1 DEF BasicInv, QueueInv
  <2>3. t \notin ToSet(cqueue[c]) /\ IsInjective(cqueue[c])
    BY <2>1, <2>2, RunningNotQueued DEF QueueOf
  <2>4. Overflows(cqueue[c]) = FALSE
    BY <2>1, <2>3, QueueHasRoom
  <2> QED
    BY <1>8, <2>4 DEF sys_condvar_wait
<1>9. ASSUME NEW t \in Tids, CondCall(t) PROVE NoPanic'
  BY <1>8, <1>9 DEF CondCall, sys_condvar_create, sys_condvar_signal
<1>10. ASSUME NEW t \in Tids, ThreadCall(t) PROVE NoPanic'
  BY <1>10 DEF ThreadCall, sys_enable_deadlock_detect, sys_thread_create, sys_waittid, exit_thread
<1>11. CASE exit_process \/ allocproc \/ UNCHANGED vars
  BY <1>11 DEF exit_process, allocproc, vars
<1> QED
  BY <1>2, <1>4, <1>7, <1>9, <1>10, <1>11 DEF Next

\* What the two theorems below project from.
THEOREM CountInvariant ==
  ASSUME NaturalCounts
  PROVE  Spec => [](BasicInv /\ SemaphoreQueue /\ NoPanic)
<1>1. Init => BasicInv /\ SemaphoreQueue /\ NoPanic
  <2>1. Init => SemaphoreQueue /\ NoPanic
    BY DEF Init, SemaphoreQueue, NoPanic, CreatedSems, Semaphores
  <2> QED
    BY <2>1, TypeInit, ThreadInit, QueueInit DEF BasicInv
<1>2. BasicInv /\ SemaphoreQueue /\ NoPanic /\ [Next]_vars => (BasicInv /\ SemaphoreQueue /\ NoPanic)'
  BY TypeNext, ThreadNext, QueueNext, CountNext, PanicNext DEF BasicInv
<1> QED
  BY <1>1, <1>2, PTL DEF Spec

\* A negative count is the number of waiters (semaphore_up and semaphore_down
\* of sync.c), whoever ups or downs, for any number of threads and semaphores.
THEOREM CountTellsWaiters ==
  ASSUME NaturalCounts
  PROVE  Spec => []SemaphoreQueue
  BY CountInvariant, PTL

\* With wait queues of at least NTHREAD slots no push_queue overflows, and
\* semaphore_up never finds its queue empty: the synchronisation code cannot
\* panic the kernel.
THEOREM NeverPanics ==
  ASSUME NaturalCounts
  PROVE  Spec => []NoPanic
  BY CountInvariant, PTL

-----------------------------------------------------------------------------
(* The units of a semaphore *)

\* The units of semaphore s in the threads' hands, and those nobody holds.
HeldSum(s) == MapThenSumSet(LAMBDA t : Held(t, s), Tids)
Free(s) == IF count[s] > 0 THEN count[s] ELSE 0

\* The units add up, and nobody holds a unit of a semaphore that the process
\* has not created.
UnitsInv ==
    /\ \A s \in CreatedSems : Free(s) + HeldSum(s) = units[s]
    /\ \A s \in Semaphores : ~Alive \/ ~(s < nextSem) => \A t \in Tids : sheld[s][t] = 0

\* h lists what the threads hold of s, g sums it.
HeldIn(h, g, s) ==
    /\ \A t \in Tids : h[t] = Held(t, s) /\ h[t] \in Nat
    /\ IsSum(g, h, Tids)
    /\ HeldSum(s) = g[Tids]

\* HeldSum is such a sum.
HeldAdds == TypeOK => \A s \in Semaphores : \E h, g : HeldIn(h, g, s)

\* It is: MapThenSumSet unfolds to it.
LEMMA HeldIsSum == HeldAdds
<1> SUFFICES ASSUME TypeOK, NEW s \in Semaphores PROVE \E h, g : HeldIn(h, g, s)
  BY DEF HeldAdds
<1> DEFINE c == CHOOSE it : it = [r \in SUBSET Tids |->
                  IF r = {} THEN 0
                  ELSE LET x == CHOOSE x \in r : TRUE IN Held(x, s) + it[r \ {x}]]
<1>1. PICK h : h = [t \in Tids |-> Held(t, s)]
  OBVIOUS
<1>2. \A t \in Tids : h[t] = Held(t, s) /\ h[t] \in Nat
  BY <1>1 DEF Held, TypeOK, TypeSems
<1>3. IsFiniteSet(Tids) /\ IntOn(h, Tids)
  BY <1>2, FS_Interval, PoolAssumption DEF IntOn, Tids
<1>4. PICK g : IsSum(g, h, Tids)
  BY <1>3, SumExists
<1>5. \A r \in SUBSET Tids : r # {} => Pick(r) \in r /\ h[Pick(r)] = Held(Pick(r), s)
  BY <1>2, PickIn
<1>6. g = [r \in SUBSET Tids |->
            IF r = {} THEN 0 ELSE LET x == CHOOSE x \in r : TRUE IN Held(x, s) + g[r \ {x}]]
  BY <1>4, <1>5 DEF IsSum, Pick
<1>7. c = [r \in SUBSET Tids |->
            IF r = {} THEN 0 ELSE LET x == CHOOSE x \in r : TRUE IN Held(x, s) + c[r \ {x}]]
  BY <1>6, Zenon
<1>8. HeldSum(s) = c[Tids]
  BY DEF HeldSum, MapThenSumSet, MapThenFoldSet
<1> HIDE DEF c
<1>9. IsSum(c, h, Tids)
  BY <1>5, <1>7 DEF IsSum, Pick
<1> QED
  BY <1>2, <1>8, <1>9 DEF HeldIn

\* And so in the next state.
LEMMA HeldIsSumNext == HeldAdds'
  BY HeldIsSum, PTL

\* The threads are a finite set.
LEMMA TidsSet == IsFiniteSet(Tids) /\ 0 \in Tids
  BY FS_Interval, PoolAssumption DEF Tids

\* The units in the threads' hands change by what two of them gain or lose.
LEMMA HeldMoves ==
  ASSUME TypeOK, TypeOK', NEW s \in Semaphores, NEW t \in Tids, NEW w \in Tids, t # w,
         \A u \in Tids : u # t /\ u # w => Held(u, s)' = Held(u, s)
  PROVE  /\ HeldSum(s) \in Int
         /\ HeldSum(s)' = HeldSum(s) + (Held(t, s)' - Held(t, s)) + (Held(w, s)' - Held(w, s))
<1>1. PICK h, g : HeldIn(h, g, s)
  BY HeldIsSum DEF HeldAdds
<1>2. PICK k, f : HeldIn(k, f, s)'
  BY HeldIsSumNext DEF HeldAdds
<1>3. /\ \A u \in Tids : h[u] = Held(u, s) /\ h[u] \in Nat
      /\ IsSum(g, h, Tids) /\ HeldSum(s) = g[Tids]
  BY <1>1 DEF HeldIn
<1>4. /\ \A u \in Tids : k[u] = Held(u, s)' /\ k[u] \in Nat
      /\ IsSum(f, k, Tids) /\ HeldSum(s)' = f[Tids]
  BY <1>2 DEF HeldIn
<1>5. PICK m : m = [u \in Tids |-> IF u = t THEN k[u] ELSE h[u]]
  OBVIOUS
<1>6. IntOn(h, Tids) /\ IntOn(k, Tids) /\ IntOn(m, Tids)
  BY <1>3, <1>4, <1>5 DEF IntOn
<1>7. PICK e : IsSum(e, m, Tids)
  BY <1>6, TidsSet, SumExists
<1>8. g[Tids] \in Int /\ e[Tids] = g[Tids] + (m[t] - h[t])
  <2>1. OnlyAt(h, m, t, Tids)
    BY <1>5 DEF OnlyAt
  <2>2. IsSum(g, h, Tids) /\ IsSum(e, m, Tids) /\ IntOn(h, Tids) /\ IntOn(m, Tids)
    BY <1>3, <1>6, <1>7
  <2>3. SumMoves(g, h, e, m, t, Tids)
    BY <2>1, <2>2, TidsSet, SumUpdate, Zenon
  <2> QED
    BY <2>3 DEF SumMoves
<1>9. e[Tids] \in Int /\ f[Tids] = e[Tids] + (k[w] - m[w])
  <2>1. OnlyAt(m, k, w, Tids)
    BY <1>3, <1>4, <1>5 DEF OnlyAt
  <2>2. IsSum(e, m, Tids) /\ IsSum(f, k, Tids) /\ IntOn(m, Tids) /\ IntOn(k, Tids)
    BY <1>4, <1>6, <1>7
  <2>3. SumMoves(e, m, f, k, w, Tids)
    BY <2>1, <2>2, TidsSet, SumUpdate, Zenon
  <2> QED
    BY <2>3 DEF SumMoves
<1>10. m[t] = k[t] /\ m[w] = h[w]
  BY <1>5
<1> QED
  BY <1>3, <1>4, <1>8, <1>9, <1>10

\* One thread's part changes: the sum changes by as much.
LEMMA HeldMove ==
  ASSUME TypeOK, TypeOK', NEW s \in Semaphores, NEW t \in Tids,
         \A u \in Tids : u # t => Held(u, s)' = Held(u, s)
  PROVE  /\ HeldSum(s) \in Int
         /\ HeldSum(s)' = HeldSum(s) + (Held(t, s)' - Held(t, s))
<1>1. PICK h, g : HeldIn(h, g, s)
  BY HeldIsSum DEF HeldAdds
<1>2. PICK k, f : HeldIn(k, f, s)'
  BY HeldIsSumNext DEF HeldAdds
<1>3. /\ \A u \in Tids : h[u] = Held(u, s) /\ h[u] \in Nat
      /\ IsSum(g, h, Tids) /\ HeldSum(s) = g[Tids]
  BY <1>1 DEF HeldIn
<1>4. /\ \A u \in Tids : k[u] = Held(u, s)' /\ k[u] \in Nat
      /\ IsSum(f, k, Tids) /\ HeldSum(s)' = f[Tids]
  BY <1>2 DEF HeldIn
<1>5. IntOn(h, Tids) /\ IntOn(k, Tids)
  BY <1>3, <1>4 DEF IntOn
<1>6. g[Tids] \in Int /\ f[Tids] = g[Tids] + (k[t] - h[t])
  <2>1. OnlyAt(h, k, t, Tids)
    BY <1>3, <1>4 DEF OnlyAt
  <2>2. IsSum(g, h, Tids) /\ IsSum(f, k, Tids) /\ IntOn(h, Tids) /\ IntOn(k, Tids)
    BY <1>3, <1>4, <1>5
  <2>3. SumMoves(g, h, f, k, t, Tids)
    BY <2>1, <2>2, TidsSet, SumUpdate, Zenon
  <2> QED
    BY <2>3 DEF SumMoves
<1> QED
  BY <1>3, <1>4, <1>6

\* Nobody's part changes: neither does the sum.
LEMMA HeldStays ==
  ASSUME TypeOK, TypeOK', NEW s \in Semaphores, \A u \in Tids : Held(u, s)' = Held(u, s)
  PROVE  HeldSum(s) \in Int /\ HeldSum(s)' = HeldSum(s)
<1>1. HeldSum(s) \in Int /\ HeldSum(s)' = HeldSum(s) + (Held(0, s)' - Held(0, s))
  BY TidsSet, HeldMove
<1>2. Held(0, s) \in Int /\ Held(0, s)' = Held(0, s)
  BY TidsSet DEF Held, TypeOK, TypeSems
<1> QED
  BY <1>1, <1>2

\* Nobody holds any: the sum is 0.
LEMMA HeldNone ==
  ASSUME TypeOK', NEW s \in Semaphores, \A u \in Tids : Held(u, s)' = 0
  PROVE  HeldSum(s)' = 0
<1>1. PICK k, f : HeldIn(k, f, s)'
  BY HeldIsSumNext DEF HeldAdds
<1>2. /\ \A u \in Tids : k[u] = 0
      /\ IsSum(f, k, Tids) /\ HeldSum(s)' = f[Tids]
  BY <1>1 DEF HeldIn
<1>3. f[Tids] = 0
  BY <1>2, TidsSet, SumZero, Zenon
<1> QED
  BY <1>2, <1>3

\* What the threads hold of a semaphore, when nobody's part in it changes.
SameHeld(s) == \A u \in Tids : Held(u, s)' = Held(u, s)

\* Then the semaphore stays in balance.
LEMMA UnitsKept ==
  ASSUME TypeOK, TypeOK', NEW s \in Semaphores, SameHeld(s),
         Free(s) + HeldSum(s) = units[s], Free(s)' = Free(s), units'[s] = units[s]
  PROVE  Free(s)' + HeldSum(s)' = units'[s]
  BY HeldStays DEF SameHeld

\* One cell of a matrix of naturals is set.
LEMMA CellAt ==
  ASSUME NEW S, NEW T, NEW f \in [S -> [T -> Nat]], NEW s \in S, NEW t \in T, NEW n,
         NEW g, g = [f EXCEPT ![s][t] = n]
  PROVE  \A x \in S, u \in T : g[x][u] = IF x = s /\ u = t THEN n ELSE f[x][u]
<1> SUFFICES ASSUME NEW x \in S, NEW u \in T
             PROVE  g[x][u] = IF x = s /\ u = t THEN n ELSE f[x][u]
  OBVIOUS
<1>1. CASE x = s
  <2>1. g[x] = [f[x] EXCEPT ![t] = n] /\ f[x] \in [T -> Nat]
    BY <1>1
  <2> QED
    BY <1>1, <2>1
<1>2. CASE x # s
  BY <1>2
<1> QED
  BY <1>1, <1>2

\* The values of a semaphore.
SemValue(s) ==
    /\ count[s] \in Int /\ units[s] \in Int /\ Free(s) \in Nat /\ squeue[s] \in Seq(Tids)
    /\ \A u \in Tids : sheld[s][u] \in Nat /\ Held(u, s) \in Nat

\* The types of a semaphore's counters, one semaphore at a time.
LEMMA SemValues ==
  ASSUME BasicInv, NEW s \in Semaphores
  PROVE  SemValue(s)
<1>1. /\ count[s] \in Int /\ units[s] \in Int /\ squeue[s] \in Seq(Tids)
      /\ \A u \in Tids : sheld[s][u] \in Nat
  BY DEF BasicInv, TypeOK, TypeSems
<1> QED
  BY <1>1 DEF SemValue, Free, Held

\* A thread that is running belongs to a living process; created objects are as they were.
LEMMA RunsAlive ==
  ASSUME BasicInv, NEW t \in Tids, tstate[t] = "RUNNABLE"
  PROVE  Alive /\ nextSem \in Nat
  BY DEF BasicInv, ThreadInv, Alive, TypeOK, TypeSems

\* Units of one semaphore move, the others' stay.
OthersKept(s) ==
    \A x \in Semaphores : x # s => /\ SameHeld(x) /\ count'[x] = count[x] /\ units'[x] = units[x]

LEMMA UnitsAround ==
  ASSUME BasicInv, TypeOK', UnitsInv, Alive, Alive', nextSem' = nextSem, NEW s, OthersKept(s),
         s \in CreatedSems => Free(s)' + HeldSum(s)' = units'[s],
         \A x \in Semaphores : ~(x < nextSem) => \A u \in Tids : sheld'[x][u] = 0
  PROVE  UnitsInv'
<1>1. CreatedSems' = CreatedSems
  BY DEF CreatedSems
<1>2. ASSUME NEW x \in CreatedSems, x # s
      PROVE  Free(x)' + HeldSum(x)' = units'[x]
  <2>1. /\ x \in Semaphores /\ Free(x) + HeldSum(x) = units[x] /\ SameHeld(x)
        /\ Free(x)' = Free(x) /\ units'[x] = units[x]
    BY <1>2 DEF UnitsInv, Free, CreatedSems, OthersKept
  <2> QED
    BY <2>1, UnitsKept DEF BasicInv
<1> QED
  BY <1>1, <1>2 DEF UnitsInv

\* Steps that leave the semaphores and the threads inside them alone.
LEMMA UnitsFrame ==
  ASSUME BasicInv, TypeOK', UnitsInv, UNCHANGED <<nextSem, count, sheld, units>>, (Alive' <=> Alive),
         \A u \in Tids : \/ tstate'[u] = tstate[u] /\ pc'[u] = pc[u] /\ obj'[u] = obj[u]
                         \/ pc[u] # "sem" /\ pc'[u] # "sem"
  PROVE  UnitsInv'
<1>1. \A s \in Semaphores : SameHeld(s)
  BY DEF SameHeld, Held, Woken
<1>2. CreatedSems' = CreatedSems
  BY DEF CreatedSems
<1>3. ASSUME NEW s \in CreatedSems
      PROVE  Free(s)' + HeldSum(s)' = units'[s]
  <2>1. s \in Semaphores /\ Free(s) + HeldSum(s) = units[s] /\ Free(s)' = Free(s) /\ units'[s] = units[s]
    BY DEF CreatedSems, UnitsInv, Free
  <2> QED
    BY <1>1, <2>1, UnitsKept DEF BasicInv
<1>4. \A s \in Semaphores : ~Alive' \/ ~(s < nextSem') => \A t \in Tids : sheld'[s][t] = 0
  BY DEF UnitsInv
<1> QED
  BY <1>2, <1>3, <1>4 DEF UnitsInv

\* A semaphore comes with the units it is created with, all of them free.
LEMMA CreateUnits ==
  ASSUME NaturalCounts, BasicInv, TypeOK', UnitsInv, NEW t \in Tids, NEW n \in SEM_COUNTS,
         sys_semaphore_create(t, n)
  PROVE  UnitsInv'
<1>1. tstate[t] = "RUNNABLE" /\ nextSem < NSEM /\ nextSem' = nextSem + 1 /\ n \in Nat
  BY DEF sys_semaphore_create, Running, NaturalCounts
<1>2. Alive /\ nextSem \in Nat
  BY <1>1, RunsAlive
<1>3. UNCHANGED <<tstate, pc, obj, sheld>> /\ Alive'
  BY <1>2 DEF sys_semaphore_create, threadVars, Alive
<1>4. PICK s \in Semaphores : s = nextSem
  BY <1>1, <1>2, PoolAssumption DEF Semaphores
<1>5. /\ \A x \in Semaphores : count'[x] = IF x = s THEN n ELSE count[x]
      /\ \A x \in Semaphores : units'[x] = IF x = s THEN n ELSE units[x]
  BY <1>4 DEF sys_semaphore_create, BasicInv, TypeOK, TypeSems
<1>6. \A x \in Semaphores : SameHeld(x)
  BY <1>3 DEF SameHeld, Held, Woken
<1>7. Free(s)' + HeldSum(s)' = units'[s]
  <2>1. \A u \in Tids : sheld[s][u] = 0
    BY <1>2, <1>4 DEF UnitsInv
  <2>2. \A u \in Tids : Woken(u, "sem") => obj[u] # s
    <3>1. \A u \in Tids : Woken(u, "sem") => obj[u] < nextSem
      BY DEF Woken, BasicInv, ThreadInv
    <3> QED
      BY <1>2, <1>4, <3>1
  <2>3. \A u \in Tids : Held(u, s)' = 0
    BY <1>3, <2>1, <2>2 DEF Held, Woken
  <2>4. HeldSum(s)' = 0
    BY <2>3, HeldNone
  <2>5. count'[s] = n /\ units'[s] = n
    BY <1>5
  <2>6. Free(s)' = n
    BY <1>1, <2>5 DEF Free
  <2> QED
    BY <1>1, <2>4, <2>5, <2>6
<1>8. ASSUME NEW x \in Semaphores, x < nextSem', x # s
      PROVE  Free(x)' + HeldSum(x)' = units'[x]
  <2>1. x \in CreatedSems
    BY <1>1, <1>2, <1>4, <1>8 DEF CreatedSems, Semaphores
  <2>2. /\ Free(x) + HeldSum(x) = units[x] /\ Free(x)' = Free(x) /\ units'[x] = units[x]
        /\ SameHeld(x)
    BY <1>5, <1>6, <1>8, <2>1 DEF UnitsInv, Free
  <2> QED
    BY <2>2, UnitsKept DEF BasicInv
<1>9. \A x \in CreatedSems' : Free(x)' + HeldSum(x)' = units'[x]
  BY <1>7, <1>8 DEF CreatedSems
<1>10. \A x \in Semaphores : ~(x < nextSem') => ~(x < nextSem)
  BY <1>1, <1>2 DEF Semaphores
<1> QED
  BY <1>3, <1>9, <1>10 DEF UnitsInv

\* An up frees a unit or passes it on, or brings a new one into circulation.
LEMMA UpUnits ==
  ASSUME BasicInv, TypeOK', SemaphoreQueue, UnitsInv, NEW t \in Tids, NEW s \in Semaphores,
         sys_semaphore_up(t, s)
  PROVE  UnitsInv'
<1>1. /\ tstate[t] = "RUNNABLE" /\ pc[t] = "user" /\ s < nextSem /\ nextSem' = nextSem
      /\ pc' = pc /\ obj' = obj
  BY DEF sys_semaphore_up, Running
<1>2. Alive /\ s \in CreatedSems
  BY <1>1, RunsAlive DEF CreatedSems
<1>3. SemValue(s)
  BY SemValues
<1>4. PICK r \in {0, 1} : r = IF sheld[s][t] > 0 THEN 1 ELSE 0
  OBVIOUS
<1>5. sheld[s][t] \in Nat /\ sheld[s][t] - r \in Nat /\ Released(sheld[s][t]) = sheld[s][t] - r
  BY <1>3, <1>4 DEF SemValue, Released
<1>6. /\ \A x \in Semaphores : count'[x] = IF x = s THEN count[s] + 1 ELSE count[x]
      /\ \A x \in Semaphores : x # s => units'[x] = units[x]
  BY DEF sys_semaphore_up, BasicInv, TypeOK, TypeSems
<1>7. units'[s] = units[s] + (1 - r)
  <2>1. units'[s] = IF sheld[s][t] > 0 THEN units[s] ELSE units[s] + 1
    BY DEF sys_semaphore_up, BasicInv, TypeOK, TypeSems
  <2> QED
    BY <1>3, <1>4, <2>1 DEF SemValue
<1>8. \A x \in Semaphores, u \in Tids :
          sheld'[x][u] = IF x = s /\ u = t THEN sheld[s][t] - r ELSE sheld[x][u]
  <2>1. sheld' = [sheld EXCEPT ![s][t] = Released(sheld[s][t])]
    BY DEF sys_semaphore_up
  <2>2. sheld \in [Semaphores -> [Tids -> Nat]]
    BY DEF BasicInv, TypeOK, TypeSems
  <2> QED
    BY <1>5, <2>1, <2>2, CellAt
<1>9. Free(s) + HeldSum(s) = units[s]
  BY <1>2 DEF UnitsInv
<1>10. \/ ~MustWake(s) /\ tstate' = tstate
       \/ MustWake(s) /\ squeue[s] # <<>> /\ tstate' = Wake({Head(squeue[s])})
  <2>1. ~up_panic(s, [sAlloc EXCEPT ![s][t] = Released(@)])
    BY UpCount
  <2> QED
    BY <2>1 DEF sys_semaphore_up, up_free, up_wake
<1>11. \A x \in Semaphores : ~(x < nextSem) => \A u \in Tids : sheld'[x][u] = 0
  BY <1>1, <1>8 DEF UnitsInv
<1>12. CASE ~MustWake(s) /\ tstate' = tstate
  <2>1. \A u \in Tids : u # t => Held(u, s)' = Held(u, s)
    BY <1>1, <1>8, <1>12 DEF Held, Woken
  <2>2. Held(t, s) = sheld[s][t] /\ Held(t, s)' = sheld[s][t] - r
    BY <1>1, <1>5, <1>8, <1>12 DEF Held, Woken
  <2>3. HeldSum(s) \in Int /\ HeldSum(s)' = HeldSum(s) + (Held(t, s)' - Held(t, s))
    BY <2>1, HeldMove DEF BasicInv
  <2>4. HeldSum(s)' = HeldSum(s) - r
    BY <1>5, <2>2, <2>3
  <2>5. Free(s)' = Free(s) + 1 /\ Free(s) \in Nat
    BY <1>3, <1>6, <1>12 DEF Free, MustWake, SemValue
  <2>6. Free(s)' + HeldSum(s)' = units'[s]
    BY <1>7, <1>9, <2>3, <2>4, <2>5
  <2>7. OthersKept(s)
    BY <1>1, <1>6, <1>8, <1>12 DEF OthersKept, SameHeld, Held, Woken
  <2>8. Alive'
    BY <1>2, <1>12 DEF Alive
  <2> QED
    BY <1>1, <1>2, <1>11, <2>6, <2>7, <2>8, UnitsAround
<1>13. CASE MustWake(s) /\ squeue[s] # <<>> /\ tstate' = Wake({Head(squeue[s])})
  <2>1. Head(squeue[s]) \in Sleepers("sem", s)
    <3>1. QueueOf(squeue[s], "sem", s)
      BY <1>2 DEF BasicInv, QueueInv
    <3> QED
      BY <1>3, <1>13, <3>1, TailQueue DEF QueueOf, SemValue
  <2>2. PICK w \in Tids : w = Head(squeue[s]) /\ Asleep(w, "sem", s)
    BY <2>1 DEF Sleepers
  <2>3. /\ w # t /\ tstate[w] = "SLEEPING" /\ pc[w] = "sem" /\ obj[w] = s
        /\ \A u \in Tids : tstate'[u] = IF u = w THEN "RUNNABLE" ELSE tstate[u]
    BY <1>1, <1>13, <2>2 DEF Asleep, Wake
  <2>4. Held(w, s)' = Held(w, s) + 1 /\ Held(w, s) \in Nat
    <3>1. sheld'[s][w] = sheld[s][w] /\ sheld[s][w] \in Nat /\ Held(w, s) \in Nat
      BY <1>3, <1>8, <2>3 DEF SemValue
    <3>2. Held(w, s) = sheld[s][w] + 0
      BY <2>3 DEF Held, Woken
    <3>3. Held(w, s)' = sheld'[s][w] + 1
      BY <1>1, <2>3 DEF Held, Woken
    <3> QED
      BY <3>1, <3>2, <3>3
  <2>5. \A u \in Tids : u # t /\ u # w => Held(u, s)' = Held(u, s)
    BY <1>1, <1>8, <2>3 DEF Held, Woken
  <2>6. Held(t, s) = sheld[s][t] /\ Held(t, s)' = sheld[s][t] - r
    BY <1>1, <1>5, <1>8, <2>3 DEF Held, Woken
  <2>7. /\ HeldSum(s) \in Int
        /\ HeldSum(s)' = HeldSum(s) + (Held(t, s)' - Held(t, s)) + (Held(w, s)' - Held(w, s))
    BY <2>3, <2>5, HeldMoves DEF BasicInv
  <2>8. HeldSum(s)' = (HeldSum(s) - r) + 1
    BY <1>5, <2>4, <2>6, <2>7
  <2>9. Free(s)' = 0 /\ Free(s) = 0
    BY <1>3, <1>6, <1>13 DEF Free, MustWake, SemValue
  <2>10. Free(s)' + HeldSum(s)' = units'[s]
    BY <1>7, <1>9, <2>7, <2>8, <2>9
  <2>11. OthersKept(s)
    BY <1>1, <1>6, <1>8, <2>3 DEF OthersKept, SameHeld, Held, Woken
  <2>12. Alive'
    BY <1>2, <2>3, TidsSet DEF Alive
  <2> QED
    BY <1>1, <1>2, <1>11, <2>10, <2>11, <2>12, UnitsAround
<1> QED
  BY <1>10, <1>12, <1>13

\* A down takes a free unit, or waits and takes none.
LEMMA DownUnits ==
  ASSUME BasicInv, TypeOK', UnitsInv, NEW t \in Tids, NEW s \in Semaphores,
         sys_semaphore_down(t, s)
  PROVE  UnitsInv'
<1>1. /\ tstate[t] = "RUNNABLE" /\ pc[t] = "user" /\ s < nextSem
      /\ nextSem' = nextSem /\ units' = units
  BY DEF sys_semaphore_down, Running
<1>2. Alive /\ s \in CreatedSems
  BY <1>1, RunsAlive DEF CreatedSems
<1>3. SemValue(s)
  BY SemValues
<1>4. \/ UNCHANGED <<tstate, pc, obj, count, sheld>>
      \/ /\ ~MustWait(s) /\ UNCHANGED <<tstate, pc, obj>>
         /\ count' = [count EXCEPT ![s] = @ - 1]
         /\ sheld' = [sheld EXCEPT ![s][t] = sheld[s][t] + 1]
      \/ /\ MustWait(s) /\ sheld' = sheld
         /\ count' = [count EXCEPT ![s] = @ - 1]
         /\ tstate' = [tstate EXCEPT ![t] = "SLEEPING"]
         /\ pc' = [pc EXCEPT ![t] = "sem"]
         /\ obj' = [obj EXCEPT ![t] = s]
  BY DEF sys_semaphore_down, semaphore_down, down_free, down_wait, Suspend
<1>5. CASE UNCHANGED <<tstate, pc, obj, count, sheld>>
  BY <1>1, <1>5, UnitsFrame DEF Alive
<1>6. Free(s) + HeldSum(s) = units[s]
  BY <1>2 DEF UnitsInv
<1>7. \A x \in Semaphores : ~(x < nextSem) => \A u \in Tids : sheld[x][u] = 0
  BY DEF UnitsInv
<1>8. ASSUME count' = [count EXCEPT ![s] = @ - 1]
      PROVE  \A x \in Semaphores : count'[x] = IF x = s THEN count[s] - 1 ELSE count[x]
  BY <1>8 DEF BasicInv, TypeOK, TypeSems
<1>9. CASE /\ ~MustWait(s) /\ UNCHANGED <<tstate, pc, obj>>
           /\ count' = [count EXCEPT ![s] = @ - 1]
           /\ sheld' = [sheld EXCEPT ![s][t] = sheld[s][t] + 1]
  <2>1. \A x \in Semaphores, u \in Tids :
              sheld'[x][u] = IF x = s /\ u = t THEN sheld[s][t] + 1 ELSE sheld[x][u]
    <3>1. sheld \in [Semaphores -> [Tids -> Nat]]
      BY DEF BasicInv, TypeOK, TypeSems
    <3> QED
      BY <1>9, <3>1, CellAt
  <2>2. \A u \in Tids : u # t => Held(u, s)' = Held(u, s)
    BY <1>9, <2>1 DEF Held, Woken
  <2>3. Held(t, s)' = Held(t, s) + 1 /\ Held(t, s) \in Nat
    <3>1. Held(t, s) = sheld[s][t] + 0 /\ Held(t, s)' = sheld'[s][t] + 0
      BY <1>1, <1>9 DEF Held, Woken
    <3> QED
      BY <1>3, <2>1, <3>1 DEF SemValue
  <2>4. HeldSum(s) \in Int /\ HeldSum(s)' = HeldSum(s) + (Held(t, s)' - Held(t, s))
    BY <2>2, HeldMove DEF BasicInv
  <2>5. Free(s)' = Free(s) - 1 /\ Free(s) \in Nat
    BY <1>3, <1>8, <1>9 DEF Free, MustWait, SemValue
  <2>6. Free(s)' + HeldSum(s)' = units'[s]
    BY <1>1, <1>6, <2>3, <2>4, <2>5
  <2>7. OthersKept(s)
    BY <1>1, <1>8, <1>9, <2>1 DEF OthersKept, SameHeld, Held, Woken
  <2>8. Alive'
    BY <1>2, <1>9 DEF Alive
  <2>9. \A x \in Semaphores : ~(x < nextSem) => \A u \in Tids : sheld'[x][u] = 0
    BY <1>1, <1>7, <2>1
  <2> QED
    BY <1>1, <1>2, <2>6, <2>7, <2>8, <2>9, UnitsAround
<1>10. CASE /\ MustWait(s) /\ sheld' = sheld
            /\ count' = [count EXCEPT ![s] = @ - 1]
            /\ tstate' = [tstate EXCEPT ![t] = "SLEEPING"]
            /\ pc' = [pc EXCEPT ![t] = "sem"]
            /\ obj' = [obj EXCEPT ![t] = s]
  <2>0. /\ \A u \in Tids : u # t => tstate'[u] = tstate[u] /\ pc'[u] = pc[u] /\ obj'[u] = obj[u]
        /\ tstate'[t] = "SLEEPING"
    BY <1>10 DEF BasicInv, TypeOK, TypeThreads
  <2>1. \A x \in Semaphores : SameHeld(x)
    BY <1>1, <1>10, <2>0 DEF SameHeld, Held, Woken
  <2>2. Free(s)' = Free(s)
    BY <1>3, <1>8, <1>10 DEF Free, MustWait, SemValue
  <2>3. Free(s)' + HeldSum(s)' = units'[s]
    BY <1>1, <1>6, <2>1, <2>2, UnitsKept DEF BasicInv
  <2>4. Alive'
    BY <1>2, <2>0, TidsSet DEF Alive
  <2>5. OthersKept(s)
    BY <1>1, <1>8, <1>10, <2>1 DEF OthersKept
  <2>6. \A x \in Semaphores : ~(x < nextSem) => \A u \in Tids : sheld'[x][u] = 0
    BY <1>7, <1>10
  <2> QED
    BY <1>1, <1>2, <2>3, <2>4, <2>5, <2>6, UnitsAround
<1> QED
  BY <1>4, <1>5, <1>9, <1>10

\* A woken waiter has held its unit since the up that woke it.
LEMMA ResumeUnits ==
  ASSUME BasicInv, TypeOK', UnitsInv, NEW t \in Tids, semaphore_resume(t)
  PROVE  UnitsInv'
<1>1. PICK s \in Semaphores : s = obj[t]
  BY DEF semaphore_resume, Woken, BasicInv, TypeOK, TypeThreads
<1>2. /\ tstate[t] = "RUNNABLE" /\ pc[t] = "sem"
      /\ UNCHANGED <<tstate, obj, nextSem, count, units>>
  BY DEF semaphore_resume, Woken
<1>3. Alive /\ s < nextSem
  BY <1>1, <1>2, RunsAlive DEF BasicInv, ThreadInv
<1>4. \A u \in Tids : pc'[u] = IF u = t THEN "user" ELSE pc[u]
  BY DEF semaphore_resume, Return, BasicInv, TypeOK, TypeThreads
<1>5. \A x \in Semaphores, u \in Tids :
              sheld'[x][u] = IF x = s /\ u = t THEN sheld[s][t] + 1 ELSE sheld[x][u]
  <2>1. sheld' = [sheld EXCEPT ![s][t] = sheld[s][t] + 1]
    BY <1>1 DEF semaphore_resume
  <2>2. sheld \in [Semaphores -> [Tids -> Nat]]
    BY DEF BasicInv, TypeOK, TypeSems
  <2> QED
    BY <2>1, <2>2, CellAt
<1>6. ASSUME NEW x \in Semaphores, NEW u \in Tids
      PROVE  Held(u, x)' = Held(u, x)
  <2>1. CASE u # t
    BY <1>2, <1>4, <1>5, <2>1 DEF Held, Woken
  <2>2. CASE u = t
    <3>1. Held(t, x) = sheld[x][t] + (IF s = x THEN 1 ELSE 0) /\ Held(t, x)' = sheld'[x][t] + 0
      BY <1>1, <1>2, <1>4 DEF Held, Woken
    <3>2. sheld[x][t] \in Nat
      BY SemValues DEF SemValue
    <3> QED
      BY <1>5, <2>2, <3>1, <3>2
  <2> QED
    BY <2>1, <2>2
<1>7. \A x \in Semaphores : SameHeld(x)
  BY <1>6 DEF SameHeld
<1>8. Alive'
  BY <1>2, <1>3 DEF Alive
<1>9. \A x \in Semaphores : ~(x < nextSem) => \A u \in Tids : sheld'[x][u] = 0
  BY <1>3, <1>5 DEF UnitsInv
<1>10. OthersKept(NSEM)
  BY <1>2, <1>7 DEF OthersKept
<1>11. NSEM \notin CreatedSems
  BY PoolAssumption DEF CreatedSems, Semaphores
<1> QED
  BY <1>2, <1>3, <1>8, <1>9, <1>10, <1>11, UnitsAround

\* A thread that exits takes its units out of circulation.
LEMMA ExitUnits ==
  ASSUME BasicInv, TypeOK', UnitsInv, NEW t \in Tids, exit_thread(t)
  PROVE  UnitsInv'
<1>1. /\ tstate[t] = "RUNNABLE" /\ pc[t] = "user" /\ t # 0
      /\ UNCHANGED <<pc, obj, nextSem, count>>
  BY DEF exit_thread, Running
<1>2. Alive
  BY <1>1, RunsAlive
<1>3. \A u \in Tids : tstate'[u] = IF u = t THEN "EXITED" ELSE tstate[u]
  BY DEF exit_thread, BasicInv, TypeOK, TypeThreads
<1>4. \A x \in Semaphores, u \in Tids : sheld'[x][u] = IF u = t THEN 0 ELSE sheld[x][u]
  <2>1. \A x \in Semaphores : sheld'[x] = [sheld[x] EXCEPT ![t] = 0] /\ sheld[x] \in [Tids -> Nat]
    BY DEF exit_thread, BasicInv, TypeOK, TypeSems
  <2> QED
    BY <2>1
<1>5. \A x \in Semaphores : units'[x] = units[x] - sheld[x][t]
  BY DEF exit_thread
<1>6. CreatedSems' = CreatedSems /\ Alive'
  BY <1>1, <1>2, <1>3, TidsSet DEF CreatedSems, Alive
<1>7. ASSUME NEW s \in CreatedSems
      PROVE  Free(s)' + HeldSum(s)' = units'[s]
  <2>1. s \in Semaphores /\ Free(s) + HeldSum(s) = units[s] /\ Free(s)' = Free(s)
    BY <1>1 DEF UnitsInv, CreatedSems, Free
  <2>2. SemValue(s)
    BY <2>1, SemValues
  <2>3. \A u \in Tids : u # t => Held(u, s)' = Held(u, s)
    BY <1>1, <1>3, <1>4, <2>1 DEF Held, Woken
  <2>4. Held(t, s)' = 0 /\ Held(t, s) = sheld[s][t]
    <3>1. Held(t, s)' = sheld'[s][t] + 0 /\ Held(t, s) = sheld[s][t] + 0
      BY <1>1, <1>3 DEF Held, Woken
    <3> QED
      BY <1>4, <2>1, <2>2, <3>1 DEF SemValue
  <2>5. HeldSum(s) \in Int /\ HeldSum(s)' = HeldSum(s) + (Held(t, s)' - Held(t, s))
    BY <2>1, <2>3, HeldMove DEF BasicInv
  <2>6. HeldSum(s)' = HeldSum(s) - sheld[s][t]
    BY <2>2, <2>4, <2>5 DEF SemValue
  <2> QED
    BY <1>5, <2>1, <2>2, <2>5, <2>6 DEF SemValue
<1>8. \A x \in Semaphores : ~(x < nextSem') => \A u \in Tids : sheld'[x][u] = 0
  BY <1>1, <1>4 DEF UnitsInv
<1> QED
  BY <1>6, <1>7, <1>8 DEF UnitsInv

\* The thread that mutex_unlock wakes waits for a mutex, not for a semaphore.
LEMMA OwnersAreNotAtSem ==
  ASSUME BasicInv, Alive, NEW m \in Mutexes, m < nextMutex, NEW u \in NextOwner(m)
  PROVE  pc[u] # "sem"
<1>1. m \in CreatedBlocking /\ mqueue[m] # <<>> /\ u = Head(mqueue[m])
  BY DEF NextOwner, CreatedBlocking
<1>2. QueueOf(mqueue[m], "mutex", m) /\ mqueue[m] \in Seq(Tids)
  BY <1>1 DEF BasicInv, QueueInv, TypeOK, TypeMutexes
<1>3. u \in Sleepers("mutex", m)
  BY <1>1, <1>2, TailQueue DEF QueueOf
<1> QED
  BY <1>3 DEF Sleepers, Asleep

\* Only threads outside the semaphores go on, wait or wake.
OffSem ==
    \A u \in Tids :
        \/ tstate'[u] = tstate[u] /\ pc'[u] = pc[u] /\ obj'[u] = obj[u]
        \/ pc[u] # "sem" /\ pc'[u] # "sem"

\* Nothing happens to the other threads.
OthersSame(t) ==
    \A u \in Tids : u # t => tstate'[u] = tstate[u] /\ pc'[u] = pc[u] /\ obj'[u] = obj[u]

\* A step of one thread that neither starts nor ends inside a semaphore.
LEMMA OneOffSem ==
  ASSUME Alive, NEW t \in Tids, OthersSame(t), pc[t] # "sem", pc'[t] # "sem",
         t = 0 => tstate'[t] # "T_UNUSED"
  PROVE  OffSem /\ Alive'
<1>1. OffSem
  <2>1. ASSUME NEW u \in Tids
        PROVE  \/ tstate'[u] = tstate[u] /\ pc'[u] = pc[u] /\ obj'[u] = obj[u]
               \/ pc[u] # "sem" /\ pc'[u] # "sem"
    <3>1. CASE u = t
      BY <3>1
    <3>2. CASE u # t
      BY <3>2 DEF OthersSame
    <3> QED
      BY <3>1, <3>2
  <2> QED
    BY <2>1, Zenon DEF OffSem
<1>2. tstate'[0] # "T_UNUSED"
  BY TidsSet DEF OthersSame, Alive
<1> QED
  BY <1>1, <1>2 DEF Alive

\* The types of the thread table, one by one.
LEMMA ThreadTypes ==
  ASSUME BasicInv
  PROVE  /\ tstate = [t \in Tids |-> tstate[t]]
         /\ pc = [t \in Tids |-> pc[t]]
         /\ obj = [t \in Tids |-> obj[t]]
  BY DEF BasicInv, TypeOK, TypeThreads

\* mutex_lock by a thread outside the semaphores.
LEMMA LockOffSem ==
  ASSUME BasicInv, NEW t \in Tids, NEW m, NEW mr, pc[t] # "sem", tstate[t] = "RUNNABLE",
         mutex_lock(t, m, mr)
  PROVE  OffSem /\ Alive'
<1>1. Alive
  BY RunsAlive
<1>2. /\ \/ tstate' = tstate
         \/ tstate' = [tstate EXCEPT ![t] = "SLEEPING"]
      /\ \/ pc' = [pc EXCEPT ![t] = "user"] /\ obj' = obj
         \/ \E c \in {"spin", "mutex"} : pc' = [pc EXCEPT ![t] = c] /\ obj' = [obj EXCEPT ![t] = m]
  BY DEF mutex_lock, lock_free, lock_spin, lock_block, Return, Suspend
<1>3. OthersSame(t)
  BY <1>2, ThreadTypes DEF OthersSame
<1>4. pc'[t] # "sem" /\ tstate'[t] # "T_UNUSED"
  BY <1>2, ThreadTypes
<1> QED
  BY <1>1, <1>3, <1>4, OneOffSem

\* Every step keeps the units in balance.
LEMMA UnitsNext ==
  ASSUME NaturalCounts, BasicInv, TypeOK', SemaphoreQueue, UnitsInv, [Next]_vars
  PROVE  UnitsInv'
<1> USE DEF threadVars, mutexVars, semVars, condVars
<1>a. ASSUME UNCHANGED <<nextSem, count, sheld, units>>, (Alive' <=> Alive), OffSem
      PROVE  UnitsInv'
  BY <1>a, UnitsFrame DEF OffSem
<1>b. ASSUME NEW t \in Tids, tstate[t] = "RUNNABLE" PROVE Alive
  BY <1>b, RunsAlive
<1>c. ASSUME UNCHANGED <<tstate, pc, obj, nextSem, count, sheld, units>>
      PROVE  UnitsInv'
  <2>1. UNCHANGED <<nextSem, count, sheld, units>> /\ tstate' = tstate /\ pc' = pc /\ obj' = obj
    BY <1>c
  <2>2. OffSem
    BY <2>1, Zenon DEF OffSem
  <2>3. Alive' <=> Alive
    BY <2>1 DEF Alive
  <2> QED
    BY <1>a, <2>1, <2>2, <2>3
<1>1. ASSUME NEW t \in Tids, Resume(t) PROVE UnitsInv'
  <2>1. CASE mutex_resume(t) \/ spin_retry(t)
    <3>1. /\ tstate[t] = "RUNNABLE" /\ pc[t] # "sem" /\ pc' = [pc EXCEPT ![t] = "user"]
          /\ UNCHANGED <<tstate, obj, nextSem, count, sheld, units>>
      BY <2>1 DEF mutex_resume, spin_retry, Woken, Return
    <3>2. OthersSame(t) /\ pc'[t] # "sem" /\ tstate'[t] # "T_UNUSED"
      BY <3>1, ThreadTypes DEF OthersSame
    <3>3. OffSem /\ Alive'
      BY <1>b, <3>1, <3>2, OneOffSem
    <3> QED
      BY <1>a, <1>b, <3>1, <3>3
  <2>2. CASE condvar_resume(t)
    <3>1. pc[t] # "sem" /\ tstate[t] = "RUNNABLE"
      BY <2>2 DEF condvar_resume, Woken
    <3>2. OffSem /\ Alive'
      BY <2>2, <3>1, LockOffSem DEF condvar_resume
    <3> QED
      BY <1>a, <1>b, <2>2, <3>1, <3>2 DEF condvar_resume
  <2> QED
    BY <1>1, <2>1, <2>2, ResumeUnits DEF Resume
<1>2. ASSUME NEW t \in Tids, NEW m \in Mutexes, sys_mutex_lock(t, m) PROVE UnitsInv'
  <2>1. tstate[t] = "RUNNABLE" /\ pc[t] # "sem"
    BY <1>2 DEF sys_mutex_lock, Running
  <2>2. UNCHANGED <<nextSem, count, sheld, units>>
    BY <1>2 DEF sys_mutex_lock
  <2>3. \/ UNCHANGED <<tstate, pc, obj>>
        \/ \E mr : mutex_lock(t, m, mr)
    BY <1>2 DEF sys_mutex_lock
  <2>4. CASE UNCHANGED <<tstate, pc, obj>>
    BY <1>c, <2>2, <2>4
  <2>5. ASSUME NEW mr, mutex_lock(t, m, mr) PROVE UnitsInv'
    <3>1. OffSem /\ Alive'
      BY <2>1, <2>5, LockOffSem
    <3> QED
      BY <1>a, <1>b, <2>1, <2>2, <3>1
  <2> QED
    BY <2>3, <2>4, <2>5
<1>3. ASSUME NEW t \in Tids, NEW m \in Mutexes, sys_mutex_unlock(t, m) PROVE UnitsInv'
  <2>1. /\ tstate[t] = "RUNNABLE" /\ m < nextMutex /\ tstate' = Wake(NextOwner(m)) /\ Alive
        /\ UNCHANGED <<pc, obj, nextSem, count, sheld, units>>
    BY <1>3, <1>b DEF sys_mutex_unlock, Running
  <2>2. \A u \in Tids : tstate'[u] = IF u \in NextOwner(m) THEN "RUNNABLE" ELSE tstate[u]
    BY <2>1 DEF Wake
  <2>3. OffSem /\ Alive'
    <3>1. ASSUME NEW u \in Tids
          PROVE  \/ tstate'[u] = tstate[u] /\ pc'[u] = pc[u] /\ obj'[u] = obj[u]
                 \/ pc[u] # "sem" /\ pc'[u] # "sem"
      BY <2>1, <2>2, OwnersAreNotAtSem
    <3>2. tstate'[0] # "T_UNUSED"
      BY <2>1, <2>2, TidsSet DEF Alive
    <3> QED
      BY <3>1, <3>2 DEF OffSem, Alive
  <2> QED
    BY <1>a, <2>1, <2>3
<1>4. ASSUME NEW t \in Tids, MutexCall(t) PROVE UnitsInv'
  <2>1. ASSUME NEW b \in BLOCKING_ARGS, sys_mutex_create(t, b) PROVE UnitsInv'
    <3>1. UNCHANGED <<tstate, pc, obj, nextSem, count, sheld, units>>
      BY <2>1 DEF sys_mutex_create
    <3> QED
      BY <1>c, <3>1
  <2> QED
    BY <1>2, <1>3, <1>4, <2>1 DEF MutexCall
<1>5. ASSUME NEW t \in Tids, SemCall(t) PROVE UnitsInv'
  BY <1>5, CreateUnits, UpUnits, DownUnits DEF SemCall
<1>6. ASSUME NEW t \in Tids, NEW c \in Condvars, sys_condvar_signal(t, c) PROVE UnitsInv'
  <2>1. /\ tstate[t] = "RUNNABLE" /\ c < nextCond /\ Alive
        /\ UNCHANGED <<pc, obj, nextSem, count, sheld, units>>
    BY <1>6, <1>b DEF sys_condvar_signal, Running
  <2>2. CASE cqueue[c] = <<>>
    BY <1>6, <1>c, <2>1, <2>2 DEF sys_condvar_signal
  <2>3. CASE cqueue[c] # <<>>
    <3>1. QueueOf(cqueue[c], "cond", c) /\ cqueue[c] \in Seq(Tids)
      BY <2>1 DEF BasicInv, QueueInv, CreatedConds, TypeOK, TypeConds
    <3>2. Head(cqueue[c]) \in Sleepers("cond", c)
      BY <2>3, <3>1, TailQueue DEF QueueOf
    <3>3. tstate' = Wake({Head(cqueue[c])})
      BY <1>6, <2>3 DEF sys_condvar_signal
    <3>4. PICK w \in Tids : w = Head(cqueue[c]) /\ pc[w] = "cond"
      BY <3>2 DEF Sleepers, Asleep
    <3>5. \A u \in Tids : tstate'[u] = IF u = w THEN "RUNNABLE" ELSE tstate[u]
      BY <3>3, <3>4 DEF Wake
    <3>6. OthersSame(w) /\ pc'[w] # "sem" /\ tstate'[w] # "T_UNUSED" /\ pc[w] # "sem"
      BY <2>1, <3>4, <3>5 DEF OthersSame
    <3>7. OffSem /\ Alive'
      BY <2>1, <3>6, OneOffSem
    <3> QED
      BY <1>a, <2>1, <3>7
  <2> QED
    BY <2>2, <2>3
<1>7. ASSUME NEW t \in Tids, NEW c \in Condvars, NEW m \in Mutexes, sys_condvar_wait(t, c, m)
      PROVE  UnitsInv'
  <2>1. /\ tstate[t] = "RUNNABLE" /\ pc[t] = "user" /\ m < nextMutex /\ Alive
        /\ tstate' = [Wake(NextOwner(m)) EXCEPT ![t] = "SLEEPING"]
        /\ pc' = [pc EXCEPT ![t] = "cond"] /\ obj' = [obj EXCEPT ![t] = c]
        /\ UNCHANGED <<nextSem, count, sheld, units>>
    BY <1>7, <1>b DEF sys_condvar_wait, Running, Suspend
  <2>2. \A u \in Tids : u # t =>
            /\ tstate'[u] = IF u \in NextOwner(m) THEN "RUNNABLE" ELSE tstate[u]
            /\ pc'[u] = pc[u] /\ obj'[u] = obj[u]
    BY <2>1, ThreadTypes DEF Wake
  <2>3. pc'[t] = "cond" /\ tstate'[t] = "SLEEPING"
    BY <2>1, ThreadTypes DEF Wake
  <2>4. OffSem /\ Alive'
    <3>1. ASSUME NEW u \in Tids
          PROVE  \/ tstate'[u] = tstate[u] /\ pc'[u] = pc[u] /\ obj'[u] = obj[u]
                 \/ pc[u] # "sem" /\ pc'[u] # "sem"
      <4>1. CASE u = t
        BY <2>1, <2>3, <4>1
      <4>2. CASE u # t
        BY <2>1, <2>2, <4>2, OwnersAreNotAtSem
      <4> QED
        BY <4>1, <4>2
    <3>2. tstate'[0] # "T_UNUSED"
      BY <2>1, <2>2, <2>3, TidsSet DEF Alive
    <3> QED
      BY <3>1, <3>2 DEF OffSem, Alive
  <2> QED
    BY <1>a, <2>1, <2>4
<1>8. ASSUME NEW t \in Tids, CondCall(t) PROVE UnitsInv'
  <2>1. ASSUME sys_condvar_create(t) PROVE UnitsInv'
    <3>1. UNCHANGED <<tstate, pc, obj, nextSem, count, sheld, units>>
      BY <2>1 DEF sys_condvar_create
    <3> QED
      BY <1>c, <3>1
  <2> QED
    BY <1>6, <1>7, <1>8, <2>1 DEF CondCall
<1>9. ASSUME NEW t \in Tids, ThreadCall(t) PROVE UnitsInv'
  <2>1. ASSUME NEW e \in DETECT_ARGS, sys_enable_deadlock_detect(t, e) PROVE UnitsInv'
    <3>1. UNCHANGED <<tstate, pc, obj, nextSem, count, sheld, units>>
      BY <2>1 DEF sys_enable_deadlock_detect
    <3> QED
      BY <1>c, <3>1
  <2>2. ASSUME sys_thread_create(t) PROVE UnitsInv'
    <3>1. PICK u \in Tids : /\ tstate[u] = "T_UNUSED"
                            /\ tstate' = [tstate EXCEPT ![u] = "RUNNABLE"]
                            /\ pc' = [pc EXCEPT ![u] = "user"]
      BY <2>2 DEF sys_thread_create
    <3>2. Alive /\ u # 0 /\ pc[u] # "sem" /\ obj' = obj
          /\ UNCHANGED <<nextSem, count, sheld, units>>
      BY <2>2, <1>b, <3>1 DEF sys_thread_create, Running, BasicInv, ThreadInv, Alive
    <3>3. OthersSame(u) /\ pc'[u] # "sem" /\ tstate'[u] # "T_UNUSED"
      BY <3>1, <3>2, ThreadTypes DEF OthersSame
    <3>4. OffSem /\ Alive'
      BY <3>2, <3>3, OneOffSem
    <3> QED
      BY <1>a, <3>2, <3>4
  <2>3. ASSUME NEW u \in Tids, sys_waittid(t, u) PROVE UnitsInv'
    <3>1. /\ tstate[t] = "RUNNABLE" /\ tstate[u] = "EXITED" /\ Alive
          /\ tstate' = [tstate EXCEPT ![u] = "T_UNUSED"]
          /\ UNCHANGED <<pc, obj, nextSem, count, sheld, units>>
      BY <2>3, <1>b DEF sys_waittid, Running
    <3>2. u # 0 /\ pc[u] # "sem"
      BY <3>1 DEF BasicInv, ThreadInv
    <3>3. OthersSame(u) /\ pc'[u] # "sem"
      BY <3>1, <3>2, ThreadTypes DEF OthersSame
    <3>4. OffSem /\ Alive'
      BY <3>1, <3>2, <3>3, OneOffSem
    <3> QED
      BY <1>a, <3>1, <3>4
  <2> QED
    BY <1>9, <2>1, <2>2, <2>3, ExitUnits DEF ThreadCall
<1>10. CASE exit_process
  <2>1. ~Alive' /\ \A x \in Semaphores : \A u \in Tids : sheld'[x][u] = 0
    BY <1>10, TidsSet DEF exit_process, Alive
  <2> QED
    BY <2>1 DEF UnitsInv, CreatedSems
<1>11. CASE allocproc
  <2>1. ~Alive /\ nextSem' = 0 /\ sheld' = sheld
    BY <1>11, TidsSet DEF allocproc, Alive
  <2>2. CreatedSems' = {}
    BY <2>1 DEF CreatedSems, Semaphores
  <2> QED
    BY <2>1, <2>2 DEF UnitsInv
<1>12. CASE UNCHANGED vars
  BY <1>12, <1>c DEF vars
<1> QED
  BY <1>1, <1>4, <1>5, <1>8, <1>9, <1>10, <1>11, <1>12 DEF Next

\* No unit is lost or made (semaphore_up, semaphore_down and the hand-over
\* between them in sync.c): for any number of threads and semaphores, whoever
\* ups or downs, the free units and the units in the threads' hands add up to
\* what was created, upped without a down, and not taken along by an exit.
THEOREM UnitsTheorem ==
  ASSUME NaturalCounts
  PROVE  Spec => []SemaphoreUnits
<1>1. Init => UnitsInv
  BY DEF Init, UnitsInv, CreatedSems, Semaphores
<1>2. /\ BasicInv /\ SemaphoreQueue /\ NoPanic
      /\ (BasicInv /\ SemaphoreQueue /\ NoPanic)'
      /\ UnitsInv /\ [Next]_vars
      => UnitsInv'
  BY UnitsNext DEF BasicInv
<1>3. UnitsInv => SemaphoreUnits
  BY DEF UnitsInv, SemaphoreUnits, Free, HeldSum
<1> QED
  BY <1>1, <1>2, <1>3, CountInvariant, PTL DEF Spec

-----------------------------------------------------------------------------
(***************************************************************************)
(* Mutexes and the deadlock detector.  Mutual exclusion and the truth of   *)
(* the detector's tables, for clients that create blocking mutexes only    *)
(* and release only what they hold: the invariant is OwnerInv and          *)
(* DetectorInv, on top of TypeOK, ThreadInv and QueueInv; that             *)
(* mutex_unlock hands the mutex to a thread that really waits for it is    *)
(* what QueueInv says.  Then the detector's loop: for any clients it gives *)
(* the banker's verdict, for clients of blocking mutexes it is exact, and  *)
(* no deadlock forms while it is on.                                       *)
(***************************************************************************)

\* What the theorems of this module assume of the clients.
BlockingClients == DISCIPLINED = TRUE /\ BLOCKING_ARGS \subseteq {1}

\* Every created mutex is a blocking one, so nobody spins.
OnlyBlocking ==
    /\ \A m \in Mutexes : Alive /\ m < nextMutex => blocking[m] # 0
    /\ \A t \in Tids : pc[t] # "spin"

\* Everything that holds of blocking mutexes.
MutexInv == OnlyBlocking /\ OwnerInv /\ DetectorInv

\* Nobody is granted or loses a mutex, or starts or stops waiting for one.
SameMutexView ==
    \A m \in Mutexes : /\ Granted(m)' = Granted(m)
                       /\ Sleepers("mutex", m)' = Sleepers("mutex", m)

\* Steps that leave a mutex's view, tables and flags alone.
LEMMA MutexFrame ==
  ASSUME MutexInv, SameMutexView, Alive' = Alive, \A t \in Tids : pc'[t] # "spin",
         UNCHANGED <<nextMutex, blocking, locked, mAlloc, mReq>>
  PROVE  MutexInv'
<1>1. OnlyBlocking'
  BY DEF MutexInv, OnlyBlocking
<1>2. OwnerInv'
  BY DEF MutexInv, OwnerInv, SameMutexView
<1>3. DetectorInv'
  BY DEF MutexInv, DetectorInv, SameMutexView
<1> QED
  BY <1>1, <1>2, <1>3 DEF MutexInv

\* A mutex that is not locked, or not created, belongs to nobody.
LEMMA NobodyOwns ==
  ASSUME OwnerInv, NEW m \in Mutexes, locked[m] = 0 \/ ~(m < nextMutex) \/ ~Alive
  PROVE  Granted(m) = {}
  BY DEF OwnerInv

\* mutex_lock called by a thread that waits for nothing.
LEMMA LockMutexInv ==
  ASSUME BasicInv, MutexInv, Alive, Alive', NEW t \in Tids, NEW m \in Mutexes, NEW mr,
         m < nextMutex, tstate[t] = "RUNNABLE", pc[t] \in {"user", "cond"},
         mr \in [Mutexes -> SUBSET Tids],
         \A x \in Mutexes : mr[x] = Sleepers("mutex", x),
         mutex_lock(t, m, mr), UNCHANGED <<nextMutex, blocking>>
  PROVE  MutexInv'
<1> USE DEF BasicInv, TypeOK, TypeThreads, TypeMutexes
<1>0. blocking[m] # 0
  BY DEF MutexInv, OnlyBlocking
<1>1. CASE lock_free(t, m, mr)
  <2>1. Granted(m) = {}
    BY <1>1, NobodyOwns DEF MutexInv, lock_free
  <2>2. \A x \in Mutexes : Granted(x)' = IF x = m THEN {t} ELSE Granted(x)
    <3>1. \A u \in Tids : (Woken(u, "mutex") /\ TRUE)' <=> Woken(u, "mutex")
      BY <1>1 DEF lock_free, Return, Woken
    <3>2. \A x \in Mutexes : holders'[x] = IF x = m THEN holders[m] \cup {t} ELSE holders[x]
      BY <1>1 DEF lock_free
    <3>3. obj' = obj
      BY <1>1 DEF lock_free
    <3> QED
      BY <2>1, <3>1, <3>2, <3>3 DEF Granted
  <2>3. \A x \in Mutexes : Sleepers("mutex", x)' = Sleepers("mutex", x)
    BY <1>1 DEF lock_free, Return, Sleepers, Asleep
  <2>4. OnlyBlocking'
    BY <1>1 DEF lock_free, Return, MutexInv, OnlyBlocking
  <2>5. OwnerInv'
    <3>1. \A x \in Mutexes : locked'[x] = IF x = m THEN 1 ELSE locked[x]
      BY <1>1 DEF lock_free
    <3>2. ASSUME NEW x \in Mutexes
          PROVE  /\ \A u, v \in Granted(x)' : u = v
                 /\ Granted(x)' # {} => locked'[x] # 0 /\ x < nextMutex'
      <4>1. CASE x = m
        BY <2>2, <3>1, <4>1
      <4>2. CASE x # m
        BY <2>2, <3>1, <4>2 DEF MutexInv, OwnerInv
      <4> QED
        BY <4>1, <4>2
    <3> QED
      BY <3>2 DEF OwnerInv
  <2>6. DetectorInv'
    <3>1. \A x \in Mutexes : mAlloc'[x] = IF x = m THEN mAlloc[m] \cup {t} ELSE mAlloc[x]
      BY <1>1 DEF lock_free
    <3>2. mReq' = mr
      BY <1>1 DEF lock_free
    <3>3. \A x \in Mutexes : mAlloc[x] = Granted(x)
      BY DEF MutexInv, DetectorInv
    <3>4. ASSUME NEW x \in Mutexes PROVE mAlloc'[x] = Granted(x)'
      <4>1. mAlloc[m] = {}
        BY <2>1, <3>3
      <4>2. mAlloc'[m] = {t}
        BY <3>1, <4>1
      <4> QED
        BY <2>2, <3>1, <3>3, <4>2
    <3> QED
      BY <2>3, <3>2, <3>4 DEF DetectorInv
  <2> QED
    BY <2>4, <2>5, <2>6 DEF MutexInv
<1>2. CASE lock_block(t, m, mr)
  <2>1. \A x \in Mutexes : Granted(x)' = Granted(x)
    BY <1>2 DEF lock_block, Suspend, Granted, Woken
  <2>2. \A x \in Mutexes : Sleepers("mutex", x)' =
            IF x = m THEN Sleepers("mutex", x) \cup {t} ELSE Sleepers("mutex", x)
    BY <1>2 DEF lock_block, Suspend, Sleepers, Asleep
  <2>3. OnlyBlocking'
    BY <1>2 DEF lock_block, Suspend, MutexInv, OnlyBlocking
  <2>4. OwnerInv'
    BY <1>2, <2>1 DEF lock_block, MutexInv, OwnerInv
  <2>5. DetectorInv'
    <3>1. \A x \in Mutexes : mReq'[x] = IF x = m THEN mr[m] \cup {t} ELSE mr[x]
      BY <1>2 DEF lock_block
    <3>2. mAlloc' = mAlloc
      BY <1>2 DEF lock_block
    <3> QED
      BY <2>1, <2>2, <3>1, <3>2 DEF MutexInv, DetectorInv
  <2> QED
    BY <2>3, <2>4, <2>5 DEF MutexInv
<1> QED
  BY <1>0, <1>1, <1>2 DEF mutex_lock, lock_spin

\* mutex_unlock by the owner, from sys_mutex_unlock or from cond_wait.
LEMMA UnlockMutexInv ==
  ASSUME BasicInv, MutexInv, Alive, Alive', NEW t \in Tids, NEW m \in Mutexes,
         m < nextMutex, t \in holders[m], tstate[t] = "RUNNABLE", pc[t] = "user",
         mutex_unlock(t, m), UNCHANGED <<nextMutex, blocking>>,
         \A u \in Tids : u # t =>
             tstate'[u] = Wake(NextOwner(m))[u] /\ pc'[u] = pc[u] /\ obj'[u] = obj[u],
         pc'[t] \in {"user", "cond"}
  PROVE  MutexInv'
<1> USE DEF BasicInv, TypeOK, TypeThreads, TypeMutexes
<1> DEFINE W == NextOwner(m)
<1>1. /\ W \subseteq Tids /\ \A u, v \in W : u = v
      /\ \A w \in W : tstate[w] = "SLEEPING" /\ pc[w] = "mutex" /\ obj[w] = m
  <2>1. CASE W = {}
    BY <2>1
  <2>2. ASSUME NEW w \in Tids, W = {w}, Asleep(w, "mutex", m)
        PROVE  /\ W \subseteq Tids /\ \A u, v \in W : u = v
               /\ \A x \in W : tstate[x] = "SLEEPING" /\ pc[x] = "mutex" /\ obj[x] = m
    BY <2>2 DEF Asleep
  <2> QED
    BY <2>1, <2>2, UnlockQueue
<1>2. Granted(m) = {t} /\ locked[m] # 0
  <2>1. t \in Granted(m)
    BY DEF Granted
  <2> QED
    BY <2>1 DEF MutexInv, OwnerInv
<1>3. t \notin W
  BY <1>1
<1>4. \A u \in Tids :
        /\ u # t => /\ tstate'[u] = IF u \in W THEN "RUNNABLE" ELSE tstate[u]
                    /\ pc'[u] = pc[u] /\ obj'[u] = obj[u]
        /\ u = t => pc'[u] # "mutex" /\ pc'[u] # "spin"
  BY DEF Wake
<1>5. /\ \A x \in Mutexes : holders'[x] = IF x = m THEN holders[m] \ {t} ELSE holders[x]
      /\ \A x \in Mutexes : mAlloc'[x] = IF x = m THEN (mAlloc[m] \ {t}) \cup W ELSE mAlloc[x]
      /\ \A x \in Mutexes : mReq'[x] = IF x = m THEN mReq[m] \ W ELSE mReq[x]
      /\ \A x \in Mutexes : locked'[x] = IF x = m /\ W = {} THEN 0 ELSE locked[x]
  BY DEF mutex_unlock, AllocAfter, LockedAfter
<1> HIDE DEF W
<1>6. \A u \in Tids, x \in Mutexes :
        (Woken(u, "mutex") /\ obj[u] = x)' <=>
            (Woken(u, "mutex") /\ obj[u] = x) \/ (u \in W /\ x = m)
  BY <1>1, <1>3, <1>4 DEF Woken
<1>7. \A x \in Mutexes : Granted(x)' = IF x = m THEN W ELSE Granted(x)
  <2>1. holders[m] \subseteq {t} /\ \A u \in Tids : u # t => ~(Woken(u, "mutex") /\ obj[u] = m)
    BY <1>2 DEF Granted
  <2>2. ~Woken(t, "mutex")
    BY DEF Woken
  <2>3. ASSUME NEW u \in Tids
        PROVE  (u \in holders[m] \/ (Woken(u, "mutex") /\ obj[u] = m))' <=> u \in W
    BY <1>5, <1>6, <2>1, <2>2, <2>3
  <2>4. ASSUME NEW u \in Tids, NEW x \in Mutexes, x # m
        PROVE  (u \in holders[x] \/ (Woken(u, "mutex") /\ obj[u] = x))' <=>
                   (u \in holders[x] \/ (Woken(u, "mutex") /\ obj[u] = x))
    BY <1>5, <1>6, <2>4
  <2> QED
    BY <1>1, <2>3, <2>4 DEF Granted
<1>8. \A x \in Mutexes : Sleepers("mutex", x)' =
          IF x = m THEN Sleepers("mutex", x) \ W ELSE Sleepers("mutex", x)
  <2>1. \A u \in Tids, x \in Mutexes :
          Asleep(u, "mutex", x)' <=> Asleep(u, "mutex", x) /\ ~(u \in W /\ x = m)
    BY <1>1, <1>3, <1>4 DEF Asleep
  <2> QED
    BY <2>1 DEF Sleepers
<1>9. OnlyBlocking'
  BY <1>4 DEF MutexInv, OnlyBlocking
<1>10. OwnerInv'
  <2>1. ASSUME NEW x \in Mutexes
        PROVE  /\ \A u, v \in Granted(x)' : u = v
               /\ Granted(x)' # {} => locked'[x] # 0 /\ x < nextMutex'
    <3>1. CASE x = m
      BY <1>1, <1>2, <1>5, <1>7, <3>1
    <3>2. CASE x # m
      BY <1>5, <1>7, <3>2 DEF MutexInv, OwnerInv
    <3> QED
      BY <3>1, <3>2
  <2> QED
    BY <2>1 DEF OwnerInv
<1>11. DetectorInv'
  <2>1. \A x \in Mutexes : mAlloc[x] = Granted(x) /\ mReq[x] = Sleepers("mutex", x)
    BY DEF MutexInv, DetectorInv
  <2>2. mAlloc'[m] = W
    <3>1. mAlloc[m] = {t}
      BY <1>2, <2>1
    <3> QED
      BY <1>5, <3>1
  <2>3. ASSUME NEW x \in Mutexes
        PROVE  mAlloc'[x] = Granted(x)' /\ mReq'[x] = Sleepers("mutex", x)'
    <3>1. CASE x = m
      BY <1>5, <1>7, <1>8, <2>1, <2>2, <3>1
    <3>2. CASE x # m
      BY <1>5, <1>7, <1>8, <2>1, <3>2
    <3> QED
      BY <3>1, <3>2
  <2> QED
    BY <2>3 DEF DetectorInv
<1> QED
  BY <1>9, <1>10, <1>11 DEF MutexInv

\* Every step of clients that use blocking mutexes with discipline keeps the
\* owners and the detector's tables right.
LEMMA MutexNext ==
  ASSUME BlockingClients, BasicInv, MutexInv, [Next]_vars
  PROVE  MutexInv'
<1> USE DEF BasicInv, TypeOK, TypeThreads, TypeMutexes, threadVars, mutexVars, semVars, condVars
<1>0. 0 \in Tids
  BY PoolAssumption DEF Tids
<1>a. ASSUME NEW t \in Tids, tstate[t] = "RUNNABLE" PROVE Alive
  BY <1>a DEF ThreadInv, Alive
<1>b. \A t \in Tids : pc[t] # "spin"
  BY DEF MutexInv, OnlyBlocking
\* Steps in which only the waiting for other objects changes.
<1>c. ASSUME UNCHANGED <<nextMutex, blocking, locked, mAlloc, mReq, holders>>, Alive' = Alive,
             \A u \in Tids : pc'[u] # "spin",
             \A u \in Tids : \/ tstate'[u] = tstate[u] /\ pc'[u] = pc[u] /\ obj'[u] = obj[u]
                             \/ pc[u] # "mutex" /\ pc'[u] # "mutex"
      PROVE  MutexInv'
  <2>1. SameMutexView
    BY <1>c DEF SameMutexView, Granted, Woken, Sleepers, Asleep
  <2> QED
    BY <1>c, <2>1, MutexFrame
<1>1. ASSUME NEW t \in Tids, mutex_resume(t) PROVE MutexInv'
  <2> DEFINE m == obj[t]
  <2>0. m \in Mutexes /\ tstate[t] = "RUNNABLE" /\ pc[t] = "mutex" /\ Alive
    BY <1>1, <1>a DEF mutex_resume, Woken
  <2>1. /\ tstate' = tstate /\ obj' = obj
        /\ \A u \in Tids : pc'[u] = IF u = t THEN "user" ELSE pc[u]
        /\ \A x \in Mutexes : holders'[x] = IF x = m THEN holders[m] \cup {t} ELSE holders[x]
        /\ \A x \in Mutexes : mAlloc'[x] = IF x = m THEN mAlloc[m] \cup {t} ELSE mAlloc[x]
        /\ \A x \in Mutexes : mReq'[x] = IF x = m THEN mReq[m] \ {t} ELSE mReq[x]
    BY <1>1, <2>0 DEF mutex_resume, Return
  <2>2. SameMutexView
    BY <2>0, <2>1 DEF SameMutexView, Granted, Woken, Sleepers, Asleep
  <2>3. t \in Granted(m) /\ t \notin Sleepers("mutex", m)
    BY <2>0 DEF Granted, Woken, Sleepers, Asleep
  <2>4. \A x \in Mutexes : mAlloc'[x] = mAlloc[x] /\ mReq'[x] = mReq[x]
    <3>1. mAlloc[m] = Granted(m) /\ mReq[m] = Sleepers("mutex", m)
      BY <2>0 DEF MutexInv, DetectorInv
    <3>2. mAlloc[m] \cup {t} = mAlloc[m] /\ mReq[m] \ {t} = mReq[m]
      BY <2>3, <3>1
    <3> QED
      BY <2>1, <3>2
  <2>5. mAlloc' = mAlloc /\ mReq' = mReq
    BY <1>1, <2>0, <2>4 DEF mutex_resume
  <2>6. Alive' = Alive /\ \A u \in Tids : pc'[u] # "spin"
    BY <1>b, <2>1 DEF Alive
  <2> QED
    BY <1>1, <2>2, <2>5, <2>6, MutexFrame DEF mutex_resume
<1>2. ASSUME NEW t \in Tids, spin_retry(t) PROVE MutexInv'
  BY <1>2, <1>b DEF spin_retry, Woken
<1>3. ASSUME NEW t \in Tids, semaphore_resume(t) PROVE MutexInv'
  <2>1. /\ \A u \in Tids : pc'[u] # "spin"
        /\ \A u \in Tids : \/ tstate'[u] = tstate[u] /\ pc'[u] = pc[u] /\ obj'[u] = obj[u]
                           \/ pc[u] # "mutex" /\ pc'[u] # "mutex"
    BY <1>3, <1>b DEF semaphore_resume, Woken, Return
  <2>2. Alive' = Alive
    BY <1>3 DEF semaphore_resume, Alive
  <2> QED
    BY <1>3, <1>c, <2>1, <2>2 DEF semaphore_resume
<1>d. ASSUME NEW t \in Tids, NEW m \in Mutexes, NEW mr,
             m < nextMutex, tstate[t] = "RUNNABLE", pc[t] \in {"user", "cond"},
             mr \in [Mutexes -> SUBSET Tids],
             \A x \in Mutexes : mr[x] = Sleepers("mutex", x),
             mutex_lock(t, m, mr), UNCHANGED <<nextMutex, blocking>>
      PROVE  MutexInv'
  <2>1. Alive
    BY <1>a, <1>d
  <2>2. Alive'
    BY <1>0, <1>d, <2>1 DEF Alive, mutex_lock, lock_free, lock_spin, lock_block
  <2> QED
    BY <1>d, <2>1, <2>2, LockMutexInv
<1>4. ASSUME NEW t \in Tids, condvar_resume(t) PROVE MutexInv'
  <2>1. mtx[t] \in Mutexes /\ mtx[t] < nextMutex /\ tstate[t] = "RUNNABLE" /\ pc[t] = "cond"
    BY <1>4 DEF condvar_resume, Woken, ThreadInv
  <2>2. \A x \in Mutexes : mReq[x] = Sleepers("mutex", x)
    BY <1>a, <2>1 DEF MutexInv, DetectorInv
  <2> QED
    BY <1>4, <1>d, <2>1, <2>2 DEF condvar_resume
<1>5. ASSUME NEW t \in Tids, NEW b \in BLOCKING_ARGS, sys_mutex_create(t, b) PROVE MutexInv'
  <2>1. /\ Alive /\ Alive' /\ nextMutex \in Mutexes /\ nextMutex' = nextMutex + 1
        /\ \A x \in Mutexes : locked'[x] = IF x = nextMutex THEN 0 ELSE locked[x]
        /\ \A x \in Mutexes : blocking'[x] = IF x = nextMutex THEN 1 ELSE blocking[x]
    BY <1>5, <1>a, PoolAssumption DEF sys_mutex_create, Running, Mutexes, BlockingClients, Alive
  <2>2. SameMutexView
    BY <1>5 DEF sys_mutex_create, SameMutexView, Granted, Woken, Sleepers, Asleep
  <2>3. OnlyBlocking'
    <3>1. \A x \in Mutexes : x < nextMutex + 1 => x < nextMutex \/ x = nextMutex
      BY <2>1 DEF Mutexes
    <3>2. pc' = pc
      BY <1>5 DEF sys_mutex_create
    <3>3. ASSUME NEW x \in Mutexes, x < nextMutex' PROVE blocking'[x] # 0
      <4>1. CASE x = nextMutex
        BY <2>1, <4>1
      <4>2. CASE x # nextMutex
        BY <2>1, <3>1, <3>3, <4>2 DEF MutexInv, OnlyBlocking
      <4> QED
        BY <4>1, <4>2
    <3> QED
      BY <1>b, <3>2, <3>3 DEF OnlyBlocking
  <2>4. Granted(nextMutex) = {}
    BY <2>1, NobodyOwns DEF MutexInv, Mutexes
  <2>5. OwnerInv'
    <3>1. ASSUME NEW x \in Mutexes
          PROVE  /\ \A u, v \in Granted(x)' : u = v
                 /\ Granted(x)' # {} => locked'[x] # 0 /\ x < nextMutex'
      <4>1. Granted(x)' = Granted(x)
        BY <2>2 DEF SameMutexView
      <4>2. x < nextMutex => x < nextMutex'
        BY <2>1 DEF Mutexes
      <4> QED
        BY <2>1, <2>4, <4>1, <4>2 DEF MutexInv, OwnerInv
    <3> QED
      BY <2>1, <3>1 DEF OwnerInv
  <2>6. DetectorInv'
    <3>1. mAlloc' = mAlloc /\ mReq' = mReq
      BY <1>5 DEF sys_mutex_create
    <3> QED
      BY <2>1, <2>2, <3>1 DEF MutexInv, DetectorInv, SameMutexView
  <2> QED
    BY <2>3, <2>5, <2>6 DEF MutexInv
<1>6. ASSUME NEW t \in Tids, NEW m \in Mutexes, sys_mutex_lock(t, m) PROVE MutexInv'
  <2> DEFINE mr == IF detect # 0 THEN [mReq EXCEPT ![m] = @ \ {t}] ELSE mReq
  <2>0. tstate[t] = "RUNNABLE" /\ pc[t] = "user" /\ m < nextMutex /\ Alive
    BY <1>6, <1>a DEF sys_mutex_lock, Running
  <2>1. \A x \in Mutexes : mReq[x] = Sleepers("mutex", x)
    BY <2>0 DEF MutexInv, DetectorInv
  <2>2. mr = mReq
    <3>1. t \notin mReq[m]
      BY <2>0, <2>1 DEF Sleepers, Asleep
    <3>2. mReq[m] \ {t} = mReq[m]
      BY <3>1
    <3> QED
      BY <3>2
  <2>3. CASE mutex_lock(t, m, mr)
    <3> HIDE DEF mr
    <3> QED
      BY <1>6, <1>d, <2>0, <2>1, <2>2, <2>3 DEF sys_mutex_lock
  <2>4. CASE mReq' = mr /\ UNCHANGED <<tstate, pc, obj, locked, mAlloc, holders>>
    <3>1. Alive' = Alive
      BY <2>4 DEF Alive
    <3> QED
      BY <1>6, <1>b, <1>c, <2>2, <2>4, <3>1 DEF sys_mutex_lock
  <2> QED
    BY <1>6, <2>3, <2>4 DEF sys_mutex_lock
<1>7. ASSUME NEW t \in Tids, NEW m \in Mutexes, sys_mutex_unlock(t, m) PROVE MutexInv'
  <2>1. /\ tstate[t] = "RUNNABLE" /\ pc[t] = "user" /\ m < nextMutex /\ t \in holders[m]
        /\ Alive /\ Alive'
    BY <1>0, <1>7, <1>a DEF sys_mutex_unlock, Running, BlockingClients, Alive, Wake
  <2> QED
    BY <1>7, <2>1, UnlockMutexInv DEF sys_mutex_unlock
<1>8. ASSUME NEW t \in Tids, NEW n \in SEM_COUNTS, sys_semaphore_create(t, n) PROVE MutexInv'
  <2>1. Alive' = Alive
    BY <1>8 DEF sys_semaphore_create, Alive
  <2> QED
    BY <1>8, <1>b, <1>c, <2>1 DEF sys_semaphore_create
<1>9. ASSUME NEW t \in Tids, NEW s \in Semaphores, sys_semaphore_up(t, s) PROVE MutexInv'
  <2>0. Alive /\ pc' = pc /\ obj' = obj
    BY <1>9, <1>a DEF sys_semaphore_up, Running
  <2>1. CASE tstate' = tstate
    <3>1. Alive' = Alive
      BY <2>1 DEF Alive
    <3> QED
      BY <1>9, <1>b, <1>c, <2>0, <2>1, <3>1 DEF sys_semaphore_up
  <2>2. CASE squeue[s] # <<>> /\ tstate' = Wake({Head(squeue[s])})
    <3>1. s \in CreatedSems /\ squeue[s] \in Seq(Tids)
      BY <1>9, <2>0 DEF CreatedSems, sys_semaphore_up, TypeSems
    <3>2. QueueOf(squeue[s], "sem", s)
      BY <3>1 DEF QueueInv
    <3>3. Head(squeue[s]) \in Sleepers("sem", s)
      BY <2>2, <3>1, <3>2, TailQueue DEF QueueOf
    <3>4. \A u \in Tids : tstate'[u] = tstate[u] \/ pc[u] = "sem"
      BY <2>2, <3>3 DEF Wake, Sleepers, Asleep
    <3>5. Alive' = Alive
      BY <1>0, <2>0, <2>2 DEF Alive, Wake
    <3> QED
      BY <1>9, <1>b, <1>c, <2>0, <3>4, <3>5 DEF sys_semaphore_up
  <2> QED
    BY <1>9, <2>1, <2>2 DEF sys_semaphore_up, up_free, up_wake, up_panic
<1>10. ASSUME NEW t \in Tids, NEW s \in Semaphores, sys_semaphore_down(t, s) PROVE MutexInv'
  <2>1. CASE UNCHANGED <<tstate, pc, obj>>
    <3>1. Alive' = Alive
      BY <2>1 DEF Alive
    <3> QED
      BY <1>10, <1>b, <1>c, <2>1, <3>1 DEF sys_semaphore_down
  <2>2. CASE tstate' = [tstate EXCEPT ![t] = "SLEEPING"] /\ Suspend(t, "sem", s)
    <3>1. Alive' = Alive
      BY <1>0, <1>10, <1>a, <2>2 DEF sys_semaphore_down, Running, Alive
    <3>2. \A u \in Tids : \/ tstate'[u] = tstate[u] /\ pc'[u] = pc[u] /\ obj'[u] = obj[u]
                          \/ pc[u] # "mutex" /\ pc'[u] # "mutex"
      BY <1>10, <2>2 DEF sys_semaphore_down, Running, Suspend
    <3>3. \A u \in Tids : pc'[u] # "spin"
      BY <1>b, <2>2 DEF Suspend
    <3> QED
      BY <1>10, <1>c, <3>1, <3>2, <3>3 DEF sys_semaphore_down
  <2> QED
    BY <1>10, <2>1, <2>2 DEF sys_semaphore_down, semaphore_down, down_free, down_wait
<1>11. ASSUME NEW t \in Tids, sys_condvar_create(t) PROVE MutexInv'
  <2>1. Alive' = Alive
    BY <1>11 DEF sys_condvar_create, Alive
  <2> QED
    BY <1>11, <1>b, <1>c, <2>1 DEF sys_condvar_create
<1>12. ASSUME NEW t \in Tids, NEW c \in Condvars, sys_condvar_signal(t, c) PROVE MutexInv'
  <2>0. Alive /\ pc' = pc /\ obj' = obj
    BY <1>12, <1>a DEF sys_condvar_signal, Running
  <2>1. CASE cqueue[c] = <<>>
    <3>1. Alive' = Alive
      BY <1>12, <2>1 DEF sys_condvar_signal, Alive
    <3> QED
      BY <1>12, <1>b, <1>c, <2>1, <3>1 DEF sys_condvar_signal
  <2>2. CASE cqueue[c] # <<>>
    <3>1. c \in CreatedConds /\ cqueue[c] \in Seq(Tids)
      BY <1>12, <2>0 DEF CreatedConds, sys_condvar_signal, TypeConds
    <3>2. QueueOf(cqueue[c], "cond", c)
      BY <3>1 DEF QueueInv
    <3>3. Head(cqueue[c]) \in Sleepers("cond", c)
      BY <2>2, <3>1, <3>2, TailQueue DEF QueueOf
    <3>4. tstate' = Wake({Head(cqueue[c])})
      BY <1>12, <2>2 DEF sys_condvar_signal
    <3>5. \A u \in Tids : tstate'[u] = tstate[u] \/ pc[u] = "cond"
      BY <3>3, <3>4 DEF Wake, Sleepers, Asleep
    <3>6. Alive' = Alive
      BY <1>0, <2>0, <3>4 DEF Alive, Wake
    <3> QED
      BY <1>12, <1>b, <1>c, <2>0, <3>5, <3>6 DEF sys_condvar_signal
  <2> QED
    BY <2>1, <2>2
<1>13. ASSUME NEW t \in Tids, NEW c \in Condvars, NEW m \in Mutexes, sys_condvar_wait(t, c, m)
       PROVE MutexInv'
  <2>1. /\ tstate[t] = "RUNNABLE" /\ pc[t] = "user" /\ m < nextMutex /\ t \in holders[m]
        /\ Alive /\ Alive' /\ pc'[t] = "cond"
    BY <1>0, <1>13, <1>a DEF sys_condvar_wait, Running, BlockingClients, Alive, Wake, Suspend
  <2>2. \A u \in Tids : u # t =>
            tstate'[u] = Wake(NextOwner(m))[u] /\ pc'[u] = pc[u] /\ obj'[u] = obj[u]
    BY <1>13 DEF sys_condvar_wait, Suspend, Wake
  <2>3. mutex_unlock(t, m) /\ UNCHANGED <<nextMutex, blocking>>
    BY <1>13 DEF sys_condvar_wait
  <2> QED
    BY <2>1, <2>2, <2>3, UnlockMutexInv
<1>14. ASSUME NEW t \in Tids, NEW e \in DETECT_ARGS, sys_enable_deadlock_detect(t, e)
       PROVE MutexInv'
  <2>1. Alive' = Alive
    BY <1>14 DEF sys_enable_deadlock_detect, Alive
  <2> QED
    BY <1>14, <1>b, <1>c, <2>1 DEF sys_enable_deadlock_detect
<1>15. ASSUME NEW t \in Tids, sys_thread_create(t) PROVE MutexInv'
  <2>1. PICK v \in Tids : /\ tstate[v] = "T_UNUSED"
                         /\ tstate' = [tstate EXCEPT ![v] = "RUNNABLE"]
                         /\ pc' = [pc EXCEPT ![v] = "user"]
    BY <1>15 DEF sys_thread_create
  <2>2. Alive /\ v # 0 /\ pc[v] = "user"
    BY <1>15, <1>a, <2>1 DEF sys_thread_create, Running, ThreadInv, Alive
  <2>3. Alive' = Alive
    BY <1>0, <2>1, <2>2 DEF Alive
  <2>4. obj' = obj /\ \A u \in Tids : pc'[u] # "spin"
    BY <1>15, <1>b, <2>1 DEF sys_thread_create
  <2>5. \A u \in Tids : \/ tstate'[u] = tstate[u] /\ pc'[u] = pc[u] /\ obj'[u] = obj[u]
                        \/ pc[u] # "mutex" /\ pc'[u] # "mutex"
    BY <2>1, <2>2, <2>4
  <2> QED
    BY <1>15, <1>c, <2>3, <2>4, <2>5 DEF sys_thread_create
<1>16. ASSUME NEW t \in Tids, NEW u \in Tids, sys_waittid(t, u) PROVE MutexInv'
  <2>1. /\ Alive' = Alive
        /\ \A v \in Tids : tstate'[v] = tstate[v] \/ pc[v] # "mutex"
    BY <1>0, <1>16, <1>a DEF sys_waittid, Running, ThreadInv, Alive
  <2> QED
    BY <1>16, <1>b, <1>c, <2>1 DEF sys_waittid
<1>17. ASSUME NEW t \in Tids, exit_thread(t) PROVE MutexInv'
  <2>1. \A m \in Mutexes : holders[m] \ {t} = holders[m]
    BY <1>17 DEF exit_thread, HoldsNone, BlockingClients
  <2>2. holders' = holders
    BY <1>17, <2>1 DEF exit_thread
  <2>3. /\ Alive' = Alive
        /\ \A v \in Tids : tstate'[v] = tstate[v] \/ pc[v] # "mutex"
    BY <1>0, <1>17 DEF exit_thread, Running, Alive
  <2> QED
    BY <1>17, <1>b, <1>c, <2>2, <2>3 DEF exit_thread
<1>18. CASE exit_process
  <2>1. ~Alive' /\ \A u \in Tids : pc'[u] = "user"
    BY <1>0, <1>18 DEF exit_process, Alive
  <2>2. \A m \in Mutexes : Granted(m)' = {}
    BY <1>18, <2>1 DEF exit_process, Granted, Woken
  <2> QED
    BY <2>1, <2>2 DEF MutexInv, OnlyBlocking, OwnerInv, DetectorInv
<1>19. CASE allocproc
  <2>1. ~Alive /\ \A u \in Tids : pc'[u] = "user" /\ tstate'[u] # "SLEEPING"
    BY <1>0, <1>19 DEF allocproc, Alive, ThreadInv
  <2>2. \A m \in Mutexes : holders[m] = {}
    BY <2>1, NobodyOwns DEF MutexInv, Granted
  <2>3. \A m \in Mutexes : Granted(m)' = {} /\ Sleepers("mutex", m)' = {}
    BY <1>19, <2>1, <2>2 DEF allocproc, Granted, Woken, Sleepers, Asleep
  <2>4. \A m \in Mutexes : ~(m < nextMutex') /\ mAlloc'[m] = {} /\ mReq'[m] = {}
    BY <1>19 DEF allocproc, Mutexes
  <2> QED
    BY <2>1, <2>3, <2>4 DEF MutexInv, OnlyBlocking, OwnerInv, DetectorInv
<1>20. CASE UNCHANGED vars
  <2>1. Alive' = Alive
    BY <1>20 DEF vars, Alive
  <2> QED
    BY <1>20, <1>b, <1>c, <2>1 DEF vars
<1> QED
  BY <1>1, <1>2, <1>3, <1>4, <1>5, <1>6, <1>7, <1>8, <1>9, <1>10, <1>11, <1>12,
     <1>13, <1>14, <1>15, <1>16, <1>17, <1>18, <1>19, <1>20
  DEF Next, Resume, MutexCall, SemCall, CondCall, ThreadCall

\* At the start no mutex is created, owned or waited for.
LEMMA MutexInit == Init => MutexInv
<1> SUFFICES ASSUME Init PROVE MutexInv
  OBVIOUS
<1>1. \A m \in Mutexes : ~(m < nextMutex) /\ mAlloc[m] = {} /\ mReq[m] = {} /\ holders[m] = {}
  BY DEF Init, Mutexes
<1>2. \A t \in Tids : pc[t] = "user"
  BY DEF Init
<1>3. \A m \in Mutexes : Granted(m) = {} /\ Sleepers("mutex", m) = {}
  BY <1>1, <1>2 DEF Granted, Woken, Sleepers, Asleep
<1> QED
  BY <1>1, <1>2, <1>3 DEF MutexInv, OnlyBlocking, OwnerInv, DetectorInv

\* The invariant behind the two theorems below.
THEOREM BlockingInvariant ==
  ASSUME BlockingClients
  PROVE  Spec => [](BasicInv /\ MutexInv)
<1>1. Init => BasicInv /\ MutexInv
  BY TypeInit, ThreadInit, QueueInit, MutexInit DEF BasicInv
<1>2. BasicInv /\ MutexInv /\ [Next]_vars => (BasicInv /\ MutexInv)'
  BY TypeNext, ThreadNext, QueueNext, MutexNext DEF BasicInv
<1> QED
  BY <1>1, <1>2, PTL DEF Spec

\* Blocking mutexes exclude (mutex_lock and mutex_unlock of sync.c): for any
\* number of threads and mutexes at most one thread is between the return of
\* mutex_lock and its mutex_unlock, across hand-over, condition waits, thread
\* exit and reuse of the process slot.
THEOREM BlockingExcludes ==
  ASSUME BlockingClients
  PROVE  Spec => []MutualExclusion
<1>1. BasicInv /\ MutexInv => MutualExclusion
  <2> SUFFICES ASSUME BasicInv, MutexInv, NEW m \in Mutexes, NEW t \in holders[m], NEW u \in holders[m]
               PROVE  t = u
    BY DEF MutualExclusion
  <2>1. t \in Granted(m) /\ u \in Granted(m)
    BY DEF Granted, BasicInv, TypeOK, TypeMutexes
  <2> QED
    BY <2>1 DEF MutexInv, OwnerInv
<1> QED
  BY <1>1, BlockingInvariant, PTL

\* The detector judges on true tables: mutex_allocation names the owner and
\* mutex_request the waiters of every created blocking mutex (sync.c keeps
\* them in mutex_lock and mutex_unlock).
THEOREM TablesTrue ==
  ASSUME BlockingClients
  PROVE  Spec => []AllocationTruth
<1>1. BasicInv /\ MutexInv => AllocationTruth
  BY DEF MutexInv, DetectorInv, AllocationTruth, CreatedBlocking
<1> QED
  BY <1>1, BlockingInvariant, PTL

-----------------------------------------------------------------------------
(* The detector decides the banker's question *)

\* One thread's turn in a round of deadlock_detect.
PassStep(f, i, mr, sr) == IF i \notin f /\ Possible(i, f, mr, sr) THEN f \cup {i} ELSE f

\* q[k] is the set of finished threads after the turns of the first k threads.
PassSteps(q, F, mr, sr) ==
    /\ q \in [0 .. NTHREAD -> SUBSET Tids]
    /\ q[0] = F
    /\ q[NTHREAD] = DetectPass(F, mr, sr)
    /\ \A k \in 1 .. NTHREAD : q[k] = PassStep(q[k - 1], k - 1, mr, sr)

\* A round of the detector is the last of its NTHREAD turns.
LEMMA PassChain ==
  ASSUME NEW F \in SUBSET Tids, NEW mr, NEW sr
  PROVE  \E q : PassSteps(q, F, mr, sr)
<1> USE PoolAssumption
<1> DEFINE T == 1 .. NTHREAD
           c == CHOOSE it : it = [s \in SUBSET T |->
                  IF s = {} THEN F
                  ELSE LET x == Max(s) IN PassStep(it[s \ {x}], TidSeq[x], mr, sr)]
<1>1. PICK step : step = [z \in T \X SUBSET Tids |-> PassStep(z[2], z[1] - 1, mr, sr)]
  OBVIOUS
<1>2. step \in [T \X SUBSET Tids -> SUBSET Tids]
  BY <1>1 DEF PassStep, Tids
<1>3. PICK g : LastFold(g, SUBSET Tids, F, step, NTHREAD)
  <2>1. NTHREAD \in Nat
    OBVIOUS
  <2> QED
    BY <1>2, <2>1, FoldLast, Zenon
<1>4. \A s \in SUBSET T : s # {} =>
        step[<<Max(s), g[s \ {Max(s)}]>>] = PassStep(g[s \ {Max(s)}], TidSeq[Max(s)], mr, sr)
  <2> SUFFICES ASSUME NEW s \in SUBSET T, s # {}
               PROVE  step[<<Max(s), g[s \ {Max(s)}]>>] = PassStep(g[s \ {Max(s)}], TidSeq[Max(s)], mr, sr)
    OBVIOUS
  <2>1. Max(s) \in T
    BY MaxIn
  <2>2. s \ {Max(s)} \in SUBSET T /\ TidSeq[Max(s)] = Max(s) - 1
    BY <2>1 DEF TidSeq
  <2>3. g[s \ {Max(s)}] \in SUBSET Tids
    BY <1>3, <2>2 DEF LastFold
  <2> QED
    BY <1>1, <2>1, <2>2, <2>3
<1>5. g = [s \in SUBSET T |->
            IF s = {} THEN F
            ELSE LET x == Max(s) IN PassStep(g[s \ {x}], TidSeq[x], mr, sr)]
  BY <1>3, <1>4 DEF LastFold
<1>6. c = [s \in SUBSET T |->
            IF s = {} THEN F
            ELSE LET x == Max(s) IN PassStep(c[s \ {x}], TidSeq[x], mr, sr)]
  BY <1>5, Zenon
<1>7. DetectPass(F, mr, sr) = c[T]
  BY DEF DetectPass, FoldLeft, MapThenFoldSet, PassStep, TidSeq
<1> HIDE DEF c
<1>8. PICK q : q = [k \in 0 .. NTHREAD |-> c[1 .. k]]
  OBVIOUS
<1>9. q[0] = F /\ q[NTHREAD] = DetectPass(F, mr, sr)
  <2>1. 1 .. 0 = {} /\ {} \in SUBSET T /\ 0 \in 0 .. NTHREAD /\ NTHREAD \in 0 .. NTHREAD
    OBVIOUS
  <2>2. c[{}] = F
    BY <1>6, <2>1
  <2>3. q[0] = c[1 .. 0] /\ q[NTHREAD] = c[1 .. NTHREAD]
    BY <1>8, <2>1
  <2> QED
    BY <1>7, <2>1, <2>2, <2>3
<1>10. ASSUME NEW k \in 1 .. NTHREAD
       PROVE  q[k] = PassStep(q[k - 1], k - 1, mr, sr)
  <2>1. /\ 1 .. k \in SUBSET T /\ 1 .. k # {}
        /\ Max(1 .. k) = k /\ (1 .. k) \ {k} = 1 .. (k - 1)
    BY IntervalMax
  <2>2. c[1 .. k] = PassStep(c[1 .. (k - 1)], TidSeq[k], mr, sr)
    BY <1>6, <2>1
  <2>3. k \in 0 .. NTHREAD /\ k - 1 \in 0 .. NTHREAD /\ TidSeq[k] = k - 1
    BY DEF TidSeq
  <2> QED
    BY <1>8, <2>2, <2>3
<1>11. q \in [0 .. NTHREAD -> SUBSET Tids]
  <2> DEFINE D == {k \in Nat : k <= NTHREAD => q[k] \in SUBSET Tids}
  <2>1. 0 \in D
    BY <1>9
  <2>2. ASSUME NEW k \in D
        PROVE  k + 1 \in D
    <3>1. SUFFICES ASSUME k + 1 <= NTHREAD PROVE q[k + 1] \in SUBSET Tids
      OBVIOUS
    <3>2. q[k] \in SUBSET Tids /\ k \in Tids /\ k + 1 \in 1 .. NTHREAD /\ (k + 1) - 1 = k
      BY <3>1 DEF Tids
    <3>3. q[k + 1] = PassStep(q[k], k, mr, sr)
      BY <1>10, <3>2
    <3> QED
      BY <3>2, <3>3 DEF PassStep
  <2>3. D \in SUBSET Nat
    OBVIOUS
  <2> HIDE DEF D
  <2>4. \A k \in Nat : k \in D
    BY <2>1, <2>2, <2>3, NatSet
  <2>5. \A k \in 0 .. NTHREAD : q[k] \in SUBSET Tids
    BY <2>4 DEF D
  <2> QED
    BY <1>8, <2>5
<1> QED
  BY <1>9, <1>10, <1>11 DEF PassSteps

\* The rounds: one round per member of TidSeq.
Rounds(q, mr, sr) ==
    /\ q \in [0 .. NTHREAD -> SUBSET Tids]
    /\ q[0] = Finished
    /\ deadlock_detect(mr, sr) <=> q[NTHREAD] # Tids
    /\ \A k \in 1 .. NTHREAD : q[k] = DetectPass(q[k - 1], mr, sr)

\* A round yields threads.
LEMMA PassIn ==
  ASSUME NEW F \in SUBSET Tids, NEW mr, NEW sr
  PROVE  DetectPass(F, mr, sr) \in SUBSET Tids
<1>1. PICK q : PassSteps(q, F, mr, sr)
  BY PassChain
<1> QED
  BY <1>1, PoolAssumption DEF PassSteps

\* The detector's answer is read off the last of its NTHREAD rounds.
LEMMA RoundChain ==
  ASSUME NEW mr, NEW sr
  PROVE  \E q : Rounds(q, mr, sr)
<1> USE PoolAssumption
<1> DEFINE T == 1 .. NTHREAD
           c == CHOOSE it : it = [s \in SUBSET T |->
                  IF s = {} THEN Finished
                  ELSE LET x == Max(s) IN DetectPass(it[s \ {x}], mr, sr)]
<1>1. PICK step : step = [z \in T \X SUBSET Tids |-> DetectPass(z[2], mr, sr)]
  OBVIOUS
<1>2. step \in [T \X SUBSET Tids -> SUBSET Tids]
  BY <1>1, PassIn
<1>0. Finished \in SUBSET Tids
  BY DEF Finished
<1>3. PICK g : LastFold(g, SUBSET Tids, Finished, step, NTHREAD)
  <2>1. NTHREAD \in Nat
    OBVIOUS
  <2> QED
    BY <1>0, <1>2, <2>1, FoldLast, Zenon
<1>4. \A s \in SUBSET T : s # {} =>
        step[<<Max(s), g[s \ {Max(s)}]>>] = DetectPass(g[s \ {Max(s)}], mr, sr)
  <2> SUFFICES ASSUME NEW s \in SUBSET T, s # {}
               PROVE  step[<<Max(s), g[s \ {Max(s)}]>>] = DetectPass(g[s \ {Max(s)}], mr, sr)
    OBVIOUS
  <2>1. Max(s) \in T
    BY MaxIn
  <2>2. s \ {Max(s)} \in SUBSET T
    BY <2>1
  <2>3. g[s \ {Max(s)}] \in SUBSET Tids
    BY <1>3, <2>2 DEF LastFold
  <2> QED
    BY <1>1, <2>1, <2>3
<1>5. g = [s \in SUBSET T |->
            IF s = {} THEN Finished
            ELSE LET x == Max(s) IN DetectPass(g[s \ {x}], mr, sr)]
  BY <1>3, <1>4 DEF LastFold
<1>6. c = [s \in SUBSET T |->
            IF s = {} THEN Finished
            ELSE LET x == Max(s) IN DetectPass(c[s \ {x}], mr, sr)]
  BY <1>5, Zenon
<1>7. deadlock_detect(mr, sr) <=> c[T] # Tids
  BY DEF deadlock_detect, FoldLeft, MapThenFoldSet, TidSeq
<1> HIDE DEF c
<1>8. PICK q : q = [k \in 0 .. NTHREAD |-> c[1 .. k]]
  OBVIOUS
<1>9. q[0] = Finished /\ (deadlock_detect(mr, sr) <=> q[NTHREAD] # Tids)
  <2>1. 1 .. 0 = {} /\ {} \in SUBSET T /\ 0 \in 0 .. NTHREAD /\ NTHREAD \in 0 .. NTHREAD
    OBVIOUS
  <2>2. c[{}] = Finished
    BY <1>6, <2>1
  <2>3. q[0] = c[1 .. 0] /\ q[NTHREAD] = c[1 .. NTHREAD]
    BY <1>8, <2>1
  <2> QED
    BY <1>7, <2>1, <2>2, <2>3
<1>10. ASSUME NEW k \in 1 .. NTHREAD
       PROVE  q[k] = DetectPass(q[k - 1], mr, sr)
  <2>1. /\ 1 .. k \in SUBSET T /\ 1 .. k # {}
        /\ Max(1 .. k) = k /\ (1 .. k) \ {k} = 1 .. (k - 1)
    BY IntervalMax
  <2>2. c[1 .. k] = DetectPass(c[1 .. (k - 1)], mr, sr)
    BY <1>6, <2>1
  <2>3. k \in 0 .. NTHREAD /\ k - 1 \in 0 .. NTHREAD
    OBVIOUS
  <2> QED
    BY <1>8, <2>2, <2>3
<1>11. q \in [0 .. NTHREAD -> SUBSET Tids]
  <2> DEFINE D == {k \in Nat : k <= NTHREAD => q[k] \in SUBSET Tids}
  <2>1. 0 \in D
    BY <1>0, <1>9
  <2>2. ASSUME NEW k \in D
        PROVE  k + 1 \in D
    <3>1. SUFFICES ASSUME k + 1 <= NTHREAD PROVE q[k + 1] \in SUBSET Tids
      OBVIOUS
    <3>2. q[k] \in SUBSET Tids /\ k + 1 \in 1 .. NTHREAD /\ (k + 1) - 1 = k
      BY <3>1
    <3>3. q[k + 1] = DetectPass(q[k], mr, sr)
      BY <1>10, <3>2
    <3> QED
      BY <3>2, <3>3, PassIn
  <2>3. D \in SUBSET Nat
    OBVIOUS
  <2> HIDE DEF D
  <2>4. \A k \in Nat : k \in D
    BY <2>1, <2>2, <2>3, NatSet
  <2>5. \A k \in 0 .. NTHREAD : q[k] \in SUBSET Tids
    BY <2>4 DEF D
  <2> QED
    BY <1>8, <2>5
<1> QED
  BY <1>9, <1>10, <1>11 DEF Rounds

\* There are NTHREAD threads.
LEMMA TidsFinite == IsFiniteSet(Tids) /\ Cardinality(Tids) = NTHREAD /\ NTHREAD \in Nat
<1>1. NTHREAD \in Nat /\ NTHREAD - 1 \in Int /\ 0 \in Int /\ 0 <= NTHREAD - 1
  BY PoolAssumption
<1>2. IsFiniteSet(0 .. NTHREAD - 1) /\ Cardinality(0 .. NTHREAD - 1) = (NTHREAD - 1) - 0 + 1
  BY <1>1, FS_Interval
<1> QED
  BY <1>1, <1>2 DEF Tids

\* The recorded units of semaphore j in the threads of a set, as a sum.
LEMMA AllocSum ==
  ASSUME TypeSems, NEW j \in Semaphores, NEW R \in SUBSET Tids
  PROVE  \E g : IsSum(g, sAlloc[j], R) /\ MapThenSumSet(LAMBDA i : sAlloc[j][i], R) = g[R]
<1> DEFINE c == CHOOSE it : it = [s \in SUBSET R |->
                  IF s = {} THEN 0
                  ELSE LET x == CHOOSE x \in s : TRUE IN sAlloc[j][x] + it[s \ {x}]]
<1>1. IsFiniteSet(R) /\ IntOn(sAlloc[j], R)
  BY TidsFinite, FS_Subset DEF IntOn, TypeSems
<1>2. PICK g : IsSum(g, sAlloc[j], R)
  BY <1>1, SumExists
<1>3. g = [s \in SUBSET R |->
            IF s = {} THEN 0 ELSE LET x == CHOOSE x \in s : TRUE IN sAlloc[j][x] + g[s \ {x}]]
  BY <1>2 DEF IsSum, Pick
<1>4. c = [s \in SUBSET R |->
            IF s = {} THEN 0 ELSE LET x == CHOOSE x \in s : TRUE IN sAlloc[j][x] + c[s \ {x}]]
  BY <1>3, Zenon
<1>5. MapThenSumSet(LAMBDA i : sAlloc[j][i], R) = c[R]
  BY DEF MapThenSumSet, MapThenFoldSet
<1> HIDE DEF c
<1>6. IsSum(c, sAlloc[j], R)
  BY <1>4 DEF IsSum, Pick
<1> QED
  BY <1>5, <1>6

\* The work only grows with the set of threads that are assumed to finish.
LEMMA WorkSemMono ==
  ASSUME TypeSems, NEW F \in SUBSET Tids, NEW G \in SUBSET Tids, F \subseteq G,
         NEW j \in Semaphores, work_sem(F, j) >= 1
  PROVE  work_sem(G, j) >= 1
<1>0. PICK R \in SUBSET Tids, S \in SUBSET Tids : R = F \ Finished /\ S = G \ Finished
  OBVIOUS
<1>1. PICK f : IsSum(f, sAlloc[j], R) /\ MapThenSumSet(LAMBDA i : sAlloc[j][i], R) = f[R]
  BY AllocSum
<1>2. PICK g : IsSum(g, sAlloc[j], S) /\ MapThenSumSet(LAMBDA i : sAlloc[j][i], S) = g[S]
  BY AllocSum
<1>3. IsFiniteSet(S) /\ R \in SUBSET S /\ R \in SUBSET R /\ S \in SUBSET S
  BY <1>0, TidsFinite, FS_Subset
<1>4. SameOn(sAlloc[j], sAlloc[j], R)
  BY DEF SameOn
<1>5. SameOn(g, f, SUBSET R)
  BY <1>1, <1>2, <1>3, <1>4, SumAgree, Zenon
<1>6. \A x \in S : sAlloc[j][x] \in Nat
  BY <1>0 DEF TypeSems
<1>7. \A r \in SUBSET S : g[r] \in Nat /\ \A s \in SUBSET r : g[s] <= g[r]
  BY <1>2, <1>3, <1>6, SumMono, Zenon
<1>8. g[R] = f[R] /\ g[R] \in Nat /\ g[S] \in Nat /\ g[R] <= g[S]
  BY <1>3, <1>5, <1>7 DEF SameOn
<1>9. PICK n \in Nat : n = (IF count[j] > 0 THEN count[j] ELSE 0)
  BY DEF TypeSems
<1>10. work_sem(F, j) = n + f[R] /\ work_sem(G, j) = n + g[S]
  BY <1>0, <1>1, <1>2, <1>9 DEF work_sem
<1> QED
  BY <1>8, <1>9, <1>10

\* So does the work on a mutex.
LEMMA WorkMutexMono ==
  ASSUME NEW F \in SUBSET Tids, NEW G \in SUBSET Tids, F \subseteq G,
         NEW j \in Mutexes, work_mutex(F, j) >= 1
  PROVE  work_mutex(G, j) >= 1
<1>1. PICK R, S : R = mAlloc[j] \cap (F \ Finished) /\ S = mAlloc[j] \cap (G \ Finished)
  OBVIOUS
<1>2. IsFiniteSet(S) /\ R \in SUBSET S
  BY <1>1, TidsFinite, FS_Subset
<1>3. Cardinality(R) \in Nat /\ Cardinality(S) \in Nat /\ Cardinality(R) <= Cardinality(S)
  BY <1>2, SizeOf
<1> QED
  BY <1>1, <1>3 DEF work_mutex

\* Who can finish after some threads can finish after more of them.
LEMMA PossibleMono ==
  ASSUME TypeOK, NEW mr, NEW sr, NEW F \in SUBSET Tids, NEW G \in SUBSET Tids, F \subseteq G,
         NEW i, Possible(i, F, mr, sr)
  PROVE  Possible(i, G, mr, sr)
  BY WorkSemMono, WorkMutexMono DEF Possible, TypeOK

\* A round only adds threads, each at its turn.
LEMMA PassAscends ==
  ASSUME NEW F \in SUBSET Tids, NEW mr, NEW sr, NEW q, PassSteps(q, F, mr, sr)
  PROVE  \A k \in 0 .. NTHREAD : F \subseteq q[k] /\ q[k] \subseteq DetectPass(F, mr, sr)
<1> USE PoolAssumption DEF PassSteps
<1> DEFINE D == {k \in Nat : k <= NTHREAD => \A j \in 0 .. k : q[j] \subseteq q[k]}
<1>1. 0 \in D
  OBVIOUS
<1>2. ASSUME NEW k \in D
      PROVE  k + 1 \in D
  <2>1. SUFFICES ASSUME k + 1 <= NTHREAD, NEW j \in 0 .. k + 1 PROVE q[j] \subseteq q[k + 1]
    OBVIOUS
  <2>2. k + 1 \in 1 .. NTHREAD /\ (k + 1) - 1 = k /\ (j = k + 1 \/ j \in 0 .. k)
    BY <2>1
  <2>3. q[k + 1] = PassStep(q[k], k, mr, sr)
    BY <2>2
  <2>4. q[k] \subseteq q[k + 1]
    BY <2>3 DEF PassStep
  <2>5. j \in 0 .. k => q[j] \subseteq q[k]
    BY <2>1
  <2> QED
    BY <2>2, <2>4, <2>5
<1>3. D \in SUBSET Nat
  OBVIOUS
<1> HIDE DEF D
<1>4. \A k \in Nat : k \in D
  BY <1>1, <1>2, <1>3, NatSet
<1>5. \A k \in 0 .. NTHREAD : \A j \in 0 .. k : q[j] \subseteq q[k]
  BY <1>4 DEF D
<1> QED
  BY <1>5

\* A round finishes all it was given.
LEMMA PassGrows ==
  ASSUME NEW F \in SUBSET Tids, NEW mr, NEW sr
  PROVE  F \subseteq DetectPass(F, mr, sr)
<1>1. PICK q : PassSteps(q, F, mr, sr)
  BY PassChain
<1>2. NTHREAD \in 0 .. NTHREAD
  BY PoolAssumption
<1>3. F \subseteq q[NTHREAD]
  BY <1>1, <1>2, PassAscends
<1> QED
  BY <1>1, <1>3 DEF PassSteps

\* A round that adds nobody leaves nobody who could have gone on.
LEMMA PassFixed ==
  ASSUME NEW F \in SUBSET Tids, NEW mr, NEW sr, DetectPass(F, mr, sr) = F,
         NEW i \in Tids \ F
  PROVE  ~Possible(i, F, mr, sr)
<1>1. PICK q : PassSteps(q, F, mr, sr)
  BY PassChain
<1>2. \A k \in 0 .. NTHREAD : q[k] = F
  BY <1>1, PassAscends
<1>3. i + 1 \in 1 .. NTHREAD /\ i \in 0 .. NTHREAD /\ i + 1 \in 0 .. NTHREAD /\ (i + 1) - 1 = i
  BY PoolAssumption DEF Tids
<1>4. F = PassStep(F, i, mr, sr)
  BY <1>1, <1>2, <1>3 DEF PassSteps
<1> QED
  BY <1>4 DEF PassStep

\* A round does not reach threads that wait for one another.
LEMMA PassAvoids ==
  ASSUME TypeOK, NEW mr, NEW sr, NEW D \in SUBSET Tids,
         \A i \in D : ~Possible(i, Tids \ D, mr, sr),
         NEW F \in SUBSET (Tids \ D)
  PROVE  DetectPass(F, mr, sr) \in SUBSET (Tids \ D)
<1> USE PoolAssumption
<1>1. PICK q : PassSteps(q, F, mr, sr)
  BY PassChain
<1> DEFINE K == {k \in Nat : k <= NTHREAD => q[k] \in SUBSET (Tids \ D)}
<1>2. 0 \in K
  BY <1>1 DEF PassSteps
<1>3. ASSUME NEW k \in K
      PROVE  k + 1 \in K
  <2>1. SUFFICES ASSUME k + 1 <= NTHREAD PROVE q[k + 1] \in SUBSET (Tids \ D)
    OBVIOUS
  <2>2. k + 1 \in 1 .. NTHREAD /\ (k + 1) - 1 = k /\ k \in Tids /\ q[k] \in SUBSET (Tids \ D)
    BY <2>1 DEF Tids
  <2>3. q[k + 1] = PassStep(q[k], k, mr, sr)
    BY <1>1, <2>2 DEF PassSteps
  <2>4. Possible(k, q[k], mr, sr) => k \notin D
    <3>1. q[k] \in SUBSET Tids /\ Tids \ D \in SUBSET Tids /\ q[k] \subseteq Tids \ D
      BY <2>2
    <3>2. Possible(k, q[k], mr, sr) => Possible(k, Tids \ D, mr, sr)
      BY <3>1, PossibleMono
    <3> QED
      BY <3>2
  <2> QED
    BY <2>2, <2>3, <2>4 DEF PassStep
<1>4. K \in SUBSET Nat
  OBVIOUS
<1> HIDE DEF K
<1>5. NTHREAD \in K
  BY <1>2, <1>3, <1>4, NatSet
<1> QED
  BY <1>1, <1>5 DEF K, PassSteps

\* NTHREAD rounds reach a fixed point: each round before it finishes a thread.
LEMMA RoundsFixed ==
  ASSUME NEW mr, NEW sr, NEW q, Rounds(q, mr, sr)
  PROVE  /\ q[NTHREAD] \in SUBSET Tids /\ Finished \subseteq q[NTHREAD]
         /\ DetectPass(q[NTHREAD], mr, sr) = q[NTHREAD]
<1> USE PoolAssumption
<1> DEFINE Fixed(k) == DetectPass(q[k], mr, sr) = q[k]
           D == {k \in Nat : k <= NTHREAD =>
                   Finished \subseteq q[k] /\ (Fixed(k) \/ Cardinality(q[k]) >= k)}
<1>0. Finished \in SUBSET Tids
  BY DEF Finished
<1>1. 0 \in D
  <2>1. q[0] = Finished
    BY DEF Rounds
  <2>2. Cardinality(Finished) >= 0
    BY <1>0, TidsFinite, SizeOf
  <2> QED
    BY <2>1, <2>2
<1>2. ASSUME NEW k \in D
      PROVE  k + 1 \in D
  <2>1. SUFFICES ASSUME k + 1 <= NTHREAD
                 PROVE  Finished \subseteq q[k + 1] /\ (Fixed(k + 1) \/ Cardinality(q[k + 1]) >= k + 1)
    OBVIOUS
  <2>2. /\ k + 1 \in 1 .. NTHREAD /\ (k + 1) - 1 = k /\ k \in 0 .. NTHREAD
        /\ k + 1 \in 0 .. NTHREAD
    BY <2>1
  <2>3. /\ q[k] \in SUBSET Tids /\ q[k + 1] \in SUBSET Tids
        /\ q[k + 1] = DetectPass(q[k], mr, sr)
    BY <2>2 DEF Rounds
  <2>4. q[k] \subseteq q[k + 1]
    BY <2>3, PassGrows
  <2>5. Finished \subseteq q[k]
    BY <2>1
  <2>6. CASE q[k + 1] = q[k]
    BY <2>3, <2>5, <2>6
  <2>7. CASE q[k + 1] # q[k]
    <3>1. Cardinality(q[k]) >= k
      BY <2>1, <2>3, <2>7
    <3>2. PICK x \in q[k + 1] : x \notin q[k]
      BY <2>4, <2>7
    <3>3. PICK r \in SUBSET Tids : r = q[k + 1] \ {x}
      BY <2>3
    <3>4. IsFiniteSet(q[k + 1]) /\ Cardinality(r) = Cardinality(q[k + 1]) - 1
      BY <2>3, <3>2, <3>3, TidsFinite, SizeOf
    <3>5. q[k] \in SUBSET r /\ IsFiniteSet(r)
      BY <2>4, <3>2, <3>3, TidsFinite, SizeOf
    <3>6. Cardinality(q[k]) <= Cardinality(r) /\ Cardinality(q[k]) \in Nat /\ Cardinality(r) \in Nat
      BY <3>5, SizeOf
    <3>7. Cardinality(q[k + 1]) \in Nat
      BY <3>4, FS_CardinalityType
    <3>8. Cardinality(q[k + 1]) >= k + 1
      BY <3>1, <3>4, <3>6, <3>7
    <3> QED
      BY <2>4, <2>5, <3>8
  <2> QED
    BY <2>6, <2>7
<1>3. D \in SUBSET Nat
  OBVIOUS
<1> HIDE DEF D
<1>4. NTHREAD \in D
  BY <1>1, <1>2, <1>3, NatSet
<1>5. Finished \subseteq q[NTHREAD] /\ (Fixed(NTHREAD) \/ Cardinality(q[NTHREAD]) >= NTHREAD)
  BY <1>4 DEF D
<1>6. q[NTHREAD] \in SUBSET Tids
  BY DEF Rounds
<1>7. CASE Cardinality(q[NTHREAD]) >= NTHREAD
  <2>1. Cardinality(q[NTHREAD]) = Cardinality(Tids)
    BY <1>6, <1>7, TidsFinite, SizeOf
  <2>2. q[NTHREAD] = Tids
    BY <1>6, <2>1, TidsFinite, FS_Subset
  <2>3. DetectPass(Tids, mr, sr) = Tids
    BY PassGrows, PassIn
  <2> QED
    BY <1>5, <1>6, <2>2, <2>3
<1> QED
  BY <1>5, <1>6, <1>7

\* The detector's rounds decide the banker's question.
LEMMA DetectorDecides ==
  ASSUME TypeOK, NEW mr, NEW sr
  PROVE  deadlock_detect(mr, sr) <=> BankerDeadlock(mr, sr)
<1>1. PICK q : Rounds(q, mr, sr)
  BY RoundChain
<1>2. PICK R \in SUBSET Tids : R = q[NTHREAD] /\ Finished \subseteq R /\ DetectPass(R, mr, sr) = R
  BY <1>1, RoundsFixed
<1>3. deadlock_detect(mr, sr) <=> R # Tids
  BY <1>1, <1>2 DEF Rounds
<1>4. ASSUME R # Tids
      PROVE  BankerDeadlock(mr, sr)
  <2>1. PICK D \in SUBSET (Tids \ Finished) : D = Tids \ R /\ D # {} /\ Tids \ D = R
    BY <1>2, <1>4
  <2>2. \A i \in D : ~Possible(i, Tids \ D, mr, sr)
    BY <1>2, <2>1, PassFixed
  <2> QED
    BY <2>1, <2>2 DEF BankerDeadlock
<1>5. ASSUME BankerDeadlock(mr, sr)
      PROVE  R # Tids
  <2>1. PICK D \in SUBSET (Tids \ Finished) :
            D # {} /\ \A i \in D : ~Possible(i, Tids \ D, mr, sr)
    BY <1>5 DEF BankerDeadlock
  <2> DEFINE K == {k \in Nat : k <= NTHREAD => q[k] \in SUBSET (Tids \ D)}
  <2>2. 0 \in K
    BY <1>1 DEF Rounds, Finished
  <2>3. ASSUME NEW k \in K
        PROVE  k + 1 \in K
    <3>1. SUFFICES ASSUME k + 1 <= NTHREAD PROVE q[k + 1] \in SUBSET (Tids \ D)
      OBVIOUS
    <3>2. k + 1 \in 1 .. NTHREAD /\ (k + 1) - 1 = k /\ q[k] \in SUBSET (Tids \ D)
      BY <3>1, PoolAssumption
    <3>3. q[k + 1] = DetectPass(q[k], mr, sr)
      BY <1>1, <3>2 DEF Rounds
    <3>4. D \in SUBSET Tids /\ \A i \in D : ~Possible(i, Tids \ D, mr, sr)
      BY <2>1
    <3>5. PICK F \in SUBSET (Tids \ D) : F = q[k]
      BY <3>2
    <3>6. DetectPass(F, mr, sr) \in SUBSET (Tids \ D)
      BY <3>4, PassAvoids, Zenon
    <3> QED
      BY <3>3, <3>5, <3>6
  <2>4. K \in SUBSET Nat
    OBVIOUS
  <2> HIDE DEF K
  <2>5. NTHREAD \in K
    BY <2>2, <2>3, <2>4, NatSet, PoolAssumption
  <2> QED
    BY <1>2, <2>1, <2>5 DEF K
<1> QED
  BY <1>3, <1>4, <1>5

\* sys_mutex_lock and sys_semaphore_down refuse a request exactly when the
\* banker's test does: the rounds of deadlock_detect in tid order, for any
\* number of threads, miss no safe order and find none that is not there.
THEOREM DetectorTheorem == Spec => []DetectorIsBanker
<1>1. TypeOK => DetectorIsBanker
  BY DetectorDecides DEF DetectorIsBanker, RefuseLock, RefuseDown
<1> QED
  BY <1>1, TypeCorrect, PTL

-----------------------------------------------------------------------------
(* With blocking mutexes alone the detector is exact *)

\* A thread that sleeps before a mutex sleeps before a locked one, and a thread
\* that holds a mutex has not exited.
HolderInv ==
    /\ \A t \in Tids : tstate[t] = "SLEEPING" /\ pc[t] = "mutex" => locked[obj[t]] # 0
    /\ \A m \in Mutexes : \A t \in holders[m] : tstate[t] \in {"RUNNABLE", "SLEEPING"}

\* mutex_lock by a running thread.
LEMMA LockHolder ==
  ASSUME BasicInv, HolderInv, NEW t \in Tids, NEW m \in Mutexes, NEW mr, tstate[t] = "RUNNABLE",
         mutex_lock(t, m, mr)
  PROVE  HolderInv'
<1>0. /\ locked = [x \in Mutexes |-> locked[x]] /\ holders = [x \in Mutexes |-> holders[x]]
      /\ tstate = [x \in Tids |-> tstate[x]] /\ pc = [x \in Tids |-> pc[x]]
      /\ obj = [x \in Tids |-> obj[x]]
  BY DEF BasicInv, TypeOK, TypeThreads, TypeMutexes
<1>1. CASE lock_free(t, m, mr)
  <2>1. /\ \A u \in Tids : pc'[u] = IF u = t THEN "user" ELSE pc[u]
        /\ tstate' = tstate /\ obj' = obj
        /\ \A x \in Mutexes : holders'[x] = IF x = m THEN holders[m] \cup {t} ELSE holders[x]
        /\ locked' = [locked EXCEPT ![m] = 1]
    BY <1>0, <1>1 DEF lock_free, Return
  <2>2. \A x : locked[x] # 0 => locked'[x] # 0
    BY <1>0, <2>1
  <2>3. \A u \in Tids : tstate'[u] = "SLEEPING" /\ pc'[u] = "mutex" => locked'[obj'[u]] # 0
    BY <2>1, <2>2 DEF HolderInv
  <2>4. \A x \in Mutexes : \A u \in holders'[x] : tstate'[u] \in {"RUNNABLE", "SLEEPING"}
    BY <2>1 DEF HolderInv
  <2> QED
    BY <2>3, <2>4 DEF HolderInv
<1>2. CASE lock_spin(t, m, mr) \/ lock_block(t, m, mr)
  <2>1. /\ locked' = locked /\ holders' = holders /\ locked[m] # 0
        /\ \A u \in Tids : u # t => tstate'[u] = tstate[u] /\ pc'[u] = pc[u] /\ obj'[u] = obj[u]
        /\ obj'[t] = m /\ tstate'[t] \in {"RUNNABLE", "SLEEPING"}
    BY <1>0, <1>2 DEF lock_spin, lock_block, Suspend
  <2>2. ASSUME NEW u \in Tids, tstate'[u] = "SLEEPING", pc'[u] = "mutex"
        PROVE  locked'[obj'[u]] # 0
    <3>1. CASE u = t
      BY <2>1, <3>1
    <3>2. CASE u # t
      BY <2>1, <2>2, <3>2 DEF HolderInv
    <3> QED
      BY <3>1, <3>2
  <2>3. \A x \in Mutexes : \A u \in holders'[x] : tstate'[u] \in {"RUNNABLE", "SLEEPING"}
    <3>1. \A x \in Mutexes : holders[x] \subseteq Tids
      BY DEF BasicInv, TypeOK, TypeMutexes
    <3> QED
      BY <2>1, <3>1 DEF HolderInv
  <2> QED
    BY <2>2, <2>3 DEF HolderInv
<1> QED
  BY <1>1, <1>2 DEF mutex_lock

\* mutex_unlock: the mutex stays locked as long as somebody waits for it.
LEMMA UnlockHolder ==
  ASSUME BasicInv, HolderInv, Alive, NEW t \in Tids, NEW m \in Mutexes, m < nextMutex,
         tstate[t] = "RUNNABLE", pc[t] = "user", mutex_unlock(t, m),
         \A u \in Tids : u # t => /\ tstate'[u] = Wake(NextOwner(m))[u]
                                  /\ pc'[u] = pc[u] /\ obj'[u] = obj[u],
         tstate'[t] \in {"RUNNABLE", "SLEEPING"}, pc'[t] # "mutex"
  PROVE  HolderInv'
<1>1. /\ \A x \in Mutexes : holders'[x] = IF x = m THEN holders[m] \ {t} ELSE holders[x]
      /\ \A x : x # m => locked'[x] = locked[x]
      /\ locked'[m] = LockedAfter(m)
  BY DEF mutex_unlock, BasicInv, TypeOK, TypeMutexes
<1>2. \A u \in Tids : u # t => tstate'[u] = IF u \in NextOwner(m) THEN "RUNNABLE" ELSE tstate[u]
  BY DEF Wake
<1>3. ASSUME NEW u \in Tids, tstate'[u] = "SLEEPING", pc'[u] = "mutex"
      PROVE  locked'[obj'[u]] # 0
  <2>1. u # t /\ tstate[u] = "SLEEPING" /\ pc[u] = "mutex" /\ obj'[u] = obj[u]
    BY <1>2, <1>3
  <2>2. locked[obj[u]] # 0
    BY <2>1 DEF HolderInv
  <2>3. CASE obj[u] # m
    BY <1>1, <2>1, <2>2, <2>3
  <2>4. CASE obj[u] = m
    <3>1. blocking[m] # 0 /\ u \in Sleepers("mutex", m)
      BY <2>1, <2>4 DEF BasicInv, ThreadInv, Sleepers, Asleep
    <3>2. QueueOf(mqueue[m], "mutex", m)
      BY <3>1 DEF BasicInv, QueueInv, CreatedBlocking
    <3>3. mqueue[m] # <<>>
      BY <3>1, <3>2, EmptyQueueOf DEF QueueOf
    <3>4. NextOwner(m) # {}
      BY <3>1, <3>3 DEF NextOwner
    <3> QED
      BY <1>1, <2>1, <2>2, <2>4, <3>4 DEF LockedAfter
  <2> QED
    BY <2>3, <2>4
<1>4. ASSUME NEW x \in Mutexes, NEW u \in holders'[x]
      PROVE  tstate'[u] \in {"RUNNABLE", "SLEEPING"}
  <2>1. u \in holders[x] /\ u \in Tids
    BY <1>1 DEF BasicInv, TypeOK, TypeMutexes
  <2>2. tstate[u] \in {"RUNNABLE", "SLEEPING"}
    BY <2>1 DEF HolderInv
  <2> QED
    BY <1>2, <2>1, <2>2
<1> QED
  BY <1>3, <1>4 DEF HolderInv

\* Every step keeps HolderInv, whatever the clients do.
LEMMA HolderNext ==
  ASSUME BasicInv, HolderInv, [Next]_vars
  PROVE  HolderInv'
<1> USE DEF threadVars, mutexVars, semVars, condVars
<1>0. /\ tstate = [x \in Tids |-> tstate[x]] /\ pc = [x \in Tids |-> pc[x]]
      /\ obj = [x \in Tids |-> obj[x]]
      /\ \A x \in Mutexes : holders[x] \subseteq Tids
      /\ locked = [x \in Mutexes |-> locked[x]] /\ holders = [x \in Mutexes |-> holders[x]]
  BY DEF BasicInv, TypeOK, TypeThreads, TypeMutexes
<1>a. ASSUME NEW t \in Tids, tstate[t] = "RUNNABLE" PROVE Alive
  BY <1>a DEF BasicInv, ThreadInv, Alive
\* Steps that touch no mutex; a holder stays what it is.
<1>b. ASSUME UNCHANGED <<locked, holders>>,
             \A u \in Tids : \/ tstate'[u] = tstate[u] /\ pc'[u] = pc[u] /\ obj'[u] = obj[u]
                             \/ /\ tstate'[u] = "SLEEPING" => pc'[u] # "mutex"
                                /\ \/ tstate'[u] \in {"RUNNABLE", "SLEEPING"}
                                   \/ tstate[u] \notin {"RUNNABLE", "SLEEPING"}
      PROVE  HolderInv'
  <2>1. ASSUME NEW u \in Tids, tstate'[u] = "SLEEPING", pc'[u] = "mutex"
        PROVE  locked'[obj'[u]] # 0
    BY <1>b, <2>1 DEF HolderInv
  <2>2. ASSUME NEW x \in Mutexes, NEW u \in holders'[x]
        PROVE  tstate'[u] \in {"RUNNABLE", "SLEEPING"}
    <3>1. u \in holders[x] /\ u \in Tids /\ tstate[u] \in {"RUNNABLE", "SLEEPING"}
      BY <1>0, <1>b, <2>2 DEF HolderInv
    <3> QED
      BY <1>b, <3>1
  <2> QED
    BY <2>1, <2>2 DEF HolderInv
<1>1. ASSUME NEW t \in Tids, mutex_resume(t) \/ spin_retry(t) PROVE HolderInv'
  <2>1. /\ tstate[t] = "RUNNABLE" /\ tstate' = tstate /\ obj' = obj /\ locked' = locked
        /\ pc' = [pc EXCEPT ![t] = "user"]
        /\ holders' = [holders EXCEPT ![obj[t]] = @ \cup {t}]
    BY <1>1 DEF mutex_resume, spin_retry, Woken, Return
  <2>2. \A u \in Tids : pc'[u] = IF u = t THEN "user" ELSE pc[u]
    BY <1>0, <2>1
  <2>3. \A x \in Mutexes : holders'[x] \subseteq holders[x] \cup {t}
    BY <1>0, <2>1
  <2> QED
    BY <2>1, <2>2, <2>3 DEF HolderInv
<1>2. ASSUME NEW t \in Tids, semaphore_resume(t) PROVE HolderInv'
  <2>1. /\ tstate[t] = "RUNNABLE" /\ UNCHANGED <<tstate, obj, locked, holders>>
        /\ pc' = [pc EXCEPT ![t] = "user"]
    BY <1>2 DEF semaphore_resume, Woken, Return
  <2>2. \A u \in Tids : \/ tstate'[u] = tstate[u] /\ pc'[u] = pc[u] /\ obj'[u] = obj[u]
                        \/ u = t
    BY <1>0, <2>1
  <2> QED
    BY <1>b, <2>1, <2>2
<1>3. ASSUME NEW t \in Tids, condvar_resume(t) PROVE HolderInv'
  <2>1. mtx[t] \in Mutexes /\ tstate[t] = "RUNNABLE" /\ mutex_lock(t, mtx[t], mReq)
    BY <1>3 DEF condvar_resume, Woken, BasicInv, TypeOK, TypeThreads
  <2> QED
    BY <2>1, LockHolder
<1>4. ASSUME NEW t \in Tids, NEW b \in BLOCKING_ARGS, sys_mutex_create(t, b) PROVE HolderInv'
  <2>1. /\ UNCHANGED <<tstate, pc, obj, holders>>
        /\ locked' = [locked EXCEPT ![nextMutex] = 0]
    BY <1>4 DEF sys_mutex_create
  <2>2. \A u \in Tids : pc[u] = "mutex" => obj[u] # nextMutex
    BY DEF BasicInv, TypeOK, TypeThreads, TypeMutexes, ThreadInv
  <2>3. \A u \in Tids : pc[u] = "mutex" => locked'[obj[u]] = locked[obj[u]]
    BY <1>0, <2>1, <2>2
  <2> QED
    BY <2>1, <2>3 DEF HolderInv
<1>5. ASSUME NEW t \in Tids, NEW m \in Mutexes, sys_mutex_lock(t, m) PROVE HolderInv'
  <2>1. tstate[t] = "RUNNABLE"
    BY <1>5 DEF sys_mutex_lock, Running
  <2>2. \/ UNCHANGED <<tstate, pc, obj, locked, holders>>
        \/ \E mr : mutex_lock(t, m, mr)
    BY <1>5 DEF sys_mutex_lock
  <2> QED
    BY <1>b, <2>1, <2>2, LockHolder
<1>6. ASSUME NEW t \in Tids, NEW m \in Mutexes, sys_mutex_unlock(t, m) PROVE HolderInv'
  <2>1. /\ tstate[t] = "RUNNABLE" /\ pc[t] = "user" /\ m < nextMutex /\ mutex_unlock(t, m)
        /\ tstate' = Wake(NextOwner(m)) /\ pc' = pc /\ obj' = obj
    BY <1>6 DEF sys_mutex_unlock, Running
  <2>2. tstate'[t] = "RUNNABLE" /\ pc'[t] # "mutex"
    BY <2>1 DEF Wake
  <2>3. \A u \in Tids : u # t => /\ tstate'[u] = Wake(NextOwner(m))[u]
                                 /\ pc'[u] = pc[u] /\ obj'[u] = obj[u]
    BY <2>1
  <2> QED
    BY <1>a, <2>1, <2>2, <2>3, UnlockHolder
<1>7. ASSUME NEW t \in Tids, SemCall(t) PROVE HolderInv'
  <2>1. ASSUME NEW n \in SEM_COUNTS, sys_semaphore_create(t, n) PROVE HolderInv'
    BY <2>1 DEF sys_semaphore_create, HolderInv
  <2>2. ASSUME NEW s \in Semaphores, sys_semaphore_up(t, s) PROVE HolderInv'
    <3>1. /\ UNCHANGED <<pc, obj, locked, holders>>
          /\ \/ tstate' = tstate
             \/ \E W : tstate' = Wake(W)
      BY <2>2 DEF sys_semaphore_up, up_free, up_wake, up_panic
    <3>2. \A u \in Tids : \/ tstate'[u] = tstate[u]
                          \/ tstate'[u] = "RUNNABLE"
      BY <3>1 DEF Wake
    <3> QED
      BY <1>b, <3>1, <3>2
  <2>3. ASSUME NEW s \in Semaphores, sys_semaphore_down(t, s) PROVE HolderInv'
    <3>1. /\ UNCHANGED <<locked, holders>>
          /\ \/ UNCHANGED <<tstate, pc, obj>>
             \/ /\ tstate' = [tstate EXCEPT ![t] = "SLEEPING"]
                /\ pc' = [pc EXCEPT ![t] = "sem"]
                /\ obj' = [obj EXCEPT ![t] = s]
      BY <2>3 DEF sys_semaphore_down, semaphore_down, down_free, down_wait, Suspend
    <3>2. \A u \in Tids : \/ tstate'[u] = tstate[u] /\ pc'[u] = pc[u] /\ obj'[u] = obj[u]
                          \/ tstate'[u] = "SLEEPING" /\ pc'[u] = "sem"
      BY <1>0, <3>1
    <3> QED
      BY <1>b, <3>1, <3>2
  <2> QED
    BY <1>7, <2>1, <2>2, <2>3 DEF SemCall
<1>8. ASSUME NEW t \in Tids, CondCall(t) PROVE HolderInv'
  <2>1. ASSUME sys_condvar_create(t) PROVE HolderInv'
    BY <2>1 DEF sys_condvar_create, HolderInv
  <2>2. ASSUME NEW c \in Condvars, sys_condvar_signal(t, c) PROVE HolderInv'
    <3>1. /\ UNCHANGED <<pc, obj, locked, holders>>
          /\ \/ tstate' = tstate
             \/ \E W : tstate' = Wake(W)
      BY <2>2 DEF sys_condvar_signal
    <3>2. \A u \in Tids : \/ tstate'[u] = tstate[u]
                          \/ tstate'[u] = "RUNNABLE"
      BY <3>1 DEF Wake
    <3> QED
      BY <1>b, <3>1, <3>2
  <2>3. ASSUME NEW c \in Condvars, NEW m \in Mutexes, sys_condvar_wait(t, c, m) PROVE HolderInv'
    <3>1. /\ tstate[t] = "RUNNABLE" /\ pc[t] = "user" /\ m < nextMutex /\ mutex_unlock(t, m)
          /\ tstate' = [Wake(NextOwner(m)) EXCEPT ![t] = "SLEEPING"]
          /\ pc' = [pc EXCEPT ![t] = "cond"] /\ obj' = [obj EXCEPT ![t] = c]
      BY <2>3 DEF sys_condvar_wait, Running, Suspend
    <3>2. tstate'[t] = "SLEEPING" /\ pc'[t] # "mutex"
      BY <1>0, <3>1 DEF Wake
    <3>3. \A u \in Tids : u # t => /\ tstate'[u] = Wake(NextOwner(m))[u]
                                   /\ pc'[u] = pc[u] /\ obj'[u] = obj[u]
      BY <1>0, <3>1 DEF Wake
    <3> QED
      BY <1>a, <3>1, <3>2, <3>3, UnlockHolder
  <2> QED
    BY <1>8, <2>1, <2>2, <2>3 DEF CondCall
<1>9. ASSUME NEW t \in Tids, ThreadCall(t) PROVE HolderInv'
  <2>1. ASSUME NEW e \in DETECT_ARGS, sys_enable_deadlock_detect(t, e) PROVE HolderInv'
    BY <2>1 DEF sys_enable_deadlock_detect, HolderInv
  <2>2. ASSUME sys_thread_create(t) PROVE HolderInv'
    <3>1. PICK v \in Tids : /\ tstate[v] = "T_UNUSED"
                           /\ tstate' = [tstate EXCEPT ![v] = "RUNNABLE"]
                           /\ pc' = [pc EXCEPT ![v] = "user"]
      BY <2>2 DEF sys_thread_create
    <3>2. obj' = obj /\ UNCHANGED <<locked, holders>>
      BY <2>2 DEF sys_thread_create
    <3>3. \A u \in Tids : \/ tstate'[u] = tstate[u] /\ pc'[u] = pc[u] /\ obj'[u] = obj[u]
                          \/ tstate'[u] = "RUNNABLE"
      BY <1>0, <3>1, <3>2
    <3> QED
      BY <1>b, <3>2, <3>3
  <2>3. ASSUME NEW v \in Tids, sys_waittid(t, v) PROVE HolderInv'
    <3>1. /\ tstate[v] = "EXITED" /\ tstate' = [tstate EXCEPT ![v] = "T_UNUSED"]
          /\ UNCHANGED <<pc, obj, locked, holders>>
      BY <2>3 DEF sys_waittid
    <3>2. \A u \in Tids : \/ tstate'[u] = tstate[u] /\ pc'[u] = pc[u] /\ obj'[u] = obj[u]
                          \/ tstate'[u] = "T_UNUSED" /\ tstate[u] = "EXITED"
      BY <1>0, <3>1
    <3> QED
      BY <1>b, <3>1, <3>2
  <2>4. ASSUME exit_thread(t) PROVE HolderInv'
    <3>1. /\ tstate' = [tstate EXCEPT ![t] = "EXITED"] /\ UNCHANGED <<pc, obj, locked>>
          /\ \A x \in Mutexes : holders'[x] = holders[x] \ {t}
      BY <2>4 DEF exit_thread
    <3>2. \A u \in Tids : tstate'[u] = IF u = t THEN "EXITED" ELSE tstate[u]
      BY <1>0, <3>1
    <3>3. \A u \in Tids : tstate'[u] = "SLEEPING" /\ pc'[u] = "mutex" => locked'[obj'[u]] # 0
      BY <3>1, <3>2 DEF HolderInv
    <3>4. \A x \in Mutexes : \A u \in holders'[x] : tstate'[u] \in {"RUNNABLE", "SLEEPING"}
      BY <1>0, <3>1, <3>2 DEF HolderInv
    <3> QED
      BY <3>3, <3>4 DEF HolderInv
  <2> QED
    BY <1>9, <2>1, <2>2, <2>3, <2>4 DEF ThreadCall
<1>10. CASE exit_process
  BY <1>10 DEF exit_process, HolderInv
<1>11. CASE allocproc
  <2>1. /\ \A u \in Tids : tstate[u] = "T_UNUSED" /\ tstate'[u] # "SLEEPING"
        /\ holders' = holders
    BY <1>0, <1>11 DEF allocproc
  <2>2. \A x \in Mutexes : holders[x] = {}
    BY <1>0, <2>1 DEF HolderInv
  <2> QED
    BY <2>1, <2>2 DEF HolderInv
<1>12. CASE UNCHANGED vars
  BY <1>12 DEF vars, HolderInv
<1> QED
  BY <1>1, <1>2, <1>3, <1>4, <1>5, <1>6, <1>7, <1>8, <1>9, <1>10, <1>11, <1>12
  DEF Next, Resume, MutexCall

\* Programs that synchronise with mutexes only: no semaphore is created, and
\* there is no condition variable, whose wait takes its mutex again unasked.
NoSemaphores == SEM_COUNTS = {}
NoCondvars == NCOND = 0

\* So nobody asks for a semaphore.
SemsUnused ==
    /\ nextSem = 0
    /\ \A s \in Semaphores : sReq[s] = {}

\* There is no semaphore at first.
LEMMA SemsInit == Init => SemsUnused
  BY DEF Init, SemsUnused

\* No step of such a program creates or asks for one.
LEMMA SemsNext ==
  ASSUME NoSemaphores, BasicInv, SemsUnused, [Next]_vars
  PROVE  SemsUnused'
<1> USE DEF SemsUnused, threadVars, mutexVars, semVars, condVars
<1>1. \A s \in Semaphores : ~(s < nextSem)
  BY DEF Semaphores
<1>2. ASSUME NEW t \in Tids, Resume(t) PROVE SemsUnused'
  <2>1. ~semaphore_resume(t)
    BY <1>1 DEF semaphore_resume, Woken, BasicInv, TypeOK, TypeThreads, ThreadInv
  <2> QED
    BY <1>2, <2>1 DEF Resume, mutex_resume, spin_retry, condvar_resume
<1>3. ASSUME NEW t \in Tids, MutexCall(t) PROVE SemsUnused'
  BY <1>3 DEF MutexCall, sys_mutex_create, sys_mutex_lock, sys_mutex_unlock
<1>4. ASSUME NEW t \in Tids, SemCall(t) PROVE SemsUnused'
  BY <1>1, <1>4 DEF SemCall, NoSemaphores, sys_semaphore_up, sys_semaphore_down
<1>5. ASSUME NEW t \in Tids, CondCall(t) PROVE SemsUnused'
  BY <1>5 DEF CondCall, sys_condvar_create, sys_condvar_signal, sys_condvar_wait
<1>6. ASSUME NEW t \in Tids, ThreadCall(t) PROVE SemsUnused'
  BY <1>6 DEF ThreadCall, sys_enable_deadlock_detect, sys_thread_create, sys_waittid, exit_thread
<1>7. CASE exit_process \/ allocproc \/ UNCHANGED vars
  BY <1>7 DEF exit_process, allocproc, vars
<1> QED
  BY <1>2, <1>3, <1>4, <1>5, <1>6, <1>7 DEF Next

\* Work on mutex x is possible with the threads of F finished, unless it is
\* locked and its owner is not among them.
LEMMA NoWork ==
  ASSUME BasicInv, MutexInv, HolderInv, Alive, NEW x \in Mutexes, NEW D \in SUBSET Tids
  PROVE  ~(work_mutex(Tids \ D, x) >= 1) <=> locked[x] # 0 /\ Granted(x) \subseteq D
<1>1. mAlloc[x] = Granted(x)
  BY DEF MutexInv, DetectorInv
<1>2. Granted(x) \in SUBSET Tids /\ Granted(x) \cap Finished = {}
  BY DEF Granted, Woken, Finished, HolderInv
<1>3. PICK W \in SUBSET Tids : W = mAlloc[x] \cap ((Tids \ D) \ Finished)
  OBVIOUS
<1>4. W = {} <=> Granted(x) \subseteq D
  BY <1>1, <1>2, <1>3
<1>5. Cardinality(W) \in Nat /\ (Cardinality(W) = 0 <=> W = {})
  BY TidsFinite, SizeOf
<1>6. work_mutex(Tids \ D, x) = (IF locked[x] # 0 THEN 0 ELSE 1) + Cardinality(W)
  BY <1>3 DEF work_mutex
<1> QED
  BY <1>4, <1>5, <1>6

\* The banker's test refuses a lock just when it would close a circle.
LEMMA ExactHere ==
  ASSUME BasicInv, MutexInv, HolderInv, SemsUnused, NEW t \in Tids, NEW m \in CreatedBlocking,
         Running(t)
  PROVE  RefuseLock(t, m) <=> WouldDeadlock(t, m)
<1>0. m \in Mutexes /\ Alive /\ tstate[t] = "RUNNABLE"
  BY DEF CreatedBlocking, Running
<1>1. PICK mr : mr = [mReq EXCEPT ![m] = @ \cup {t}]
  OBVIOUS
<1>2. \A x \in Mutexes, u \in Tids : u \in mr[x] <=> Asleep(u, "mutex", x) \/ (u = t /\ x = m)
  <2>1. \A x \in Mutexes : mReq[x] = Sleepers("mutex", x)
    BY <1>0 DEF MutexInv, DetectorInv
  <2>2. \A x \in Mutexes : mr[x] = IF x = m THEN mReq[m] \cup {t} ELSE mReq[x]
    BY <1>0, <1>1 DEF BasicInv, TypeOK, TypeMutexes
  <2> QED
    BY <2>1, <2>2 DEF Sleepers
<1>3. RefuseLock(t, m) <=> BankerDeadlock(mr, sReq)
  BY <1>1, DetectorDecides DEF RefuseLock, BasicInv
<1>4. \A s \in Semaphores, i \in Tids : ~(i \in sReq[s])
  BY DEF SemsUnused
<1>5. ASSUME NEW D \in SUBSET Tids, NEW u \in D
      PROVE  ~Possible(u, Tids \ D, mr, sReq) <=>
             \E x \in Mutexes : /\ Asleep(u, "mutex", x) \/ (u = t /\ x = m)
                                /\ locked[x] # 0 /\ Granted(x) \subseteq D
  <2>1. ~Possible(u, Tids \ D, mr, sReq) <=>
        \E x \in Mutexes : u \in mr[x] /\ ~(work_mutex(Tids \ D, x) >= 1)
    BY <1>4 DEF Possible
  <2>2. \A x \in Mutexes : ~(work_mutex(Tids \ D, x) >= 1) <=> locked[x] # 0 /\ Granted(x) \subseteq D
    BY <1>0, NoWork
  <2> QED
    BY <1>2, <2>1, <2>2
<1>6. \A u \in Tids, x \in Mutexes : Asleep(u, "mutex", x) => locked[x] # 0 /\ u \notin Finished
  BY DEF Asleep, HolderInv, Finished
<1>7. ASSUME BankerDeadlock(mr, sReq)
      PROVE  WouldDeadlock(t, m)
  <2>1. PICK D \in SUBSET Tids : D # {} /\ \A u \in D : ~Possible(u, Tids \ D, mr, sReq)
    BY <1>7 DEF BankerDeadlock
  <2>2. \A u \in D : \E x \in Mutexes :
            /\ Asleep(u, "mutex", x) \/ (u = t /\ x = m /\ locked[m] # 0)
            /\ Granted(x) \subseteq D
    BY <1>5, <2>1
  <2> QED
    BY <2>1, <2>2 DEF WouldDeadlock
<1>8. ASSUME WouldDeadlock(t, m)
      PROVE  BankerDeadlock(mr, sReq)
  <2>1. PICK D \in SUBSET Tids : D # {} /\ \A u \in D : \E x \in Mutexes :
            /\ Asleep(u, "mutex", x) \/ (u = t /\ x = m /\ locked[m] # 0)
            /\ Granted(x) \subseteq D
    BY <1>8 DEF WouldDeadlock
  <2>2. \A u \in D : ~Possible(u, Tids \ D, mr, sReq)
    BY <1>5, <1>6, <2>1
  <2>3. D \in SUBSET (Tids \ Finished)
    <3>1. t \notin Finished
      BY <1>0 DEF Finished
    <3> QED
      BY <1>6, <2>1, <3>1
  <2> QED
    BY <2>1, <2>2, <2>3 DEF BankerDeadlock
<1> QED
  BY <1>3, <1>7, <1>8

\* The invariant behind the two theorems below.
THEOREM DetectionInvariant ==
  ASSUME BlockingClients, NoSemaphores
  PROVE  Spec => [](BasicInv /\ MutexInv /\ HolderInv /\ SemsUnused)
<1>1. Init => HolderInv
  BY DEF Init, HolderInv
<1>2. BasicInv /\ HolderInv /\ [Next]_vars => HolderInv'
  BY HolderNext
<1>3. BasicInv /\ SemsUnused /\ [Next]_vars => SemsUnused'
  BY SemsNext
<1> QED
  BY <1>1, <1>2, <1>3, SemsInit, BlockingInvariant, PTL DEF Spec

\* sys_mutex_lock with detection on (os/syscall.c) refuses exactly the requests
\* that would close a circle of waiting threads: it misses none and never
\* refuses a harmless one, for any number of threads and blocking mutexes.
THEOREM ExactTheorem ==
  ASSUME BlockingClients, NoSemaphores
  PROVE  Spec => []DetectorExact
<1>1. BasicInv /\ MutexInv /\ HolderInv /\ SemsUnused => DetectorExact
  BY ExactHere DEF DetectorExact
<1> QED
  BY <1>1, DetectionInvariant, PTL

\* Everybody in D sleeps before a mutex that only members of D can release.
CircleOf(D) == \A u \in D : \E x \in Mutexes : Asleep(u, "mutex", x) /\ Granted(x) \subseteq D

\* With mutexes only, a deadlock is such a circle.
DeadlockIsCircle ==
    BasicInv /\ MutexInv /\ SemsUnused =>
        (Deadlocked <=> \E D \in SUBSET Tids : D # {} /\ CircleOf(D))

\* With mutexes alone, to be deadlocked is to contain a circle.
LEMMA CircleHere == DeadlockIsCircle
<1> SUFFICES ASSUME BasicInv, MutexInv, SemsUnused
             PROVE  Deadlocked <=> \E D \in SUBSET Tids : D # {} /\ CircleOf(D)
  BY DEF DeadlockIsCircle
<1>1. \A u \in Tids, x \in Mutexes : NeedsMutex(u, x) <=> Asleep(u, "mutex", x)
  BY DEF NeedsMutex, MutexInv, OnlyBlocking
<1>2. \A u \in Tids, s \in Semaphores : ~NeedsSem(u, s)
  BY DEF NeedsSem, Asleep, SemsUnused, BasicInv, ThreadInv, Semaphores
<1>3. \A D \in SUBSET Tids : Stuck(D) <=> CircleOf(D)
  BY <1>1, <1>2 DEF Stuck, CircleOf
<1> QED
  BY <1>3 DEF Deadlocked

\* The same of the next state.
LEMMA CircleNext == DeadlockIsCircle'
  BY CircleHere, PTL

-----------------------------------------------------------------------------
(* Detection prevents deadlock *)

\* No circle comes from a step that lets nobody start to wait and takes no
\* mutex away from a thread that can go on.
NoNewCircle ==
    \A D \in SUBSET Tids : D # {} /\ CircleOf(D)' =>
        \E E \in SUBSET Tids : E # {} /\ CircleOf(E)

\* A step that leaves every mutex's owners and waiters alone closes none.
LEMMA SameViewNoCircle == ASSUME SameMutexView PROVE NoNewCircle
<1>1. ASSUME NEW D \in SUBSET Tids, CircleOf(D)'
      PROVE  CircleOf(D)
  <2>1. ASSUME NEW u \in D
        PROVE  \E x \in Mutexes : Asleep(u, "mutex", x) /\ Granted(x) \subseteq D
    <3>1. PICK x \in Mutexes : Asleep(u, "mutex", x)' /\ Granted(x)' \subseteq D
      BY <1>1 DEF CircleOf
    <3>2. u \in Sleepers("mutex", x)' /\ Sleepers("mutex", x)' = Sleepers("mutex", x)
          /\ Granted(x)' = Granted(x)
      BY <3>1 DEF Sleepers, SameMutexView
    <3>3. u \in Sleepers("mutex", x)
      BY <3>2
    <3> QED
      BY <3>1, <3>2, <3>3 DEF Sleepers
  <2> QED
    BY <2>1 DEF CircleOf
<1> QED
  BY <1>1 DEF NoNewCircle

\* sys_mutex_lock with detection on.
LEMMA LockNoCircle ==
  ASSUME BasicInv, MutexInv, HolderInv, SemsUnused, detect # 0,
         NEW t \in Tids, NEW m \in Mutexes, sys_mutex_lock(t, m)
  PROVE  NoNewCircle
<1>0. /\ tstate[t] = "RUNNABLE" /\ pc[t] = "user" /\ m < nextMutex /\ Running(t) /\ Alive
      /\ m \in CreatedBlocking
  BY DEF sys_mutex_lock, Running, Alive, BasicInv, ThreadInv, CreatedBlocking, MutexInv, OnlyBlocking
<1>t. /\ tstate = [x \in Tids |-> tstate[x]] /\ pc = [x \in Tids |-> pc[x]]
      /\ obj = [x \in Tids |-> obj[x]] /\ holders = [x \in Mutexes |-> holders[x]]
  BY DEF BasicInv, TypeOK, TypeThreads, TypeMutexes
<1>1. CASE UNCHANGED <<tstate, pc, obj, holders>>
  <2>1. SameMutexView
    BY <1>1 DEF SameMutexView, Granted, Woken, Sleepers, Asleep
  <2> QED
    BY <2>1, SameViewNoCircle
<1>2. ASSUME NEW mr, lock_free(t, m, mr)
      PROVE  NoNewCircle
  <2>1. /\ locked[m] = 0 /\ tstate' = tstate /\ obj' = obj
        /\ \A u \in Tids : pc'[u] = IF u = t THEN "user" ELSE pc[u]
        /\ \A x \in Mutexes : x # m => holders'[x] = holders[x]
    BY <1>2, <1>t DEF lock_free, Return
  <2>2. \A u \in Tids, x \in Mutexes : Asleep(u, "mutex", x)' => Asleep(u, "mutex", x) /\ x # m
    BY <1>0, <2>1 DEF Asleep, HolderInv
  <2>3. \A x \in Mutexes : x # m => Granted(x) = Granted(x)'
    BY <1>0, <2>1 DEF Granted, Woken
  <2>4. ASSUME NEW D \in SUBSET Tids, CircleOf(D)'
        PROVE  CircleOf(D)
    BY <2>2, <2>3, <2>4 DEF CircleOf
  <2> QED
    BY <2>4 DEF NoNewCircle
<1>3. ASSUME NEW mr, lock_block(t, m, mr), ~RefuseLock(t, m)
      PROVE  NoNewCircle
  <2>1. /\ locked[m] # 0 /\ holders' = holders
        /\ \A u \in Tids : u # t => tstate'[u] = tstate[u] /\ pc'[u] = pc[u] /\ obj'[u] = obj[u]
        /\ tstate'[t] = "SLEEPING" /\ pc'[t] = "mutex" /\ obj'[t] = m
    BY <1>3, <1>t DEF lock_block, Suspend
  <2>2. \A x \in Mutexes : Granted(x)' = Granted(x)
    BY <1>0, <2>1 DEF Granted, Woken
  <2>3. \A u \in Tids, x \in Mutexes :
            Asleep(u, "mutex", x)' => Asleep(u, "mutex", x) \/ (u = t /\ x = m /\ locked[m] # 0)
    BY <2>1 DEF Asleep
  <2>4. ~WouldDeadlock(t, m)
    BY <1>0, <1>3, ExactHere
  <2>5. ASSUME NEW D \in SUBSET Tids, D # {}, CircleOf(D)'
        PROVE  WouldDeadlock(t, m)
    <3>1. \A u \in D : \E x \in Mutexes :
              /\ Asleep(u, "mutex", x) \/ (u = t /\ x = m /\ locked[m] # 0)
              /\ Granted(x) \subseteq D
      <4>1. ASSUME NEW u \in D
            PROVE  \E x \in Mutexes :
                       /\ Asleep(u, "mutex", x) \/ (u = t /\ x = m /\ locked[m] # 0)
                       /\ Granted(x) \subseteq D
        <5>1. PICK x \in Mutexes : Asleep(u, "mutex", x)' /\ Granted(x)' \subseteq D
          BY <2>5 DEF CircleOf
        <5> QED
          BY <2>2, <2>3, <5>1
      <4> QED
        BY <4>1
    <3> QED
      BY <2>5, <3>1 DEF WouldDeadlock
  <2> QED
    BY <2>4, <2>5 DEF NoNewCircle
<1>4. ASSUME NEW mr, lock_spin(t, m, mr)
      PROVE  FALSE
  BY <1>0, <1>4 DEF lock_spin, MutexInv, OnlyBlocking
<1>5. \/ UNCHANGED <<tstate, pc, obj, holders>>
      \/ ~RefuseLock(t, m) /\ \E mr : mutex_lock(t, m, mr)
  BY DEF sys_mutex_lock
<1> QED
  BY <1>1, <1>2, <1>3, <1>4, <1>5 DEF mutex_lock

\* mutex_unlock hands the mutex to a thread that can go on.
LEMMA UnlockNoCircle ==
  ASSUME BasicInv, MutexInv, NEW t \in Tids, NEW m \in Mutexes, sys_mutex_unlock(t, m)
  PROVE  NoNewCircle
<1>0. /\ tstate[t] = "RUNNABLE" /\ pc[t] = "user" /\ m < nextMutex /\ Alive /\ m \in CreatedBlocking
      /\ tstate' = Wake(NextOwner(m)) /\ pc' = pc /\ obj' = obj
      /\ holders' = [holders EXCEPT ![m] = @ \ {t}]
  BY DEF sys_mutex_unlock, mutex_unlock, Running, Alive, BasicInv, ThreadInv, CreatedBlocking,
         MutexInv, OnlyBlocking
<1>1. QueueOf(mqueue[m], "mutex", m) /\ mqueue[m] \in Seq(Tids) /\ blocking[m] # 0
  BY <1>0 DEF BasicInv, QueueInv, TypeOK, TypeMutexes, CreatedBlocking
<1>2. \A u \in NextOwner(m) : u \in Sleepers("mutex", m)
  BY <1>1, TailQueue DEF NextOwner, QueueOf
<1>3. \A u \in Tids : tstate'[u] = IF u \in NextOwner(m) THEN "RUNNABLE" ELSE tstate[u]
  BY <1>0 DEF Wake
<1>4. ASSUME NEW D \in SUBSET Tids, CircleOf(D)', NEW u \in D
      PROVE  \E x \in Mutexes : Asleep(u, "mutex", x) /\ Granted(x) \subseteq D
  <2>1. PICK x \in Mutexes : Asleep(u, "mutex", x)' /\ Granted(x)' \subseteq D
    BY <1>4 DEF CircleOf
  <2>2. Asleep(u, "mutex", x)
    BY <1>0, <1>3, <2>1 DEF Asleep
  <2>3. x # m
    <3>1. SUFFICES ASSUME x = m PROVE FALSE
      OBVIOUS
    <3>2. mqueue[m] # <<>>
      BY <1>1, <2>2, <3>1, EmptyQueueOf DEF QueueOf, Sleepers
    <3>3. PICK w \in Tids : w \in NextOwner(m) /\ Asleep(w, "mutex", m)
      BY <1>1, <1>2, <3>2 DEF NextOwner, Sleepers
    <3>4. tstate'[w] = "RUNNABLE" /\ pc'[w] = "mutex" /\ obj'[w] = m
      BY <1>0, <1>3, <3>3 DEF Asleep
    <3>5. w \in Granted(m)'
      BY <3>4 DEF Granted, Woken
    <3>6. w \in D
      BY <2>1, <3>1, <3>5
    <3>7. PICK y \in Mutexes : Asleep(w, "mutex", y)'
      BY <1>4, <3>6 DEF CircleOf
    <3> QED
      BY <3>4, <3>7 DEF Asleep
  <2>4. Granted(x)' = Granted(x)
    <3>1. holders'[x] = holders[x]
      BY <1>0, <2>3
    <3>2. \A w \in Tids : Woken(w, "mutex")' /\ obj'[w] = x <=> Woken(w, "mutex") /\ obj[w] = x
      BY <1>0, <1>2, <1>3, <2>3 DEF Woken, Sleepers, Asleep
    <3> QED
      BY <3>1, <3>2 DEF Granted
  <2> QED
    BY <2>1, <2>2, <2>4
<1> QED
  BY <1>4 DEF NoNewCircle, CircleOf

\* With detection on, no step closes a circle.
LEMMA StepNoCircle ==
  ASSUME BlockingClients, NoCondvars, BasicInv, MutexInv, HolderInv, SemsUnused, detect # 0,
         [Next]_vars
  PROVE  NoNewCircle
<1> USE DEF threadVars, mutexVars, semVars, condVars
<1>0. /\ tstate = [x \in Tids |-> tstate[x]] /\ pc = [x \in Tids |-> pc[x]]
      /\ obj = [x \in Tids |-> obj[x]]
      /\ holders = [x \in Mutexes |-> holders[x]] /\ \A x \in Mutexes : holders[x] \subseteq Tids
  BY DEF BasicInv, TypeOK, TypeThreads, TypeMutexes
<1>c. Condvars = {} /\ \A t \in Tids : pc[t] # "cond"
  <2>1. Condvars = {}
    BY DEF NoCondvars, Condvars
  <2>2. nextCond = 0
    BY DEF NoCondvars, BasicInv, TypeOK, TypeConds
  <2>3. \A t \in Tids : pc[t] = "cond" => obj[t] \in Nat /\ obj[t] < nextCond
    BY DEF BasicInv, TypeOK, TypeThreads, ThreadInv
  <2> QED
    BY <2>1, <2>2, <2>3
<1>s. Semaphores = {} \/ \A s \in Semaphores : ~(s < nextSem)
  BY DEF SemsUnused, Semaphores
<1>a. ASSUME UNCHANGED holders,
             \A u \in Tids : \/ tstate'[u] = tstate[u] /\ pc'[u] = pc[u] /\ obj'[u] = obj[u]
                             \/ pc[u] # "mutex" /\ pc'[u] # "mutex"
      PROVE  NoNewCircle
  <2>1. SameMutexView
    BY <1>a DEF SameMutexView, Granted, Woken, Sleepers, Asleep
  <2> QED
    BY <2>1, SameViewNoCircle
<1>1. ASSUME NEW t \in Tids, Resume(t) PROVE NoNewCircle
  <2>1. ~spin_retry(t) /\ ~condvar_resume(t)
    BY <1>c DEF spin_retry, condvar_resume, Woken, MutexInv, OnlyBlocking
  <2>2. ~semaphore_resume(t)
    BY <1>s DEF semaphore_resume, Woken, BasicInv, TypeOK, TypeThreads, ThreadInv
  <2>3. mutex_resume(t)
    BY <1>1, <2>1, <2>2 DEF Resume
  <2>4. PICK m \in Mutexes : m = obj[t]
    BY <2>3 DEF mutex_resume, Woken, BasicInv, TypeOK, TypeThreads
  <2>5. /\ tstate' = tstate /\ obj' = obj /\ tstate[t] = "RUNNABLE" /\ pc[t] = "mutex"
        /\ \A u \in Tids : pc'[u] = IF u = t THEN "user" ELSE pc[u]
        /\ \A x \in Mutexes : holders'[x] = IF x = m THEN holders[m] \cup {t} ELSE holders[x]
    BY <1>0, <2>3, <2>4 DEF mutex_resume, Return, Woken
  <2>6. SameMutexView
    BY <2>4, <2>5 DEF SameMutexView, Granted, Woken, Sleepers, Asleep
  <2> QED
    BY <2>6, SameViewNoCircle
<1>2. ASSUME NEW t \in Tids, MutexCall(t) PROVE NoNewCircle
  <2>1. ASSUME NEW b \in BLOCKING_ARGS, sys_mutex_create(t, b) PROVE NoNewCircle
    BY <1>a, <2>1 DEF sys_mutex_create
  <2> QED
    BY <1>2, <2>1, LockNoCircle, UnlockNoCircle DEF MutexCall
<1>3. ASSUME NEW t \in Tids, SemCall(t) PROVE NoNewCircle
  <2>1. ASSUME NEW n \in SEM_COUNTS, sys_semaphore_create(t, n) PROVE NoNewCircle
    BY <1>a, <2>1 DEF sys_semaphore_create
  <2>2. \A s \in Semaphores : ~sys_semaphore_up(t, s) /\ ~sys_semaphore_down(t, s)
    BY <1>s DEF sys_semaphore_up, sys_semaphore_down
  <2> QED
    BY <1>3, <2>1, <2>2 DEF SemCall
<1>4. ASSUME NEW t \in Tids, CondCall(t) PROVE NoNewCircle
  BY <1>4, <1>a, <1>c DEF CondCall, sys_condvar_create
<1>5. ASSUME NEW t \in Tids, ThreadCall(t) PROVE NoNewCircle
  <2>1. ASSUME NEW e \in DETECT_ARGS, sys_enable_deadlock_detect(t, e) PROVE NoNewCircle
    BY <1>a, <2>1 DEF sys_enable_deadlock_detect
  <2>2. ASSUME sys_thread_create(t) PROVE NoNewCircle
    <3>1. PICK v \in Tids : /\ tstate[v] = "T_UNUSED"
                           /\ tstate' = [tstate EXCEPT ![v] = "RUNNABLE"]
                           /\ pc' = [pc EXCEPT ![v] = "user"]
      BY <2>2 DEF sys_thread_create
    <3>2. obj' = obj /\ UNCHANGED holders /\ pc[v] = "user"
      BY <2>2, <3>1 DEF sys_thread_create, BasicInv, ThreadInv
    <3>3. \A u \in Tids : \/ tstate'[u] = tstate[u] /\ pc'[u] = pc[u] /\ obj'[u] = obj[u]
                          \/ pc[u] # "mutex" /\ pc'[u] # "mutex"
      BY <1>0, <3>1, <3>2
    <3> QED
      BY <1>a, <3>2, <3>3
  <2>3. ASSUME NEW v \in Tids, sys_waittid(t, v) PROVE NoNewCircle
    <3>1. /\ tstate[v] = "EXITED" /\ tstate' = [tstate EXCEPT ![v] = "T_UNUSED"]
          /\ UNCHANGED <<pc, obj, holders>> /\ pc[v] = "user"
      BY <2>3 DEF sys_waittid, BasicInv, ThreadInv
    <3>2. \A u \in Tids : \/ tstate'[u] = tstate[u] /\ pc'[u] = pc[u] /\ obj'[u] = obj[u]
                          \/ pc[u] # "mutex" /\ pc'[u] # "mutex"
      BY <1>0, <3>1
    <3> QED
      BY <1>a, <3>1, <3>2
  <2>4. ASSUME exit_thread(t) PROVE NoNewCircle
    <3>1. /\ pc[t] = "user" /\ tstate' = [tstate EXCEPT ![t] = "EXITED"] /\ UNCHANGED <<pc, obj>>
          /\ holders' = [x \in Mutexes |-> holders[x] \ {t}]
          /\ \A x \in Mutexes : t \notin holders[x]
      BY <2>4 DEF exit_thread, Running, BlockingClients, HoldsNone
    <3>2. UNCHANGED holders
      BY <1>0, <3>1
    <3>3. \A u \in Tids : \/ tstate'[u] = tstate[u] /\ pc'[u] = pc[u] /\ obj'[u] = obj[u]
                          \/ pc[u] # "mutex" /\ pc'[u] # "mutex"
      BY <1>0, <3>1
    <3> QED
      BY <1>a, <3>2, <3>3
  <2> QED
    BY <1>5, <2>1, <2>2, <2>3, <2>4 DEF ThreadCall
<1>6. CASE exit_process \/ allocproc
  <2>1. \A u \in Tids : tstate'[u] # "SLEEPING"
    BY <1>0, <1>6 DEF exit_process, allocproc
  <2> QED
    BY <2>1 DEF NoNewCircle, CircleOf, Asleep
<1>7. CASE UNCHANGED vars
  BY <1>7, <1>a DEF vars
<1> QED
  BY <1>1, <1>2, <1>3, <1>4, <1>5, <1>6, <1>7 DEF Next

\* While detection is on, no step of a program that synchronises with blocking
\* mutexes takes it into a deadlock (enable_deadlock_detect of os/syscall.c),
\* for any number of threads and mutexes.
THEOREM PreventionTheorem ==
  ASSUME BlockingClients, NoSemaphores, NoCondvars
  PROVE  Spec => DetectionPreventsDeadlock
<1>1. /\ BasicInv /\ MutexInv /\ HolderInv /\ SemsUnused
      /\ (BasicInv /\ MutexInv /\ HolderInv /\ SemsUnused)'
      /\ [Next]_vars
      => [detect # 0 /\ detect' # 0 /\ ~Deadlocked => ~Deadlocked']_vars
  <2> SUFFICES ASSUME BasicInv, MutexInv, HolderInv, SemsUnused,
                      BasicInv', MutexInv', SemsUnused', [Next]_vars,
                      detect # 0, Deadlocked'
               PROVE  Deadlocked
    OBVIOUS
  <2>1. \E D \in SUBSET Tids : D # {} /\ CircleOf(D)'
    BY CircleNext DEF DeadlockIsCircle
  <2>2. \E E \in SUBSET Tids : E # {} /\ CircleOf(E)
    BY <2>1, StepNoCircle DEF NoNewCircle
  <2> QED
    BY <2>2, CircleHere DEF DeadlockIsCircle
<1> QED
  BY <1>1, DetectionInvariant, PTL DEF Spec, DetectionPreventsDeadlock
=============================================================================
