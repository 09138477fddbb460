-------------------------------- MODULE Pipe --------------------------------
(***************************************************************************)
(* Pipes (os/pipe.c), the open-file table (os/file.c), the descriptor      *)
(* tables of processes and the system calls on them (os/syscall.c), for    *)
(* files that are pipe ends.                                               *)
(*                                                                         *)
(* The kernel is not preempted: a call is one step up to its return or to  *)
(* the yield() inside pipewrite or piperead; what follows the yield is a   *)
(* step of its own (pipe_resume).  Between them the thread keeps nothing   *)
(* but the pipe's address.                                                 *)
(***************************************************************************)
EXTENDS Integers, FiniteSets, FiniteSetsExt

CONSTANTS
    NPROC, NTHREAD,     \* processes, threads of each
    FD_BUFFER_SIZE,     \* descriptors of a process (beyond stdio)
    FILEPOOLSIZE,       \* entries of the open-file table
    NPAGE,              \* pages kalloc can give to pipes
    PIPESIZE,           \* bytes a pipe buffers
    COUNTER_MOD,        \* nread and nwrite are unsigned: 2^32 in the code
    SIZES,              \* lengths clients pass to read and write
    MAX_BYTES,          \* bound: bytes written to one pipe
    MAX_REF             \* bound: references fork gives one file (exits leak them)

ASSUME TableAssumption ==
    /\ NPROC \in Nat \ {0} /\ NTHREAD \in Nat \ {0}
    /\ FD_BUFFER_SIZE \in Nat /\ FILEPOOLSIZE \in Nat /\ NPAGE \in Nat
ASSUME BufferAssumption ==
    /\ PIPESIZE \in Nat \ {0} /\ COUNTER_MOD \in Nat
    /\ COUNTER_MOD > PIPESIZE /\ COUNTER_MOD % PIPESIZE = 0
ASSUME ClientAssumption ==
    /\ SIZES \subseteq Int
    /\ MAX_BYTES \in Nat /\ MAX_REF \in Nat

Procs == 0 .. NPROC - 1
Threads == Procs \X (0 .. NTHREAD - 1)
Fds == 0 .. FD_BUFFER_SIZE - 1
Files == 0 .. FILEPOOLSIZE - 1
Pages == 0 .. NPAGE - 1
Slots == 0 .. PIPESIZE - 1
None == -1
Proc(t) == t[1]

Idle == [kind |-> "idle", file |-> None, pipe |-> None, left |-> 0]

VARIABLES
    used,       \* process slot in use
    fdt,        \* <<process, descriptor>> -> file or None
    ref, type, writable, fpipe,             \* struct file
    live,       \* the page holds a pipe
    readopen, writeopen, nread, nwrite, data,   \* struct pipe
    op,         \* the pipe call a thread is suspended in
    panicked,
    \* history
    sent, got,  \* bytes written to and read from the pipe in a page
    cut         \* threads whose file a sibling closed while they were suspended

fileVars == <<ref, type, writable, fpipe>>
ringVars == <<nread, nwrite, data, sent, got>>
pipeVars == <<live, readopen, writeopen, ringVars>>
vars == <<used, fdt, fileVars, pipeVars, op, cut, panicked>>

(***************************************************************************)
(* The ring: bytes are labelled 1, 2, 3 ... in the order they are written  *)
(***************************************************************************)
Avail(g) == (nwrite[g] - nread[g]) % COUNTER_MOD
Room_extra(g) == PIPESIZE + 1 - Avail(g)        \* mutant: off by one
Room(g) == (nread[g] + PIPESIZE - nwrite[g]) % COUNTER_MOD

\* k bytes go in, or come out; the copies in the code stop at the end of the
\* buffer and start again at slot 0.
put(g, k) ==
    /\ data' = [data EXCEPT ![g] = [s \in Slots |->
          LET i == (s - nwrite[g]) % PIPESIZE     \* s is written as byte i of k
          IN IF i < k THEN sent[g] + i + 1 ELSE data[g][s]]]
    /\ nwrite' = [nwrite EXCEPT ![g] = (@ + k) % COUNTER_MOD]
    /\ sent' = [sent EXCEPT ![g] = @ + k]
    /\ UNCHANGED <<nread, got>>
take(g, k) ==
    /\ nread' = [nread EXCEPT ![g] = (@ + k) % COUNTER_MOD]
    /\ got' = [got EXCEPT ![g] = @ + k]
    /\ UNCHANGED <<nwrite, data, sent>>

\* The thread's call is over, or it yields inside it.
Done(t) == op' = [op EXCEPT ![t] = Idle] /\ cut' = cut \ {t}
Yield(t, k, f, g, n) ==
    /\ op' = [op EXCEPT ![t] = [kind |-> k, file |-> f, pipe |-> g, left |-> n]]
    /\ UNCHANGED cut

\* pipewrite with n bytes to go, up to its return or its yield.
pipewrite(t, f, g, n) ==
    /\ \/ /\ readopen[g] = 0
          /\ Done(t)
          /\ UNCHANGED ringVars
       \/ /\ readopen[g] # 0
          /\ LET k == Min({n, Room(g)})
             IN /\ sent[g] + k <= MAX_BYTES
                /\ put(g, k)
                /\ IF k = n THEN Done(t) ELSE Yield(t, "write", f, g, n - k)
    /\ UNCHANGED <<used, fdt, fileVars, live, readopen, writeopen, panicked>>

\* piperead: an empty pipe makes it yield while a write end is open.
piperead(t, f, g, n) ==
    /\ \/ /\ nread[g] # nwrite[g]
          /\ take(g, Min({n, Avail(g)}))
          /\ Done(t)
       \/ /\ nread[g] = nwrite[g]
          /\ IF writeopen[g] # 0 THEN Yield(t, "read", f, g, n) ELSE Done(t)
          /\ UNCHANGED ringVars
    /\ UNCHANGED <<used, fdt, fileVars, live, readopen, writeopen, panicked>>

(***************************************************************************)
(* Open files                                                              *)
(***************************************************************************)
\* The open flags once the end that file f is has gone.
ReadLeft(f) == IF writable[f] # 0 THEN readopen[fpipe[f]] ELSE 0
WriteLeft(f) == IF writable[f] # 0 THEN 0 ELSE writeopen[fpipe[f]]

\* kfree fills the page with junk: flags that read as open, equal counters.
Junk == 1
StillOpen_both(r, w) == r # 0 /\ w # 0      \* mutant: one closed end is enough
StillOpen(r, w) == r # 0 \/ w # 0
pipeclose(g, r, w) ==
    \/ /\ StillOpen(r, w)
       /\ readopen' = [readopen EXCEPT ![g] = r]
       /\ writeopen' = [writeopen EXCEPT ![g] = w]
       /\ UNCHANGED <<live, ringVars>>
    \/ /\ ~StillOpen(r, w)
       /\ live' = [live EXCEPT ![g] = FALSE]
       /\ readopen' = [readopen EXCEPT ![g] = Junk]
       /\ writeopen' = [writeopen EXCEPT ![g] = Junk]
       /\ nread' = [nread EXCEPT ![g] = Junk]
       /\ nwrite' = [nwrite EXCEPT ![g] = Junk]
       /\ data' = [data EXCEPT ![g] = [s \in Slots |-> 0]]
       /\ sent' = [sent EXCEPT ![g] = 0]
       /\ got' = [got EXCEPT ![g] = 0]

\* fileclose drops a reference; the last one closes the pipe's end, and the
\* last end frees the page.  Nothing happens after a panic, whatever the other
\* variables are then.
fileclose(f) ==
    /\ panicked' = (ref[f] < 1 \/ type[f] # "FD_PIPE")
    /\ ref' = [ref EXCEPT ![f] = @ - 1]
    /\ \/ /\ ref[f] > 1
          /\ UNCHANGED <<type, writable, pipeVars>>
       \/ /\ ref[f] <= 1
          /\ type' = [type EXCEPT ![f] = "FD_NONE"]
          /\ writable' = [writable EXCEPT ![f] = 0]
          /\ pipeclose(fpipe[f], ReadLeft(f), WriteLeft(f))
    /\ UNCHANGED fpipe

\* The descriptors fdalloc gives to f0 and then to f1; None when there is none
\* left, which sys_pipe does not notice (the result is compared as unsigned).
FreeFds(p) == {d \in Fds : fdt[<<p, d>>] = None}
First(D) == IF D = {} THEN None ELSE Min(D)
Second(D) == IF Cardinality(D) < 2 THEN None ELSE Min(D \ {Min(D)})

\* Without a second file or a page, the error path closes a file that has no
\* type yet, which panics.  A copyout that fails closes both files again and
\* leaves no trace, nor does a call that finds the table full.
sys_pipe(t) ==
    LET p == Proc(t)
        free == {f \in Files : ref[f] = 0}
        f0 == First(free)
        f1 == Second(free)
        d0 == First(FreeFds(p))
        d1 == Second(FreeFds(p))
    IN
    /\ used[p] /\ op[t] = Idle
    /\ f0 # None
    /\ \/ /\ f1 = None \/ \A g \in Pages : live[g]
          /\ panicked' = TRUE
          /\ UNCHANGED <<fdt, fileVars, pipeVars>>
       \/ /\ f1 # None
          /\ \E g \in Pages :
                /\ ~live[g]
                /\ live' = [live EXCEPT ![g] = TRUE]
                /\ readopen' = [readopen EXCEPT ![g] = 1]
                /\ writeopen' = [writeopen EXCEPT ![g] = 1]
                /\ nread' = [nread EXCEPT ![g] = 0]
                /\ nwrite' = [nwrite EXCEPT ![g] = 0]
                /\ sent' = [sent EXCEPT ![g] = 0]
                /\ got' = [got EXCEPT ![g] = 0]
                /\ fpipe' = [fpipe EXCEPT ![f0] = g, ![f1] = g]
          /\ ref' = [ref EXCEPT ![f0] = 1, ![f1] = 1]
          /\ type' = [type EXCEPT ![f0] = "FD_PIPE", ![f1] = "FD_PIPE"]
          /\ writable' = [writable EXCEPT ![f0] = 0, ![f1] = 1]
          /\ fdt' = [x \in Procs \X Fds |->
                       IF x = <<p, d0>> THEN f0 ELSE IF x = <<p, d1>> THEN f1 ELSE fdt[x]]
          /\ UNCHANGED <<data, panicked>>
    /\ UNCHANGED <<used, op, cut>>

sys_close(t, d) ==
    LET p == Proc(t)
        f == fdt[<<p, d>>]
    IN
    /\ used[p] /\ op[t] = Idle
    /\ f # None
    /\ fileclose(f)
    /\ fdt' = [fdt EXCEPT ![<<p, d>>] = None]
    /\ cut' = cut \cup {u \in Threads : Proc(u) = p /\ op[u].file = f}
    /\ UNCHANGED <<used, op>>

\* sys_write and sys_read do not ask whether the file is writable or readable;
\* a length below one panics.
sys_write(t, d, n) ==
    LET f == fdt[<<Proc(t), d>>] IN
    /\ used[Proc(t)] /\ op[t] = Idle
    /\ f # None
    /\ IF n <= 0
       THEN panicked' = TRUE /\ UNCHANGED <<used, fdt, fileVars, pipeVars, op, cut>>
       ELSE pipewrite(t, f, fpipe[f], n)

sys_read(t, d, n) ==
    LET f == fdt[<<Proc(t), d>>] IN
    /\ used[Proc(t)] /\ op[t] = Idle
    /\ f # None
    /\ IF n <= 0
       THEN panicked' = TRUE /\ UNCHANGED <<used, fdt, fileVars, pipeVars, op, cut>>
       ELSE piperead(t, f, fpipe[f], n)

\* A thread that yielded inside a call is scheduled again.
pipe_resume(t) ==
    \/ op[t].kind = "write" /\ pipewrite(t, op[t].file, op[t].pipe, op[t].left)
    \/ op[t].kind = "read" /\ piperead(t, op[t].file, op[t].pipe, op[t].left)

(***************************************************************************)
(* Processes                                                               *)
(***************************************************************************)
\* fork copies the descriptors and counts them.
Shares(p, f) == Cardinality({d \in Fds : fdt[<<p, d>>] = f})
fork_uncounted(t) ==        \* mutant: the references are not counted
    /\ used[Proc(t)] /\ op[t] = Idle
    /\ \E q \in Procs :
          /\ ~used[q] /\ \A r \in Procs : r < q => used[r]
          /\ used' = [used EXCEPT ![q] = TRUE]
          /\ fdt' = [x \in Procs \X Fds |-> IF x[1] = q THEN fdt[<<Proc(t), x[2]>>] ELSE fdt[x]]
    /\ UNCHANGED <<fileVars, pipeVars, op, cut, panicked>>
fork(t) ==
    /\ used[Proc(t)] /\ op[t] = Idle
    /\ \E q \in Procs :
          /\ ~used[q] /\ \A r \in Procs : r < q => used[r]
          /\ used' = [used EXCEPT ![q] = TRUE]
          /\ fdt' = [x \in Procs \X Fds |-> IF x[1] = q THEN fdt[<<Proc(t), x[2]>>] ELSE fdt[x]]
    /\ ref' = [f \in Files |-> ref[f] + Shares(Proc(t), f)]
    /\ \A f \in Files : ref'[f] <= MAX_REF
    /\ UNCHANGED <<type, writable, fpipe, pipeVars, op, cut, panicked>>

\* exit by the main thread: the loop of freeproc that would close the files
\* never runs (its condition is i > FD_BUFFER_SIZE).
exit(p) ==
    /\ used[p] /\ op[<<p, 0>>] = Idle
    /\ used' = [used EXCEPT ![p] = FALSE]
    /\ op' = [t \in Threads |-> IF Proc(t) = p THEN Idle ELSE op[t]]
    /\ cut' = {t \in cut : Proc(t) # p}
    /\ UNCHANGED <<fdt, fileVars, pipeVars, panicked>>

(***************************************************************************)
(* The specification                                                       *)
(***************************************************************************)
Init ==
    /\ used = [p \in Procs |-> p = 0]
    /\ fdt = [x \in Procs \X Fds |-> None]
    /\ ref = [f \in Files |-> 0]
    /\ type = [f \in Files |-> "FD_NONE"]
    /\ writable = [f \in Files |-> 0]
    /\ fpipe = [f \in Files |-> None]
    /\ live = [g \in Pages |-> FALSE]
    /\ readopen = [g \in Pages |-> 0]
    /\ writeopen = [g \in Pages |-> 0]
    /\ nread = [g \in Pages |-> 0]
    /\ nwrite = [g \in Pages |-> 0]
    /\ data = [g \in Pages |-> [s \in Slots |-> 0]]
    /\ sent = [g \in Pages |-> 0]
    /\ got = [g \in Pages |-> 0]
    /\ op = [t \in Threads |-> Idle]
    /\ cut = {}
    /\ panicked = FALSE

Call(t) ==
    \/ sys_pipe(t)
    \/ fork(t)
    \/ \E d \in Fds :
          \/ sys_close(t, d)
          \/ \E n \in SIZES : sys_write(t, d, n) \/ sys_read(t, d, n)

Next ==
    /\ ~panicked
    /\ \/ \E t \in Threads : Call(t) \/ pipe_resume(t)
       \/ \E p \in Procs : exit(p)

Spec == Init /\ [][Next]_vars
=============================================================================
