# A TLA+ model of the os-btbu kernel

os-btbu is a teaching kernel for RISC-V (one hart, preempted in user mode only)
in the uCore tradition: processes with threads, stride scheduling, mutexes,
semaphores and condition variables with a deadlock detector, pipes, a small file
system, a network stack, and a layer that runs simulated characters (NPCs) as
processes and lets them talk to a language model over HTTP. This directory models the kernel's own logic in TLA+, checks it with
TLC on small instances and proves part of it with TLAPS.

Source paths below are relative to the repository (`src/` in `PROJECT.json`).

## 1. Inventory

| Part | Source | State | Operations | Hard behaviour | What makes it correct |
|---|---|---|---|---|---|
| Synchronisation objects | `os/sync.c` | `locked`, `count`, wait queues | create, lock, unlock, up, down, signal, wait | hand-over to a waiter that runs later; `cond_wait` in two halves; exit with sleepers | exclusion, no lost wake-up, no lost unit, no panic |
| Deadlock detector | `os/syscall.c` 269-449 | allocation and request tables, written by five code paths | `deadlock_detect`, enable | tables updated late, by waker and by woken | tables true, verdict exact, no deadlock while on |
| Kernel queue | `os/queue.c` | ring, `front`, `tail`, `empty` | push, pop, removal by `fetch_task` | full and empty look alike | it is a bounded FIFO |
| Scheduler | `os/proc.c` 96-332 | task queue, `stride`, `priority`, current thread | `fetch_task`, `add_task`, `yield`, `scheduler`, `set_priority` | stale entries, wrap-around, full queue | runnable threads are queued, bounded overtaking |
| Processes, threads | `os/proc.c`, `os/syscall.c` | process and thread slots, parent pointers, pids | fork, spawn, exec, exit, wait, thread_create, waittid | slots reused while others point at them | parents true, zombies reapable |
| Pipes, files | `os/pipe.c`, `os/file.c`, `os/syscall.c` | byte ring, open flags, reference counts, descriptors | pipe, read, write, close, fork, exit | calls suspended half-way; wrapping counters; shared ends | stream intact, nothing dangling, nothing leaked |
| File system | `os/fs.c` | inodes, links, directories, bitmap | create, link, unlink, read, write, truncate | several blocks per update, no log | links counted, blocks owned once |
| Buffer cache, disk | `os/bio.c`, `os/virtio_disk.c` | LRU list, `refcnt`, descriptor ring | bread, bwrite, brelse, interrupt | recycling while in use | one buffer per block |
| Memory | `os/vm.c`, `os/kalloc.c`, `os/loader.c` | page tables, free list, `max_page` | mmap, munmap, copy, free | partial failure, pages beyond `max_page` | a page has one owner |
| NPC kernel layer | `os/ai_sched.c`, `os/npc_memory.c` | `dynamic_prio`, `ipc_rx_bytes`, number alive, memories | register, tick, reward, status, save | rewards and ticks from whichever NPC runs | the dead stay dead, counts and buffers right |
| NPC programs | `user/src/ch11_npc.c`, `ch11_world.c` | `g_shared` under one mutex, pipes, five threads | perceive, think, communicate, save, watch, reap | mutex given up around the AI call and kept around a blocking write | answers fit their messages, everything ends |
| TCP | `net/tcp.c` | control blocks, retransmission queue, backlog | open, connect, listen, accept, send, receive, close, segment, timer | loss, repetition, delay, deadlines, wrap-around | both streams in order and whole |
| Device, ARP, IP, ICMP, UDP | `net/virtio_net.c`, `net.c`, `ether.c`, `arp.c`, `ip.c`, `icmp.c`, `udp.c`, `util.c` | descriptor rings, protocol queues, ARP cache, sockets | interrupt, softirq, request, reply, send, receive, bind, close | interrupt and poller share queues without a lock | no buffer in two hands, no packet forgotten |
| HTTP and AI client | `net/http.c`, `net/ai_api.c` | pages and a control block for one request; blocks left behind | `ai_chat`, `http_execute` | any of ten steps fails, or polls for ever; `tcp_close` may refuse | pages come back, the block is given up, what is lost is bounded |
| Traps, timer | `os/trap.c`, `os/timer.c` | - | interrupt, system call entry | preemption | decides what is atomic |
| Console, firmware, libc, user programs, image builder | `os/console.c`, `os/printf.c`, `os/sbi.c`, `user/`, `nfs/` | - | input, output | - | - |

How the parts interact. Every system call enters through `usertrap` and
`syscall`. A call that must wait either puts its thread into a wait queue and
calls `sched` (mutex, semaphore, condition variable), calls `yield` in a loop
(pipe, `wait`, spin mutex), or polls without giving the CPU away (the disk in
`virtio_disk_rw`, the network in `sched_sleep` of `net/platform.h`). The scheduler takes threads from the task queue;
wake-ups put them back with `add_task`. `exit` of a main thread ends the process
under all its threads. `fork` and `spawn` share open files by reference count.

Atomicity. Interrupts are off in the kernel, so **a step of a model is one system
call up to its return or up to the point where it gives the CPU away**; what
follows the switch is an action of its own (`mutex_resume`, `semaphore_resume`,
`condvar_resume`, `spin_retry`, `wait_resume`, `pipe_resume`). There are two
exceptions, where the code turns interrupts on. The disk driver does while it
waits for a request: nothing else runs, but a crash may come, so `Fs` divides a
call at every block write. `sched_sleep` does while it polls the network: there
`Tcp` and `Net` let segments, timers and interrupts come between any two steps,
and `Net` also divides `queue_pop`, the one function that shares memory with the
interrupt. User threads (`Npc`) are preempted anywhere; what they do under the
mutex without blocking is one step.

The hazards of the code, each at its line and with the property that watches it,
are in `PROJECT.json`.

## 2. Modules

| Module | Models | Correspondence |
|---|---|---|
| `Sync` | `os/sync.c`, the lock, semaphore, condvar and detector calls of `os/syscall.c`, thread create, exit, join | One process. `tstate`, `pc`, `obj` are the thread and the call it is suspended in; `locked`, `mqueue`, `count`, `squeue`, `cqueue` are the objects; `mAlloc`, `mReq`, `sAlloc`, `sReq` the detector's tables by column. Each `sys_*` action is the whole handler. `exit_process` and `allocproc` end the process and reuse its slot. History variables: `holders`, `sheld`, `units`. |
| `SyncProps` | - | Properties of `Sync` and the inductive strengthenings. |
| `TaskQueue`, `RingQueue` | `os/queue.c`, `fetch_task`'s removal | Abstract bounded queue; the ring that implements it through `Contents`. |
| `Sched`, `SchedProps` | `os/proc.c`, process calls of `os/syscall.c` | `pstate`, `parent`, `pid`, `stride`, `priority` are `struct proc`; `tstate` is `struct thread`; `queue` is the task queue as a sequence; `scheduler` is one turn of its loop; `wait` keeps its argument in `waitArg` while it yields. `sleep` and `wake` stand for `sync.c`. History: `forker`, `passed`, `joined` (every main thread has exited last), `crowded` (the scheduler has met a full queue). |
| `Pipe`, `PipeProps` | `os/pipe.c`, `os/file.c`, descriptor calls of `os/syscall.c`, `fork` and `exit` as far as files go | `fdt` is `files`, `ref`, `type`, `writable`, `fpipe` are `struct file`; `live` says whether a page holds a pipe; `nread`, `nwrite`, `data` are its ring; `op` is the call a thread is suspended in. Bytes are labelled in the order they are written. A freed page holds what `kfree` writes into it. Threads of a process are all present from the start. History: `sent`, `got`, `cut`. |
| `Bio` | `os/bio.c`, `os/virtio_disk.c` | `cache` is `bcache` with its LRU order and the buffers the call holds; `plan` is what the call still asks of the cache, `req` the buffer the disk owns, `disk` what the blocks hold. |
| `Fs`, `FsProps` | `os/fs.c`, `os/file.c`, the file calls of `os/syscall.c`, the image of `nfs/fs.c` | Extends `Bio`. `itable` and `files` are the tables in memory. A call computes its cache operations on a state `s` as the code does, function by function (`balloc`, `bmap`, `writei`, `dirlink`, ...), then `kernel_runs` and `virtio_disk_intr` carry them out write by write; `crash` empties memory at any point and boots. A block, one directory entry and one unit of size are the same size. History: `crashes`, `later`, `cut`. |
| `Vm`, `VmProps` | `os/vm.c`, `os/kalloc.c`, `os/loader.c`, `fork`, `exec`, `exit`, `wait`, threads, mmap | `free` is the free list; each process has leaves `pt`, table pages `tab`, `max_page`, `ustack`, threads. Every frame is named, so sharing and leaks show. `halt` is the panic the code runs into, if any. |
| `Tcp`, `TcpProps` | `net/tcp.c` | `pcb` are the control blocks, `call` the call asleep in `sched_sleep`, `peer` a remote host that follows the protocol, `owned` the ids callers hold. The branches of `tcp_segment_arrives` are actions of their own. A caller opens a socket only when it holds none, as `http_execute` does. History: `hist`. |
| `Net`, `NetProps` | the other files of `net/` | `rx`, `tx` are the rings with the device's side, `queue` the protocol queues as list with head and tail, `pending` the softirq bit, `cpu` where the poller is, `arp`, `udp`, and `pages`, the free pages. History: `lost`. |
| `Chat` | `net/http.c`, `net/ai_api.c`, `sys_npc_ai_chat`, and of `net/tcp.c` what becomes of the call's control block | `chat` is the pages and the block a call holds, and the blocks earlier calls left: `kept` (refused by `tcp_close`, or in a state nothing leaves) and `closing` (their FIN is on its way). Each function maps it to what it may be afterwards. A call that sleeps for something that never comes (`Silence`) ends in `polls` and is not followed by another. |
| `NpcKernel` | `os/ai_sched.c`, `os/npc_memory.c` | `npc`, `alive`, `memories`. |
| `Npc`, `NpcProps` | `ch11_npc.c`, `ch11_world.c` | Extends `NpcKernel`. One NPC, `ME`, thread by thread: `shared` is `g_shared`, `th` where each thread is. The other NPCs act through pipes and system calls only, at any time. `polls` says that somebody's AI call sleeps in the kernel and does not return; no thread of any process runs then. What an AI call does in the kernel is in `Chat`. |
| `MCSync`, `MCSched`, `MCPipe`, `MCFs`, `MCVm`, `MCTcp`, `MCNet`, `MCNpc`, `MCSmall` | - | Modules of the TLC runs; `MCSmall` puts `RingQueue` and `Chat` side by side. |
| `SyncProofs` | - | Theorems about `Sync`. For arbitrary clients: types, wait queues; semaphore counts, panics and units. For mutexes and the detector: exclusion, tables, verdict, prevention. |
| `FoldProofs` | - | Lemmas on the folds and sums that the models are written with, the induction they rest on, and sequences as sets of members. |
| `SchedProofs` | - | The refinement of `TaskQueue` by `RingQueue`; theorems about `Sched`. |
| `PipeProofs`, `VmProofs`, `TcpProofs`, `NetProofs`, `NpcProofs` | - | Theorems about `Pipe`, `Vm`, `Tcp`, `Net` and `Npc`. |

Names ending in `_cleared`, `_kept`, `_skipped`, `_none` and so on, marked
*mutant* in a comment, are the wrong variants that `PROJECT.json` lists: each
property is shown to fail when the code is changed that way.

## 3. Runs

| Run | Bounds | Shows |
|---|---|---|
| `SyncMutex` | 3 threads, 3 blocking mutexes, detector switched at will | Exclusion with hand-over; tables true; the detector refuses a lock exactly when waiting would deadlock; no deadlock forms while it is on. Three threads and three mutexes are the smallest instance with a cycle of length three and with a cycle that leaves a thread out. |
| `SyncAny` | 2 threads, one object of each kind (spin or blocking), clients without discipline | No lost wake-up, no panic, semaphore counts and units, detector loop equal to the declarative banker's test, across exit and slot reuse. |
| `SyncLive` | 3 threads, a mutex and a condition variable | Every waiter is served, through `cond_wait` and hand-over. |
| `Small` | 4 slots, 3 values; 3 control blocks, calls without end | The ring implements `TaskQueue`: four slots give every position of front and tail, full and empty. Every path of every AI call: pages, the call's own block, the blocks left behind until none is free. Two components that share nothing, run side by side. |
| `SchedLife` | 2 processes of 2 threads, 5 queue slots, 3 pids, strides up to 4 | Runnable threads are queued, parents are true, the queue is exact, overtaking is bounded. Three pids reuse a slot; five queue slots leave one beyond the four threads. |
| `PipeTable` | 2 processes of 2 threads, 2 descriptors, 3 files, 2-byte pipe, counters modulo 4, 4 bytes, lengths 0 and 3 | Stream intact, no dangling descriptor, flags true, suspended calls safe. A 3-byte transfer does not fit, so every write is suspended; four bytes wrap the counters. |
| `Fs` | 2 names, 6 blocks, 3 inodes, 1 direct and 1 indirect block, 2 buffers, 1 open file, 1 crash | Cache and disk agree, what a boot would find is sound after every write, open files survive their names, nothing leaks, data stays its owner's. Two buffers are the fewest with which the code does not panic, so every buffer is recycled; three data blocks let a disk fill up inside a call; one crash shows every intermediate state of the disk, and three calls after it use what it left. |
| `FsCrash` (violation) | as `Fs` | `O_TRUNC` is not crash-safe: see section 6. |
| `Vm` | 2 processes of 2 threads, 17 frames, images of 1 and 2 pages, mmap of 1 or 2 pages far from the image, 2-byte pages, 7 calls | Frames have one owner, programs can run, copies are exact, nothing is mapped over memory in use. A process needs eight to ten frames with its tables, so memory runs out inside fork, exec and mmap; seven calls fork, fill, exec, exit and reap. |
| `Tcp` | 2 control blocks, 3-bit sequence numbers, 2-byte buffer, 1-byte segments, 3 bytes in each direction, 3 on one connection in both together, a window of 0 or 2 in every segment of the remote host | Both streams arrive in order and whole, the windows are respected, the retransmission queue covers what is on the way, blocks have one owner. The remote host has one byte more to send than the buffer holds, repeats old segments when it is full, and takes back its window while bytes are on the way, so that `cap` underflows; the first connection passes the end of the sequence space with its third byte; two blocks are a listener with a connection, or a connection and what is left of another. |
| `Net` | rings of 2, ARP cache of 2 for 4 addresses, 1 UDP socket, 6 pages, 2 received frames | No buffer in two hands, no packet forgotten, right hop, own datagrams. Two frames meet between any two steps of the poller; six pages are fewer than the packets and the caller need together. |
| `Npc` | 2 NPCs, 2-byte pipes and messages, 1 message to `ME`, 1 loop of main, 1 memory slot | The kernel's account, stable replies, kept outbox, the dead stay dead, everything ends unless a writer is stuck or an AI call keeps the kernel. A message fills a pipe, so that every further write blocks; one memory slot is one fewer than the NPCs. |

Related statements are checked together under one name (`TasksTrue`, `FilesTrue`,
`CacheTrue`, `DiskSound`, `FramesTrue`, `SpacesWhole`, `BlocksTrue`, `StreamIn`,
`Windows`, `RingsTrue`, `PacketsKept`, `KernelTrue`); the parts are named and
explained in the `*Props` modules. In every module one of them includes the type
invariant.

Bounds that cut behaviours, in guards and named as constants: `MAX_COUNT` and
`MAX_ALLOC` (semaphores), `MAX_PID`, `MAX_STRIDE`, `MAX_BYTES`, `MAX_REF`, `MAX_CRASH`,
`MAX_LATER` (calls after a crash), `MAX_CALLS` (memory), `MAX_SENT`, `MAX_RX`,
`MAX_LOOPS`; and `MAX_TRAFFIC`, the bytes of both directions of a TCP connection, in the constraint `FewBytes`. The
properties relate values that move together, so a larger bound repeats the same
relations; the theorems of section 5 do not depend on them. Deadlock checking is
off because the bounds, a panic, a process whose threads all sleep, a kernel that
polls for ever and a world whose NPCs are all dead are legitimate ends.

Fairness. `SyncLive` assumes that a runnable thread suspended inside a call is
eventually scheduled (threads of one process share one stride, so `fetch_task`
serves them in queue order) and that the owner of a mutex eventually unlocks it,
which is the client's side of the contract; nothing is assumed about threads that
do not hold a mutex. `Npc` assumes for `Ends` that each of the five threads of
`ME` runs again and again when it can (the timer takes the CPU from every thread
and `fetch_task` serves threads of one stride in turn) and that the world reaps;
nothing is assumed of the other NPCs, which may never read what they are sent. It does
not assume that an AI call returns: `sched_sleep` gives up after a number of turns, but
`tcp_send` and `tcp_receive` only sleep again, and the kernel never yields there, so a
silent server stops every thread. The model has this step (`thinking_waits`,
`other_asks`); `Ends` therefore has it as an exit.

Client discipline. Constants say which clients a run has. `DISCIPLINED` clients
unlock and wait only with mutexes they hold and exit holding none; the kernel does
not check this, and exclusion cannot hold without it. `SyncAny`, `SchedLife`,
`PipeTable`, `Fs` and `Npc` need no discipline; callers of `Tcp` and `Net` use
only sockets they own, and programs of `Vm` do not unmap their own stacks. Where a property depends on one, a history
variable (`joined`, `cut`) records whether it was kept; `crowded` records that the task
queue was full when `fetch_task` looked at it.

## 4. Properties worth knowing

* `WaitersQueued` (no lost wake-up): a thread sleeps exactly while it is queued,
  once, on the created object it waits for.
* `AllocationTruth`: what the detector reads is what is the case. `DetectorExact`
  and `DetectionPreventsDeadlock` say what follows for mutexes.
* `QueueExact`, `RunnableQueued`: the task queue against thread states; entries of
  threads dropped by `freeproc` make the difference between the two.
* `BoundedOvertaking`: the promise of stride scheduling. It needs no discipline of the
  clients, only that `fetch_task` never met a full ring, which it scans as if it were
  empty (`crowded`): stale entries and reused slots do not break it.
* `StreamIntact`: the unread bytes of a pipe are the ones written and not read, in
  order. `SuspendedSafe`: a call that yields goes on with its own pipe.
* `DiskSound`: a statement about the disk alone, true after every single block
  write, so it is what a boot finds after a crash at any point: `link` counts
  before it adds the name, `unlink` removes the name before it counts, blocks are
  marked before they are named. `O_TRUNC` is the exception (`cut`).
* `FramesTrue`: free frames, table pages and leaves partition memory, which makes
  a double free, a leak and memory shared by two processes one property.
* `StreamIn`: under the condition that every accepted segment began at `rcv.nxt`
  (history `gap`) and fitted the buffer (history `over`); section 6 says what happens
  without the first, and `Windows` that the first implies the second, with a remote host
  that has more to send than the buffer holds. Segments off `rcv.nxt` end the claim, so
  it does not hold the acceptance test of the code to account.
* `Windows`: that, and for the other direction that what is on the way fits the window as
  long as no acknowledgement took back room that was given (history `shrunk`), and is in
  the retransmission queue. Section 6 says what the code does once room was taken back.
* `PacketsKept`: the softirq bit, the queues and the free pages against each other,
  with the interrupt between any two steps.
* `ChatAccounted`: pages come back on every path that returns; the control block is given
  up, which is not to say that it is free.
* `Ends`: the shutdown protocol of an NPC, threads and reaping included. It says nothing
  once an AI call keeps the kernel, and nothing could be said then.

## 5. Theorems

All for every value of the constants, from the assumptions named in the modules:
`PoolAssumption`, `QueueAssumption` (a wait queue has a slot for every thread, which
16 and 16 satisfy), `SizeAssumption`, the assumptions of `Sched` on its pools, that of `Pipe` that `PIPESIZE` divides the range of the counters (512 divides
2^32), that of `Net` that no host is called `"none"`, which stands for no host,
`VmAssumption` (images with their stacks, and mappings, end below the trap frames, which
is 256 GiB away in the code), `ChatAssumption` (the number of control blocks is a
number), and `KernelAssumption` and `NpcAssumption` (an NPC is born above the death
threshold; its history holds more than one character). Where a theorem needs more,
its `ASSUME` says so, and so does this list.

Synchronisation (`SyncProofs`):

* `TypeCorrect`: `Spec => []TypeOK`.
* `NoLostWakeup`: `Spec => []WaitersQueued`, for clients that call
  anything. The property is not inductive: a queue could hold a thread that is in
  another call, or an object could be waited for before it is created. `WaitInv`
  adds that a thread inside a call waits for an object the process has created,
  that only threads inside a blocking call sleep, and that a process without its
  main thread has no thread at all. One step per action; queue lemmas say what
  `Append` and `Tail` do to a set of sleepers.
* `BlockingExcludes`, `TablesTrue`, assuming disciplined
  clients and blocking mutexes only (the spin mutex does not exclude): `OwnerInv`
  extends ownership to a thread that was handed the mutex and has not run
  (`Granted`), and ties it to `locked`; `DetectorInv` states the tables for mutexes
  not yet created as well, which is what makes creation preserve it.
* `DetectorTheorem`: the detector's loop gives the verdict of the banker's test
  (`DetectorIsBanker`) in every state, for any clients and any number of threads,
  mutexes and semaphores. `PassChain` and `RoundChain` turn the folds of the loop into
  chains of turns and rounds. A thread that can finish after some others can finish
  after more of them (`PossibleMono`: sums of naturals grow with the set), so a round
  never finishes a thread of a stuck set (`PassAvoids`); every round before the fixed
  point finishes somebody, so `NTHREAD` rounds reach it (`RoundsFixed`).
* `ExactTheorem`, for disciplined clients of blocking mutexes that create no
  semaphore: a lock is refused just when it would close a circle. It joins the two
  results before it, the tables and the fixed point, to `HolderInv` (a thread sleeps
  only before a locked mutex, and an owner has not exited).
* `PreventionTheorem`, for the same clients without condition variables, whose wait
  takes its mutex again without asking: with detection on no step closes a circle.
  `DeadlockIsCircle` reduces `Deadlocked` to sets of sleepers; a refused lock changes
  nothing, a lock that was not refused closes none (`ExactHere`), and an unlock hands
  the mutex to a thread that can go on.
* `CountTellsWaiters`, `NeverPanics`, assuming non-negative
  initial counts: the length of the wait queue is minus the count, so
  `semaphore_up` finds its waiter; and a queue of distinct threads cannot outgrow
  the number of threads, so no queue overflows.
* `UnitsTheorem`, with the same assumption: `SemaphoreUnits`. `UnitsInv` adds that a
  semaphore not yet created has no units in anybody's hands. The sum over threads is a
  fold; `HeldMove` says that it moves by what one thread gains or loses, and every
  action is such a move, compensated by the count or by `units`.

Queue and scheduler (`SchedProofs`):

* `RingShape`, `RingRefinesQueue`: every push, pop and removal
  from the middle of the ring is a step of the abstract queue, by cases on
  whether the occupied part wraps.
* `QueueTheorem`, `ParentTheorem`: `Spec => []TasksTrue` and `Spec => []ParentTruth`, from
  `SchedInv`, the conjunction of `TaskInv` (states, queue and the running thread),
  `ProcInv` and `StrideType`. The strengthening is `SlotInv`: only a process in use has
  threads, which is what lets `allocproc` reuse a slot while the queue is exact and
  makes the caller of `fork` a process that lives. One lemma per kind of step on the
  queue, one per kind of step on the table of processes.
* `OvertakingTheorem`, assuming that `MAX_STRIDE` stays below the wrap-around (the
  64-bit stride of the code does not wrap in any run of realistic length):
  `OvertakeInv` adds that a thread that runs or sleeps has been passed by nobody
  (`FreshInv`) and that strides stay below the bound (`StrideBound`). The dispatch of the
  smallest stride is the step that matters.

Pipes and files (`PipeProofs`):

* `StreamTheorem`: `Spec => []StreamIntact`. The ring's counters and the histories
  `sent` and `got` agree modulo the range of the counters (`RingInv`); modular lemmas do the
  rest when they wrap. `RoomAvail` says that the code's differences of wrapped counters
  are the room and the bytes there are.
* `FilesTheorem`, `SuspendedTheorem`: `Spec => []FilesTrue` and `Spec => []SuspendedSafe`.
  `FileInv` says of every open file what `FilesTrue` says of descriptors, that it is an
  end of a live pipe (`OpenFiles`), and that an end is one file (`OneFile`), without which
  closing one would not clear the flag; `Suspended` adds the descriptor that keeps the
  file of a suspended call open.

Memory (`VmProofs`):

* `FramesTheorem`: `Spec => []FramesTrue`. `VmInv` adds to the partition of the frames
  (`Shared`) where the kernel's own frames are mapped (`AllFit`): the trampoline and the
  trap frames of live threads at their addresses and nowhere else, which is why
  `freewalk` and `uvmunmap` never hand one to `kfree`. Inside a call the partition is
  broken and restored many times, so the lemmas speak of one address space under
  construction while the others have the frames `R` (`Good`, `Sound`): one lemma for every
  function of `vm.c`, `kalloc.c` and `loader.c`, with the outcome in which memory runs out
  half-way, and one step per system call that chains them. The loops of the code are
  folds; `FoldChain` and `LastFold` carry a statement from their first value to their last.
  After a panic, which a call leaves half-done, it only says that the panic was not
  `kfree` being handed a frame of the kernel.
* `RemapTheorem`: `Spec => NoRemap`, from the same invariant. A call other than exec lets
  the page table of its process only grow (`Grows`, through the folds of mmap and the two
  outcomes of `mappages`) or only shrink, and rebuilds no other one: `fork` and `spawn`
  fill a slot in which no process ran (`PutElsewhere`).
* `SpacesTheorem`: `Spec => []SpacesWhole`, assuming `KeepsProgram`: programs map and
  unmap memory above their image and the stack of their first thread. The kernel does not
  enforce it (`munmap` takes a program's own code away if asked), the programs of the
  repository map at 0x10000000, far above both. `AllRun` adds to `VmInv` that every
  process has what it needs mapped (`Needs`): the trampoline, the trap frames of its live
  threads, its image and its first stack. A call that only adds pages keeps it
  (`RunsGrows`), `munmap` and the end of a thread take away other pages (`OtherPages`,
  `Parted`), exec and spawn establish it from nothing (`LoadsRuns`), and fork copies it:
  the pages up to `max_page` with `uvmcopy` (`CopyRuns`), the trap frames with
  `allocthread`.
* `CopyTheorem`: `Spec => []CopyExact`, without that assumption. `Copying` is the invariant
  of the loop of `copyin` and `copyout`: what has been copied is what the program sees
  there, and the copy goes on where it stopped. `CopiesOnePage` is one turn, with
  three lemmas on division (`DivUnique`, `SamePage`, `NextPage`), and `FoldHolds` of
  `FoldProofs` carries it to the end of the loop.

TCP (`TcpProofs`):

* `BlocksTheorem`: `Spec => []BlocksTrue`, from `SeqsAssumption` and `TcpAssumption`, which
  only give the constants their types. `TcpInv` has four parts. `Typed` gives every
  variable its type. `Kept` says what a control block of each state holds (`Sound`: the
  buffer and the window add up, a connection has a foreign port, a blank block has no
  data), and what keeps its owner alone: a block in a backlog is an established
  connection, in one place of one backlog, held by no caller. A caller holds the ids it
  owns and the one its sleeping call is about (`Held`), and what it holds is neither free
  nor in LAST_ACK nor on its way into a backlog (`Holdable`); without this a segment
  could free a block under its owner, or put it into the backlog of a listener as well.
  `Ports` says that an unused socket has a port only if its caller bound it, so that a
  pair of ports taken from it is new.
  The lemmas on blocks say what one step may do to them: one block changes and keeps its
  backlog (`KeptPut`), one enters the backlog of its parent, one leaves it, a block is
  cleared with its backlog. `Follows` chains the stages of `tcp_segment_arrives` on one
  block; `PutStep` serves the calls, which change one block nobody waits for. A backlog
  of a listener that was closed and whose slot has another use is covered: `Kept` does
  not depend on what the block with the backlog is.
* `StreamInTheorem`: `Spec => []StreamIn`, assuming `StreamAssumption`: a connection
  carries fewer bytes than there are sequence numbers. The model delivers a segment at any
  later time, so without it an old segment is taken for a new one; with it a number names
  one byte (`PlaceOnce`). `StreamInv` says of every block (`Flow`) that what the caller was
  given and what is still buffered are the first bytes of the stream and that `rcv.nxt` is
  the number of the next one; after the FIN, that they are all of them. `Carries` says of
  every segment that arrives that its bytes stand at their numbers, and its FIN behind the
  last. `FlowText` is the step that matters: a segment that starts at `rcv.nxt` adds just
  the next bytes (`PrefixMore`), and its FIN is at the end; a FIN alone does not move
  `rcv.nxt` past bytes that have not come. `JoinCut` is `tcp_receive`, which moves
  bytes from the buffer to the caller; `Untouched` covers the steps that leave the incoming
  stream alone. All connections of the model's remote host carry the same
  stream, so that a segment left over from an earlier connection between the same ports
  is not told apart from one of the new.

Network (`NetProofs`), all from one invariant, `NetInv`, the conjunction of one part
per structure, so that a handler is examined part by part:

* `HopTheorem`: `Spec => []RightHop`. `ArpTrue` says that a resolved entry holds the
  address it is filed under and that `order` lists the used slots once each, so that
  eviction takes the oldest entry whole; `TxTrue` carries the right hop with the frame,
  which is why an entry evicted later does no harm. `RouteOf` computes the longest-mask
  route.
* `RingsTheorem`: `Spec => []RingsTrue`. `RxTrue` says why no receive buffer is
  given twice: every slot of the ring always holds its own buffer, because the used
  entries are consecutive from `last`, so `virtio_net_read` puts a buffer back where it
  was and a frame skipped for want of memory leaves the slot as it must be. `TxTrue`
  keeps the descriptors handed out distinct and apart from the free ones; that there are
  never more than `QSIZE` of them follows.
* `PacketsTheorem`: `Spec => []PacketsKept`. `LoopKeeps` states what the loop of
  `virtio_net_intr` preserves for any number of frames: pages, lost pages and queued
  packets add up, and a queue grows only with the bit raised (`Announced`). `AccountStep`
  is the balance of every other step, the three outcomes of the unlocked `queue_pop`
  and the leak of `udp_input` included.
* `DatagramsTheorem`: `Spec => []OwnDatagrams`. `UdpTrue` adds that a closed block has
  port 0, which makes the block `udp_open` takes an unbound socket with nothing queued.

NPCs (`NpcProofs`):

* `DeadNeverReturn`, `ReplyIsStable`, `OutboxIsKept`. `NpcInv` adds to
  `ReplyStable` that nothing is pending while the AI is asked (`CallInv`), which is
  what makes the end of a thought harmless to the outbox, and that a registered NPC
  has priority -1 or a positive one and `ME` registers once (`PrioInv`): a dead NPC
  of priority 0 would be ticked and could be revived by a reward. Frame lemmas say
  what each step does to the threads, to `g_shared` and to the processes.
* `KernelTheorem`: `Spec => []KernelTrue`. `KernelInv` adds to `NpcInv` the bounds that
  carry it: histories, pending memories, pipes and saved memories within their buffers
  (`Lengths`, `Pipes`, `Memories`), that the communication thread holds the mutex from
  the moment it has looked until the message is out (`HeldInv`), and that the number
  alive lies between the living and all who came (`CountInv`), one registration or
  death at a time.
* `ChatTheorem`: `ChatSpec => []ChatAccounted`, for any number of control blocks and calls.
  `Going` is what a call holds between two stages, `Polling` a call that has come to sleep
  for ever, and one lemma per function of `http.c` and `ai_api.c` leads from the one to
  the next. A path that keeps a page or drops a block breaks a lemma.

Only model-checked:

* Liveness (`WaiterServed`, `Ends`), which is out of the prover's reach.
* `StreamOut` and `Windows` of `Tcp`. They relate a block to what the remote host has
  received and acknowledged, modulo the sequence space. A proof needs, besides
  `StreamAssumption` for this direction, an invariant that places `snd.una`, `snd.nxt`,
  every entry of the queue and every acknowledgement that can still arrive in the stream.
* The properties of `Fs` (`CacheTrue`, `DiskSound`, `OpenFilesKept`, `NothingLeaks`,
  `OwnData`). A call of `Fs` is computed as a whole and then carried out write by write,
  so an invariant has to follow every block through the rest of a plan and a crash
  between any two of its steps.

`FoldProofs` shows how a fold can be reasoned about without an induction rule: the numbers
for which a statement holds are a set that contains 0 and is closed under successor.

## 6. What the code does differently from what it says

* `FsCrash` (`findings` in `PROJECT.json`): `itrunc` frees blocks before it writes the inode. A crash in between leaves
  an inode that names free blocks; the next allocation gives them to a second file. The
  head of `fs.c` announces a log.

Seen while modelling; the models contain these behaviours, and properties are
stated so that they hold in spite of them:

* Synchronisation. The waiter of a spin mutex leaves its polling loop without
  setting `locked`, so two threads hold it (hence `BLOCKING_ARGS` in `SyncMutex`).
  A woken semaphore waiter is entered twice in `sem_allocation` (`semaphore_up`,
  `semaphore_down`), so the detector can let a deadlock of semaphores form.
  `cond_wait` takes its mutex again without asking the detector. A semaphore
  created with a negative count makes `semaphore_up` panic.
* Scheduling. `freeproc` leaves the queue entries of the threads it drops; they
  accumulate until `push_queue` panics (history `joined` tells these behaviours
  apart), and on the way there the queue can be full when the scheduler looks
  (`crowded`). `exit` clears the parent of its ZOMBIE children, which nobody reaps. A
  priority above `BIG_STRIDE` has a pass of zero and starves the others.
  `fetch_task` counts a full ring as empty. A new process starts at stride 0.
  `fork` from another thread than the first copies the first one's trap frame.
* Files and pipes. `freeproc`'s loop over open files never runs (`i >
  FD_BUFFER_SIZE`), so files of a dead process stay open. `sys_read` and
  `sys_write` ignore `readable` and `writable` and accept the descriptor one past
  the table; `sys_pipe` does not notice a full descriptor table; a read or write
  of length zero on a pipe panics. `fileopen` without a free descriptor panics. A
  `writei` whose copy fails leaves the cached block changed and unwritten.
  `namei` never returns its reference to the root.
* Memory. `uvmmap` does not look at `kalloc`'s result and maps frame 0, which
  `kfree` panics on later. `mmap` above `max_page` is inherited by neither fork nor
  undone by exec; it does not roll back. `fork` of a process with threads copies
  their stacks, and the child's next `thread_create` panics. `exec` from another
  thread than the first panics, and the other threads survive it without stacks.
  `sys_wait` writes the exit code through an address translated before it slept.
* TCP. A segment that is acceptable and does not start at `rcv.nxt` is taken whole,
  so reordering loses or repeats bytes (`gap`). Data and FIN in one segment set
  `rcv.nxt` one past the start of the data. An update of a zero window with
  nothing new acknowledged is ignored, and no update is sent when the caller has
  read, so both directions can stall. CLOSING and TIME_WAIT are never left. When
  the remote host acknowledges and takes back room in one segment, `cap` in `tcp_send` is a
  negative number read as unsigned, and everything that is left goes out past the
  window (`Windows` stops at this point, `shrunk`). A SYN that is lost when there was no
  memory to queue it makes `tcp_connect` poll for ever. RST is ignored. An
  acknowledgement of part of an entry of the retransmission queue drops the entry
  (`tcp_retransmit_queue_cleanup` looks at its first number only), and the rest is never sent
  again; the run's one-byte segments are acknowledged whole. A connection keeps a
  pointer to a listener that was closed. `tcp_connect` looks for a free port in host byte
  order.
* AI calls. Waiting for a server has no time limit: `sched_sleep` stops after a number of
  turns (`doc/代码调试文档/ch9-network.md` 481: a timeout "to prevent waiting for ever"), but
  returns 0, and `tcp_receive` (`tcp.c` 1083) and `tcp_send` (1029) then sleep again. Nothing
  yields there: a silent server stops every thread of every process, although the
  thinking thread gives its mutex up around the call to let the others run
  (`ch11_npc.c` 464). `tcp_close` refuses a block in CLOSED ("unknown state", 773), which is
  what a `tcp_connect` without route or port or the deadline leaves, `http_execute` does not look at
  the result, and nothing else frees the block. Blocks whose FIN was sent are freed, if at
  all, only while some later call polls the network; once all 16 are given up no call gets
  as far as polling, and there are no more AI calls until the next boot.
* Lower layers. `udp_input` leaks its entry when `queue_push` fails; the unlocked
  `queue_pop` can lose a packet to an interrupt (`lost`). The 16-bit used index is
  compared with an int.
* NPCs. The communication thread writes to a pipe with the mutex locked; if the
  reader is gone, the NPC never ends (`Stuck`), although main waits for what a
  comment calls threads that do not block. A message that arrives while the NPC
  speaks unasked is cleared unanswered; a second memory replaces one not yet
  saved; fewer than `NPC_IPC_REWARD_BYTES` bytes earn nothing and are forgotten.
  The receiver's pid is guessed as 3 + i. Local text buffers of 128 bytes take
  texts that may be longer.

## 7. Not modelled, and the plan

Not planned: console, formatting, firmware calls, string functions, boot code,
assembly, the rest of the image builder (input and output, layout); the register
level of traps; descriptor chains of the disk; `copyinstr`; IP fragments and
checksums, addresses as text; building and parsing of HTTP and JSON; what texts the
NPCs say. Other user programs are the environment: the models let clients make
any call.

Small differences inside modelled parts, none of which a property depends on: `Fs` leaves
out that `readi` may fail to copy out (`fs.c` 307-311); `Net` leaves out the unconditional
`intr_raise_irq` at `virtio_net.c` 381, which only announces packets once more, so the
model is the stricter; `Tcp`'s retransmission entries always find memory (`Chat`'s
`tcp_connect` does not assume it); the run of `Net` has one UDP socket, so that several
sockets are the matter of `DatagramsTheorem` alone; a caller asleep in `recvfrom` while its socket
is closed is not modelled.

Left, in this order:

1. Proofs about `Fs`, the cache (`CacheTrue`) first, and about the outgoing stream of
   `Tcp` under the assumptions section 5 names.
2. An abstract specification of a directory of counted files for `Fs` and of a pair
   of byte streams for `Tcp`, with the refinements.
3. Composition of `Vm` with `Sched`, where frames come and go under suspended calls
   (the address `sys_wait` keeps).
