------------------------------ MODULE VmProps ------------------------------
(* Correctness properties of memory management (Vm). *)
EXTENDS Vm

Used == {p \in Slots : proc[p].state = "USED"}
Owned(p) == FramesOf(proc[p].tab) \cup FramesOf(proc[p].pt)

\* The free list holds allocatable frames; a page table maps, besides them, only the
\* kernel's own frames or frame 0; the reach of an image ends after it (max_page).
TypeOK ==
    /\ free \subseteq Frames
    /\ \A p \in Slots : /\ FramesOf(proc[p].tab) \subseteq Frames \cup {NULL}
                        /\ FramesOf(proc[p].pt) \subseteq -2 - NPROC * NTHREAD .. NFRAMES
                        /\ halt = "" => (proc[p].state = "USED") = (proc[p].max_page > proc[p].image)

\* A frame is in one place only: free, a table page, or behind one page of one
\* process.  A process never sees the memory of another (uvmcopy, kalloc, kfree).
NoSharing ==
    halt = "" =>
        /\ \A p \in Used : Owned(p) \cap free = {}
        /\ \A p, q \in Used : p # q => Owned(p) \cap Owned(q) \cap Frames = {}
        /\ \A p \in Used : /\ FramesOf(proc[p].tab) \cap FramesOf(proc[p].pt) = {}
                           /\ \A a, b \in DOMAIN proc[p].pt : a # b /\ proc[p].pt[a] # NULL => proc[p].pt[a] # proc[p].pt[b]

\* Every frame that is not free belongs to a process that runs: exit and exec give
\* back all of it, mappings above max_page included (freewalk), and so does a
\* mmap that runs out of memory half-way.
NothingLost == halt = "" => Frames \subseteq free \cup UNION {Owned(p) : p \in Used}

\* However a process ends, the kernel does not free its own frames: a trap frame or
\* the trampoline is unmapped before freewalk frees the leaves it finds.
KernelFramesKept == halt # "kfree"

\* FramesTrue: every frame has exactly one owner: the free list, the kernel, or one
\* process, as a table or behind one page.
FramesTrue == TypeOK /\ NoSharing /\ NothingLost /\ KernelFramesKept

\* A process that runs has its image and the stack of its first thread mapped, also
\* after fork and exec, and each of its threads can be entered: the trampoline and
\* the thread's own trap frame are mapped where usertrapret expects them.
CanRun ==
    halt = "" => \A p \in Used :
        /\ proc[p].pt[TRAMPOLINE] = TrampolineFrame
        /\ \A va \in (1 .. proc[p].image) \cup {proc[p].ustack} : va \in DOMAIN proc[p].pt
        /\ \A t \in Live(proc[p]) : /\ TrapframeVa(t) \in DOMAIN proc[p].pt
                                    /\ proc[p].pt[TrapframeVa(t)] = TrapframeOf(p, t)

\* A copy to or from a program reaches, byte for byte, what the program sees at those
\* addresses, across page boundaries and up to the first page that is not its own;
\* the copy succeeds exactly if there is no such page (copyin, copyout).
CopyExact ==
    halt = "" => \A p \in Used : \A va \in 0 .. (FAR + MAPLEN) * PGSIZE :
        \E c \in {copy(proc[p].pt, va, 2 * PGSIZE + 1)} :
            /\ \A i \in 1 .. Len(c.bytes) :
                  c.bytes[i] = walkaddr(proc[p].pt, (va + i - 1) \div PGSIZE) * PGSIZE + ((va + i - 1) % PGSIZE)
            /\ c.ok <=> Len(c.bytes) = 2 * PGSIZE + 1
            /\ ~c.ok => walkaddr(proc[p].pt, (va + Len(c.bytes)) \div PGSIZE) = NULL

\* What the proof of CanRun assumes of programs, and the run's constants satisfy: they
\* map and unmap memory above their image and the stack of their first thread (the
\* kernel lets a program unmap its own code, and then it cannot run).
KeepsProgram == \A start \in STARTS, n \in IMAGES : n + 2 < start

\* SpacesWhole: programs can run and the kernel reaches their memory where they see it.
SpacesWhole == CanRun /\ CopyExact

\* A page that stays mapped keeps its frame, unless the process executes a new
\* program: neither mmap nor a new thread's stack is put over memory in use.
NoRemap ==
    [][\A p \in Slots :
          proc[p].state = "USED" /\ proc'[p].state = "USED"
            => \/ \E t \in Tids, image \in IMAGES : exec(p, t, image)
               \/ \A va \in DOMAIN proc[p].pt \cap DOMAIN proc'[p].pt : proc'[p].pt[va] = proc[p].pt[va]]_vmVars
=============================================================================
