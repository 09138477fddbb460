--------------------------------- MODULE Vm ---------------------------------
(***************************************************************************)
(* Physical frames and user address spaces: kalloc.c, vm.c, loader.c and    *)
(* the parts of proc.c and syscall.c that build, copy, change and free an   *)
(* address space.  The kernel is not preempted in these calls, so each is   *)
(* one action.                                                              *)
(*                                                                         *)
(* A virtual address is its page number.  The three levels of a page table  *)
(* are kept as its leaves, pt, and its table pages, tab, both partial       *)
(* functions into frames.  Positive frames are those of kalloc; the others  *)
(* belong to the kernel image.  Which free frame kalloc returns makes no    *)
(* difference: it is the smallest here.  The kernel image, the trampoline   *)
(* and the trap frames are mapped, never allocated.                         *)
(***************************************************************************)
EXTENDS Integers, Sequences, FiniteSets, SequencesExt

CONSTANTS
    NPROC, NTHREAD,
    NFRAMES,      \* frames of kinit
    IMAGES,       \* lengths in pages of the programs
    STARTS,       \* pages where programs map memory
    MAPLEN,       \* most pages of one mmap
    PGSIZE,       \* bytes of a page
    FAR,          \* a page with an address far from the image
    MAX_CALLS     \* bound on the calls made

ASSUME VmAssumption ==
    /\ NPROC \in Nat \ {0} /\ NTHREAD \in Nat \ {0} /\ NFRAMES \in Nat
    /\ IMAGES \subseteq Nat \ {0} /\ STARTS \subseteq Nat \ {0} /\ MAPLEN \in Nat
    /\ FAR \in Nat /\ PGSIZE \in Nat \ {0} /\ MAX_CALLS \in Nat
    \* Images, with a page left out and the stacks, and mappings end below the trap frames.
    /\ \A n \in IMAGES : n + 2 + NTHREAD <= 2 * FAR - NTHREAD
    /\ \A n \in STARTS : n + MAPLEN <= 2 * FAR - NTHREAD

VARIABLES
    free,         \* the free list
    proc,         \* the process table, with the page tables
    halt,         \* why the kernel has panicked, or ""
    calls         \* calls made so far: their number is bounded

vmVars == <<free, proc, halt, calls>>

Slots == 0 .. NPROC - 1
Tids == 0 .. NTHREAD - 1
Frames == 1 .. NFRAMES
NULL == 0

\* Above every page a program maps: the trampoline and below it the trap frames.
TRAMPOLINE == 2 * FAR
TrapframeVa(t) == TRAMPOLINE - 1 - t
TrampolineFrame == -1
TrapframeOf(p, t) == -2 - (p * NTHREAD + t)

\* Table pages on the way to a page, from the second level down.
Path(va) == IF va > TRAMPOLINE - 1 - NTHREAD THEN <<"h1", "h0">>
            ELSE IF va >= FAR THEN <<"l1", "f0">>
            ELSE <<"l1", "l0">>

With(f, x, y) == [z \in DOMAIN f \cup {x} |-> IF z = x THEN y ELSE f[z]]
Without(f, S) == [x \in DOMAIN f \ S |-> f[x]]
FramesOf(f) == {f[x] : x \in DOMAIN f}
Each(first, n) == [k \in 1 .. n |-> first + k - 1]     \* a loop from first on, n times

----------------------------------------------------------------------------
(* An address space under construction: free, pt, tab, whether the last call *)
(* succeeded and why the kernel has panicked.                               *)

Space(p) == [free |-> free, pt |-> proc[p].pt, tab |-> proc[p].tab, ok |-> TRUE, why |-> halt]
Panicked(m, why) == IF m.why = "" THEN [m EXCEPT !.why = why] ELSE m

kalloc(m) == IF m.free = {} THEN NULL ELSE CHOOSE f \in m.free : \A g \in m.free : f <= g

\* kfree panics on what kalloc cannot have returned.
kfree(m, S) ==
    IF S \subseteq Frames THEN [m EXCEPT !.free = @ \cup S]
    ELSE Panicked(m, IF NULL \in S THEN "kfree null" ELSE "kfree")

\* walk with alloc: the missing table pages, until none is left.
AddTable(m, level) ==
    IF ~m.ok \/ level \in DOMAIN m.tab THEN m
    ELSE IF m.free = {} THEN [m EXCEPT !.ok = FALSE]
    ELSE [m EXCEPT !.tab = With(@, level, kalloc(m)), !.free = @ \ {kalloc(m)}]
walk(m, va) == FoldLeft(AddTable, m, Path(va))

\* mappages of one page: it fails on a page that is mapped.
Mapped_over(m, va, f) == IF ~m.ok THEN m ELSE [m EXCEPT !.pt = With(@, va, f)]   \* mutant: PTE_V is not looked at
Mapped(m, va, f) ==
    IF ~m.ok \/ va \in DOMAIN m.pt THEN [m EXCEPT !.ok = FALSE] ELSE [m EXCEPT !.pt = With(@, va, f)]
mappages(m, va, f) == Mapped(walk([m EXCEPT !.ok = TRUE], va), va, f)

\* walkaddr: the frame of a user page, or 0.
walkaddr(pt, va) == IF va \in DOMAIN pt /\ pt[va] > 0 THEN pt[va] ELSE NULL

\* kalloc, then mappages; the frame is not returned when that fails.
TakeMapped(m, va) == mappages([m EXCEPT !.free = @ \ {kalloc(m)}], va, kalloc(m))

\* uvmmap of one page: kalloc's failure is not noticed, and frame 0 is mapped.
uvmmap(m, va) == TakeMapped(m, va)

\* uvmunmap of the pages in S.
uvmunmap(m, S, do_free) ==
    LET gone == S \cap DOMAIN m.pt
        n == [m EXCEPT !.pt = Without(@, gone)]
    IN  IF do_free THEN kfree(n, {m.pt[va] : va \in gone}) ELSE n

Below(n) == 0 .. n - 1

\* uvmcreate: the root, and the trampoline.
uvmcreate(m) ==
    LET r == [m EXCEPT !.tab = With(<<>>, "root", kalloc(m)), !.pt = <<>>, !.free = @ \ {kalloc(m)}]
        n == mappages(r, TRAMPOLINE, TrampolineFrame)
    IN  IF m.free = {} \/ ~n.ok THEN Panicked(m, "uvmcreate") ELSE n

\* uvmcopy: the pages below max_page into frames of their own.
Copied(m, va, f) ==
    IF f = NULL \/ m.free = {} THEN [m EXCEPT !.ok = FALSE] ELSE TakeMapped(m, va)
uvmcopy(m, old, max_page) ==
    LET Step(n, va) == IF n.ok /\ va \in DOMAIN old THEN Copied(n, va, old[va]) ELSE n
    IN  FoldLeft(Step, m, Each(0, max_page))

\* freewalk: the leaves that are left, and the table pages.
freewalk_tables(m) == [kfree(m, FramesOf(m.tab)) EXCEPT !.pt = <<>>, !.tab = <<>>]   \* mutant: not the leaves
freewalk(m) == [kfree(m, FramesOf(m.pt) \cup FramesOf(m.tab)) EXCEPT !.pt = <<>>, !.tab = <<>>]

\* freepagetable and uvmfree.
freepagetable(m, max_page) ==
    freewalk(uvmunmap(uvmunmap(m, {TRAMPOLINE}, FALSE), Below(max_page), TRUE))

----------------------------------------------------------------------------
(* Threads *)

NoThread == [t \in Tids |-> "UNUSED"]
NoProc == [state |-> "UNUSED", parent |-> -1, pt |-> <<>>, tab |-> <<>>, image |-> 0,
           max_page |-> 0, ustack |-> 0, threads |-> NoThread]

UnusedTids(d) == {t \in Tids : d.threads[t] = "UNUSED"}
FirstTid(d) == CHOOSE t \in UnusedTids(d) : \A u \in UnusedTids(d) : t <= u

\* MAX(max_page, end of the stack) of allocthread.
Reach_image(d, page) == d.max_page                    \* mutant: the stack is left out
Reach(d, page) == IF page + 1 > d.max_page THEN page + 1 ELSE d.max_page

\* allocthread of thread t of the process d in slot p: [m, d].
allocthread(m, p, d, t, alloc_user_res) ==
    LET page == d.ustack + t
        s == IF alloc_user_res THEN uvmmap(m, page) ELSE m
        n == IF s.ok THEN mappages(s, TrapframeVa(t), TrapframeOf(p, t)) ELSE Panicked(s, "map ustack fail")
    IN  [m |-> IF n.ok THEN n ELSE Panicked(n, "map trapframe fail"),
         d |-> [d EXCEPT !.threads[t] = "USED", !.max_page = IF alloc_user_res THEN Reach(d, page) ELSE @]]

\* freethread: the trap frame is unmapped, the stack freed.
freethread(m, d, t) == uvmunmap(uvmunmap(m, {TrapframeVa(t)}, FALSE), {d.ustack + t}, TRUE)

Live(d) == {t \in Tids : d.threads[t] = "USED"}

----------------------------------------------------------------------------
(* Programs *)

\* bin_loader: the image from page 1, a page left out, the stack of thread 0.
\* Without memory, over a mapping that exec left, or for a thread that is not the
\* first one, it panics.
bin_loader(m, p, d, image) ==
    LET Load(n, va) == IF n.why # "" THEN n
                       ELSE IF n.free = {} \/ ~TakeMapped(n, va).ok THEN Panicked(n, "bin_loader")
                       ELSE TakeMapped(n, va)
        n == FoldLeft(Load, m, Each(1, image))
        e == [d EXCEPT !.image = image, !.max_page = image + 1, !.ustack = image + 2]
        r == allocthread(n, p, e, FirstTid(e), TRUE)
    IN  IF n.why # "" THEN [m |-> n, d |-> e]
        ELSE IF FirstTid(e) # 0 THEN [m |-> Panicked(r.m, "main thread"), d |-> e]
        ELSE r

\* push_argv: the arguments go to the stack of the first thread; it panics when that
\* has no frame.
push_argv(r) ==
    IF walkaddr(r.m.pt, r.d.ustack) = NULL THEN [r EXCEPT !.m = Panicked(@, "copy argv failed")] ELSE r

\* Process d in slot p with the memory of m.
Put(p, d, m) ==
    /\ free' = m.free /\ halt' = m.why
    /\ proc' = [proc EXCEPT ![p] = [d EXCEPT !.pt = m.pt, !.tab = m.tab]]

Running(p) == halt = "" /\ proc[p].state = "USED"
UnusedSlots == {q \in Slots : proc[q].state = "UNUSED"}
FirstSlot == {q \in UnusedSlots : \A r \in UnusedSlots : q <= r}

\* allocproc.
NewProc(p, q) == [NoProc EXCEPT !.state = "USED", !.parent = p]
Created(q) == uvmcreate([Space(q) EXCEPT !.tab = <<>>])

\* fork panics without a free slot or without memory.
fork(p) ==
    /\ Running(p)
    /\ \/ /\ FirstSlot = {}
          /\ halt' = "allocproc"
          /\ UNCHANGED <<free, proc>>
       \/ \E q \in FirstSlot :
             \E m \in {uvmcopy(Created(q), proc[p].pt, proc[p].max_page)} :
                LET n == IF m.ok THEN m ELSE Panicked(m, "uvmcopy")
                    d == [NewProc(p, q) EXCEPT !.max_page = proc[p].max_page, !.ustack = proc[p].ustack,
                                               !.image = proc[p].image]
                IN  \E r \in {allocthread(n, q, d, 0, FALSE)} : Put(q, r.d, r.m)

\* A process without a free slot for its child gets an error.
sys_spawn(p, image) ==
    /\ Running(p)
    /\ \E q \in FirstSlot :
          \E r \in {push_argv(bin_loader(Created(q), q, NewProc(p, q), image))} : Put(q, r.d, r.m)

exec(p, t, image) ==
    /\ Running(p) /\ t \in Live(proc[p])
    /\ LET d == [proc[p] EXCEPT !.threads[t] = "UNUSED"]
       IN  \E m \in {uvmunmap(freethread(Space(p), d, t), Below(d.max_page), TRUE)} :
              \E r \in {push_argv(bin_loader(m, p, d, image))} : Put(p, r.d, r.m)

sys_thread_create(p) ==
    /\ Running(p) /\ UnusedTids(proc[p]) # {}
    /\ \E r \in {allocthread(Space(p), p, proc[p], FirstTid(proc[p]), TRUE)} : Put(p, r.d, r.m)

\* exit of a thread other than the first.
exit_thread(p, t) ==
    /\ Running(p) /\ t \in Live(proc[p]) \ {0}
    /\ Put(p, [proc[p] EXCEPT !.threads[t] = "EXITED"], freethread(Space(p), proc[p], t))

sys_waittid(p, t) ==
    /\ Running(p) /\ proc[p].threads[t] = "EXITED"
    /\ proc' = [proc EXCEPT ![p].threads[t] = "UNUSED"]
    /\ UNCHANGED <<free, halt>>

\* exit of the first thread: freeproc, a zombie if there is a parent, and the
\* children have none any more.
exit(p) ==
    /\ Running(p)
    /\ LET Step(m, t) == IF t \in Live(proc[p]) THEN freethread(m, proc[p], t) ELSE m
       IN  \E m \in {freepagetable(FoldLeft(Step, Space(p), Each(0, NTHREAD)), proc[p].max_page)} :
              /\ free' = m.free /\ halt' = m.why
              /\ proc' = [q \in Slots |->
                             IF q = p THEN [NoProc EXCEPT !.state = IF proc[p].parent = -1 THEN "UNUSED" ELSE "ZOMBIE",
                                                          !.parent = proc[p].parent]
                             ELSE IF proc[q].parent = p THEN [proc[q] EXCEPT !.parent = -1]
                             ELSE proc[q]]

wait(p, q) ==
    /\ Running(p) /\ proc[q].state = "ZOMBIE" /\ proc[q].parent = p
    /\ proc' = [proc EXCEPT ![q] = NoProc]
    /\ UNCHANGED <<free, halt>>

----------------------------------------------------------------------------
(* Copies between the kernel and a program *)

\* One turn of the loop of copyout and copyin: the bytes of one page.
Rest(va, len) == IF len < PGSIZE - (va % PGSIZE) THEN len ELSE PGSIZE - (va % PGSIZE)
CopyPage(pt, c) ==
    IF c.len = 0 \/ ~c.ok THEN c
    ELSE IF walkaddr(pt, c.va \div PGSIZE) = NULL THEN [c EXCEPT !.ok = FALSE]
    ELSE [ok |-> TRUE, va |-> (c.va \div PGSIZE + 1) * PGSIZE, len |-> c.len - Rest(c.va, c.len),
          bytes |-> c.bytes \o [i \in 1 .. Rest(c.va, c.len) |->
                                   walkaddr(pt, c.va \div PGSIZE) * PGSIZE + (c.va % PGSIZE) + i - 1]]

\* copyout and copyin: the physical bytes that are written or read, in order.
copy(pt, va, len) ==
    LET Step(c, i) == CopyPage(pt, c)
    IN  FoldLeft(Step, [ok |-> TRUE, va |-> va, len |-> len, bytes |-> <<>>], Each(1, len))

----------------------------------------------------------------------------
(* mmap and munmap *)

PagesFrom(start, n) == start .. start + n - 1

\* Nothing may be mapped there; what was mapped before the memory ran out stays.
sys_mmap(p, start, n) ==
    /\ Running(p) /\ PagesFrom(start, n) \cap DOMAIN proc[p].pt = {}
    /\ LET Step(m, va) == IF ~m.ok \/ m.free = {} THEN [m EXCEPT !.ok = FALSE]
                          ELSE LET r == TakeMapped(m, va)
                               IN  IF r.ok THEN r ELSE kfree(r, {kalloc(m)})
       IN  \E m \in {FoldLeft(Step, Space(p), Each(start, n))} : Put(p, proc[p], m)

\* Everything must be mapped there.
sys_munmap(p, start, n) ==
    /\ Running(p) /\ PagesFrom(start, n) \subseteq DOMAIN proc[p].pt
    /\ \E m \in {uvmunmap(Space(p), PagesFrom(start, n), TRUE)} : Put(p, proc[p], m)

----------------------------------------------------------------------------
\* load_init_app, with all the memory of kinit.
Init ==
    /\ calls = 0
    /\ \E image \in IMAGES :
          \E r \in {push_argv(bin_loader(uvmcreate([free |-> Frames, pt |-> <<>>, tab |-> <<>>, ok |-> TRUE, why |-> ""]),
                                         0, [NoProc EXCEPT !.state = "USED"], image))} :
             /\ free = r.m.free /\ halt = r.m.why
             /\ proc = [p \in Slots |-> IF p = 0 THEN [r.d EXCEPT !.pt = r.m.pt, !.tab = r.m.tab] ELSE NoProc]

Next ==
    /\ calls < MAX_CALLS /\ calls' = calls + 1
    /\ \E p \in Slots :
           \/ fork(p) \/ exit(p) \/ sys_thread_create(p)
           \/ \E image \in IMAGES : sys_spawn(p, image)
           \/ \E t \in Tids, image \in IMAGES : exec(p, t, image)
           \/ \E t \in Tids : exit_thread(p, t) \/ sys_waittid(p, t)
           \/ \E q \in Slots : wait(p, q)
           \/ \E start \in STARTS, n \in 1 .. MAPLEN : sys_mmap(p, start, n) \/ sys_munmap(p, start, n)

Spec == Init /\ [][Next]_vmVars
=============================================================================
