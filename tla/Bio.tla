-------------------------------- MODULE Bio --------------------------------
(***************************************************************************)
(* The buffer cache (bio.c) over the disk driver (virtio_disk.c).           *)
(*                                                                         *)
(* The kernel does not yield while it waits for the disk, so one request is *)
(* under way at a time and a system call is, for the cache, a sequence of   *)
(* bread, bwrite and brelse calls, here the plan.  Only a write changes what *)
(* a crash leaves behind: everything up to the next write is one step, the  *)
(* transfer by the device another.                                          *)
(***************************************************************************)
EXTENDS Integers, Sequences, SequencesExt

CONSTANTS
    NBUF,         \* buffers of the cache
    SIZE,         \* blocks of the disk
    NINODES,      \* inodes of the disk
    NINDIRECT     \* block numbers in an indirect block

ASSUME BioAssumption ==
    NBUF \in Nat \ {0, 1} /\ SIZE \in Nat /\ NINODES \in Nat \ {0} /\ NINDIRECT \in Nat \ {0}

VARIABLES
    disk,         \* what each block holds
    cache,        \* bcache, and the buffers the system call holds
    plan,         \* the calls it still makes
    req           \* the buffer the disk owns (b->disk), NOBUF otherwise

bioVars == <<disk, cache, plan, req>>

Blocks == 1 .. SIZE
Bufs == 1 .. NBUF
Inums == 1 .. NINODES
NOBUF == 0

\* A block holds a bit map, inodes, a directory entry, block numbers or data; data
\* is told apart by the file that wrote it.
Zero == [map |-> {}, ino |-> <<>>, name |-> "", inum |-> 0, ptr |-> [k \in 1 .. NINDIRECT |-> 0], val |-> 0]

----------------------------------------------------------------------------
\* binit
EmptyCache ==
    [buf |-> [k \in Bufs |-> [blockno |-> 0, valid |-> FALSE, refcnt |-> 0, data |-> Zero, dirty |-> FALSE]],
     lru |-> [k \in Bufs |-> k], held |-> <<>>]

Cached(c, b) == {k \in Bufs : c.buf[k].blockno = b}

\* The least recently used buffer nobody holds; lru runs from the most recent.
Victim(c) ==
    LET free == {k \in 1 .. NBUF : c.buf[c.lru[k]].refcnt = 0}
    IN  IF free = {} THEN NOBUF ELSE c.lru[CHOOSE k \in free : \A j \in free : j <= k]

\* What a recycled buffer holds: valid is cleared, so it is read.
Filled_stale(c, k, b) == c.buf[k].data      \* mutant: valid is not cleared
Filled(c, k, b) == disk[b]

\* bget and bread: a buffer that is not valid is read from the disk.
bread(c, b) ==
    IF Cached(c, b) # {}
    THEN LET k == CHOOSE k \in Cached(c, b) : TRUE
         IN  [c EXCEPT !.buf[k].refcnt = @ + 1, !.held = Append(@, k)]
    ELSE LET k == Victim(c)
         IN  [c EXCEPT !.buf[k] = [blockno |-> b, valid |-> TRUE, refcnt |-> 1, data |-> Filled(c, k, b), dirty |-> FALSE],
                       !.held = Append(@, k)]

\* brelse of the buffer taken last: free again, it is the most recently used.
brelse(c) ==
    LET k == Last(c.held)
        r == [c EXCEPT !.buf[k].refcnt = @ - 1, !.held = Front(@)]
    IN  IF r.buf[k].refcnt > 0 THEN r
        ELSE [r EXCEPT !.lru = <<k>> \o SelectSeq(r.lru, LAMBDA j : j # k)]

\* A buffer changed and not written (writei, when copyin fails).
scribble(c, d) == [c EXCEPT !.buf[Last(c.held)].data = d, !.buf[Last(c.held)].dirty = TRUE]

Do(c, call) ==
    CASE call.op = "bread" -> bread(c, call.b)
      [] call.op = "brelse" -> brelse(c)
      [] call.op = "scribble" -> scribble(c, call.d)

----------------------------------------------------------------------------
\* How many calls there are before the next write (or panic).
Quiet == LET stops == {k \in DOMAIN plan : plan[k].op \in {"bwrite", "panic"}}
         IN  IF stops = {} THEN Len(plan) ELSE (CHOOSE k \in stops : \A j \in stops : k <= j) - 1
Rest == SubSeq(plan, Quiet + 1, Len(plan))

\* The system call goes on until it submits a write and waits (virtio_disk_rw).
to_next_write ==
    /\ plan # <<>> /\ plan[1].op # "panic" /\ req = NOBUF
    /\ LET c == FoldLeft(Do, cache, SubSeq(plan, 1, Quiet))
           writes == IF Rest = <<>> THEN FALSE ELSE Rest[1].op = "bwrite"
       IN  \/ /\ ~writes
              /\ cache' = c /\ plan' = Rest
              /\ UNCHANGED req
           \/ /\ writes
              /\ cache' = [c EXCEPT !.buf[Last(c.held)].data = Rest[1].d, !.buf[Last(c.held)].dirty = FALSE]
              /\ plan' = Tail(Rest)
              /\ req' = Last(c.held)
    /\ UNCHANGED disk

\* The device writes the buffer; virtio_disk_intr lets the call go on.
virtio_disk_intr ==
    /\ req # NOBUF
    /\ disk' = [disk EXCEPT ![cache.buf[req].blockno] = cache.buf[req].data]
    /\ req' = NOBUF
    /\ UNCHANGED <<cache, plan>>

BioStep == to_next_write \/ virtio_disk_intr
=============================================================================
