--------------------------------- MODULE Fs ---------------------------------
(***************************************************************************)
(* The file system (fs.c, file.c and the system calls over them) on the     *)
(* buffer cache and the disk, with crashes.                                 *)
(*                                                                         *)
(* The unit of sizes and offsets is a block, and a block of the root        *)
(* directory holds one entry.  A system call computes on s: v is what the   *)
(* blocks hold, it the inode table, calls what it asks of the cache, ret    *)
(* its last result.  Memory changes when the call starts, the disk write by *)
(* write.  The references root_dir hands out are not counted: namei never   *)
(* gives its own back, so the entry of the root stays.                      *)
(***************************************************************************)
EXTENDS Bio, FiniteSets

CONSTANTS
    NAMES,        \* names of files
    NDIRECT,      \* direct block numbers of an inode
    NINODE,       \* entries of the inode table, the root's not counted
    NFILE,        \* FILEPOOLSIZE
    MAX_CRASH,    \* bound on crashes
    MAX_LATER     \* bound on the calls after the first crash

ASSUME FsAssumption ==
    NDIRECT \in Nat \ {0} /\ NINODE \in Nat /\ NFILE \in Nat /\ MAX_CRASH \in Nat /\ MAX_LATER \in Nat /\ SIZE >= 3

VARIABLES
    itable,       \* the in-memory inodes, by inode number
    files,        \* filepool
    op,           \* the system call under way
    crashes,      \* history: crashes so far
    later,        \* history: calls since the first crash
    cut           \* history: a crash has interrupted an O_TRUNC

fsVars == <<disk, cache, plan, req, itable, files, op, crashes, later, cut>>

Files == 1 .. NFILE
ROOTINO == 1
BMAP == 1
IBLOCK == 2
MAXFILE == NDIRECT + NINDIRECT

NoFile == [ref |-> 0, ip |-> 0, off |-> 0]
NoInode == [ref |-> 0, valid |-> FALSE, type |-> "", nlink |-> 0, size |-> 0, addrs |-> [k \in 1 .. NDIRECT + 1 |-> 0]]
Dinode(ip) == [type |-> ip.type, nlink |-> ip.nlink, size |-> ip.size, addrs |-> ip.addrs]
NewInode(type) == [type |-> type, nlink |-> 1, size |-> 0, addrs |-> [k \in 1 .. NDIRECT + 1 |-> 0]]

\* The image: the bit map, the inodes, and the root directory with one free entry.
mkfs ==
    [b \in Blocks |->
        CASE b = BMAP -> [Zero EXCEPT !.map = {BMAP, IBLOCK, 3}]
          [] b = IBLOCK -> [Zero EXCEPT !.ino = [i \in Inums |->
                               IF i = ROOTINO THEN [NewInode("DIR") EXCEPT !.size = 1, !.addrs[1] = 3] ELSE NewInode("")]]
          [] OTHER -> Zero]

\* The inode table after the boot: the root has been read.
Booted(d) ==
    [i \in Inums |-> IF i = ROOTINO
                     THEN LET r == d[IBLOCK].ino[i]
                          IN  [ref |-> 1, valid |-> TRUE, type |-> r.type, nlink |-> r.nlink, size |-> r.size, addrs |-> r.addrs]
                     ELSE NoInode]

----------------------------------------------------------------------------
(* Calls of the cache.  After a panic nothing more happens. *)

Ask(s, call) == IF s.panic THEN s ELSE [s EXCEPT !.calls = Append(@, call)]
Bread(s, b) == Ask(s, [op |-> "bread", b |-> b])
Brelse(s) == Ask(s, [op |-> "brelse"])
Bwrite(s, b, d) == [Ask(s, [op |-> "bwrite", d |-> d]) EXCEPT !.v[b] = d]
panic(s) == [Ask(s, [op |-> "panic"]) EXCEPT !.panic = TRUE]

\* Loops that read one block again and again are one bread and brelse.
Look(s, b) == Brelse(Bread(s, b))
Change(s, b, d) == Brelse(Bwrite(Bread(s, b), b, d))
Returns(s, r) == [s EXCEPT !.ret = r]

\* bzero, balloc, bfree
Unused(s) == {b \in Blocks : b \notin s.v[BMAP].map}
Marked(map, b) == map \cup {b}
balloc(s) ==
    IF Unused(s) = {} THEN Returns(panic(Look(s, BMAP)), 3)
    ELSE LET b == CHOOSE b \in Unused(s) : \A c \in Unused(s) : b <= c
             r == Change(s, BMAP, [s.v[BMAP] EXCEPT !.map = Marked(@, b)])
         IN  Returns(Change(r, b, Zero), b)

bfree(s, b) ==
    IF b = 0 THEN s
    ELSE IF b \notin s.v[BMAP].map THEN panic(Bread(s, BMAP))
    ELSE Change(s, BMAP, [s.v[BMAP] EXCEPT !.map = @ \ {b}])

----------------------------------------------------------------------------
(* Inodes *)

iupdate(s, i) == Change(s, IBLOCK, [s.v[IBLOCK] EXCEPT !.ino[i] = Dinode(s.it[i])])

iget(s, i) ==
    IF s.it[i].ref > 0 THEN [s EXCEPT !.it[i].ref = @ + 1]
    ELSE IF Cardinality({j \in Inums \ {ROOTINO} : s.it[j].ref > 0}) = NINODE THEN panic(s)
    ELSE [s EXCEPT !.it[i] = [NoInode EXCEPT !.ref = 1]]

ivalid(s, i) ==
    IF s.it[i].valid THEN s
    ELSE LET r == Look(s, IBLOCK)
             d == s.v[IBLOCK].ino[i]
             t == [r EXCEPT !.it[i] = [ref |-> @.ref, valid |-> TRUE, type |-> d.type, nlink |-> d.nlink,
                                       size |-> d.size, addrs |-> d.addrs]]
         IN  IF d.type = "" THEN panic(t) ELSE t

\* ialloc: the first inode whose type is 0.
ialloc(s) ==
    LET free == {i \in Inums : s.v[IBLOCK].ino[i].type = ""}
        i == CHOOSE i \in free : \A j \in free : i <= j
    IN  IF free = {} THEN Returns(panic(Look(s, IBLOCK)), ROOTINO)
        ELSE Returns(iget(Change(s, IBLOCK, [s.v[IBLOCK] EXCEPT !.ino[i] = NewInode("FILE")]), i), i)

itrunc(s, i) ==
    LET direct == FoldLeft(bfree, s, SubSeq(s.it[i].addrs, 1, NDIRECT))
        ind == s.it[i].addrs[NDIRECT + 1]
        all == IF ind = 0 THEN direct
               ELSE bfree(Brelse(FoldLeft(bfree, Bread(direct, ind), s.v[ind].ptr)), ind)
    IN  iupdate([all EXCEPT !.it[i].size = 0, !.it[i].addrs = NoInode.addrs], i)

\* iput: without links and other references the inode is freed.
LastUse_open(ip) == ip.valid /\ ip.nlink = 0        \* mutant: ref is not looked at
LastUse(ip) == ip.ref = 1 /\ ip.valid /\ ip.nlink = 0
Dropped(s, i) == [s EXCEPT !.it[i] = IF @.ref = 1 THEN NoInode ELSE [@ EXCEPT !.ref = @ - 1]]
Freed(s, i) == [iupdate([s EXCEPT !.it[i].type = ""], i) EXCEPT !.it[i].valid = FALSE]
iput(s, i) == Dropped(IF LastUse(s.it[i]) THEN Freed(itrunc(s, i), i) ELSE s, i)

\* bmap: the block, allocated when there is none.
Kept(s, i, k) == [s EXCEPT !.it[i].addrs[k] = s.ret]
Direct(s, i, k) ==
    IF s.it[i].addrs[k] # 0 THEN Returns(s, s.it[i].addrs[k]) ELSE Kept(balloc(s), i, k)
NewPtr(s, ind, j) == Returns(Brelse(Bwrite(s, ind, [s.v[ind] EXCEPT !.ptr[j] = s.ret])), s.ret)
Indirect(s, j) ==
    IF s.v[s.ret].ptr[j] # 0 THEN Returns(Look(s, s.ret), s.v[s.ret].ptr[j])
    ELSE NewPtr(balloc(Bread(s, s.ret)), s.ret, j)
bmap(s, i, bn) ==
    IF bn < NDIRECT THEN Direct(s, i, bn + 1) ELSE Indirect(Direct(s, i, NDIRECT + 1), bn - NDIRECT + 1)

\* readi of the block at off.
LookAt(s) == Look(s, s.ret)
readi(s, i, off) == LookAt(bmap(s, i, off))

\* writei of d at off; without copied the user's data could not be read, and the
\* buffer is changed but not written.
Grown(size, off) == IF off + 1 > size THEN off + 1 ELSE size
Stored_early(s, i, d, size) ==          \* mutant: the inode is written before the data
    Change(iupdate([s EXCEPT !.it[i].size = size], i), s.ret, d)
Stored(s, i, d, size) == iupdate([Change(s, s.ret, d) EXCEPT !.it[i].size = size], i)
Torn(s, i, d) == iupdate(Brelse(Ask(Bread(s, s.ret), [op |-> "scribble", d |-> d])), i)
writei(s, i, off, d, copied) ==
    IF off > s.it[i].size \/ off + 1 > MAXFILE THEN Returns(s, -1)
    ELSE IF copied THEN Returns(Stored(bmap(s, i, off), i, d, Grown(s.it[i].size, off)), 1)
    ELSE Returns(Torn(bmap(s, i, off), i, d), 0)

----------------------------------------------------------------------------
(* The root directory *)

\* Block k of the inode with these addrs, when the blocks hold v.
BlockOf(v, addrs, k) == IF k < NDIRECT THEN addrs[k + 1] ELSE v[addrs[NDIRECT + 1]].ptr[k - NDIRECT + 1]
Slots(s) == 0 .. s.it[ROOTINO].size - 1
Entry(s, k) == s.v[BlockOf(s.v, s.it[ROOTINO].addrs, k)]
Matches(s, name) == {k \in Slots(s) : Entry(s, k).inum # 0 /\ Entry(s, k).name = name}
FreeEntries(s) == {k \in Slots(s) : Entry(s, k).inum = 0}

\* The reads of the entries 0 .. n - 1.
ReadTo(s, n) == FoldLeft(LAMBDA r, k : readi(r, ROOTINO, k - 1), s, [k \in 1 .. n |-> k])

\* dirlookup: ret is the inode number, referenced, or 0.
Found(s, i) == Returns(iget(s, i), i)
dirlookup(s, name) ==
    LET at == Matches(s, name)
    IN  IF at = {} THEN Returns(ReadTo(s, s.it[ROOTINO].size), 0)
        ELSE Found(ReadTo(s, (CHOOSE k \in at : TRUE) + 1), Entry(s, CHOOSE k \in at : TRUE).inum)

\* dirlink: ret is -1 when the name is there.
EntryAt(s) == IF FreeEntries(s) = {} THEN s.it[ROOTINO].size
              ELSE CHOOSE k \in FreeEntries(s) : \A j \in FreeEntries(s) : k <= j
Written(s) == IF s.ret = -1 THEN panic(s) ELSE Returns(s, 0)
NewEntry(s, off, name, i) ==
    Written(writei(ReadTo(s, off), ROOTINO, off, [Zero EXCEPT !.name = name, !.inum = i], TRUE))
Linked(s, name, i) ==
    IF s.ret # 0 THEN Returns(iput(s, s.ret), -1) ELSE NewEntry(s, EntryAt(s), name, i)
dirlink(s, name, i) == Linked(dirlookup(s, name), name, i)

Cleared(s, k) == IF s.ret = 0 THEN Returns(s, -1) ELSE writei(iput(s, s.ret), ROOTINO, k, Zero, TRUE)
dirunlink(s, name) == Cleared(dirlookup(s, name), CHOOSE k \in Matches(s, name) : TRUE)

----------------------------------------------------------------------------
(* System calls *)

\* A call starts on what the cache and the disk hold.
View == [b \in Blocks |-> IF Cached(cache, b) # {} THEN cache.buf[CHOOSE k \in Cached(cache, b) : TRUE].data ELSE disk[b]]
Start == [v |-> View, it |-> itable, calls |-> <<>>, ret |-> 0, panic |-> FALSE]
AtRest == plan = <<>> /\ req = NOBUF

\* No call is under way; what follows an interrupted O_TRUNC is not explored.
Idle == AtRest /\ ~cut /\ later < MAX_LATER

Runs(name, s, fs) ==
    /\ plan' = s.calls /\ itable' = s.it /\ files' = fs
    /\ op' = IF s.calls = <<>> THEN "" ELSE name
    /\ later' = IF crashes = 0 THEN 0 ELSE later + 1
    /\ UNCHANGED <<disk, cache, req, crashes, cut>>

FreeFiles == {f \in Files : files[f].ref = 0}

Valid(s) == Returns(ivalid(s, s.ret), s.ret)

\* create: the inode of the name, new when there is none.
NewFile(s, name) == Returns(dirlink(iupdate(ivalid(s, s.ret), s.ret), name, s.ret), s.ret)
Created(s, name) == IF s.ret # 0 THEN Valid(s) ELSE NewFile(ialloc(s), name)
create(name) == Created(dirlookup(Start, name), name)

Existing(s) == IF s.ret = 0 THEN s ELSE Valid(s)
namei(name) == Existing(dirlookup(Start, name))

\* fileopen; with no free descriptor fileclose panics on the file's type.
Abandon_kept(s) == s                    \* mutant: the inode is not put back
Abandon(s) == iput(s, s.ret)
Modes == {[creat |-> FALSE, trunc |-> FALSE, hasfd |-> TRUE], [creat |-> TRUE, trunc |-> FALSE, hasfd |-> TRUE],
          [creat |-> TRUE, trunc |-> TRUE, hasfd |-> TRUE], [creat |-> TRUE, trunc |-> FALSE, hasfd |-> FALSE]}
fileopen(name, mode) ==
    /\ Idle
    /\ \E s \in {IF mode.creat THEN create(name) ELSE namei(name)} :
          \/ /\ s.ret = 0 /\ Runs("open", s, files)
          \/ /\ s.ret # 0 /\ FreeFiles = {}
             /\ Runs("open", Abandon(s), files)
          \/ /\ s.ret # 0 /\ FreeFiles # {} /\ ~mode.hasfd
             /\ Runs("open", panic(s), files)
          \/ /\ s.ret # 0 /\ FreeFiles # {} /\ mode.hasfd
             /\ Runs(IF mode.trunc THEN "trunc" ELSE "open", IF mode.trunc THEN itrunc(s, s.ret) ELSE s,
                     [files EXCEPT ![CHOOSE f \in FreeFiles : \A g \in FreeFiles : f <= g]
                                     = [ref |-> 1, ip |-> s.ret, off |-> 0]])

\* fileclose of the last reference (Pipe has the count of a shared file).
fileclose(f) ==
    /\ Idle /\ files[f].ref > 0
    /\ Runs("close", iput(Start, files[f].ip), [files EXCEPT ![f] = NoFile])

Data(i) == [Zero EXCEPT !.val = i]
inodewrite(f, copied) ==
    /\ Idle /\ files[f].ref > 0
    /\ \E s \in {writei(ivalid(Start, files[f].ip), files[f].ip, files[f].off, Data(files[f].ip), copied)} :
          Runs("write", s, IF s.ret > 0 THEN [files EXCEPT ![f].off = @ + 1] ELSE files)

inoderead(f) ==
    /\ Idle /\ files[f].ref > 0
    /\ \E s \in {ivalid(Start, files[f].ip)} :
          IF files[f].off >= s.it[files[f].ip].size THEN Runs("read", s, files)
          ELSE Runs("read", readi(s, files[f].ip, files[f].off), [files EXCEPT ![f].off = @ + 1])

CountUp(s, i) == iupdate([s EXCEPT !.it[i].nlink = @ + 1], i)
Undone(s, i) == IF s.ret < 0 THEN iupdate([s EXCEPT !.it[i].nlink = @ - 1], i) ELSE s
sys_linkat(old, new) ==
    /\ Idle /\ old # new
    /\ \E s \in {namei(old)} :
          Runs("link", IF s.ret = 0 THEN s
                       ELSE iput(Undone(dirlink(CountUp(s, s.ret), new, s.ret), s.ret), s.ret), files)

\* The entry is cleared before the count goes down.
Fewer(n) == n - 1
CountDown(s, i) == iupdate([s EXCEPT !.it[i].nlink = Fewer(@)], i)
Unlinked_late(s, name, i) == dirunlink(CountDown(s, i), name)      \* mutant: the other order
Unlinked(s, name, i) == CountDown(dirunlink(s, name), i)
sys_unlinkat(name) ==
    /\ Idle
    /\ \E s \in {namei(name)} :
          Runs("unlink", IF s.ret = 0 THEN s ELSE iput(Unlinked(s, name, s.ret), s.ret), files)

\* The machine stops, or has panicked, and boots again.
crash ==
    /\ crashes < MAX_CRASH
    /\ cache' = EmptyCache /\ plan' = <<>> /\ req' = NOBUF
    /\ itable' = Booted(disk) /\ files' = [f \in Files |-> NoFile]
    /\ op' = ""
    /\ crashes' = crashes + 1
    /\ cut' = (cut \/ op = "trunc")
    /\ UNCHANGED <<disk, later>>

\* The call goes on; it has returned when nothing is left.
kernel_runs ==
    /\ BioStep
    /\ op' = IF plan' = <<>> /\ req' = NOBUF THEN "" ELSE op
    /\ UNCHANGED <<itable, files, crashes, later, cut>>

----------------------------------------------------------------------------
Init ==
    /\ disk = mkfs
    /\ cache = EmptyCache /\ plan = <<>> /\ req = NOBUF
    /\ itable = Booted(mkfs)
    /\ files = [f \in Files |-> NoFile]
    /\ op = "" /\ crashes = 0 /\ later = 0 /\ cut = FALSE

Next ==
    \/ \E n \in NAMES, m \in Modes : fileopen(n, m)
    \/ \E f \in Files : fileclose(f) \/ inoderead(f) \/ \E ok \in BOOLEAN : inodewrite(f, ok)
    \/ \E a, b \in NAMES : sys_linkat(a, b)
    \/ \E n \in NAMES : sys_unlinkat(n)
    \/ crash \/ kernel_runs

Spec == Init /\ [][Next]_fsVars
=============================================================================
