------------------------------ MODULE FsProps -------------------------------
(***************************************************************************)
(* What the file system, the buffer cache and the disk promise together.    *)
(***************************************************************************)
EXTENDS Fs

\* TypeOK: buffers, inode table, open files and the call under way keep their types.
TypeOK ==
    /\ \A k \in Bufs : cache.buf[k].blockno \in 0 .. SIZE /\ cache.buf[k].refcnt \in 0 .. NBUF
    /\ ToSet(cache.lru) = Bufs /\ req \in 0 .. NBUF
    /\ \A i \in Inums : itable[i].ref \in Nat /\ itable[i].nlink \in Nat /\ itable[i].size \in 0 .. MAXFILE
    /\ \A f \in Files : files[f].ref \in 0 .. 1 /\ files[f].off \in 0 .. MAXFILE
    /\ op \in {"", "open", "trunc", "close", "write", "read", "link", "unlink"}
    /\ crashes \in 0 .. MAX_CRASH /\ later \in 0 .. MAX_LATER /\ cut \in BOOLEAN

----------------------------------------------------------------------------
(* What the disk says, without what is cached *)

D == [v |-> disk, it |-> Booted(disk)]
ino(i) == disk[IBLOCK].ino[i]
\* The blocks of inode i, the indirect one included, by position.
Addrs(i) ==
    LET a == ino(i).addrs
        p == IF a[NDIRECT + 1] = 0 THEN <<>> ELSE disk[a[NDIRECT + 1]].ptr
    IN  SelectSeq(a \o p, LAMBDA b : b # 0)
EntryNums(i) == {k \in Slots(D) : Entry(D, k).inum = i}
Named == {ROOTINO} \cup {Entry(D, k).inum : k \in {j \in Slots(D) : Entry(D, j).inum # 0}}
Open == {i \in Inums \ {ROOTINO} : itable[i].ref > 0}

\* CacheCoherent: a block is in one buffer at most, and the buffer holds what the
\* disk holds unless the disk owns it or writei has left it changed after a failing
\* copyin; so no call reads a block older than the last bwrite of it.
CacheCoherent ==
    /\ \A j, k \in Bufs : j # k /\ cache.buf[j].blockno # 0 => cache.buf[j].blockno # cache.buf[k].blockno
    /\ \A k \in Bufs : cache.buf[k].valid /\ ~cache.buf[k].dirty /\ k # req
          => cache.buf[k].data = disk[cache.buf[k].blockno]

\* BuffersReleased: a buffer is counted as often as the call holds it, so that when
\* the call returns every buffer can be recycled, on all of its error paths, and
\* no more than two are held at a time, so that bget always finds one.
BuffersReleased ==
    /\ \A k \in Bufs : cache.buf[k].refcnt = Cardinality({n \in DOMAIN cache.held : cache.held[n] = k})
    /\ AtRest => cache.held = <<>>
    /\ Len(cache.held) <= 2

\* CacheTrue: the cache has one copy of a block, it is the newest, and its buffers
\* come back (bget, brelse, bwrite, virtio_disk_intr).
CacheTrue == TypeOK /\ CacheCoherent /\ BuffersReleased

\* EntriesAllocated: whatever write a crash interrupts, a name in the root directory
\* leads to an inode in use that counts at least the names it has: link counts before
\* it adds the name, unlink removes the name before it counts.
EntriesAllocated ==
    \A i \in Named \ {ROOTINO} : ino(i).type = "FILE" /\ ino(i).nlink >= Cardinality(EntryNums(i))

Disjoint ==
    /\ \A i \in Named : ToSet(Addrs(i)) \subseteq disk[BMAP].map
    /\ \A i, j \in Named : i # j => ToSet(Addrs(i)) \cap ToSet(Addrs(j)) = {}
    /\ \A i \in Named : Len(Addrs(i)) = Cardinality(ToSet(Addrs(i)))

\* BlocksOwned: on the disk, the blocks of files with a name are in use and belong to
\* one of them only, after every single write and every crash, except while an O_TRUNC
\* gives its blocks back before it writes the inode, or after a crash in that time.
BlocksOwned == cut \/ op = "trunc" \/ Disjoint

\* DiskSound: what the next boot would find is sound after every single write: names
\* lead to inodes in use, and their blocks to one file each (but for O_TRUNC).
DiskSound == EntriesAllocated /\ BlocksOwned

\* CrashSafe: after the boot that follows any crash, the blocks of files with a name
\* are in use and belong to one of them only (the head of fs.c names a log for the
\* crash recovery of multi-step updates).
CrashSafe == AtRest => Disjoint

\* OpenFilesKept: between two calls an open file keeps its inode and its blocks, also
\* when its last name is gone, and the copy in memory is the one on the disk.
OpenFilesKept ==
    AtRest /\ ~cut =>
        /\ \A f \in Files : files[f].ref > 0 => itable[files[f].ip].ref > 0
        /\ \A i \in Open : /\ ino(i).type = "FILE"
                           /\ itable[i].valid => Dinode(itable[i]) = ino(i)
                           /\ ToSet(Addrs(i)) \subseteq disk[BMAP].map

\* NothingLeaks: without a crash, between two calls every inode in use has a name or
\* is open, its count is the number of its names, and every block in use belongs to
\* one: no sequence of opens, links, unlinks and closes loses an inode or a block.
NothingLeaks ==
    AtRest /\ crashes = 0 =>
        /\ \A i \in Inums : ino(i).type # "" => i \in Named \cup Open
        /\ \A i \in Named \ {ROOTINO} : ino(i).nlink = Cardinality(EntryNums(i))
        /\ disk[BMAP].map = {BMAP, IBLOCK} \cup UNION {ToSet(Addrs(i)) : i \in Named \cup Open}
        /\ \A i \in Inums : itable[i].ref = IF i = ROOTINO THEN 1
                                            ELSE Cardinality({f \in Files : files[f].ref > 0 /\ files[f].ip = i})

\* OwnData: what a file with a name holds within its size was written through that
\* very file, never zeroed by or written for another, across unlinks and crashes.
OwnData ==
    cut \/ op = "trunc" \/
    \A i \in Named \ {ROOTINO} : \A k \in 0 .. ino(i).size - 1 : disk[BlockOf(disk, ino(i).addrs, k)].val = i
=============================================================================
