------------------------------ MODULE NetProps ------------------------------
(***************************************************************************)
(* What the layers below TCP promise.                                      *)
(***************************************************************************)
EXTENDS Net

\* TypeOK: ring positions, queues, cache and sockets keep their ranges.
TypeOK ==
    /\ rx.ring \in [Descs -> Descs] /\ rx.avail \in Descs /\ rx.last = rx.avail
    /\ tx.free \subseteq Descs /\ Len(rx.done) <= QSIZE /\ Len(tx.wait) + Len(tx.done) <= QSIZE
    /\ \A p \in {"ARP", "IP"} : queue[p].items \in Seq(Arrivals) /\ queue[p].tail \in {"ok", "cut", "off"}
    /\ pending \in BOOLEAN
    /\ cpu.at \in {"out", "poll", "softirq", "unlink"} /\ cpu.id \in Pcbs \cup {NOID}
    /\ pages \in 0 .. NPAGES /\ lost \in 0 .. NPAGES
    /\ \A k \in Slots : arp.cache[k].state \in {"FREE", "INCOMPLETE", "RESOLVED"}
    /\ ToSet(arp.order) = {k \in Slots : arp.cache[k].state # "FREE"}

\* ReceiveBuffersDisjoint: the device is never given a receive buffer twice, nor
\* one that holds a packet virtio_net_intr has not read, even when the interrupt
\* finds no page for a frame and skips virtio_net_read.
ReceiveBuffersDisjoint ==
    LET ids == [k \in DOMAIN rx.done |-> rx.done[k].id] \o [k \in DOMAIN Given(rx) |-> rx.ring[Given(rx)[k]]]
    IN  \A j, k \in DOMAIN ids : j # k => ids[j] # ids[k]

\* SendBuffersDisjoint: a descriptor handed to the device is not free and is handed
\* over once until the interrupt has reclaimed it: a burst of frames at a full ring
\* is dropped, never overwrites a frame not yet sent (virtio_net_write), and
\* virtq_free_desc never panics.
SendBuffersDisjoint ==
    LET ids == tx.done \o [k \in DOMAIN tx.wait |-> tx.wait[k].id]
    IN  \A j \in DOMAIN ids : ids[j] \notin tx.free /\ \A k \in DOMAIN ids : j # k => ids[j] # ids[k]

\* RingsTrue: no buffer is in two hands, the device's and the driver's or twice the
\* device's, at full and empty rings and when memory runs out.
RingsTrue == TypeOK /\ ReceiveBuffersDisjoint /\ SendBuffersDisjoint

Queued(p) == Len(queue[p].items)
UdpQueued[i \in 0 .. UDP_PCBS] == IF i = 0 THEN 0 ELSE Len(udp[i - 1].queue) + UdpQueued[i - 1]

\* PagesAccounted: every page is free, held by the caller, or belongs to one packet in a protocol
\* queue, in hand or in a socket's queue, or was lost by the unlocked queue_pop or
\* by udp_input without memory: nothing else leaks a page or frees it twice.
PagesAccounted ==
    pages + Held + lost + 2 * (Queued("ARP") + Queued("IP") + UdpQueued[UDP_PCBS])
          + (IF cpu.at = "unlink" THEN 2 ELSE 0) = NPAGES

\* NoLostPacket: a packet in a protocol queue is announced by net_pending or the
\* handler that runs will still come to it: no interrupt between the test, the
\* clearing of the bit and the drained queues leaves it forgotten.
NoLostPacket ==
    \A p \in {"ARP", "IP"} : queue[p].items # <<>> =>
        \/ pending
        \/ cpu.at \in {"softirq", "unlink"} /\ (cpu.proto = p \/ p = "IP")

\* PacketsKept: a packet between the interrupt and its handler is neither forgotten
\* nor counted twice, whatever the interrupt interrupts.
PacketsKept == PagesAccounted /\ NoLostPacket

\* OneCacheEntry: an address has at most one ARP entry, so an update never leaves
\* a stale entry that arp_cache_select would find first.
OneCacheEntry ==
    \A j, k \in Slots : j # k /\ arp.cache[j].state # "FREE" /\ arp.cache[k].state # "FREE"
        => arp.cache[j].pa # arp.cache[k].pa

\* RightHop: an address has one cache entry, and a frame the device has yet to send goes to its destination when that
\* is on the network and to the gateway otherwise, never to the host an evicted or
\* expired cache entry belonged to.
RightHop ==
    /\ OneCacheEntry
    /\ \A k \in DOMAIN tx.wait : LET f == tx.wait[k].frame IN
          f.ha = Broadcast \/ f.ha = IF f.dst \in NEAR THEN f.dst ELSE GW

\* OwnDatagrams: a socket's queue holds only datagrams for its own port, and no
\* two open sockets have the same port: a datagram of a closed socket is never
\* returned by the next owner of its block (udp_pcb_release).
OwnDatagrams ==
    /\ \A i \in Pcbs : \A k \in 1 .. Len(udp[i].queue) : udp[i].open /\ udp[i].queue[k] = udp[i].port
    /\ \A i, j \in Pcbs : i # j /\ udp[i].open /\ udp[j].open /\ udp[i].port # 0 => udp[i].port # udp[j].port
=============================================================================
