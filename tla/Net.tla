-------------------------------- MODULE Net --------------------------------
(***************************************************************************)
(* The network stack below TCP: the virtio-net driver and its rings, the    *)
(* protocol queues filled in interrupts and drained by the polling loop of  *)
(* sched_sleep, ARP, IP routing, ICMP echo and UDP sockets.                 *)
(*                                                                         *)
(* Interrupts are on in user mode and in the polling loop, the softirq      *)
(* handler included, so virtio_net_intr may come between any two actions.   *)
(* What runs with interrupts off, or touches nothing an interrupt touches,  *)
(* is one action; queue_pop is two, because the queue is shared with the    *)
(* interrupt and has no lock.  kalloc and kfree are atomic here (Vm models *)
(* what they hand out); pages counts the free pages.                      *)
(*                                                                         *)
(* A packet is its protocol, who sent it and what it asks for; the hardware *)
(* address of a host is the host itself.                                    *)
(***************************************************************************)
EXTENDS Integers, Sequences, FiniteSets, SequencesExt

CONSTANTS
    ME, GW,       \* this host and the default gateway (virtio_net_init)
    NEAR, FAR,    \* other hosts of the network, hosts behind the gateway
    TALKERS,      \* hosts of the network that send requests to this one
    QSIZE,        \* descriptors of a ring
    ARP_CACHE,    \* size of the ARP cache
    UDP_PCBS,     \* UDP_PCB_SIZE
    PORTS,        \* ports a caller binds and remote hosts send to
    DYNAMIC,      \* UDP_SOURCE_PORT_MIN .. UDP_SOURCE_PORT_MAX
    NPAGES,       \* pages of the kernel
    MAX_RX        \* bound on received packets

ASSUME NetAssumption ==
    /\ QSIZE \in Nat \ {0} /\ MAX_RX \in Nat
    /\ ARP_CACHE \in Nat \ {0} /\ UDP_PCBS \in Nat \ {0} /\ NPAGES \in Nat
    /\ GW \in NEAR /\ TALKERS \subseteq NEAR /\ ME \notin NEAR \cup FAR /\ 0 \notin PORTS \cup DYNAMIC
    /\ "none" \notin NEAR      \* NONE stands for no host

VARIABLES
    rx, tx,       \* rx_q and tx_q with the device's side of them
    queue,        \* the queue of each protocol
    pending,      \* INTR_IRQ_SOFTIRQ of net_pending
    cpu,          \* where the polling caller is
    arp,          \* caches, and its entries from the oldest to the newest
    udp,          \* pcbs
    pages,        \* free pages
    lost          \* history: pages leaked, those of unreachable queue entries included

netVars == <<rx, tx, queue, pending, cpu, arp, udp, pages, lost>>

Descs == 0 .. QSIZE - 1
Slots == 1 .. ARP_CACHE
Pcbs == 0 .. UDP_PCBS - 1
NONE == "none"
NOID == -1

Out == [at |-> "out", proto |-> NONE, entry |-> NONE, last |-> FALSE, id |-> NOID]

\* What arrives: the gateway's answers, other hosts' requests for this host or for
\* the gateway, echo requests from near and far, datagrams, other protocols.
Arrivals ==
    [proto : {"ARP"}, op : {"reply"}, src : {GW}, dst : {ME}, port : {0}]
    \cup [proto : {"ARP"}, op : {"request"}, src : TALKERS, dst : {ME, GW}, port : {0}]
    \cup [proto : {"IP"}, op : {"echo"}, src : TALKERS \cup FAR, dst : {ME}, port : {0}]
    \cup [proto : {"IP"}, op : {"udp"}, src : {GW}, dst : {ME}, port : PORTS]
    \cup [proto : {"other"}, op : {"none"}, src : {GW}, dst : {ME}, port : {0}]

----------------------------------------------------------------------------
(* The rings, as long as fewer than 2^16 frames go through one: last_used_idx *)
(* is an int and used->idx a uint16, so the loops of virtio_net_intr would no  *)
(* longer end.  Positions are kept modulo QSIZE; done holds the used entries   *)
(* the interrupt has not seen, wait the frames the device has not sent.       *)

\* virtq_init and virtio_net_open: all receive buffers are the device's.
RxOpen == [ring |-> [k \in Descs |-> k], avail |-> 0, last |-> 0, done |-> <<>>, count |-> 0]
TxOpen == [free |-> Descs, wait |-> <<>>, done |-> <<>>]

\* The slots whose buffers the device still has, from the next one it fills.
Given(r) == [k \in 1 .. QSIZE - Len(r.done) |-> (r.last + Len(r.done) + k - 1) % QSIZE]

\* The device fills the next buffer it was given.
device_receive(pkt) ==
    /\ Given(rx) # <<>> /\ rx.count < MAX_RX
    /\ rx' = [rx EXCEPT !.count = @ + 1,
                        !.done = Append(@, [id |-> rx.ring[Head(Given(rx))], pkt |-> pkt])]
    /\ UNCHANGED <<tx, queue, pending, cpu, arp, udp, pages, lost>>

\* The device sends the next frame it was given.
device_send ==
    /\ tx.wait # <<>>
    /\ tx' = [tx EXCEPT !.wait = Tail(@), !.done = Append(@, Head(tx.wait).id)]
    /\ UNCHANGED <<rx, queue, pending, cpu, arp, udp, pages, lost>>

\* virtq_alloc_desc: the first free descriptor.
FreeDesc(t) == {d \in t.free : \A e \in t.free : d <= e}

\* net_device_output, ether_transmit_helper, virtio_net_write: a frame to a host
\* in ring t, with n free pages; without a page or a descriptor it is dropped.
virtio_net_write(t, frame, n) ==
    IF n = 0 \/ FreeDesc(t) = {} THEN t
    ELSE LET d == CHOOSE d \in FreeDesc(t) : TRUE
         IN  [t EXCEPT !.free = @ \ {d}, !.wait = Append(@, [id |-> d, frame |-> frame])]

----------------------------------------------------------------------------
(* Protocol queues.  items is what is reachable from head; tail is "ok" when  *)
(* it is the last of them (or 0 with no items), "cut" when it is 0 although   *)
(* there are items, "off" when it leads to entries that are not reachable.   *)

Empty == [items |-> <<>>, tail |-> "ok"]

\* queue_push; the entry of a queue whose tail is not the last item is lost.
queue_push(q, e) ==
    IF q.tail = "ok" \/ q.items = <<>> THEN [items |-> Append(q.items, e), tail |-> "ok"]
    ELSE [q EXCEPT !.tail = "off"]

\* net_input_handler: two pages, or nothing is queued; the bit is raised.
net_input_handler(s, pkt) ==
    IF pkt.proto \notin {"ARP", "IP"} \/ s.pages < 2 THEN s
    ELSE [s EXCEPT !.q[pkt.proto] = queue_push(@, pkt), !.pages = @ - 2, !.raised = TRUE,
                   !.lost = IF queue_push(s.q[pkt.proto], pkt).tail = "ok" THEN @ ELSE @ + 2]

\* virtio_net_read copies the frame and puts its buffer into the slot of avail.
Recycled_first(s) == rx.done[1].id      \* mutant: last_used_idx is read once
Recycled(s) == Head(s.rx.done).id
virtio_net_read(s) == [s EXCEPT !.rx.ring[s.rx.avail] = Recycled(s)]

\* ether_input_helper: the frame takes a page meanwhile; without one the buffer is
\* not even read, and its slot keeps what it holds.
ether_input_helper(s, pkt) ==
    IF s.pages = 0 THEN s
    ELSE LET r == net_input_handler([virtio_net_read(s) EXCEPT !.pages = @ - 1], pkt)
         IN  [r EXCEPT !.pages = @ + 1]

\* One turn of the loop over the received packets.
TakeOne(s, pkt) ==
    LET r == ether_input_helper(s, pkt) IN [r EXCEPT !.rx.avail = (@ + 1) % QSIZE, !.rx.last = (@ + 1) % QSIZE, !.rx.done = Tail(@)]

virtio_net_intr ==
    /\ rx.done # <<>> \/ tx.done # <<>>
    /\ LET got == [k \in 1 .. Len(rx.done) |-> rx.done[k].pkt]
           s == FoldLeft(TakeOne, [rx |-> rx, q |-> queue, pages |-> pages, lost |-> lost, raised |-> pending], got)
       IN  /\ rx' = s.rx /\ queue' = s.q /\ pages' = s.pages /\ lost' = s.lost /\ pending' = s.raised
           /\ tx' = [tx EXCEPT !.done = <<>>, !.free = @ \cup ToSet(tx.done)]
    /\ UNCHANGED <<cpu, arp, udp>>

----------------------------------------------------------------------------
(* ARP *)

NoEntry == [state |-> "FREE", pa |-> NONE, ha |-> NONE]
Bound(a, p) == {k \in Slots : a.cache[k].state # "FREE" /\ a.cache[k].pa = p}
FreeSlots(a) == {k \in Slots : a.cache[k].state = "FREE"}

\* arp_cache_alloc: the first free entry, otherwise the oldest one.
arp_cache_alloc(a) ==
    IF FreeSlots(a) # {} THEN CHOOSE k \in FreeSlots(a) : \A j \in FreeSlots(a) : k <= j
    ELSE Head(a.order)

Newest(order, k) == Append(RemoveFirst(order, k), k)
Stored(a, k, e) == [cache |-> [a.cache EXCEPT ![k] = e], order |-> Newest(a.order, k)]

\* arp_cache_update and, for a packet to this host, arp_cache_insert.
Learn(a, p, tome) ==
    LET e == [state |-> "RESOLVED", pa |-> p, ha |-> p]
    IN  IF Bound(a, p) # {} THEN Stored(a, CHOOSE k \in Bound(a, p) : TRUE, e)
        ELSE IF tome THEN Stored(a, arp_cache_alloc(a), e)
        ELSE a

Frame(dst, ha) == [dst |-> dst, ha |-> ha]
Broadcast == "broadcast"

\* arp_input: learn, then answer a request for this host.
arp_input(pkt, n) ==
    /\ arp' = Learn(arp, pkt.src, pkt.dst = ME)
    /\ tx' = IF pkt.dst = ME /\ pkt.op = "request"
             THEN virtio_net_write(tx, Frame(pkt.src, pkt.src), n) ELSE tx

\* arp_timer_handler: the oldest entries are past ARP_CACHE_TIMEOUT.
arp_timer_handler ==
    /\ cpu.at = "poll"
    /\ \E n \in 1 .. Len(arp.order) :
          arp' = [cache |-> [k \in Slots |-> IF k \in ToSet(SubSeq(arp.order, 1, n)) THEN NoEntry
                                             ELSE arp.cache[k]],
                  order |-> SubSeq(arp.order, n + 1, Len(arp.order))]
    /\ UNCHANGED <<rx, tx, queue, pending, cpu, udp, pages, lost>>

----------------------------------------------------------------------------
(* IP.  The routes are those virtio_net_init adds: the network itself, and   *)
(* the default route.                                                       *)

Routes == {[to |-> NEAR \cup {ME}, netmask |-> 24, nexthop |-> NONE],
           [to |-> NEAR \cup FAR \cup {ME}, netmask |-> 0, nexthop |-> GW]}
ip_route_lookup_any(dst) ==     \* mutant: the shortest mask wins
    CHOOSE r \in Routes : dst \in r.to /\ \A s \in Routes : dst \in s.to => r.netmask <= s.netmask
ip_route_lookup(dst) ==
    CHOOSE r \in Routes : dst \in r.to /\ \A s \in Routes : dst \in s.to => r.netmask >= s.netmask
NextHop(dst) == LET r == ip_route_lookup(dst) IN IF r.nexthop = NONE THEN dst ELSE r.nexthop

\* arp_resolve of a host that is not resolved: [arp, tx] after the request.
Resolved(a, hop) == {k \in Bound(a, hop) : a.cache[k].state = "RESOLVED"}
arp_resolve(a, t, hop, n) ==
    [arp |-> IF Bound(a, hop) # {} THEN a
             ELSE Stored(a, arp_cache_alloc(a), [state |-> "INCOMPLETE", pa |-> hop, ha |-> NONE]),
     tx |-> virtio_net_write(t, Frame(hop, Broadcast), n)]

\* ip_output: [arp, tx] after a packet to dst with n free pages.  The packet is
\* sent, or dropped with an ARP request in its place.
ip_output(a, t, dst, n) ==
    LET hit == Resolved(a, NextHop(dst))
    IN  IF n = 0 THEN [arp |-> a, tx |-> t]
        ELSE IF hit = {} THEN arp_resolve(a, t, NextHop(dst), n - 1)
        ELSE [arp |-> a, tx |-> virtio_net_write(t, Frame(dst, a.cache[CHOOSE k \in hit : TRUE].ha), n - 1)]

----------------------------------------------------------------------------
(* UDP *)

Closed == [open |-> FALSE, port |-> 0, queue |-> <<>>]

\* udp_pcb_select: the first open block with the port.
udp_pcb_select(port) ==
    {i \in Pcbs : /\ udp[i].open /\ udp[i].port = port
                  /\ \A j \in Pcbs : j < i => ~(udp[j].open /\ udp[j].port = port)}

----------------------------------------------------------------------------
(* The polling loop of sched_sleep *)

\* icmp_input: the echo reply, composed in a page, with n free pages.
icmp_input(pkt, n) ==
    LET r == IF n = 0 THEN [arp |-> arp, tx |-> tx] ELSE ip_output(arp, tx, pkt.src, n - 1)
    IN  arp' = r.arp /\ tx' = r.tx /\ pages' = n + 1 /\ UNCHANGED udp

\* udp_input: two pages for the entry in the socket's queue; with one, the entry
\* is not freed when queue_push fails.
udp_input(pkt, n, gone) ==
    /\ \/ /\ udp_pcb_select(pkt.port) = {} \/ n = 0
          /\ pages' = n + 1 /\ lost' = gone
          /\ UNCHANGED udp
       \/ /\ udp_pcb_select(pkt.port) # {} /\ n = 1
          /\ pages' = n /\ lost' = gone + 1
          /\ UNCHANGED udp
       \/ /\ n > 1
          /\ \E i \in udp_pcb_select(pkt.port) : udp' = [udp EXCEPT ![i].queue = Append(@, pkt.port)]
          /\ pages' = n - 1 /\ lost' = gone
    /\ UNCHANGED <<arp, tx>>

\* ip_input: the packet goes to its protocol.
ip_input(pkt, n, gone) ==
    \/ pkt.op = "echo" /\ icmp_input(pkt, n) /\ lost' = gone
    \/ pkt.op = "udp" /\ udp_input(pkt, n, gone)

\* sched_sleep clears the bit before the queues are looked at.
net_softirq_handler ==
    /\ cpu.at = "poll" /\ pending
    /\ cpu' = [cpu EXCEPT !.at = "softirq", !.proto = "ARP"]
    /\ pending' = FALSE
    /\ UNCHANGED <<rx, tx, queue, arp, udp, pages, lost>>

\* A queue is empty: the next protocol, or the end of the handler.
queue_drained_clear ==          \* mutant: the bit is cleared when the queues are drained
    /\ cpu.at = "softirq"
    /\ queue[cpu.proto].items = <<>>
    /\ cpu' = IF cpu.proto = "ARP" THEN [cpu EXCEPT !.proto = "IP"] ELSE [cpu EXCEPT !.at = "poll", !.proto = NONE]
    /\ pending' = FALSE
    /\ UNCHANGED <<rx, tx, queue, arp, udp, pages, lost>>
queue_drained ==
    /\ cpu.at = "softirq"
    /\ queue[cpu.proto].items = <<>>
    /\ cpu' = IF cpu.proto = "ARP" THEN [cpu EXCEPT !.proto = "IP"] ELSE [cpu EXCEPT !.at = "poll", !.proto = NONE]
    /\ UNCHANGED <<rx, tx, queue, pending, arp, udp, pages, lost>>

\* queue_pop up to the reading of entry->next.
queue_pop ==
    /\ cpu.at = "softirq"
    /\ queue[cpu.proto].items # <<>>
    /\ cpu' = [cpu EXCEPT !.at = "unlink", !.entry = Head(queue[cpu.proto].items),
                          !.last = Len(queue[cpu.proto].items) = 1]
    /\ queue' = [queue EXCEPT ![cpu.proto].items = Tail(@)]
    /\ UNCHANGED <<rx, tx, pending, arp, udp, pages, lost>>

\* The rest of queue_pop.  When the entry was the last and the interrupt pushed
\* more since, head and tail are written over what it did, or tail alone
\* is, or head is read again and found set.
Unlinked(q) ==
    IF q.items # <<>> /\ cpu.last THEN {Empty, [q EXCEPT !.tail = "cut"], q}
    ELSE IF q.items = <<>> THEN {Empty} ELSE {q}

\* Then the handler of the packet, whose entry is freed when it is done.
queue_popped ==
    /\ cpu.at = "unlink"
    /\ cpu' = [cpu EXCEPT !.at = "softirq", !.entry = NONE, !.last = FALSE]
    /\ \E q \in Unlinked(queue[cpu.proto]) :
          LET n == pages + 1
              gone == lost + 2 * (Len(queue[cpu.proto].items) - Len(q.items))
          IN  /\ queue' = [queue EXCEPT ![cpu.proto] = q]
              /\ \/ cpu.proto = "ARP" /\ arp_input(cpu.entry, n) /\ pages' = n + 1 /\ lost' = gone /\ UNCHANGED udp
                 \/ cpu.proto = "IP" /\ ip_input(cpu.entry, n, gone)
    /\ UNCHANGED <<rx, pending>>

----------------------------------------------------------------------------
(* Callers.  A TCP call that waits polls in the same loop, while its caller     *)
(* http_execute holds two pages.                                              *)

Idle == cpu.at = "out"
Held == IF cpu.at # "out" /\ cpu.id = NOID THEN 2 ELSE 0

http_polls ==
    /\ Idle /\ pages >= 2
    /\ cpu' = [Out EXCEPT !.at = "poll"]
    /\ pages' = pages - 2
    /\ UNCHANGED <<rx, tx, queue, pending, arp, udp, lost>>

http_returns ==
    /\ cpu.at = "poll" /\ cpu.id = NOID
    /\ cpu' = Out
    /\ pages' = pages + 2
    /\ UNCHANGED <<rx, tx, queue, pending, arp, udp, lost>>

udp_open ==
    /\ Idle
    /\ \E i \in Pcbs : /\ ~udp[i].open /\ \A j \in Pcbs : j < i => udp[j].open
                       /\ udp' = [udp EXCEPT ![i].open = TRUE]
    /\ UNCHANGED <<rx, tx, queue, pending, cpu, arp, pages, lost>>

\* Refused when the port is in use; callers bind a socket once.
InUse(port) == udp_pcb_select(port) # {}
udp_bind(i, port) ==
    /\ Idle /\ udp[i].open /\ udp[i].port = 0 /\ ~InUse(port)
    /\ udp' = [udp EXCEPT ![i].port = port]
    /\ UNCHANGED <<rx, tx, queue, pending, cpu, arp, pages, lost>>

\* The port is the bound one or the first free dynamic one; then udp_output.
SourcePort(i) ==
    IF udp[i].port # 0 THEN {udp[i].port}
    ELSE {p \in DYNAMIC : ~InUse(p) /\ \A d \in DYNAMIC : d < p => InUse(d)}
udp_output(dst) == IF pages = 0 THEN [arp |-> arp, tx |-> tx] ELSE ip_output(arp, tx, dst, pages - 1)
udp_sendto(i, dst) ==
    /\ Idle /\ udp[i].open
    /\ \E p \in SourcePort(i) : udp' = [udp EXCEPT ![i].port = p]
    /\ arp' = udp_output(dst).arp /\ tx' = udp_output(dst).tx
    /\ UNCHANGED <<rx, queue, pending, cpu, pages, lost>>

udp_recvfrom(i) ==
    /\ Idle /\ udp[i].open
    /\ \/ /\ udp[i].queue = <<>>
          /\ cpu' = [Out EXCEPT !.at = "poll", !.id = i]
          /\ UNCHANGED <<udp, pages>>
       \/ /\ udp[i].queue # <<>>
          /\ udp' = [udp EXCEPT ![i].queue = Tail(@)]
          /\ pages' = pages + 2
          /\ UNCHANGED cpu
    /\ UNCHANGED <<rx, tx, queue, pending, arp, lost>>

recvfrom_resume ==
    /\ cpu.at = "poll" /\ cpu.id # NOID
    /\ udp[cpu.id].queue # <<>>
    /\ udp' = [udp EXCEPT ![cpu.id].queue = Tail(@)]
    /\ pages' = pages + 2
    /\ cpu' = Out
    /\ UNCHANGED <<rx, tx, queue, pending, arp, lost>>

\* udp_pcb_release: the queue is emptied.
Discarded_kept(i) == [Closed EXCEPT !.queue = udp[i].queue]    \* mutant: the queue is kept
Discarded(i) == Closed
udp_close(i) ==
    /\ Idle /\ udp[i].open
    /\ udp' = [udp EXCEPT ![i] = Discarded(i)]
    /\ pages' = pages + 2 * Len(udp[i].queue)
    /\ UNCHANGED <<rx, tx, queue, pending, cpu, arp, lost>>

----------------------------------------------------------------------------
Init ==
    /\ rx = RxOpen /\ tx = TxOpen
    /\ queue = [p \in {"ARP", "IP"} |-> Empty]
    /\ pending = FALSE
    /\ cpu = Out
    /\ arp = [cache |-> [k \in Slots |-> NoEntry], order |-> <<>>]
    /\ udp = [i \in Pcbs |-> Closed]
    /\ pages = NPAGES /\ lost = 0

Sockets(i) ==
    \/ \E p \in PORTS : udp_bind(i, p)
    \/ \E dst \in (NEAR \ {GW}) \cup FAR : udp_sendto(i, dst)
    \/ udp_recvfrom(i) \/ udp_close(i)

Next ==
    \/ \E pkt \in Arrivals : device_receive(pkt)
    \/ device_send \/ virtio_net_intr
    \/ net_softirq_handler \/ queue_drained \/ queue_pop \/ queue_popped \/ arp_timer_handler
    \/ http_polls \/ http_returns \/ udp_open \/ recvfrom_resume
    \/ \E i \in Pcbs : Sockets(i)

Spec == Init /\ [][Next]_netVars
=============================================================================
