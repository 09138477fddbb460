-------------------------------- MODULE Tcp --------------------------------
(***************************************************************************)
(* The TCP layer of net/tcp.c on one host, its callers, and a remote host.  *)
(*                                                                         *)
(* A blocking call waits in sched_sleep (net/platform.h), which never gives *)
(* the CPU away: it polls the network.  Received packets and timers are     *)
(* handled in that loop and nowhere else, so there is one caller, and       *)
(* segments arrive and timers fire only while it is suspended.  sched_sleep *)
(* also returns after a number of turns, so a suspended call may look at    *)
(* its control block again at any time.                                    *)
(*                                                                         *)
(* A segment sent by this host is lost or reaches the remote host, which    *)
(* takes only what is in order.  A segment the remote host may have sent by *)
(* now arrives never, once or often, in any order, cut anew when it is      *)
(* retransmitted.  Sequence numbers have 2^W values and are compared as the *)
(* code compares them, without wrap-around; BUF + 1 stands for 2^16, since  *)
(* the buffer is as large as the largest window.                           *)
(***************************************************************************)
EXTENDS Integers, Sequences, FiniteSets, SequencesExt

CONSTANTS
    PCBS,        \* number of control blocks (TCP_PCB_SIZE)
    W,           \* width of a sequence number
    BUF,         \* size of the receive buffer, the largest uint16
    MSS,         \* largest payload of a segment
    LPORTS,      \* local ports (TCP_SOURCE_PORT_MIN ..)
    SERVICES,    \* local ports callers bind and the remote host connects to
    FPORTS,      \* ports of the remote host, one connection each
    ISS,         \* what random() returns, in order: one for each connection
    SENDS,       \* lengths a caller passes to tcp_send
    SIZES,       \* sizes a caller passes to tcp_receive
    PEER_ISS,    \* initial sequence number of the remote host
    PEER_WNDS,   \* windows it advertises
    PEER_BYTES,  \* length of what it sends
    MAX_SENT     \* bound on the bytes sent on a connection

\* How many sequence numbers there are.
SEQS == 2 ^ W

ASSUME SeqsAssumption == W \in Nat /\ SEQS \in Nat \ {0}
ASSUME TcpAssumption ==
    /\ PCBS \in Nat \ {0} /\ Cardinality(LPORTS) >= PCBS /\ SERVICES \subseteq LPORTS
    /\ BUF \in Nat \ {0} /\ MSS \in Nat \ {0} /\ PEER_BYTES \in Nat /\ MAX_SENT \in Nat
    /\ ISS \in Seq(0 .. SEQS - 1) /\ PEER_ISS \in 0 .. SEQS - 1
    /\ LPORTS \subseteq Nat \ {0} /\ FPORTS \subseteq Nat \ {0}
    /\ SENDS \subseteq Nat /\ SIZES \subseteq Nat /\ PEER_WNDS \subseteq Nat

VARIABLES
    pcb,      \* pcbs
    call,     \* the call suspended in sched_sleep
    peer,     \* the remote host, one record for each of its ports
    owned,    \* ids that were returned to a caller and not closed
    used,     \* how many random numbers were drawn so far
    hist      \* history of each connection: see NoHistory

tcpVars == <<pcb, call, peer, owned, used, hist>>

Ids == 0 .. PCBS - 1
NONE == -1
Add(a, b) == (a + b) % SEQS
Sub(a, b) == (a - b) % SEQS
One(b) == IF b THEN 1 ELSE 0

\* What memset leaves: TCP_PCB_STATE_FREE is 0.
Blank ==
    [state |-> "FREE", mode |-> "rfc793", lport |-> 0, fport |-> 0,
     nxt |-> 0, una |-> 0, swnd |-> 0, wl1 |-> 0, wl2 |-> 0, iss |-> 0,
     rnxt |-> 0, rwnd |-> 0, buf |-> <<>>, queue |-> <<>>,
     parent |-> NONE, backlog |-> <<>>]

Idle == [op |-> "none", id |-> NONE, old |-> "FREE", left |-> 0]

\* gave: bytes tcp_receive has returned; asked: bytes tcp_send has sent; gap: a
\* segment that does not start at rcv.nxt was accepted; over: a payload went
\* past the end of buf; shrunk: an acknowledgement took back room it had given
\* before; bound: tcp_bind set the port.
NoHistory == [gave |-> <<>>, asked |-> 0, gap |-> FALSE, over |-> FALSE, shrunk |-> FALSE, bound |-> FALSE]

Segment(lp, fp, seq, ack, flg, wnd, data) ==
    [lport |-> lp, fport |-> fp, seq |-> seq, ack |-> ack, flg |-> flg,
     wnd |-> wnd, data |-> data]

\* seg.len of tcp_input: SYN and FIN take a sequence number each.
SegLen(s) == Len(s.data) + One("SYN" \in s.flg) + One("FIN" \in s.flg)

----------------------------------------------------------------------------
(* The remote host.  It counts in offsets from its own initial sequence      *)
(* number: 0 is its SYN, 1 .. PEER_BYTES its bytes, then its FIN.  una and   *)
(* edge are what it knows to be acknowledged and allowed, cuts the ranges it *)
(* may have sent, got the bytes it has received.                            *)

NoPeer == [st |-> "closed", lport |-> 0, base |-> 0, una |-> 0, edge |-> 0,
           cuts |-> {}, got |-> <<>>, fin |-> FALSE]

PeerNext(q) == Add(q.base, 1 + Len(q.got) + One(q.fin))

Ranges == (1 .. PEER_BYTES + 1) \X (1 .. PEER_BYTES + 1)
Learns(q, s) ==
    LET a == Sub(s.ack, PEER_ISS)
        u == IF a > q.una THEN a ELSE q.una
        e == IF a + s.wnd > q.edge THEN a + s.wnd ELSE q.edge
    IN  IF "ACK" \notin s.flg \/ a > PEER_BYTES + 2 THEN q
        ELSE [q EXCEPT !.una = u, !.edge = e,
                       !.cuts = @ \cup {c \in Ranges : u <= c[1] /\ c[1] <= c[2] /\ c[2] < e}]

\* Its reception: a SYN opens, bytes and FIN are taken in order.
Takes(q, s) ==
    IF s.seq # PeerNext(q) \/ q.fin THEN q
    ELSE [q EXCEPT !.got = @ \o s.data, !.fin = "FIN" \in s.flg]

peer_receive(P, s) ==
    LET q == P[s.fport]
        opens == "SYN" \in s.flg /\ (q.st = "closed" \/ (q.st = "syn" /\ q.lport = s.lport))
        mine == q.st = "open" /\ q.lport = s.lport
    IN  IF "RST" \in s.flg THEN P
        ELSE IF opens
        THEN [P EXCEPT ![s.fport] = Learns([q EXCEPT !.st = "open", !.lport = s.lport, !.base = s.seq], s)]
        ELSE IF mine /\ "SYN" \notin s.flg THEN [P EXCEPT ![s.fport] = Learns(Takes(q, s), s)]
        ELSE IF mine THEN [P EXCEPT ![s.fport] = Learns(q, s)]
        ELSE P

\* Of these segments of this host the ones in kept reach it, in their order.
Delivered(P, segs, kept) ==
    FoldLeftDomain(LAMBDA Q, k : IF k \in kept THEN peer_receive(Q, segs[k]) ELSE Q, P, segs)

\* The segments that go out in a step; any of them may be lost.
Transmit(segs) == \E kept \in SUBSET DOMAIN segs : peer' = Delivered(peer, segs, kept)

\* What may arrive from it: its SYN, or bytes and FIN of a range it has sent,
\* with any acknowledgement it has given.
PeerSegments(f) ==
    LET q == peer[f]
        Ack == {Add(q.base, k) : k \in 1 .. 1 + Len(q.got) + One(q.fin)}
        Seg(off, ack, flg, w, data) == Segment(q.lport, f, Add(PEER_ISS, off), ack, flg, w, data)
        Bytes(i, j) == [k \in 1 .. (IF j > PEER_BYTES THEN PEER_BYTES ELSE j) - i + 1 |-> i + k - 1]
    IN  CASE q.st = "syn"  -> {Seg(0, 0, {"SYN"}, w, <<>>) : w \in PEER_WNDS}
          [] q.st = "open" ->
               {Seg(0, Add(q.base, 1), {"SYN", "ACK"}, w, <<>>) : w \in PEER_WNDS}
               \cup {Seg(IF q.una = 0 THEN 1 ELSE q.una, a, {"ACK"}, w, <<>>) : a \in Ack, w \in PEER_WNDS}
               \cup {Seg(c[1], a, IF c[2] > PEER_BYTES THEN {"ACK", "FIN"} ELSE {"ACK"}, w, Bytes(c[1], c[2]))
                       : c \in q.cuts, a \in Ack, w \in PEER_WNDS}
          [] OTHER -> {}

\* It opens a connection itself.
peer_open(f) ==
    /\ peer[f].st = "closed"
    /\ \E lp \in SERVICES : peer' = [peer EXCEPT ![f].st = "syn", ![f].lport = lp]
    /\ UNCHANGED <<pcb, call, owned, used, hist>>

----------------------------------------------------------------------------
(* Control blocks *)

\* tcp_pcb_alloc: the first free one.
FirstFree == {i \in Ids : pcb[i].state = "FREE" /\ \A j \in Ids : j < i => pcb[j].state # "FREE"}

\* tcp_pcb_select: the first exact match, otherwise the last wildcard listener.
tcp_pcb_select(lp, fp) ==
    LET exact  == {i \in Ids : pcb[i].lport = lp /\ pcb[i].fport = fp}
        listen == {i \in Ids : /\ pcb[i].lport = lp /\ pcb[i].fport = 0
                               /\ pcb[i].state = "LISTEN"}
    IN  IF exact # {} THEN CHOOSE i \in exact : \A j \in exact : i <= j
        ELSE IF listen # {} THEN CHOOSE i \in listen : \A j \in listen : i >= j
        ELSE NONE

\* The block and the ones its backlog leads to, which tcp_pcb_release clears.  A block a
\* call sleeps on is only woken and keeps what it has.
Closed(P, S, asleep) == \A j \in S : ToSet(P[j].backlog) \ asleep \subseteq S
Below(P, i, asleep) == {j \in Ids : \A S \in SUBSET Ids : i \in S /\ Closed(P, S, asleep) => j \in S}
tcp_pcb_release(P, i, asleep) ==
    IF i \in asleep THEN P
    ELSE LET gone == Below(P, i, asleep)
         IN  [j \in Ids |-> IF j \in gone THEN Blank ELSE P[j]]

\* A call is in sched_sleep (the loop of tcp_send does not poll between segments).
Polling == call.op \notin {"none", "sending"}
Asleep == IF Polling THEN {call.id} ELSE {}

\* random() for an initial sequence number.
Random == IF used < Len(ISS) THEN {ISS[used + 1]} ELSE {}

----------------------------------------------------------------------------
(* Output and retransmission *)

Entry(seq, flg, data) == [seq |-> seq, flg |-> flg, data |-> data]

tcp_output_segment_fixed(p, seq, flg, data) ==     \* mutant: a fixed window
    Segment(p.lport, p.fport, seq, p.rnxt, flg, BUF, data)
tcp_output_segment(p, seq, flg, data) ==
    Segment(p.lport, p.fport, seq, p.rnxt, flg, p.rwnd, data)

OutSeq(p, flg) == IF "SYN" \in flg THEN p.iss ELSE p.nxt

\* tcp_output: the block with its queue (memory for the entry is assumed, as
\* tcp_output does: it ignores the failure), and the segment that goes out.
Queued(p, flg, data) ==
    IF flg \cap {"SYN", "FIN"} # {} \/ data # <<>>
    THEN [p EXCEPT !.queue = Append(@, Entry(OutSeq(p, flg), flg, data))] ELSE p
Sent(p, flg, data) == tcp_output_segment(p, OutSeq(p, flg), flg, data)
Acks(p) == Sent(p, {"ACK"}, <<>>)

\* Pop from the head while the entry starts before snd.una.
tcp_retransmit_queue_cleanup_strict(p) ==     \* mutant: pops the entry at snd.una too
    LET keep == {k \in 1 .. Len(p.queue) : p.queue[k].seq > p.una}
        from == IF keep = {} THEN Len(p.queue) + 1
                ELSE CHOOSE k \in keep : \A j \in keep : k <= j
    IN  [p EXCEPT !.queue = SubSeq(@, from, Len(@))]
tcp_retransmit_queue_cleanup(p) ==
    LET keep == {k \in 1 .. Len(p.queue) : p.queue[k].seq >= p.una}
        from == IF keep = {} THEN Len(p.queue) + 1
                ELSE CHOOSE k \in keep : \A j \in keep : k <= j
    IN  [p EXCEPT !.queue = SubSeq(@, from, Len(@))]

tcp_retransmit_queue_emit(i, k) ==
    LET e == pcb[i].queue[k] IN tcp_output_segment(pcb[i], e.seq, e.flg, e.data)

\* The entries of block i that are due go out.
Emits(P, i, due) ==
    Delivered(P, [k \in DOMAIN pcb[i].queue |-> tcp_retransmit_queue_emit(i, k)],
              {k \in DOMAIN pcb[i].queue : <<i, k>> \in due})

\* Those of all blocks, in the order of the table.
EmitsAll(P, due) == FoldLeft(LAMBDA Q, i : Emits(Q, i, due), P, [n \in 1 .. PCBS |-> n - 1])

\* tcp_timer: for each block, any entries are due; the head may be past its
\* deadline, which closes the block.  Nothing but the timeout decides which.
tcp_timer ==
    /\ Polling
    /\ \E dead \in SUBSET {i \in Ids : pcb[i].state # "FREE" /\ pcb[i].queue # <<>>} :
       \E due \in SUBSET UNION {{i} \X DOMAIN pcb[i].queue : i \in {j \in Ids : pcb[j].state # "FREE"}} :
          /\ \A i \in dead : <<i, 1>> \notin due
          /\ pcb' = [i \in Ids |-> IF i \in dead THEN [pcb[i] EXCEPT !.state = "CLOSED"] ELSE pcb[i]]
          /\ peer' = EmitsAll(peer, due)
    /\ UNCHANGED <<call, owned, used, hist>>

----------------------------------------------------------------------------
(* SEGMENT ARRIVES *)

Reset(s, seq, ack, flg) == Segment(s.lport, s.fport, seq, ack, flg, 0, <<>>)

\* No block, or a closed one.
arrives_closed(i, s) ==
    /\ i = NONE \/ (i # NONE /\ pcb[i].state = "CLOSED")
    /\ Transmit(<<IF "ACK" \in s.flg THEN Reset(s, s.ack, 0, {"RST"})
                  ELSE Reset(s, 0, Add(s.seq, SegLen(s)), {"RST", "ACK"})>>)
    /\ UNCHANGED <<pcb, used, hist>>

\* A SYN opens a new block for a socket, the listening block itself otherwise.
arrives_listen(i, s) ==
    /\ i # NONE /\ pcb[i].state = "LISTEN"
    /\ \/ /\ "ACK" \in s.flg
          /\ Transmit(<<Reset(s, s.ack, 0, {"RST"})>>)
          /\ UNCHANGED <<pcb, used, hist>>
       \/ /\ "ACK" \notin s.flg /\ "SYN" \in s.flg
          /\ \E n \in (IF pcb[i].mode = "socket" THEN FirstFree ELSE {i}),
                r \in Random :
             LET p == [(IF n = i THEN pcb[i] ELSE [pcb[n] EXCEPT !.mode = "socket", !.parent = i])
                          EXCEPT !.lport = s.lport, !.fport = s.fport, !.rwnd = BUF,
                                 !.rnxt = Add(s.seq, 1), !.iss = r]
             IN /\ pcb' = [pcb EXCEPT ![n] = [Queued(p, {"SYN", "ACK"}, <<>>)
                                EXCEPT !.nxt = Add(r, 1), !.una = r, !.state = "SYN_RECEIVED"]]
                /\ Transmit(<<Sent(p, {"SYN", "ACK"}, <<>>)>>)
                /\ used' = used + 1
                /\ hist' = [hist EXCEPT ![n] = NoHistory]

arrives_syn_sent(i, s) ==
    /\ i # NONE /\ pcb[i].state = "SYN_SENT"
    /\ LET p == pcb[i]
           bad == "ACK" \in s.flg /\ (s.ack <= p.iss \/ s.ack > p.nxt)
           ok  == "ACK" \in s.flg /\ p.una <= s.ack /\ s.ack <= p.nxt
           a   == [p EXCEPT !.rnxt = Add(s.seq, 1)]
           b   == IF ok THEN tcp_retransmit_queue_cleanup([a EXCEPT !.una = s.ack]) ELSE a
       IN  \/ /\ bad
              /\ Transmit(<<Reset(s, s.ack, 0, {"RST"})>>)
              /\ UNCHANGED <<pcb, hist>>
           \/ /\ ~bad /\ "SYN" \in s.flg /\ b.una > b.iss
              /\ Transmit(<<Acks(b)>>)
              /\ pcb' = [pcb EXCEPT ![i] = [b EXCEPT !.state = "ESTABLISHED",
                            !.swnd = s.wnd, !.wl1 = s.seq, !.wl2 = s.ack]]
              /\ UNCHANGED hist
           \/ /\ ~bad /\ "SYN" \in s.flg /\ b.una <= b.iss
              /\ Transmit(<<Sent(b, {"SYN", "ACK"}, <<>>)>>)
              /\ pcb' = [pcb EXCEPT ![i] = [Queued(b, {"SYN", "ACK"}, <<>>)
                            EXCEPT !.state = "SYN_RECEIVED"]]
              /\ UNCHANGED hist
    /\ UNCHANGED used

\* 1st check: the window, whose right edge may wrap.
Acceptable(p, s) ==
    LET edge == Add(p.rnxt, p.rwnd)
        last == Sub(Add(s.seq, SegLen(s)), 1)
    IN  IF SegLen(s) = 0
        THEN IF p.rwnd = 0 THEN s.seq = p.rnxt ELSE p.rnxt <= s.seq /\ s.seq < edge
        ELSE /\ p.rwnd # 0
             /\ \/ p.rnxt <= s.seq /\ s.seq < edge
                \/ p.rnxt <= last /\ last < edge

\* Room in the remote host's window behind snd.nxt: less than 0 when it has been
\* taken back.
Room(p) == p.swnd - Sub(p.nxt, p.una)

\* 5th check, ESTABLISHED to CLOSE_WAIT: snd.una, the queue and the window.
Acked(p, s) ==
    IF p.una < s.ack /\ s.ack <= p.nxt
    THEN LET q == tcp_retransmit_queue_cleanup([p EXCEPT !.una = s.ack])
         IN  IF q.wl1 < s.seq \/ (q.wl1 = s.seq /\ q.wl2 <= s.ack)
             THEN [q EXCEPT !.swnd = s.wnd, !.wl1 = s.seq, !.wl2 = s.ack] ELSE q
    ELSE p

FinAcked(p, s) ==
    IF p.state = "FIN_WAIT1" /\ s.ack = p.nxt THEN [p EXCEPT !.state = "FIN_WAIT2"] ELSE p

\* 7th: the payload goes behind what the buffer holds, wherever it starts.
HasText(p, s) == p.state \in {"ESTABLISHED", "FIN_WAIT1", "FIN_WAIT2"} /\ s.data # <<>>
Text_no_advance(p, s) ==        \* mutant: rcv.nxt stays
    IF ~HasText(p, s) THEN p
    ELSE LET w == (p.rwnd - Len(s.data)) % (BUF + 1)
         IN  [p EXCEPT !.buf = SubSeq(p.buf \o s.data, 1, BUF - w), !.rwnd = w]
Text(p, s) ==
    IF ~HasText(p, s) THEN p
    ELSE LET w == (p.rwnd - Len(s.data)) % (BUF + 1)
         IN  [p EXCEPT !.buf = SubSeq(p.buf \o s.data, 1, BUF - w),
                       !.rnxt = Add(s.seq, SegLen(s)), !.rwnd = w]

\* 8th: the FIN bit.
Fin(p, s) ==
    IF "FIN" \notin s.flg THEN p
    ELSE [p EXCEPT !.rnxt = Add(s.seq, 1),
            !.state = CASE @ \in {"SYN_RECEIVED", "ESTABLISHED"} -> "CLOSE_WAIT"
                        [] @ = "FIN_WAIT1" -> IF s.ack = p.nxt THEN "TIME_WAIT" ELSE "CLOSING"
                        [] @ = "FIN_WAIT2" -> "TIME_WAIT"
                        [] OTHER -> @]

Checked == {"SYN_RECEIVED", "ESTABLISHED", "FIN_WAIT1", "FIN_WAIT2", "CLOSE_WAIT", "LAST_ACK"}

\* A child that becomes established is put into the backlog of its parent.
WithBacklog(P, i) ==
    IF P[i].parent = NONE THEN P
    ELSE [P EXCEPT ![P[i].parent].backlog = Append(@, i)]

arrives_otherwise(i, s) ==
    /\ i # NONE /\ pcb[i].state \notin {"FREE", "CLOSED", "LISTEN", "SYN_SENT"}
    /\ LET p == pcb[i]
           opens == p.state = "SYN_RECEIVED" /\ p.una <= s.ack /\ s.ack <= p.nxt
           P == IF opens THEN WithBacklog([pcb EXCEPT ![i].state = "ESTABLISHED"], i) ELSE pcb
           e == P[i]
           synced == e.state \in Checked \ {"LAST_ACK"}
           a == IF synced THEN FinAcked(Acked(e, s), s) ELSE e
           t == Text(a, s)
           f == Fin(t, s)
       IN  \/ /\ p.state \in Checked /\ ~Acceptable(p, s)
              /\ Transmit(<<Acks(p)>>)
              /\ UNCHANGED <<pcb, hist>>
           \/ /\ p.state \in Checked => Acceptable(p, s)
              /\ "ACK" \in s.flg
              /\ \/ /\ p.state = "SYN_RECEIVED" /\ ~opens
                    /\ Transmit(<<Reset(s, s.ack, 0, {"RST"})>>)
                    /\ UNCHANGED <<pcb, hist>>
                 \/ /\ p.state = "LAST_ACK" /\ s.ack = p.nxt
                    /\ pcb' = tcp_pcb_release([pcb EXCEPT ![i].state = "CLOSED"], i, Asleep)
                    /\ UNCHANGED <<peer, hist>>
                 \/ /\ synced /\ s.ack > e.nxt
                    /\ Transmit(<<Acks(e)>>)
                    /\ pcb' = P
                    /\ UNCHANGED hist
                 \/ /\ e.state \notin {"SYN_RECEIVED", "LAST_ACK"} /\ ~(synced /\ s.ack > e.nxt)
                    /\ Transmit((IF HasText(a, s) THEN <<Acks(t)>> ELSE <<>>)
                                \o (IF "FIN" \in s.flg THEN <<Acks([t EXCEPT !.rnxt = Add(s.seq, 1)])>> ELSE <<>>))
                    /\ pcb' = [P EXCEPT ![i] = f]
                    /\ hist' = [hist EXCEPT
                          ![i].gap = @ \/ ((HasText(a, s) \/ f.state # t.state) /\ s.seq # p.rnxt),
                          ![i].over = @ \/ (HasText(a, s) /\ Len(s.data) > a.rwnd),
                          ![i].shrunk = @ \/ Room(a) < Room(e)]
    /\ UNCHANGED used

\* One received segment, processed inside sched_sleep of the suspended call.
tcp_segment_arrives(s) ==
    /\ Polling
    /\ LET i == tcp_pcb_select(s.lport, s.fport)
       IN  \/ arrives_closed(i, s) \/ arrives_listen(i, s)
           \/ arrives_syn_sent(i, s) \/ arrives_otherwise(i, s)
    /\ UNCHANGED <<call, owned>>

----------------------------------------------------------------------------
(* User commands.  Like http_execute, the one client in the kernel, a caller *)
(* opens a socket when it has no other, connects or listens on it once, and   *)
(* uses only ids it owns (with tcp_accept also those of its listener).        *)

\* A call ends; ids it returned are in owned, other results are not kept.
Returns == call' = Idle
Sleeps(c) == call' = c

Active(p, r) == [p EXCEPT !.una = r, !.nxt = Add(r, 1), !.state = "SYN_SENT"]
Opening(op, i) == [Idle EXCEPT !.op = op, !.id = i, !.old = "SYN_SENT"]

tcp_open ==
    /\ call.op = "none" /\ owned = {}
    /\ \/ /\ FirstFree = {} /\ Returns
          /\ UNCHANGED <<pcb, owned, hist>>
       \/ \E i \in FirstFree :
             /\ pcb' = [pcb EXCEPT ![i].state = "CLOSED", ![i].mode = "socket"]
             /\ owned' = owned \cup {i}
             /\ hist' = [hist EXCEPT ![i] = NoHistory]
             /\ Returns
    /\ UNCHANGED <<peer, used>>

\* The SYN of an active open, in block i: it goes out, or the block is released.
Connects(P, i, op) ==
    \E r \in Random :
        LET p == [P[i] EXCEPT !.rwnd = BUF, !.iss = r]
        IN  /\ used' = used + 1
            /\ \/ /\ pcb' = [P EXCEPT ![i] = Active(Queued(p, {"SYN"}, <<>>), r)]
                  /\ Transmit(<<Sent(p, {"SYN"}, <<>>)>>)
                  /\ hist' = [hist EXCEPT ![i] = [NoHistory EXCEPT !.bound = op = "connect" /\ hist[i].bound]]
                  /\ Sleeps(Opening(op, i))
                  /\ UNCHANGED owned
               \/ /\ pcb' = tcp_pcb_release(P, i, {})
                  /\ Returns
                  /\ owned' = owned \ {i}
                  /\ UNCHANGED <<peer, hist>>

tcp_open_rfc793(active) ==
    /\ call.op = "none" /\ owned = {}
    /\ \E i \in FirstFree, lp \in SERVICES, f \in FPORTS :
          /\ tcp_pcb_select(lp, f) = NONE
          /\ IF active THEN Connects([pcb EXCEPT ![i].lport = lp, ![i].fport = f], i, "open")
             ELSE /\ pcb' = [pcb EXCEPT ![i].lport = lp, ![i].state = "LISTEN"]
                  /\ Sleeps([Opening("open", i) EXCEPT !.old = "LISTEN"])
                  /\ UNCHANGED <<peer, owned, used, hist>>

FreshSocket(i) == i \in owned /\ pcb[i].state = "CLOSED" /\ pcb[i].mode = "socket" /\ pcb[i].fport = 0

\* The local port: the bound one, otherwise the first without a block for f.
SourcePorts(i, f) ==
    IF pcb[i].lport # 0 THEN {pcb[i].lport}
    ELSE {lp \in LPORTS : /\ tcp_pcb_select(lp, f) = NONE
                          /\ \A l \in LPORTS : l < lp => tcp_pcb_select(l, f) # NONE}

tcp_connect(i, f) ==
    /\ call.op = "none" /\ FreshSocket(i)
    /\ \E lp \in SourcePorts(i, f) :
          Connects([pcb EXCEPT ![i].lport = lp, ![i].fport = f], i, "connect")

\* The loop after AGAIN of tcp_connect and tcp_open_rfc793.
open_resume ==
    /\ call.op \in {"connect", "open"}
    /\ LET p == pcb[call.id]
       IN  /\ p.state # call.old
           /\ \/ /\ p.state = "ESTABLISHED"
                 /\ Returns
                 /\ owned' = owned \cup {call.id}
                 /\ UNCHANGED pcb
              \/ /\ p.state = "SYN_RECEIVED"
                 /\ Sleeps([call EXCEPT !.old = "SYN_RECEIVED"])
                 /\ UNCHANGED <<pcb, owned>>
              \/ /\ p.state \notin {"ESTABLISHED", "SYN_RECEIVED"}
                 /\ pcb' = tcp_pcb_release(pcb, call.id, {})
                 /\ Returns
                 /\ owned' = owned \ {call.id}
    /\ UNCHANGED <<peer, used, hist>>

tcp_bind(i) ==
    /\ call.op = "none" /\ FreshSocket(i) /\ pcb[i].lport = 0
    /\ \E lp \in SERVICES :
          IF \E j \in Ids : pcb[j].lport = lp
          THEN Returns /\ UNCHANGED <<pcb, hist>>
          ELSE /\ Returns
               /\ pcb' = [pcb EXCEPT ![i].lport = lp]
               /\ hist' = [hist EXCEPT ![i].bound = TRUE]
    /\ UNCHANGED <<peer, owned, used>>

tcp_listen(i) ==
    /\ call.op = "none" /\ FreshSocket(i) /\ pcb[i].lport # 0
    /\ pcb' = [pcb EXCEPT ![i].state = "LISTEN"]
    /\ Returns
    /\ UNCHANGED <<peer, owned, used, hist>>

Accepts_peek(i) ==              \* mutant: the connection stays in the backlog
    /\ pcb[i].backlog # <<>>
    /\ owned' = owned \cup {Head(pcb[i].backlog)}
    /\ Returns
    /\ UNCHANGED pcb
Accepts(i) ==
    /\ pcb[i].backlog # <<>>
    /\ pcb' = [pcb EXCEPT ![i].backlog = Tail(@)]
    /\ owned' = owned \cup {Head(pcb[i].backlog)}
    /\ Returns

tcp_accept(i) ==
    /\ call.op = "none" /\ i \in owned /\ pcb[i].state = "LISTEN"
    /\ \/ Accepts(i)
       \/ /\ pcb[i].backlog = <<>>
          /\ Sleeps([Idle EXCEPT !.op = "accept", !.id = i])
          /\ UNCHANGED <<pcb, owned>>
    /\ UNCHANGED <<peer, used, hist>>

accept_resume == call.op = "accept" /\ Accepts(call.id) /\ UNCHANGED <<peer, used, hist>>

\* The loop of tcp_send, from RETRY to the next sleep or return: segments of at
\* most MSS bytes until the room in the window is 0.  It is computed unsigned: a
\* window that was taken back leaves a very large room.
Capacity_whole(p) == p.swnd           \* mutant: what is on the way is not subtracted
Capacity(p) == Room(p) % SEQS
Slice(p, left) == LET m == IF left < MSS THEN left ELSE MSS
                  IN  IF Capacity(p) < m THEN Capacity(p) ELSE m
Payload_again(h, n) == [k \in 1 .. n |-> k]      \* mutant: data instead of data + sent
Payload(h, n) == [k \in 1 .. n |-> h.asked + k]

send_step(i, left) ==
    LET p == pcb[i]
        n == Slice(p, left)
        data == Payload(hist[i], n)
    IN  \/ /\ p.state \notin {"ESTABLISHED", "CLOSE_WAIT"}
           /\ Returns
           /\ UNCHANGED <<pcb, peer, owned, hist>>
        \/ /\ p.state \in {"ESTABLISHED", "CLOSE_WAIT"} /\ left = 0
           /\ Returns
           /\ UNCHANGED <<pcb, peer, owned, hist>>
        \/ /\ p.state \in {"ESTABLISHED", "CLOSE_WAIT"} /\ left > 0 /\ n = 0
           /\ Sleeps([Idle EXCEPT !.op = "send", !.id = i, !.left = left])
           /\ UNCHANGED <<pcb, peer, owned, hist>>
        \/ /\ p.state \in {"ESTABLISHED", "CLOSE_WAIT"} /\ left > 0 /\ n > 0
           /\ \/ /\ pcb' = [pcb EXCEPT ![i] = [Queued(p, {"ACK", "PSH"}, data) EXCEPT !.nxt = Add(@, n)]]
                 /\ Transmit(<<Sent(p, {"ACK", "PSH"}, data)>>)
                 /\ hist' = [hist EXCEPT ![i].asked = @ + n]
                 /\ Sleeps([Idle EXCEPT !.op = "sending", !.id = i, !.left = left - n])
                 /\ UNCHANGED owned
              \/ /\ pcb' = tcp_pcb_release(pcb, i, {})
                 /\ Returns
                 /\ owned' = owned \ {i}
                 /\ UNCHANGED <<peer, hist>>

tcp_send(i, len) ==
    /\ call.op = "none" /\ i \in owned /\ hist[i].asked + len <= MAX_SENT
    /\ send_step(i, len)
    /\ UNCHANGED used

send_resume == call.op \in {"send", "sending"} /\ send_step(call.id, call.left) /\ UNCHANGED used

\* tcp_receive, from RETRY to the sleep or return.
Remain(p) == BUF - p.rwnd
receive_step(i, size) ==
    LET p == pcb[i]
        n == IF size < Remain(p) THEN size ELSE Remain(p)
    IN  \/ /\ p.state \in {"ESTABLISHED", "CLOSE_WAIT"} /\ Remain(p) > 0
           /\ pcb' = [pcb EXCEPT ![i].buf = SubSeq(@, n + 1, Len(@)), ![i].rwnd = @ + n]
           /\ hist' = [hist EXCEPT ![i].gave = @ \o SubSeq(p.buf, 1, n)]
           /\ Returns
        \/ /\ p.state = "ESTABLISHED" /\ Remain(p) = 0
           /\ Sleeps([Idle EXCEPT !.op = "receive", !.id = i, !.left = size])
           /\ UNCHANGED <<pcb, hist>>
        \/ /\ p.state = "CLOSE_WAIT" /\ Remain(p) = 0
           /\ Returns
           /\ UNCHANGED <<pcb, hist>>
        \/ /\ p.state \notin {"ESTABLISHED", "CLOSE_WAIT"}
           /\ Returns
           /\ UNCHANGED <<pcb, hist>>

tcp_receive(i, size) ==
    /\ call.op = "none" /\ i \in owned
    /\ receive_step(i, size)
    /\ UNCHANGED <<peer, owned, used>>

receive_resume ==
    call.op = "receive" /\ receive_step(call.id, call.left) /\ UNCHANGED <<peer, owned, used>>

\* The caller gives the id up, whatever tcp_close answers.
tcp_close(i) ==
    /\ call.op = "none" /\ i \in owned /\ ~FreshSocket(i)
    /\ owned' = owned \ {i}
    /\ LET p == pcb[i]
       IN  \/ /\ p.state = "LISTEN"
              /\ pcb' = tcp_pcb_release(pcb, i, {})
              /\ Returns
              /\ UNCHANGED <<peer, hist>>
           \/ /\ p.state \in {"ESTABLISHED", "CLOSE_WAIT"}
              /\ pcb' = [pcb EXCEPT ![i] = [Queued(p, {"ACK", "FIN"}, <<>>) EXCEPT
                           !.nxt = Add(@, 1),
                           !.state = IF @ = "ESTABLISHED" THEN "FIN_WAIT1" ELSE "LAST_ACK"]]
              /\ UNCHANGED hist
              /\ Transmit(<<Sent(p, {"ACK", "FIN"}, <<>>)>>)
              /\ Returns
           \/ /\ p.state \notin {"LISTEN", "ESTABLISHED", "CLOSE_WAIT"}
              /\ Returns
              /\ UNCHANGED <<pcb, peer, hist>>
    /\ UNCHANGED used

----------------------------------------------------------------------------
Init ==
    /\ pcb = [i \in Ids |-> Blank]
    /\ call = Idle
    /\ peer = [f \in FPORTS |-> NoPeer]
    /\ owned = {}
    /\ used = 0
    /\ hist = [i \in Ids |-> NoHistory]

Commands(i) ==
    \/ tcp_bind(i) \/ tcp_listen(i) \/ tcp_accept(i) \/ tcp_close(i)
    \/ \E f \in FPORTS : tcp_connect(i, f)
    \/ \E n \in SENDS : tcp_send(i, n)
    \/ \E n \in SIZES : tcp_receive(i, n)

Next ==
    \/ tcp_open \/ tcp_open_rfc793(TRUE) \/ tcp_open_rfc793(FALSE)
    \/ \E i \in Ids : Commands(i)
    \/ open_resume \/ accept_resume \/ send_resume \/ receive_resume
    \/ tcp_timer
    \/ \E f \in FPORTS : peer_open(f) \/ \E s \in PeerSegments(f) : tcp_segment_arrives(s)

Spec == Init /\ [][Next]_tcpVars
=============================================================================
