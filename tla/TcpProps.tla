------------------------------ MODULE TcpProps ------------------------------
(***************************************************************************)
(* What a TCP connection promises its caller.                              *)
(***************************************************************************)
EXTENDS Tcp

PcbStates == {"FREE", "CLOSED", "LISTEN", "SYN_SENT", "SYN_RECEIVED", "ESTABLISHED",
              "FIN_WAIT1", "FIN_WAIT2", "CLOSING", "TIME_WAIT", "CLOSE_WAIT", "LAST_ACK"}

\* TypeOK: the fields of struct tcp_pcb keep their ranges, and the buffer holds
\* exactly the bytes that rcv.wnd says it does.
TypeOK ==
    /\ \A i \in Ids :
         /\ pcb[i].state \in PcbStates
         /\ {pcb[i].nxt, pcb[i].una, pcb[i].rnxt, pcb[i].iss} \subseteq 0 .. SEQS - 1
         /\ pcb[i].rwnd \in 0 .. BUF
         /\ pcb[i].state \notin {"FREE", "CLOSED", "LISTEN"} => Len(pcb[i].buf) = BUF - pcb[i].rwnd
    /\ call.id \in Ids \cup {NONE} /\ owned \subseteq Ids /\ used \in 0 .. Len(ISS)

Connected == {i \in Ids : pcb[i].state \in {"ESTABLISHED", "FIN_WAIT1", "FIN_WAIT2", "CLOSE_WAIT",
                                              "LAST_ACK", "CLOSING", "TIME_WAIT"}}
Stream(n) == [k \in 1 .. n |-> k]
Received(i) == hist[i].gave \o pcb[i].buf

\* StreamInOrder: as long as every accepted segment started at rcv.nxt and fitted the
\* window, what tcp_receive has returned and what is still buffered are the first bytes
\* of the remote host's stream, each once: lost, repeated and late segments and re-cut
\* retransmissions do not disturb it.
Orderly(i) == ~hist[i].gap /\ ~hist[i].over
StreamInOrder ==
    \A i \in Connected : Orderly(i) =>
        Received(i) = Stream(Len(Received(i))) /\ Len(Received(i)) <= PEER_BYTES

\* EndIsWhole: when tcp_receive reports the end of the stream (CLOSE_WAIT with an
\* empty buffer), the caller has had every byte the remote host sent before its FIN.
EndIsWhole ==
    \A i \in Ids : pcb[i].state = "CLOSE_WAIT" /\ Orderly(i) => Received(i) = Stream(PEER_BYTES)

\* StreamIn: the caller receives the remote host's stream, in order, each byte once,
\* and all of it when tcp_receive reports its end.
StreamIn == StreamInOrder /\ EndIsWhole

\* A segment of the model is delivered at any later time, so an old one is told from a
\* new one only if no connection carries as many bytes as there are sequence numbers.
ASSUME StreamAssumption == PEER_BYTES < SEQS

\* StreamOut: the remote host receives the bytes given to tcp_send, in order and
\* each once, however segments were lost, retransmitted or cut at the window.
StreamOut ==
    \A i \in Connected : LET q == peer[pcb[i].fport] IN
        q.st = "open" /\ q.lport = pcb[i].lport /\ q.base = pcb[i].iss =>
            q.got = Stream(Len(q.got)) /\ Len(q.got) <= hist[i].asked

\* WindowRespected: as long as no acknowledgement has taken back room that an earlier one
\* gave, what tcp_send has on the way fits the window it was last told of.  (When one has,
\* the unsigned room of tcp_send is very large and it sends all it is given.)
WindowRespected ==
    \A i \in Ids : pcb[i].state \in {"ESTABLISHED", "CLOSE_WAIT"} /\ ~hist[i].shrunk => Room(pcb[i]) >= 0

\* RetransmitCovers: every sequence number between snd.una and snd.nxt is in the
\* retransmission queue, so a lost segment is sent again.  (This needs acknowledgements of
\* whole entries: tcp_retransmit_queue_cleanup drops one acknowledged in part.)
EntrySeqs(e) == {Add(e.seq, k) : k \in 0 .. Len(e.data) + One(e.flg \cap {"SYN", "FIN"} # {}) - 1}
RetransmitCovers ==
    \A i \in Ids : pcb[i].state \notin {"FREE", "CLOSED", "LISTEN"} =>
        \A k \in 0 .. Sub(pcb[i].nxt, pcb[i].una) - 1 :
            \E e \in ToSet(pcb[i].queue) : Add(pcb[i].una, k) \in EntrySeqs(e)

\* BufferFits: no payload that starts at rcv.nxt runs past the end of buf (memmove does not
\* look), although the remote host may fill any window it was ever given and send any part of
\* it again, cut anew.
BufferFits == \A i \in Connected : ~hist[i].gap => ~hist[i].over

\* Windows: each side sends no more than the other has room for, and what is on the way can
\* be sent again (tcp_send, tcp_segment_arrives, tcp_timer).
Windows == BufferFits /\ WindowRespected /\ RetransmitCovers

\* OneBlockPerPair: no two control blocks whose ports the kernel chose have the
\* same pair of ports, so tcp_pcb_select never hides one connection behind another.
OneBlockPerPair ==
    \A i, j \in Ids : i # j /\ ~hist[i].bound /\ ~hist[j].bound /\ pcb[i].lport # 0 /\ pcb[i].fport # 0 =>
        <<pcb[i].lport, pcb[i].fport>> # <<pcb[j].lport, pcb[j].fport>>

\* OwnedAlive: an id a caller owns is not FREE, and a connection waiting in a
\* backlog is live, owned by nobody and waits only once: tcp_accept never hands
\* out a block twice or one that tcp_pcb_release has cleared.
Waiting(i) == UNION {{<<j, k>> : k \in {n \in DOMAIN pcb[j].backlog : pcb[j].backlog[n] = i}} : j \in Ids}
OwnedAlive ==
    /\ \A i \in owned : pcb[i].state # "FREE" /\ Waiting(i) = {}
    /\ \A i \in Ids : \A a, b \in Waiting(i) : a = b
    /\ \A i \in Ids : Waiting(i) # {} => pcb[i].state # "FREE"

\* BlocksTrue: control blocks are well typed and belong to one connection and one
\* owner, across allocation, release, backlog and accept.
BlocksTrue == TypeOK /\ OneBlockPerPair /\ OwnedAlive
=============================================================================
