----------------------------- MODULE TcpProofs ------------------------------
(***************************************************************************)
(* For any number of control blocks, ports and sequence numbers and any    *)
(* sizes of buffers and segments: control blocks are well typed and belong *)
(* to one connection and one owner, and the caller of a connection         *)
(* receives the remote host's stream.                                      *)
(***************************************************************************)
EXTENDS TcpProps, FoldProofs, TLAPS

(***************************************************************************)
(* The invariant                                                           *)
(***************************************************************************)
Nums == 0 .. SEQS - 1
Flags == {"SYN", "ACK", "FIN", "RST", "PSH"}
Modes == {"rfc793", "socket"}
Calls == {"none", "open", "connect", "accept", "send", "sending", "receive"}
Segments == [lport : Int, fport : Int, seq : Nums, ack : Nums, flg : SUBSET Flags, wnd : Nat, data : Seq(Int)]
Entries == [seq : Nums, flg : SUBSET Flags, data : Seq(Int)]
Pcbs == [state : PcbStates, mode : Modes, lport : Nat, fport : Nat,
         nxt : Nums, una : Nums, swnd : Nat, wl1 : Nums, wl2 : Nums, iss : Nums,
         rnxt : Nums, rwnd : 0 .. BUF, buf : Seq(Int), queue : Seq(Entries),
         parent : Ids \cup {NONE}, backlog : Seq(Ids)]
Peers == [st : {"closed", "syn", "open"}, lport : Int, base : Int, una : Int, edge : Int,
          cuts : SUBSET Ranges, got : Seq(Int), fin : BOOLEAN]
Histories == [gave : Seq(Int), asked : Nat, gap : BOOLEAN, over : BOOLEAN, shrunk : BOOLEAN, bound : BOOLEAN]

CallType == [op : Calls, id : Ids \cup {NONE}, old : PcbStates, left : Nat]

\* Types of everything.
Typed ==
    /\ pcb \in [Ids -> Pcbs]
    /\ peer \in [FPORTS -> Peers]
    /\ hist \in [Ids -> Histories]
    /\ call \in CallType
    /\ owned \subseteq Ids /\ used \in 0 .. Len(ISS)

\* What a block of a state holds.  A block without a foreign port has not been used since
\* it was cleared, except that it may have a backlog: a block may outlive its parent,
\* whose slot it then writes to.
Filled(p) == Len(p.buf) = BUF - p.rwnd
Sound(p) ==
    /\ p.state \notin {"FREE", "CLOSED", "LISTEN"} => Filled(p) /\ p.fport # 0
    /\ p.state \in {"FREE", "LISTEN"} => p.fport = 0
    /\ p.state = "FREE" => p.lport = 0
    /\ p.fport = 0 => p.buf = <<>> /\ p.queue = <<>> /\ p.parent = NONE
    /\ p.state = "SYN_SENT" => p.parent = NONE

\* What a block must not be while it waits in a backlog, and while a caller holds it. A
\* caller holds the ids it owns and the one its call is about.
Unready == {"FREE", "LISTEN", "SYN_SENT", "SYN_RECEIVED", "LAST_ACK"}
Holdable(p) == p.state \notin {"FREE", "LAST_ACK"} /\ (p.state = "SYN_RECEIVED" => p.parent = NONE)
Held == owned \cup (IF call.op = "none" THEN {} ELSE {call.id})

At(B, j, k, i) == k \in DOMAIN B[j].backlog /\ B[j].backlog[k] = i
Waits(B, i) == \E j \in Ids, k \in Nat : At(B, j, k, i)

\* Of blocks B, H of which are held: a block in a backlog is a connection, in one place
\* and held by nobody.
Kept(B, H) ==
    /\ B \in [Ids -> Pcbs] /\ H \subseteq Ids
    /\ \A i \in Ids : Sound(B[i])
    /\ \A i \in H : Holdable(B[i])
    /\ \A i \in Ids : Waits(B, i) => i \notin H /\ B[i].state \notin Unready
    /\ \A i, j, h \in Ids, k, n \in Nat : At(B, j, k, i) /\ At(B, h, n, i) => j = h /\ k = n

\* The ports of blocks B, where callers have bound those in D: an unused socket has a
\* port only if its caller has chosen it, and a pair of ports is one connection's.
Paired(p) == p.lport # 0 /\ p.fport # 0
Ports(B, D) ==
    /\ \A i \in Ids : B[i].state = "CLOSED" /\ B[i].fport = 0 /\ B[i].lport # 0 => i \in D
    /\ \A i, j \in Ids : i # j /\ i \notin D /\ j \notin D /\ Paired(B[i]) =>
          B[i].lport # B[j].lport \/ B[i].fport # B[j].fport
Bound == {i \in Ids : hist[i].bound}

TcpInv == Typed /\ (call.op # "none" => call.id \in Ids) /\ Kept(pcb, Held) /\ Ports(pcb, Bound)

(***************************************************************************)
(* Types                                                                   *)
(***************************************************************************)
\* The numbers the blocks are made of.
LEMMA Numbers ==
  /\ SEQS \in Nat \ {0} /\ BUF \in Nat \ {0} /\ MSS \in Nat \ {0} /\ PCBS \in Nat \ {0}
  /\ PEER_BYTES \in Nat /\ MAX_SENT \in Nat /\ PEER_ISS \in Nums /\ 0 \in Nums /\ Nums \subseteq Nat
  /\ NONE \notin Ids
  BY TcpAssumption, SeqsAssumption DEF Nums, NONE, Ids

\* A sequence number is a number.
LEMMA NumInt ==
  ASSUME NEW n \in Nums
  PROVE  n \in Nat /\ n \in Int
  BY SeqsAssumption DEF Nums

\* Arithmetic on sequence numbers stays within their range, which is all types need.
LEMMA AddNum ==
  ASSUME NEW a \in Int, NEW b \in Int
  PROVE  Add(a, b) \in Nums /\ Sub(a, b) \in Nums
<1>1. PICK n \in Nat \ {0} : n = SEQS
  BY Numbers
<1>2. \A x \in Int : x % n \in 0 .. n - 1
  OBVIOUS
<1>3. a + b \in Int /\ a - b \in Int
  OBVIOUS
<1> QED
  BY <1>1, <1>2, <1>3 DEF Add, Sub, Nums

\* The remote host stays well typed when it learns of an acknowledgement ...
LEMMA LearnsType ==
  ASSUME NEW q \in Peers, NEW s \in Segments
  PROVE  Learns(q, s) \in Peers
<1>1. PICK a \in Int : a = Sub(s.ack, PEER_ISS)
  <2>1. s.ack \in Nums /\ PEER_ISS \in Nums
    BY Numbers DEF Segments
  <2>2. s.ack \in Int /\ PEER_ISS \in Int
    BY <2>1, NumInt
  <2>3. Sub(s.ack, PEER_ISS) \in Nums
    BY <2>2, AddNum
  <2> QED
    BY <2>3, NumInt
<1>2. PICK u \in Int : u = IF a > q.una THEN a ELSE q.una
  BY DEF Peers
<1>3. PICK e \in Int : e = IF a + s.wnd > q.edge THEN a + s.wnd ELSE q.edge
  BY DEF Peers, Segments
<1>4. PICK k \in SUBSET Ranges : k = q.cuts \cup {c \in Ranges : u <= c[1] /\ c[1] <= c[2] /\ c[2] < e}
  BY DEF Peers
<1>5. [q EXCEPT !.una = u, !.edge = e, !.cuts = k] \in Peers
  BY DEF Peers
<1>6. Learns(q, s) = q \/ Learns(q, s) = [q EXCEPT !.una = u, !.edge = e, !.cuts = k]
  BY <1>1, <1>2, <1>3, <1>4 DEF Learns
<1> QED
  BY <1>5, <1>6

\* ... when it takes what a segment carries ...
LEMMA TakesType ==
  ASSUME NEW q \in Peers, NEW s \in Segments
  PROVE  Takes(q, s) \in Peers
<1>1. q.got \o s.data \in Seq(Int)
  BY DEF Peers, Segments
<1>2. PICK g \in Seq(Int) : g = q.got \o s.data
  BY <1>1
<1>3. PICK b \in BOOLEAN : b <=> "FIN" \in s.flg
  OBVIOUS
<1>4. [q EXCEPT !.got = g, !.fin = b] \in Peers
  BY DEF Peers
<1>5. Takes(q, s) = q \/ Takes(q, s) = [q EXCEPT !.got = g, !.fin = b]
  BY <1>2, <1>3 DEF Takes
<1> QED
  BY <1>4, <1>5

\* ... and so when it handles a segment.
LEMMA ReceiveType ==
  ASSUME NEW P \in [FPORTS -> Peers], NEW s \in Segments
  PROVE  peer_receive(P, s) \in [FPORTS -> Peers]
<1>1. CASE s.fport \in FPORTS
  <2>1. PICK q \in Peers : q = P[s.fport]
    BY <1>1
  <2>2. [q EXCEPT !.st = "open", !.lport = s.lport, !.base = s.seq] \in Peers
    <3>1. PICK n \in Int : n = s.seq
      <4>1. s.seq \in Nums
        BY DEF Segments
      <4> QED
        BY <4>1, NumInt
    <3>2. PICK l \in Int : l = s.lport
      BY DEF Segments
    <3>3. [q EXCEPT !.st = "open", !.lport = l, !.base = n] \in Peers
      BY DEF Peers
    <3> QED
      BY <3>1, <3>2, <3>3
  <2>3. /\ Learns([q EXCEPT !.st = "open", !.lport = s.lport, !.base = s.seq], s) \in Peers
        /\ Learns(Takes(q, s), s) \in Peers /\ Learns(q, s) \in Peers
    BY <2>2, LearnsType, TakesType
  <2> QED
    BY <2>1, <2>3 DEF peer_receive
<1>2. CASE s.fport \notin FPORTS
  <2>1. \A x : [P EXCEPT ![s.fport] = x] = P
    BY <1>2
  <2> QED
    BY <2>1 DEF peer_receive
<1> QED
  BY <1>1, <1>2

\* A segment from its fields.
LEMMA SegmentType ==
  ASSUME NEW lp \in Int, NEW fp \in Int, NEW seq \in Nums, NEW ack \in Nums, NEW flg \in SUBSET Flags,
         NEW wnd \in Nat, NEW data \in Seq(Int)
  PROVE  Segment(lp, fp, seq, ack, flg, wnd, data) \in Segments
  BY DEF Segment, Segments

\* What tcp_output_segment sends is a segment.
LEMMA OutputType ==
  ASSUME NEW p \in Pcbs, NEW seq \in Nums, NEW flg \in SUBSET Flags, NEW data \in Seq(Int)
  PROVE  tcp_output_segment(p, seq, flg, data) \in Segments
<1>1. p.lport \in Int /\ p.fport \in Int /\ p.rnxt \in Nums /\ p.rwnd \in Nat
  BY Numbers DEF Pcbs
<1> QED
  BY <1>1, SegmentType DEF tcp_output_segment

\* The remote host stays well typed whatever segments reach it.
Hop(Q, k, segs, kept) == IF k \in kept THEN peer_receive(Q, segs[k]) ELSE Q
\* Any of the segments of a step may reach the hosts: the fold one hop at a time.
LEMMA DeliveredType ==
  ASSUME NEW m \in [FPORTS -> Peers], NEW segs \in Seq(Segments), NEW kept \in SUBSET DOMAIN segs
  PROVE  Delivered(m, segs, kept) \in [FPORTS -> Peers]
<1> DEFINE seq == [k \in DOMAIN segs |-> k]
           T == 1 .. Len(segs)
           C == CHOOSE it : it = [s \in SUBSET T |->
                  IF s = {} THEN m ELSE LET x == Max(s) IN Hop(it[s \ {x}], seq[x], segs, kept)]
           V == [FPORTS -> Peers]
<1>0. Len(segs) \in Nat
  OBVIOUS
<1>1. DOMAIN seq = T /\ \A k \in T : seq[k] = k /\ segs[k] \in Segments
  OBVIOUS
<1>2. PICK n : n = Delivered(m, segs, kept)
  OBVIOUS
<1>3. n = C[T]
  BY <1>1, <1>2 DEF Delivered, Hop, FoldLeftDomain, FoldLeft, MapThenFoldSet
<1> HIDE DEF seq
<1>4. PICK step : step = [z \in T \X V |-> Hop(z[2], seq[z[1]], segs, kept)]
  OBVIOUS
<1>5. \A k \in T, v \in V : step[<<k, v>>] = Hop(v, seq[k], segs, kept)
  BY <1>4
<1>6. m \in V
  OBVIOUS
<1>7. step \in [T \X V -> V]
  <2>1. \A v \in V, k \in T : Hop(v, seq[k], segs, kept) \in V
    <3> TAKE v \in V, k \in T
    <3>1. seq[k] = k /\ segs[k] \in Segments
      BY <1>1
    <3>2. peer_receive(v, segs[k]) \in [FPORTS -> Peers]
      BY <3>1, ReceiveType
    <3> QED
      BY <3>1, <3>2 DEF Hop
  <2> QED
    BY <1>4, <2>1
<1> HIDE DEF V
<1>8. PICK g : LastFold(g, V, m, step, Len(segs))
  BY <1>0, <1>6, <1>7, FoldLast
<1>9. /\ g = [s \in SUBSET T |-> IF s = {} THEN m ELSE step[<<Max(s), g[s \ {Max(s)}]>>]]
      /\ \A s \in SUBSET T : g[s] \in V
  BY <1>8 DEF LastFold
<1>10. \A s \in SUBSET T : s # {} => Max(s) \in T /\ g[s] = Hop(g[s \ {Max(s)}], seq[Max(s)], segs, kept)
  <2> TAKE s \in SUBSET T
  <2> HAVE s # {}
  <2>1. Max(s) \in s
    BY <1>0, MaxIn
  <2>2. Max(s) \in T /\ g[s \ {Max(s)}] \in V
    BY <1>9, <2>1
  <2> QED
    BY <1>5, <1>9, <2>2
<1>11. g = [s \in SUBSET T |-> IF s = {} THEN m ELSE LET x == Max(s) IN Hop(g[s \ {x}], seq[x], segs, kept)]
  <2>1. g = [s \in SUBSET T |-> g[s]] /\ g[{}] = m
    BY <1>9
  <2> QED
    BY <1>10, <2>1
<1>12. C = [s \in SUBSET T |-> IF s = {} THEN m ELSE LET x == Max(s) IN Hop(C[s \ {x}], seq[x], segs, kept)]
  BY <1>11, Zenon
<1> HIDE DEF C
<1>13. C[T] = g[T]
  <2>1. C[{}] = g[{}]
    BY <1>9, <1>12
  <2>2. \A s \in SUBSET T : s # {} /\ C[s \ {Max(s)}] = g[s \ {Max(s)}] => C[s] = g[s]
    BY <1>10, <1>12
  <2> QED
    BY <1>0, <2>1, <2>2, FoldSame
<1>14. n \in V
  BY <1>3, <1>9, <1>13
<1> QED
  BY <1>2, <1>14 DEF V

\* The same of the entries of a retransmission queue that are due.
LEMMA EmitsType ==
  ASSUME NEW P \in [FPORTS -> Peers], NEW i \in Ids, NEW due, pcb \in [Ids -> Pcbs]
  PROVE  Emits(P, i, due) \in [FPORTS -> Peers]
<1>1. PICK p \in Pcbs : p = pcb[i]
  OBVIOUS
<1>2. PICK q \in Seq(Entries) : q = p.queue
  BY DEF Pcbs
<1>3. ASSUME NEW k \in DOMAIN q
      PROVE  tcp_retransmit_queue_emit(i, k) \in Segments
  <2>1. PICK e \in Entries : e = q[k]
    OBVIOUS
  <2>2. tcp_retransmit_queue_emit(i, k) = tcp_output_segment(p, e.seq, e.flg, e.data)
    BY <1>1, <1>2, <2>1 DEF tcp_retransmit_queue_emit
  <2> QED
    BY <2>2, OutputType DEF Entries
<1>4. [k \in DOMAIN q |-> tcp_retransmit_queue_emit(i, k)] \in Seq(Segments)
  BY <1>3
<1>5. {k \in DOMAIN q : <<i, k>> \in due} \in SUBSET DOMAIN [k \in DOMAIN q |-> tcp_retransmit_queue_emit(i, k)]
  OBVIOUS
<1>6. Delivered(P, [k \in DOMAIN q |-> tcp_retransmit_queue_emit(i, k)], {k \in DOMAIN q : <<i, k>> \in due}) \in [FPORTS -> Peers]
  BY <1>4, <1>5, DeliveredType
<1> QED
  BY <1>1, <1>2, <1>6 DEF Emits

\* The same for the blocks of a turn of tcp_timer.
LEMMA TimerType ==
  ASSUME NEW m \in [FPORTS -> Peers], NEW due, pcb \in [Ids -> Pcbs]
  PROVE  EmitsAll(m, due) \in [FPORTS -> Peers]
<1> DEFINE seq == [n \in 1 .. PCBS |-> n - 1]
           T == 1 .. PCBS
           C == CHOOSE it : it = [s \in SUBSET T |->
                  IF s = {} THEN m ELSE LET x == Max(s) IN Emits(it[s \ {x}], seq[x], due)]
           V == [FPORTS -> Peers]
<1>0. PCBS \in Nat
  BY Numbers
<1>1. DOMAIN seq = T /\ \A k \in T : seq[k] = k - 1 /\ seq[k] \in Ids
  BY Numbers DEF Ids
<1>2. PICK n : n = EmitsAll(m, due)
  OBVIOUS
<1>3. n = C[T]
  BY <1>1, <1>2 DEF EmitsAll, FoldLeft, MapThenFoldSet
<1> HIDE DEF seq
<1>4. PICK step : step = [z \in T \X V |-> Emits(z[2], seq[z[1]], due)]
  OBVIOUS
<1>5. \A k \in T, v \in V : step[<<k, v>>] = Emits(v, seq[k], due)
  BY <1>4
<1>6. m \in V
  OBVIOUS
<1>7. step \in [T \X V -> V]
  <2>1. \A v \in V, k \in T : Emits(v, seq[k], due) \in V
    <3> TAKE v \in V, k \in T
    <3>1. seq[k] \in Ids
      BY <1>1
    <3> QED
      BY <3>1, EmitsType
  <2> QED
    BY <1>4, <2>1
<1> HIDE DEF V
<1>8. PICK g : LastFold(g, V, m, step, PCBS)
  BY <1>0, <1>6, <1>7, FoldLast
<1>9. /\ g = [s \in SUBSET T |-> IF s = {} THEN m ELSE step[<<Max(s), g[s \ {Max(s)}]>>]]
      /\ \A s \in SUBSET T : g[s] \in V
  BY <1>8 DEF LastFold
<1>10. \A s \in SUBSET T : s # {} => Max(s) \in T /\ g[s] = Emits(g[s \ {Max(s)}], seq[Max(s)], due)
  <2> TAKE s \in SUBSET T
  <2> HAVE s # {}
  <2>1. Max(s) \in s
    BY <1>0, MaxIn
  <2>2. Max(s) \in T /\ g[s \ {Max(s)}] \in V
    BY <1>9, <2>1
  <2> QED
    BY <1>5, <1>9, <2>2
<1>11. g = [s \in SUBSET T |-> IF s = {} THEN m ELSE LET x == Max(s) IN Emits(g[s \ {x}], seq[x], due)]
  <2>1. g = [s \in SUBSET T |-> g[s]] /\ g[{}] = m
    BY <1>9
  <2> QED
    BY <1>10, <2>1
<1>12. C = [s \in SUBSET T |-> IF s = {} THEN m ELSE LET x == Max(s) IN Emits(C[s \ {x}], seq[x], due)]
  BY <1>11, Zenon
<1> HIDE DEF C
<1>13. C[T] = g[T]
  <2>1. C[{}] = g[{}]
    BY <1>9, <1>12
  <2>2. \A s \in SUBSET T : s # {} /\ C[s \ {Max(s)}] = g[s \ {Max(s)}] => C[s] = g[s]
    BY <1>10, <1>12
  <2> QED
    BY <1>0, <2>1, <2>2, FoldSame
<1>14. n \in V
  BY <1>3, <1>9, <1>13
<1> QED
  BY <1>2, <1>14 DEF V

(***************************************************************************)
(* What a step does to the blocks                                          *)
(***************************************************************************)
\* One block changes and keeps its backlog.
LEMMA KeptPut ==
  ASSUME NEW B, NEW H, Kept(B, H), NEW i \in Ids, NEW p \in Pcbs, Sound(p), p.backlog = B[i].backlog,
         NEW G, G \subseteq H \cup {i}, i \in G => Holdable(p),
         Waits(B, i) => i \notin G /\ p.state \notin Unready
  PROVE  Kept([B EXCEPT ![i] = p], G)
<1> DEFINE R == [B EXCEPT ![i] = p]
<1>1. R \in [Ids -> Pcbs] /\ G \subseteq Ids /\ R[i] = p /\ \A j \in Ids : j # i => R[j] = B[j]
  BY DEF Kept
<1>2. \A j \in Ids : R[j].backlog = B[j].backlog
  BY <1>1
<1> HIDE DEF R
<1>3. \A j, h \in Ids, k \in Nat : At(R, j, k, h) <=> At(B, j, k, h)
  BY <1>2 DEF At
<1>4. \A j \in Ids : Waits(R, j) <=> Waits(B, j)
  BY <1>3 DEF Waits
<1>5. \A j \in Ids : Sound(R[j])
  BY <1>1 DEF Kept
<1>6. \A j \in G : Holdable(R[j])
  BY <1>1 DEF Kept
<1>7. \A j \in Ids : Waits(R, j) => j \notin G /\ R[j].state \notin Unready
  BY <1>1, <1>4 DEF Kept
<1>8. \A j, h, l \in Ids, k, n \in Nat : At(R, h, k, j) /\ At(R, l, n, j) => h = l /\ k = n
  BY <1>3 DEF Kept
<1> QED
  BY <1>1, <1>5, <1>6, <1>7, <1>8 DEF Kept, R

\* A block nobody waits for in a backlog, because it is held or is in such a state.
LEMMA NoWait ==
  ASSUME NEW B, NEW H, Kept(B, H), NEW i \in Ids, i \in H \/ B[i].state \in Unready
  PROVE  ~Waits(B, i)
  BY DEF Kept

\* Callers may let go of blocks.
LEMMA KeptLess ==
  ASSUME NEW B, NEW H, Kept(B, H), NEW G, G \subseteq H
  PROVE  Kept(B, G)
  BY DEF Kept

\* A block that keeps its backlog and goes from one state of a connection to another.
Live == {"ESTABLISHED", "FIN_WAIT1", "FIN_WAIT2", "CLOSING", "TIME_WAIT", "CLOSE_WAIT"}
\* A connection that has been established may wait in a backlog and may be held.
LEMMA LiveReady ==
  ASSUME NEW p, p.state \in Live
  PROVE  p.state \notin Unready /\ Holdable(p)
  BY DEF Live, Unready, Holdable

\* A connection goes from one established state to another.
LEMMA KeptLive ==
  ASSUME NEW B, NEW H, Kept(B, H), NEW i \in Ids, NEW p \in Pcbs, Sound(p), p.backlog = B[i].backlog,
         p.state \in Live
  PROVE  Kept([B EXCEPT ![i] = p], H)
<1>1. Waits(B, i) => i \notin H
  BY DEF Kept
<1> QED
  BY <1>1, KeptPut, LiveReady

\* tcp_accept takes the first id of a backlog.
LEMMA KeptAccept ==
  ASSUME NEW B, NEW H, Kept(B, H), NEW i \in Ids, B[i].backlog # <<>>,
         NEW c, c = Head(B[i].backlog)
  PROVE  c \in Ids /\ Kept([B EXCEPT ![i].backlog = Tail(@)], H \cup {c})
<1> DEFINE R == [B EXCEPT ![i].backlog = Tail(@)]
<1>0. PICK b \in Seq(Ids) : b = B[i].backlog
  BY DEF Kept, Pcbs
<1>1. PICK p \in Pcbs : p = [B[i] EXCEPT !.backlog = Tail(b)]
  <2>1. PICK t \in Seq(Ids) : t = Tail(b)
    BY <1>0, HeadTailProperties
  <2>2. B[i] \in Pcbs
    BY DEF Kept
  <2>3. [B[i] EXCEPT !.backlog = t] \in Pcbs
    BY <2>2 DEF Pcbs
  <2> QED
    BY <2>1, <2>3
<1>2. c \in Ids /\ 1 \in DOMAIN b /\ b[1] = c
  BY <1>0
<1>3. At(B, i, 1, c)
  BY <1>0, <1>2 DEF At
<1>4. /\ R \in [Ids -> Pcbs] /\ R[i] = p /\ \A j \in Ids : j # i => R[j] = B[j]
      /\ p.backlog = Tail(b) /\ p.state = B[i].state /\ p.parent = B[i].parent
  BY <1>0, <1>1 DEF Kept, Pcbs
<1>5. Sound(p)
  <2>1. B[i] \in Pcbs /\ Sound(B[i])
    BY DEF Kept
  <2>2. p.buf = B[i].buf /\ p.rwnd = B[i].rwnd /\ p.fport = B[i].fport /\ p.lport = B[i].lport /\ p.queue = B[i].queue
    BY <1>1, <2>1 DEF Pcbs
  <2> QED
    BY <1>4, <2>1, <2>2 DEF Sound, Filled
<1> HIDE DEF R
<1>6. \A j \in Ids : R[j].state = B[j].state /\ R[j].parent = B[j].parent
  BY <1>4
<1>7. \A h \in Ids, k \in Nat : At(R, i, k, h) => At(B, i, k + 1, h) /\ k # 0
  <2> TAKE h \in Ids, k \in Nat
  <2> HAVE At(R, i, k, h)
  <2>1. k \in DOMAIN Tail(b) /\ Tail(b)[k] = h
    BY <1>4 DEF At
  <2>2. k + 1 \in DOMAIN b /\ b[k + 1] = h /\ k # 0
    BY <1>0, <1>2, <2>1
  <2> QED
    BY <1>0, <2>2 DEF At
<1>8. \A j, h \in Ids, k \in Nat : j # i => (At(R, j, k, h) <=> At(B, j, k, h))
  BY <1>4 DEF At
<1>9. ~Waits(R, c)
  <2>1. SUFFICES ASSUME NEW j \in Ids, NEW k \in Nat, At(R, j, k, c) PROVE FALSE
    BY DEF Waits
  <2>2. CASE j = i
    <3>1. At(B, i, k + 1, c) /\ k # 0 /\ k + 1 \in Nat
      BY <1>2, <1>7, <2>1, <2>2
    <3> QED
      BY <1>2, <1>3, <3>1 DEF Kept
  <2>3. CASE j # i
    BY <1>2, <1>3, <1>8, <2>1, <2>3 DEF Kept
  <2> QED
    BY <2>2, <2>3
<1>10. \A j \in Ids : Waits(R, j) => Waits(B, j)
  <2>1. SUFFICES ASSUME NEW h \in Ids, NEW j \in Ids, NEW k \in Nat, At(R, j, k, h) PROVE Waits(B, h)
    BY DEF Waits
  <2>2. CASE j = i
    <3>1. At(B, i, k + 1, h) /\ k + 1 \in Nat
      BY <1>7, <2>1, <2>2
    <3> QED
      BY <3>1 DEF Waits
  <2>3. CASE j # i
    BY <1>8, <2>1, <2>3 DEF Waits
  <2> QED
    BY <2>2, <2>3
<1>11. \A j, h, l \in Ids, k, n \in Nat : At(R, h, k, j) /\ At(R, l, n, j) => h = l /\ k = n
  <2> TAKE j, h, l \in Ids, k, n \in Nat
  <2> HAVE At(R, h, k, j) /\ At(R, l, n, j)
  <2>1. PICK a \in Nat : At(B, h, a, j) /\ a = IF h = i THEN k + 1 ELSE k
    BY <1>7, <1>8
  <2>2. PICK d \in Nat : At(B, l, d, j) /\ d = IF l = i THEN n + 1 ELSE n
    BY <1>7, <1>8
  <2>3. h = l /\ a = d
    BY <2>1, <2>2 DEF Kept
  <2> QED
    BY <2>1, <2>2, <2>3
<1>12. Waits(B, c) /\ B[c].state \notin Unready
  BY <1>2, <1>3 DEF Kept, Waits
<1>13. \A j \in H \cup {c} : Holdable(R[j])
  BY <1>2, <1>6, <1>12 DEF Kept, Holdable, Unready
<1>14. \A j \in Ids : Sound(R[j])
  BY <1>4, <1>5 DEF Kept
<1>15. \A j \in Ids : Waits(R, j) => j \notin H \cup {c} /\ R[j].state \notin Unready
  BY <1>6, <1>9, <1>10 DEF Kept
<1> QED
  BY <1>2, <1>4, <1>11, <1>13, <1>14, <1>15 DEF Kept, R

\* A block that becomes a connection is put into the backlog of its parent.
LEMMA KeptBacklog ==
  ASSUME NEW B, NEW H, Kept(B, H), NEW i \in Ids, B[i].state \notin Unready,
         ~Waits(B, i), B[i].parent # NONE => i \notin H
  PROVE  Kept(WithBacklog(B, i), H)
<1>1. CASE B[i].parent = NONE
  BY <1>1 DEF WithBacklog
<1>2. CASE B[i].parent # NONE
  <2>1. PICK h \in Ids : h = B[i].parent
    BY <1>2 DEF Kept, Pcbs
  <2> DEFINE R == [B EXCEPT ![h].backlog = Append(@, i)]
  <2>2. WithBacklog(B, i) = R /\ i \notin H
    BY <1>2, <2>1 DEF WithBacklog
  <2>3. PICK b \in Seq(Ids) : b = B[h].backlog
    BY DEF Kept, Pcbs
  <2>4. PICK c \in Seq(Ids) : c = Append(b, i)
    BY AppendProperties
  <2>5. PICK p \in Pcbs : p = [B[h] EXCEPT !.backlog = c]
    <3>1. B[h] \in Pcbs
      BY DEF Kept
    <3>2. [B[h] EXCEPT !.backlog = c] \in Pcbs
      BY <3>1 DEF Pcbs
    <3> QED
      BY <3>2
  <2>6. /\ R \in [Ids -> Pcbs] /\ R[h] = p /\ \A j \in Ids : j # h => R[j] = B[j]
        /\ p.backlog = c /\ p.state = B[h].state /\ p.parent = B[h].parent
    BY <2>3, <2>4, <2>5 DEF Kept, Pcbs
  <2>7. Sound(p)
    <3>1. B[h] \in Pcbs /\ Sound(B[h])
      BY DEF Kept
    <3>2. p.buf = B[h].buf /\ p.rwnd = B[h].rwnd /\ p.fport = B[h].fport /\ p.lport = B[h].lport /\ p.queue = B[h].queue
      BY <2>5, <3>1 DEF Pcbs
    <3> QED
      BY <2>6, <3>1, <3>2 DEF Sound, Filled
  <2> HIDE DEF R
  <2>8. \A j \in Ids : R[j].state = B[j].state /\ R[j].parent = B[j].parent
    BY <2>6
  <2>9. \A j, g \in Ids, k \in Nat : At(R, j, k, g) => At(B, j, k, g) \/ (j = h /\ g = i /\ k = Len(c))
    <3> TAKE j, g \in Ids, k \in Nat
    <3> HAVE At(R, j, k, g)
    <3>1. CASE j # h
      BY <2>6, <3>1 DEF At
    <3>2. CASE j = h
      <4>1. k \in DOMAIN c /\ c[k] = g
        BY <2>6, <3>2 DEF At
      <4>2. CASE k \in DOMAIN b
        <5>1. b[k] = g
          BY <2>4, <4>1, <4>2
        <5> QED
          BY <2>3, <3>2, <4>2, <5>1 DEF At
      <4>3. CASE k \notin DOMAIN b
        <5>1. k = Len(b) + 1 /\ Len(c) = Len(b) + 1
          BY <2>4, <4>1, <4>3
        <5>2. g = i
          BY <2>4, <4>1, <5>1
        <5> QED
          BY <3>2, <5>1, <5>2
      <4> QED
        BY <4>2, <4>3
    <3> QED
      BY <3>1, <3>2
  <2>10. \A j \in Ids, k \in Nat : At(R, j, k, i) => j = h /\ k = Len(c)
    BY <2>9 DEF Waits
  <2>11. \A j \in Ids : Waits(R, j) => Waits(B, j) \/ j = i
    BY <2>9 DEF Waits
  <2>12. \A j, g, l \in Ids, k, n \in Nat : At(R, g, k, j) /\ At(R, l, n, j) => g = l /\ k = n
    <3> TAKE j, g, l \in Ids, k, n \in Nat
    <3> HAVE At(R, g, k, j) /\ At(R, l, n, j)
    <3>1. CASE j = i
      BY <2>10, <3>1
    <3>2. CASE j # i
      <4>1. At(B, g, k, j) /\ At(B, l, n, j)
        BY <2>9, <3>2
      <4> QED
        BY <4>1 DEF Kept
    <3> QED
      BY <3>1, <3>2
  <2>13. \A j \in H : Holdable(R[j])
    BY <2>8 DEF Kept, Holdable
  <2>14. \A j \in Ids : Sound(R[j])
    BY <2>6, <2>7 DEF Kept
  <2>15. \A j \in Ids : Waits(R, j) => j \notin H /\ R[j].state \notin Unready
    BY <2>2, <2>8, <2>11 DEF Kept
  <2> QED
    BY <2>2, <2>6, <2>12, <2>13, <2>14, <2>15 DEF Kept
<1> QED
  BY <1>1, <1>2

\* What a cleared block is.
LEMMA BlankTrue == Blank \in Pcbs /\ Sound(Blank) /\ Blank.backlog = <<>> /\ Blank.state = "FREE" /\ Blank.lport = 0
<1>1. PICK n \in Nums : n = 0
  BY Numbers
<1>2. PICK w \in 0 .. BUF : w = 0
  BY Numbers
<1>3. PICK z \in Nat : z = 0
  OBVIOUS
<1>4. PICK b \in Seq(Int), q \in Seq(Entries), l \in Seq(Ids) : b = <<>> /\ q = <<>> /\ l = <<>>
  <2>1. \A T : <<>> \in Seq(T)
    BY EmptySeq
  <2> QED
    BY <2>1
<1>5. Blank = [state |-> "FREE", mode |-> "rfc793", lport |-> z, fport |-> z,
       nxt |-> n, una |-> n, swnd |-> z, wl1 |-> n, wl2 |-> n, iss |-> n,
       rnxt |-> n, rwnd |-> w, buf |-> b, queue |-> q, parent |-> NONE, backlog |-> l]
  BY <1>1, <1>2, <1>3, <1>4 DEF Blank
<1>6. Blank \in Pcbs
  BY <1>5 DEF Pcbs, PcbStates, Modes
<1>7. Sound(Blank)
  BY <1>3, <1>4, <1>5 DEF Sound
<1> QED
  BY <1>3, <1>4, <1>5, <1>6, <1>7

\* Below is closed, and every block in it but the first is in a backlog of another one in
\* it: those blocks and the first are a closed set of their own.
LEMMA BelowClosed ==
  ASSUME NEW B \in [Ids -> Pcbs], NEW i \in Ids, NEW asleep, NEW gone, gone = Below(B, i, asleep)
  PROVE  /\ i \in gone /\ gone \subseteq Ids
         /\ \A h \in gone : ToSet(B[h].backlog) \ asleep \subseteq gone
         /\ \A j \in gone : j = i \/ \E h \in gone, k \in Nat : j \notin asleep /\ At(B, h, k, j)
<1>1. i \in gone /\ gone \subseteq Ids
  BY DEF Below
<1>2. \A h \in Ids : B[h].backlog \in Seq(Ids) /\ ToSet(B[h].backlog) \subseteq Ids
  <2> TAKE h \in Ids
  <2>1. B[h].backlog \in Seq(Ids)
    BY DEF Pcbs
  <2> QED
    BY <2>1 DEF ToSet
<1>3. \A h \in gone : ToSet(B[h].backlog) \ asleep \subseteq gone
  <2> SUFFICES ASSUME NEW h \in gone, NEW j \in ToSet(B[h].backlog) \ asleep PROVE j \in gone
    OBVIOUS
  <2>1. j \in Ids /\ h \in Ids
    BY <1>1, <1>2
  <2>2. ASSUME NEW S \in SUBSET Ids, i \in S, Closed(B, S, asleep) PROVE j \in S
    <3>1. h \in S
      BY <2>2 DEF Below
    <3> QED
      BY <2>2, <3>1 DEF Closed
  <2> QED
    BY <2>1, <2>2 DEF Below
<1>4. PICK T : T = {j \in gone : j = i \/ \E h \in gone : j \in ToSet(B[h].backlog) \ asleep}
  OBVIOUS
<1>5. T \in SUBSET Ids /\ i \in T
  BY <1>1, <1>4
<1>6. Closed(B, T, asleep)
  <2> SUFFICES ASSUME NEW h \in T, NEW j \in ToSet(B[h].backlog) \ asleep PROVE j \in T
    BY DEF Closed
  <2>1. h \in gone
    BY <1>4
  <2> QED
    BY <1>3, <1>4, <2>1
<1>7. gone \subseteq T
  BY <1>5, <1>6 DEF Below
<1>8. ASSUME NEW j \in gone, j # i PROVE \E h \in gone, k \in Nat : j \notin asleep /\ At(B, h, k, j)
  <2>1. PICK h \in gone : j \in ToSet(B[h].backlog) \ asleep
    BY <1>4, <1>7, <1>8
  <2>2. B[h].backlog \in Seq(Ids)
    BY <1>1, <1>2
  <2>3. PICK k \in Nat : At(B, h, k, j)
    BY <2>1, <2>2 DEF ToSet, At
  <2> QED
    BY <2>1, <2>3
<1> QED
  BY <1>1, <1>3, <1>8

\* tcp_pcb_release clears the block and what waits in its backlog, and no block that is held.
LEMMA KeptRelease ==
  ASSUME NEW B, NEW H, Kept(B, H), NEW i \in Ids, ~Waits(B, i),
         NEW asleep, asleep \subseteq H, NEW G, G \subseteq H \ {i}
  PROVE  Kept(tcp_pcb_release(B, i, asleep), G)
<1>1. CASE i \in asleep
  BY <1>1, KeptLess DEF tcp_pcb_release
<1>2. CASE i \notin asleep
  <2>1. PICK gone : gone = Below(B, i, asleep)
    OBVIOUS
  <2> DEFINE R == [j \in Ids |-> IF j \in gone THEN Blank ELSE B[j]]
  <2>2. tcp_pcb_release(B, i, asleep) = R
    BY <1>2, <2>1 DEF tcp_pcb_release
  <2>3. /\ i \in gone /\ gone \subseteq Ids
        /\ \A h \in gone : ToSet(B[h].backlog) \ asleep \subseteq gone
        /\ \A j \in gone : j = i \/ \E h \in gone, k \in Nat : At(B, h, k, j)
    BY <2>1, BelowClosed DEF Kept
  <2>5. /\ R \in [Ids -> Pcbs]
        /\ \A j \in Ids : R[j] = IF j \in gone THEN Blank ELSE B[j]
    BY BlankTrue DEF Kept
  <2> HIDE DEF R
  <2>6. \A j, h \in Ids, k \in Nat : At(R, j, k, h) => j \notin gone /\ h \notin gone /\ At(B, j, k, h)
    <3> TAKE j, h \in Ids, k \in Nat
    <3> HAVE At(R, j, k, h)
    <3>1. j \notin gone
      BY <2>5, BlankTrue DEF At
    <3>2. At(B, j, k, h)
      BY <2>5, <3>1 DEF At
    <3>3. h # i
      BY <3>2 DEF Waits
    <3>4. \A l \in gone : ~(\E n \in Nat : At(B, l, n, h))
      BY <2>3, <3>1, <3>2 DEF Kept
    <3> QED
      BY <2>3, <3>1, <3>2, <3>3, <3>4
  <2>7. \A j \in Ids : Waits(R, j) => Waits(B, j) /\ j \notin gone
    BY <2>6 DEF Waits
  <2>8. \A j \in gone : j \notin G
    <3> TAKE j \in gone
    <3>1. j = i \/ (j \in Ids => Waits(B, j))
      BY <2>3 DEF Waits
    <3> QED
      BY <3>1 DEF Kept
  <2>9. G \subseteq Ids /\ \A j \in G : Holdable(R[j])
    BY <2>5, <2>8 DEF Kept
  <2>10. \A j \in Ids : Sound(R[j])
    BY <2>5, BlankTrue DEF Kept
  <2>11. \A j \in Ids : Waits(R, j) => j \notin G /\ R[j].state \notin Unready
    BY <2>5, <2>7 DEF Kept
  <2>12. \A j, h, l \in Ids, k, n \in Nat : At(R, h, k, j) /\ At(R, l, n, j) => h = l /\ k = n
    BY <2>6 DEF Kept
  <2> QED
    BY <2>2, <2>5, <2>9, <2>10, <2>11, <2>12 DEF Kept
<1> QED
  BY <1>1, <1>2

\* tcp_timer closes blocks that have something in their queue.
LEMMA KeptTimer ==
  ASSUME NEW B, NEW H, Kept(B, H), NEW dead,
         \A i \in dead : i \in Ids => B[i].state # "FREE" /\ B[i].queue # <<>>
  PROVE  Kept([i \in Ids |-> IF i \in dead THEN [B[i] EXCEPT !.state = "CLOSED"] ELSE B[i]], H)
<1> DEFINE R == [i \in Ids |-> IF i \in dead THEN [B[i] EXCEPT !.state = "CLOSED"] ELSE B[i]]
<1>1. ASSUME NEW i \in Ids
      PROVE  /\ R[i] \in Pcbs /\ R[i].backlog = B[i].backlog /\ Sound(R[i])
             /\ (R[i].state = B[i].state /\ R[i].parent = B[i].parent) \/ R[i].state = "CLOSED"
  <2>1. CASE i \notin dead
    BY <2>1 DEF Kept
  <2>2. CASE i \in dead
    <3>1. PICK b \in Pcbs : b = B[i] /\ Sound(b)
      BY DEF Kept
    <3>2. PICK p \in Pcbs : p = [b EXCEPT !.state = "CLOSED"]
      BY DEF Pcbs, PcbStates
    <3>3. p.state = "CLOSED" /\ p.fport = b.fport /\ p.buf = b.buf /\ p.queue = b.queue /\ p.parent = b.parent /\ p.backlog = b.backlog
      BY <3>2 DEF Pcbs
    <3>4. b.fport # 0
      BY <2>2, <3>1 DEF Sound
    <3>5. Sound(p)
      BY <3>3, <3>4 DEF Sound
    <3> QED
      BY <2>2, <3>1, <3>2, <3>3, <3>5
  <2> QED
    BY <2>1, <2>2
<1>2. R \in [Ids -> Pcbs]
  BY <1>1
<1> HIDE DEF R
<1>3. \A j, h \in Ids, k \in Nat : At(R, j, k, h) <=> At(B, j, k, h)
  BY <1>1 DEF At
<1>4. \A j \in Ids : Waits(R, j) <=> Waits(B, j)
  BY <1>3 DEF Waits
<1>5. \A j \in H : Holdable(R[j])
  BY <1>1 DEF Kept, Holdable
<1>6. \A j \in Ids : Waits(R, j) => j \notin H /\ R[j].state \notin Unready
  BY <1>1, <1>4 DEF Kept, Unready
<1>7. \A j, h, l \in Ids, k, n \in Nat : At(R, h, k, j) /\ At(R, l, n, j) => h = l /\ k = n
  BY <1>3 DEF Kept
<1> QED
  BY <1>1, <1>2, <1>5, <1>6, <1>7 DEF Kept, R

\* Blocks that keep their ports, lose them, or have no foreign port.
SamePorts(p, q) ==
    /\ q.lport = p.lport /\ q.fport = p.fport
    /\ q.state = "CLOSED" => p.state = "CLOSED" \/ p.fport # 0
PortsFree(q, i, E) == q.lport = 0 \/ (q.fport = 0 /\ (q.state = "CLOSED" => i \in E))
\* Every block keeps its ports or has none.
LEMMA PortsStay ==
  ASSUME NEW B, NEW D, Ports(B, D), NEW R, NEW E,
         \A j \in Ids : PortsFree(R[j], j, E) \/ (SamePorts(B[j], R[j]) /\ (j \in D => j \in E))
  PROVE  Ports(R, E)
<1> USE DEF PortsFree, SamePorts
<1>1. ASSUME NEW j \in Ids, R[j].state = "CLOSED", R[j].fport = 0, R[j].lport # 0
      PROVE  j \in E
  BY <1>1 DEF Ports
<1>2. ASSUME NEW i \in Ids, NEW j \in Ids, i # j, i \notin E, j \notin E, Paired(R[i])
      PROVE  R[i].lport # R[j].lport \/ R[i].fport # R[j].fport
  <2>1. i \notin D /\ R[i].lport = B[i].lport /\ R[i].fport = B[i].fport /\ R[i].lport # 0 /\ R[i].fport # 0
    BY <1>2 DEF Paired
  <2>2. CASE R[j].lport = 0 \/ R[j].fport = 0
    BY <2>1, <2>2
  <2>3. CASE R[j].lport # 0 /\ R[j].fport # 0
    <3>1. j \notin D /\ R[j].lport = B[j].lport /\ R[j].fport = B[j].fport
      BY <1>2, <2>3
    <3>2. B[i].lport # B[j].lport \/ B[i].fport # B[j].fport
      BY <1>2, <2>1, <3>1 DEF Ports, Paired
    <3> QED
      BY <2>1, <3>1, <3>2
  <2> QED
    BY <2>2, <2>3
<1> QED
  BY <1>1, <1>2 DEF Ports

\* A block gets a pair of ports that is nobody else's, or one its caller has bound.
NewPair(B, n, p) == \A j \in Ids : j # n => B[j].lport # p.lport \/ B[j].fport # p.fport
PutAt(B, R, n, p) == R[n] = p /\ \A j \in Ids : j # n => R[j] = B[j]
Besides(D, E, n) == \A j \in Ids : j # n /\ j \in D => j \in E
\* Block n gets ports that its caller has chosen, or that no other block has.
LEMMA PortsNew ==
  ASSUME NEW B, NEW D, Ports(B, D), NEW n \in Ids, NEW p, p.fport # 0, NEW E, Besides(D, E, n),
         n \in E \/ NewPair(B, n, p), NEW R, PutAt(B, R, n, p)
  PROVE  Ports(R, E)
<1> USE DEF NewPair, PutAt, Besides
<1>1. ASSUME NEW j \in Ids, R[j].state = "CLOSED", R[j].fport = 0, R[j].lport # 0
      PROVE  j \in E
  BY <1>1 DEF Ports
<1>2. ASSUME NEW i \in Ids, NEW j \in Ids, i # j, i \notin E, j \notin E, Paired(R[i])
      PROVE  R[i].lport # R[j].lport \/ R[i].fport # R[j].fport
  <2>1. CASE i # n /\ j # n
    <3>1. R[i] = B[i] /\ R[j] = B[j] /\ i \notin D /\ j \notin D
      BY <1>2, <2>1
    <3> QED
      BY <1>2, <3>1 DEF Ports
  <2>2. CASE i = n
    <3>1. R[i] = p /\ R[j] = B[j]
      BY <1>2, <2>2
    <3> QED
      BY <1>2, <2>2, <3>1
  <2>3. CASE j = n
    <3>1. R[j] = p /\ R[i] = B[i]
      BY <1>2, <2>3
    <3> QED
      BY <1>2, <2>3, <3>1
  <2> QED
    BY <2>1, <2>2, <2>3
<1> QED
  BY <1>1, <1>2 DEF Ports

\* Some blocks have a first and a last one.
LEMMA FirstLast ==
  ASSUME NEW S \in SUBSET Ids, S # {}
  PROVE  (\E k \in S : \A j \in S : k <= j) /\ (\E k \in S : \A j \in S : k >= j)
<1>1. PICK n \in Nat : n = PCBS
  BY Numbers
<1>2. PICK T : T = {j + 1 : j \in S}
  OBVIOUS
<1>3. \A j \in S : j \in Int /\ j + 1 \in 1 .. n
  BY <1>1 DEF Ids
<1>4. T \in SUBSET (1 .. n) /\ T # {}
  BY <1>2, <1>3
<1>5. PICK a \in T : \A y \in T : a <= y
  BY <1>4, MinIn
<1>6. PICK b \in T : \A y \in T : b >= y
  BY <1>4, MaxIn
<1>7. PICK k \in S, h \in S : a = k + 1 /\ b = h + 1
  BY <1>2
<1>8. \A j \in S : k + 1 <= j + 1 /\ h + 1 >= j + 1
  BY <1>2, <1>5, <1>6, <1>7
<1>9. \A j \in S : k <= j /\ h >= j
  BY <1>3, <1>8
<1> QED
  BY <1>9

\* tcp_pcb_select finds a block with this pair if there is one, a listener otherwise.
LEMMA Selects ==
  ASSUME NEW lp, NEW fp, NEW i, i = tcp_pcb_select(lp, fp)
  PROVE  /\ i \in Ids \cup {NONE}
         /\ i \in Ids => pcb[i].lport = lp
         /\ (\E j \in Ids : pcb[j].lport = lp /\ pcb[j].fport = fp) => i \in Ids /\ pcb[i].fport = fp
<1> DEFINE exact == {j \in Ids : pcb[j].lport = lp /\ pcb[j].fport = fp}
           listen == {j \in Ids : pcb[j].lport = lp /\ pcb[j].fport = 0 /\ pcb[j].state = "LISTEN"}
<1>1. i = IF exact # {} THEN CHOOSE k \in exact : \A j \in exact : k <= j
          ELSE IF listen # {} THEN CHOOSE k \in listen : \A j \in listen : k >= j
          ELSE NONE
  BY DEF tcp_pcb_select
<1>2. exact \in SUBSET Ids /\ listen \in SUBSET Ids
  OBVIOUS
<1>3. exact # {} => \E k \in exact : \A j \in exact : k <= j
  <2> HIDE DEF exact
  <2> QED
    BY <1>2, FirstLast
<1>4. listen # {} => \E k \in listen : \A j \in listen : k >= j
  <2> HIDE DEF listen
  <2> QED
    BY <1>2, FirstLast
<1>5. exact # {} => i \in exact
  BY <1>1, <1>3
<1>6. exact = {} /\ listen # {} => i \in listen
  BY <1>1, <1>4
<1>7. exact = {} /\ listen = {} => i = NONE
  BY <1>1
<1>8. i \in exact \/ (i \in listen /\ exact = {}) \/ (i = NONE /\ exact = {})
  BY <1>5, <1>6, <1>7
<1>9. (\E j \in Ids : pcb[j].lport = lp /\ pcb[j].fport = fp) => i \in Ids /\ pcb[i].fport = fp
  BY <1>8
<1>10. i \in Ids \cup {NONE} /\ (i \in Ids => pcb[i].lport = lp)
  BY <1>8, Numbers
<1> QED
  BY <1>9, <1>10

(***************************************************************************)
(* What the functions of tcp.c do to one block                             *)
(***************************************************************************)
LEMMA PcbFields ==
  ASSUME NEW p \in Pcbs
  PROVE  /\ p.state \in PcbStates /\ p.lport \in Nat /\ p.fport \in Nat /\ p.swnd \in Nat
         /\ p.nxt \in Int /\ p.una \in Int /\ p.rnxt \in Int /\ p.iss \in Int
         /\ p.nxt \in Nums /\ p.una \in Nums /\ p.rnxt \in Nums /\ p.iss \in Nums /\ p.wl1 \in Nums /\ p.wl2 \in Nums
         /\ p.rwnd \in 0 .. BUF /\ p.rwnd \in Nat
         /\ p.buf \in Seq(Int) /\ p.queue \in Seq(Entries)
         /\ p.parent \in Ids \cup {NONE} /\ p.backlog \in Seq(Ids)
<1>1. /\ p.state \in PcbStates /\ p.lport \in Nat /\ p.fport \in Nat /\ p.swnd \in Nat
      /\ p.nxt \in Nums /\ p.una \in Nums /\ p.rnxt \in Nums /\ p.iss \in Nums /\ p.wl1 \in Nums /\ p.wl2 \in Nums
      /\ p.rwnd \in 0 .. BUF
      /\ p.buf \in Seq(Int) /\ p.queue \in Seq(Entries)
      /\ p.parent \in Ids \cup {NONE} /\ p.backlog \in Seq(Ids)
  BY DEF Pcbs
<1>2. p.nxt \in Int /\ p.una \in Int /\ p.rnxt \in Int /\ p.iss \in Int
  BY <1>1, NumInt
<1>3. p.rwnd \in Nat
  BY <1>1, Numbers
<1> QED
  BY <1>1, <1>2, <1>3

\* The fields of a segment.
LEMMA SegmentFields ==
  ASSUME NEW s \in Segments
  PROVE  /\ s.lport \in Int /\ s.fport \in Int /\ s.seq \in Nums /\ s.ack \in Nums /\ s.seq \in Int /\ s.ack \in Int
         /\ s.flg \in SUBSET Flags /\ s.wnd \in Nat /\ s.data \in Seq(Int) /\ SegLen(s) \in Nat
<1>1. /\ s.lport \in Int /\ s.fport \in Int /\ s.seq \in Nums /\ s.ack \in Nums
      /\ s.flg \in SUBSET Flags /\ s.wnd \in Nat /\ s.data \in Seq(Int)
  BY DEF Segments
<1>2. s.seq \in Int /\ s.ack \in Int
  BY <1>1, NumInt
<1>4. SegLen(s) \in Nat
  <2>1. One("SYN" \in s.flg) \in Nat /\ One("FIN" \in s.flg) \in Nat
    BY DEF One
  <2>2. Len(s.data) \in Nat
    BY <1>1
  <2> QED
    BY <2>1, <2>2 DEF SegLen
<1> QED
  BY <1>1, <1>2, <1>4

\* tcp_retransmit_queue_add changes the retransmission queue only.
LEMMA QueuedForm ==
  ASSUME NEW p \in Pcbs, NEW flg \in SUBSET Flags, NEW data \in Seq(Int)
  PROVE  \E w \in Seq(Entries) : Queued(p, flg, data) = [p EXCEPT !.queue = w]
<1>1. p.queue \in Seq(Entries) /\ OutSeq(p, flg) \in Nums
  BY PcbFields DEF OutSeq
<1>2. Entry(OutSeq(p, flg), flg, data) \in Entries
  BY <1>1 DEF Entry, Entries
<1>3. PICK w \in Seq(Entries) : w = Append(p.queue, Entry(OutSeq(p, flg), flg, data))
  BY <1>1, <1>2, AppendProperties
<1>4. p = [p EXCEPT !.queue = p.queue]
  BY DEF Pcbs
<1> QED
  BY <1>1, <1>3, <1>4 DEF Queued

\* What tcp_output sends is a segment.
LEMMA SentType ==
  ASSUME NEW p \in Pcbs, NEW flg \in SUBSET Flags, NEW data \in Seq(Int)
  PROVE  Sent(p, flg, data) \in Segments
<1>1. OutSeq(p, flg) \in Nums
  BY PcbFields DEF OutSeq
<1> QED
  BY <1>1, OutputType DEF Sent

\* An acknowledgement is a segment.
LEMMA AcksType ==
  ASSUME NEW p \in Pcbs
  PROVE  Acks(p) \in Segments
<1>1. {"ACK"} \in SUBSET Flags
  BY DEF Flags
<1>2. <<>> \in Seq(Int)
  BY EmptySeq
<1> QED
  BY <1>1, <1>2, SentType DEF Acks

\* tcp_retransmit_queue_cleanup changes the retransmission queue only.
LEMMA CleanupForm ==
  ASSUME NEW p \in Pcbs
  PROVE  \E w \in Seq(Entries) : tcp_retransmit_queue_cleanup(p) = [p EXCEPT !.queue = w]
<1>1. PICK q \in Seq(Entries) : q = p.queue
  BY PcbFields
<1>2. PICK keep : keep = {k \in 1 .. Len(q) : q[k].seq >= p.una}
  OBVIOUS
<1>3. PICK n \in Nat : n = Len(q)
  OBVIOUS
<1>4. PICK from \in 1 .. n + 1 : from = IF keep = {} THEN n + 1 ELSE CHOOSE k \in keep : \A j \in keep : k <= j
  <2>1. CASE keep = {}
    BY <2>1
  <2>2. CASE keep # {}
    <3>1. keep \in SUBSET (1 .. n)
      BY <1>2, <1>3
    <3>2. \E k \in keep : \A j \in keep : k <= j
      BY <2>2, <3>1, MinIn
    <3>3. (CHOOSE k \in keep : \A j \in keep : k <= j) \in keep
      BY <3>2
    <3>4. PICK c \in 1 .. n : c = CHOOSE k \in keep : \A j \in keep : k <= j
      BY <3>1, <3>3
    <3>5. c \in 1 .. n + 1
      OBVIOUS
    <3> QED
      BY <2>2, <3>4, <3>5
  <2> QED
    BY <2>1, <2>2
<1>5. PICK w \in Seq(Entries) : w = SubSeq(q, from, n)
  <2>1. \A i \in from .. n : i \in 1 .. Len(q)
    BY <1>3, <1>4
  <2>2. SubSeq(q, from, n) \in Seq(Entries)
    BY <1>3, <1>4, <2>1, SubSeqProperties
  <2> QED
    BY <2>2
<1> QED
  BY <1>1, <1>2, <1>3, <1>4, <1>5 DEF tcp_retransmit_queue_cleanup

\* q is p after some of it was processed: the same connection, still one if p was, with
\* the number of bytes in its buffer that its window says.
Alike(p, q) ==
    /\ q \in Pcbs /\ q.lport = p.lport /\ q.fport = p.fport
    /\ q.parent = p.parent /\ q.backlog = p.backlog
Follows(p, q) ==
    /\ Alike(p, q)
    /\ Filled(p) => Filled(q)
    /\ q.state = p.state \/ (p.state \in Live /\ q.state \in Live)

\* Steps of the segment-arrives procedure on one block can be chained.
LEMMA FollowsOn ==
  ASSUME NEW p, NEW q, NEW r, Follows(p, q), Follows(q, r)
  PROVE  Follows(p, r)
  BY DEF Follows, Alike

\* A step that does nothing.
LEMMA FollowsSame ==
  ASSUME NEW p \in Pcbs
  PROVE  Follows(p, p)
  BY DEF Follows, Alike

\* A block that follows an established one is sound and keeps its ports and backlog.
LEMMA FollowsSound ==
  ASSUME NEW p \in Pcbs, NEW q, Follows(p, q), Sound(p), p.state \in Live
  PROVE  q \in Pcbs /\ Sound(q) /\ q.backlog = p.backlog /\ q.state \in Live
         /\ q.lport = p.lport /\ q.fport = p.fport /\ q.fport # 0
<1>1. p.fport # 0 /\ Filled(p)
  BY DEF Sound, Live
<1>2. q.fport # 0 /\ Filled(q) /\ q.state \in Live
  BY <1>1 DEF Follows, Alike
<1>3. Sound(q)
  BY <1>2 DEF Sound, Live
<1> QED
  BY <1>2, <1>3 DEF Follows, Alike

\* Neither ports, state nor buffer change.
AsBefore(p, q) ==
    /\ q \in Pcbs /\ q.lport = p.lport /\ q.fport = p.fport /\ q.parent = p.parent /\ q.backlog = p.backlog
    /\ q.state = p.state /\ q.buf = p.buf /\ q.rwnd = p.rwnd
\* A step that moves send variables and the retransmission queue only.
LEMMA FollowsAck ==
  ASSUME NEW p, NEW q, AsBefore(p, q)
  PROVE  Follows(p, q) /\ q.state = p.state
  BY DEF AsBefore, Follows, Alike, Filled

\* The stages of tcp_segment_arrives for a synchronised connection: the acknowledgement,
LEMMA AckedFollows ==
  ASSUME NEW p \in Pcbs, NEW s \in Segments
  PROVE  Follows(p, Acked(p, s)) /\ Acked(p, s).state = p.state
<1>1. CASE ~(p.una < s.ack /\ s.ack <= p.nxt)
  BY <1>1, FollowsSame DEF Acked
<1>2. CASE p.una < s.ack /\ s.ack <= p.nxt
  <2>1. s.ack \in Nums /\ s.seq \in Nums /\ s.wnd \in Nat
    BY SegmentFields
  <2>2. PICK a \in Pcbs : a = [p EXCEPT !.una = s.ack]
    <3>1. [p EXCEPT !.una = s.ack] \in Pcbs
      BY <2>1 DEF Pcbs
    <3> QED
      BY <3>1
  <2>3. PICK w \in Seq(Entries) : tcp_retransmit_queue_cleanup(a) = [a EXCEPT !.queue = w]
    BY CleanupForm
  <2>4. PICK q : q = [a EXCEPT !.queue = w]
    OBVIOUS
  <2>5. Acked(p, s) = q \/ Acked(p, s) = [q EXCEPT !.swnd = s.wnd, !.wl1 = s.seq, !.wl2 = s.ack]
    BY <1>2, <2>2, <2>3, <2>4 DEF Acked
  <2>6. q = [p EXCEPT !.queue = w, !.una = s.ack, !.swnd = p.swnd, !.wl1 = p.wl1, !.wl2 = p.wl2]
    BY <2>2, <2>4 DEF Pcbs
  <2>7. [q EXCEPT !.swnd = s.wnd, !.wl1 = s.seq, !.wl2 = s.ack]
         = [p EXCEPT !.queue = w, !.una = s.ack, !.swnd = s.wnd, !.wl1 = s.seq, !.wl2 = s.ack]
    BY <2>2, <2>4 DEF Pcbs
  <2>8. p.swnd \in Nat /\ p.wl1 \in Nums /\ p.wl2 \in Nums
    BY PcbFields
  <2>9. PICK r : r = Acked(p, s)
    OBVIOUS
  <2>10. \/ r = [p EXCEPT !.queue = w, !.una = s.ack, !.swnd = p.swnd, !.wl1 = p.wl1, !.wl2 = p.wl2]
         \/ r = [p EXCEPT !.queue = w, !.una = s.ack, !.swnd = s.wnd, !.wl1 = s.seq, !.wl2 = s.ack]
    BY <2>5, <2>6, <2>7, <2>9
  <2>11. AsBefore(p, r)
    <3>1. CASE r = [p EXCEPT !.queue = w, !.una = s.ack, !.swnd = p.swnd, !.wl1 = p.wl1, !.wl2 = p.wl2]
      BY <2>1, <2>8, <3>1 DEF AsBefore, Pcbs
    <3>2. CASE r = [p EXCEPT !.queue = w, !.una = s.ack, !.swnd = s.wnd, !.wl1 = s.seq, !.wl2 = s.ack]
      BY <2>1, <3>2 DEF AsBefore, Pcbs
    <3> QED
      BY <2>10, <3>1, <3>2
  <2> QED
    BY <2>9, <2>11, FollowsAck
<1> QED
  BY <1>1, <1>2

\* Only the state changes.
LEMMA FollowsState ==
  ASSUME NEW p \in Pcbs, p.state \in Live, NEW t \in Live, NEW q, q = [p EXCEPT !.state = t]
  PROVE  Follows(p, q)
<1>1. q \in Pcbs
  BY DEF Pcbs, Live, PcbStates
<1>2. /\ q.lport = p.lport /\ q.fport = p.fport /\ q.parent = p.parent /\ q.backlog = p.backlog
      /\ q.state = t /\ q.buf = p.buf /\ q.rwnd = p.rwnd
  BY DEF Pcbs
<1> QED
  BY <1>1, <1>2 DEF Follows, Alike, Filled

\* the acknowledgement of our FIN,
LEMMA FinAckedFollows ==
  ASSUME NEW p \in Pcbs, NEW s \in Segments
  PROVE  Follows(p, FinAcked(p, s))
<1>1. CASE ~(p.state = "FIN_WAIT1" /\ s.ack = p.nxt)
  BY <1>1, FollowsSame DEF FinAcked
<1>2. CASE p.state = "FIN_WAIT1" /\ s.ack = p.nxt
  <2>1. p.state \in Live /\ "FIN_WAIT2" \in Live
    BY <1>2 DEF Live
  <2>2. FinAcked(p, s) = [p EXCEPT !.state = "FIN_WAIT2"]
    BY <1>2 DEF FinAcked
  <2> QED
    BY <2>1, <2>2, FollowsState
<1> QED
  BY <1>1, <1>2

\* A window of 16 bits that a payload has been taken from, wrapped or not, leaves as much
\* as there is of the buffer.
LEMMA WindowLeft ==
  ASSUME NEW r \in 0 .. BUF, NEW d \in Nat, NEW w, w = (r - d) % (BUF + 1)
  PROVE  w \in 0 .. BUF /\ BUF - w <= (BUF - r) + d
<1>1. PICK n \in Nat \ {0} : n = BUF + 1
  BY Numbers
<1>2. PICK x \in Int : x = r - d
  BY Numbers
<1>3. \A y \in Int, m \in Nat \ {0} : y % m \in 0 .. m - 1 /\ (y >= 0 /\ y < m => y % m = y)
  OBVIOUS
<1>4. w = x % n /\ x < n /\ r \in Int /\ BUF \in Int
  BY <1>1, <1>2, Numbers
<1>5. w \in 0 .. n - 1 /\ (x >= 0 => w = x)
  BY <1>3, <1>4
<1>6. w >= x
  BY <1>4, <1>5
<1> QED
  BY <1>1, <1>2, <1>4, <1>5, <1>6

\* the text, which takes from the window what it adds to the buffer,
LEMMA TextFollows ==
  ASSUME NEW p \in Pcbs, NEW s \in Segments, Filled(p)
  PROVE  Follows(p, Text(p, s))
<1>1. CASE ~HasText(p, s)
  BY <1>1, FollowsSame DEF Text
<1>2. CASE HasText(p, s)
  <2>1. PICK b \in Seq(Int), d \in Seq(Int) : b = p.buf /\ d = s.data
    BY PcbFields, SegmentFields
  <2>2. PICK r \in 0 .. BUF : r = p.rwnd /\ Len(b) = BUF - r
    BY <2>1, PcbFields DEF Filled
  <2>3. PICK w \in 0 .. BUF : w = (r - Len(d)) % (BUF + 1) /\ BUF - w <= (BUF - r) + Len(d)
    BY WindowLeft
  <2>4. PICK n \in Nat : n = BUF - w
    BY Numbers
  <2>5. PICK c \in Seq(Int) : c = SubSeq(b \o d, 1, n) /\ Len(c) = n
    <3>1. PICK e \in Seq(Int) : e = b \o d /\ Len(e) = Len(b) + Len(d)
      BY ConcatProperties
    <3>2. n <= Len(e)
      BY <2>2, <2>3, <2>4, <3>1
    <3>3. \A i \in 1 .. n : e[i] \in Int
      BY <3>1, <3>2
    <3>4. SubSeq(e, 1, n) \in Seq(Int) /\ Len(SubSeq(e, 1, n)) = n
      BY <3>3, SubSeqProperties
    <3> QED
      BY <3>1, <3>4
  <2>6. PICK k \in Nums : k = Add(s.seq, SegLen(s))
    BY SegmentFields, AddNum
  <2>7. PICK q : q = [p EXCEPT !.buf = c, !.rnxt = k, !.rwnd = w]
    OBVIOUS
  <2>8. Text(p, s) = q
    BY <1>2, <2>1, <2>2, <2>3, <2>4, <2>5, <2>6, <2>7 DEF Text
  <2>9. q \in Pcbs
    BY <2>7 DEF Pcbs
  <2>10. /\ q.lport = p.lport /\ q.fport = p.fport /\ q.parent = p.parent /\ q.backlog = p.backlog
         /\ q.state = p.state /\ q.buf = c /\ q.rwnd = w
    BY <2>7 DEF Pcbs
  <2>11. Filled(q)
    BY <2>4, <2>5, <2>10 DEF Filled
  <2> QED
    BY <2>8, <2>9, <2>10, <2>11 DEF Follows, Alike
<1> QED
  BY <1>1, <1>2

\* and the FIN.
LEMMA FinFollows ==
  ASSUME NEW p \in Pcbs, NEW s \in Segments, p.state \in Live
  PROVE  Follows(p, Fin(p, s))
<1>1. CASE "FIN" \notin s.flg
  BY <1>1, FollowsSame DEF Fin
<1>2. CASE "FIN" \in s.flg
  <2>1. PICK k \in Nums : k = Add(s.seq, 1)
    BY SegmentFields, AddNum
  <2>2. PICK t \in Live : t = CASE p.state \in {"SYN_RECEIVED", "ESTABLISHED"} -> "CLOSE_WAIT"
                                [] p.state = "FIN_WAIT1" -> IF s.ack = p.nxt THEN "TIME_WAIT" ELSE "CLOSING"
                                [] p.state = "FIN_WAIT2" -> "TIME_WAIT"
                                [] OTHER -> p.state
    BY DEF Live
  <2>3. PICK q : q = [p EXCEPT !.rnxt = k, !.state = t]
    OBVIOUS
  <2>4. Fin(p, s) = q
    BY <1>2, <2>1, <2>2, <2>3 DEF Fin
  <2>5. q \in Pcbs
    BY <2>3 DEF Pcbs, Live, PcbStates
  <2>6. /\ q.lport = p.lport /\ q.fport = p.fport /\ q.parent = p.parent /\ q.backlog = p.backlog
        /\ q.state = t /\ q.buf = p.buf /\ q.rwnd = p.rwnd
    BY <2>3 DEF Pcbs
  <2> QED
    BY <2>4, <2>5, <2>6 DEF Follows, Alike, Filled
<1> QED
  BY <1>1, <1>2

(***************************************************************************)
(* The steps                                                               *)
(***************************************************************************)
LEMMA OneSegment ==
  ASSUME NEW s \in Segments
  PROVE  <<s>> \in Seq(Segments)
  OBVIOUS

\* Segments sent leave the hosts well typed.
LEMMA TransmitType ==
  ASSUME peer \in [FPORTS -> Peers], NEW segs \in Seq(Segments), Transmit(segs)
  PROVE  peer' \in [FPORTS -> Peers]
<1>1. PICK kept \in SUBSET DOMAIN segs : peer' = Delivered(peer, segs, kept)
  BY DEF Transmit
<1> QED
  BY <1>1, DeliveredType

\* No call is asleep.
LEMMA IdleType == Idle \in CallType /\ Idle.op = "none"
  BY DEF Idle, CallType, Calls, PcbStates

\* Who holds what after a step.
LEMMA HeldSame ==
  ASSUME UNCHANGED <<call, owned>>
  PROVE  Held' = Held
  BY DEF Held

\* What callers hold when a call returns, while it sleeps, and when none is under way.
LEMMA HeldReturns ==
  ASSUME Returns
  PROVE  Held' = owned' /\ call' \in CallType /\ call'.op = "none"
<1>1. call'.op = "none" /\ call' \in CallType
  BY IdleType DEF Returns
<1> QED
  BY <1>1 DEF Held

\* A sleeping call holds its block.
LEMMA HeldSleeps ==
  ASSUME NEW c \in CallType, Sleeps(c), c.op # "none"
  PROVE  Held' = owned' \cup {c.id} /\ call' \in CallType /\ call'.op # "none" /\ call'.id = c.id
<1>1. call' = c
  BY DEF Sleeps
<1> QED
  BY <1>1 DEF Held

\* Without a call the callers hold what they own.
LEMMA HeldIdle ==
  ASSUME call.op = "none"
  PROVE  Held = owned
  BY DEF Held

\* The parts of the invariant after a step.
LEMMA InvNext ==
  ASSUME pcb' \in [Ids -> Pcbs], peer' \in [FPORTS -> Peers], hist' \in [Ids -> Histories],
         call' \in CallType, owned' \subseteq Ids, used' \in 0 .. Len(ISS),
         call'.op # "none" => call'.id \in Ids, Kept(pcb', Held'), Ports(pcb', Bound')
  PROVE  TcpInv'
  BY DEF TcpInv, Typed

\* A step that changes no block.
LEMMA SameBlocks ==
  ASSUME TcpInv, UNCHANGED <<pcb, used, hist>>, peer' \in [FPORTS -> Peers],
         Held' \subseteq Held, owned' \subseteq Ids, call' \in CallType, call'.op # "none" => call'.id \in Ids
  PROVE  TcpInv'
<1>1. Bound' = Bound
  BY DEF Bound
<1>2. Kept(pcb, Held')
  BY KeptLess DEF TcpInv
<1>3. Kept(pcb', Held') /\ Ports(pcb', Bound')
  BY <1>1, <1>2 DEF TcpInv
<1> QED
  BY <1>3, InvNext DEF TcpInv, Typed

\* The parts of the invariant.
LEMMA Parts ==
  ASSUME TcpInv
  PROVE  /\ pcb \in [Ids -> Pcbs] /\ peer \in [FPORTS -> Peers] /\ hist \in [Ids -> Histories]
         /\ call \in CallType /\ owned \subseteq Ids /\ used \in 0 .. Len(ISS)
         /\ call.op # "none" => call.id \in Ids
         /\ Kept(pcb, Held) /\ Ports(pcb, Bound)
         /\ \A i \in Ids : pcb[i] \in Pcbs /\ Sound(pcb[i])
         /\ Held \subseteq Ids /\ \A i \in Held : Holdable(pcb[i])
  BY DEF TcpInv, Typed, Kept

\* What may arrive: the SYN of the remote host, an acknowledgement of its, or the bytes of a
\* range it has sent, with the FIN behind the last one.
Given(q) == {Add(q.base, k) : k \in 1 .. 1 + Len(q.got) + One(q.fin)}
Piece(i, j) == [k \in 1 .. (IF j > PEER_BYTES THEN PEER_BYTES ELSE j) - i + 1 |-> i + k - 1]
From(q, f, off, ack, flg, w, data) == Segment(q.lport, f, Add(PEER_ISS, off), ack, flg, w, data)
LEMMA ArrivingForm ==
  ASSUME TcpInv, NEW f \in FPORTS, NEW s \in PeerSegments(f)
  PROVE  LET q == peer[f]
         IN  \/ \E w \in PEER_WNDS : s = From(q, f, 0, 0, {"SYN"}, w, <<>>)
             \/ \E w \in PEER_WNDS : s = From(q, f, 0, Add(q.base, 1), {"SYN", "ACK"}, w, <<>>)
             \/ \E a \in Given(q), w \in PEER_WNDS : s = From(q, f, IF q.una = 0 THEN 1 ELSE q.una, a, {"ACK"}, w, <<>>)
             \/ \E c \in q.cuts, a \in Given(q), w \in PEER_WNDS :
                   s = From(q, f, c[1], a, IF c[2] > PEER_BYTES THEN {"ACK", "FIN"} ELSE {"ACK"}, w, Piece(c[1], c[2]))
<1>1. PICK q \in Peers : q = peer[f]
  BY Parts
<1>2. CASE q.st = "syn"
  BY <1>1, <1>2 DEF PeerSegments, From
<1>3. CASE q.st = "open"
  <2>1. PeerSegments(f) =
           {From(q, f, 0, Add(q.base, 1), {"SYN", "ACK"}, w, <<>>) : w \in PEER_WNDS}
           \cup {From(q, f, IF q.una = 0 THEN 1 ELSE q.una, a, {"ACK"}, w, <<>>) : a \in Given(q), w \in PEER_WNDS}
           \cup {From(q, f, c[1], a, IF c[2] > PEER_BYTES THEN {"ACK", "FIN"} ELSE {"ACK"}, w, Piece(c[1], c[2]))
                   : c \in q.cuts, a \in Given(q), w \in PEER_WNDS}
    BY <1>1, <1>3 DEF PeerSegments, From, Given, Piece
  <2> QED
    BY <1>1, <2>1
<1>4. CASE q.st = "closed"
  BY <1>1, <1>4 DEF PeerSegments
<1> QED
  BY <1>2, <1>3, <1>4 DEF Peers

\* It is a segment from the remote host.
LEMMA ArrivingType ==
  ASSUME TcpInv, NEW f \in FPORTS, NEW s \in PeerSegments(f)
  PROVE  s \in Segments /\ s.fport = f /\ f # 0 /\ f \in Nat
<1>1. PICK q \in Peers : q = peer[f]
  BY Parts
<1>2. f \in Nat \ {0} /\ \A w \in PEER_WNDS : w \in Nat
  BY TcpAssumption
<1>3. \A n \in Int : Add(PEER_ISS, n) \in Nums
  <2>1. PEER_ISS \in Int
    BY Numbers, NumInt
  <2> QED
    BY <2>1, AddNum
<1>4. \A n \in Int : Add(q.base, n) \in Nums
  BY AddNum DEF Peers
<1>5. \A a \in Given(q) : a \in Nums
  <2>1. 1 .. 1 + Len(q.got) + One(q.fin) \subseteq Int
    OBVIOUS
  <2> QED
    BY <1>4, <2>1 DEF Given
<1>6. ASSUME NEW i \in 1 .. PEER_BYTES + 1, NEW j \in 1 .. PEER_BYTES + 1
      PROVE  Piece(i, j) \in Seq(Int)
  <2>1. PICK m \in Int : m = (IF j > PEER_BYTES THEN PEER_BYTES ELSE j) - i + 1
    BY Numbers
  <2>2. [k \in 1 .. m |-> i + k - 1] \in Seq(Int)
    <3>1. CASE m \in Nat
      BY <3>1
    <3>2. CASE m \notin Nat
      <4>1. 1 .. m = 1 .. 0
        BY <3>2
      <4> QED
        BY <4>1
    <3> QED
      BY <3>1, <3>2
  <2> QED
    BY <2>1, <2>2 DEF Piece
<1>7. <<>> \in Seq(Int)
  BY EmptySeq
<1>8. ASSUME NEW off \in Int, NEW a \in Nums, NEW flg \in SUBSET Flags, NEW w \in PEER_WNDS, NEW data \in Seq(Int)
      PROVE  From(q, f, off, a, flg, w, data) \in Segments /\ From(q, f, off, a, flg, w, data).fport = f
  <2>1. q.lport \in Int /\ f \in Int /\ w \in Nat /\ Add(PEER_ISS, off) \in Nums
    BY <1>2, <1>3 DEF Peers
  <2>2. Segment(q.lport, f, Add(PEER_ISS, off), a, flg, w, data) \in Segments
    BY <2>1, SegmentType
  <2>3. Segment(q.lport, f, Add(PEER_ISS, off), a, flg, w, data).fport = f
    BY DEF Segment
  <2> QED
    BY <2>2, <2>3 DEF From
<1>9. \/ \E w \in PEER_WNDS : s = From(q, f, 0, 0, {"SYN"}, w, <<>>)
      \/ \E w \in PEER_WNDS : s = From(q, f, 0, Add(q.base, 1), {"SYN", "ACK"}, w, <<>>)
      \/ \E a \in Given(q), w \in PEER_WNDS : s = From(q, f, IF q.una = 0 THEN 1 ELSE q.una, a, {"ACK"}, w, <<>>)
      \/ \E c \in q.cuts, a \in Given(q), w \in PEER_WNDS :
            s = From(q, f, c[1], a, IF c[2] > PEER_BYTES THEN {"ACK", "FIN"} ELSE {"ACK"}, w, Piece(c[1], c[2]))
  BY <1>1, ArrivingForm
<1>10. {"SYN"} \in SUBSET Flags /\ {"SYN", "ACK"} \in SUBSET Flags /\ {"ACK"} \in SUBSET Flags /\ {"ACK", "FIN"} \in SUBSET Flags
  BY DEF Flags
<1>11. 0 \in Nums /\ Add(q.base, 1) \in Nums /\ q.una \in Int /\ (IF q.una = 0 THEN 1 ELSE q.una) \in Int
  BY <1>4, Numbers DEF Peers
<1>12. \A c \in q.cuts : c[1] \in 1 .. PEER_BYTES + 1 /\ c[2] \in 1 .. PEER_BYTES + 1 /\ c[1] \in Int
  BY Numbers DEF Peers, Ranges
<1>13. s \in Segments /\ s.fport = f
  <2>1. CASE \E w \in PEER_WNDS : s = From(q, f, 0, 0, {"SYN"}, w, <<>>)
    <3>1. PICK w \in PEER_WNDS : s = From(q, f, 0, 0, {"SYN"}, w, <<>>)
      BY <2>1
    <3>2. PICK F \in SUBSET Flags, e \in Seq(Int) : F = {"SYN"} /\ e = <<>>
      BY <1>7, <1>10
    <3>3. PICK z \in Nums : z = 0 /\ z \in Int
      BY <1>11
    <3>4. s = From(q, f, z, z, F, w, e)
      BY <3>1, <3>2, <3>3
    <3> QED
      BY <1>8, <3>3, <3>4
  <2>2. CASE \E w \in PEER_WNDS : s = From(q, f, 0, Add(q.base, 1), {"SYN", "ACK"}, w, <<>>)
    <3>1. PICK w \in PEER_WNDS : s = From(q, f, 0, Add(q.base, 1), {"SYN", "ACK"}, w, <<>>)
      BY <2>2
    <3>2. PICK F \in SUBSET Flags, e \in Seq(Int) : F = {"SYN", "ACK"} /\ e = <<>>
      BY <1>7, <1>10
    <3>3. PICK z \in Int, a \in Nums : z = 0 /\ a = Add(q.base, 1)
      BY <1>11
    <3>4. s = From(q, f, z, a, F, w, e)
      BY <3>1, <3>2, <3>3
    <3> QED
      BY <1>8, <3>4
  <2>3. CASE \E a \in Given(q), w \in PEER_WNDS : s = From(q, f, IF q.una = 0 THEN 1 ELSE q.una, a, {"ACK"}, w, <<>>)
    <3>1. PICK a \in Given(q), w \in PEER_WNDS : s = From(q, f, IF q.una = 0 THEN 1 ELSE q.una, a, {"ACK"}, w, <<>>)
      BY <2>3
    <3>2. PICK F \in SUBSET Flags, e \in Seq(Int) : F = {"ACK"} /\ e = <<>>
      BY <1>7, <1>10
    <3>3. PICK z \in Int : z = IF q.una = 0 THEN 1 ELSE q.una
      BY <1>11
    <3>4. s = From(q, f, z, a, F, w, e) /\ a \in Nums
      BY <1>5, <3>1, <3>2, <3>3
    <3> QED
      BY <1>8, <3>4
  <2>4. CASE \E c \in q.cuts, a \in Given(q), w \in PEER_WNDS :
            s = From(q, f, c[1], a, IF c[2] > PEER_BYTES THEN {"ACK", "FIN"} ELSE {"ACK"}, w, Piece(c[1], c[2]))
    <3>1. PICK c \in q.cuts, a \in Given(q), w \in PEER_WNDS :
            s = From(q, f, c[1], a, IF c[2] > PEER_BYTES THEN {"ACK", "FIN"} ELSE {"ACK"}, w, Piece(c[1], c[2]))
      BY <2>4
    <3>2. Piece(c[1], c[2]) \in Seq(Int) /\ c[1] \in Int /\ a \in Nums
      BY <1>5, <1>6, <1>12
    <3>3. (IF c[2] > PEER_BYTES THEN {"ACK", "FIN"} ELSE {"ACK"}) \in SUBSET Flags
      BY <1>10
    <3> QED
      BY <1>8, <3>1, <3>2, <3>3
  <2> QED
    BY <1>9, <2>1, <2>2, <2>3, <2>4
<1> QED
  BY <1>2, <1>13

\* A reset is a segment.
LEMMA ResetType ==
  ASSUME NEW s \in Segments, NEW seq \in Nums, NEW ack \in Nums, NEW flg \in SUBSET Flags
  PROVE  Reset(s, seq, ack, flg) \in Segments
<1>1. <<>> \in Seq(Int) /\ 0 \in Nat
  BY EmptySeq
<1> QED
  BY <1>1, SegmentFields, SegmentType DEF Reset

\* A step that only answers a segment.
LEMMA Answers ==
  ASSUME TcpInv, NEW r \in Segments, Transmit(<<r>>), UNCHANGED <<pcb, used, hist, call, owned>>
  PROVE  TcpInv'
<1>1. peer' \in [FPORTS -> Peers]
  BY Parts, OneSegment, TransmitType
<1>2. Held' \subseteq Held /\ owned' \subseteq Ids /\ call' \in CallType /\ (call'.op # "none" => call'.id \in Ids)
  BY Parts, HeldSame
<1> QED
  BY <1>1, <1>2, SameBlocks

\* A segment for no block changes none.
LEMMA ClosedStep ==
  ASSUME TcpInv, NEW s \in Segments, NEW i, arrives_closed(i, s), UNCHANGED <<call, owned>>
  PROVE  TcpInv'
<1>1. s.ack \in Nums /\ Add(s.seq, SegLen(s)) \in Nums /\ 0 \in Nums
  <2>1. s.ack \in Nums /\ s.seq \in Int /\ SegLen(s) \in Int
    BY SegmentFields
  <2>2. Add(s.seq, SegLen(s)) \in Nums
    BY <2>1, AddNum
  <2> QED
    BY <2>1, <2>2, Numbers
<1>2. {"RST"} \in SUBSET Flags /\ {"RST", "ACK"} \in SUBSET Flags
  BY DEF Flags
<1>3. PICK r : r = IF "ACK" \in s.flg THEN Reset(s, s.ack, 0, {"RST"}) ELSE Reset(s, 0, Add(s.seq, SegLen(s)), {"RST", "ACK"})
  OBVIOUS
<1>4. r \in Segments
  BY <1>1, <1>2, <1>3, ResetType
<1>5. Transmit(<<r>>) /\ UNCHANGED <<pcb, used, hist>>
  BY <1>3 DEF arrives_closed
<1> QED
  BY <1>4, <1>5, Answers

\* A segment without a place in the state it meets is answered with a reset.
LEMMA Refused ==
  ASSUME TcpInv, NEW s \in Segments, Transmit(<<Reset(s, s.ack, 0, {"RST"})>>),
         UNCHANGED <<pcb, used, hist, call, owned>>
  PROVE  TcpInv'
<1>1. s.ack \in Nums /\ 0 \in Nums
  BY SegmentFields, Numbers
<1>2. {"RST"} \in SUBSET Flags
  BY DEF Flags
<1>3. PICK r : r = Reset(s, s.ack, 0, {"RST"})
  OBVIOUS
<1>4. r \in Segments
  BY <1>1, <1>2, <1>3, ResetType
<1>5. Transmit(<<r>>)
  BY <1>3
<1> QED
  BY <1>4, <1>5, Answers

\* The history of a block that has just been taken.
LEMMA NoHistoryType == NoHistory \in Histories /\ ~NoHistory.bound
<1>1. <<>> \in Seq(Int) /\ 0 \in Nat
  BY EmptySeq
<1> QED
  BY <1>1 DEF NoHistory, Histories

\* Initial sequence numbers.
LEMMA RandomType ==
  ASSUME NEW r \in Random, used \in 0 .. Len(ISS)
  PROVE  r \in Nums /\ used + 1 \in 0 .. Len(ISS)
<1>1. ISS \in Seq(Nums)
  BY TcpAssumption DEF Nums
<1>2. used < Len(ISS) /\ r = ISS[used + 1]
  BY DEF Random
<1>3. used + 1 \in 1 .. Len(ISS)
  BY <1>1, <1>2
<1> QED
  BY <1>1, <1>2, <1>3

\* A SYN in LISTEN.
LEMMA ListenStep ==
  ASSUME TcpInv, NEW s \in Segments, s.fport # 0, s.fport \in Nat,
         NEW i, i = tcp_pcb_select(s.lport, s.fport), arrives_listen(i, s), UNCHANGED <<call, owned>>
  PROVE  TcpInv'
<1>1. i \in Ids /\ pcb[i].state = "LISTEN" /\ pcb[i].lport = s.lport
  <2>1. i # NONE /\ pcb[i].state = "LISTEN"
    BY DEF arrives_listen
  <2>2. i \in Ids \cup {NONE} /\ (i \in Ids => pcb[i].lport = s.lport)
    BY Selects
  <2> QED
    BY <2>1, <2>2
<1>2. pcb[i] \in Pcbs /\ Sound(pcb[i]) /\ pcb[i].fport = 0 /\ s.lport \in Nat
  BY <1>1, Parts, PcbFields DEF Sound
<1>3. \A j \in Ids : pcb[j].lport # s.lport \/ pcb[j].fport # s.fport
  BY <1>1, <1>2, Selects
<1>4. CASE Transmit(<<Reset(s, s.ack, 0, {"RST"})>>) /\ UNCHANGED <<pcb, used, hist>>
  BY <1>4, Refused
<1>5. ASSUME NEW n \in (IF pcb[i].mode = "socket" THEN FirstFree ELSE {i}), NEW r \in Random,
             NEW p, p = [(IF n = i THEN pcb[i] ELSE [pcb[n] EXCEPT !.mode = "socket", !.parent = i])
                          EXCEPT !.lport = s.lport, !.fport = s.fport, !.rwnd = BUF,
                                 !.rnxt = Add(s.seq, 1), !.iss = r],
             pcb' = [pcb EXCEPT ![n] = [Queued(p, {"SYN", "ACK"}, <<>>)
                                EXCEPT !.nxt = Add(r, 1), !.una = r, !.state = "SYN_RECEIVED"]],
             Transmit(<<Sent(p, {"SYN", "ACK"}, <<>>)>>),
             used' = used + 1,
             hist' = [hist EXCEPT ![n] = NoHistory]
      PROVE  TcpInv'
  <2>1. n \in Ids /\ (n = i \/ pcb[n].state = "FREE")
    BY <1>1, <1>5 DEF FirstFree
  <2>2. PICK o \in Pcbs : o = pcb[n] /\ Sound(o)
    BY <2>1, Parts
  <2>3. o.state \in {"FREE", "LISTEN"} /\ o.fport = 0 /\ o.buf = <<>> /\ o.parent = NONE
    BY <1>1, <2>1, <2>2 DEF Sound
  <2>4. ~Waits(pcb, n)
    BY <2>1, <2>2, <2>3, NoWait, Parts DEF Unready
  <2>5. PICK par \in Ids \cup {NONE}, m \in Modes : /\ par = IF n = i THEN o.parent ELSE i
                                                   /\ m = IF n = i THEN o.mode ELSE "socket"
    <3>1. o.parent \in Ids \cup {NONE} /\ o.mode \in Modes /\ "socket" \in Modes
      BY DEF Pcbs, Modes
    <3> QED
      BY <1>1, <3>1
  <2>6. PICK k \in Nums, x \in Nums, w \in 0 .. BUF : k = Add(s.seq, 1) /\ x = Add(r, 1) /\ w = BUF
    <3>1. r \in Nums /\ r \in Int
      BY <1>5, RandomType, Parts, NumInt
    <3>2. Add(s.seq, 1) \in Nums /\ Add(r, 1) \in Nums
      BY <3>1, SegmentFields, AddNum
    <3>3. BUF \in 0 .. BUF
      BY Numbers
    <3> QED
      BY <3>2, <3>3
  <2>7. r \in Nums /\ used' \in 0 .. Len(ISS)
    BY <1>5, RandomType, Parts
  <2>8. p = [o EXCEPT !.mode = m, !.parent = par, !.lport = s.lport, !.fport = s.fport, !.rwnd = w, !.rnxt = k, !.iss = r]
    BY <1>5, <2>2, <2>5, <2>6 DEF Pcbs
  <2>9. p \in Pcbs
    BY <1>2, <2>7, <2>8 DEF Pcbs
  <2>10. {"SYN", "ACK"} \in SUBSET Flags /\ <<>> \in Seq(Int)
    BY EmptySeq DEF Flags
  <2>11. PICK l \in Seq(Entries) : Queued(p, {"SYN", "ACK"}, <<>>) = [p EXCEPT !.queue = l]
    BY <2>9, <2>10, QueuedForm
  <2>12. PICK q : q = [p EXCEPT !.queue = l, !.nxt = x, !.una = r, !.state = "SYN_RECEIVED"]
    OBVIOUS
  <2>13. pcb' = [pcb EXCEPT ![n] = q]
    <3>1. [Queued(p, {"SYN", "ACK"}, <<>>) EXCEPT !.nxt = Add(r, 1), !.una = r, !.state = "SYN_RECEIVED"] = q
      BY <2>6, <2>9, <2>11, <2>12 DEF Pcbs
    <3> QED
      BY <1>5, <3>1
  <2>14. q \in Pcbs
    BY <2>7, <2>9, <2>12 DEF Pcbs, PcbStates
  <2>15. /\ q.state = "SYN_RECEIVED" /\ q.parent = par /\ q.backlog = o.backlog
         /\ q.buf = <<>> /\ q.rwnd = w /\ q.lport = s.lport /\ q.fport = s.fport
    BY <2>3, <2>8, <2>9, <2>12 DEF Pcbs
  <2>16. Sound(q)
    <3>1. Filled(q)
      BY <2>6, <2>15, Numbers DEF Filled
    <3> QED
      BY <2>15, <3>1 DEF Sound
  <2>17. n \in Held => Holdable(q)
    <3>1. n \in Held => n = i
      BY <2>1, Parts DEF Holdable
    <3>2. n = i => par = NONE
      BY <2>3, <2>5
    <3> QED
      BY <2>15, <3>1, <3>2 DEF Holdable
  <2>18. Kept([pcb EXCEPT ![n] = q], Held)
    <3>1. q.backlog = pcb[n].backlog
      BY <2>2, <2>15
    <3> QED
      BY <2>1, <2>4, <2>14, <2>16, <2>17, <3>1, KeptPut, Parts
  <2>19. hist' \in [Ids -> Histories] /\ \A j \in Ids : j # n /\ j \in Bound => j \in Bound'
    BY <1>5, <2>1, NoHistoryType, Parts DEF Bound
  <2>20. Ports(pcb', Bound')
    <3>1. \A j \in Ids : j # n => pcb[j].lport # q.lport \/ pcb[j].fport # q.fport
      BY <1>3, <2>15
    <3>2. pcb'[n] = q /\ \A j \in Ids : j # n => pcb'[j] = pcb[j]
      BY <2>1, <2>13, Parts
    <3>3. q.fport # 0
      BY <2>15
    <3>4. PICK R, D, E : R = pcb' /\ D = Bound /\ E = Bound'
      OBVIOUS
    <3>5. Ports(pcb, D)
      BY <3>4, Parts
    <3>6. PutAt(pcb, R, n, q) /\ Besides(D, E, n) /\ NewPair(pcb, n, q)
      BY <2>19, <3>1, <3>2, <3>4 DEF PutAt, Besides, NewPair
    <3>7. Ports(R, E)
      BY <2>1, <3>3, <3>5, <3>6, PortsNew
    <3> QED
      BY <3>4, <3>7
  <2>21. peer' \in [FPORTS -> Peers]
    BY <1>5, <2>9, <2>10, SentType, OneSegment, TransmitType, Parts
  <2>22. Kept(pcb', Held')
    BY <2>13, <2>18, HeldSame
  <2>23. pcb' \in [Ids -> Pcbs]
    BY <2>22 DEF Kept
  <2> QED
    BY <2>7, <2>19, <2>20, <2>21, <2>22, <2>23, InvNext, Parts
<1> QED
  BY <1>4, <1>5 DEF arrives_listen

\* A block in use changes, in a step that changes no other and nobody's hold.
LEMMA BlockStep ==
  ASSUME TcpInv, NEW i \in Ids, NEW q \in Pcbs, Sound(q), q.backlog = pcb[i].backlog,
         SamePorts(pcb[i], q), i \in Held => Holdable(q),
         Waits(pcb, i) => q.state \notin Unready,
         pcb' = [pcb EXCEPT ![i] = q], UNCHANGED <<call, owned, used>>,
         hist' \in [Ids -> Histories], Bound \subseteq Bound', peer' \in [FPORTS -> Peers]
  PROVE  TcpInv'
<1>1. Waits(pcb, i) => i \notin Held
  BY Parts DEF Kept
<1>2. Kept([pcb EXCEPT ![i] = q], Held)
  BY <1>1, KeptPut, Parts
<1>3. Kept(pcb', Held')
  BY <1>2, HeldSame
<1>4. PICK R, D, E : R = pcb' /\ D = Bound /\ E = Bound'
  OBVIOUS
<1>5. \A j \in Ids : PortsFree(R[j], j, E) \/ (SamePorts(pcb[j], R[j]) /\ (j \in D => j \in E))
  <2> TAKE j \in Ids
  <2>1. SamePorts(pcb[j], R[j])
    <3>1. CASE j = i
      BY <1>4, <3>1, Parts
    <3>2. CASE j # i
      <4>1. R[j] = pcb[j]
        BY <1>4, <3>2, Parts
      <4> QED
        BY <4>1 DEF SamePorts
    <3> QED
      BY <3>1, <3>2
  <2> QED
    BY <1>4, <2>1
<1>6. Ports(R, E)
  <2>1. Ports(pcb, D)
    BY <1>4, Parts
  <2> QED
    BY <1>5, <2>1, PortsStay
<1>7. pcb' \in [Ids -> Pcbs]
  BY <1>3 DEF Kept
<1> QED
  BY <1>3, <1>4, <1>6, <1>7, InvNext, Parts

\* A SYN in SYN_SENT, with or without an acknowledgement of ours.
LEMMA SynSentStep ==
  ASSUME TcpInv, NEW s \in Segments, NEW i, i = tcp_pcb_select(s.lport, s.fport),
         arrives_syn_sent(i, s), UNCHANGED <<call, owned>>
  PROVE  TcpInv'
<1>1. i \in Ids /\ pcb[i].state = "SYN_SENT" /\ UNCHANGED used
  <2>1. i # NONE /\ pcb[i].state = "SYN_SENT" /\ UNCHANGED used
    BY DEF arrives_syn_sent
  <2>2. i \in Ids \cup {NONE}
    BY Selects
  <2> QED
    BY <2>1, <2>2
<1>2. PICK p \in Pcbs : p = pcb[i] /\ Sound(p)
  BY <1>1, Parts
<1>3. p.state = "SYN_SENT" /\ p.parent = NONE /\ p.fport # 0 /\ Filled(p)
  BY <1>1, <1>2 DEF Sound
<1> DEFINE ok == "ACK" \in s.flg /\ p.una <= s.ack /\ s.ack <= p.nxt
           a == [p EXCEPT !.rnxt = Add(s.seq, 1)]
           b == IF ok THEN tcp_retransmit_queue_cleanup([a EXCEPT !.una = s.ack]) ELSE a
<1>4. AsBefore(p, b)
  <2>1. PICK k \in Nums : k = Add(s.seq, 1)
    BY SegmentFields, AddNum
  <2>2. s.ack \in Nums
    BY SegmentFields
  <2>3. a \in Pcbs /\ a = [p EXCEPT !.rnxt = k]
    BY <2>1 DEF Pcbs
  <2>4. PICK c \in Pcbs : c = [a EXCEPT !.una = s.ack]
    <3>1. [a EXCEPT !.una = s.ack] \in Pcbs
      BY <2>2, <2>3 DEF Pcbs
    <3> QED
      BY <3>1
  <2>5. PICK w \in Seq(Entries) : tcp_retransmit_queue_cleanup(c) = [c EXCEPT !.queue = w]
    BY CleanupForm
  <2>6. b = a \/ b = [c EXCEPT !.queue = w]
    BY <2>4, <2>5
  <2>7. AsBefore(p, a)
    BY <2>1, <2>3 DEF AsBefore, Pcbs
  <2>8. AsBefore(p, [c EXCEPT !.queue = w])
    BY <2>2, <2>3, <2>4 DEF AsBefore, Pcbs
  <2> QED
    BY <2>6, <2>7, <2>8
<1>5. PICK e \in Pcbs : e = b /\ AsBefore(p, e)
  BY <1>4 DEF AsBefore
<1>6. {"SYN", "ACK"} \in SUBSET Flags /\ <<>> \in Seq(Int)
  BY EmptySeq DEF Flags
<1>7. \/ Transmit(<<Reset(s, s.ack, 0, {"RST"})>>) /\ UNCHANGED <<pcb, hist>>
      \/ /\ Transmit(<<Acks(e)>>) /\ UNCHANGED hist
         /\ pcb' = [pcb EXCEPT ![i] = [e EXCEPT !.state = "ESTABLISHED",
                            !.swnd = s.wnd, !.wl1 = s.seq, !.wl2 = s.ack]]
      \/ /\ Transmit(<<Sent(e, {"SYN", "ACK"}, <<>>)>>) /\ UNCHANGED hist
         /\ pcb' = [pcb EXCEPT ![i] = [Queued(e, {"SYN", "ACK"}, <<>>) EXCEPT !.state = "SYN_RECEIVED"]]
  BY <1>2, <1>5 DEF arrives_syn_sent
<1> HIDE DEF b, a, ok
<1>8. ASSUME NEW q \in Pcbs, q.state \in {"ESTABLISHED", "SYN_RECEIVED"}, q.lport = e.lport, q.fport = e.fport, q.parent = e.parent,
             q.backlog = e.backlog, q.buf = e.buf, q.rwnd = e.rwnd, pcb' = [pcb EXCEPT ![i] = q],
             NEW r \in Segments, Transmit(<<r>>), UNCHANGED hist
      PROVE  TcpInv'
  <2>1. q.parent = NONE /\ q.fport # 0 /\ Filled(q) /\ q.backlog = pcb[i].backlog /\ q.lport = p.lport /\ q.fport = p.fport
    BY <1>2, <1>3, <1>5, <1>8 DEF AsBefore, Filled
  <2>2. Sound(q) /\ Holdable(q) /\ SamePorts(pcb[i], q)
    BY <1>2, <1>8, <2>1 DEF Sound, Holdable, SamePorts
  <2>3. ~Waits(pcb, i)
    BY <1>1, NoWait, Parts DEF Unready
  <2>4. peer' \in [FPORTS -> Peers]
    BY <1>8, Parts, OneSegment, TransmitType
  <2>5. hist' \in [Ids -> Histories] /\ Bound \subseteq Bound'
    BY <1>8, Parts DEF Bound
  <2> QED
    BY <1>1, <1>8, <2>1, <2>2, <2>3, <2>4, <2>5, BlockStep
<1>9. CASE Transmit(<<Reset(s, s.ack, 0, {"RST"})>>) /\ UNCHANGED <<pcb, hist>>
  BY <1>1, <1>9, Refused
<1>10. CASE /\ Transmit(<<Acks(e)>>) /\ UNCHANGED hist
            /\ pcb' = [pcb EXCEPT ![i] = [e EXCEPT !.state = "ESTABLISHED",
                            !.swnd = s.wnd, !.wl1 = s.seq, !.wl2 = s.ack]]
  <2>1. s.wnd \in Nat /\ s.seq \in Nums /\ s.ack \in Nums
    BY SegmentFields
  <2>2. PICK q : q = [e EXCEPT !.state = "ESTABLISHED", !.swnd = s.wnd, !.wl1 = s.seq, !.wl2 = s.ack]
    OBVIOUS
  <2>3. q \in Pcbs
    BY <2>1, <2>2 DEF Pcbs, PcbStates
  <2>4. /\ q.state = "ESTABLISHED" /\ q.lport = e.lport /\ q.fport = e.fport /\ q.parent = e.parent
        /\ q.backlog = e.backlog /\ q.buf = e.buf /\ q.rwnd = e.rwnd
    BY <2>2 DEF Pcbs
  <2>5. Acks(e) \in Segments
    BY AcksType
  <2>6. pcb' = [pcb EXCEPT ![i] = q]
    BY <1>10, <2>2
  <2> QED
    BY <1>8, <1>10, <2>3, <2>4, <2>5, <2>6
<1>11. CASE /\ Transmit(<<Sent(e, {"SYN", "ACK"}, <<>>)>>) /\ UNCHANGED hist
            /\ pcb' = [pcb EXCEPT ![i] = [Queued(e, {"SYN", "ACK"}, <<>>) EXCEPT !.state = "SYN_RECEIVED"]]
  <2>1. PICK w \in Seq(Entries) : Queued(e, {"SYN", "ACK"}, <<>>) = [e EXCEPT !.queue = w]
    BY <1>6, QueuedForm
  <2>2. PICK q : q = [e EXCEPT !.queue = w, !.state = "SYN_RECEIVED"]
    OBVIOUS
  <2>3. q \in Pcbs
    BY <2>2 DEF Pcbs, PcbStates
  <2>4. /\ q.state = "SYN_RECEIVED" /\ q.lport = e.lport /\ q.fport = e.fport /\ q.parent = e.parent
        /\ q.backlog = e.backlog /\ q.buf = e.buf /\ q.rwnd = e.rwnd
    BY <2>2 DEF Pcbs
  <2>5. Sent(e, {"SYN", "ACK"}, <<>>) \in Segments
    BY <1>6, SentType
  <2>6. pcb' = [pcb EXCEPT ![i] = q]
    BY <1>11, <2>1, <2>2 DEF Pcbs
  <2> QED
    BY <1>8, <1>11, <2>3, <2>4, <2>5, <2>6
<1> QED
  BY <1>7, <1>9, <1>10, <1>11

\* A step in which no block gets ports.
LEMMA NoPortStep ==
  ASSUME TcpInv, Kept(pcb', Held'),
         \A j \in Ids : SamePorts(pcb[j], pcb'[j]) \/ pcb'[j].lport = 0,
         peer' \in [FPORTS -> Peers], hist' \in [Ids -> Histories], Bound \subseteq Bound',
         call' \in CallType, call'.op # "none" => call'.id \in Ids,
         owned' \subseteq Ids, used' \in 0 .. Len(ISS)
  PROVE  TcpInv'
<1>1. PICK R, D, E : R = pcb' /\ D = Bound /\ E = Bound'
  OBVIOUS
<1>2. \A j \in Ids : PortsFree(R[j], j, E) \/ (SamePorts(pcb[j], R[j]) /\ (j \in D => j \in E))
  BY <1>1 DEF PortsFree
<1>3. Ports(pcb, D)
  BY <1>1, Parts
<1>4. Ports(R, E)
  BY <1>2, <1>3, PortsStay
<1>5. pcb' \in [Ids -> Pcbs]
  BY DEF Kept
<1> QED
  BY <1>1, <1>4, <1>5, InvNext

\* A block that keeps its backlog disturbs no backlog.
LEMMA PutWaits ==
  ASSUME NEW B \in [Ids -> Pcbs], NEW i \in Ids, NEW p, p.backlog = B[i].backlog, NEW h
  PROVE  Waits([B EXCEPT ![i] = p], h) <=> Waits(B, h)
<1>1. PICK R : R = [B EXCEPT ![i] = p]
  OBVIOUS
<1>2. \A j \in Ids : R[j].backlog = B[j].backlog
  BY <1>1
<1>3. \A j \in Ids, k \in Nat : At(R, j, k, h) <=> At(B, j, k, h)
  BY <1>2 DEF At
<1> QED
  BY <1>1, <1>3 DEF Waits

\* tcp_pcb_release leaves a block alone or clears it.
LEMMA ReleaseEach ==
  ASSUME NEW B \in [Ids -> Pcbs], NEW i \in Ids, NEW asleep, NEW j \in Ids
  PROVE  /\ tcp_pcb_release(B, i, asleep)[j] = B[j] \/ tcp_pcb_release(B, i, asleep)[j] = Blank
         /\ tcp_pcb_release(B, i, asleep) \in [Ids -> Pcbs]
<1>1. Blank \in Pcbs
  BY BlankTrue
<1> QED
  BY <1>1 DEF tcp_pcb_release

\* Entering a block into the backlog of its parent changes nothing else of any block.
LEMMA BacklogEach ==
  ASSUME NEW B \in [Ids -> Pcbs], NEW i \in Ids, NEW j \in Ids
  PROVE  /\ WithBacklog(B, i)[j].lport = B[j].lport /\ WithBacklog(B, i)[j].fport = B[j].fport
         /\ WithBacklog(B, i)[j].state = B[j].state
         /\ WithBacklog(B, i)[j].buf = B[j].buf /\ WithBacklog(B, i)[j].rnxt = B[j].rnxt
<1>1. CASE B[i].parent = NONE
  BY <1>1 DEF WithBacklog
<1>2. CASE B[i].parent # NONE
  <2>1. PICK h \in Ids : h = B[i].parent
    BY <1>2, PcbFields
  <2>2. PICK c : c = Append(B[h].backlog, i)
    OBVIOUS
  <2>3. WithBacklog(B, i) = [B EXCEPT ![h].backlog = c]
    BY <1>2, <2>1, <2>2 DEF WithBacklog
  <2>4. B[h] \in Pcbs
    OBVIOUS
  <2>5. PICK q : q = [B[h] EXCEPT !.backlog = c]
    OBVIOUS
  <2>6. /\ q.lport = B[h].lport /\ q.fport = B[h].fport /\ q.state = B[h].state
        /\ q.buf = B[h].buf /\ q.rnxt = B[h].rnxt
    BY <2>4, <2>5 DEF Pcbs
  <2>7. WithBacklog(B, i)[j] = IF j = h THEN q ELSE B[j]
    BY <2>3, <2>5
  <2> QED
    BY <2>6, <2>7
<1> QED
  BY <1>1, <1>2

\* The block of a sleeping call is held, so tcp_pcb_release does not clear it.
LEMMA AsleepHeld == TcpInv => Asleep \subseteq Held
  BY DEF Asleep, Held, Polling

\* The last acknowledgement clears the block.
LEMMA LastAckStep ==
  ASSUME TcpInv, NEW i \in Ids, pcb[i].state = "LAST_ACK",
         pcb' = tcp_pcb_release([pcb EXCEPT ![i].state = "CLOSED"], i, Asleep),
         UNCHANGED <<peer, hist, call, owned, used>>
  PROVE  TcpInv'
<1>1. PICK p \in Pcbs : p = pcb[i] /\ Sound(p)
  BY Parts
<1>2. i \notin Held /\ ~Waits(pcb, i)
  BY NoWait, Parts DEF Holdable, Unready
<1>3. PICK q \in Pcbs : q = [p EXCEPT !.state = "CLOSED"]
  BY DEF Pcbs, PcbStates
<1>4. /\ q.state = "CLOSED" /\ q.fport = p.fport /\ q.lport = p.lport /\ q.backlog = p.backlog
      /\ q.buf = p.buf /\ q.queue = p.queue /\ q.parent = p.parent /\ p.fport # 0
  BY <1>1, <1>3 DEF Pcbs, Sound
<1>5. Sound(q) /\ SamePorts(pcb[i], q)
  BY <1>1, <1>4 DEF Sound, SamePorts
<1>6. PICK B : B = [pcb EXCEPT ![i] = q]
  OBVIOUS
<1>7. Kept(B, Held)
  <2>1. q.backlog = pcb[i].backlog
    BY <1>1, <1>4
  <2> QED
    BY <1>2, <1>5, <1>6, <2>1, KeptPut, Parts
<1>8. ~Waits(B, i) /\ B \in [Ids -> Pcbs]
  <2>1. q.backlog = pcb[i].backlog
    BY <1>1, <1>4
  <2> QED
    BY <1>2, <1>6, <2>1, PutWaits, Parts
<1>9. pcb' = tcp_pcb_release(B, i, Asleep)
  BY <1>1, <1>3, <1>6
<1>10. Kept(pcb', Held')
  <2>1. Held \subseteq Held \ {i} /\ Asleep \subseteq Held
    BY <1>2, AsleepHeld
  <2>2. Kept(pcb', Held)
    BY <1>7, <1>8, <1>9, <2>1, KeptRelease
  <2> QED
    BY <2>2, HeldSame
<1>11. \A j \in Ids : SamePorts(pcb[j], pcb'[j]) \/ pcb'[j].lport = 0
  <2> TAKE j \in Ids
  <2>1. pcb'[j] = B[j] \/ pcb'[j] = Blank
    BY <1>8, <1>9, ReleaseEach
  <2>2. B[j] = pcb[j] \/ (j = i /\ B[j] = q)
    BY <1>6, Parts
  <2>3. SamePorts(pcb[j], pcb[j])
    BY DEF SamePorts
  <2> QED
    BY <1>5, <2>1, <2>2, <2>3, BlankTrue
<1>12. Bound \subseteq Bound'
  BY DEF Bound
<1> QED
  BY <1>10, <1>11, <1>12, NoPortStep, Parts

\* The handshake completes: the block becomes a connection, and waits for tcp_accept if
\* it came from a listening socket.
LEMMA Establishes ==
  ASSUME TcpInv, NEW i \in Ids, pcb[i].state = "SYN_RECEIVED",
         NEW P, P = WithBacklog([pcb EXCEPT ![i].state = "ESTABLISHED"], i)
  PROVE  /\ Kept(P, Held) /\ P[i].state = "ESTABLISHED"
         /\ \A j \in Ids : SamePorts(pcb[j], P[j])
<1>1. PICK p \in Pcbs : p = pcb[i] /\ Sound(p)
  BY Parts
<1>2. ~Waits(pcb, i) /\ (i \in Held => p.parent = NONE)
  BY <1>1, NoWait, Parts DEF Holdable, Unready
<1>3. PICK q \in Pcbs : q = [p EXCEPT !.state = "ESTABLISHED"]
  BY DEF Pcbs, PcbStates
<1>4. /\ q.state = "ESTABLISHED" /\ q.fport = p.fport /\ q.lport = p.lport /\ q.backlog = p.backlog
      /\ q.buf = p.buf /\ q.queue = p.queue /\ q.parent = p.parent /\ q.rwnd = p.rwnd /\ p.fport # 0 /\ Filled(p)
  BY <1>1, <1>3 DEF Pcbs, Sound
<1>5. Sound(q)
  BY <1>4 DEF Sound, Filled
<1>6. PICK B : B = [pcb EXCEPT ![i] = q]
  OBVIOUS
<1>7. Kept(B, Held) /\ (Waits(B, i) <=> Waits(pcb, i)) /\ B[i] = q /\ B \in [Ids -> Pcbs]
  <2>1. q.backlog = pcb[i].backlog /\ q.state \in Live
    BY <1>1, <1>4 DEF Live
  <2> QED
    BY <1>5, <1>6, <2>1, KeptLive, PutWaits, Parts
<1>8. P = WithBacklog(B, i)
  BY <1>1, <1>3, <1>6
<1>9. Kept(P, Held)
  <2>1. B[i].state \notin Unready /\ (B[i].parent # NONE => i \notin Held)
    BY <1>2, <1>4, <1>7 DEF Unready
  <2> QED
    BY <1>2, <1>7, <1>8, <2>1, KeptBacklog
<1>10. \A j \in Ids : SamePorts(pcb[j], P[j])
  <2> TAKE j \in Ids
  <2>1. P[j].lport = B[j].lport /\ P[j].fport = B[j].fport /\ P[j].state = B[j].state
    BY <1>7, <1>8, BacklogEach
  <2>2. B[j] = pcb[j] \/ (j = i /\ B[j] = q)
    BY <1>6, Parts
  <2> QED
    BY <1>1, <1>4, <2>1, <2>2 DEF SamePorts
<1>11. P[i].state = "ESTABLISHED"
  BY <1>4, <1>7, <1>8, BacklogEach
<1> QED
  BY <1>9, <1>10, <1>11

\* Acknowledgements that go out in a step, if any.
LEMMA SomeSegments ==
  ASSUME NEW a \in Segments, NEW b \in Segments, NEW x, NEW y, x \in {<<>>, <<a>>}, y \in {<<>>, <<b>>}
  PROVE  x \o y \in Seq(Segments)
<1>1. <<>> \in Seq(Segments) /\ <<a>> \in Seq(Segments) /\ <<b>> \in Seq(Segments)
  BY EmptySeq, OneSegment
<1>2. x \in Seq(Segments) /\ y \in Seq(Segments)
  BY <1>1
<1> QED
  BY <1>2, ConcatProperties

\* An acceptable segment in a state with a connection.
LEMMA OtherwiseStep ==
  ASSUME TcpInv, NEW s \in Segments, NEW i, i = tcp_pcb_select(s.lport, s.fport),
         arrives_otherwise(i, s), UNCHANGED <<call, owned>>
  PROVE  TcpInv'
<1>1. /\ i \in Ids /\ UNCHANGED used /\ pcb[i].state \notin {"FREE", "CLOSED", "LISTEN", "SYN_SENT"}
  <2>1. i # NONE /\ UNCHANGED used /\ pcb[i].state \notin {"FREE", "CLOSED", "LISTEN", "SYN_SENT"}
    BY DEF arrives_otherwise
  <2>2. i \in Ids \cup {NONE}
    BY Selects
  <2> QED
    BY <2>1, <2>2
<1>2. PICK p \in Pcbs : p = pcb[i] /\ Sound(p)
  BY <1>1, Parts
<1> DEFINE opens == p.state = "SYN_RECEIVED" /\ p.una <= s.ack /\ s.ack <= p.nxt
<1>3. PICK P : P = IF opens THEN WithBacklog([pcb EXCEPT ![i].state = "ESTABLISHED"], i) ELSE pcb
  OBVIOUS
<1>4. /\ Kept(P, Held) /\ \A j \in Ids : SamePorts(pcb[j], P[j])
      /\ P[i].state = IF opens THEN "ESTABLISHED" ELSE p.state
  <2>1. CASE opens
    <3>1. pcb[i].state = "SYN_RECEIVED"
      BY <1>2, <2>1
    <3> QED
      BY <1>1, <1>3, <2>1, <3>1, Establishes
  <2>2. CASE ~opens
    <3>1. P = pcb
      BY <1>3, <2>2
    <3> QED
      BY <1>2, <2>2, <3>1, Parts DEF SamePorts
  <2> QED
    BY <2>1, <2>2
<1>5. PICK e \in Pcbs : e = P[i] /\ Sound(e)
  BY <1>1, <1>4 DEF Kept
<1> DEFINE synced == e.state \in Checked \ {"LAST_ACK"}
<1>6. PICK a : a = IF synced THEN FinAcked(Acked(e, s), s) ELSE e
  OBVIOUS
<1>7. PICK t : t = Text(a, s)
  OBVIOUS
<1>8. PICK f : f = Fin(t, s)
  OBVIOUS
<1>9. \/ Transmit(<<Acks(p)>>) /\ UNCHANGED <<pcb, hist>>
      \/ Transmit(<<Reset(s, s.ack, 0, {"RST"})>>) /\ UNCHANGED <<pcb, hist>>
      \/ /\ p.state = "LAST_ACK" /\ UNCHANGED <<peer, hist>>
         /\ pcb' = tcp_pcb_release([pcb EXCEPT ![i].state = "CLOSED"], i, Asleep)
      \/ Transmit(<<Acks(e)>>) /\ pcb' = P /\ UNCHANGED hist
      \/ /\ e.state \notin {"SYN_RECEIVED", "LAST_ACK"}
         /\ Transmit((IF HasText(a, s) THEN <<Acks(t)>> ELSE <<>>)
              \o (IF "FIN" \in s.flg THEN <<Acks([t EXCEPT !.rnxt = Add(s.seq, 1)])>> ELSE <<>>))
         /\ pcb' = [P EXCEPT ![i] = f]
         /\ hist' = [hist EXCEPT
               ![i].gap = @ \/ ((HasText(a, s) \/ f.state # t.state) /\ s.seq # p.rnxt),
               ![i].over = @ \/ (HasText(a, s) /\ Len(s.data) > a.rwnd),
               ![i].shrunk = @ \/ Room(a) < Room(e)]
  BY <1>2, <1>3, <1>5, <1>6, <1>7, <1>8 DEF arrives_otherwise
<1>10. Acks(p) \in Segments /\ Acks(e) \in Segments
  BY AcksType
<1>11. CASE Transmit(<<Acks(p)>>) /\ UNCHANGED <<pcb, hist>>
  BY <1>1, <1>10, <1>11, Answers
<1>12. CASE Transmit(<<Reset(s, s.ack, 0, {"RST"})>>) /\ UNCHANGED <<pcb, hist>>
  BY <1>1, <1>12, Refused
<1>13. CASE /\ p.state = "LAST_ACK" /\ UNCHANGED <<peer, hist>>
            /\ pcb' = tcp_pcb_release([pcb EXCEPT ![i].state = "CLOSED"], i, Asleep)
  <2>1. pcb[i].state = "LAST_ACK"
    BY <1>2, <1>13
  <2> QED
    BY <1>1, <1>13, <2>1, LastAckStep
<1>14. CASE Transmit(<<Acks(e)>>) /\ pcb' = P /\ UNCHANGED hist
  <2>1. peer' \in [FPORTS -> Peers]
    BY <1>10, <1>14, Parts, OneSegment, TransmitType
  <2>2. Kept(pcb', Held') /\ \A j \in Ids : SamePorts(pcb[j], pcb'[j])
    BY <1>4, <1>14, HeldSame
  <2>3. Bound \subseteq Bound'
    BY <1>14 DEF Bound
  <2> QED
    BY <1>1, <1>14, <2>1, <2>2, <2>3, NoPortStep, Parts
<1>15. CASE /\ e.state \notin {"SYN_RECEIVED", "LAST_ACK"}
            /\ Transmit((IF HasText(a, s) THEN <<Acks(t)>> ELSE <<>>)
                 \o (IF "FIN" \in s.flg THEN <<Acks([t EXCEPT !.rnxt = Add(s.seq, 1)])>> ELSE <<>>))
            /\ pcb' = [P EXCEPT ![i] = f]
            /\ hist' = [hist EXCEPT
                  ![i].gap = @ \/ ((HasText(a, s) \/ f.state # t.state) /\ s.seq # p.rnxt),
                  ![i].over = @ \/ (HasText(a, s) /\ Len(s.data) > a.rwnd),
                  ![i].shrunk = @ \/ Room(a) < Room(e)]
  <2>1. e.state \in Live /\ Filled(e) /\ e.fport # 0
    <3>1. e.state \in PcbStates
      BY PcbFields
    <3>2. e.state \notin {"FREE", "CLOSED", "LISTEN", "SYN_SENT", "SYN_RECEIVED", "LAST_ACK"}
      BY <1>1, <1>2, <1>4, <1>5, <1>15
    <3> QED
      BY <1>5, <3>1, <3>2 DEF Live, PcbStates, Sound
  <2>2. Follows(e, a)
    <3>1. Acked(e, s) \in Pcbs /\ Follows(e, Acked(e, s))
      BY AckedFollows DEF Follows, Alike
    <3>2. Follows(Acked(e, s), FinAcked(Acked(e, s), s))
      BY <3>1, FinAckedFollows
    <3>3. Follows(e, FinAcked(Acked(e, s), s)) /\ Follows(e, e)
      BY <3>1, <3>2, FollowsOn, FollowsSame
    <3> QED
      BY <1>6, <3>3
  <2>3. a \in Pcbs /\ Filled(a)
    BY <2>1, <2>2 DEF Follows, Alike
  <2>4. Follows(e, t)
    BY <1>7, <2>2, <2>3, TextFollows, FollowsOn
  <2>5. t \in Pcbs /\ t.state \in Live
    BY <1>5, <2>1, <2>4, FollowsSound
  <2>6. Follows(e, f)
    BY <1>8, <2>4, <2>5, FinFollows, FollowsOn
  <2>7. /\ f \in Pcbs /\ Sound(f) /\ f.backlog = e.backlog /\ f.state \in Live
        /\ f.lport = e.lport /\ f.fport = e.fport
    BY <1>5, <2>1, <2>6, FollowsSound
  <2>8. Kept([P EXCEPT ![i] = f], Held)
    BY <1>1, <1>4, <1>5, <2>7, KeptLive
  <2>9. Kept(pcb', Held')
    BY <1>15, <2>8, HeldSame
  <2>10. \A j \in Ids : SamePorts(pcb[j], pcb'[j])
    <3> TAKE j \in Ids
    <3>1. P \in [Ids -> Pcbs]
      BY <1>4 DEF Kept
    <3>2. pcb'[j] = IF j = i THEN f ELSE P[j]
      BY <1>15, <3>1
    <3>3. SamePorts(pcb[i], f)
      BY <1>1, <1>4, <1>5, <2>7 DEF SamePorts, Live
    <3> QED
      BY <1>4, <3>2, <3>3
  <2>11. hist' \in [Ids -> Histories] /\ Bound \subseteq Bound'
    <3>1. PICK h \in Histories : h = hist[i]
      BY <1>1, Parts
    <3>2. PICK x \in BOOLEAN, y \in BOOLEAN, z \in BOOLEAN :
            /\ x = (h.gap \/ ((HasText(a, s) \/ f.state # t.state) /\ s.seq # p.rnxt))
            /\ y = (h.over \/ (HasText(a, s) /\ Len(s.data) > a.rwnd))
            /\ z = (h.shrunk \/ Room(a) < Room(e))
      OBVIOUS
    <3>3. PICK g \in Histories : g = [h EXCEPT !.gap = x, !.over = y, !.shrunk = z]
      BY DEF Histories
    <3>4. g.bound = h.bound
      BY <3>3 DEF Histories
    <3>5. hist' = [hist EXCEPT ![i] = [h EXCEPT !.gap = h.gap \/ ((HasText(a, s) \/ f.state # t.state) /\ s.seq # p.rnxt),
                                                !.over = h.over \/ (HasText(a, s) /\ Len(s.data) > a.rwnd),
                                                !.shrunk = h.shrunk \/ Room(a) < Room(e)]]
      BY <1>1, <1>15, <3>1, Parts DEF Histories
    <3>6. hist' = [hist EXCEPT ![i] = g]
      BY <3>2, <3>3, <3>5, Zenon
    <3>7. \A j \in Ids : hist'[j] = IF j = i THEN g ELSE hist[j]
      BY <3>6, Parts
    <3> QED
      BY <1>1, <3>1, <3>3, <3>4, <3>6, <3>7, Parts DEF Bound
  <2>12. peer' \in [FPORTS -> Peers]
    <3>1. Add(s.seq, 1) \in Nums
      BY SegmentFields, AddNum
    <3>2. PICK u : u = [t EXCEPT !.rnxt = Add(s.seq, 1)]
      OBVIOUS
    <3>3. u \in Pcbs
      BY <2>5, <3>1, <3>2 DEF Pcbs
    <3>4. Acks(t) \in Segments /\ Acks(u) \in Segments
      BY <2>5, <3>3, AcksType
    <3>5. PICK x, y : x = (IF HasText(a, s) THEN <<Acks(t)>> ELSE <<>>) /\ y = (IF "FIN" \in s.flg THEN <<Acks(u)>> ELSE <<>>)
      OBVIOUS
    <3>6. x \in {<<>>, <<Acks(t)>>} /\ y \in {<<>>, <<Acks(u)>>}
      BY <3>5
    <3>7. x \o y \in Seq(Segments)
      BY <3>4, <3>6, SomeSegments
    <3>8. Transmit(x \o y)
      BY <1>15, <3>2, <3>5
    <3> QED
      BY <3>7, <3>8, TransmitType, Parts
  <2> QED
    BY <1>1, <2>9, <2>10, <2>11, <2>12, NoPortStep, Parts
<1> QED
  BY <1>9, <1>11, <1>12, <1>13, <1>14, <1>15

\* A segment that arrives.
LEMMA ArriveStep ==
  ASSUME TcpInv, NEW f \in FPORTS, NEW s \in PeerSegments(f), tcp_segment_arrives(s)
  PROVE  TcpInv'
<1>1. s \in Segments /\ s.fport # 0 /\ s.fport \in Nat
  BY ArrivingType
<1>2. PICK i : i = tcp_pcb_select(s.lport, s.fport)
  OBVIOUS
<1>3. UNCHANGED <<call, owned>> /\ (arrives_closed(i, s) \/ arrives_listen(i, s) \/ arrives_syn_sent(i, s) \/ arrives_otherwise(i, s))
  BY <1>2 DEF tcp_segment_arrives
<1>4. CASE arrives_closed(i, s)
  BY <1>1, <1>3, <1>4, ClosedStep
<1>5. CASE arrives_listen(i, s)
  BY <1>1, <1>2, <1>3, <1>5, ListenStep
<1>6. CASE arrives_syn_sent(i, s)
  BY <1>1, <1>2, <1>3, <1>6, SynSentStep
<1>7. CASE arrives_otherwise(i, s)
  BY <1>1, <1>2, <1>3, <1>7, OtherwiseStep
<1> QED
  BY <1>3, <1>4, <1>5, <1>6, <1>7

\* A turn of the timer.
LEMMA TimerStep ==
  ASSUME TcpInv, tcp_timer
  PROVE  TcpInv'
<1>1. PICK dead \in SUBSET {i \in Ids : pcb[i].state # "FREE" /\ pcb[i].queue # <<>>},
           due \in SUBSET UNION {{i} \X DOMAIN pcb[i].queue : i \in {j \in Ids : pcb[j].state # "FREE"}} :
          /\ pcb' = [i \in Ids |-> IF i \in dead THEN [pcb[i] EXCEPT !.state = "CLOSED"] ELSE pcb[i]]
          /\ peer' = EmitsAll(peer, due)
  BY DEF tcp_timer
<1>2. UNCHANGED <<call, owned, used, hist>>
  BY DEF tcp_timer
<1>3. peer' \in [FPORTS -> Peers]
  BY <1>1, TimerType, Parts
<1>4. Kept(pcb', Held')
  <2>1. \A i \in dead : i \in Ids => pcb[i].state # "FREE" /\ pcb[i].queue # <<>>
    OBVIOUS
  <2>2. Kept(pcb', Held)
    BY <1>1, <2>1, KeptTimer, Parts
  <2> QED
    BY <1>2, <2>2, HeldSame
<1>5. \A j \in Ids : SamePorts(pcb[j], pcb'[j])
  <2> TAKE j \in Ids
  <2>1. CASE j \in dead
    <3>1. PICK p \in Pcbs : p = pcb[j] /\ Sound(p)
      BY Parts
    <3>2. p.queue # <<>>
      BY <2>1, <3>1
    <3>3. PICK q : q = [p EXCEPT !.state = "CLOSED"]
      OBVIOUS
    <3>4. q.lport = p.lport /\ q.fport = p.fport
      BY <3>3 DEF Pcbs
    <3>5. pcb'[j] = q
      BY <1>1, <2>1, <3>1, <3>3
    <3> QED
      BY <3>1, <3>2, <3>4, <3>5 DEF SamePorts, Sound
  <2>2. CASE j \notin dead
    <3>1. pcb'[j] = pcb[j]
      BY <1>1, <2>2
    <3> QED
      BY <3>1 DEF SamePorts
  <2> QED
    BY <2>1, <2>2
<1>6. Bound \subseteq Bound'
  BY <1>2 DEF Bound
<1> QED
  BY <1>2, <1>3, <1>4, <1>5, <1>6, NoPortStep, Parts

\* The remote host opens a connection.
LEMMA PeerOpenStep ==
  ASSUME TcpInv, NEW f \in FPORTS, peer_open(f)
  PROVE  TcpInv'
<1>1. PICK lp \in SERVICES : peer' = [peer EXCEPT ![f].st = "syn", ![f].lport = lp]
  BY DEF peer_open
<1>2. UNCHANGED <<pcb, call, owned, used, hist>>
  BY DEF peer_open
<1>3. PICK q \in Peers : q = peer[f]
  BY Parts
<1>4. lp \in Int
  BY TcpAssumption
<1>5. PICK r : r = [q EXCEPT !.st = "syn", !.lport = lp]
  OBVIOUS
<1>6. r \in Peers
  BY <1>4, <1>5 DEF Peers
<1>7. peer' = [peer EXCEPT ![f] = r]
  BY <1>1, <1>3, <1>5, Parts
<1>8. peer' \in [FPORTS -> Peers]
  BY <1>6, <1>7, Parts
<1>9. Held' \subseteq Held /\ owned' \subseteq Ids /\ call' \in CallType /\ (call'.op # "none" => call'.id \in Ids)
  BY <1>2, Parts, HeldSame
<1> QED
  BY <1>2, <1>8, <1>9, SameBlocks

(***************************************************************************)
(* The callers' steps                                                      *)
(***************************************************************************)
\* A block nobody waits for in a backlog changes.
LEMMA PutKept ==
  ASSUME TcpInv, NEW i \in Ids, NEW q \in Pcbs, Sound(q), q.backlog = pcb[i].backlog, ~Waits(pcb, i),
         NEW G, G \subseteq Held \cup {i}, i \in G => Holdable(q), NEW R, R = [pcb EXCEPT ![i] = q]
  PROVE  Kept(R, G)
<1>1. Kept([pcb EXCEPT ![i] = q], G)
  BY KeptPut, Parts
<1> QED
  BY <1>1

\* One block that nobody waits for changes, whatever becomes of the rest.
LEMMA PutStep ==
  ASSUME TcpInv, NEW i \in Ids, NEW q \in Pcbs, Sound(q), q.backlog = pcb[i].backlog, ~Waits(pcb, i),
         Held' \subseteq Held \cup {i}, i \in Held' => Holdable(q),
         PortsFree(q, i, Bound') \/ (SamePorts(pcb[i], q) /\ (i \in Bound => i \in Bound')),
         pcb' = [pcb EXCEPT ![i] = q], peer' \in [FPORTS -> Peers], hist' \in [Ids -> Histories],
         Besides(Bound, Bound', i), call' \in CallType, call'.op # "none" => call'.id \in Ids,
         owned' \subseteq Ids, used' \in 0 .. Len(ISS)
  PROVE  TcpInv'
<1>1. PICK R, D, E : R = pcb' /\ D = Bound /\ E = Bound'
  OBVIOUS
<1>2. PICK G : G = Held'
  OBVIOUS
<1>3. Kept(R, G)
  <2>1. G \subseteq Held \cup {i} /\ (i \in G => Holdable(q)) /\ R = [pcb EXCEPT ![i] = q]
    BY <1>1, <1>2
  <2> QED
    BY <2>1, PutKept
<1>4. Kept(pcb', Held')
  BY <1>1, <1>2, <1>3
<1>5. \A j \in Ids : PortsFree(R[j], j, E) \/ (SamePorts(pcb[j], R[j]) /\ (j \in D => j \in E))
  <2> TAKE j \in Ids
  <2>1. CASE j = i
    <3>1. R[j] = q
      BY <1>1, <2>1, Parts
    <3> QED
      BY <1>1, <2>1, <3>1
  <2>2. CASE j # i
    <3>1. R[j] = pcb[j]
      BY <1>1, <2>2, Parts
    <3>2. j \in D => j \in E
      BY <1>1, <2>2 DEF Besides
    <3> QED
      BY <3>1, <3>2 DEF SamePorts
  <2> QED
    BY <2>1, <2>2
<1>6. Ports(R, E)
  <2>1. Ports(pcb, D)
    BY <1>1, Parts
  <2> QED
    BY <1>5, <2>1, PortsStay
<1>7. pcb' \in [Ids -> Pcbs]
  BY <1>4 DEF Kept
<1> QED
  BY <1>1, <1>4, <1>6, <1>7, InvNext

\* A block is released by its caller.
LEMMA ReleaseStep ==
  ASSUME TcpInv, NEW i \in Ids, ~Waits(pcb, i), pcb' = tcp_pcb_release(pcb, i, {}), Returns,
         owned' = owned \ {i}, UNCHANGED <<peer, hist>>, used' \in 0 .. Len(ISS)
  PROVE  TcpInv'
<1>1. Held' = owned \ {i} /\ call' \in CallType /\ call'.op = "none" /\ owned' \subseteq Ids
  BY HeldReturns, Parts
<1>2. owned \ {i} \subseteq Held \ {i}
  BY DEF Held
<1>3. Kept(pcb', Held')
  BY <1>1, <1>2, KeptRelease, Parts
<1>4. \A j \in Ids : SamePorts(pcb[j], pcb'[j]) \/ pcb'[j].lport = 0
  <2> TAKE j \in Ids
  <2>1. pcb'[j] = pcb[j] \/ pcb'[j] = Blank
    BY ReleaseEach, Parts
  <2>2. SamePorts(pcb[j], pcb[j])
    BY DEF SamePorts
  <2> QED
    BY <2>1, <2>2, BlankTrue
<1>5. Bound \subseteq Bound'
  BY DEF Bound
<1> QED
  BY <1>1, <1>3, <1>4, <1>5, NoPortStep, Parts

\* A call returns and has changed nothing but what it holds.
LEMMA ReturnStep ==
  ASSUME TcpInv, Returns, UNCHANGED <<pcb, used, hist, peer>>, owned' \subseteq Held
  PROVE  TcpInv'
<1>1. Held' = owned' /\ call' \in CallType /\ call'.op = "none"
  BY HeldReturns
<1> QED
  BY <1>1, SameBlocks, Parts

\* A call goes to sleep again and has changed nothing.
LEMMA SleepStep ==
  ASSUME TcpInv, NEW c \in CallType, Sleeps(c), c.op # "none", c.id \in Held,
         UNCHANGED <<pcb, used, hist, peer, owned>>
  PROVE  TcpInv'
<1>1. Held' = owned' \cup {c.id} /\ call' \in CallType /\ call'.op # "none" /\ call'.id = c.id
  BY HeldSleeps
<1>2. owned \subseteq Held
  BY DEF Held
<1> QED
  BY <1>1, <1>2, SameBlocks, Parts

\* What a held block is.
LEMMA HeldWhat ==
  ASSUME TcpInv
  PROVE  /\ owned \subseteq Held
         /\ call.op # "none" => call.id \in Held
         /\ \A i \in Held : i \in Ids /\ ~Waits(pcb, i) /\ Holdable(pcb[i])
<1>1. owned \subseteq Held /\ (call.op # "none" => call.id \in Held)
  BY DEF Held
<1>2. \A i \in Held : i \in Ids /\ ~Waits(pcb, i) /\ Holdable(pcb[i])
  BY Parts, NoWait
<1> QED
  BY <1>1, <1>2

\* The block tcp_pcb_alloc finds is blank and waited for by nobody.
LEMMA FirstFreeWhat ==
  ASSUME TcpInv, NEW i \in FirstFree
  PROVE  /\ i \in Ids /\ ~Waits(pcb, i)
         /\ pcb[i].state = "FREE" /\ pcb[i].fport = 0 /\ pcb[i].lport = 0
<1>1. i \in Ids /\ pcb[i].state = "FREE"
  BY DEF FirstFree
<1> QED
  BY <1>1, NoWait, Parts DEF Unready, Sound

\* tcp_open
LEMMA OpenStep ==
  ASSUME TcpInv, tcp_open
  PROVE  TcpInv'
<1>1. call.op = "none" /\ owned = {} /\ UNCHANGED <<peer, used>>
  BY DEF tcp_open
<1>2. CASE Returns /\ UNCHANGED <<pcb, owned, hist>>
  BY <1>1, <1>2, ReturnStep, HeldWhat
<1>3. ASSUME NEW i \in FirstFree,
             pcb' = [pcb EXCEPT ![i].state = "CLOSED", ![i].mode = "socket"],
             owned' = owned \cup {i}, hist' = [hist EXCEPT ![i] = NoHistory], Returns
      PROVE  TcpInv'
  <2>1. i \in Ids /\ ~Waits(pcb, i) /\ pcb[i].fport = 0 /\ pcb[i].lport = 0
    BY FirstFreeWhat
  <2>2. PICK p \in Pcbs : p = pcb[i] /\ Sound(p)
    BY <2>1, Parts
  <2>3. PICK q : q = [p EXCEPT !.state = "CLOSED", !.mode = "socket"]
    OBVIOUS
  <2>4. q \in Pcbs
    BY <2>3 DEF Pcbs, PcbStates, Modes
  <2>5. /\ q.state = "CLOSED" /\ q.lport = 0 /\ q.fport = 0 /\ q.backlog = pcb[i].backlog
        /\ q.buf = p.buf /\ q.queue = p.queue /\ q.parent = p.parent
    BY <2>1, <2>2, <2>3 DEF Pcbs
  <2>6. Sound(q) /\ Holdable(q) /\ PortsFree(q, i, Bound')
    BY <2>1, <2>2, <2>5 DEF Sound, Holdable, PortsFree
  <2>7. pcb' = [pcb EXCEPT ![i] = q]
    BY <1>3, <2>1, <2>2, <2>3, Parts
  <2>8. Held' = owned' /\ call' \in CallType /\ call'.op = "none" /\ owned' = {i}
    BY <1>1, <1>3, HeldReturns
  <2>9. hist' \in [Ids -> Histories] /\ Besides(Bound, Bound', i)
    BY <1>3, <2>1, NoHistoryType, Parts DEF Bound, Besides
  <2>10. peer' \in [FPORTS -> Peers] /\ used' \in 0 .. Len(ISS)
    BY <1>1, Parts
  <2> QED
    BY <2>1, <2>4, <2>5, <2>6, <2>7, <2>8, <2>9, <2>10, PutStep
<1> QED
  BY <1>2, <1>3 DEF tcp_open

\* Releasing a block does not depend on what it holds, but for its backlog.
LEMMA ReleaseSame ==
  ASSUME NEW B \in [Ids -> Pcbs], NEW i \in Ids, NEW p, p.backlog = B[i].backlog
  PROVE  tcp_pcb_release([B EXCEPT ![i] = p], i, {}) = tcp_pcb_release(B, i, {})
<1>1. PICK R : R = [B EXCEPT ![i] = p]
  OBVIOUS
<1>2. \A j \in Ids : R[j].backlog = B[j].backlog /\ ToSet(B[j].backlog) \subseteq Ids
  <2> TAKE j \in Ids
  <2>1. R[j].backlog = B[j].backlog
    BY <1>1
  <2>2. B[j].backlog \in Seq(Ids)
    BY PcbFields
  <2> QED
    BY <2>1, <2>2 DEF ToSet
<1>3. \A S \in SUBSET Ids : Closed(R, S, {}) <=> Closed(B, S, {})
  BY <1>2 DEF Closed
<1>4. Below(R, i, {}) = Below(B, i, {})
  BY <1>3 DEF Below
<1>5. \A j \in Ids : j \notin Below(B, i, {}) => R[j] = B[j]
  BY <1>1 DEF Below
<1>6. tcp_pcb_release(R, i, {}) = [j \in Ids |-> IF j \in Below(R, i, {}) THEN Blank ELSE R[j]]
  BY DEF tcp_pcb_release
<1>7. tcp_pcb_release(B, i, {}) = [j \in Ids |-> IF j \in Below(B, i, {}) THEN Blank ELSE B[j]]
  BY DEF tcp_pcb_release
<1>8. tcp_pcb_release(R, i, {}) = tcp_pcb_release(B, i, {})
  BY <1>4, <1>5, <1>6, <1>7
<1> QED
  BY <1>1, <1>8

\* The call that waits for a connection.
LEMMA OpeningType ==
  ASSUME NEW op \in {"open", "connect"}, NEW i \in Ids, NEW old \in PcbStates
  PROVE  /\ Opening(op, i) \in CallType /\ Opening(op, i).op # "none" /\ Opening(op, i).id = i
         /\ [Opening(op, i) EXCEPT !.old = old] \in CallType
         /\ [Opening(op, i) EXCEPT !.old = old].op # "none" /\ [Opening(op, i) EXCEPT !.old = old].id = i
  BY DEF Opening, Idle, CallType, Calls, PcbStates

\* An active open of a block without a connection.
LEMMA ConnectsStep ==
  ASSUME TcpInv, call.op = "none", NEW i \in Ids, NEW lp \in Nat, NEW f \in FPORTS, NEW op \in {"open", "connect"},
         pcb[i].fport = 0, ~Waits(pcb, i),
         (op = "connect" /\ i \in Bound) \/ \A j \in Ids : pcb[j].lport # lp \/ pcb[j].fport # f,
         Connects([pcb EXCEPT ![i].lport = lp, ![i].fport = f], i, op)
  PROVE  TcpInv'
<1>1. PICK o \in Pcbs : o = pcb[i] /\ Sound(o)
  BY Parts
<1>2. o.buf = <<>> /\ o.parent = NONE
  BY <1>1 DEF Sound
<1>3. f \in Nat /\ f # 0
  BY TcpAssumption
<1>4. PICK c : c = [o EXCEPT !.lport = lp, !.fport = f]
  OBVIOUS
<1>5. PICK P : P = [pcb EXCEPT ![i] = c]
  OBVIOUS
<1>6. P = [pcb EXCEPT ![i].lport = lp, ![i].fport = f] /\ P[i] = c
  BY <1>1, <1>4, <1>5, Parts
<1>7. c \in Pcbs /\ c.backlog = pcb[i].backlog
  BY <1>1, <1>3, <1>4 DEF Pcbs
<1>8. PICK r \in Random :
        LET p == [c EXCEPT !.rwnd = BUF, !.iss = r]
        IN  /\ used' = used + 1
            /\ \/ /\ pcb' = [P EXCEPT ![i] = Active(Queued(p, {"SYN"}, <<>>), r)]
                  /\ Transmit(<<Sent(p, {"SYN"}, <<>>)>>)
                  /\ hist' = [hist EXCEPT ![i] = [NoHistory EXCEPT !.bound = op = "connect" /\ hist[i].bound]]
                  /\ Sleeps(Opening(op, i))
                  /\ UNCHANGED owned
               \/ /\ pcb' = tcp_pcb_release(P, i, {})
                  /\ Returns
                  /\ owned' = owned \ {i}
                  /\ UNCHANGED <<peer, hist>>
  BY <1>6 DEF Connects
<1>9. r \in Nums /\ used' \in 0 .. Len(ISS)
  BY <1>8, RandomType, Parts
<1>10. PICK p : p = [c EXCEPT !.rwnd = BUF, !.iss = r]
  OBVIOUS
<1>11. CASE /\ pcb' = tcp_pcb_release(P, i, {}) /\ Returns /\ owned' = owned \ {i} /\ UNCHANGED <<peer, hist>>
  <2>1. pcb' = tcp_pcb_release(pcb, i, {})
    BY <1>5, <1>7, <1>11, ReleaseSame, Parts
  <2> QED
    BY <1>9, <1>11, <2>1, ReleaseStep
<1>12. CASE /\ pcb' = [P EXCEPT ![i] = Active(Queued(p, {"SYN"}, <<>>), r)]
            /\ Transmit(<<Sent(p, {"SYN"}, <<>>)>>)
            /\ hist' = [hist EXCEPT ![i] = [NoHistory EXCEPT !.bound = op = "connect" /\ hist[i].bound]]
            /\ Sleeps(Opening(op, i))
            /\ UNCHANGED owned
  <2>1. PICK w \in 0 .. BUF, x \in Nums : w = BUF /\ x = Add(r, 1)
    <3>1. r \in Int
      BY <1>9, NumInt
    <3>2. Add(r, 1) \in Nums
      BY <3>1, AddNum
    <3>3. BUF \in 0 .. BUF
      BY Numbers
    <3> QED
      BY <3>2, <3>3
  <2>2. p = [o EXCEPT !.lport = lp, !.fport = f, !.rwnd = w, !.iss = r] /\ p \in Pcbs
    <3>1. p = [o EXCEPT !.lport = lp, !.fport = f, !.rwnd = w, !.iss = r]
      BY <1>4, <1>10, <2>1 DEF Pcbs
    <3>2. p \in Pcbs
      BY <1>3, <1>9, <3>1 DEF Pcbs
    <3> QED
      BY <3>1, <3>2
  <2>3. {"SYN"} \in SUBSET Flags /\ <<>> \in Seq(Int)
    BY EmptySeq DEF Flags
  <2>4. PICK l \in Seq(Entries) : Queued(p, {"SYN"}, <<>>) = [p EXCEPT !.queue = l]
    <3>1. p \in Pcbs
      BY <2>2
    <3>2. PICK F \in SUBSET Flags, e \in Seq(Int) : F = {"SYN"} /\ e = <<>>
      BY <2>3
    <3> QED
      BY <3>1, <3>2, QueuedForm
  <2>5. PICK q : q = [p EXCEPT !.queue = l, !.una = r, !.nxt = x, !.state = "SYN_SENT"]
    OBVIOUS
  <2>6. q \in Pcbs
    BY <1>9, <2>2, <2>5 DEF Pcbs, PcbStates
  <2>7. /\ q.state = "SYN_SENT" /\ q.lport = lp /\ q.fport = f /\ q.rwnd = w /\ q.buf = <<>>
        /\ q.parent = NONE /\ q.backlog = pcb[i].backlog
    BY <1>1, <1>2, <2>2, <2>5 DEF Pcbs
  <2>8. Active(Queued(p, {"SYN"}, <<>>), r) = q
    BY <2>1, <2>2, <2>4, <2>5 DEF Active, Pcbs
  <2>9. pcb' = [pcb EXCEPT ![i] = q]
    BY <1>5, <1>12, <2>8, Parts
  <2>10. Sound(q) /\ Holdable(q) /\ q.state \notin {"CLOSED"}
    <3>1. Filled(q)
      BY <2>1, <2>7, Numbers DEF Filled
    <3> QED
      BY <1>3, <2>7, <3>1 DEF Sound, Holdable
  <2>11. Held' = owned \cup {i} /\ call' \in CallType /\ call'.op # "none" /\ call'.id = i /\ Held = owned
    <3>1. "SYN_SENT" \in PcbStates
      BY DEF PcbStates
    <3>2. Opening(op, i) \in CallType /\ Opening(op, i).op # "none" /\ Opening(op, i).id = i
      BY <3>1, OpeningType
    <3>3. Held' = owned' \cup {i} /\ call' \in CallType /\ call'.op # "none" /\ call'.id = i
      BY <1>12, <3>2, HeldSleeps
    <3> QED
      BY <1>12, <3>3, HeldIdle
  <2>12. hist' \in [Ids -> Histories] /\ Besides(Bound, Bound', i) /\ (op = "connect" /\ i \in Bound => i \in Bound')
    <3>1. PICK b \in BOOLEAN : b = (op = "connect" /\ hist[i].bound)
      OBVIOUS
    <3>2. PICK h \in Histories : h = [NoHistory EXCEPT !.bound = b] /\ h.bound = b
      <4>1. PICK n \in Histories : n = NoHistory
        BY NoHistoryType
      <4>2. PICK h : h = [n EXCEPT !.bound = b]
        OBVIOUS
      <4>3. h \in Histories /\ h.bound = b
        BY <4>2 DEF Histories
      <4> QED
        BY <4>1, <4>2, <4>3
    <3>3. hist' = [hist EXCEPT ![i] = h]
      BY <1>12, <3>1, <3>2, Zenon
    <3> QED
      BY <3>1, <3>2, <3>3, Parts DEF Bound, Besides
  <2>13. peer' \in [FPORTS -> Peers]
    BY <1>12, <2>2, <2>3, SentType, OneSegment, TransmitType, Parts
  <2>14. PICK R, D, E, G : R = pcb' /\ D = Bound /\ E = Bound' /\ G = Held'
    OBVIOUS
  <2>15. Kept([pcb EXCEPT ![i] = q], G)
    <3>1. G \subseteq Held \cup {i}
      BY <2>11, <2>14
    <3>2. Kept(pcb, Held) /\ q.backlog = pcb[i].backlog /\ Holdable(q) /\ Sound(q)
      BY <2>7, <2>10, Parts
    <3>3. Waits(pcb, i) => i \notin G /\ q.state \notin Unready
      OBVIOUS
    <3> QED
      BY <2>6, <3>1, <3>2, <3>3, KeptPut
  <2>16. Kept(pcb', Held')
    BY <2>9, <2>14, <2>15
  <2>17. PutAt(pcb, R, i, q)
    BY <2>9, <2>14, Parts DEF PutAt
  <2>18. i \in E \/ NewPair(pcb, i, q)
    BY <2>7, <2>12, <2>14 DEF NewPair
  <2>19. Ports(R, E)
    <3>1. q.fport # 0 /\ Ports(pcb, D) /\ Besides(D, E, i)
      BY <1>3, <2>7, <2>12, <2>14, Parts
    <3> QED
      BY <2>17, <2>18, <3>1, PortsNew
  <2>20. pcb' \in [Ids -> Pcbs] /\ owned' \subseteq Ids
    BY <1>12, <2>16, Parts DEF Kept
  <2> QED
    BY <1>9, <2>11, <2>12, <2>13, <2>14, <2>16, <2>19, <2>20, InvNext
<1> QED
  BY <1>8, <1>10, <1>11, <1>12

\* A block with the pair of ports that tcp_pcb_select does not find is nobody's.
LEMMA SelectsNone ==
  ASSUME NEW lp, NEW fp, tcp_pcb_select(lp, fp) = NONE
  PROVE  \A j \in Ids : pcb[j].lport # lp \/ pcb[j].fport # fp
<1>1. PICK i : i = tcp_pcb_select(lp, fp)
  OBVIOUS
<1>2. i \notin Ids
  BY <1>1, Numbers
<1> QED
  BY <1>1, <1>2, Selects

\* tcp_open_rfc793, active and passive
LEMMA OpenRfcStep ==
  ASSUME TcpInv, NEW active \in BOOLEAN, tcp_open_rfc793(active)
  PROVE  TcpInv'
<1>1. PICK i \in FirstFree, lp \in SERVICES, f \in FPORTS :
          /\ tcp_pcb_select(lp, f) = NONE
          /\ IF active THEN Connects([pcb EXCEPT ![i].lport = lp, ![i].fport = f], i, "open")
             ELSE /\ pcb' = [pcb EXCEPT ![i].lport = lp, ![i].state = "LISTEN"]
                  /\ Sleeps([Opening("open", i) EXCEPT !.old = "LISTEN"])
                  /\ UNCHANGED <<peer, owned, used, hist>>
  BY DEF tcp_open_rfc793
<1>2. call.op = "none" /\ owned = {} /\ Held = {}
  BY HeldIdle DEF tcp_open_rfc793
<1>3. i \in Ids /\ ~Waits(pcb, i) /\ pcb[i].fport = 0 /\ lp \in Nat
  BY FirstFreeWhat, TcpAssumption
<1>4. CASE active
  <2>1. \A j \in Ids : pcb[j].lport # lp \/ pcb[j].fport # f
    BY <1>1, SelectsNone
  <2>2. Connects([pcb EXCEPT ![i].lport = lp, ![i].fport = f], i, "open") /\ "open" \in {"open", "connect"}
    BY <1>1, <1>4
  <2> QED
    BY <1>2, <1>3, <2>1, <2>2, ConnectsStep
<1>5. CASE ~active
  <2>1. /\ pcb' = [pcb EXCEPT ![i].lport = lp, ![i].state = "LISTEN"]
        /\ Sleeps([Opening("open", i) EXCEPT !.old = "LISTEN"])
        /\ UNCHANGED <<peer, owned, used, hist>>
    BY <1>1, <1>5
  <2>2. PICK p \in Pcbs : p = pcb[i] /\ Sound(p)
    BY <1>3, Parts
  <2>3. PICK q : q = [p EXCEPT !.lport = lp, !.state = "LISTEN"]
    OBVIOUS
  <2>4. q \in Pcbs
    BY <1>3, <2>3 DEF Pcbs, PcbStates
  <2>5. /\ q.state = "LISTEN" /\ q.lport = lp /\ q.fport = 0 /\ q.backlog = pcb[i].backlog
        /\ q.buf = p.buf /\ q.queue = p.queue /\ q.parent = p.parent
    BY <1>3, <2>2, <2>3 DEF Pcbs
  <2>6. Sound(q) /\ Holdable(q) /\ PortsFree(q, i, Bound')
    BY <1>3, <2>2, <2>5 DEF Sound, Holdable, PortsFree
  <2>7. pcb' = [pcb EXCEPT ![i] = q]
    BY <1>3, <2>1, <2>2, <2>3, Parts
  <2>8. Held' = owned' \cup {i} /\ call' \in CallType /\ call'.op # "none" /\ call'.id = i
    <3>1. "LISTEN" \in PcbStates /\ "open" \in {"open", "connect"}
      BY DEF PcbStates
    <3>2. PICK c \in CallType : c = [Opening("open", i) EXCEPT !.old = "LISTEN"] /\ c.op # "none" /\ c.id = i
      BY <1>3, <3>1, OpeningType
    <3> QED
      BY <2>1, <3>2, HeldSleeps
  <2>9. hist' \in [Ids -> Histories] /\ Besides(Bound, Bound', i)
    BY <2>1, Parts DEF Bound, Besides
  <2>10. peer' \in [FPORTS -> Peers] /\ used' \in 0 .. Len(ISS) /\ owned' \subseteq Ids /\ Held' \subseteq Held \cup {i}
    BY <1>2, <2>1, <2>8, Parts
  <2> QED
    BY <1>3, <2>4, <2>5, <2>6, <2>7, <2>8, <2>9, <2>10, PutStep
<1> QED
  BY <1>4, <1>5

\* tcp_connect
LEMMA ConnectStep ==
  ASSUME TcpInv, NEW i \in Ids, NEW f \in FPORTS, tcp_connect(i, f)
  PROVE  TcpInv'
<1>1. PICK lp \in SourcePorts(i, f) : Connects([pcb EXCEPT ![i].lport = lp, ![i].fport = f], i, "connect")
  BY DEF tcp_connect
<1>2. call.op = "none" /\ i \in owned /\ pcb[i].state = "CLOSED" /\ pcb[i].fport = 0
  BY DEF tcp_connect, FreshSocket
<1>3. ~Waits(pcb, i) /\ pcb[i] \in Pcbs
  BY <1>2, HeldWhat, Parts
<1>4. CASE pcb[i].lport # 0
  <2>1. lp = pcb[i].lport
    BY <1>4 DEF SourcePorts
  <2>2. i \in Bound
    <3>1. Ports(pcb, Bound)
      BY Parts
    <3> QED
      BY <1>2, <1>4, <3>1 DEF Ports
  <2>3. lp \in Nat
    BY <1>3, <2>1, PcbFields
  <2> QED
    BY <1>1, <1>2, <1>3, <2>2, <2>3, ConnectsStep
<1>5. CASE pcb[i].lport = 0
  <2>1. lp \in LPORTS /\ tcp_pcb_select(lp, f) = NONE
    BY <1>5 DEF SourcePorts
  <2>2. lp \in Nat /\ \A j \in Ids : pcb[j].lport # lp \/ pcb[j].fport # f
    BY <2>1, SelectsNone, TcpAssumption
  <2> QED
    BY <1>1, <1>2, <1>3, <2>2, ConnectsStep
<1> QED
  BY <1>4, <1>5

\* A call that resumes is about a block it holds.
LEMMA Resumes ==
  ASSUME TcpInv, call.op # "none"
  PROVE  /\ call.id \in Held /\ call.id \in Ids /\ ~Waits(pcb, call.id) /\ call.left \in Nat
         /\ Held = owned \cup {call.id} /\ call \in CallType
<1>1. call.id \in Held /\ call \in CallType /\ Held = owned \cup {call.id}
  BY Parts, HeldWhat DEF Held
<1> QED
  BY <1>1, HeldWhat DEF CallType

\* The wait for a connection ends, or goes on.
LEMMA OpenResumeStep ==
  ASSUME TcpInv, open_resume
  PROVE  TcpInv'
<1>1. call.op \in {"connect", "open"} /\ call.op # "none" /\ UNCHANGED <<peer, used, hist>>
  BY DEF open_resume
<1>2. PICK i \in Ids : i = call.id /\ ~Waits(pcb, i) /\ Held = owned \cup {i} /\ call \in CallType
  BY <1>1, Resumes
<1>3. \/ Returns /\ owned' = owned \cup {i} /\ UNCHANGED pcb
      \/ Sleeps([call EXCEPT !.old = "SYN_RECEIVED"]) /\ UNCHANGED <<pcb, owned>>
      \/ pcb' = tcp_pcb_release(pcb, i, {}) /\ Returns /\ owned' = owned \ {i}
  BY <1>2 DEF open_resume
<1>4. CASE Returns /\ owned' = owned \cup {i} /\ UNCHANGED pcb
  BY <1>1, <1>2, <1>4, ReturnStep
<1>5. CASE Sleeps([call EXCEPT !.old = "SYN_RECEIVED"]) /\ UNCHANGED <<pcb, owned>>
  <2>1. PICK d \in CallType : d = call
    BY <1>2
  <2>2. PICK c : c = [d EXCEPT !.old = "SYN_RECEIVED"]
    OBVIOUS
  <2>3. c \in CallType /\ c.op = d.op /\ c.id = d.id
    BY <2>2 DEF CallType, PcbStates
  <2>4. c.op # "none" /\ c.id \in Held /\ Sleeps(c)
    BY <1>1, <1>2, <1>5, <2>1, <2>2, <2>3
  <2> QED
    BY <1>1, <1>5, <2>3, <2>4, SleepStep
<1>6. CASE pcb' = tcp_pcb_release(pcb, i, {}) /\ Returns /\ owned' = owned \ {i}
  <2>1. used' \in 0 .. Len(ISS)
    BY <1>1, Parts
  <2> QED
    BY <1>1, <1>2, <1>6, <2>1, ReleaseStep
<1> QED
  BY <1>3, <1>4, <1>5, <1>6

\* A fresh socket gets a port, or listens.
LEMMA SocketStep ==
  ASSUME TcpInv, call.op = "none", NEW i \in Ids, i \in owned, pcb[i].fport = 0, NEW q,
         \/ \E lp \in Nat : q = [pcb[i] EXCEPT !.lport = lp] /\ pcb[i].state = "CLOSED" /\ i \in Bound'
         \/ q = [pcb[i] EXCEPT !.state = "LISTEN"],
         pcb' = [pcb EXCEPT ![i] = q], Returns, hist' \in [Ids -> Histories], Besides(Bound, Bound', i),
         UNCHANGED <<peer, owned, used>>
  PROVE  TcpInv'
<1>1. PICK p \in Pcbs : p = pcb[i] /\ Sound(p)
  BY Parts
<1>2. /\ q \in Pcbs /\ q.state \in {"CLOSED", "LISTEN"} /\ q.fport = 0 /\ q.backlog = pcb[i].backlog
      /\ q.buf = p.buf /\ q.queue = p.queue /\ q.parent = p.parent
      /\ q.state = "CLOSED" => i \in Bound'
  <2>1. CASE \E lp \in Nat : q = [pcb[i] EXCEPT !.lport = lp] /\ pcb[i].state = "CLOSED" /\ i \in Bound'
    <3>1. PICK lp \in Nat : q = [p EXCEPT !.lport = lp] /\ p.state = "CLOSED" /\ i \in Bound'
      BY <1>1, <2>1
    <3> QED
      BY <1>1, <3>1 DEF Pcbs
  <2>2. CASE q = [pcb[i] EXCEPT !.state = "LISTEN"]
    <3>1. q = [p EXCEPT !.state = "LISTEN"]
      BY <1>1, <2>2
    <3>2. q \in Pcbs
      BY <3>1 DEF Pcbs, PcbStates
    <3>3. /\ q.state = "LISTEN" /\ q.fport = p.fport /\ q.backlog = p.backlog
          /\ q.buf = p.buf /\ q.queue = p.queue /\ q.parent = p.parent
      BY <3>1 DEF Pcbs
    <3> QED
      BY <1>1, <3>2, <3>3
  <2> QED
    BY <2>1, <2>2
<1>3. Sound(q) /\ Holdable(q)
  BY <1>1, <1>2 DEF Sound, Holdable
<1>4. PortsFree(q, i, Bound')
  BY <1>2 DEF PortsFree
<1>5. Held' = owned' /\ call' \in CallType /\ call'.op = "none"
  BY HeldReturns
<1>6. ~Waits(pcb, i) /\ Held' \subseteq Held \cup {i} /\ owned' \subseteq Ids
  BY <1>5, HeldWhat, Parts
<1>7. peer' \in [FPORTS -> Peers] /\ used' \in 0 .. Len(ISS)
  BY Parts
<1> QED
  BY <1>2, <1>3, <1>4, <1>5, <1>6, <1>7, PutStep

\* tcp_bind
LEMMA BindStep ==
  ASSUME TcpInv, NEW i \in Ids, tcp_bind(i)
  PROVE  TcpInv'
<1>1. /\ call.op = "none" /\ i \in owned /\ pcb[i].fport = 0 /\ pcb[i].state = "CLOSED"
      /\ UNCHANGED <<peer, owned, used>>
  BY DEF tcp_bind, FreshSocket
<1>2. CASE Returns /\ UNCHANGED <<pcb, hist>>
  BY <1>1, <1>2, HeldWhat, ReturnStep
<1>3. ASSUME NEW lp \in SERVICES, Returns, pcb' = [pcb EXCEPT ![i].lport = lp],
             hist' = [hist EXCEPT ![i].bound = TRUE]
      PROVE  TcpInv'
  <2>1. PICK h \in Histories : h = hist[i]
    BY Parts
  <2>2. PICK g \in Histories : g = [h EXCEPT !.bound = TRUE] /\ g.bound
    <3>1. PICK b \in BOOLEAN : b = TRUE
      OBVIOUS
    <3>2. PICK g : g = [h EXCEPT !.bound = b]
      OBVIOUS
    <3>3. g \in Histories /\ g.bound = b
      BY <3>2 DEF Histories
    <3> QED
      BY <3>1, <3>2, <3>3
  <2>3. hist' = [hist EXCEPT ![i] = g]
    BY <1>3, <2>1, <2>2
  <2>4. hist' \in [Ids -> Histories] /\ Besides(Bound, Bound', i) /\ i \in Bound'
    BY <2>2, <2>3, Parts DEF Bound, Besides
  <2>5. lp \in Nat
    BY TcpAssumption
  <2>6. PICK q : q = [pcb[i] EXCEPT !.lport = lp]
    OBVIOUS
  <2>7. pcb' = [pcb EXCEPT ![i] = q]
    BY <1>3, <2>6
  <2>8. \E l \in Nat : q = [pcb[i] EXCEPT !.lport = l] /\ pcb[i].state = "CLOSED" /\ i \in Bound'
    BY <1>1, <2>4, <2>5, <2>6
  <2> QED
    BY <1>1, <1>3, <2>4, <2>7, <2>8, SocketStep
<1> QED
  BY <1>2, <1>3 DEF tcp_bind

\* tcp_listen
LEMMA ListenCallStep ==
  ASSUME TcpInv, NEW i \in Ids, tcp_listen(i)
  PROVE  TcpInv'
<1>1. /\ call.op = "none" /\ i \in owned /\ pcb[i].fport = 0
      /\ UNCHANGED <<peer, owned, used, hist>> /\ Returns
      /\ pcb' = [pcb EXCEPT ![i].state = "LISTEN"]
  BY DEF tcp_listen, FreshSocket
<1>2. hist' \in [Ids -> Histories] /\ Besides(Bound, Bound', i)
  BY <1>1, Parts DEF Bound, Besides
<1>3. PICK q : q = [pcb[i] EXCEPT !.state = "LISTEN"]
  OBVIOUS
<1>4. pcb' = [pcb EXCEPT ![i] = q]
  BY <1>1, <1>3
<1> QED
  BY <1>1, <1>2, <1>3, <1>4, SocketStep

\* tcp_accept takes the first block of the backlog, which moves from waiting to owned.
LEMMA AcceptsStep ==
  ASSUME TcpInv, NEW i \in Ids, Accepts(i), UNCHANGED <<peer, used, hist>>
  PROVE  TcpInv'
<1>1. PICK b \in Seq(Ids) : b = pcb[i].backlog /\ b # <<>>
  BY Parts, PcbFields DEF Accepts
<1>2. PICK c : c = Head(b)
  OBVIOUS
<1>3. /\ pcb' = [pcb EXCEPT ![i].backlog = Tail(@)] /\ owned' = owned \cup {c} /\ Returns
  BY <1>1, <1>2 DEF Accepts
<1>4. c \in Ids /\ Kept([pcb EXCEPT ![i].backlog = Tail(@)], Held \cup {c})
  BY <1>1, <1>2, KeptAccept, Parts
<1>5. Held' = owned' /\ call' \in CallType /\ call'.op = "none"
  BY <1>3, HeldReturns
<1>6. Kept(pcb', Held')
  <2>1. Held' \subseteq Held \cup {c} /\ Kept(pcb', Held \cup {c})
    BY <1>3, <1>4, <1>5, HeldWhat
  <2> QED
    BY <2>1, KeptLess
<1>7. \A j \in Ids : SamePorts(pcb[j], pcb'[j])
  <2> TAKE j \in Ids
  <2>1. PICK p \in Pcbs : p = pcb[i]
    BY Parts
  <2>2. PICK q : q = [p EXCEPT !.backlog = Tail(b)]
    OBVIOUS
  <2>3. q.lport = p.lport /\ q.fport = p.fport /\ q.state = p.state
    BY <2>2 DEF Pcbs
  <2>4. pcb'[j] = IF j = i THEN q ELSE pcb[j]
    BY <1>1, <1>3, <2>1, <2>2, Parts
  <2> QED
    BY <2>1, <2>3, <2>4 DEF SamePorts
<1>8. Bound \subseteq Bound'
  BY DEF Bound
<1>9. owned' \subseteq Ids
  BY <1>3, <1>4, Parts
<1> QED
  BY <1>5, <1>6, <1>7, <1>8, <1>9, NoPortStep, Parts

Asks(op, i, n) == [Idle EXCEPT !.op = op, !.id = i, !.left = n]
\* The other calls that sleep.
LEMMA CallOf ==
  ASSUME NEW op \in Calls, NEW i \in Ids, NEW n \in Nat
  PROVE  Asks(op, i, n) \in CallType /\ Asks(op, i, n).op = op /\ Asks(op, i, n).id = i
  BY DEF Asks, Idle, CallType, PcbStates

\* tcp_accept
LEMMA AcceptStep ==
  ASSUME TcpInv, NEW i \in Ids, tcp_accept(i)
  PROVE  TcpInv'
<1>1. i \in owned /\ UNCHANGED <<peer, used, hist>>
  BY DEF tcp_accept
<1>2. CASE Accepts(i)
  BY <1>1, <1>2, AcceptsStep
<1>3. CASE Sleeps([Idle EXCEPT !.op = "accept", !.id = i]) /\ UNCHANGED <<pcb, owned>>
  <2>1. PICK c : c = [Idle EXCEPT !.op = "accept", !.id = i]
    OBVIOUS
  <2>2. c \in CallType /\ c.op # "none" /\ c.id = i
    BY <2>1 DEF Idle, CallType, Calls, PcbStates
  <2>3. Sleeps(c) /\ c.id \in Held
    BY <1>1, <1>3, <2>1, <2>2, HeldWhat
  <2> QED
    BY <1>1, <1>3, <2>2, <2>3, SleepStep
<1> QED
  BY <1>2, <1>3 DEF tcp_accept

\* tcp_accept when it wakes
LEMMA AcceptResumeStep ==
  ASSUME TcpInv, accept_resume
  PROVE  TcpInv'
<1>1. call.op = "accept" /\ Accepts(call.id) /\ UNCHANGED <<peer, used, hist>>
  BY DEF accept_resume
<1>2. call.id \in Ids
  BY <1>1, Resumes
<1> QED
  BY <1>1, <1>2, AcceptsStep

\* What goes into one segment is at most what is left.
LEMMA SliceType ==
  ASSUME NEW p \in Pcbs, NEW left \in Nat
  PROVE  Slice(p, left) \in Nat /\ left - Slice(p, left) \in Nat
<1>1. PICK c \in Nat : c = Capacity(p)
  <2>1. Sub(p.nxt, p.una) \in Nums
    BY PcbFields, AddNum
  <2>2. PICK x \in Int : x = Sub(p.nxt, p.una)
    BY <2>1, NumInt
  <2>3. p.swnd \in Int
    BY PcbFields
  <2>4. Sub(p.swnd, x) \in Nums
    BY <2>3, AddNum
  <2>5. Capacity(p) = Sub(p.swnd, x)
    BY <2>2 DEF Capacity, Room, Sub
  <2> QED
    BY <2>4, <2>5, NumInt
<1>2. PICK m \in Nat : m = (IF left < MSS THEN left ELSE MSS) /\ m <= left
  BY Numbers
<1>3. Slice(p, left) = IF c < m THEN c ELSE m
  BY <1>1, <1>2 DEF Slice
<1>4. Slice(p, left) \in Nat /\ Slice(p, left) <= left
  BY <1>2, <1>3
<1> QED
  BY <1>4

\* A block a caller holds stays what it is, or goes to a state that may be held or given up.
LEMMA SegmentOut ==
  ASSUME TcpInv, NEW i \in Held, NEW q \in Pcbs, Sound(q), q.backlog = pcb[i].backlog,
         SamePorts(pcb[i], q), Held' \subseteq Held, i \in Held' => Holdable(q),
         pcb' = [pcb EXCEPT ![i] = q], NEW r \in Segments, Transmit(<<r>>),
         hist' \in [Ids -> Histories], Bound \subseteq Bound', UNCHANGED used,
         call' \in CallType, call'.op # "none" => call'.id \in Ids, owned' \subseteq Ids
  PROVE  TcpInv'
<1>1. i \in Ids /\ ~Waits(pcb, i)
  BY HeldWhat
<1>2. peer' \in [FPORTS -> Peers]
  BY Parts, OneSegment, TransmitType
<1>3. used' \in 0 .. Len(ISS)
  BY Parts
<1>4. PICK G, D, E : G = Held' /\ D = Bound /\ E = Bound'
  OBVIOUS
<1>5. G \subseteq Held \cup {i} /\ (i \in G => Holdable(q)) /\ Besides(D, E, i) /\ (i \in D => i \in E)
  BY <1>4 DEF Besides
<1>6. Held' \subseteq Held \cup {i} /\ Besides(Bound, Bound', i) /\ (i \in Bound => i \in Bound')
  BY <1>4, <1>5
<1> QED
  BY <1>1, <1>2, <1>3, <1>6, PutStep

\* What tcp_send hands over are bytes.
LEMMA PayloadType ==
  ASSUME NEW h \in Histories, NEW n \in Nat
  PROVE  Payload(h, n) \in Seq(Int)
<1>1. h.asked \in Nat
  BY DEF Histories
<1>2. \A k \in 1 .. n : h.asked + k \in Int
  BY <1>1
<1> QED
  BY <1>2 DEF Payload

\* One turn of the loop of tcp_send: the block keeps its place, ports and state.
LEMMA SendStep ==
  ASSUME TcpInv, NEW i \in Held, NEW left \in Nat, send_step(i, left), UNCHANGED used
  PROVE  TcpInv'
<1>1. i \in Ids /\ ~Waits(pcb, i) /\ owned \subseteq Held /\ used' \in 0 .. Len(ISS)
  BY HeldWhat, Parts
<1>2. PICK p \in Pcbs : p = pcb[i] /\ Sound(p) /\ Holdable(p)
  BY <1>1, HeldWhat, Parts
<1>3. PICK n \in Nat : n = Slice(p, left) /\ left - n \in Nat
  BY SliceType
<1>4. PICK h \in Histories : h = hist[i]
  BY <1>1, Parts
<1>5. PICK data \in Seq(Int) : data = Payload(h, n)
  BY PayloadType
<1>6. \/ Returns /\ UNCHANGED <<pcb, peer, owned, hist>>
      \/ Sleeps([Idle EXCEPT !.op = "send", !.id = i, !.left = left]) /\ UNCHANGED <<pcb, peer, owned, hist>>
      \/ /\ p.state \in {"ESTABLISHED", "CLOSE_WAIT"}
         /\ pcb' = [pcb EXCEPT ![i] = [Queued(p, {"ACK", "PSH"}, data) EXCEPT !.nxt = Add(@, n)]]
         /\ Transmit(<<Sent(p, {"ACK", "PSH"}, data)>>)
         /\ hist' = [hist EXCEPT ![i].asked = @ + n]
         /\ Sleeps([Idle EXCEPT !.op = "sending", !.id = i, !.left = left - n])
         /\ UNCHANGED owned
      \/ /\ pcb' = tcp_pcb_release(pcb, i, {}) /\ Returns /\ owned' = owned \ {i} /\ UNCHANGED <<peer, hist>>
  BY <1>2, <1>3, <1>4, <1>5 DEF send_step
<1>7. CASE Returns /\ UNCHANGED <<pcb, peer, owned, hist>>
  BY <1>1, <1>7, ReturnStep
<1>8. CASE Sleeps([Idle EXCEPT !.op = "send", !.id = i, !.left = left]) /\ UNCHANGED <<pcb, peer, owned, hist>>
  <2>1. "send" \in Calls
    BY DEF Calls
  <2>2. PICK c \in CallType : c = [Idle EXCEPT !.op = "send", !.id = i, !.left = left] /\ c.op = "send" /\ c.id = i
    <3>1. PICK o \in Calls : o = "send"
      BY <2>1
    <3>2. Asks(o, i, left) \in CallType /\ Asks(o, i, left).op = o /\ Asks(o, i, left).id = i
      BY <1>1, CallOf
    <3> QED
      BY <3>1, <3>2 DEF Asks
  <2> QED
    BY <1>8, <2>2, SleepStep
<1>9. CASE pcb' = tcp_pcb_release(pcb, i, {}) /\ Returns /\ owned' = owned \ {i} /\ UNCHANGED <<peer, hist>>
  BY <1>1, <1>9, ReleaseStep
<1>10. CASE /\ p.state \in {"ESTABLISHED", "CLOSE_WAIT"}
            /\ pcb' = [pcb EXCEPT ![i] = [Queued(p, {"ACK", "PSH"}, data) EXCEPT !.nxt = Add(@, n)]]
            /\ Transmit(<<Sent(p, {"ACK", "PSH"}, data)>>)
            /\ hist' = [hist EXCEPT ![i].asked = @ + n]
            /\ Sleeps([Idle EXCEPT !.op = "sending", !.id = i, !.left = left - n])
            /\ UNCHANGED owned
  <2>1. "sending" \in Calls
    BY DEF Calls
  <2>2. PICK c \in CallType : c = [Idle EXCEPT !.op = "sending", !.id = i, !.left = left - n] /\ c.op = "sending" /\ c.id = i
    <3>1. PICK o \in Calls, m \in Nat : o = "sending" /\ m = left - n
      BY <1>3, <2>1
    <3>2. Asks(o, i, m) \in CallType /\ Asks(o, i, m).op = o /\ Asks(o, i, m).id = i
      BY <1>1, CallOf
    <3> QED
      BY <3>1, <3>2 DEF Asks
  <2>3. Held' = owned' \cup {i} /\ call' \in CallType /\ call'.op # "none" /\ call'.id = i
    <3>1. Sleeps(c) /\ c.op # "none"
      BY <1>10, <2>2
    <3> QED
      BY <2>2, <3>1, HeldSleeps
  <2>4. PICK F \in SUBSET Flags : F = {"ACK", "PSH"}
    BY DEF Flags
  <2>5. PICK w \in Seq(Entries) : Queued(p, F, data) = [p EXCEPT !.queue = w]
    BY QueuedForm
  <2>6. PICK x \in Nums : x = Add(p.nxt, n)
    BY PcbFields, AddNum
  <2>7. PICK q : q = [p EXCEPT !.queue = w, !.nxt = x]
    OBVIOUS
  <2>8. q \in Pcbs
    BY <2>7 DEF Pcbs
  <2>9. AsBefore(p, q)
    BY <2>7, <2>8 DEF AsBefore, Pcbs
  <2>10. p.fport # 0 /\ Filled(p)
    BY <1>2, <1>10 DEF Sound
  <2>11. Sound(q) /\ Holdable(q) /\ SamePorts(p, q)
    BY <1>2, <1>10, <2>9, <2>10 DEF AsBefore, Sound, Holdable, SamePorts, Filled
  <2>12. pcb' = [pcb EXCEPT ![i] = q]
    <3>1. [Queued(p, {"ACK", "PSH"}, data) EXCEPT !.nxt = Add(@, n)] = q
      BY <2>4, <2>5, <2>6, <2>7 DEF Pcbs
    <3> QED
      BY <1>10, <3>1
  <2>13. PICK r \in Segments : r = Sent(p, {"ACK", "PSH"}, data)
    BY <2>4, SentType
  <2>14. hist' \in [Ids -> Histories] /\ Bound \subseteq Bound'
    <3>1. PICK m \in Nat : m = h.asked + n
      BY DEF Histories
    <3>2. PICK g : g = [h EXCEPT !.asked = m]
      OBVIOUS
    <3>3. g \in Histories /\ g.bound = h.bound
      BY <3>2 DEF Histories
    <3>4. hist' = [hist EXCEPT ![i] = g]
      BY <1>4, <1>10, <3>1, <3>2
    <3> QED
      BY <1>1, <1>4, <3>3, <3>4, Parts DEF Bound
  <2>15. Held' \subseteq Held /\ owned' \subseteq Ids /\ q.backlog = pcb[i].backlog /\ SamePorts(pcb[i], q) /\ Transmit(<<r>>)
    BY <1>1, <1>2, <1>10, <2>3, <2>9, <2>11, <2>13, Parts DEF AsBefore
  <2> QED
    BY <1>1, <2>3, <2>8, <2>11, <2>12, <2>14, <2>15, SegmentOut
<1> QED
  BY <1>6, <1>7, <1>8, <1>9, <1>10

\* tcp_send
LEMMA SendCallStep ==
  ASSUME TcpInv, NEW i \in Ids, NEW n \in SENDS, tcp_send(i, n)
  PROVE  TcpInv'
<1>1. i \in Held /\ n \in Nat
  BY HeldWhat, TcpAssumption DEF tcp_send
<1>2. send_step(i, n) /\ UNCHANGED used
  BY DEF tcp_send
<1> QED
  BY <1>1, <1>2, SendStep

\* tcp_send when it wakes
LEMMA SendResumeStep ==
  ASSUME TcpInv, send_resume
  PROVE  TcpInv'
<1>1. call.op # "none" /\ send_step(call.id, call.left) /\ UNCHANGED used
  BY DEF send_resume
<1>2. call.id \in Held /\ call.left \in Nat
  BY <1>1, Resumes
<1> QED
  BY <1>1, <1>2, SendStep

\* One turn of tcp_receive: what leaves the buffer is given back to the window.
LEMMA ReceiveStep ==
  ASSUME TcpInv, NEW i \in Held, NEW size \in Nat, receive_step(i, size), UNCHANGED <<peer, owned, used>>
  PROVE  TcpInv'
<1>1. i \in Ids /\ ~Waits(pcb, i) /\ owned \subseteq Held
  BY HeldWhat
<1>2. PICK p \in Pcbs : p = pcb[i] /\ Sound(p) /\ Holdable(p)
  BY <1>1, HeldWhat, Parts
<1>3. PICK h \in Histories : h = hist[i]
  BY <1>1, Parts
<1>4. PICK n : n = IF size < Remain(p) THEN size ELSE Remain(p)
  OBVIOUS
<1>5. \/ /\ p.state \in {"ESTABLISHED", "CLOSE_WAIT"}
         /\ pcb' = [pcb EXCEPT ![i].buf = SubSeq(@, n + 1, Len(@)), ![i].rwnd = @ + n]
         /\ hist' = [hist EXCEPT ![i].gave = @ \o SubSeq(p.buf, 1, n)]
         /\ Returns
      \/ Sleeps([Idle EXCEPT !.op = "receive", !.id = i, !.left = size]) /\ UNCHANGED <<pcb, hist>>
      \/ Returns /\ UNCHANGED <<pcb, hist>>
  BY <1>2, <1>4 DEF receive_step
<1>6. CASE Returns /\ UNCHANGED <<pcb, hist>>
  BY <1>1, <1>6, ReturnStep
<1>7. CASE Sleeps([Idle EXCEPT !.op = "receive", !.id = i, !.left = size]) /\ UNCHANGED <<pcb, hist>>
  <2>1. PICK o \in Calls : o = "receive"
    BY DEF Calls
  <2>2. Asks(o, i, size) \in CallType /\ Asks(o, i, size).op = o /\ Asks(o, i, size).id = i
    BY <1>1, CallOf
  <2>3. Sleeps(Asks(o, i, size)) /\ o # "none"
    BY <1>7, <2>1 DEF Asks
  <2> QED
    BY <1>7, <2>2, <2>3, SleepStep
<1>8. CASE /\ p.state \in {"ESTABLISHED", "CLOSE_WAIT"}
           /\ pcb' = [pcb EXCEPT ![i].buf = SubSeq(@, n + 1, Len(@)), ![i].rwnd = @ + n]
           /\ hist' = [hist EXCEPT ![i].gave = @ \o SubSeq(p.buf, 1, n)]
           /\ Returns
  <2>1. p.fport # 0 /\ Filled(p)
    BY <1>2, <1>8 DEF Sound
  <2>2. PICK b \in Seq(Int), l \in Nat : b = p.buf /\ l = Len(b)
    BY PcbFields
  <2>3. PICK r \in 0 .. BUF : r = p.rwnd /\ l = BUF - r
    BY <2>1, <2>2, PcbFields DEF Filled
  <2>4. PICK m \in 0 .. l : m = n
    <3>1. l = Remain(p)
      BY <2>3 DEF Remain
    <3> QED
      BY <1>4, <3>1
  <2>5. PICK c \in Seq(Int), d \in Seq(Int) : /\ c = SubSeq(b, m + 1, l) /\ Len(c) = l - m
                                             /\ d = SubSeq(b, 1, m)
    <3>1. \A k \in 1 .. m : b[k] \in Int
      BY <2>2
    <3>2. \A k \in m + 1 .. l : b[k] \in Int
      BY <2>2
    <3>3. SubSeq(b, 1, m) \in Seq(Int)
      BY <3>1, SubSeqProperties
    <3>4. SubSeq(b, m + 1, l) \in Seq(Int) /\ Len(SubSeq(b, m + 1, l)) = l - m
      <4>1. CASE m = l
        <5>1. SubSeq(b, m + 1, l) = <<>>
          BY <4>1
        <5> QED
          BY <4>1, <5>1, EmptySeq
      <4>2. CASE m # l
        BY <3>2, <4>2, SubSeqProperties
      <4> QED
        BY <4>1, <4>2
    <3> QED
      BY <3>3, <3>4
  <2>6. PICK w \in 0 .. BUF : w = r + m
    BY <2>3, Numbers
  <2>7. PICK q : q = [p EXCEPT !.buf = c, !.rwnd = w]
    OBVIOUS
  <2>8. q \in Pcbs
    BY <2>7 DEF Pcbs
  <2>9. /\ q.state = p.state /\ q.lport = p.lport /\ q.fport = p.fport /\ q.buf = c /\ q.rwnd = w
        /\ q.queue = p.queue /\ q.parent = p.parent /\ q.backlog = p.backlog
    BY <2>7 DEF Pcbs
  <2>10. Filled(q)
    BY <2>3, <2>5, <2>6, <2>9, Numbers DEF Filled
  <2>11. Sound(q) /\ Holdable(q) /\ SamePorts(pcb[i], q)
    BY <1>2, <1>8, <2>1, <2>9, <2>10 DEF Sound, Holdable, SamePorts
  <2>12. pcb' = [pcb EXCEPT ![i] = q]
    <3>1. pcb' = [pcb EXCEPT ![i] = [p EXCEPT !.buf = SubSeq(b, n + 1, Len(b)), !.rwnd = r + n]]
      BY <1>1, <1>2, <1>8, <2>2, <2>3, Parts DEF Pcbs
    <3> QED
      BY <2>2, <2>4, <2>5, <2>6, <2>7, <3>1
  <2>13. hist' \in [Ids -> Histories] /\ Besides(Bound, Bound', i) /\ (i \in Bound => i \in Bound')
    <3>1. PICK e \in Seq(Int) : e = h.gave \o d
      BY ConcatProperties DEF Histories
    <3>2. PICK g : g = [h EXCEPT !.gave = e]
      OBVIOUS
    <3>3. g \in Histories /\ g.bound = h.bound
      BY <3>2 DEF Histories
    <3>4. hist' = [hist EXCEPT ![i] = g]
      BY <1>3, <1>8, <2>2, <2>4, <2>5, <3>1, <3>2
    <3> QED
      BY <1>1, <1>3, <3>3, <3>4, Parts DEF Bound, Besides
  <2>14. Held' = owned' /\ call' \in CallType /\ call'.op = "none"
    BY <1>8, HeldReturns
  <2>15. /\ peer' \in [FPORTS -> Peers] /\ used' \in 0 .. Len(ISS) /\ owned' \subseteq Ids
         /\ Held' \subseteq Held \cup {i} /\ q.backlog = pcb[i].backlog
    BY <1>1, <1>2, <2>9, <2>14, Parts
  <2> QED
    BY <1>1, <2>8, <2>11, <2>12, <2>13, <2>14, <2>15, PutStep
<1> QED
  BY <1>5, <1>6, <1>7, <1>8

\* tcp_receive
LEMMA ReceiveCallStep ==
  ASSUME TcpInv, NEW i \in Ids, NEW n \in SIZES, tcp_receive(i, n)
  PROVE  TcpInv'
<1>1. i \in Held /\ n \in Nat
  BY HeldWhat, TcpAssumption DEF tcp_receive
<1>2. receive_step(i, n) /\ UNCHANGED <<peer, owned, used>>
  BY DEF tcp_receive
<1> QED
  BY <1>1, <1>2, ReceiveStep

\* tcp_receive when it wakes
LEMMA ReceiveResumeStep ==
  ASSUME TcpInv, receive_resume
  PROVE  TcpInv'
<1>1. call.op # "none" /\ receive_step(call.id, call.left) /\ UNCHANGED <<peer, owned, used>>
  BY DEF receive_resume
<1>2. call.id \in Held /\ call.left \in Nat
  BY <1>1, Resumes
<1> QED
  BY <1>1, <1>2, ReceiveStep

\* tcp_close: the block is cleared, with what waits in its backlog, or is no longer owned.
LEMMA CloseStep ==
  ASSUME TcpInv, NEW i \in Ids, tcp_close(i)
  PROVE  TcpInv'
<1>1. i \in Held /\ ~Waits(pcb, i) /\ owned' = owned \ {i} /\ UNCHANGED used /\ Returns
  BY HeldWhat DEF tcp_close
<1>2. PICK p \in Pcbs : p = pcb[i] /\ Sound(p) /\ Holdable(p)
  BY <1>1, HeldWhat, Parts
<1>3. \/ pcb' = tcp_pcb_release(pcb, i, {}) /\ UNCHANGED <<peer, hist>>
      \/ /\ p.state \in {"ESTABLISHED", "CLOSE_WAIT"}
         /\ pcb' = [pcb EXCEPT ![i] = [Queued(p, {"ACK", "FIN"}, <<>>) EXCEPT
                       !.nxt = Add(@, 1),
                       !.state = IF @ = "ESTABLISHED" THEN "FIN_WAIT1" ELSE "LAST_ACK"]]
         /\ UNCHANGED hist
         /\ Transmit(<<Sent(p, {"ACK", "FIN"}, <<>>)>>)
      \/ UNCHANGED <<pcb, peer, hist>>
  BY <1>2 DEF tcp_close
<1>4. CASE pcb' = tcp_pcb_release(pcb, i, {}) /\ UNCHANGED <<peer, hist>>
  <2>1. used' \in 0 .. Len(ISS)
    BY <1>1, Parts
  <2> QED
    BY <1>1, <1>4, <2>1, ReleaseStep
<1>5. CASE UNCHANGED <<pcb, peer, hist>>
  <2>1. owned' \subseteq Held
    BY <1>1, HeldWhat
  <2> QED
    BY <1>1, <1>5, <2>1, ReturnStep
<1>6. CASE /\ p.state \in {"ESTABLISHED", "CLOSE_WAIT"}
           /\ pcb' = [pcb EXCEPT ![i] = [Queued(p, {"ACK", "FIN"}, <<>>) EXCEPT
                         !.nxt = Add(@, 1),
                         !.state = IF @ = "ESTABLISHED" THEN "FIN_WAIT1" ELSE "LAST_ACK"]]
           /\ UNCHANGED hist
           /\ Transmit(<<Sent(p, {"ACK", "FIN"}, <<>>)>>)
  <2>1. PICK F \in SUBSET Flags, d \in Seq(Int) : F = {"ACK", "FIN"} /\ d = <<>>
    <3>1. {"ACK", "FIN"} \in SUBSET Flags
      BY DEF Flags
    <3>2. <<>> \in Seq(Int)
      BY EmptySeq
    <3> QED
      BY <3>1, <3>2
  <2>2. PICK w \in Seq(Entries) : Queued(p, F, d) = [p EXCEPT !.queue = w]
    BY QueuedForm
  <2>3. PICK x \in Nums : x = Add(p.nxt, 1)
    BY PcbFields, AddNum
  <2>4. PICK t \in {"FIN_WAIT1", "LAST_ACK"} : t = IF p.state = "ESTABLISHED" THEN "FIN_WAIT1" ELSE "LAST_ACK"
    OBVIOUS
  <2>5. PICK q : q = [p EXCEPT !.queue = w, !.nxt = x, !.state = t]
    OBVIOUS
  <2>6. q \in Pcbs
    BY <2>5 DEF Pcbs, PcbStates
  <2>7. /\ q.state = t /\ q.lport = p.lport /\ q.fport = p.fport /\ q.buf = p.buf /\ q.rwnd = p.rwnd
        /\ q.parent = p.parent /\ q.backlog = p.backlog
    BY <2>5 DEF Pcbs
  <2>8. p.fport # 0 /\ Filled(p)
    BY <1>2, <1>6 DEF Sound
  <2>9. Sound(q) /\ SamePorts(pcb[i], q)
    BY <1>2, <2>7, <2>8 DEF Sound, SamePorts, Filled
  <2>10. pcb' = [pcb EXCEPT ![i] = q]
    <3>1. [Queued(p, {"ACK", "FIN"}, <<>>) EXCEPT !.nxt = Add(@, 1),
             !.state = IF @ = "ESTABLISHED" THEN "FIN_WAIT1" ELSE "LAST_ACK"] = q
      BY <2>1, <2>2, <2>3, <2>4, <2>5 DEF Pcbs
    <3> QED
      BY <1>6, <3>1
  <2>11. PICK r \in Segments : r = Sent(p, {"ACK", "FIN"}, <<>>)
    BY <2>1, SentType
  <2>12. Held' = owned' /\ call' \in CallType /\ call'.op = "none"
    BY <1>1, HeldReturns
  <2>13. Held' \subseteq Held /\ i \notin Held' /\ owned' \subseteq Ids
    BY <1>1, <2>12, HeldWhat, Parts
  <2>14. hist' \in [Ids -> Histories] /\ Bound \subseteq Bound'
    BY <1>6, Parts DEF Bound
  <2>15. q.backlog = pcb[i].backlog /\ Transmit(<<r>>)
    BY <1>2, <1>6, <2>7, <2>11
  <2> QED
    BY <1>1, <2>6, <2>9, <2>10, <2>12, <2>13, <2>14, <2>15, SegmentOut
<1> QED
  BY <1>3, <1>4, <1>5, <1>6

(***************************************************************************)
(* The theorem                                                             *)
(***************************************************************************)
LEMMA NoPeerType == NoPeer \in Peers
<1>1. <<>> \in Seq(Int)
  BY EmptySeq
<1>2. PICK c \in SUBSET Ranges : c = {}
  OBVIOUS
<1> QED
  BY <1>1, <1>2 DEF NoPeer, Peers

\* Blank blocks satisfy the invariant.
LEMMA TcpInit == Init => TcpInv
<1> SUFFICES ASSUME Init PROVE TcpInv
  OBVIOUS
<1>1. Typed
  <2>1. pcb \in [Ids -> Pcbs] /\ peer \in [FPORTS -> Peers] /\ hist \in [Ids -> Histories]
    BY BlankTrue, NoPeerType, NoHistoryType DEF Init
  <2>2. ISS \in Seq(Nums)
    BY TcpAssumption DEF Nums
  <2>3. 0 \in 0 .. Len(ISS)
    BY <2>2
  <2> QED
    BY <2>1, <2>3, IdleType DEF Init, Typed
<1>2. call.op = "none" /\ Held = {}
  BY IdleType DEF Init, Held
<1>3. \A i \in Ids : pcb[i] = Blank
  BY DEF Init
<1>4. \A i, j \in Ids, k \in Nat : ~At(pcb, j, k, i)
  BY <1>3, BlankTrue DEF At
<1>5. Kept(pcb, Held)
  BY <1>1, <1>2, <1>3, <1>4, BlankTrue DEF Kept, Typed, Waits
<1>6. Ports(pcb, Bound)
  BY <1>3, BlankTrue DEF Ports, Paired
<1> QED
  BY <1>1, <1>2, <1>5, <1>6 DEF TcpInv

\* One lemma per action.
LEMMA TcpStep == TcpInv /\ [Next]_tcpVars => TcpInv'
<1> SUFFICES ASSUME TcpInv, [Next]_tcpVars PROVE TcpInv'
  OBVIOUS
<1>1. CASE UNCHANGED tcpVars
  <2>1. UNCHANGED <<pcb, used, hist, peer, call, owned>>
    BY <1>1 DEF tcpVars
  <2>2. Held' \subseteq Held
    BY <2>1, HeldSame
  <2> QED
    BY <2>1, <2>2, SameBlocks, Parts
<1>2. CASE tcp_open
  BY <1>2, OpenStep
<1>3. CASE tcp_open_rfc793(TRUE) \/ tcp_open_rfc793(FALSE)
  <2>1. PICK active \in BOOLEAN : tcp_open_rfc793(active)
    BY <1>3
  <2> QED
    BY <2>1, OpenRfcStep
<1>4. ASSUME NEW i \in Ids, Commands(i) PROVE TcpInv'
  <2>1. CASE tcp_bind(i)
    BY <2>1, BindStep
  <2>2. CASE tcp_listen(i)
    BY <2>2, ListenCallStep
  <2>3. CASE tcp_accept(i)
    BY <2>3, AcceptStep
  <2>4. CASE tcp_close(i)
    BY <2>4, CloseStep
  <2>5. CASE \E f \in FPORTS : tcp_connect(i, f)
    BY <2>5, ConnectStep
  <2>6. CASE \E n \in SENDS : tcp_send(i, n)
    BY <2>6, SendCallStep
  <2>7. CASE \E n \in SIZES : tcp_receive(i, n)
    BY <2>7, ReceiveCallStep
  <2> QED
    BY <1>4, <2>1, <2>2, <2>3, <2>4, <2>5, <2>6, <2>7 DEF Commands
<1>5. CASE open_resume
  BY <1>5, OpenResumeStep
<1>6. CASE accept_resume
  BY <1>6, AcceptResumeStep
<1>7. CASE send_resume
  BY <1>7, SendResumeStep
<1>8. CASE receive_resume
  BY <1>8, ReceiveResumeStep
<1>9. CASE tcp_timer
  BY <1>9, TimerStep
<1>10. ASSUME NEW f \in FPORTS, peer_open(f) PROVE TcpInv'
  BY <1>10, PeerOpenStep
<1>11. ASSUME NEW f \in FPORTS, NEW s \in PeerSegments(f), tcp_segment_arrives(s) PROVE TcpInv'
  BY <1>11, ArriveStep
<1> QED
  BY <1>1, <1>2, <1>3, <1>4, <1>5, <1>6, <1>7, <1>8, <1>9, <1>10, <1>11 DEF Next

\* What waits in a backlog, as OwnedAlive says it.
LEMMA WaitingAt ==
  ASSUME NEW i \in Ids, pcb \in [Ids -> Pcbs], NEW x \in Waiting(i)
  PROVE  \E j \in Ids, k \in Nat : x = <<j, k>> /\ At(pcb, j, k, i)
<1>1. PICK j \in Ids : x \in {<<j, k>> : k \in {n \in DOMAIN pcb[j].backlog : pcb[j].backlog[n] = i}}
  BY DEF Waiting
<1>2. PICK k \in DOMAIN pcb[j].backlog : x = <<j, k>> /\ pcb[j].backlog[k] = i
  BY <1>1
<1>3. pcb[j].backlog \in Seq(Ids)
  BY PcbFields
<1>4. k \in Nat
  BY <1>3
<1> QED
  BY <1>2, <1>4 DEF At

\* The invariant says all that BlocksTrue says.
LEMMA TcpTrue == TcpInv => BlocksTrue
<1> SUFFICES ASSUME TcpInv PROVE BlocksTrue
  OBVIOUS
<1>1. TypeOK
  <2>1. ASSUME NEW i \in Ids
        PROVE  /\ pcb[i].state \in PcbStates
               /\ {pcb[i].nxt, pcb[i].una, pcb[i].rnxt, pcb[i].iss} \subseteq 0 .. SEQS - 1
               /\ pcb[i].rwnd \in 0 .. BUF
               /\ pcb[i].state \notin {"FREE", "CLOSED", "LISTEN"} => Len(pcb[i].buf) = BUF - pcb[i].rwnd
    <3>1. PICK p \in Pcbs : p = pcb[i] /\ Sound(p)
      BY Parts
    <3>2. p.state \in PcbStates /\ p.nxt \in Nums /\ p.una \in Nums /\ p.rnxt \in Nums /\ p.iss \in Nums /\ p.rwnd \in 0 .. BUF
      BY PcbFields
    <3>3. p.state \notin {"FREE", "CLOSED", "LISTEN"} => Len(p.buf) = BUF - p.rwnd
      BY <3>1 DEF Sound, Filled
    <3>4. {p.nxt, p.una, p.rnxt, p.iss} \subseteq 0 .. SEQS - 1
      BY <3>2 DEF Nums
    <3> QED
      BY <3>1, <3>2, <3>3, <3>4
  <2>2. call.id \in Ids \cup {NONE} /\ owned \subseteq Ids /\ used \in 0 .. Len(ISS)
    BY Parts DEF CallType
  <2> QED
    BY <2>1, <2>2 DEF TypeOK
<1>2. OneBlockPerPair
  <2>1. ASSUME NEW i \in Ids, NEW j \in Ids, i # j, ~hist[i].bound, ~hist[j].bound, pcb[i].lport # 0, pcb[i].fport # 0
        PROVE  <<pcb[i].lport, pcb[i].fport>> # <<pcb[j].lport, pcb[j].fport>>
    <3>1. i \notin Bound /\ j \notin Bound /\ Paired(pcb[i])
      BY <2>1 DEF Bound, Paired
    <3>2. pcb[i].lport # pcb[j].lport \/ pcb[i].fport # pcb[j].fport
      BY <2>1, <3>1, Parts DEF Ports
    <3> QED
      BY <3>2
  <2> QED
    BY <2>1 DEF OneBlockPerPair
<1>3. \A i \in Ids : Waiting(i) # {} => Waits(pcb, i)
  BY WaitingAt, Parts DEF Waits
<1>4. OwnedAlive
  <2>1. ASSUME NEW i \in owned PROVE pcb[i].state # "FREE" /\ Waiting(i) = {}
    <3>1. i \in Ids /\ ~Waits(pcb, i) /\ Holdable(pcb[i])
      BY <2>1, HeldWhat
    <3> QED
      BY <1>3, <3>1 DEF Holdable
  <2>2. ASSUME NEW i \in Ids, NEW a \in Waiting(i), NEW b \in Waiting(i) PROVE a = b
    <3>1. PICK j \in Ids, k \in Nat : a = <<j, k>> /\ At(pcb, j, k, i)
      BY WaitingAt, Parts
    <3>2. PICK h \in Ids, n \in Nat : b = <<h, n>> /\ At(pcb, h, n, i)
      BY WaitingAt, Parts
    <3>3. j = h /\ k = n
      BY <3>1, <3>2, Parts DEF Kept
    <3> QED
      BY <3>1, <3>2, <3>3
  <2>3. ASSUME NEW i \in Ids, Waiting(i) # {} PROVE pcb[i].state # "FREE"
    BY <1>3, <2>3, Parts DEF Kept, Unready
  <2> QED
    BY <2>1, <2>2, <2>3 DEF OwnedAlive
<1> QED
  BY <1>1, <1>2, <1>4 DEF BlocksTrue

\* Through every order of calls, segments, timeouts and losses, a control block is one
\* connection's and one owner's: what tcp_pcb_alloc, tcp_pcb_select, tcp_pcb_release,
\* tcp_accept and tcp_close rely on.
THEOREM BlocksTheorem == Spec => []BlocksTrue
<1>1. Spec => []TcpInv
  BY TcpInit, TcpStep, PTL DEF Spec
<1> QED
  BY <1>1, TcpTrue, PTL

(***************************************************************************)
(* The stream from the remote host                                         *)
(***************************************************************************)
Dead == {"FREE", "CLOSED", "LISTEN"}
Fresh == {"SYN_SENT", "SYN_RECEIVED"}
Taking == {"SYN_RECEIVED", "ESTABLISHED", "FIN_WAIT1", "FIN_WAIT2"}
Ended == {"CLOSE_WAIT", "LAST_ACK", "CLOSING", "TIME_WAIT"}

\* These are the first bytes of the stream.
Prefix(q) == Len(q) <= PEER_BYTES /\ \A k \in 1 .. Len(q) : q[k] = k

\* What a block and its history say of the stream.  While there is no FIN, rcv.nxt is the
\* number of the byte after those that were taken; with it, there are no more.
Flow(p, h) ==
    /\ p.state \in Fresh => h.gave = <<>> /\ p.buf = <<>>
    /\ ~h.gap /\ ~h.over /\ p.state \in Taking \cup Ended =>
          /\ Prefix(h.gave \o p.buf)
          /\ p.state \in Taking => p.rnxt = Add(PEER_ISS, 1 + Len(h.gave \o p.buf))
          /\ p.state \in Ended => Len(h.gave \o p.buf) = PEER_BYTES
StreamInv == \A i \in Ids : Flow(pcb[i], hist[i])

\* The lengths and numbers of the stream are numbers.
LEMMA PeerNumbers == PEER_BYTES \in Nat /\ SEQS \in Nat /\ SEQS # 0 /\ PEER_ISS \in Nat /\ PEER_ISS \in Int
  BY TcpAssumption, SeqsAssumption, Numbers, NumInt

\* Two bytes of the stream have different sequence numbers.
LEMMA PlaceOnce ==
  ASSUME PEER_BYTES < SEQS, NEW u \in 1 .. PEER_BYTES + 1, NEW v \in 1 .. PEER_BYTES + 1,
         Add(PEER_ISS, u) = Add(PEER_ISS, v)
  PROVE  u = v
<1>1. PICK n \in Nat, a \in Nat : n = SEQS /\ a = PEER_ISS /\ n # 0
  BY PeerNumbers
<1>2. u \in Nat /\ v \in Nat /\ u - v < n /\ v - u < n
  BY <1>1, PeerNumbers
<1>3. (a + u) % n = (a + v) % n
  BY <1>1 DEF Add
<1>4. PICK x \in Nat, y \in Nat, z \in Nat : z = (a + u) % n /\ x = (a + u) \div n /\ y = (a + v) \div n
  BY <1>1, <1>2
<1>5. a + u = x * n + z /\ a + v = y * n + z
  BY <1>1, <1>2, <1>3, <1>4
<1>6. x = y
  <2>1. x < y => y * n >= x * n + n
    BY <1>1
  <2>2. y < x => x * n >= y * n + n
    BY <1>1
  <2>3. x * n \in Nat /\ y * n \in Nat
    BY <1>1
  <2> QED
    BY <1>1, <1>2, <1>5, <2>1, <2>2, <2>3
<1> QED
  BY <1>2, <1>5, <1>6

\* A multiple of n does not change the remainder.
LEMMA ModUnique ==
  ASSUME NEW n \in Nat \ {0}, NEW q \in Int, NEW r \in 0 .. n - 1
  PROVE  (q * n + r) % n = r
  OBVIOUS

\* A number below n is its own remainder.
LEMMA ModSmall ==
  ASSUME NEW n \in Nat, NEW x \in Nat, x < n
  PROVE  x % n = x
  OBVIOUS

\* The quotient and the remainder.
LEMMA ModParts ==
  ASSUME NEW n \in Nat \ {0}, NEW x \in Int
  PROVE  x % n \in 0 .. n - 1 /\ x = (x \div n) * n + (x % n) /\ x \div n \in Int
  OBVIOUS

\* A multiple of n added to any number.
LEMMA ModShift ==
  ASSUME NEW n \in Nat \ {0}, NEW x \in Int, NEW q \in Int
  PROVE  (x + q * n) % n = x % n
<1> DEFINE r == x % n
           d == x \div n
<1>1. r \in 0 .. n - 1 /\ x = d * n + r /\ d \in Int
  BY ModParts
<1> HIDE DEF r, d
<1>2. x + q * n = (d + q) * n + r
  BY <1>1
<1>3. ((d + q) * n + r) % n = r
  BY <1>1, ModUnique
<1> QED
  BY <1>2, <1>3 DEF r

\* Numbers are counted on.
LEMMA AddOn ==
  ASSUME NEW u \in Nat, NEW d \in Nat
  PROVE  Add(Add(PEER_ISS, u), d) = Add(PEER_ISS, u + d)
<1>1. PICK n \in Nat \ {0}, a \in Nat : n = SEQS /\ a = PEER_ISS
  BY PeerNumbers
<1> DEFINE z == (a + u) % n
           x == (a + u) \div n
<1>2. z \in Int /\ x \in Int /\ a + u = x * n + z
  BY <1>1, ModParts
<1> HIDE DEF x, z
<1>3. x * n \in Int
  BY <1>1, <1>2
<1>4. (z + d) + x * n = a + (u + d)
  BY <1>2, <1>3
<1>5. ((z + d) + x * n) % n = (z + d) % n
  <2>1. PICK y \in Int : y = z + d
    BY <1>2
  <2>2. (y + x * n) % n = y % n
    BY <1>2, ModShift
  <2> QED
    BY <2>1, <2>2
<1> QED
  BY <1>1, <1>4, <1>5 DEF Add, z

\* What a segment says of the stream: a SYN precedes it, bytes have their numbers, and
\* the FIN is behind the last byte.
Bytes(s, u) ==
    /\ s.seq = Add(PEER_ISS, u)
    /\ u + Len(s.data) <= PEER_BYTES + 1
    /\ \A k \in 1 .. Len(s.data) : s.data[k] = u + k - 1
    /\ "FIN" \in s.flg => u + Len(s.data) = PEER_BYTES + 1
Carries(s) ==
    /\ "SYN" \in s.flg => s.seq = Add(PEER_ISS, 0)
    /\ s.data # <<>> \/ "FIN" \in s.flg => "SYN" \notin s.flg /\ \E u \in 1 .. PEER_BYTES + 1 : Bytes(s, u)

\* Whatever arrives is part of the stream.
LEMMA ArrivingBytes ==
  ASSUME TcpInv, NEW f \in FPORTS, NEW s \in PeerSegments(f)
  PROVE  Carries(s)
<1>1. PICK q \in Peers : q = peer[f]
  BY Parts
<1>2. \A o, a, g, w, d : LET r == From(q, f, o, a, g, w, d) IN r.seq = Add(PEER_ISS, o) /\ r.flg = g /\ r.data = d
  BY DEF From, Segment
<1>3. CASE \E w \in PEER_WNDS : s = From(q, f, 0, 0, {"SYN"}, w, <<>>)
  BY <1>2, <1>3 DEF Carries
<1>4. CASE \E w \in PEER_WNDS : s = From(q, f, 0, Add(q.base, 1), {"SYN", "ACK"}, w, <<>>)
  BY <1>2, <1>4 DEF Carries
<1>5. CASE \E a \in Given(q), w \in PEER_WNDS : s = From(q, f, IF q.una = 0 THEN 1 ELSE q.una, a, {"ACK"}, w, <<>>)
  BY <1>2, <1>5 DEF Carries
<1>6. CASE \E c \in q.cuts, a \in Given(q), w \in PEER_WNDS :
             s = From(q, f, c[1], a, IF c[2] > PEER_BYTES THEN {"ACK", "FIN"} ELSE {"ACK"}, w, Piece(c[1], c[2]))
  <2>1. PICK c \in q.cuts : s.seq = Add(PEER_ISS, c[1]) /\ s.data = Piece(c[1], c[2])
                            /\ s.flg = IF c[2] > PEER_BYTES THEN {"ACK", "FIN"} ELSE {"ACK"}
    BY <1>2, <1>6
  <2>2. c[1] \in 1 .. PEER_BYTES + 1 /\ c[2] \in 1 .. PEER_BYTES + 1
    BY DEF Peers, Ranges
  <2>3. PICK u \in 1 .. PEER_BYTES + 1, v \in 1 .. PEER_BYTES + 1 : u = c[1] /\ v = c[2]
    BY <2>2
  <2>4. PICK m \in Int : m = (IF v > PEER_BYTES THEN PEER_BYTES ELSE v) - u + 1
    BY PeerNumbers
  <2>5. s.data = [k \in 1 .. m |-> u + k - 1] /\ (s.data # <<>> => m >= 1)
    <3>1. s.data = [k \in 1 .. m |-> u + k - 1]
      BY <2>1, <2>3, <2>4 DEF Piece
    <3>2. m < 1 => s.data = <<>>
      BY <3>1
    <3> QED
      BY <3>1, <3>2
  <2>6. "SYN" \notin s.flg /\ ("FIN" \in s.flg => v = PEER_BYTES + 1 /\ m = PEER_BYTES - u + 1)
    BY <2>1, <2>3, <2>4, PeerNumbers
  <2>7. m <= PEER_BYTES - u + 1
    BY <2>3, <2>4, PeerNumbers
  <2>8. CASE m >= 0
    <3>1. Len(s.data) = m
      BY <2>5, <2>8
    <3>2. u + m <= PEER_BYTES + 1 /\ ("FIN" \in s.flg => u + m = PEER_BYTES + 1)
      BY <2>6, <2>7, PeerNumbers
    <3>3. \A k \in 1 .. m : s.data[k] = u + k - 1
      BY <2>5
    <3>4. Bytes(s, u)
      BY <2>1, <2>3, <3>1, <3>2, <3>3 DEF Bytes
    <3> QED
      BY <2>1, <2>6, <3>4 DEF Carries
  <2>9. CASE m < 0
    <3>1. s.data = <<>> /\ "FIN" \notin s.flg
      BY <2>5, <2>6, <2>9, PeerNumbers
    <3> QED
      BY <2>6, <3>1 DEF Carries
  <2> QED
    BY <2>8, <2>9
<1> QED
  BY <1>1, <1>3, <1>4, <1>5, <1>6, ArrivingForm
\* Most steps leave the stream alone: its history, and unless the block is given up, its
\* buffer and rcv.nxt.
Moves(a, b) ==
    \/ b = a
    \/ <<a, b>> \in {<<"SYN_RECEIVED", "ESTABLISHED">>, <<"ESTABLISHED", "FIN_WAIT1">>,
                     <<"FIN_WAIT1", "FIN_WAIT2">>, <<"CLOSE_WAIT", "LAST_ACK">>}
Untouched(p, h, q, g) ==
    /\ g.gave = h.gave /\ g.gap = h.gap /\ g.over = h.over
    /\ q.state \in Dead \/ (q.buf = p.buf /\ q.rnxt = p.rnxt /\ Moves(p.state, q.state))

\* A block that is not in use says nothing of a stream.
LEMMA FlowDead ==
  ASSUME NEW q, NEW g, q.state \in Dead
  PROVE  Flow(q, g)
<1>1. q.state \notin Fresh /\ q.state \notin Taking \cup Ended
  BY DEF Dead, Fresh, Taking, Ended
<1> QED
  BY <1>1 DEF Flow

\* What it says of an open one stays true.
LEMMA FlowUntouched ==
  ASSUME NEW p, NEW h, NEW q, NEW g, Flow(p, h), Untouched(p, h, q, g)
  PROVE  Flow(q, g)
<1>1. CASE q.state \in Dead
  BY <1>1, FlowDead
<1>2. CASE q.buf = p.buf /\ q.rnxt = p.rnxt /\ Moves(p.state, q.state)
  <2>1. /\ q.state \in Fresh => p.state \in Fresh
        /\ q.state \in Taking => p.state \in Taking
        /\ q.state \in Ended => p.state \in Ended
    BY <1>2 DEF Moves, Fresh, Taking, Ended
  <2>2. g.gave = h.gave /\ g.gap = h.gap /\ g.over = h.over
    BY DEF Untouched
  <2> QED
    BY <1>2, <2>1, <2>2 DEF Flow
<1> QED
  BY <1>1, <1>2 DEF Untouched

\* A step with one block.
LEMMA StreamPut ==
  ASSUME TcpInv, StreamInv, NEW i \in Ids, NEW q, NEW g, Flow(q, g),
         pcb' = [pcb EXCEPT ![i] = q], hist' = [hist EXCEPT ![i] = g]
  PROVE  StreamInv'
<1>1. \A j \in Ids : pcb'[j] = (IF j = i THEN q ELSE pcb[j]) /\ hist'[j] = (IF j = i THEN g ELSE hist[j])
  BY Parts
<1>2. \A j \in Ids : Flow(pcb'[j], hist'[j])
  BY <1>1 DEF StreamInv
<1> QED
  BY <1>2 DEF StreamInv

\* A step with one block and without a change of its history.
LEMMA StreamBlock ==
  ASSUME TcpInv, StreamInv, NEW i \in Ids, NEW q, Untouched(pcb[i], hist[i], q, hist[i]),
         pcb' = [pcb EXCEPT ![i] = q], UNCHANGED hist
  PROVE  StreamInv'
<1>1. hist' = [hist EXCEPT ![i] = hist[i]]
  BY Parts
<1>2. Flow(q, hist[i])
  BY FlowUntouched DEF StreamInv
<1> QED
  BY <1>1, <1>2, StreamPut

\* A step with none.
LEMMA StreamSame ==
  ASSUME StreamInv, UNCHANGED <<pcb, hist>>
  PROVE  StreamInv'
  BY DEF StreamInv, Flow

\* Blocks are cleared.
LEMMA StreamRelease ==
  ASSUME TcpInv, StreamInv, NEW i \in Ids, NEW asleep, pcb' = tcp_pcb_release(pcb, i, asleep), UNCHANGED hist
  PROVE  StreamInv'
<1>1. Blank.state \in Dead
  BY BlankTrue DEF Dead
<1>2. \A j \in Ids : Flow(pcb'[j], hist[j])
  <2> TAKE j \in Ids
  <2>1. pcb'[j] = pcb[j] \/ pcb'[j] = Blank
    BY ReleaseEach, Parts
  <2> QED
    BY <1>1, <2>1, FlowDead DEF StreamInv
<1> QED
  BY <1>2 DEF StreamInv

\* The calls that leave every stream alone.
LEMMA TimerStream ==
  ASSUME TcpInv, StreamInv, tcp_timer
  PROVE  StreamInv'
<1>1. PICK dead : pcb' = [i \in Ids |-> IF i \in dead THEN [pcb[i] EXCEPT !.state = "CLOSED"] ELSE pcb[i]]
  BY DEF tcp_timer
<1>2. UNCHANGED hist
  BY DEF tcp_timer
<1>3. \A j \in Ids : Flow(pcb'[j], hist[j])
  <2> TAKE j \in Ids
  <2>1. CASE j \in dead
    <3>1. pcb'[j] = [pcb[j] EXCEPT !.state = "CLOSED"] /\ pcb[j] \in Pcbs
      BY <1>1, <2>1, Parts
    <3>2. pcb'[j].state \in Dead
      BY <3>1 DEF Pcbs, Dead
    <3> QED
      BY <3>2, FlowDead
  <2>2. CASE j \notin dead
    BY <1>1, <2>2 DEF StreamInv
  <2> QED
    BY <2>1, <2>2
<1> QED
  BY <1>2, <1>3 DEF StreamInv

\* socket
LEMMA OpenStream ==
  ASSUME TcpInv, StreamInv, tcp_open
  PROVE  StreamInv'
<1>1. CASE UNCHANGED <<pcb, hist>>
  BY <1>1, StreamSame
<1>2. ASSUME NEW i \in FirstFree, pcb' = [pcb EXCEPT ![i].state = "CLOSED", ![i].mode = "socket"],
             hist' = [hist EXCEPT ![i] = NoHistory]
      PROVE  StreamInv'
  <2>1. i \in Ids /\ pcb[i] \in Pcbs
    BY FirstFreeWhat, Parts
  <2>2. PICK q : q = [pcb[i] EXCEPT !.state = "CLOSED", !.mode = "socket"]
    OBVIOUS
  <2>3. q.state \in Dead /\ pcb' = [pcb EXCEPT ![i] = q]
    BY <1>2, <2>1, <2>2, Parts DEF Pcbs, Dead
  <2> QED
    BY <1>2, <2>1, <2>3, FlowDead, StreamPut
<1> QED
  BY <1>1, <1>2 DEF tcp_open

\* tcp_bind
LEMMA BindStream ==
  ASSUME TcpInv, StreamInv, NEW i \in Ids, tcp_bind(i)
  PROVE  StreamInv'
<1>1. CASE UNCHANGED <<pcb, hist>>
  BY <1>1, StreamSame
<1>2. ASSUME NEW lp \in SERVICES, pcb' = [pcb EXCEPT ![i].lport = lp], hist' = [hist EXCEPT ![i].bound = TRUE]
      PROVE  StreamInv'
  <2>1. PICK p \in Pcbs, h \in Histories : p = pcb[i] /\ h = hist[i]
    BY Parts
  <2>2. PICK q, g : q = [p EXCEPT !.lport = lp] /\ g = [h EXCEPT !.bound = TRUE]
    OBVIOUS
  <2>3. Untouched(p, h, q, g)
    BY <2>2 DEF Untouched, Moves, Pcbs, Histories
  <2>4. Flow(q, g)
    BY <2>1, <2>3, FlowUntouched DEF StreamInv
  <2> QED
    BY <1>2, <2>1, <2>2, <2>4, StreamPut
<1> QED
  BY <1>1, <1>2 DEF tcp_bind

\* tcp_listen
LEMMA ListenCallStream ==
  ASSUME TcpInv, StreamInv, NEW i \in Ids, tcp_listen(i)
  PROVE  StreamInv'
<1>1. pcb' = [pcb EXCEPT ![i].state = "LISTEN"] /\ UNCHANGED hist
  BY DEF tcp_listen
<1>2. PICK p \in Pcbs : p = pcb[i]
  BY Parts
<1>3. PICK q : q = [p EXCEPT !.state = "LISTEN"]
  OBVIOUS
<1>4. Untouched(p, hist[i], q, hist[i])
  BY <1>3 DEF Untouched, Dead, Pcbs
<1> QED
  BY <1>1, <1>2, <1>3, <1>4, StreamBlock

\* tcp_accept
LEMMA AcceptsStream ==
  ASSUME TcpInv, StreamInv, NEW i \in Ids, Accepts(i), UNCHANGED hist
  PROVE  StreamInv'
<1>1. pcb' = [pcb EXCEPT ![i].backlog = Tail(@)]
  BY DEF Accepts
<1>2. PICK p \in Pcbs : p = pcb[i]
  BY Parts
<1>3. PICK q : q = [p EXCEPT !.backlog = Tail(p.backlog)]
  OBVIOUS
<1>4. Untouched(p, hist[i], q, hist[i])
  BY <1>3 DEF Untouched, Moves, Pcbs
<1> QED
  BY <1>1, <1>2, <1>3, <1>4, StreamBlock

\* tcp_accept takes a connection or waits for one.
LEMMA AcceptStream ==
  ASSUME TcpInv, StreamInv, NEW i \in Ids, tcp_accept(i)
  PROVE  StreamInv'
  BY AcceptsStream, StreamSame DEF tcp_accept

\* It takes one when it is woken.
LEMMA AcceptResumeStream ==
  ASSUME TcpInv, StreamInv, accept_resume
  PROVE  StreamInv'
<1>1. call.id \in Ids
  BY Resumes DEF accept_resume
<1> QED
  BY <1>1, AcceptsStream DEF accept_resume

\* The loop of tcp_connect and tcp_open_rfc793
LEMMA OpenResumeStream ==
  ASSUME TcpInv, StreamInv, open_resume
  PROVE  StreamInv'
<1>1. call.id \in Ids /\ UNCHANGED hist
  BY Resumes DEF open_resume
<1>2. UNCHANGED pcb \/ pcb' = tcp_pcb_release(pcb, call.id, {})
  BY DEF open_resume
<1> QED
  BY <1>1, <1>2, StreamSame, StreamRelease
\* The SYN of an active open: nothing has been received.
LEMMA ConnectsStream ==
  ASSUME TcpInv, StreamInv, NEW i \in Ids, NEW lp \in Nat, NEW f \in FPORTS, NEW op, pcb[i].fport = 0,
         Connects([pcb EXCEPT ![i].lport = lp, ![i].fport = f], i, op)
  PROVE  StreamInv'
<1>1. PICK o \in Pcbs : o = pcb[i] /\ o.buf = <<>>
  BY Parts DEF Sound
<1>2. f \in Nat
  BY TcpAssumption
<1>3. PICK c : c = [o EXCEPT !.lport = lp, !.fport = f]
  OBVIOUS
<1>4. PICK P : P = [pcb EXCEPT ![i] = c]
  OBVIOUS
<1>5. P = [pcb EXCEPT ![i].lport = lp, ![i].fport = f] /\ P[i] = c
  BY <1>1, <1>3, <1>4, Parts
<1>6. c \in Pcbs /\ c.backlog = pcb[i].backlog /\ c.buf = <<>>
  BY <1>1, <1>2, <1>3 DEF Pcbs
<1>7. PICK r \in Random :
        LET p == [c EXCEPT !.rwnd = BUF, !.iss = r]
        IN  \/ /\ pcb' = [P EXCEPT ![i] = Active(Queued(p, {"SYN"}, <<>>), r)]
               /\ hist' = [hist EXCEPT ![i] = [NoHistory EXCEPT !.bound = op = "connect" /\ hist[i].bound]]
            \/ /\ pcb' = tcp_pcb_release(P, i, {})
               /\ UNCHANGED hist
  BY <1>5 DEF Connects
<1>8. PICK p : p = [c EXCEPT !.rwnd = BUF, !.iss = r]
  OBVIOUS
<1>9. CASE pcb' = tcp_pcb_release(P, i, {}) /\ UNCHANGED hist
  <2>1. pcb' = tcp_pcb_release(pcb, i, {})
    BY <1>4, <1>6, <1>9, ReleaseSame, Parts
  <2> QED
    BY <1>9, <2>1, StreamRelease
<1>10. CASE /\ pcb' = [P EXCEPT ![i] = Active(Queued(p, {"SYN"}, <<>>), r)]
            /\ hist' = [hist EXCEPT ![i] = [NoHistory EXCEPT !.bound = op = "connect" /\ hist[i].bound]]
  <2>1. p \in Pcbs /\ p.buf = <<>>
    <3>1. r \in Nums /\ BUF \in 0 .. BUF
      BY RandomType, Parts, Numbers
    <3> QED
      BY <1>6, <1>8, <3>1 DEF Pcbs
  <2>2. PICK F \in SUBSET Flags, e \in Seq(Int) : F = {"SYN"} /\ e = <<>>
    BY EmptySeq DEF Flags
  <2>3. PICK l \in Seq(Entries) : Queued(p, F, e) = [p EXCEPT !.queue = l]
    BY <2>1, QueuedForm
  <2>4. PICK q : q = Active([p EXCEPT !.queue = l], r)
    OBVIOUS
  <2>5. q.state = "SYN_SENT" /\ q.buf = <<>>
    BY <2>1, <2>4 DEF Active, Pcbs
  <2>6. PICK g : g = [NoHistory EXCEPT !.bound = op = "connect" /\ hist[i].bound]
    OBVIOUS
  <2>7. g.gave = <<>>
    BY <2>6 DEF NoHistory
  <2>8. Flow(q, g)
    BY <2>5, <2>7 DEF Flow, Taking, Ended
  <2>9. pcb' = [pcb EXCEPT ![i] = q] /\ hist' = [hist EXCEPT ![i] = g]
    BY <1>4, <1>10, <2>2, <2>3, <2>4, <2>6, Parts
  <2> QED
    BY <2>8, <2>9, StreamPut
<1> QED
  BY <1>7, <1>8, <1>9, <1>10

\* tcp_open_rfc793
LEMMA OpenRfcStream ==
  ASSUME TcpInv, StreamInv, NEW active \in BOOLEAN, tcp_open_rfc793(active)
  PROVE  StreamInv'
<1>1. PICK i \in FirstFree, lp \in SERVICES, f \in FPORTS :
          IF active THEN Connects([pcb EXCEPT ![i].lport = lp, ![i].fport = f], i, "open")
          ELSE pcb' = [pcb EXCEPT ![i].lport = lp, ![i].state = "LISTEN"] /\ UNCHANGED hist
  BY DEF tcp_open_rfc793
<1>2. i \in Ids /\ pcb[i].fport = 0 /\ lp \in Nat
  BY FirstFreeWhat, TcpAssumption
<1>3. CASE active
  BY <1>1, <1>2, <1>3, ConnectsStream
<1>4. CASE ~active
  <2>1. PICK p \in Pcbs : p = pcb[i]
    BY <1>2, Parts
  <2>2. PICK q : q = [p EXCEPT !.lport = lp, !.state = "LISTEN"]
    OBVIOUS
  <2>3. Untouched(p, hist[i], q, hist[i])
    BY <2>2 DEF Untouched, Dead, Pcbs
  <2>4. pcb' = [pcb EXCEPT ![i] = q]
    BY <1>1, <1>2, <1>4, <2>1, <2>2, Parts
  <2> QED
    BY <1>1, <1>2, <1>4, <2>1, <2>3, <2>4, StreamBlock
<1> QED
  BY <1>3, <1>4

\* tcp_connect
LEMMA ConnectStream ==
  ASSUME TcpInv, StreamInv, NEW i \in Ids, NEW f \in FPORTS, tcp_connect(i, f)
  PROVE  StreamInv'
<1>1. PICK lp \in SourcePorts(i, f) : Connects([pcb EXCEPT ![i].lport = lp, ![i].fport = f], i, "connect")
  BY DEF tcp_connect
<1>2. pcb[i].fport = 0 /\ pcb[i] \in Pcbs
  BY Parts DEF tcp_connect, FreshSocket
<1>3. lp \in Nat
  BY <1>2, PcbFields, TcpAssumption DEF SourcePorts
<1> QED
  BY <1>1, <1>2, <1>3, ConnectsStream

\* tcp_send
LEMMA SendStream ==
  ASSUME TcpInv, StreamInv, NEW i \in Ids, NEW left \in Nat, send_step(i, left)
  PROVE  StreamInv'
<1>1. PICK p \in Pcbs, h \in Histories : p = pcb[i] /\ h = hist[i]
  BY Parts
<1>2. PICK n \in Nat : n = Slice(p, left)
  BY SliceType
<1>3. PICK data \in Seq(Int) : data = Payload(h, n)
  BY PayloadType
<1>4. \/ UNCHANGED <<pcb, hist>>
      \/ /\ pcb' = [pcb EXCEPT ![i] = [Queued(p, {"ACK", "PSH"}, data) EXCEPT !.nxt = Add(@, n)]]
         /\ hist' = [hist EXCEPT ![i].asked = @ + n]
      \/ pcb' = tcp_pcb_release(pcb, i, {}) /\ UNCHANGED hist
  BY <1>1, <1>2, <1>3 DEF send_step
<1>5. CASE /\ pcb' = [pcb EXCEPT ![i] = [Queued(p, {"ACK", "PSH"}, data) EXCEPT !.nxt = Add(@, n)]]
           /\ hist' = [hist EXCEPT ![i].asked = @ + n]
  <2>1. PICK F \in SUBSET Flags : F = {"ACK", "PSH"}
    BY DEF Flags
  <2>2. PICK w \in Seq(Entries) : Queued(p, F, data) = [p EXCEPT !.queue = w]
    BY QueuedForm
  <2>3. PICK q, g : q = [p EXCEPT !.queue = w, !.nxt = Add(p.nxt, n)] /\ g = [h EXCEPT !.asked = h.asked + n]
    OBVIOUS
  <2>4. Untouched(p, h, q, g)
    BY <2>3 DEF Untouched, Moves, Pcbs, Histories
  <2>5. Flow(q, g)
    BY <1>1, <2>4, FlowUntouched DEF StreamInv
  <2>6. [Queued(p, {"ACK", "PSH"}, data) EXCEPT !.nxt = Add(@, n)] = q
    BY <2>1, <2>2, <2>3 DEF Pcbs
  <2>7. pcb' = [pcb EXCEPT ![i] = q] /\ hist' = [hist EXCEPT ![i] = g]
    BY <1>1, <1>5, <2>3, <2>6
  <2> QED
    BY <2>5, <2>7, StreamPut
<1> QED
  BY <1>4, <1>5, StreamSame, StreamRelease

\* tcp_send sends what the window takes.
LEMMA SendCallStream ==
  ASSUME TcpInv, StreamInv, NEW i \in Ids, NEW n \in SENDS, tcp_send(i, n)
  PROVE  StreamInv'
  BY SendStream, TcpAssumption DEF tcp_send

\* It goes on when there is room.
LEMMA SendResumeStream ==
  ASSUME TcpInv, StreamInv, send_resume
  PROVE  StreamInv'
<1>1. call.id \in Ids /\ call.left \in Nat
  BY Resumes DEF send_resume
<1> QED
  BY <1>1, SendStream DEF send_resume

\* tcp_close
LEMMA CloseStream ==
  ASSUME TcpInv, StreamInv, NEW i \in Ids, tcp_close(i)
  PROVE  StreamInv'
<1>1. PICK p \in Pcbs : p = pcb[i]
  BY Parts
<1>2. \/ UNCHANGED <<pcb, hist>>
      \/ /\ p.state \in {"ESTABLISHED", "CLOSE_WAIT"} /\ UNCHANGED hist
         /\ pcb' = [pcb EXCEPT ![i] = [Queued(p, {"ACK", "FIN"}, <<>>) EXCEPT
                       !.nxt = Add(@, 1),
                       !.state = IF @ = "ESTABLISHED" THEN "FIN_WAIT1" ELSE "LAST_ACK"]]
      \/ pcb' = tcp_pcb_release(pcb, i, {}) /\ UNCHANGED hist
  BY <1>1 DEF tcp_close
<1>3. CASE /\ p.state \in {"ESTABLISHED", "CLOSE_WAIT"} /\ UNCHANGED hist
           /\ pcb' = [pcb EXCEPT ![i] = [Queued(p, {"ACK", "FIN"}, <<>>) EXCEPT
                         !.nxt = Add(@, 1),
                         !.state = IF @ = "ESTABLISHED" THEN "FIN_WAIT1" ELSE "LAST_ACK"]]
  <2>1. PICK F \in SUBSET Flags, d \in Seq(Int) : F = {"ACK", "FIN"} /\ d = <<>>
    BY EmptySeq DEF Flags
  <2>2. PICK w \in Seq(Entries) : Queued(p, F, d) = [p EXCEPT !.queue = w]
    BY QueuedForm
  <2>3. PICK t : t = IF p.state = "ESTABLISHED" THEN "FIN_WAIT1" ELSE "LAST_ACK"
    OBVIOUS
  <2>4. PICK q : q = [p EXCEPT !.queue = w, !.nxt = Add(p.nxt, 1), !.state = t]
    OBVIOUS
  <2>5. q.buf = p.buf /\ q.rnxt = p.rnxt /\ q.state = t
    BY <2>4 DEF Pcbs
  <2>6. Untouched(p, hist[i], q, hist[i])
    BY <1>3, <2>3, <2>5 DEF Untouched, Moves
  <2>7. [Queued(p, {"ACK", "FIN"}, <<>>) EXCEPT !.nxt = Add(@, 1),
           !.state = IF @ = "ESTABLISHED" THEN "FIN_WAIT1" ELSE "LAST_ACK"] = q
    BY <2>1, <2>2, <2>3, <2>4 DEF Pcbs
  <2> QED
    BY <1>1, <1>3, <2>6, <2>7, StreamBlock
<1> QED
  BY <1>2, <1>3, StreamSame, StreamRelease

\* A part of a sequence, and two sequences one after the other.
LEMMA Part ==
  ASSUME NEW b \in Seq(Int), NEW i \in Nat, NEW j \in Nat, i >= 1, j <= Len(b), i <= j + 1
  PROVE  /\ SubSeq(b, i, j) \in Seq(Int) /\ Len(SubSeq(b, i, j)) = j - i + 1
         /\ \A k \in 1 .. j - i + 1 : SubSeq(b, i, j)[k] = b[i + k - 1]
<1>1. \A k \in i .. j : b[k] \in Int
  OBVIOUS
<1>2. i \in Int /\ j \in Int
  OBVIOUS
<1>3. /\ SubSeq(b, i, j) \in Seq(Int)
      /\ Len(SubSeq(b, i, j)) = IF i <= j THEN j - i + 1 ELSE 0
      /\ \A k \in 1 .. j - i + 1 : SubSeq(b, i, j)[k] = b[i + k - 1]
  BY <1>1, <1>2, SubSeqProperties, SMTT(40)
<1> QED
  BY <1>3

\* Two sequences joined.
LEMMA Joined ==
  ASSUME NEW a \in Seq(Int), NEW b \in Seq(Int)
  PROVE  /\ a \o b \in Seq(Int) /\ Len(a \o b) = Len(a) + Len(b)
         /\ \A k \in 1 .. Len(a) : (a \o b)[k] = a[k]
         /\ \A k \in 1 .. Len(b) : (a \o b)[Len(a) + k] = b[k]
<1>1. a \o b \in Seq(Int) /\ Len(a \o b) = Len(a) + Len(b)
      /\ \A k \in 1 .. Len(a) + Len(b) : (a \o b)[k] = IF k <= Len(a) THEN a[k] ELSE b[k - Len(a)]
  BY ConcatProperties
<1>2. Len(a) \in Nat /\ Len(b) \in Nat
  OBVIOUS
<1>3. ASSUME NEW k \in 1 .. Len(a) PROVE (a \o b)[k] = a[k]
  BY <1>1, <1>2
<1>4. ASSUME NEW k \in 1 .. Len(b) PROVE (a \o b)[Len(a) + k] = b[k]
  <2>1. PICK m \in Nat, n \in Nat : m = Len(a) /\ n = Len(b)
    BY <1>2
  <2>2. m + k \in 1 .. m + n /\ ~(m + k <= m) /\ (m + k) - m = k
    BY <2>1
  <2> QED
    BY <1>1, <2>1, <2>2
<1> QED
  BY <1>1, <1>3, <1>4

\* Of two pieces the second is cut in two.
LEMMA JoinCut ==
  ASSUME NEW a \in Seq(Int), NEW b \in Seq(Int), NEW n \in 0 .. Len(b)
  PROVE  (a \o SubSeq(b, 1, n)) \o SubSeq(b, n + 1, Len(b)) = a \o b
<1>1. PICK l \in Nat, m \in Nat : l = Len(b) /\ m = Len(a) /\ n <= l /\ n \in Nat
  OBVIOUS
<1>2. PICK c \in Seq(Int) : c = SubSeq(b, 1, n)
  <2>1. 1 <= n + 1
    BY <1>1
  <2>2. SubSeq(b, 1, n) \in Seq(Int)
    BY <1>1, <2>1, Part
  <2> QED
    BY <2>2
<1>3. Len(c) = n /\ \A k \in 1 .. n : c[k] = b[k]
  <2>1. /\ Len(SubSeq(b, 1, n)) = n - 1 + 1
        /\ \A k \in 1 .. n - 1 + 1 : SubSeq(b, 1, n)[k] = b[1 + k - 1]
    BY <1>1, Part
  <2>2. n - 1 + 1 = n /\ \A k \in 1 .. n : 1 + k - 1 = k
    BY <1>1
  <2> QED
    BY <1>2, <2>1, <2>2
<1>4. PICK h \in Nat : h = n + 1
  BY <1>1
<1>5. PICK d \in Seq(Int) : d = SubSeq(b, h, l)
  <2>1. h >= 1 /\ l <= Len(b) /\ h <= l + 1
    BY <1>1, <1>4
  <2> QED
    BY <1>1, <1>4, <2>1, Part
<1>6. Len(d) = l - n /\ \A k \in 1 .. l - n : d[k] = b[n + k]
  <2>1. h >= 1 /\ l <= Len(b) /\ h <= l + 1
    BY <1>1, <1>4
  <2>2. /\ Len(SubSeq(b, h, l)) = l - h + 1
        /\ \A k \in 1 .. l - h + 1 : SubSeq(b, h, l)[k] = b[h + k - 1]
    BY <1>1, <1>4, <2>1, Part
  <2>3. l - h + 1 = l - n /\ \A k \in 1 .. l - n : h + k - 1 = n + k
    BY <1>1, <1>4
  <2> QED
    BY <1>5, <2>2, <2>3
<1>7. PICK x \in Seq(Int), y \in Seq(Int), z \in Seq(Int) : x = a \o c /\ y = x \o d /\ z = a \o b
  BY Joined
<1>8. Len(x) = m + n /\ (\A k \in 1 .. m : x[k] = a[k]) /\ \A k \in 1 .. n : x[m + k] = c[k]
  <2>1. /\ Len(a \o c) = Len(a) + Len(c)
        /\ \A k \in 1 .. Len(a) : (a \o c)[k] = a[k]
        /\ \A k \in 1 .. Len(c) : (a \o c)[Len(a) + k] = c[k]
    BY Joined
  <2> QED
    BY <1>1, <1>3, <1>7, <2>1
<1>9. Len(y) = (m + n) + (l - n) /\ (\A k \in 1 .. m + n : y[k] = x[k]) /\ \A k \in 1 .. l - n : y[(m + n) + k] = d[k]
  <2>1. /\ Len(x \o d) = Len(x) + Len(d)
        /\ \A k \in 1 .. Len(x) : (x \o d)[k] = x[k]
        /\ \A k \in 1 .. Len(d) : (x \o d)[Len(x) + k] = d[k]
    BY Joined
  <2> QED
    BY <1>6, <1>7, <1>8, <2>1
<1>10. Len(z) = m + l /\ (\A k \in 1 .. m : z[k] = a[k]) /\ \A k \in 1 .. l : z[m + k] = b[k]
  <2>1. /\ Len(a \o b) = Len(a) + Len(b)
        /\ \A k \in 1 .. Len(a) : (a \o b)[k] = a[k]
        /\ \A k \in 1 .. Len(b) : (a \o b)[Len(a) + k] = b[k]
    BY Joined
  <2> QED
    BY <1>1, <1>7, <2>1
<1>11. ASSUME NEW k \in 1 .. m + l PROVE y[k] = z[k]
  <2>0. k \in Nat /\ k >= 1 /\ k <= m + l
    BY <1>1
  <2>1. CASE k <= m
    <3>1. k \in 1 .. m /\ k \in 1 .. m + n
      BY <1>1, <2>0, <2>1
    <3> QED
      BY <1>8, <1>9, <1>10, <3>1
  <2>2. CASE k > m /\ k <= m + n
    <3>1. PICK i \in Nat : i = k - m
      <4>1. k - m \in Nat
        BY <1>1, <2>0, <2>2
      <4> QED
        BY <4>1
    <3>2. k = m + i /\ i \in 1 .. n /\ i \in 1 .. l /\ k \in 1 .. m + n
      BY <1>1, <2>0, <2>2, <3>1
    <3> QED
      BY <1>3, <1>8, <1>9, <1>10, <3>2
  <2>3. CASE k > m + n
    <3>1. PICK i \in Nat : i = k - (m + n)
      <4>1. k - (m + n) \in Nat
        BY <1>1, <2>0, <2>3
      <4> QED
        BY <4>1
    <3>2. PICK j \in Nat : j = n + i
      BY <1>1
    <3>3. k = (m + n) + i /\ i \in 1 .. l - n /\ k = m + j /\ j \in 1 .. l
      BY <1>1, <2>0, <2>3, <3>1, <3>2
    <3>4. y[k] = d[i] /\ d[i] = b[n + i]
      BY <1>6, <1>9, <3>3
    <3>5. z[k] = b[j]
      BY <1>10, <3>3
    <3> QED
      BY <3>2, <3>4, <3>5
  <2> QED
    BY <1>1, <2>0, <2>1, <2>2, <2>3
<1>12. Len(y) = Len(z) /\ Len(y) = m + l
  BY <1>1, <1>9, <1>10
<1>13. y = z
  BY <1>11, <1>12, SeqEqual
<1> QED
  BY <1>1, <1>2, <1>4, <1>5, <1>7, <1>13
\* tcp_receive moves bytes from the buffer to the caller.
LEMMA ReceiveStream ==
  ASSUME TcpInv, StreamInv, NEW i \in Ids, NEW size \in Nat, receive_step(i, size)
  PROVE  StreamInv'
<1>1. PICK p \in Pcbs, h \in Histories : p = pcb[i] /\ h = hist[i] /\ Sound(p) /\ Flow(p, h)
  BY Parts DEF StreamInv
<1>2. PICK n : n = IF size < Remain(p) THEN size ELSE Remain(p)
  OBVIOUS
<1>3. \/ /\ p.state \in {"ESTABLISHED", "CLOSE_WAIT"}
         /\ pcb' = [pcb EXCEPT ![i].buf = SubSeq(@, n + 1, Len(@)), ![i].rwnd = @ + n]
         /\ hist' = [hist EXCEPT ![i].gave = @ \o SubSeq(p.buf, 1, n)]
      \/ UNCHANGED <<pcb, hist>>
  BY <1>1, <1>2 DEF receive_step
<1>4. CASE /\ p.state \in {"ESTABLISHED", "CLOSE_WAIT"}
           /\ pcb' = [pcb EXCEPT ![i].buf = SubSeq(@, n + 1, Len(@)), ![i].rwnd = @ + n]
           /\ hist' = [hist EXCEPT ![i].gave = @ \o SubSeq(p.buf, 1, n)]
  <2>1. PICK b \in Seq(Int), c \in Seq(Int) : b = p.buf /\ c = h.gave
    BY PcbFields DEF Histories
  <2>2. n \in 0 .. Len(b)
    <3>1. Len(b) = Remain(p) /\ Len(b) \in Nat
      BY <1>1, <1>4, <2>1 DEF Sound, Filled, Remain
    <3> QED
      BY <1>2, <3>1
  <2>3. (c \o SubSeq(b, 1, n)) \o SubSeq(b, n + 1, Len(b)) = c \o b
    BY <2>2, JoinCut
  <2>4. PICK q, g : /\ q = [p EXCEPT !.buf = SubSeq(b, n + 1, Len(b)), !.rwnd = p.rwnd + n]
                    /\ g = [h EXCEPT !.gave = c \o SubSeq(b, 1, n)]
    OBVIOUS
  <2>5. /\ q.buf = SubSeq(b, n + 1, Len(b)) /\ q.state = p.state /\ q.rnxt = p.rnxt
        /\ g.gave = c \o SubSeq(b, 1, n) /\ g.gap = h.gap /\ g.over = h.over
    BY <2>4 DEF Pcbs, Histories
  <2>6. g.gave \o q.buf = h.gave \o p.buf
    BY <2>1, <2>3, <2>5
  <2>7. Flow(q, g)
    <3>1. q.state \notin Fresh
      BY <1>4, <2>5 DEF Fresh
    <3> QED
      BY <1>1, <2>5, <2>6, <3>1 DEF Flow
  <2>8. pcb' = [pcb EXCEPT ![i] = q] /\ hist' = [hist EXCEPT ![i] = g]
    BY <1>1, <1>4, <2>1, <2>4, Parts
  <2> QED
    BY <2>7, <2>8, StreamPut
<1> QED
  BY <1>3, <1>4, StreamSame

\* tcp_receive returns what is there or waits for it.
LEMMA ReceiveCallStream ==
  ASSUME TcpInv, StreamInv, NEW i \in Ids, NEW n \in SIZES, tcp_receive(i, n)
  PROVE  StreamInv'
  BY ReceiveStream, TcpAssumption DEF tcp_receive

\* It goes on when something has come.
LEMMA ReceiveResumeStream ==
  ASSUME TcpInv, StreamInv, receive_resume
  PROVE  StreamInv'
<1>1. call.id \in Ids /\ call.left \in Nat
  BY Resumes DEF receive_resume
<1> QED
  BY <1>1, ReceiveStream DEF receive_resume

\* A connection that has its SYN waits for the first byte.
LEMMA FlowNew ==
  ASSUME NEW q, NEW g, q.buf = <<>>, g.gave = <<>>, q.rnxt = Add(PEER_ISS, 1)
  PROVE  Flow(q, g) \/ q.state \in Ended
<1>1. g.gave \o q.buf = <<>> /\ Len(<<>>) = 0
  OBVIOUS
<1>2. Prefix(<<>>)
  BY PeerNumbers DEF Prefix
<1>3. 1 + 0 = 1
  OBVIOUS
<1> QED
  BY <1>1, <1>2, <1>3 DEF Flow

\* The number behind that of a SYN.
LEMMA SynNumber ==
  ASSUME NEW s, Carries(s), "SYN" \in s.flg
  PROVE  Add(s.seq, 1) = Add(PEER_ISS, 1)
<1>1. Add(Add(PEER_ISS, 0), 1) = Add(PEER_ISS, 0 + 1)
  BY AddOn
<1> QED
  BY <1>1 DEF Carries

\* A SYN in LISTEN.
LEMMA ListenStream ==
  ASSUME TcpInv, StreamInv, NEW s \in Segments, Carries(s), NEW i \in Ids \cup {NONE}, arrives_listen(i, s)
  PROVE  StreamInv'
<1>1. i \in Ids /\ pcb[i].state = "LISTEN"
  BY DEF arrives_listen
<1>2. CASE UNCHANGED <<pcb, hist>>
  BY <1>2, StreamSame
<1>3. ASSUME "SYN" \in s.flg,
             NEW n \in (IF pcb[i].mode = "socket" THEN FirstFree ELSE {i}), NEW r \in Random,
             NEW p, p = [(IF n = i THEN pcb[i] ELSE [pcb[n] EXCEPT !.mode = "socket", !.parent = i])
                          EXCEPT !.lport = s.lport, !.fport = s.fport, !.rwnd = BUF,
                                 !.rnxt = Add(s.seq, 1), !.iss = r],
             pcb' = [pcb EXCEPT ![n] = [Queued(p, {"SYN", "ACK"}, <<>>)
                                EXCEPT !.nxt = Add(r, 1), !.una = r, !.state = "SYN_RECEIVED"]],
             hist' = [hist EXCEPT ![n] = NoHistory]
      PROVE  StreamInv'
  <2>1. n \in Ids /\ (n = i \/ pcb[n].state = "FREE")
    BY <1>1, <1>3 DEF FirstFree
  <2>2. PICK o \in Pcbs : o = pcb[n] /\ o.buf = <<>>
    BY <1>1, <2>1, Parts DEF Sound
  <2>3. p.buf = <<>> /\ p.rnxt = Add(s.seq, 1)
    BY <1>3, <2>2 DEF Pcbs
  <2>4. PICK q : q = [Queued(p, {"SYN", "ACK"}, <<>>) EXCEPT !.nxt = Add(r, 1), !.una = r, !.state = "SYN_RECEIVED"]
    OBVIOUS
  <2>5. q.buf = <<>> /\ q.rnxt = Add(PEER_ISS, 1) /\ q.state = "SYN_RECEIVED"
    <3>1. PICK l : Queued(p, {"SYN", "ACK"}, <<>>) = [p EXCEPT !.queue = l]
      BY DEF Queued
    <3>2. "state" \in DOMAIN p
      BY <1>3, <2>2 DEF Pcbs
    <3>3. q.buf = <<>> /\ q.rnxt = Add(s.seq, 1) /\ q.state = "SYN_RECEIVED"
      BY <1>3, <2>2, <2>3, <2>4, <3>1, <3>2 DEF Pcbs
    <3> QED
      BY <1>3, <3>3, SynNumber
  <2>6. Flow(q, NoHistory)
    <3>1. NoHistory.gave = <<>>
      BY DEF NoHistory
    <3> QED
      BY <2>5, <3>1, FlowNew DEF Ended
  <2> QED
    BY <1>3, <2>1, <2>4, <2>6, StreamPut
<1> QED
  BY <1>2, <1>3 DEF arrives_listen

\* A SYN in SYN_SENT.
LEMMA SynSentStream ==
  ASSUME TcpInv, StreamInv, NEW s \in Segments, Carries(s), NEW i \in Ids \cup {NONE}, arrives_syn_sent(i, s)
  PROVE  StreamInv'
<1>1. i \in Ids /\ pcb[i].state = "SYN_SENT"
  BY DEF arrives_syn_sent
<1>2. PICK p \in Pcbs, h \in Histories : p = pcb[i] /\ h = hist[i] /\ p.buf = <<>> /\ h.gave = <<>>
  BY <1>1, Parts DEF StreamInv, Flow, Fresh
<1> DEFINE ok == "ACK" \in s.flg /\ p.una <= s.ack /\ s.ack <= p.nxt
           a == [p EXCEPT !.rnxt = Add(s.seq, 1)]
           b == IF ok THEN tcp_retransmit_queue_cleanup([a EXCEPT !.una = s.ack]) ELSE a
<1>3. PICK k \in Nums : k = Add(s.seq, 1)
  BY SegmentFields, AddNum
<1>4. PICK e \in Pcbs : e = b /\ e.buf = <<>> /\ e.rnxt = k
  <2>1. a \in Pcbs /\ a.buf = <<>> /\ a.rnxt = k
    BY <1>2, <1>3 DEF Pcbs
  <2>2. s.ack \in Nums
    BY SegmentFields
  <2>3. PICK c \in Pcbs : c = [a EXCEPT !.una = s.ack] /\ c.buf = <<>> /\ c.rnxt = k
    <3>1. PICK c : c = [a EXCEPT !.una = s.ack]
      OBVIOUS
    <3>2. c \in Pcbs /\ c.buf = <<>> /\ c.rnxt = k
      BY <2>1, <2>2, <3>1 DEF Pcbs
    <3> QED
      BY <3>1, <3>2
  <2>4. PICK w \in Seq(Entries) : tcp_retransmit_queue_cleanup(c) = [c EXCEPT !.queue = w]
    BY CleanupForm
  <2>5. PICK d : d = [c EXCEPT !.queue = w]
    OBVIOUS
  <2>6. d \in Pcbs /\ d.buf = <<>> /\ d.rnxt = k
    BY <2>3, <2>5 DEF Pcbs
  <2>7. b = a \/ b = d
    BY <2>3, <2>4, <2>5
  <2> QED
    BY <2>1, <2>6, <2>7
<1>5. \/ UNCHANGED <<pcb, hist>>
      \/ /\ "SYN" \in s.flg /\ UNCHANGED hist
         /\ pcb' = [pcb EXCEPT ![i] = [e EXCEPT !.state = "ESTABLISHED",
                            !.swnd = s.wnd, !.wl1 = s.seq, !.wl2 = s.ack]]
      \/ /\ "SYN" \in s.flg /\ UNCHANGED hist
         /\ pcb' = [pcb EXCEPT ![i] = [Queued(e, {"SYN", "ACK"}, <<>>) EXCEPT !.state = "SYN_RECEIVED"]]
  BY <1>2, <1>4 DEF arrives_syn_sent
<1> HIDE DEF b, a, ok
<1>6. ASSUME "SYN" \in s.flg
      PROVE  \A q : q.state \notin Ended /\ q.buf = <<>> /\ q.rnxt = k /\ pcb' = [pcb EXCEPT ![i] = q] /\ UNCHANGED hist => StreamInv'
  <2> TAKE q
  <2> HAVE q.state \notin Ended /\ q.buf = <<>> /\ q.rnxt = k /\ pcb' = [pcb EXCEPT ![i] = q] /\ UNCHANGED hist
  <2>1. q.rnxt = Add(PEER_ISS, 1)
    BY <1>3, <1>6, SynNumber
  <2>2. Flow(q, h)
    BY <1>2, <2>1, FlowNew
  <2>3. hist' = [hist EXCEPT ![i] = h]
    BY <1>2, Parts
  <2> QED
    BY <1>1, <2>2, <2>3, StreamPut
<1>7. CASE /\ "SYN" \in s.flg /\ UNCHANGED hist
           /\ pcb' = [pcb EXCEPT ![i] = [e EXCEPT !.state = "ESTABLISHED",
                            !.swnd = s.wnd, !.wl1 = s.seq, !.wl2 = s.ack]]
  <2>1. PICK q : q = [e EXCEPT !.state = "ESTABLISHED", !.swnd = s.wnd, !.wl1 = s.seq, !.wl2 = s.ack]
    OBVIOUS
  <2>2. q.state = "ESTABLISHED" /\ q.buf = <<>> /\ q.rnxt = k
    BY <1>4, <2>1 DEF Pcbs
  <2>3. pcb' = [pcb EXCEPT ![i] = q] /\ q.state \notin Ended /\ UNCHANGED hist
    BY <1>7, <2>1, <2>2 DEF Ended
  <2> QED
    BY <1>7, <1>6, <2>2, <2>3
<1>8. CASE /\ "SYN" \in s.flg /\ UNCHANGED hist
           /\ pcb' = [pcb EXCEPT ![i] = [Queued(e, {"SYN", "ACK"}, <<>>) EXCEPT !.state = "SYN_RECEIVED"]]
  <2>1. PICK F \in SUBSET Flags, d \in Seq(Int) : F = {"SYN", "ACK"} /\ d = <<>>
    BY EmptySeq DEF Flags
  <2>2. PICK w \in Seq(Entries) : Queued(e, F, d) = [e EXCEPT !.queue = w]
    BY QueuedForm
  <2>3. PICK q : q = [e EXCEPT !.queue = w, !.state = "SYN_RECEIVED"]
    OBVIOUS
  <2>4. q.state = "SYN_RECEIVED" /\ q.buf = <<>> /\ q.rnxt = k
    BY <1>4, <2>3 DEF Pcbs
  <2>5. [Queued(e, {"SYN", "ACK"}, <<>>) EXCEPT !.state = "SYN_RECEIVED"] = q
    BY <2>1, <2>2, <2>3 DEF Pcbs
  <2>6. pcb' = [pcb EXCEPT ![i] = q] /\ q.state \notin Ended /\ UNCHANGED hist
    BY <1>8, <2>4, <2>5 DEF Ended
  <2> QED
    BY <1>8, <1>6, <2>4, <2>6
<1> QED
  BY <1>5, <1>7, <1>8, StreamSame
(***************************************************************************)
(* A segment that is accepted                                              *)
(***************************************************************************)
\* What was received is left alone.
SameIn(p, q) == q \in Pcbs /\ q.buf = p.buf /\ q.rnxt = p.rnxt /\ q.rwnd = p.rwnd

\* An acknowledgement changes snd.una, the queue and the send window.
LEMMA AckedSame ==
  ASSUME NEW p \in Pcbs, NEW s \in Segments
  PROVE  SameIn(p, Acked(p, s)) /\ Acked(p, s).state = p.state
<1>1. CASE ~(p.una < s.ack /\ s.ack <= p.nxt)
  BY <1>1 DEF Acked, SameIn
<1>2. CASE p.una < s.ack /\ s.ack <= p.nxt
  <2>1. s.ack \in Nums /\ s.seq \in Nums /\ s.wnd \in Nat
    BY SegmentFields
  <2>2. PICK a \in Pcbs : a = [p EXCEPT !.una = s.ack]
    <3>1. [p EXCEPT !.una = s.ack] \in Pcbs
      BY <2>1 DEF Pcbs
    <3> QED
      BY <3>1
  <2>3. PICK w \in Seq(Entries) : tcp_retransmit_queue_cleanup(a) = [a EXCEPT !.queue = w]
    BY CleanupForm
  <2>4. PICK q, r : q = [a EXCEPT !.queue = w] /\ r = [q EXCEPT !.swnd = s.wnd, !.wl1 = s.seq, !.wl2 = s.ack]
    OBVIOUS
  <2>5. Acked(p, s) = q \/ Acked(p, s) = r
    BY <1>2, <2>2, <2>3, <2>4 DEF Acked
  <2>6. SameIn(p, a) /\ a.state = p.state
    BY <2>2 DEF SameIn, Pcbs
  <2>7. q \in Pcbs /\ SameIn(p, q) /\ q.state = p.state
    BY <2>4, <2>6 DEF SameIn, Pcbs
  <2>8. SameIn(p, r) /\ r.state = p.state
    BY <2>1, <2>4, <2>7 DEF SameIn, Pcbs
  <2> QED
    BY <2>5, <2>7, <2>8
<1> QED
  BY <1>1, <1>2

\* An acknowledged FIN changes the state only.
LEMMA FinAckedSame ==
  ASSUME NEW p \in Pcbs, NEW s
  PROVE  SameIn(p, FinAcked(p, s)) /\ Moves(p.state, FinAcked(p, s).state)
<1>1. CASE p.state = "FIN_WAIT1" /\ s.ack = p.nxt
  <2>1. FinAcked(p, s) = [p EXCEPT !.state = "FIN_WAIT2"]
    BY <1>1 DEF FinAcked
  <2> QED
    BY <1>1, <2>1 DEF SameIn, Pcbs, PcbStates, Moves
<1>2. CASE ~(p.state = "FIN_WAIT1" /\ s.ack = p.nxt)
  BY <1>2 DEF FinAcked, SameIn, Moves
<1> QED
  BY <1>1, <1>2

\* A payload that fits goes behind what is there, and rcv.nxt goes on by it and its FIN.
LEMMA TextAdds ==
  ASSUME NEW p \in Pcbs, NEW s \in Segments, Filled(p), HasText(p, s), Len(s.data) <= p.rwnd
  PROVE  Text(p, s).buf = p.buf \o s.data /\ Text(p, s).rnxt = Add(s.seq, SegLen(s)) /\ Text(p, s).state = p.state
<1>1. PICK b \in Seq(Int), d \in Seq(Int) : b = p.buf /\ d = s.data
  BY PcbFields, SegmentFields
<1>2. PICK r \in 0 .. BUF : r = p.rwnd /\ Len(b) = BUF - r
  BY <1>1, PcbFields DEF Filled
<1>3. PICK l \in Nat, m \in Nat, n \in Nat : l = Len(d) /\ m = Len(b) /\ n = BUF + 1
  BY Numbers
<1>4. r - l \in Nat /\ r - l < n
  BY <1>1, <1>2, <1>3, Numbers
<1>5. (r - l) % n = r - l
  <2>1. PICK x \in Nat : x = r - l
    BY <1>4
  <2>2. x < n
    BY <1>4, <2>1
  <2> QED
    BY <2>1, <2>2, ModSmall
<1>6. PICK c \in Seq(Int) : c = b \o d /\ Len(c) = m + l
  <2>1. b \o d \in Seq(Int) /\ Len(b \o d) = Len(b) + Len(d)
    BY Joined
  <2> QED
    BY <1>3, <2>1
<1>7. BUF - (r - l) = Len(c)
  BY <1>2, <1>3, <1>6, Numbers
<1>8. SubSeq(c, 1, Len(c)) = c
  BY SubSeqFull
<1>9. Text(p, s) = [p EXCEPT !.buf = c, !.rnxt = Add(s.seq, SegLen(s)), !.rwnd = r - l]
  BY <1>1, <1>2, <1>3, <1>5, <1>6, <1>7, <1>8 DEF Text
<1> QED
  BY <1>1, <1>6, <1>9 DEF Pcbs

\* What is behind the first bytes makes more of them.
LEMMA PrefixMore ==
  ASSUME NEW r \in Seq(Int), NEW d \in Seq(Int), Prefix(r), NEW u \in Nat, u = 1 + Len(r),
         u + Len(d) <= PEER_BYTES + 1, \A k \in 1 .. Len(d) : d[k] = u + k - 1
  PROVE  Prefix(r \o d) /\ Len(r \o d) = Len(r) + Len(d)
<1>1. PICK m \in Nat, l \in Nat : m = Len(r) /\ l = Len(d)
  OBVIOUS
<1>2. /\ Len(r \o d) = m + l
      /\ \A k \in 1 .. m : (r \o d)[k] = r[k]
      /\ \A k \in 1 .. l : (r \o d)[m + k] = d[k]
  BY <1>1, Joined
<1>3. m + l <= PEER_BYTES
  BY <1>1, PeerNumbers
<1>4. ASSUME NEW k \in 1 .. m + l PROVE (r \o d)[k] = k
  <2>0. k \in Nat /\ k >= 1 /\ k <= m + l
    BY <1>1
  <2>1. CASE k <= m
    <3>1. k \in 1 .. m
      BY <1>1, <2>0, <2>1
    <3> QED
      BY <1>1, <1>2, <3>1 DEF Prefix
  <2>2. CASE k > m
    <3>1. PICK i \in Nat : i = k - m
      <4>1. k - m \in Nat
        BY <1>1, <2>0, <2>2
      <4> QED
        BY <4>1
    <3>2. k = m + i /\ i \in 1 .. l /\ u + i - 1 = k
      BY <1>1, <2>0, <2>2, <3>1
    <3> QED
      BY <1>1, <1>2, <3>2
  <2> QED
    BY <1>1, <2>0, <2>1, <2>2
<1> QED
  BY <1>1, <1>2, <1>3, <1>4 DEF Prefix

\* Pieces are joined in any grouping.
LEMMA JoinOn ==
  ASSUME NEW a \in Seq(Int), NEW b \in Seq(Int), NEW c \in Seq(Int)
  PROVE  a \o (b \o c) = (a \o b) \o c
  BY SMTT(40)
\* The number of the byte after those that were taken is that of the segment, so its
\* bytes come next.
LEMMA BytesNext ==
  ASSUME PEER_BYTES < SEQS, NEW r \in Seq(Int), Prefix(r), NEW s \in Segments,
         NEW u \in 1 .. PEER_BYTES + 1, Bytes(s, u), s.seq = Add(PEER_ISS, 1 + Len(r))
  PROVE  u = 1 + Len(r)
<1>1. PICK v \in 1 .. PEER_BYTES + 1 : v = 1 + Len(r)
  BY PeerNumbers DEF Prefix
<1> QED
  BY <1>1, PlaceOnce DEF Bytes

\* The steps on an established connection lead to one.
LEMMA FollowsLive ==
  ASSUME NEW p \in Pcbs, NEW q, Follows(p, q), p.state \in Live
  PROVE  q \in Pcbs /\ q.state \in Live
  BY DEF Follows, Alike

\* Lengths without the byte of the SYN.
LEMMA LengthLess ==
  ASSUME NEW m \in Nat, NEW l \in Nat, NEW n \in Nat, (1 + m) + l = n + 1
  PROVE  m + l = n
  OBVIOUS

\* Text and FIN of a segment that starts at rcv.nxt.
LEMMA FlowText ==
  ASSUME PEER_BYTES < SEQS, NEW a \in Pcbs, NEW h \in Histories, NEW s \in Segments, Carries(s),
         Filled(a), a.state \in Live, Flow(a, h), ~h.gap, ~h.over,
         HasText(a, s) => Len(s.data) <= a.rwnd /\ s.seq = a.rnxt,
         Fin(Text(a, s), s).state # Text(a, s).state => s.seq = a.rnxt
  PROVE  Flow(Fin(Text(a, s), s), h)
<1>0. PICK t, f : t = Text(a, s) /\ f = Fin(t, s)
  OBVIOUS
<1> SUFFICES Flow(f, h)
  BY <1>0
<1>1. t \in Pcbs /\ t.state \in Live /\ f \in Pcbs /\ f.state \in Live
  BY <1>0, TextFollows, FinFollows, FollowsLive
<1>2. PICK c \in Seq(Int), b \in Seq(Int), d \in Seq(Int) : c = h.gave /\ b = a.buf /\ d = s.data
  BY PcbFields, SegmentFields DEF Histories
<1>3. PICK r \in Seq(Int) : r = c \o b
  BY Joined
<1>4. /\ a.state \in Taking \cup Ended => Prefix(r)
      /\ a.state \in Taking => a.rnxt = Add(PEER_ISS, 1 + Len(r))
      /\ a.state \in Ended => Len(r) = PEER_BYTES
  BY <1>2, <1>3 DEF Flow
<1>5. a.state \in Taking \cup Ended /\ Prefix(r)
  BY <1>4 DEF Live, Taking, Ended
<1>6. \A u \in 1 .. PEER_BYTES + 1 : Bytes(s, u) /\ a.state \in Taking /\ s.seq = a.rnxt => u = 1 + Len(r)
  BY <1>4, <1>5, BytesNext
<1>7. f = (IF "FIN" \in s.flg THEN f ELSE t) /\ f.buf = t.buf
  BY <1>0, <1>1 DEF Fin, Pcbs
<1>8. "FIN" \in s.flg => /\ t.state \in Taking => f.state \in Ended
                         /\ t.state \in Ended => f.state = t.state
  <2>1. CASE "FIN" \in s.flg
    <3>1. f.state = CASE t.state \in {"SYN_RECEIVED", "ESTABLISHED"} -> "CLOSE_WAIT"
                      [] t.state = "FIN_WAIT1" -> IF s.ack = t.nxt THEN "TIME_WAIT" ELSE "CLOSING"
                      [] t.state = "FIN_WAIT2" -> "TIME_WAIT"
                      [] OTHER -> t.state
      BY <1>0, <1>1, <2>1 DEF Fin, Pcbs
    <3> QED
      BY <3>1 DEF Taking, Ended
  <2> QED
    BY <2>1
<1>9. Taking \cap Ended = {} /\ f.state \notin Fresh
  BY <1>1 DEF Taking, Ended, Fresh, Live
<1>10. CASE HasText(a, s)
  <2>1. a.state \in {"ESTABLISHED", "FIN_WAIT1", "FIN_WAIT2"} /\ d # <<>> /\ a.state \in Taking
    BY <1>2, <1>10 DEF HasText, Taking
  <2>2. PICK u \in 1 .. PEER_BYTES + 1 : Bytes(s, u) /\ "SYN" \notin s.flg
    BY <1>2, <2>1 DEF Carries
  <2>3. u = 1 + Len(r) /\ u \in Nat
    BY <1>6, <1>10, <2>1, <2>2, PeerNumbers
  <2>4. t.buf = b \o d /\ t.rnxt = Add(s.seq, SegLen(s)) /\ t.state = a.state
    BY <1>0, <1>2, <1>10, TextAdds
  <2>5. c \o t.buf = r \o d
    <3>1. c \o (b \o d) = (c \o b) \o d
      BY JoinOn
    <3> QED
      BY <1>3, <2>4, <3>1
  <2>6. Prefix(r \o d) /\ Len(r \o d) = Len(r) + Len(d)
    BY <1>2, <1>5, <2>2, <2>3, PrefixMore DEF Bytes
  <2>7. Len(r) \in Nat /\ Len(d) \in Nat
    OBVIOUS
  <2>8. CASE "FIN" \in s.flg
    <3>1. f.state \in Ended
      BY <1>8, <2>1, <2>4, <2>8
    <3>2. Len(r \o d) = PEER_BYTES
      <4>1. PICK m \in Nat, l \in Nat, n \in Nat : m = Len(r) /\ l = Len(d) /\ n = PEER_BYTES
        BY <2>7, PeerNumbers
      <4>2. (1 + m) + l = n + 1
        BY <1>2, <2>2, <2>3, <2>8, <4>1 DEF Bytes
      <4>3. m + l = n
        BY <4>2, LengthLess
      <4> QED
        BY <2>6, <4>1, <4>3
    <3> QED
      BY <1>2, <1>7, <1>9, <2>5, <2>6, <3>1, <3>2 DEF Flow
  <2>9. CASE "FIN" \notin s.flg
    <3>1. f = t
      BY <1>7, <2>9
    <3>2. SegLen(s) = Len(d)
      BY <1>2, <2>2, <2>7, <2>9 DEF SegLen, One
    <3>3. t.rnxt = Add(PEER_ISS, u + Len(d))
      BY <2>2, <2>3, <2>4, <2>7, <3>2, AddOn DEF Bytes
    <3>4. u + Len(d) = 1 + Len(r \o d)
      BY <2>3, <2>6, <2>7
    <3> QED
      BY <1>2, <1>9, <2>1, <2>4, <2>5, <2>6, <3>1, <3>3, <3>4 DEF Flow
  <2> QED
    BY <2>8, <2>9
<1>11. CASE ~HasText(a, s)
  <2>1. t = a
    BY <1>0, <1>11 DEF Text
  <2>2. CASE "FIN" \notin s.flg
    BY <1>7, <2>1, <2>2
  <2>3. CASE "FIN" \in s.flg /\ a.state \in Ended
    <3>1. f.state \in Ended /\ f.buf = b
      BY <1>2, <1>7, <1>8, <2>1, <2>3
    <3> QED
      BY <1>2, <1>3, <1>4, <1>5, <1>9, <2>3, <3>1 DEF Flow
  <2>4. CASE "FIN" \in s.flg /\ a.state \in Taking
    <3>1. f.state \in Ended /\ f.buf = b /\ f.state # t.state
      BY <1>2, <1>7, <1>8, <1>9, <2>1, <2>4
    <3>2. PICK u \in 1 .. PEER_BYTES + 1 : Bytes(s, u)
      BY <2>4 DEF Carries
    <3>3. u = 1 + Len(r)
      BY <1>0, <1>6, <2>4, <3>1, <3>2
    <3>4. d = <<>>
      BY <1>2, <1>11, <2>4 DEF HasText, Taking, Live
    <3>5. Len(r) = PEER_BYTES
      <4>1. Len(d) = 0 /\ Len(r) \in Nat
        BY <3>4
      <4> QED
        BY <1>2, <2>4, <3>2, <3>3, <4>1, PeerNumbers DEF Bytes
    <3> QED
      BY <1>2, <1>3, <1>5, <1>9, <3>1, <3>5 DEF Flow
  <2> QED
    BY <1>5, <2>2, <2>3, <2>4
<1> QED
  BY <1>10, <1>11
\* A segment on an established connection, with its acknowledgement, text and FIN.
LEMMA FlowAccepted ==
  ASSUME PEER_BYTES < SEQS, NEW e \in Pcbs, NEW h \in Histories, NEW s \in Segments, Carries(s),
         Filled(e), e.state \in Live, Flow(e, h),
         NEW a, a = FinAcked(Acked(e, s), s) \/ a = e,
         NEW f, f = Fin(Text(a, s), s), NEW g, g.gave = h.gave,
         ~g.gap => ~h.gap /\ (HasText(a, s) \/ f.state # Text(a, s).state => s.seq = e.rnxt),
         ~g.over => ~h.over /\ (HasText(a, s) => Len(s.data) <= a.rwnd)
  PROVE  Flow(f, g)
<1>1. a \in Pcbs /\ a.buf = e.buf /\ a.rnxt = e.rnxt /\ Moves(e.state, a.state)
  <2>1. PICK k : k = Acked(e, s)
    OBVIOUS
  <2>2. SameIn(e, k) /\ k.state = e.state
    BY <2>1, AckedSame
  <2>3. SameIn(k, FinAcked(k, s)) /\ Moves(k.state, FinAcked(k, s).state)
    BY <2>2, FinAckedSame DEF SameIn
  <2>4. a = FinAcked(k, s) \/ a = e
    BY <2>1
  <2> QED
    BY <2>2, <2>3, <2>4 DEF SameIn, Moves
<1>2. Follows(e, a)
  <2>1. Acked(e, s) \in Pcbs /\ Follows(e, Acked(e, s))
    BY AckedFollows DEF Follows, Alike
  <2>2. Follows(Acked(e, s), FinAcked(Acked(e, s), s))
    BY <2>1, FinAckedFollows
  <2>3. Follows(e, FinAcked(Acked(e, s), s)) /\ Follows(e, e)
    BY <2>1, <2>2, FollowsOn, FollowsSame
  <2> QED
    BY <2>3
<1>3. Filled(a) /\ a.state \in Live
  BY <1>2, FollowsLive DEF Follows
<1>4. Flow(a, h)
  <2>1. Untouched(e, h, a, h)
    BY <1>1 DEF Untouched
  <2> QED
    BY <2>1, FlowUntouched
<1>5. f.state \in Live
  BY <1>1, <1>3, TextFollows, FinFollows, FollowsLive
<1>6. f.state \notin Fresh
  BY <1>5 DEF Live, Fresh
<1>7. CASE ~g.gap /\ ~g.over
  <2>1. Flow(f, h)
    BY <1>1, <1>3, <1>4, <1>7, FlowText
  <2>2. ~h.gap /\ ~h.over
    BY <1>7
  <2> QED
    BY <1>6, <2>1, <2>2 DEF Flow
<1>8. CASE g.gap \/ g.over
  BY <1>6, <1>8 DEF Flow
<1> QED
  BY <1>7, <1>8

\* An acknowledged SYN establishes a connection and leaves its stream alone.
LEMMA OpensUntouched ==
  ASSUME TcpInv, NEW i \in Ids, pcb[i].state = "SYN_RECEIVED",
         NEW P, P = WithBacklog([pcb EXCEPT ![i].state = "ESTABLISHED"], i), NEW j \in Ids
  PROVE  Untouched(pcb[j], hist[j], P[j], hist[j])
<1>1. PICK p \in Pcbs : p = pcb[i]
  BY Parts
<1>2. PICK q \in Pcbs : q = [p EXCEPT !.state = "ESTABLISHED"]
  BY DEF Pcbs, PcbStates
<1>3. PICK B \in [Ids -> Pcbs] : B = [pcb EXCEPT ![i] = q]
  BY Parts
<1>4. B = [pcb EXCEPT ![i].state = "ESTABLISHED"]
  BY <1>1, <1>2, <1>3, Parts
<1>5. P[j].state = B[j].state /\ P[j].buf = B[j].buf /\ P[j].rnxt = B[j].rnxt
  BY <1>4, BacklogEach
<1>6. B[j] = (IF j = i THEN q ELSE pcb[j])
  BY <1>3, Parts
<1>7. q.state = "ESTABLISHED" /\ q.buf = p.buf /\ q.rnxt = p.rnxt
  BY <1>2 DEF Pcbs
<1> QED
  BY <1>1, <1>5, <1>6, <1>7 DEF Untouched, Moves
\* An acceptable segment in a state with a connection.
LEMMA OtherwiseStream ==
  ASSUME PEER_BYTES < SEQS, TcpInv, StreamInv, NEW s \in Segments, Carries(s),
         NEW i \in Ids \cup {NONE}, arrives_otherwise(i, s)
  PROVE  StreamInv'
<1>1. i \in Ids /\ pcb[i].state \notin {"FREE", "CLOSED", "LISTEN", "SYN_SENT"}
  BY DEF arrives_otherwise
<1>2. PICK p \in Pcbs, h \in Histories : p = pcb[i] /\ h = hist[i]
  BY <1>1, Parts
<1> DEFINE opens == p.state = "SYN_RECEIVED" /\ p.una <= s.ack /\ s.ack <= p.nxt
<1>3. PICK P : P = IF opens THEN WithBacklog([pcb EXCEPT ![i].state = "ESTABLISHED"], i) ELSE pcb
  OBVIOUS
<1>4. Kept(P, Held) /\ \A j \in Ids : Untouched(pcb[j], hist[j], P[j], hist[j])
  <2>1. CASE opens
    <3>1. pcb[i].state = "SYN_RECEIVED"
      BY <1>2, <2>1
    <3>2. P = WithBacklog([pcb EXCEPT ![i].state = "ESTABLISHED"], i)
      BY <1>3, <2>1
    <3> QED
      BY <1>1, <3>1, <3>2, Establishes, OpensUntouched
  <2>2. CASE ~opens
    <3>1. P = pcb
      BY <1>3, <2>2
    <3> QED
      BY <3>1, Parts DEF Untouched, Moves
  <2> QED
    BY <2>1, <2>2
<1>5. \A j \in Ids : Flow(P[j], hist[j])
  <2> TAKE j \in Ids
  <2>1. Untouched(pcb[j], hist[j], P[j], hist[j])
    BY <1>4
  <2> QED
    BY <2>1, FlowUntouched DEF StreamInv
<1>6. PICK e \in Pcbs : e = P[i] /\ Sound(e)
  BY <1>1, <1>4 DEF Kept
<1>7. /\ e.rnxt = p.rnxt
      /\ e.state \notin {"FREE", "CLOSED", "LISTEN", "SYN_SENT"}
      /\ Flow(e, h)
  <2>1. Untouched(p, h, e, h) /\ Flow(e, h)
    BY <1>1, <1>2, <1>4, <1>5, <1>6
  <2>2. e.state = p.state \/ e.state = "ESTABLISHED"
    BY <1>1, <1>2, <1>3, <1>6, Establishes
  <2>3. e.state \notin Dead
    BY <1>1, <1>2, <2>2 DEF Dead
  <2> QED
    BY <1>1, <1>2, <2>1, <2>2, <2>3 DEF Untouched
<1>8. PICK a : a = IF e.state \in Checked \ {"LAST_ACK"} THEN FinAcked(Acked(e, s), s) ELSE e
  OBVIOUS
<1>9. a = FinAcked(Acked(e, s), s) \/ a = e
  BY <1>8
<1>10. PICK t, f : t = Text(a, s) /\ f = Fin(t, s)
  OBVIOUS
<1>11. \/ UNCHANGED <<pcb, hist>>
       \/ /\ UNCHANGED hist
          /\ pcb' = tcp_pcb_release([pcb EXCEPT ![i].state = "CLOSED"], i, Asleep)
       \/ pcb' = P /\ UNCHANGED hist
       \/ /\ e.state \notin {"SYN_RECEIVED", "LAST_ACK"}
          /\ pcb' = [P EXCEPT ![i] = f]
          /\ hist' = [hist EXCEPT
                ![i].gap = @ \/ ((HasText(a, s) \/ f.state # t.state) /\ s.seq # p.rnxt),
                ![i].over = @ \/ (HasText(a, s) /\ Len(s.data) > a.rwnd),
                ![i].shrunk = @ \/ Room(a) < Room(e)]
  BY <1>2, <1>3, <1>6, <1>8, <1>9, <1>10 DEF arrives_otherwise
<1>12. CASE /\ UNCHANGED hist
            /\ pcb' = tcp_pcb_release([pcb EXCEPT ![i].state = "CLOSED"], i, Asleep)
  <2>1. PICK q \in Pcbs : q = [p EXCEPT !.state = "CLOSED"]
    BY DEF Pcbs, PcbStates
  <2>2. PICK B \in [Ids -> Pcbs] : B = [pcb EXCEPT ![i] = q]
    BY Parts
  <2>3. pcb' = tcp_pcb_release(B, i, Asleep)
    <3>1. B = [pcb EXCEPT ![i].state = "CLOSED"]
      BY <1>2, <2>1, <2>2, Parts
    <3> QED
      BY <1>12, <3>1
  <2>4. q.state \in Dead /\ Blank.state \in Dead
    BY <2>1, BlankTrue DEF Pcbs, Dead
  <2>5. \A j \in Ids : Flow(pcb'[j], hist[j])
    <3> TAKE j \in Ids
    <3>1. pcb'[j] = B[j] \/ pcb'[j] = Blank
      BY <1>1, <2>3, ReleaseEach
    <3>2. B[j] = (IF j = i THEN q ELSE pcb[j])
      BY <2>2, Parts
    <3> QED
      BY <2>4, <3>1, <3>2, FlowDead DEF StreamInv
  <2> QED
    BY <1>12, <2>5 DEF StreamInv
<1>13. CASE pcb' = P /\ UNCHANGED hist
  BY <1>5, <1>13 DEF StreamInv
<1>14. CASE /\ e.state \notin {"SYN_RECEIVED", "LAST_ACK"}
            /\ pcb' = [P EXCEPT ![i] = f]
            /\ hist' = [hist EXCEPT
                  ![i].gap = @ \/ ((HasText(a, s) \/ f.state # t.state) /\ s.seq # p.rnxt),
                  ![i].over = @ \/ (HasText(a, s) /\ Len(s.data) > a.rwnd),
                  ![i].shrunk = @ \/ Room(a) < Room(e)]
  <2>1. e.state \in Live /\ Filled(e)
    <3>1. e.state \in PcbStates
      BY PcbFields
    <3>2. e.state \notin {"FREE", "CLOSED", "LISTEN", "SYN_SENT", "SYN_RECEIVED", "LAST_ACK"}
      BY <1>7, <1>14
    <3> QED
      BY <1>6, <3>1, <3>2 DEF Live, PcbStates, Sound
  <2>2. PICK x \in BOOLEAN, y \in BOOLEAN, z \in BOOLEAN :
          /\ x = (h.gap \/ ((HasText(a, s) \/ f.state # t.state) /\ s.seq # p.rnxt))
          /\ y = (h.over \/ (HasText(a, s) /\ Len(s.data) > a.rwnd))
          /\ z = (h.shrunk \/ Room(a) < Room(e))
    OBVIOUS
  <2>3. PICK g \in Histories : g = [h EXCEPT !.gap = x, !.over = y, !.shrunk = z]
    BY DEF Histories
  <2>4. g.gave = h.gave /\ g.gap = x /\ g.over = y
    BY <2>3 DEF Histories
  <2>5. hist' = [hist EXCEPT ![i] = g]
    <3>1. hist' = [hist EXCEPT ![i] = [h EXCEPT !.gap = h.gap \/ ((HasText(a, s) \/ f.state # t.state) /\ s.seq # p.rnxt),
                                                !.over = h.over \/ (HasText(a, s) /\ Len(s.data) > a.rwnd),
                                                !.shrunk = h.shrunk \/ Room(a) < Room(e)]]
      BY <1>1, <1>2, <1>14, Parts DEF Histories
    <3> QED
      BY <2>2, <2>3, <3>1, Zenon
  <2>6. ~g.gap => ~h.gap /\ (HasText(a, s) \/ f.state # Text(a, s).state => s.seq = e.rnxt)
    BY <1>7, <1>10, <2>2, <2>4
  <2>7. ~g.over => ~h.over /\ (HasText(a, s) => Len(s.data) <= a.rwnd)
    <3>1. a \in Pcbs
      <4>1. Acked(e, s) \in Pcbs
        BY AckedSame DEF SameIn
      <4> QED
        BY <1>9, <4>1, FinAckedSame DEF SameIn
    <3>2. a.rwnd \in 0 .. BUF /\ s.data \in Seq(Int) /\ BUF \in Nat
      BY <3>1, PcbFields, SegmentFields, Numbers
    <3>3. PICK l \in Nat, w \in Nat : l = Len(s.data) /\ w = a.rwnd
      BY <3>2
    <3>4. l > w \/ l <= w
      BY <3>3
    <3>5. ~g.over => ~h.over /\ ~(HasText(a, s) /\ l > w)
      BY <2>2, <2>4, <3>3, Zenon
    <3> QED
      BY <3>3, <3>4, <3>5
  <2>8. Flow(f, g)
    <3>1. f = Fin(Text(a, s), s)
      BY <1>10
    <3> QED
      BY <1>7, <1>9, <2>1, <2>4, <2>6, <2>7, <3>1, FlowAccepted
  <2>9. \A j \in Ids : Flow(pcb'[j], hist'[j])
    <3> TAKE j \in Ids
    <3>1. P \in [Ids -> Pcbs]
      BY <1>4 DEF Kept
    <3>2. pcb'[j] = (IF j = i THEN f ELSE P[j]) /\ hist'[j] = (IF j = i THEN g ELSE hist[j])
      BY <1>14, <2>5, <3>1, Parts
    <3> QED
      BY <1>5, <2>8, <3>2
  <2> QED
    BY <2>9 DEF StreamInv
<1> QED
  BY <1>11, <1>12, <1>13, <1>14, StreamSame

\* A segment that arrives.
LEMMA ArriveStream ==
  ASSUME PEER_BYTES < SEQS, TcpInv, StreamInv, NEW f \in FPORTS, NEW s \in PeerSegments(f), tcp_segment_arrives(s)
  PROVE  StreamInv'
<1>1. s \in Segments /\ Carries(s)
  BY ArrivingType, ArrivingBytes
<1>2. PICK i \in Ids \cup {NONE} : i = tcp_pcb_select(s.lport, s.fport)
  BY Selects
<1>3. arrives_closed(i, s) \/ arrives_listen(i, s) \/ arrives_syn_sent(i, s) \/ arrives_otherwise(i, s)
  BY <1>2 DEF tcp_segment_arrives
<1>4. CASE arrives_closed(i, s)
  BY <1>4, StreamSame DEF arrives_closed
<1> QED
  BY <1>1, <1>3, <1>4, ListenStream, SynSentStream, OtherwiseStream
\* Blank blocks have no stream.
LEMMA StreamInit == Init => StreamInv
<1> SUFFICES ASSUME Init PROVE StreamInv
  OBVIOUS
<1>1. \A i \in Ids : pcb[i] = Blank
  BY DEF Init
<1>2. Blank.state \in Dead
  BY BlankTrue DEF Dead
<1> QED
  BY <1>1, <1>2, FlowDead DEF StreamInv

\* One lemma per action.
LEMMA StreamStep == TcpInv /\ StreamInv /\ [Next]_tcpVars => StreamInv'
<1> SUFFICES ASSUME TcpInv, StreamInv, [Next]_tcpVars PROVE StreamInv'
  OBVIOUS
<1>1. CASE UNCHANGED tcpVars
  BY <1>1, StreamSame DEF tcpVars
<1>2. CASE tcp_open
  BY <1>2, OpenStream
<1>3. CASE tcp_open_rfc793(TRUE) \/ tcp_open_rfc793(FALSE)
  <2>1. PICK active \in BOOLEAN : tcp_open_rfc793(active)
    BY <1>3
  <2> QED
    BY <2>1, OpenRfcStream
<1>4. ASSUME NEW i \in Ids, Commands(i) PROVE StreamInv'
  <2>1. CASE tcp_bind(i)
    BY <2>1, BindStream
  <2>2. CASE tcp_listen(i)
    BY <2>2, ListenCallStream
  <2>3. CASE tcp_accept(i)
    BY <2>3, AcceptStream
  <2>4. CASE tcp_close(i)
    BY <2>4, CloseStream
  <2>5. CASE \E f \in FPORTS : tcp_connect(i, f)
    BY <2>5, ConnectStream
  <2>6. CASE \E n \in SENDS : tcp_send(i, n)
    BY <2>6, SendCallStream
  <2>7. CASE \E n \in SIZES : tcp_receive(i, n)
    BY <2>7, ReceiveCallStream
  <2> QED
    BY <1>4, <2>1, <2>2, <2>3, <2>4, <2>5, <2>6, <2>7 DEF Commands
<1>5. CASE open_resume
  BY <1>5, OpenResumeStream
<1>6. CASE accept_resume
  BY <1>6, AcceptResumeStream
<1>7. CASE send_resume
  BY <1>7, SendResumeStream
<1>8. CASE receive_resume
  BY <1>8, ReceiveResumeStream
<1>9. CASE tcp_timer
  BY <1>9, TimerStream
<1>10. ASSUME NEW f \in FPORTS, peer_open(f) PROVE StreamInv'
  BY <1>10, StreamSame DEF peer_open
<1>11. ASSUME NEW f \in FPORTS, NEW s \in PeerSegments(f), tcp_segment_arrives(s) PROVE StreamInv'
  BY <1>11, ArriveStream, StreamAssumption
<1> QED
  BY <1>1, <1>2, <1>3, <1>4, <1>5, <1>6, <1>7, <1>8, <1>9, <1>10, <1>11 DEF Next

\* The first bytes of the stream, as StreamIn says it.
LEMMA PrefixStream ==
  ASSUME NEW q \in Seq(Int), Prefix(q)
  PROVE  q = Stream(Len(q))
<1>1. q = [k \in 1 .. Len(q) |-> q[k]]
  OBVIOUS
<1> QED
  BY <1>1 DEF Prefix, Stream

\* The invariants imply the property.
LEMMA StreamTrue == TcpInv /\ StreamInv => StreamIn
<1> SUFFICES ASSUME TcpInv, StreamInv PROVE StreamIn
  OBVIOUS
<1>1. ASSUME NEW i \in Ids PROVE Received(i) \in Seq(Int)
  <2>1. PICK p \in Pcbs, h \in Histories : p = pcb[i] /\ h = hist[i]
    BY Parts
  <2>2. PICK b \in Seq(Int), g \in Seq(Int) : b = p.buf /\ g = h.gave
    BY PcbFields DEF Histories
  <2> QED
    BY <2>1, <2>2, Joined DEF Received
<1>2. ASSUME NEW i \in Ids, Orderly(i), pcb[i].state \in Taking \cup Ended
      PROVE  /\ Received(i) = Stream(Len(Received(i))) /\ Len(Received(i)) <= PEER_BYTES
             /\ pcb[i].state \in Ended => Len(Received(i)) = PEER_BYTES
  <2>1. Prefix(Received(i)) /\ (pcb[i].state \in Ended => Len(Received(i)) = PEER_BYTES)
    BY <1>2 DEF StreamInv, Flow, Orderly, Received
  <2> QED
    BY <1>1, <2>1, PrefixStream DEF Prefix
<1>3. StreamInOrder
  <2>1. \A i \in Connected : i \in Ids /\ pcb[i].state \in Taking \cup Ended
    BY DEF Connected, Taking, Ended
  <2> QED
    BY <1>2, <2>1 DEF StreamInOrder
<1>4. EndIsWhole
  <2>1. \A i \in Ids : pcb[i].state = "CLOSE_WAIT" => pcb[i].state \in Ended
    BY DEF Ended
  <2> QED
    BY <1>2, <2>1 DEF EndIsWhole
<1> QED
  BY <1>3, <1>4 DEF StreamIn

\* Whatever is lost, repeated, delayed or cut anew, tcp_receive returns the first bytes of
\* the remote host's stream, each once, as long as every accepted segment started at
\* rcv.nxt and fitted the window; and when it reports the end, it has returned them all:
\* what tcp_segment_arrives, tcp_receive and tcp_close promise together.
THEOREM StreamInTheorem == Spec => []StreamIn
<1>1. Spec => []TcpInv
  BY TcpInit, TcpStep, PTL DEF Spec
<1>2. Spec => [](TcpInv /\ StreamInv)
  BY <1>1, StreamInit, StreamStep, PTL DEF Spec
<1> QED
  BY <1>2, StreamTrue, PTL
=============================================================================
