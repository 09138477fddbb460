------------------------------ MODULE NetProofs ------------------------------
(***************************************************************************)
(* The layers below TCP, for rings, caches, sockets and memories of any    *)
(* size, any hosts and any traffic.                                        *)
(***************************************************************************)
EXTENDS NetProps, FoldProofs

(***************************************************************************)
(* The ARP cache                                                           *)
(***************************************************************************)
\* The cache, and the order in which its entries were stored.
CacheTrue(a) ==
    /\ a = [cache |-> a.cache, order |-> a.order]
    /\ a.cache = [k \in Slots |-> a.cache[k]]
    /\ \A k \in Slots : /\ a.cache[k].state \in {"FREE", "INCOMPLETE", "RESOLVED"}
                        /\ a.cache[k].state = "RESOLVED" => a.cache[k].ha = a.cache[k].pa
    /\ \A j, k \in Slots : j # k /\ a.cache[j].state # "FREE" /\ a.cache[k].state # "FREE"
                              => a.cache[j].pa # a.cache[k].pa

OrderTrue(a) ==
    /\ a.order \in Seq(Slots) /\ IsInjective(a.order)
    /\ ToSet(a.order) = {k \in Slots : a.cache[k].state # "FREE"}

ArpTrue(a) == CacheTrue(a) /\ OrderTrue(a)

\* What may be stored for an address, and where.
Storable(a, k, e) ==
    /\ e.state \in {"INCOMPLETE", "RESOLVED"} /\ (e.state = "RESOLVED" => e.ha = e.pa)
    /\ \A j \in Slots : j # k /\ a.cache[j].state # "FREE" => a.cache[j].pa # e.pa

\* An entry moves to the end of the order.
LEMMA NewestOrder ==
  ASSUME NEW q \in Seq(Slots), IsInjective(q), NEW k \in Slots
  PROVE  /\ Newest(q, k) \in Seq(Slots) /\ IsInjective(Newest(q, k))
         /\ ToSet(Newest(q, k)) = ToSet(q) \cup {k}
<1> DEFINE r == RemoveFirst(q, k)
<1>0. Len(q) \in Nat /\ DOMAIN q = 1 .. Len(q)
  OBVIOUS
<1>1. r \in Seq(Slots) /\ IsInjective(r) /\ ToSet(r) = ToSet(q) \ {k}
  <2>1. CASE \E i \in 1 .. Len(q) : q[i] = k
    <3>1. PICK I : I = {i \in 1 .. Len(q) : q[i] = k}
      OBVIOUS
    <3>2. I \in SUBSET (1 .. Len(q)) /\ I # {}
      BY <2>1, <3>1
    <3>3. Min(I) \in I
      BY <1>0, <3>2, MinIn
    <3>4. PICK i \in 1 .. Len(q) : i = Min(I) /\ q[i] = k
      BY <3>1, <3>3
    <3>5. r = RemoveAt(q, i)
      BY <2>1, <3>1, <3>2, <3>4 DEF RemoveFirst, SelectInSeq
    <3>6. /\ RemoveAt(q, i) \in Seq(Slots)
          /\ ToSet(RemoveAt(q, i)) = ToSet(q) \ {q[i]}
          /\ IsInjective(RemoveAt(q, i))
      BY RemovedSet
    <3> QED
      BY <3>4, <3>5, <3>6
  <2>2. CASE ~ \E i \in 1 .. Len(q) : q[i] = k
    <3>1. r = q
      BY <2>2 DEF RemoveFirst
    <3>2. k \notin ToSet(q)
      BY <1>0, <2>2 DEF ToSet
    <3> QED
      BY <3>1, <3>2
  <2> QED
    BY <2>1, <2>2
<1> HIDE DEF r
<1>2. /\ Append(r, k) \in Seq(Slots)
      /\ ToSet(Append(r, k)) = ToSet(r) \cup {k}
      /\ k \notin ToSet(r) /\ IsInjective(r) => IsInjective(Append(r, k))
  BY <1>1, AppendedSeq
<1>3. Newest(q, k) = Append(r, k)
  BY DEF Newest, r
<1>4. ToSet(r) \cup {k} = ToSet(q) \cup {k}
  BY <1>1
<1> QED
  BY <1>1, <1>2, <1>3, <1>4

\* Storing an entry keeps the cache true.
LEMMA StoredTrue ==
  ASSUME NEW a, ArpTrue(a), NEW k \in Slots, NEW e, Storable(a, k, e)
  PROVE  ArpTrue(Stored(a, k, e))
<1> DEFINE c == [a.cache EXCEPT ![k] = e]
<1>1. /\ Stored(a, k, e) = [cache |-> c, order |-> Newest(a.order, k)]
      /\ Stored(a, k, e).cache = c /\ Stored(a, k, e).order = Newest(a.order, k)
  BY DEF Stored
<1>2. /\ c = [j \in Slots |-> c[j]] /\ c[k] = e
      /\ \A j \in Slots : j # k => c[j] = a.cache[j]
  BY DEF ArpTrue, CacheTrue
<1> HIDE DEF c
<1>3. CacheTrue(Stored(a, k, e))
  BY <1>1, <1>2 DEF ArpTrue, CacheTrue, Storable
<1>4. OrderTrue(Stored(a, k, e))
  <2>1. /\ Newest(a.order, k) \in Seq(Slots) /\ IsInjective(Newest(a.order, k))
        /\ ToSet(Newest(a.order, k)) = ToSet(a.order) \cup {k}
    BY NewestOrder DEF ArpTrue, OrderTrue
  <2>2. ToSet(a.order) \cup {k} = {j \in Slots : c[j].state # "FREE"}
    <3>1. ToSet(a.order) = {j \in Slots : a.cache[j].state # "FREE"}
      BY DEF ArpTrue, OrderTrue
    <3>2. e.state # "FREE"
      BY DEF Storable
    <3> QED
      BY <1>2, <3>1, <3>2
  <2> QED
    BY <1>1, <2>1, <2>2 DEF OrderTrue
<1> QED
  BY <1>3, <1>4 DEF ArpTrue

\* There is always a slot to store into.
LEMMA AllocSlot ==
  ASSUME NEW a, ArpTrue(a)
  PROVE  arp_cache_alloc(a) \in Slots
<1>1. CASE FreeSlots(a) # {}
  <2>1. FreeSlots(a) \in SUBSET (1 .. ARP_CACHE) /\ ARP_CACHE \in Nat
    BY NetAssumption DEF FreeSlots, Slots
  <2>2. Min(FreeSlots(a)) \in FreeSlots(a) /\ \A y \in FreeSlots(a) : Min(FreeSlots(a)) <= y
    BY <1>1, <2>1, MinIn
  <2> QED
    BY <1>1, <2>2 DEF arp_cache_alloc, FreeSlots
<1>2. CASE FreeSlots(a) = {}
  <2>1. 1 \in Slots
    BY NetAssumption DEF Slots
  <2>2. 1 \in ToSet(a.order) /\ a.order \in Seq(Slots)
    BY <1>2, <2>1 DEF FreeSlots, ArpTrue, OrderTrue
  <2>3. Head(a.order) \in Slots
    BY <2>2 DEF ToSet
  <2> QED
    BY <1>2, <2>3 DEF arp_cache_alloc
<1> QED
  BY <1>1, <1>2

\* arp_cache_update and arp_cache_insert.
LEMMA LearnTrue ==
  ASSUME NEW a, ArpTrue(a), NEW p, NEW tome
  PROVE  ArpTrue(Learn(a, p, tome))
<1> DEFINE e == [state |-> "RESOLVED", pa |-> p, ha |-> p]
<1>1. CASE Bound(a, p) # {}
  <2>1. PICK k \in Bound(a, p) : k = CHOOSE j \in Bound(a, p) : TRUE
    BY <1>1
  <2>2. Storable(a, k, e) /\ k \in Slots
    BY <2>1 DEF Storable, Bound, ArpTrue, CacheTrue
  <2>3. Learn(a, p, tome) = Stored(a, k, e)
    BY <1>1, <2>1 DEF Learn
  <2> QED
    BY <2>2, <2>3, StoredTrue
<1>2. CASE Bound(a, p) = {} /\ tome
  <2>1. PICK k \in Slots : k = arp_cache_alloc(a)
    BY AllocSlot
  <2>2. Storable(a, k, e)
    BY <1>2 DEF Storable, Bound
  <2>3. Learn(a, p, tome) = Stored(a, k, e)
    BY <1>2, <2>1 DEF Learn
  <2> QED
    BY <2>2, <2>3, StoredTrue
<1>3. CASE Bound(a, p) = {} /\ ~tome
  BY <1>3 DEF Learn
<1> QED
  BY <1>1, <1>2, <1>3

(***************************************************************************)
(* The send ring                                                           *)
(***************************************************************************)
\* A frame is a broadcast or goes where its destination is reached.
Hop(dst) == IF dst \in NEAR THEN dst ELSE GW
RightFrame(f) == f.ha = Broadcast \/ f.ha = Hop(f.dst)
Frames == {f \in [dst : NEAR \cup FAR, ha : NEAR \cup {Broadcast}] : RightFrame(f)}

\* The descriptors the device has been handed, the oldest first.
Ids(q) == [k \in DOMAIN q |-> q[k].id]
SendIds(t) == t.done \o Ids(t.wait)

Handed == [id : Descs, frame : Frames]
TxType == [free : SUBSET Descs, wait : Seq(Handed), done : Seq(Descs)]
Apart(ids, free) == IsInjective(ids) /\ \A d \in ToSet(ids) : d \notin free
TxTrue(t) == t \in TxType /\ Apart(SendIds(t), t.free)

\* The descriptors of frames in a row.
LEMMA IdsAre ==
  ASSUME NEW q \in Seq(Handed)
  PROVE  /\ Ids(q) \in Seq(Descs) /\ Len(Ids(q)) = Len(q)
         /\ \A k \in 1 .. Len(q) : Ids(q)[k] = q[k].id
<1>1. \A k \in 1 .. Len(q) : q[k] \in Handed
  OBVIOUS
<1>2. \A k \in 1 .. Len(q) : q[k].id \in Descs
  BY <1>1 DEF Handed
<1>3. DOMAIN q = 1 .. Len(q) /\ Len(q) \in Nat
  OBVIOUS
<1> QED
  BY <1>2, <1>3 DEF Ids

LEMMA IdsAppend ==
  ASSUME NEW q \in Seq(Handed), NEW x \in Handed
  PROVE  Ids(Append(q, x)) = Append(Ids(q), x.id)
<1>0. Append(q, x) \in Seq(Handed)
  OBVIOUS
<1>1. PICK r \in Seq(Handed) : r = Append(q, x)
  BY <1>0
<1>2. PICK n \in Nat : n = Len(q)
  OBVIOUS
<1>3. Len(r) = n + 1 /\ r[n + 1] = x /\ \A k \in 1 .. n : r[k] = q[k]
  BY <1>1, <1>2
<1>4. PICK a \in Seq(Descs) : a = Append(Ids(q), x.id)
  <2>1. Ids(q) \in Seq(Descs)
    BY IdsAre
  <2>2. x.id \in Descs
    BY DEF Handed
  <2>3. Append(Ids(q), x.id) \in Seq(Descs)
    BY <2>1, <2>2, AppendProperties
  <2> QED
    BY <2>3
<1>5. Len(a) = n + 1 /\ a[n + 1] = x.id /\ \A k \in 1 .. n : a[k] = q[k].id
  <2>1. Ids(q) \in Seq(Descs) /\ Len(Ids(q)) = n /\ \A k \in 1 .. n : Ids(q)[k] = q[k].id
    BY <1>2, IdsAre
  <2>2. x.id \in Descs
    BY DEF Handed
  <2>3. /\ Len(Append(Ids(q), x.id)) = Len(Ids(q)) + 1
        /\ \A k \in 1 .. Len(Ids(q)) : Append(Ids(q), x.id)[k] = Ids(q)[k]
        /\ Append(Ids(q), x.id)[Len(Ids(q)) + 1] = x.id
    BY <2>1, <2>2, AppendProperties
  <2> QED
    BY <1>4, <2>1, <2>3
<1>6. Ids(r) \in Seq(Descs) /\ Len(Ids(r)) = n + 1 /\ \A k \in 1 .. n + 1 : Ids(r)[k] = r[k].id
  BY <1>3, IdsAre
<1>7. \A k \in 1 .. n + 1 : Ids(r)[k] = a[k]
  <2> TAKE k \in 1 .. n + 1
  <2>1. k = n + 1 \/ k \in 1 .. n
    OBVIOUS
  <2> QED
    BY <1>3, <1>5, <1>6, <2>1
<1>8. Ids(r) = a
  BY <1>5, <1>6, <1>7, SeqEqual
<1> QED
  BY <1>1, <1>4, <1>8

LEMMA IdsTail ==
  ASSUME NEW q \in Seq(Handed), q # <<>>
  PROVE  Ids(q) # <<>> /\ Head(Ids(q)) = Head(q).id /\ Ids(Tail(q)) = Tail(Ids(q))
<1>1. Ids(q) \in Seq(Descs) /\ Len(Ids(q)) = Len(q) /\ \A k \in 1 .. Len(q) : Ids(q)[k] = q[k].id
  BY IdsAre
<1>2. Len(q) \in Nat /\ 1 \in 1 .. Len(q) /\ Head(q) = q[1]
  OBVIOUS
<1>3. Ids(q) # <<>> /\ Head(Ids(q)) = Ids(q)[1]
  BY <1>1, <1>2
<1>4. PICK r \in Seq(Handed) : r = Tail(q) /\ Len(r) = Len(q) - 1 /\ \A k \in 1 .. Len(r) : r[k] = q[k + 1]
  BY HeadTailProperties
<1>5. Ids(r) \in Seq(Descs) /\ Len(Ids(r)) = Len(r) /\ \A k \in 1 .. Len(r) : Ids(r)[k] = r[k].id
  BY IdsAre
<1>6. PICK s \in Seq(Descs) : /\ s = Tail(Ids(q)) /\ Len(s) = Len(Ids(q)) - 1
                              /\ \A k \in 1 .. Len(s) : s[k] = Ids(q)[k + 1]
  <2>1. /\ Tail(Ids(q)) \in Seq(Descs) /\ Len(Tail(Ids(q))) = Len(Ids(q)) - 1
        /\ \A k \in 1 .. Len(Tail(Ids(q))) : Tail(Ids(q))[k] = Ids(q)[k + 1]
    BY <1>1, <1>3, HeadTailProperties
  <2> QED
    BY <2>1
<1>7. \A k \in 1 .. Len(q) - 1 : Ids(r)[k] = s[k]
  <2> TAKE k \in 1 .. Len(q) - 1
  <2>1. k + 1 \in 1 .. Len(q)
    BY <1>2
  <2>2. Ids(r)[k] = q[k + 1].id
    BY <1>4, <1>5
  <2>3. s[k] = q[k + 1].id
    BY <1>1, <1>6, <2>1
  <2> QED
    BY <2>2, <2>3
<1>8. Ids(r) = s
  BY <1>1, <1>4, <1>5, <1>6, <1>7, SeqEqual, SMTT(30)
<1> QED
  BY <1>1, <1>2, <1>3, <1>4, <1>6, <1>8

\* virtio_net_write hands over a free descriptor or drops the frame.
LEMMA WriteTrue ==
  ASSUME NEW t, TxTrue(t), NEW frame \in Frames, NEW n
  PROVE  TxTrue(virtio_net_write(t, frame, n))
<1>1. CASE n = 0 \/ FreeDesc(t) = {}
  BY <1>1 DEF virtio_net_write
<1>2. CASE ~(n = 0 \/ FreeDesc(t) = {})
  <2>1. PICK d \in FreeDesc(t) : d = CHOOSE e \in FreeDesc(t) : TRUE
    BY <1>2
  <2>2. PICK x : x = [id |-> d, frame |-> frame]
    OBVIOUS
  <2>3. PICK u : u = [t EXCEPT !.free = @ \ {d}, !.wait = Append(@, x)]
    OBVIOUS
  <2>4. virtio_net_write(t, frame, n) = u
    BY <1>2, <2>1, <2>2, <2>3 DEF virtio_net_write
  <2>5. /\ t \in TxType /\ d \in t.free /\ d \in Descs /\ x \in Handed /\ x.id = d
        /\ t.wait \in Seq(Handed) /\ t.done \in Seq(Descs) /\ t.free \in SUBSET Descs
    BY <2>1, <2>2 DEF TxTrue, TxType, FreeDesc, Handed
  <2>6. u.free = t.free \ {d} /\ u.done = t.done /\ u.wait = Append(t.wait, x)
        /\ u = [free |-> u.free, wait |-> u.wait, done |-> u.done]
    BY <2>3, <2>5 DEF TxType
  <2>7. u \in TxType
    <3>1. u.free \in SUBSET Descs /\ u.wait \in Seq(Handed) /\ u.done \in Seq(Descs)
      BY <2>5, <2>6
    <3> QED
      BY <2>6, <3>1 DEF TxType
  <2>8. SendIds(u) = Append(SendIds(t), d)
    <3>1. Ids(u.wait) = Append(Ids(t.wait), d)
      BY <2>5, <2>6, IdsAppend
    <3>2. Ids(t.wait) \in Seq(Descs)
      BY <2>5, IdsAre
    <3>3. t.done \o Append(Ids(t.wait), d) = Append(t.done \o Ids(t.wait), d)
      <4>1. PICK a \in Seq(Descs), b \in Seq(Descs), e \in Descs : a = t.done /\ b = Ids(t.wait) /\ e = d
        BY <2>5, <3>2
      <4>2. a \o Append(b, e) = Append(a \o b, e)
        BY JoinAppend
      <4> QED
        BY <4>1, <4>2
    <3> QED
      BY <2>6, <3>1, <3>3 DEF SendIds
  <2>9. /\ ToSet(Append(SendIds(t), d)) = ToSet(SendIds(t)) \cup {d}
        /\ d \notin ToSet(SendIds(t)) /\ IsInjective(SendIds(t)) => IsInjective(Append(SendIds(t), d))
    <3>1. SendIds(t) \in Seq(Descs)
      BY <2>5, IdsAre DEF SendIds
    <3> QED
      BY <2>5, <3>1, AppendedSeq
  <2>10. Apart(SendIds(t), t.free)
    BY DEF TxTrue
  <2>11. Apart(SendIds(u), u.free)
    BY <2>5, <2>6, <2>8, <2>9, <2>10 DEF Apart
  <2> QED
    BY <2>4, <2>7, <2>11 DEF TxTrue
<1> QED
  BY <1>1, <1>2
\* The device sends a frame; the interrupt reclaims what was sent.
LEMMA SendTrue ==
  ASSUME NEW t, TxTrue(t), t.wait # <<>>, NEW u,
         u = [t EXCEPT !.wait = Tail(@), !.done = Append(@, Head(t.wait).id)]
  PROVE  TxTrue(u)
<1>1. /\ t \in TxType /\ t.free \in SUBSET Descs /\ t.wait \in Seq(Handed) /\ t.done \in Seq(Descs)
  BY DEF TxTrue, TxType
<1>2. /\ u.free = t.free /\ u.wait = Tail(t.wait) /\ u.done = Append(t.done, Head(t.wait).id)
      /\ u = [free |-> u.free, wait |-> u.wait, done |-> u.done]
  BY <1>1 DEF TxType
<1>3. /\ Ids(t.wait) \in Seq(Descs) /\ Ids(t.wait) # <<>>
      /\ Head(Ids(t.wait)) = Head(t.wait).id /\ Ids(Tail(t.wait)) = Tail(Ids(t.wait))
  BY <1>1, IdsAre, IdsTail
<1>4. u \in TxType
  <2>1. Head(t.wait).id \in Descs /\ Tail(t.wait) \in Seq(Handed)
    <3>1. Head(t.wait) \in Handed /\ Tail(t.wait) \in Seq(Handed)
      BY <1>1, HeadTailProperties
    <3> QED
      BY <3>1 DEF Handed
  <2>2. u.free \in SUBSET Descs /\ u.wait \in Seq(Handed) /\ u.done \in Seq(Descs)
    BY <1>1, <1>2, <2>1
  <2> QED
    BY <1>2, <2>2 DEF TxType
<1>5. SendIds(u) = SendIds(t)
  <2>1. PICK a \in Seq(Descs), b \in Seq(Descs) : a = t.done /\ b = Ids(t.wait) /\ b # <<>>
    BY <1>1, <1>3
  <2>2. Append(a, Head(b)) \o Tail(b) = a \o b
    BY <2>1, JoinMove
  <2> QED
    BY <1>2, <1>3, <2>1, <2>2 DEF SendIds
<1> QED
  BY <1>2, <1>4, <1>5 DEF TxTrue

LEMMA ReclaimTrue ==
  ASSUME NEW t, TxTrue(t), NEW u,
         u = [t EXCEPT !.done = <<>>, !.free = @ \cup ToSet(t.done)]
  PROVE  TxTrue(u)
<1>1. /\ t \in TxType /\ t.free \in SUBSET Descs /\ t.wait \in Seq(Handed) /\ t.done \in Seq(Descs)
  BY DEF TxTrue, TxType
<1>2. /\ u.free = t.free \cup ToSet(t.done) /\ u.wait = t.wait /\ u.done = <<>>
      /\ u = [free |-> u.free, wait |-> u.wait, done |-> u.done]
  BY <1>1 DEF TxType
<1>3. Ids(t.wait) \in Seq(Descs)
  BY <1>1, IdsAre
<1>4. u \in TxType
  <2>1. ToSet(t.done) \in SUBSET Descs
    BY <1>1 DEF ToSet
  <2>2. u.free \in SUBSET Descs /\ u.wait \in Seq(Handed) /\ u.done \in Seq(Descs)
    BY <1>1, <1>2, <2>1
  <2> QED
    BY <1>2, <2>2 DEF TxType
<1>5. PICK a \in Seq(Descs), b \in Seq(Descs) : a = t.done /\ b = Ids(t.wait)
  BY <1>1, <1>3
<1>6. /\ ToSet(a \o b) = ToSet(a) \cup ToSet(b)
      /\ IsInjective(a \o b) => /\ IsInjective(a) /\ IsInjective(b)
                                /\ \A x \in ToSet(a) : x \notin ToSet(b)
  BY JoinSet
<1>7. Apart(a \o b, t.free)
  BY <1>5 DEF TxTrue, SendIds
<1>8. Apart(b, t.free \cup ToSet(a))
  BY <1>6, <1>7 DEF Apart
<1>9. SendIds(u) = b
  <2>1. <<>> \o b = b
    BY ConcatEmptySeq
  <2> QED
    BY <1>2, <1>5, <2>1 DEF SendIds
<1> QED
  BY <1>2, <1>4, <1>5, <1>8, <1>9 DEF TxTrue

(***************************************************************************)
(* Routes and packets sent                                                 *)
(***************************************************************************)
\* The network is reached directly, everything else through the gateway.
LEMMA RouteOf ==
  ASSUME NEW dst \in (NEAR \cup FAR) \ {ME}
  PROVE  NextHop(dst) = Hop(dst) /\ Hop(dst) \in NEAR
<1> DEFINE Near == [to |-> NEAR \cup {ME}, netmask |-> 24, nexthop |-> NONE]
           Default == [to |-> NEAR \cup FAR \cup {ME}, netmask |-> 0, nexthop |-> GW]
<1>1. Routes = {Near, Default}
  BY DEF Routes
<1>2. /\ Near.to = NEAR \cup {ME} /\ Near.netmask = 24 /\ Near.nexthop = NONE
      /\ Default.to = NEAR \cup FAR \cup {ME} /\ Default.netmask = 0 /\ Default.nexthop = GW
  OBVIOUS
<1>3. GW \in NEAR /\ GW # NONE
  BY NetAssumption DEF NONE
<1> HIDE DEF Near, Default
<1> DEFINE Best(r) == dst \in r.to /\ \A s \in Routes : dst \in s.to => r.netmask >= s.netmask
<1>4. CASE dst \in NEAR
  <2>1. Best(Near)
    BY <1>1, <1>2, <1>4
  <2>2. \A r \in Routes : Best(r) => r = Near
    BY <1>1, <1>2, <1>4
  <2>3. ip_route_lookup(dst) = Near
    BY <1>1, <2>1, <2>2 DEF ip_route_lookup
  <2> QED
    BY <1>2, <1>4, <2>3 DEF NextHop, Hop
<1>5. CASE dst \notin NEAR
  <2>1. Best(Default)
    BY <1>1, <1>2, <1>5
  <2>2. \A r \in Routes : Best(r) => r = Default
    BY <1>1, <1>2, <1>5
  <2>3. ip_route_lookup(dst) = Default
    BY <1>1, <2>1, <2>2 DEF ip_route_lookup
  <2> QED
    BY <1>2, <1>3, <1>5, <2>3 DEF NextHop, Hop
<1> QED
  BY <1>4, <1>5

\* A packet to another host leaves by its next hop, or an ARP request for that hop does.
LEMMA OutputTrue ==
  ASSUME NEW a, ArpTrue(a), NEW t, TxTrue(t), NEW dst \in (NEAR \cup FAR) \ {ME}, NEW n
  PROVE  ArpTrue(ip_output(a, t, dst, n).arp) /\ TxTrue(ip_output(a, t, dst, n).tx)
<1>1. PICK hop \in NEAR : NextHop(dst) = hop /\ Hop(dst) = hop
  BY RouteOf
<1>2. CASE n = 0
  BY <1>2 DEF ip_output
<1>3. CASE n # 0 /\ Resolved(a, hop) = {}
  <2>1. ip_output(a, t, dst, n) = arp_resolve(a, t, hop, n - 1)
    BY <1>1, <1>3 DEF ip_output
  <2>2. ArpTrue(arp_resolve(a, t, hop, n - 1).arp)
    <3>1. CASE Bound(a, hop) # {}
      BY <3>1 DEF arp_resolve
    <3>2. CASE Bound(a, hop) = {}
      <4>1. PICK k \in Slots : k = arp_cache_alloc(a)
        BY AllocSlot
      <4>2. PICK e : e = [state |-> "INCOMPLETE", pa |-> hop, ha |-> NONE]
        OBVIOUS
      <4>3. Storable(a, k, e)
        BY <3>2, <4>2 DEF Storable, Bound
      <4>4. ArpTrue(Stored(a, k, e))
        BY <4>3, StoredTrue
      <4>5. arp_resolve(a, t, hop, n - 1).arp = Stored(a, k, e)
        BY <3>2, <4>1, <4>2 DEF arp_resolve
      <4> QED
        BY <4>4, <4>5
    <3> QED
      BY <3>1, <3>2
  <2>3. Frame(hop, Broadcast) \in Frames
    BY DEF Frame, Frames, RightFrame
  <2>4. arp_resolve(a, t, hop, n - 1).tx = virtio_net_write(t, Frame(hop, Broadcast), n - 1)
    BY DEF arp_resolve
  <2> QED
    BY <2>1, <2>2, <2>3, <2>4, WriteTrue
<1>4. CASE n # 0 /\ Resolved(a, hop) # {}
  <2>1. PICK k \in Resolved(a, hop) : k = CHOOSE j \in Resolved(a, hop) : TRUE
    BY <1>4
  <2>2. a.cache[k].ha = hop
    BY <2>1 DEF Resolved, Bound, ArpTrue, CacheTrue
  <2>3. Frame(dst, hop) \in Frames
    BY <1>1 DEF Frame, Frames, RightFrame
  <2>4. ip_output(a, t, dst, n) = [arp |-> a, tx |-> virtio_net_write(t, Frame(dst, hop), n - 1)]
    BY <1>1, <1>4, <2>1, <2>2 DEF ip_output
  <2> QED
    BY <2>3, <2>4, WriteTrue
<1> QED
  BY <1>1, <1>2, <1>3, <1>4
\* arp_timer_handler frees the oldest entries.
LEMMA ExpireTrue ==
  ASSUME NEW a, ArpTrue(a), NEW n \in 1 .. Len(a.order), NEW b,
         b = [cache |-> [k \in Slots |-> IF k \in ToSet(SubSeq(a.order, 1, n)) THEN NoEntry
                                         ELSE a.cache[k]],
              order |-> SubSeq(a.order, n + 1, Len(a.order))]
  PROVE  ArpTrue(b)
<1>1. PICK q \in Seq(Slots) : /\ q = a.order /\ IsInjective(q)
                              /\ ToSet(q) = {k \in Slots : a.cache[k].state # "FREE"}
  BY DEF ArpTrue, OrderTrue
<1>2. PICK c, d : c = SubSeq(q, 1, n) /\ d = SubSeq(q, n + 1, Len(q))
  OBVIOUS
<1>3. /\ c \in Seq(Slots) /\ d \in Seq(Slots) /\ ToSet(c \o d) = ToSet(c) \cup ToSet(d)
      /\ IsInjective(c \o d) => /\ IsInjective(c) /\ IsInjective(d)
                                /\ \A x \in ToSet(c) : x \notin ToSet(d)
  <2>1. Len(q) \in Nat /\ n \in 1 .. Len(q) /\ \A i \in 1 .. Len(q) : q[i] \in Slots
    BY <1>1
  <2>2. c \in Seq(Slots)
    BY <1>2, <2>1, SubSeqProperties
  <2>3. d \in Seq(Slots)
    BY <1>2, <2>1, SubSeqProperties
  <2> QED
    BY <2>2, <2>3, JoinSet
<1>4. c \o d = q
  <2>1. Len(q) \in Nat /\ 1 \in 1 .. Len(q) + 1 /\ n \in 0 .. Len(q) /\ Len(q) \in n .. Len(q)
    BY <1>1
  <2>2. SubSeq(q, 1, n) \o SubSeq(q, n + 1, Len(q)) = SubSeq(q, 1, Len(q))
    BY <2>1, ConcatAdjacentSubSeq
  <2>3. SubSeq(q, 1, Len(q)) = q
    BY SubSeqFull
  <2> QED
    BY <1>2, <2>2, <2>3
<1>5. /\ b = [cache |-> b.cache, order |-> b.order] /\ b.order = d
      /\ b.cache = [k \in Slots |-> b.cache[k]]
      /\ \A k \in Slots : b.cache[k] = IF k \in ToSet(c) THEN NoEntry ELSE a.cache[k]
  BY <1>1, <1>2
<1>6. CacheTrue(b)
  BY <1>5 DEF CacheTrue, ArpTrue, NoEntry
<1>7. ToSet(d) = {k \in Slots : b.cache[k].state # "FREE"}
  <2>1. ToSet(c) \cup ToSet(d) = {k \in Slots : a.cache[k].state # "FREE"}
    BY <1>1, <1>3, <1>4
  <2>2. \A x \in ToSet(c) : x \notin ToSet(d)
    BY <1>1, <1>3, <1>4
  <2> QED
    BY <1>5, <2>1, <2>2 DEF NoEntry
<1> QED
  BY <1>1, <1>3, <1>4, <1>5, <1>6, <1>7 DEF ArpTrue, OrderTrue

(***************************************************************************)
(* The receive ring                                                        *)
(***************************************************************************)
\* Every slot holds its own buffer, and the used buffers are those from last on.
RxType == [ring : {[k \in Descs |-> k]}, avail : Descs, last : Descs,
           done : Seq([id : Descs, pkt : Arrivals]), count : Nat]
InTurn(r) == /\ r.avail = r.last /\ Len(r.done) <= QSIZE
             /\ \A k \in 1 .. Len(r.done) : r.done[k].id = (r.last + k - 1) % QSIZE
RxTrue(r) == r \in RxType /\ InTurn(r)

\* Positions of the ring, at most one round ahead.
LEMMA Around ==
  ASSUME NEW x \in 0 .. 2 * QSIZE - 1
  PROVE  x % QSIZE = IF x < QSIZE THEN x ELSE x - QSIZE
  BY NetAssumption
(***************************************************************************)
(* The protocol queues and the loop of virtio_net_intr                     *)
(***************************************************************************)
Protos == {"ARP", "IP"}
Packets(p) == {a \in Arrivals : a.proto = p}
Queues == [items : Seq(Arrivals), tail : {"ok", "cut", "off"}]
QueuesTrue(q) == q \in [Protos -> Queues] /\ \A p \in Protos : q[p].items \in Seq(Packets(p))

\* The state of the loop: what it may be, what is in the queues and out of
\* the free pages together, and that a packet it queued is announced.
Kept(v) == v.pages + v.lost + 2 * (Len(v.q["ARP"].items) + Len(v.q["IP"].items))
Announced(v, q, b) == (b => v.raised) /\ (v.raised \/ v.q = q)
LoopType == [rx : RxType, q : [Protos -> Queues], pages : Nat, lost : Nat, raised : BOOLEAN]
LoopTrue(v, q, b, c) ==
    v \in LoopType /\ QueuesTrue(v.q) /\ Announced(v, q, b) /\ Kept(v) = c

\* queue_push queues the packet or loses it.
LEMMA PushTrue ==
  ASSUME NEW p \in Protos, NEW q \in Queues, q.items \in Seq(Packets(p)), NEW e \in Packets(p), NEW r,
         r = queue_push(q, e)
  PROVE  /\ r \in Queues /\ r.items \in Seq(Packets(p))
         /\ r.tail = "ok" => Len(r.items) = Len(q.items) + 1
         /\ r.tail # "ok" => Len(r.items) = Len(q.items)
<1>1. PICK s \in Seq(Packets(p)) : s = q.items
  OBVIOUS
<1>2. Append(s, e) \in Seq(Packets(p)) /\ Len(Append(s, e)) = Len(s) + 1
  OBVIOUS
<1>3. Packets(p) \subseteq Arrivals
  BY DEF Packets
<1>4. Append(s, e) \in Seq(Arrivals)
  BY <1>2, <1>3, SeqMonotonic
<1>5. CASE q.tail = "ok" \/ q.items = <<>>
  BY <1>1, <1>2, <1>4, <1>5 DEF queue_push, Queues
<1>6. CASE ~(q.tail = "ok" \/ q.items = <<>>)
  <2>1. r = [q EXCEPT !.tail = "off"]
    BY <1>6 DEF queue_push
  <2>2. r.items = q.items /\ r.tail = "off" /\ r \in Queues
    BY <2>1 DEF Queues
  <2> QED
    BY <2>2
<1> QED
  BY <1>5, <1>6

\* net_input_handler keeps the pages in the account.
LEMMA HandlerTrue ==
  ASSUME NEW v, NEW q, NEW b, NEW c, LoopTrue(v, q, b, c), NEW pkt \in Arrivals, NEW r,
         r = net_input_handler(v, pkt)
  PROVE  LoopTrue(r, q, b, c) /\ r.rx = v.rx
<1>1. CASE pkt.proto \notin Protos \/ v.pages < 2
  BY <1>1 DEF net_input_handler, Protos
<1>2. CASE pkt.proto \in Protos /\ ~(v.pages < 2)
  <2>1. PICK p \in Protos : p = pkt.proto /\ pkt \in Packets(p)
    BY <1>2 DEF Packets
  <2>2. PICK u : u = queue_push(v.q[p], pkt)
    OBVIOUS
  <2>3. r = [v EXCEPT !.q[p] = u, !.pages = @ - 2, !.raised = TRUE,
                      !.lost = IF u.tail = "ok" THEN @ ELSE @ + 2]
    BY <1>2, <2>1, <2>2 DEF net_input_handler, Protos
  <2>4. /\ v \in LoopType /\ v.rx \in RxType /\ v.q \in [Protos -> Queues]
        /\ v.pages \in Nat /\ v.lost \in Nat /\ v.raised \in BOOLEAN
        /\ \A o \in Protos : v.q[o].items \in Seq(Packets(o)) /\ v.q[o] \in Queues
    BY DEF LoopTrue, LoopType, QueuesTrue
  <2>5. /\ u \in Queues /\ u.items \in Seq(Packets(p))
        /\ u.tail = "ok" => Len(u.items) = Len(v.q[p].items) + 1
        /\ u.tail # "ok" => Len(u.items) = Len(v.q[p].items)
    BY <2>1, <2>2, <2>4, PushTrue, SMTT(30)
  <2>6. /\ r.rx = v.rx /\ r.q = [v.q EXCEPT ![p] = u] /\ r.pages = v.pages - 2 /\ r.raised = TRUE
        /\ r.lost = IF u.tail = "ok" THEN v.lost ELSE v.lost + 2
        /\ r = [rx |-> r.rx, q |-> r.q, pages |-> r.pages, lost |-> r.lost, raised |-> r.raised]
    BY <2>3, <2>4 DEF LoopType
  <2>11. PICK x \in Nat, y \in Nat : x = v.pages /\ y = v.lost
    BY <2>4
  <2>12. ~(x < 2)
    BY <1>2, <2>11
  <2>13. r.pages = x - 2 /\ r.lost = IF u.tail = "ok" THEN y ELSE y + 2
    BY <2>6, <2>11
  <2>7. r.q \in [Protos -> Queues] /\ r.q[p] = u /\ \A o \in Protos : o # p => r.q[o] = v.q[o]
    BY <2>4, <2>5, <2>6
  <2>8. r \in LoopType
    <3>1. r.pages \in Nat /\ r.lost \in Nat
      BY <2>12, <2>13
    <3>2. r.raised \in BOOLEAN /\ r.rx \in RxType
      BY <2>4, <2>6
    <3> QED
      BY <2>6, <2>7, <3>1, <3>2 DEF LoopType
  <2>9. QueuesTrue(r.q)
    BY <2>4, <2>5, <2>7 DEF QueuesTrue
  <2>10. Kept(r) = Kept(v)
    <3>1. PICK m, n \in Nat : m = Len(v.q["ARP"].items) /\ n = Len(v.q["IP"].items)
      <4>1. v.q["ARP"].items \in Seq(Packets("ARP")) /\ v.q["IP"].items \in Seq(Packets("IP"))
        BY <2>4 DEF Protos
      <4> QED
        BY <4>1
    <3>4. Kept(v) = x + y + 2 * (m + n)
      BY <2>11, <3>1 DEF Kept
    <3>5. \A i, j \in Nat : Len(r.q["ARP"].items) = i /\ Len(r.q["IP"].items) = j =>
             Kept(r) = (x - 2) + (IF u.tail = "ok" THEN y ELSE y + 2) + 2 * (i + j)
      BY <2>13 DEF Kept
    <3>2. CASE p = "ARP"
      <4>1. /\ u.tail = "ok" => Len(r.q["ARP"].items) = m + 1
            /\ u.tail # "ok" => Len(r.q["ARP"].items) = m
            /\ Len(r.q["IP"].items) = n
        BY <2>5, <2>7, <3>1, <3>2 DEF Protos
      <4> QED
        BY <3>4, <3>5, <4>1
    <3>3. CASE p = "IP"
      <4>1. /\ u.tail = "ok" => Len(r.q["IP"].items) = n + 1
            /\ u.tail # "ok" => Len(r.q["IP"].items) = n
            /\ Len(r.q["ARP"].items) = m
        BY <2>5, <2>7, <3>1, <3>3 DEF Protos
      <4> QED
        BY <3>4, <3>5, <4>1
    <3> QED
      BY <3>2, <3>3 DEF Protos
  <2> QED
    BY <2>6, <2>8, <2>9, <2>10 DEF LoopTrue, Announced
<1> QED
  BY <1>1, <1>2
\* The next frame's buffer is the one the slot held: virtio_net_read changes nothing.
LEMMA RecycleSame ==
  ASSUME NEW r, RxTrue(r), r.done # <<>>, NEW u,
         u = [r EXCEPT !.ring[r.avail] = Head(r.done).id]
  PROVE  u = r
<1>1. /\ r \in RxType /\ r.ring = [k \in Descs |-> k] /\ r.last \in Descs /\ r.avail = r.last
      /\ r.done \in Seq([id : Descs, pkt : Arrivals])
  BY DEF RxTrue, RxType, InTurn
<1>2. Head(r.done).id = r.last
  <2>1. 1 \in 1 .. Len(r.done) /\ Head(r.done) = r.done[1]
    BY <1>1
  <2>2. r.done[1].id = (r.last + 1 - 1) % QSIZE
    BY <2>1 DEF RxTrue, InTurn
  <2>3. r.last \in 0 .. 2 * QSIZE - 1 /\ r.last < QSIZE /\ r.last + 1 - 1 = r.last
    BY <1>1, NetAssumption DEF Descs
  <2>4. r.last % QSIZE = r.last
    BY <2>3, Around
  <2> QED
    BY <2>1, <2>2, <2>3, <2>4
<1>3. [r.ring EXCEPT ![r.avail] = Head(r.done).id] = r.ring
  BY <1>1, <1>2
<1>4. u = [r EXCEPT !.ring = [r.ring EXCEPT ![r.avail] = Head(r.done).id]]
  OBVIOUS
<1>5. [r EXCEPT !.ring = r.ring] = r
  BY <1>1 DEF RxType
<1> QED
  BY <1>3, <1>4, <1>5

\* The ring after the interrupt has taken a frame.
LEMMA AdvanceTrue ==
  ASSUME NEW r, RxTrue(r), r.done # <<>>, NEW u,
         u = [r EXCEPT !.avail = (@ + 1) % QSIZE, !.last = (@ + 1) % QSIZE, !.done = Tail(@)]
  PROVE  RxTrue(u) /\ u.done = Tail(r.done) /\ Len(u.done) = Len(r.done) - 1
<1>1. /\ r \in RxType /\ r.ring = [k \in Descs |-> k] /\ r.last \in Descs /\ r.avail = r.last
      /\ r.done \in Seq([id : Descs, pkt : Arrivals]) /\ r.count \in Nat
  BY DEF RxTrue, RxType, InTurn
<1>2. /\ u.ring = r.ring /\ u.avail = (r.avail + 1) % QSIZE /\ u.last = (r.last + 1) % QSIZE
      /\ u.done = Tail(r.done) /\ u.count = r.count
      /\ u = [ring |-> u.ring, avail |-> u.avail, last |-> u.last, done |-> u.done, count |-> u.count]
  BY <1>1 DEF RxType
<1>3. PICK l \in 0 .. QSIZE - 1 : l = r.last
  BY <1>1 DEF Descs
<1>4. PICK m \in 0 .. QSIZE - 1 : m = u.last /\ m = IF l + 1 < QSIZE THEN l + 1 ELSE l + 1 - QSIZE
  <2>1. PICK x \in 0 .. 2 * QSIZE - 1 : x = l + 1
    <3>1. l + 1 \in 0 .. 2 * QSIZE - 1
      BY NetAssumption
    <3> QED
      BY <3>1
  <2>4. x % QSIZE = IF x < QSIZE THEN x ELSE x - QSIZE
    BY Around
  <2>2. (l + 1) % QSIZE = IF l + 1 < QSIZE THEN l + 1 ELSE l + 1 - QSIZE
    BY <2>1, <2>4, NetAssumption
  <2>3. (l + 1) % QSIZE \in 0 .. QSIZE - 1
    BY <2>2, NetAssumption, SMTT(30)
  <2> QED
    BY <1>2, <1>3, <2>2, <2>3
<1>5. PICK n \in Nat : n = Len(r.done) /\ n <= QSIZE
  BY <1>1 DEF RxTrue, InTurn
<1>6. /\ u.done \in Seq([id : Descs, pkt : Arrivals]) /\ Len(u.done) = n - 1
      /\ \A k \in 1 .. n - 1 : u.done[k] = r.done[k + 1]
  <2>1. /\ Tail(r.done) \in Seq([id : Descs, pkt : Arrivals]) /\ Len(Tail(r.done)) = Len(r.done) - 1
        /\ \A k \in 1 .. Len(Tail(r.done)) : Tail(r.done)[k] = r.done[k + 1]
    BY <1>1, HeadTailProperties
  <2> QED
    BY <1>2, <1>5, <2>1
<1>7. u \in RxType
  <2>1. u.avail \in Descs /\ u.last \in Descs
    BY <1>1, <1>2, <1>4 DEF Descs
  <2> QED
    BY <1>1, <1>2, <1>6, <2>1 DEF RxType
<1>8. ASSUME NEW k \in 1 .. n - 1
      PROVE  u.done[k].id = (m + k - 1) % QSIZE
  <2>1. k + 1 \in 1 .. n
    OBVIOUS
  <2>2. r.done[k + 1].id = (l + (k + 1) - 1) % QSIZE
    BY <1>3, <1>5, <2>1 DEF RxTrue, InTurn
  <2>0. QSIZE \in Nat /\ n <= QSIZE /\ k \in Nat /\ 1 <= k /\ k <= n - 1
    BY <1>5, NetAssumption
  <2>3. PICK x \in 0 .. 2 * QSIZE - 1 : x = l + (k + 1) - 1
    <3>1. l + (k + 1) - 1 \in 0 .. 2 * QSIZE - 1
      BY <2>0
    <3> QED
      BY <3>1
  <2>4. PICK y \in 0 .. 2 * QSIZE - 1 : y = m + k - 1
    <3>1. m + k - 1 \in 0 .. 2 * QSIZE - 1
      BY <2>0
    <3> QED
      BY <3>1
  <2>5. x % QSIZE = (IF x < QSIZE THEN x ELSE x - QSIZE) /\ y % QSIZE = (IF y < QSIZE THEN y ELSE y - QSIZE)
    BY Around
  <2>6. (IF x < QSIZE THEN x ELSE x - QSIZE) = (IF y < QSIZE THEN y ELSE y - QSIZE)
    <3>1. CASE l + 1 < QSIZE
      <4>1. m = l + 1
        BY <1>4, <3>1
      <4> QED
        BY <2>3, <2>4, <4>1
    <3>2. CASE ~(l + 1 < QSIZE)
      <4>1. m = l + 1 - QSIZE
        BY <1>4, <3>2
      <4>3. l = QSIZE - 1 /\ m = 0
        BY <2>0, <3>2, <4>1, SMTT(30)
      <4>4. x = QSIZE + (k - 1) /\ y = k - 1
        BY <2>0, <2>3, <2>4, <4>3
      <4>2. x = y + QSIZE /\ y < QSIZE /\ ~(x < QSIZE)
        BY <2>0, <4>4
      <4> QED
        BY <2>0, <4>2
    <3> QED
      BY <3>1, <3>2
  <2> QED
    BY <1>6, <2>2, <2>3, <2>4, <2>5, <2>6
<1>9. InTurn(u)
  <2>1. Len(u.done) <= QSIZE
    BY <1>5, <1>6, NetAssumption
  <2>2. u.avail = u.last
    BY <1>1, <1>2
  <2>3. \A k \in 1 .. Len(u.done) : u.done[k].id = (u.last + k - 1) % QSIZE
    BY <1>4, <1>6, <1>8
  <2> QED
    BY <2>1, <2>2, <2>3 DEF InTurn
<1> QED
  BY <1>2, <1>5, <1>6, <1>7, <1>9 DEF RxTrue

\* One turn of the loop keeps its state true and takes one frame.
LEMMA TakeOneTrue ==
  ASSUME NEW v, NEW q, NEW b, NEW c, LoopTrue(v, q, b, c), RxTrue(v.rx), v.rx.done # <<>>,
         NEW pkt \in Arrivals
  PROVE  /\ LoopTrue(TakeOne(v, pkt), q, b, c) /\ RxTrue(TakeOne(v, pkt).rx)
         /\ Len(TakeOne(v, pkt).rx.done) = Len(v.rx.done) - 1
<1>0. v \in LoopType /\ v.pages \in Nat /\ v.lost \in Nat /\ Kept(v) = c
  BY DEF LoopTrue, LoopType
<1>1. PICK r : r = ether_input_helper(v, pkt)
  OBVIOUS
<1>2. LoopTrue(r, q, b, c) /\ r.rx = v.rx
  <2>1. CASE v.pages = 0
    BY <1>1, <2>1 DEF ether_input_helper
  <2>2. CASE v.pages # 0
    <3>1. virtio_net_read(v) = v
      <4>1. [v.rx EXCEPT !.ring[v.rx.avail] = Head(v.rx.done).id] = v.rx
        BY RecycleSame
      <4>2. virtio_net_read(v) = [v EXCEPT !.rx = [v.rx EXCEPT !.ring[v.rx.avail] = Head(v.rx.done).id]]
        BY DEF virtio_net_read, Recycled
      <4>3. [v EXCEPT !.rx = v.rx] = v
        BY <1>0 DEF LoopType
      <4> QED
        BY <4>1, <4>2, <4>3
    <3>2. PICK s : s = [v EXCEPT !.pages = @ - 1]
      OBVIOUS
    <3>3. /\ s.rx = v.rx /\ s.q = v.q /\ s.pages = v.pages - 1 /\ s.lost = v.lost /\ s.raised = v.raised
          /\ s = [rx |-> s.rx, q |-> s.q, pages |-> s.pages, lost |-> s.lost, raised |-> s.raised]
      BY <1>0, <3>2 DEF LoopType
    <3>4. s.pages \in Nat
      BY <1>0, <2>2, <3>3
    <3>5. LoopTrue(s, q, b, c - 1)
      <4>1. s \in LoopType
        BY <1>0, <3>3, <3>4 DEF LoopType
      <4>2. Kept(s) = c - 1
        <5>1. PICK m, n \in Nat : m = Len(v.q["ARP"].items) /\ n = Len(v.q["IP"].items)
          <6>1. v.q["ARP"].items \in Seq(Packets("ARP")) /\ v.q["IP"].items \in Seq(Packets("IP"))
            BY DEF LoopTrue, QueuesTrue, Protos
          <6> QED
            BY <6>1
        <5>2. PICK x, y \in Nat : x = v.pages /\ y = v.lost
          BY <1>0
        <5>3. c = x + y + 2 * (m + n)
          BY <1>0, <5>1, <5>2 DEF Kept
        <5>4. Kept(s) = (x - 1) + y + 2 * (m + n)
          BY <3>3, <5>1, <5>2 DEF Kept
        <5> QED
          BY <5>3, <5>4
      <4> QED
        BY <3>3, <4>1, <4>2 DEF LoopTrue, Announced
    <3>6. PICK h : h = net_input_handler(s, pkt)
      OBVIOUS
    <3>7. LoopTrue(h, q, b, c - 1) /\ h.rx = s.rx
      BY <3>5, <3>6, HandlerTrue
    <3>8. r = [h EXCEPT !.pages = @ + 1]
      BY <1>1, <2>2, <3>1, <3>2, <3>6 DEF ether_input_helper
    <3>9. /\ r.rx = h.rx /\ r.q = h.q /\ r.pages = h.pages + 1 /\ r.lost = h.lost /\ r.raised = h.raised
          /\ r = [rx |-> r.rx, q |-> r.q, pages |-> r.pages, lost |-> r.lost, raised |-> r.raised]
      BY <3>7, <3>8 DEF LoopTrue, LoopType
    <3>10. r \in LoopType
      BY <3>7, <3>9 DEF LoopTrue, LoopType
    <3>11. Kept(r) = c
      <4>1. PICK m, n \in Nat : m = Len(h.q["ARP"].items) /\ n = Len(h.q["IP"].items)
        <5>1. h.q["ARP"].items \in Seq(Packets("ARP")) /\ h.q["IP"].items \in Seq(Packets("IP"))
          BY <3>7 DEF LoopTrue, QueuesTrue, Protos
        <5> QED
          BY <5>1, SMTT(30)
      <4>2. PICK x, y \in Nat : x = h.pages /\ y = h.lost
        BY <3>7 DEF LoopTrue, LoopType
      <4>3. c - 1 = x + y + 2 * (m + n)
        BY <3>7, <4>1, <4>2 DEF Kept, LoopTrue
      <4>4. Kept(r) = (x + 1) + y + 2 * (m + n)
        BY <3>9, <4>1, <4>2 DEF Kept
      <4>5. c \in Nat
        <5>1. PICK i, j \in Nat : i = Len(v.q["ARP"].items) /\ j = Len(v.q["IP"].items)
          <6>1. v.q["ARP"].items \in Seq(Packets("ARP")) /\ v.q["IP"].items \in Seq(Packets("IP"))
            BY DEF LoopTrue, QueuesTrue, Protos
          <6> QED
            BY <6>1
        <5>2. PICK a, d \in Nat : a = v.pages /\ d = v.lost
          BY <1>0
        <5>3. Kept(v) = a + d + 2 * (i + j)
          BY <5>1, <5>2 DEF Kept
        <5> QED
          BY <1>0, <5>3
      <4> QED
        BY <4>3, <4>4, <4>5
    <3> QED
      BY <3>3, <3>7, <3>9, <3>10, <3>11 DEF LoopTrue, Announced
  <2> QED
    BY <2>1, <2>2
<1>3. PICK u : u = [r.rx EXCEPT !.avail = (@ + 1) % QSIZE, !.last = (@ + 1) % QSIZE, !.done = Tail(@)]
  OBVIOUS
<1>4. RxTrue(u) /\ Len(u.done) = Len(v.rx.done) - 1
  BY <1>2, <1>3, AdvanceTrue
<1>5. TakeOne(v, pkt) = [r EXCEPT !.rx = u]
  BY <1>1, <1>3 DEF TakeOne
<1>6. PICK w : w = [r EXCEPT !.rx = u]
  OBVIOUS
<1>7. /\ w.rx = u /\ w.q = r.q /\ w.pages = r.pages /\ w.lost = r.lost /\ w.raised = r.raised
      /\ w = [rx |-> w.rx, q |-> w.q, pages |-> w.pages, lost |-> w.lost, raised |-> w.raised]
  BY <1>2, <1>6 DEF LoopTrue, LoopType
<1>8. w \in LoopType
  BY <1>2, <1>4, <1>7 DEF LoopTrue, LoopType, RxTrue
<1>9. LoopTrue(w, q, b, c)
  BY <1>2, <1>7, <1>8 DEF LoopTrue, Announced, Kept
<1> QED
  BY <1>4, <1>5, <1>6, <1>7, <1>9
\* The whole loop: it takes every frame the device has filled.
LEMMA LoopKeeps ==
  ASSUME NEW n \in Nat, NEW got, DOMAIN got = 1 .. n, \A k \in 1 .. n : got[k] \in Arrivals,
         NEW q, NEW b, NEW c, NEW start, LoopTrue(start, q, b, c), RxTrue(start.rx),
         Len(start.rx.done) = n
  PROVE  /\ LoopTrue(FoldLeft(TakeOne, start, got), q, b, c)
         /\ RxTrue(FoldLeft(TakeOne, start, got).rx)
<1> DEFINE T == 1 .. n
           C == CHOOSE it : it = [s \in SUBSET T |->
                  IF s = {} THEN start
                  ELSE LET x == Max(s) IN TakeOne(it[s \ {x}], got[x])]
<1>1. PICK V : V = {v \in LoopType : LoopTrue(v, q, b, c) /\ RxTrue(v.rx)}
  OBVIOUS
<1>2. start \in V
  BY <1>1 DEF LoopTrue
<1>3. PICK step : step = [z \in T \X V |-> IF z[2].rx.done = <<>> THEN z[2] ELSE TakeOne(z[2], got[z[1]])]
  OBVIOUS
<1>4. \A x \in T, v \in V : v.rx.done # <<>> =>
         TakeOne(v, got[x]) \in V /\ Len(TakeOne(v, got[x]).rx.done) = Len(v.rx.done) - 1
  <2> TAKE x \in T, v \in V
  <2> HAVE v.rx.done # <<>>
  <2>1. LoopTrue(v, q, b, c) /\ RxTrue(v.rx) /\ got[x] \in Arrivals
    BY <1>1
  <2>2. /\ LoopTrue(TakeOne(v, got[x]), q, b, c) /\ RxTrue(TakeOne(v, got[x]).rx)
        /\ Len(TakeOne(v, got[x]).rx.done) = Len(v.rx.done) - 1
    BY <2>1, TakeOneTrue
  <2> QED
    BY <1>1, <2>2 DEF LoopTrue
<1>5. step \in [T \X V -> V]
  <2>1. ASSUME NEW z \in T \X V
        PROVE  (IF z[2].rx.done = <<>> THEN z[2] ELSE TakeOne(z[2], got[z[1]])) \in V
    <3>1. z[1] \in T /\ z[2] \in V
      OBVIOUS
    <3> QED
      BY <1>4, <3>1
  <2> QED
    BY <1>3, <2>1
<1>6. PICK g : LastFold(g, V, start, step, n)
  BY <1>2, <1>5, FoldLast, Zenon
<1>7. ASSUME NEW s \in SUBSET T
      PROVE  /\ g[s] \in V
             /\ s = {} => g[s] = start
             /\ s # {} => /\ Max(s) \in s /\ g[s \ {Max(s)}] \in V
                          /\ g[s] = IF g[s \ {Max(s)}].rx.done = <<>> THEN g[s \ {Max(s)}]
                                    ELSE TakeOne(g[s \ {Max(s)}], got[Max(s)])
  <2>1. g[s] \in V /\ g[s] = IF s = {} THEN start ELSE step[<<Max(s), g[s \ {Max(s)}]>>]
    BY <1>6 DEF LastFold
  <2>2. CASE s = {}
    BY <2>1, <2>2
  <2>3. CASE s # {}
    <3>1. Max(s) \in s
      BY <2>3, MaxIn
    <3>2. Max(s) \in T /\ s \ {Max(s)} \in SUBSET T
      BY <3>1
    <3>3. g[s \ {Max(s)}] \in V
      BY <1>6, <3>2 DEF LastFold
    <3>4. PICK x \in T, v \in V : x = Max(s) /\ v = g[s \ {Max(s)}]
      BY <3>2, <3>3
    <3>5. step[<<x, v>>] = IF v.rx.done = <<>> THEN v ELSE TakeOne(v, got[x])
      BY <1>3
    <3> QED
      BY <2>1, <2>3, <3>1, <3>3, <3>4, <3>5
  <2> QED
    BY <2>2, <2>3
<1>8. IsFiniteSet(T) /\ Cardinality(T) = n
  BY FS_Interval
<1>9. \A s \in SUBSET T : /\ Cardinality(s) \in Nat /\ Cardinality(s) <= n
                          /\ Cardinality(s) = 0 <=> s = {}
                          /\ \A x \in s : Cardinality(s \ {x}) = Cardinality(s) - 1
  <2> TAKE s \in SUBSET T
  <2>1. /\ Cardinality(s) \in Nat /\ Cardinality(s) <= Cardinality(T)
        /\ Cardinality(s) = 0 <=> s = {}
        /\ \A x \in s : Cardinality(s \ {x}) = Cardinality(s) - 1
    BY <1>8, SizeOf
  <2> QED
    BY <1>8, <2>1
<1>10. \A s \in SUBSET T : Len(g[s].rx.done) = n - Cardinality(s)
  <2> DEFINE D == {k \in Nat : \A s \in SUBSET T : Cardinality(s) <= k => Len(g[s].rx.done) = n - Cardinality(s)}
  <2>1. 0 \in D
    <3>1. ASSUME NEW s \in SUBSET T, Cardinality(s) <= 0
          PROVE  Len(g[s].rx.done) = n - Cardinality(s)
      <4>1. s = {} /\ Cardinality(s) = 0
        BY <1>9, <3>1
      <4>2. g[s] = start
        BY <1>7, <4>1
      <4> QED
        BY <4>1, <4>2
    <3> QED
      BY <3>1
  <2>2. ASSUME NEW k \in D
        PROVE  k + 1 \in D
    <3>1. ASSUME NEW s \in SUBSET T, Cardinality(s) <= k + 1, s # {}
          PROVE  Len(g[s].rx.done) = n - Cardinality(s)
      <4>1. PICK x \in s, v \in V : /\ x = Max(s) /\ v = g[s \ {x}]
                                    /\ g[s] = IF v.rx.done = <<>> THEN v ELSE TakeOne(v, got[x])
        BY <1>7, <3>1
      <4>2. PICK m \in Nat : m = Cardinality(s) /\ m # 0 /\ m <= n /\ m <= k + 1 /\ Cardinality(s \ {x}) = m - 1
        <5>1. /\ Cardinality(s) \in Nat /\ Cardinality(s) <= n /\ Cardinality(s) # 0
              /\ Cardinality(s \ {x}) = Cardinality(s) - 1
          BY <1>9, <3>1
        <5> QED
          BY <3>1, <5>1
      <4>3. Len(v.rx.done) = n - (m - 1)
        <5>1. s \ {x} \in SUBSET T /\ m - 1 <= k
          BY <4>2
        <5> QED
          BY <4>1, <4>2, <5>1
      <4>4. v.rx.done # <<>>
        BY <4>2, <4>3
      <4>5. Len(TakeOne(v, got[x]).rx.done) = Len(v.rx.done) - 1
        BY <1>4, <4>4
      <4> QED
        BY <4>1, <4>2, <4>3, <4>4, <4>5
    <3>2. \A s \in SUBSET T : Cardinality(s) <= k + 1 => Len(g[s].rx.done) = n - Cardinality(s)
      <4> TAKE s \in SUBSET T
      <4> HAVE Cardinality(s) <= k + 1
      <4>1. CASE s = {}
        BY <1>7, <4>1, FS_EmptySet
      <4>2. CASE s # {}
        BY <3>1, <4>2
      <4> QED
        BY <4>1, <4>2
    <3> QED
      BY <3>2
  <2>3. D \in SUBSET Nat
    OBVIOUS
  <2> HIDE DEF D
  <2>4. \A k \in Nat : k \in D
    BY <2>1, <2>2, <2>3, NatSet
  <2>5. ASSUME NEW s \in SUBSET T
        PROVE  Len(g[s].rx.done) = n - Cardinality(s)
    <3>1. Cardinality(s) \in Nat
      BY <1>9
    <3>2. Cardinality(s) \in D
      BY <2>4, <3>1
    <3> QED
      BY <3>1, <3>2 DEF D
  <2> QED
    BY <2>5
<1>11. \A s \in SUBSET T : s # {} => g[s] = TakeOne(g[s \ {Max(s)}], got[Max(s)])
  <2> TAKE s \in SUBSET T
  <2> HAVE s # {}
  <2>1. PICK x \in s, v \in V : /\ x = Max(s) /\ v = g[s \ {x}]
                                /\ g[s] = IF v.rx.done = <<>> THEN v ELSE TakeOne(v, got[x])
    BY <1>7
  <2>2. /\ Cardinality(s) \in Nat /\ Cardinality(s) <= n
        /\ Cardinality(s \ {x}) = Cardinality(s) - 1
    BY <1>9
  <2>3. s \ {x} \in SUBSET T
    OBVIOUS
  <2>4. Len(v.rx.done) = n - (Cardinality(s) - 1)
    BY <1>10, <2>1, <2>2, <2>3
  <2>5. v.rx.done # <<>>
    BY <2>2, <2>4
  <2> QED
    BY <2>1, <2>5
<1>12. g = [s \in SUBSET T |-> IF s = {} THEN start ELSE LET x == Max(s) IN TakeOne(g[s \ {x}], got[x])]
  <2>1. g = [s \in SUBSET T |-> g[s]]
    BY <1>6 DEF LastFold
  <2>2. \A s \in SUBSET T : g[s] = IF s = {} THEN start ELSE LET x == Max(s) IN TakeOne(g[s \ {x}], got[x])
    BY <1>7, <1>11
  <2> QED
    BY <2>1, <2>2
<1>13. C = [s \in SUBSET T |-> IF s = {} THEN start ELSE LET x == Max(s) IN TakeOne(C[s \ {x}], got[x])]
  BY <1>12, Zenon
<1>14. FoldLeft(TakeOne, start, got) = C[T]
  BY DEF FoldLeft, MapThenFoldSet
<1> HIDE DEF C
<1>15. \A s \in SUBSET T : C[s] = g[s]
  <2> DEFINE D == {k \in Nat : \A s \in SUBSET T : Cardinality(s) <= k => C[s] = g[s]}
  <2>1. 0 \in D
    <3>1. ASSUME NEW s \in SUBSET T, Cardinality(s) <= 0
          PROVE  C[s] = g[s]
      <4>1. s = {}
        BY <1>9, <3>1
      <4> QED
        BY <1>7, <1>13, <4>1
    <3> QED
      BY <3>1
  <2>2. ASSUME NEW k \in D
        PROVE  k + 1 \in D
    <3>1. ASSUME NEW s \in SUBSET T, Cardinality(s) <= k + 1
          PROVE  C[s] = g[s]
      <4>1. CASE s = {}
        BY <1>7, <1>13, <4>1
      <4>2. CASE s # {}
        <5>1. Max(s) \in s
          BY <1>7, <4>2
        <5>2. s \ {Max(s)} \in SUBSET T /\ Cardinality(s \ {Max(s)}) <= k
          <6>1. PICK m \in Nat : m = Cardinality(s) /\ Cardinality(s \ {Max(s)}) = m - 1
            BY <1>9, <5>1
          <6>2. k \in Nat /\ m <= k + 1
            BY <3>1, <6>1
          <6>3. s \ {Max(s)} \in SUBSET T
            OBVIOUS
          <6> QED
            BY <6>1, <6>2, <6>3
        <5>3. C[s \ {Max(s)}] = g[s \ {Max(s)}]
          BY <5>2
        <5>4. C[s] = TakeOne(C[s \ {Max(s)}], got[Max(s)])
          BY <1>13, <4>2
        <5> QED
          BY <1>11, <4>2, <5>3, <5>4
      <4> QED
        BY <4>1, <4>2
    <3> QED
      BY <3>1
  <2>3. D \in SUBSET Nat
    OBVIOUS
  <2> HIDE DEF D
  <2>4. \A k \in Nat : k \in D
    BY <2>1, <2>2, <2>3, NatSet
  <2>5. ASSUME NEW s \in SUBSET T
        PROVE  C[s] = g[s]
    <3>1. Cardinality(s) \in Nat
      BY <1>9
    <3>2. Cardinality(s) \in D
      BY <2>4, <3>1
    <3> QED
      BY <3>1, <3>2 DEF D
  <2> QED
    BY <2>5
<1> QED
  BY <1>1, <1>7, <1>14, <1>15
\* The device fills the next buffer.
LEMMA ReceiveTrue ==
  ASSUME NEW r, RxTrue(r), Given(r) # <<>>, NEW pkt \in Arrivals, NEW u,
         u = [r EXCEPT !.count = @ + 1,
                       !.done = Append(@, [id |-> r.ring[Head(Given(r))], pkt |-> pkt])]
  PROVE  RxTrue(u)
<1>1. /\ r \in RxType /\ r.ring = [k \in Descs |-> k] /\ r.last \in Descs /\ r.avail = r.last
      /\ r.done \in Seq([id : Descs, pkt : Arrivals]) /\ r.count \in Nat
  BY DEF RxTrue, RxType, InTurn
<1>2. PICK Q \in Nat \ {0} : Q = QSIZE
  BY NetAssumption
<1>3. PICK n \in Nat : n = Len(r.done) /\ n <= Q
  BY <1>1, <1>2 DEF RxTrue, InTurn
<1>4. PICK l \in 0 .. Q - 1 : l = r.last
  BY <1>1, <1>2 DEF Descs
<1>5. n < Q
  <2> SUFFICES ASSUME n = Q PROVE FALSE
    BY <1>3
  <2>1. 1 .. Q - n = {}
    OBVIOUS
  <2>2. Given(r) = [k \in {} |-> (r.last + Len(r.done) + k - 1) % QSIZE]
    BY <1>2, <1>3, <2>1 DEF Given
  <2>3. Given(r) = <<>>
    BY <2>2
  <2> QED
    BY <2>3
<1>6. PICK d \in Descs : d = (l + (n + 1) - 1) % QSIZE
  <2>1. PICK x \in 0 .. 2 * QSIZE - 1 : x = l + (n + 1) - 1
    <3>1. l + (n + 1) - 1 \in 0 .. 2 * QSIZE - 1
      BY <1>2, <1>5
    <3> QED
      BY <3>1
  <2>2. x % QSIZE = IF x < QSIZE THEN x ELSE x - QSIZE
    BY Around
  <2>3. x % QSIZE \in 0 .. QSIZE - 1
    BY <1>2, <2>2
  <2> QED
    BY <2>1, <2>3 DEF Descs
<1>7. Head(Given(r)) = d
  <2>1. 1 \in 1 .. Q - n
    BY <1>5
  <2>2. Given(r)[1] = (l + n + 1 - 1) % QSIZE
    BY <1>2, <1>3, <1>4, <2>1 DEF Given
  <2>3. l + n + 1 - 1 = l + (n + 1) - 1
    OBVIOUS
  <2> QED
    BY <1>6, <2>2, <2>3
<1>8. PICK x \in [id : Descs, pkt : Arrivals] : x = [id |-> d, pkt |-> pkt] /\ x.id = d
  <2>1. [id |-> d, pkt |-> pkt] \in [id : Descs, pkt : Arrivals]
    OBVIOUS
  <2>2. [id |-> d, pkt |-> pkt].id = d
    OBVIOUS
  <2> QED
    BY <2>1, <2>2
<1>9. /\ u.ring = r.ring /\ u.avail = r.avail /\ u.last = r.last
      /\ u.done = Append(r.done, x) /\ u.count = r.count + 1
      /\ u = [ring |-> u.ring, avail |-> u.avail, last |-> u.last, done |-> u.done, count |-> u.count]
  BY <1>1, <1>7, <1>8 DEF RxType
<1>10. /\ u.done \in Seq([id : Descs, pkt : Arrivals]) /\ Len(u.done) = n + 1
       /\ u.done[n + 1] = x /\ \A k \in 1 .. n : u.done[k] = r.done[k]
  BY <1>1, <1>3, <1>9, AppendProperties
<1>11. u \in RxType
  <2>1. u.count \in Nat
    BY <1>1, <1>9, SMTT(30)
  <2> QED
    BY <1>1, <1>9, <1>10, <2>1 DEF RxType
<1>12. ASSUME NEW k \in 1 .. n + 1
       PROVE  u.done[k].id = (l + k - 1) % QSIZE
  <2>1. CASE k = n + 1
    BY <1>6, <1>8, <1>10, <2>1
  <2>2. CASE k \in 1 .. n
    <3>1. r.done[k].id = (r.last + k - 1) % QSIZE
      BY <1>3, <2>2 DEF RxTrue, InTurn
    <3> QED
      BY <1>4, <1>10, <2>2, <3>1
  <2>3. k = n + 1 \/ k \in 1 .. n
    OBVIOUS
  <2> QED
    BY <2>1, <2>2, <2>3
<1>13. InTurn(u)
  <2>1. u.avail = u.last /\ u.last = l /\ Len(u.done) <= QSIZE
    BY <1>1, <1>2, <1>4, <1>5, <1>9, <1>10
  <2>2. \A k \in 1 .. Len(u.done) : u.done[k].id = (u.last + k - 1) % QSIZE
    BY <1>10, <1>12, <2>1
  <2> QED
    BY <2>1, <2>2 DEF InTurn
<1> QED
  BY <1>11, <1>13 DEF RxTrue

(***************************************************************************)
(* The invariant                                                           *)
(***************************************************************************)
\* Where the polling caller is.
CpuType == [at : {"out", "poll", "softirq", "unlink"}, proto : Protos \cup {NONE},
            entry : Arrivals \cup {NONE}, last : BOOLEAN, id : Pcbs \cup {NOID}]
CpuTrue ==
    /\ cpu \in CpuType
    /\ cpu.at = "out" => cpu.id = NOID
    /\ cpu.at \in {"softirq", "unlink"} => cpu.proto \in Protos
    /\ cpu.at = "unlink" => cpu.entry \in Packets(cpu.proto)

\* A closed socket has no port; what is stored for socket i keeps OwnDatagrams.
Socket == [open : BOOLEAN, port : PORTS \cup DYNAMIC \cup {0}, queue : Seq(PORTS)]
OwnSocket(i, s) ==
    /\ s.open \/ s.port = 0
    /\ \A k \in 1 .. Len(s.queue) : s.open /\ s.queue[k] = s.port
    /\ \A j \in Pcbs : j # i /\ udp[j].open /\ s.open /\ s.port # 0 => udp[j].port # s.port
UdpTrue ==
    /\ udp \in [Pcbs -> Socket]
    /\ \A i \in Pcbs : udp[i].open \/ udp[i].port = 0
    /\ OwnDatagrams

NetInv ==
    /\ RxTrue(rx) /\ TxTrue(tx) /\ ArpTrue(arp) /\ QueuesTrue(queue)
    /\ CpuTrue /\ UdpTrue /\ pending \in BOOLEAN /\ pages \in Nat /\ lost \in Nat

\* What arrives, for the handlers.
LEMMA ArrivalFacts ==
  ASSUME NEW a \in Arrivals
  PROVE  /\ a.src \in (NEAR \cup FAR) \ {ME}
         /\ a.proto = "ARP" => a.op \in {"request", "reply"} /\ (a.op = "request" => a.src \in NEAR)
         /\ a.proto = "IP" => a.op \in {"echo", "udp"} /\ (a.op = "udp" => a.port \in PORTS)
  BY NetAssumption DEF Arrivals

\* A port nobody has: udp_pcb_select finds no socket.
LEMMA SelectNone ==
  ASSUME NEW p, udp_pcb_select(p) = {}
  PROVE  \A i \in Pcbs : ~(udp[i].open /\ udp[i].port = p)
<1> SUFFICES ASSUME NEW i \in Pcbs, udp[i].open /\ udp[i].port = p PROVE FALSE
  OBVIOUS
<1>1. PICK n \in Nat : n = UDP_PCBS
  BY NetAssumption
<1>2. PICK s : s = {k \in 1 .. n : udp[k - 1].open /\ udp[k - 1].port = p}
  OBVIOUS
<1>3. i + 1 \in s
  <2>1. i \in 0 .. n - 1 /\ (i + 1) - 1 = i /\ i + 1 \in 1 .. n
    BY <1>1 DEF Pcbs
  <2> QED
    BY <1>2, <2>1
<1>4. Min(s) \in s /\ \A y \in s : Min(s) <= y
  <2>1. s \in SUBSET (1 .. n) /\ s # {}
    BY <1>2, <1>3
  <2> QED
    BY <2>1, MinIn
<1>5. PICK k \in 1 .. n : k = Min(s) /\ udp[k - 1].open /\ udp[k - 1].port = p
  BY <1>2, <1>4
<1>6. ASSUME NEW j \in Pcbs, j < k - 1, udp[j].open /\ udp[j].port = p
      PROVE  FALSE
  <2>1. j \in 0 .. n - 1 /\ (j + 1) - 1 = j /\ j + 1 \in 1 .. n /\ j + 1 < k
    BY <1>1, <1>6 DEF Pcbs
  <2>2. j + 1 \in s
    BY <1>2, <1>6, <2>1
  <2>3. k <= j + 1
    BY <1>4, <1>5, <2>2
  <2> QED
    BY <2>1, <2>3
<1>7. k - 1 \in Pcbs
  BY <1>1 DEF Pcbs
<1>8. k - 1 \in udp_pcb_select(p)
  BY <1>5, <1>6, <1>7 DEF udp_pcb_select
<1> QED
  BY <1>8
\* One socket changes.
LEMMA SocketSet ==
  ASSUME UdpTrue, NEW i \in Pcbs, NEW s \in Socket, OwnSocket(i, s), udp' = [udp EXCEPT ![i] = s]
  PROVE  UdpTrue'
<1>1. udp' \in [Pcbs -> Socket] /\ udp'[i] = s /\ \A j \in Pcbs : j # i => udp'[j] = udp[j]
  BY DEF UdpTrue
<1>2. \A j \in Pcbs : udp'[j].open \/ udp'[j].port = 0
  BY <1>1 DEF UdpTrue, OwnSocket
<1>3. \A j \in Pcbs : \A k \in 1 .. Len(udp'[j].queue) : udp'[j].open /\ udp'[j].queue[k] = udp'[j].port
  BY <1>1 DEF UdpTrue, OwnSocket, OwnDatagrams
<1>4. ASSUME NEW j \in Pcbs, NEW k \in Pcbs, j # k, udp'[j].open, udp'[k].open, udp'[j].port # 0
      PROVE  udp'[j].port # udp'[k].port
  <2>1. CASE j = i
    BY <1>1, <1>4, <2>1 DEF OwnSocket
  <2>2. CASE k = i
    <3>1. CASE s.port = 0
      BY <1>1, <1>4, <2>2, <3>1
    <3>2. CASE s.port # 0
      BY <1>1, <1>4, <2>2, <3>2 DEF OwnSocket
    <3> QED
      BY <3>1, <3>2
  <2>3. CASE j # i /\ k # i
    BY <1>1, <1>4, <2>3 DEF UdpTrue, OwnDatagrams
  <2> QED
    BY <2>1, <2>2, <2>3
<1>5. OwnDatagrams'
  BY <1>3, <1>4 DEF OwnDatagrams
<1> QED
  BY <1>1, <1>2, <1>5 DEF UdpTrue

\* A socket's record, and what it holds.
LEMMA SocketIs ==
  ASSUME UdpTrue, NEW i \in Pcbs
  PROVE  /\ udp[i] \in Socket /\ udp[i].queue \in Seq(PORTS)
         /\ udp = [j \in Pcbs |-> udp[j]]
         /\ udp[i] = [open |-> udp[i].open, port |-> udp[i].port, queue |-> udp[i].queue]
         /\ \A k \in 1 .. Len(udp[i].queue) : udp[i].queue[k] \in PORTS
         /\ OwnSocket(i, udp[i])
         /\ udp[i].port = 0 => udp[i].queue = <<>>
<1>1. udp[i] \in Socket /\ udp[i].queue \in Seq(PORTS) /\ udp = [j \in Pcbs |-> udp[j]]
  BY DEF UdpTrue, Socket
<1>2. udp[i] = [open |-> udp[i].open, port |-> udp[i].port, queue |-> udp[i].queue]
  BY <1>1 DEF Socket
<1>3. \A k \in 1 .. Len(udp[i].queue) : udp[i].queue[k] \in PORTS
  BY <1>1
<1>4. OwnSocket(i, udp[i])
  BY DEF UdpTrue, OwnDatagrams, OwnSocket
<1>5. ASSUME udp[i].port = 0
      PROVE  udp[i].queue = <<>>
  <2>1. \A k \in 1 .. Len(udp[i].queue) : udp[i].queue[k] = 0
    BY <1>4, <1>5 DEF OwnSocket
  <2>2. ~(1 \in 1 .. Len(udp[i].queue))
    BY <1>3, <2>1, NetAssumption
  <2> QED
    BY <1>1, <2>2
<1> QED
  BY <1>1, <1>2, <1>3, <1>4, <1>5
\* A socket with one field replaced.
LEMMA SocketWith ==
  ASSUME NEW r \in Socket, NEW x
  PROVE  /\ [r EXCEPT !.open = x] = [open |-> x, port |-> r.port, queue |-> r.queue]
         /\ [r EXCEPT !.port = x] = [open |-> r.open, port |-> x, queue |-> r.queue]
         /\ [r EXCEPT !.queue = x] = [open |-> r.open, port |-> r.port, queue |-> x]
  BY DEF Socket

\* The operations on a socket.
LEMMA OpenKeeps ==
  ASSUME UdpTrue, NEW i \in Pcbs, ~udp[i].open, udp' = [udp EXCEPT ![i].open = TRUE]
  PROVE  UdpTrue'
<1>1. PICK s : s = [open |-> TRUE, port |-> udp[i].port, queue |-> udp[i].queue]
  OBVIOUS
<1>2. s \in Socket /\ s.port = 0 /\ s.queue = <<>> /\ s.open
  <2>1. udp[i] \in Socket /\ udp[i].port = 0 /\ udp[i].queue = <<>>
    BY SocketIs DEF UdpTrue
  <2> QED
    BY <1>1, <2>1 DEF Socket
<1>3. OwnSocket(i, s)
  BY <1>2 DEF OwnSocket
<1>4. udp' = [udp EXCEPT ![i] = s]
  <2>1. udp[i] \in Socket
    BY SocketIs
  <2>2. [udp[i] EXCEPT !.open = TRUE] = s
    BY <1>1, <2>1, SocketWith
  <2> QED
    BY <2>2
<1> QED
  BY <1>2, <1>3, <1>4, SocketSet

LEMMA BindKeeps ==
  ASSUME UdpTrue, NEW i \in Pcbs, udp[i].open, udp[i].port = 0, NEW p \in PORTS \cup DYNAMIC, ~InUse(p),
         udp' = [udp EXCEPT ![i].port = p]
  PROVE  UdpTrue'
<1>1. PICK s : s = [open |-> TRUE, port |-> p, queue |-> udp[i].queue]
  OBVIOUS
<1>2. s \in Socket /\ s.port = p /\ s.queue = <<>> /\ s.open
  <2>1. udp[i] \in Socket /\ udp[i].queue = <<>>
    BY SocketIs
  <2> QED
    BY <1>1, <2>1 DEF Socket
<1>3. OwnSocket(i, s)
  <2>1. \A j \in Pcbs : ~(udp[j].open /\ udp[j].port = p)
    BY SelectNone DEF InUse
  <2> QED
    BY <1>2, <2>1 DEF OwnSocket
<1>4. udp' = [udp EXCEPT ![i] = s]
  <2>1. udp[i].open = TRUE
    <3>1. udp[i].open \in BOOLEAN
      BY SocketIs DEF Socket
    <3> QED
      BY <3>1
  <2>3. udp[i] \in Socket
    BY SocketIs
  <2>2. [udp[i] EXCEPT !.port = p] = s
    BY <1>1, <2>1, <2>3, SocketWith
  <2> QED
    BY <2>2
<1> QED
  BY <1>2, <1>3, <1>4, SocketSet

LEMMA TakeKeeps ==
  ASSUME UdpTrue, NEW i \in Pcbs, udp[i].queue # <<>>, udp' = [udp EXCEPT ![i].queue = Tail(@)]
  PROVE  UdpTrue'
<1>1. PICK s : s = [open |-> udp[i].open, port |-> udp[i].port, queue |-> Tail(udp[i].queue)]
  OBVIOUS
<1>2. /\ udp[i] \in Socket /\ udp[i].queue \in Seq(PORTS)
      /\ udp[i] = [open |-> udp[i].open, port |-> udp[i].port, queue |-> udp[i].queue]
      /\ OwnSocket(i, udp[i])
  BY SocketIs
<1>3. /\ Tail(udp[i].queue) \in Seq(PORTS) /\ Len(Tail(udp[i].queue)) = Len(udp[i].queue) - 1
      /\ \A k \in 1 .. Len(Tail(udp[i].queue)) : Tail(udp[i].queue)[k] = udp[i].queue[k + 1]
  BY <1>2, HeadTailProperties
<1>4. s \in Socket
  BY <1>1, <1>2, <1>3 DEF Socket
<1>5. OwnSocket(i, s)
  <2>1. ASSUME NEW k \in 1 .. Len(s.queue)
        PROVE  s.open /\ s.queue[k] = s.port
    <3>1. k + 1 \in 1 .. Len(udp[i].queue) /\ s.queue[k] = udp[i].queue[k + 1]
      BY <1>1, <1>2, <1>3
    <3> QED
      BY <1>1, <1>2, <3>1 DEF OwnSocket
  <2> QED
    BY <1>1, <1>2, <2>1 DEF OwnSocket
<1>6. udp' = [udp EXCEPT ![i] = s]
  <2>1. [udp[i] EXCEPT !.queue = Tail(@)] = s
    BY <1>1, <1>2, SocketWith
  <2> QED
    BY <2>1
<1> QED
  BY <1>4, <1>5, <1>6, SocketSet

LEMMA FillKeeps ==
  ASSUME UdpTrue, NEW p \in PORTS, NEW i \in udp_pcb_select(p),
         udp' = [udp EXCEPT ![i].queue = Append(@, p)]
  PROVE  UdpTrue' /\ i \in Pcbs
<1>1. i \in Pcbs /\ udp[i].open /\ udp[i].port = p
  BY DEF udp_pcb_select
<1>2. /\ udp[i] \in Socket /\ udp[i].queue \in Seq(PORTS)
      /\ udp[i] = [open |-> udp[i].open, port |-> udp[i].port, queue |-> udp[i].queue]
      /\ OwnSocket(i, udp[i])
  BY <1>1, SocketIs
<1>3. PICK s : s = [open |-> udp[i].open, port |-> udp[i].port, queue |-> Append(udp[i].queue, p)]
  OBVIOUS
<1>4. /\ Append(udp[i].queue, p) \in Seq(PORTS) /\ Len(Append(udp[i].queue, p)) = Len(udp[i].queue) + 1
      /\ Append(udp[i].queue, p)[Len(udp[i].queue) + 1] = p
      /\ \A k \in 1 .. Len(udp[i].queue) : Append(udp[i].queue, p)[k] = udp[i].queue[k]
  BY <1>2, AppendProperties
<1>5. s \in Socket
  BY <1>2, <1>3, <1>4 DEF Socket
<1>6. OwnSocket(i, s)
  <2>1. PICK n \in Nat : n = Len(udp[i].queue)
    BY <1>2
  <2>2. ASSUME NEW k \in 1 .. n + 1
        PROVE  s.queue[k] = p
    <3>1. CASE k = n + 1
      BY <1>3, <1>4, <2>1, <3>1
    <3>2. CASE k \in 1 .. n
      <4>1. s.queue[k] = udp[i].queue[k]
        BY <1>3, <1>4, <2>1, <3>2
      <4>2. udp[i].queue[k] = p
        BY <1>1, <1>2, <2>1, <3>2 DEF OwnSocket
      <4> QED
        BY <4>1, <4>2
    <3>3. k = n + 1 \/ k \in 1 .. n
      OBVIOUS
    <3> QED
      BY <3>1, <3>2, <3>3
  <2>3. Len(s.queue) = n + 1 /\ s.open /\ s.port = p
    BY <1>1, <1>3, <1>4, <2>1
  <2>4. \A j \in Pcbs : j # i /\ udp[j].open /\ p # 0 => udp[j].port # p
    BY <1>1, <1>2 DEF OwnSocket
  <2> QED
    BY <2>2, <2>3, <2>4 DEF OwnSocket
<1>7. udp' = [udp EXCEPT ![i] = s]
  <2>1. [udp[i] EXCEPT !.queue = Append(@, p)] = s
    BY <1>2, <1>3, SocketWith
  <2> QED
    BY <2>1
<1> QED
  BY <1>1, <1>5, <1>6, <1>7, SocketSet

LEMMA CloseKeeps ==
  ASSUME UdpTrue, NEW i \in Pcbs, udp' = [udp EXCEPT ![i] = Discarded(i)]
  PROVE  UdpTrue'
<1>1. Closed \in Socket /\ OwnSocket(i, Closed)
  BY DEF Closed, Socket, OwnSocket
<1> QED
  BY <1>1, SocketSet DEF Discarded
\* The interrupt: what it leaves, and that a packet it queued is announced.
InQueues == pages + lost + 2 * (Queued("ARP") + Queued("IP"))
LEMMA IntrKeeps ==
  ASSUME NetInv, virtio_net_intr
  PROVE  /\ NetInv' /\ InQueues' = InQueues
         /\ pending => pending'
         /\ pending' \/ queue' = queue
<1>1. PICK got : got = [k \in 1 .. Len(rx.done) |-> rx.done[k].pkt]
  OBVIOUS
<1>2. PICK start : start = [rx |-> rx, q |-> queue, pages |-> pages, lost |-> lost, raised |-> pending]
  OBVIOUS
<1>3. PICK v : v = FoldLeft(TakeOne, start, got)
  OBVIOUS
<1>4. /\ rx' = v.rx /\ queue' = v.q /\ pages' = v.pages /\ lost' = v.lost /\ pending' = v.raised
      /\ tx' = [tx EXCEPT !.done = <<>>, !.free = @ \cup ToSet(tx.done)]
      /\ UNCHANGED <<cpu, arp, udp>>
  BY <1>1, <1>2, <1>3 DEF virtio_net_intr
<1>5. LoopTrue(v, queue, pending, InQueues) /\ RxTrue(v.rx)
  <2>1. PICK n \in Nat : n = Len(rx.done)
    BY DEF NetInv, RxTrue, RxType
  <2>2. \A k \in 1 .. n : got[k] \in Arrivals
    <3>1. rx.done \in Seq([id : Descs, pkt : Arrivals])
      BY DEF NetInv, RxTrue, RxType
    <3>2. PICK s \in Seq([id : Descs, pkt : Arrivals]) : s = rx.done /\ n = Len(s)
      BY <2>1, <3>1
    <3>3. \A k \in 1 .. Len(s) : s[k] \in [id : Descs, pkt : Arrivals]
      BY ElementOfSeq
    <3>4. \A k \in 1 .. n : s[k].pkt \in Arrivals
      BY <3>2, <3>3
    <3> QED
      BY <1>1, <3>2, <3>4
  <2>3. DOMAIN got = 1 .. n
    BY <1>1, <2>1
  <2>4. start.rx = rx /\ start.q = queue /\ start.pages = pages /\ start.lost = lost /\ start.raised = pending
    BY <1>2
  <2>5. LoopTrue(start, queue, pending, InQueues)
    <3>1. start \in LoopType
      BY <1>2 DEF NetInv, LoopType, RxTrue, QueuesTrue
    <3>2. Kept(start) = InQueues
      BY <2>4 DEF Kept, InQueues, Queued
    <3> QED
      BY <2>4, <3>1, <3>2 DEF LoopTrue, Announced, NetInv
  <2>6. RxTrue(start.rx) /\ Len(start.rx.done) = n
    BY <2>1, <2>4 DEF NetInv
  <2>7. /\ LoopTrue(FoldLeft(TakeOne, start, got), queue, pending, InQueues)
        /\ RxTrue(FoldLeft(TakeOne, start, got).rx)
    BY <2>2, <2>3, <2>5, <2>6, LoopKeeps
  <2> QED
    BY <1>3, <2>7
<1>6. TxTrue(tx')
  BY <1>4, ReclaimTrue DEF NetInv
<1>7. /\ QueuesTrue(queue') /\ pages' \in Nat /\ lost' \in Nat /\ pending' \in BOOLEAN
      /\ (pending => pending') /\ (pending' \/ queue' = queue)
  BY <1>4, <1>5 DEF LoopTrue, LoopType, Announced
<1>8. Kept(v) = InQueues /\ Kept(v) = InQueues'
  BY <1>4, <1>5 DEF LoopTrue, Kept, InQueues, Queued
<1>9. CpuTrue' /\ UdpTrue'
  BY <1>4 DEF NetInv, CpuTrue, UdpTrue, OwnDatagrams
<1>10. NetInv'
  BY <1>4, <1>5, <1>6, <1>7, <1>9 DEF NetInv
<1> QED
  BY <1>7, <1>8, <1>10

\* queue_pop's two halves.
LEMMA PopKeeps ==
  ASSUME NetInv, queue_pop
  PROVE  NetInv' /\ Len(queue[cpu.proto].items) \in Nat \ {0}
         /\ queue'[cpu.proto].items = Tail(queue[cpu.proto].items)
         /\ \A p \in Protos : p # cpu.proto => queue'[p] = queue[p]
<1>1. PICK p \in Protos : p = cpu.proto
  BY DEF NetInv, CpuTrue, queue_pop
<1>2. PICK s \in Seq(Packets(p)) : s = queue[p].items /\ s # <<>>
  BY <1>1 DEF NetInv, QueuesTrue, queue_pop
<1>3. /\ cpu' = [cpu EXCEPT !.at = "unlink", !.entry = Head(s), !.last = Len(s) = 1]
      /\ queue' = [queue EXCEPT ![p].items = Tail(s)]
      /\ UNCHANGED <<rx, tx, pending, arp, udp, pages, lost>> /\ cpu.at = "softirq"
  BY <1>1, <1>2 DEF queue_pop
<1>4. /\ Head(s) \in Packets(p) /\ Tail(s) \in Seq(Packets(p)) /\ Len(s) \in Nat \ {0}
      /\ Tail(s) \in Seq(Arrivals) /\ Packets(p) \subseteq Arrivals
  <2>1. Packets(p) \subseteq Arrivals
    BY DEF Packets
  <2>2. Head(s) \in Packets(p) /\ Tail(s) \in Seq(Packets(p)) /\ Len(s) \in Nat \ {0}
    BY <1>2, HeadTailProperties, EmptySeq
  <2> QED
    BY <2>1, <2>2, SeqMonotonic
<1>5. queue \in [Protos -> Queues] /\ queue[p] \in Queues
  BY DEF NetInv, QueuesTrue
<1>6. PICK r \in Queues : r = [queue[p] EXCEPT !.items = Tail(s)] /\ r.items = Tail(s)
  <2>1. [queue[p] EXCEPT !.items = Tail(s)] \in Queues /\ [queue[p] EXCEPT !.items = Tail(s)].items = Tail(s)
    BY <1>4, <1>5 DEF Queues
  <2> QED
    BY <2>1
<1>7. queue' \in [Protos -> Queues] /\ queue'[p] = r /\ \A o \in Protos : o # p => queue'[o] = queue[o]
  <2>1. queue' = [queue EXCEPT ![p] = r]
    BY <1>3, <1>6
  <2> QED
    BY <1>5, <2>1
<1>8. QueuesTrue(queue')
  BY <1>4, <1>6, <1>7 DEF NetInv, QueuesTrue
<1>9. CpuTrue'
  <2>1. cpu \in CpuType
    BY DEF NetInv, CpuTrue
  <2>2. /\ cpu'.at = "unlink" /\ cpu'.proto = p /\ cpu'.entry = Head(s) /\ cpu'.id = cpu.id
        /\ cpu' \in CpuType
    BY <1>1, <1>3, <1>4, <2>1 DEF CpuType
  <2> QED
    BY <1>4, <2>2 DEF CpuTrue
<1>10. UdpTrue'
  BY <1>3 DEF NetInv, UdpTrue, OwnDatagrams
<1>11. NetInv'
  BY <1>3, <1>8, <1>9, <1>10 DEF NetInv
<1> QED
  BY <1>1, <1>2, <1>4, <1>6, <1>7, <1>11
\* What is left of a queue once an entry is unlinked: all of it, or nothing.
LEMMA UnlinkedTrue ==
  ASSUME NEW p \in Protos, NEW r \in Queues, r.items \in Seq(Packets(p)), NEW q \in Unlinked(r)
  PROVE  q \in Queues /\ q.items \in Seq(Packets(p)) /\ (q.items = r.items \/ q.items = <<>>)
<1>1. Empty \in Queues /\ Empty.items = <<>> /\ <<>> \in Seq(Packets(p))
  BY DEF Empty, Queues
<1>2. PICK s : s = [r EXCEPT !.tail = "cut"]
  OBVIOUS
<1>3. s \in Queues /\ s.items = r.items
  BY <1>2 DEF Queues
<1>4. q \in {Empty, s, r}
  BY <1>2 DEF Unlinked
<1> QED
  BY <1>1, <1>3, <1>4

\* The handlers keep what they share with the rest of the kernel.
HandlersTrue == ArpTrue(arp) /\ TxTrue(tx) /\ UdpTrue

LEMMA ArpInput ==
  ASSUME HandlersTrue, NEW e \in Packets("ARP"), NEW n, arp_input(e, n), UNCHANGED udp
  PROVE  HandlersTrue'
<1>1. e \in Arrivals /\ e.proto = "ARP"
  BY DEF Packets
<1>2. ArpTrue(arp')
  BY LearnTrue DEF arp_input, HandlersTrue
<1>3. TxTrue(tx')
  <2>1. CASE e.dst = ME /\ e.op = "request"
    <3>1. e.src \in NEAR
      BY <1>1, <2>1, ArrivalFacts
    <3>2. Frame(e.src, e.src) \in Frames
      BY <3>1 DEF Frame, Frames, RightFrame, Hop
    <3>3. tx' = virtio_net_write(tx, Frame(e.src, e.src), n)
      BY <2>1 DEF arp_input
    <3> QED
      BY <3>2, <3>3, WriteTrue DEF HandlersTrue
  <2>2. CASE ~(e.dst = ME /\ e.op = "request")
    BY <2>2 DEF arp_input, HandlersTrue
  <2> QED
    BY <2>1, <2>2
<1>4. UdpTrue'
  BY DEF HandlersTrue, UdpTrue, OwnDatagrams
<1> QED
  BY <1>2, <1>3, <1>4 DEF HandlersTrue

LEMMA IpInput ==
  ASSUME HandlersTrue, NEW e \in Packets("IP"), NEW n \in Nat, NEW gone \in Nat, ip_input(e, n, gone)
  PROVE  HandlersTrue' /\ pages' \in Nat /\ lost' \in Nat
<1>1. e \in Arrivals /\ e.proto = "IP"
  BY DEF Packets
<1>2. CASE e.op = "echo" /\ icmp_input(e, n) /\ lost' = gone
  <2>1. PICK r : /\ r = IF n = 0 THEN [arp |-> arp, tx |-> tx] ELSE ip_output(arp, tx, e.src, n - 1)
                 /\ arp' = r.arp /\ tx' = r.tx /\ pages' = n + 1 /\ UNCHANGED udp
    BY <1>2 DEF icmp_input
  <2>2. ArpTrue(r.arp) /\ TxTrue(r.tx)
    <3>1. e.src \in (NEAR \cup FAR) \ {ME}
      BY <1>1, ArrivalFacts
    <3>2. CASE n = 0
      BY <2>1, <3>2 DEF HandlersTrue
    <3>3. CASE n # 0
      BY <2>1, <3>1, <3>3, OutputTrue DEF HandlersTrue
    <3> QED
      BY <3>2, <3>3
  <2>3. UdpTrue'
    BY <2>1 DEF HandlersTrue, UdpTrue, OwnDatagrams
  <2> QED
    BY <1>2, <2>1, <2>2, <2>3 DEF HandlersTrue
<1>3. CASE e.op = "udp" /\ udp_input(e, n, gone)
  <2>1. e.port \in PORTS
    BY <1>1, <1>3, ArrivalFacts
  <2>2. UNCHANGED <<arp, tx>>
    BY <1>3 DEF udp_input
  <2>3. pages' \in Nat /\ lost' \in Nat
    BY <1>3 DEF udp_input
  <2>4. UdpTrue'
    <3>1. CASE UNCHANGED udp
      BY <3>1 DEF HandlersTrue, UdpTrue, OwnDatagrams
    <3>2. CASE \E i \in udp_pcb_select(e.port) : udp' = [udp EXCEPT ![i].queue = Append(@, e.port)]
      BY <2>1, <3>2, FillKeeps DEF HandlersTrue
    <3> QED
      BY <1>3, <3>1, <3>2 DEF udp_input
  <2> QED
    BY <2>2, <2>3, <2>4 DEF HandlersTrue
<1> QED
  BY <1>2, <1>3 DEF ip_input
LEMMA PoppedKeeps ==
  ASSUME NetInv, queue_popped
  PROVE  NetInv' /\ cpu.proto \in Protos
         /\ \E q \in Unlinked(queue[cpu.proto]) :
               /\ q.items = queue[cpu.proto].items \/ q.items = <<>>
               /\ queue'[cpu.proto] = q
               /\ \A p \in Protos : p # cpu.proto => queue'[p] = queue[p]
<1>1. PICK p \in Protos : p = cpu.proto
  BY DEF NetInv, CpuTrue, queue_popped
<1>2. PICK e \in Packets(p) : e = cpu.entry
  BY <1>1 DEF NetInv, CpuTrue, queue_popped
<1>3. /\ queue \in [Protos -> Queues] /\ queue[p] \in Queues /\ queue[p].items \in Seq(Packets(p))
  BY DEF NetInv, QueuesTrue
<1>0. PICK q \in Unlinked(queue[p]) : \E n, gone :
         /\ n = pages + 1 /\ gone = lost + 2 * (Len(queue[p].items) - Len(q.items))
         /\ queue' = [queue EXCEPT ![p] = q]
         /\ \/ p = "ARP" /\ arp_input(e, n) /\ pages' = n + 1 /\ lost' = gone /\ UNCHANGED udp
            \/ p = "IP" /\ ip_input(e, n, gone)
         /\ cpu' = [cpu EXCEPT !.at = "softirq", !.entry = NONE, !.last = FALSE]
         /\ UNCHANGED <<rx, pending>>
  BY <1>1, <1>2 DEF queue_popped
<1>4. PICK n, gone :
         /\ n = pages + 1 /\ gone = lost + 2 * (Len(queue[p].items) - Len(q.items))
         /\ queue' = [queue EXCEPT ![p] = q]
         /\ \/ p = "ARP" /\ arp_input(e, n) /\ pages' = n + 1 /\ lost' = gone /\ UNCHANGED udp
            \/ p = "IP" /\ ip_input(e, n, gone)
         /\ cpu' = [cpu EXCEPT !.at = "softirq", !.entry = NONE, !.last = FALSE]
         /\ UNCHANGED <<rx, pending>>
  BY <1>0
<1>5. q \in Queues /\ q.items \in Seq(Packets(p)) /\ (q.items = queue[p].items \/ q.items = <<>>)
  BY <1>3, <1>4, UnlinkedTrue
<1>6. n \in Nat /\ gone \in Nat
  <2>1. Len(queue[p].items) \in Nat /\ Len(q.items) \in Nat /\ Len(q.items) <= Len(queue[p].items)
    BY <1>3, <1>5
  <2>2. PICK l \in Nat, m \in Nat : l = Len(queue[p].items) /\ m = Len(q.items) /\ m <= l
    BY <2>1
  <2>3. PICK x \in Nat, y \in Nat : x = pages /\ y = lost
    BY DEF NetInv
  <2>4. n = x + 1 /\ gone = y + 2 * (l - m)
    BY <1>4, <2>2, <2>3
  <2>5. l - m \in Nat
    BY <2>2
  <2> QED
    BY <2>4, <2>5
<1>7. queue'[p] = q /\ queue' \in [Protos -> Queues] /\ \A o \in Protos : o # p => queue'[o] = queue[o]
  BY <1>3, <1>4, <1>5
<1>8. QueuesTrue(queue')
  BY <1>5, <1>7 DEF NetInv, QueuesTrue
<1>9. HandlersTrue' /\ pages' \in Nat /\ lost' \in Nat
  <2>1. HandlersTrue
    BY DEF NetInv, HandlersTrue
  <2>2. CASE p = "ARP" /\ arp_input(e, n) /\ pages' = n + 1 /\ lost' = gone /\ UNCHANGED udp
    <3>1. HandlersTrue'
      BY <2>1, <2>2, ArpInput
    <3> QED
      BY <1>6, <2>2, <3>1
  <2>3. CASE p = "IP" /\ ip_input(e, n, gone)
    BY <1>6, <2>1, <2>3, IpInput
  <2> QED
    BY <1>4, <2>2, <2>3
<1>10. CpuTrue'
  <2>1. cpu \in CpuType
    BY DEF NetInv, CpuTrue
  <2>2. cpu'.at = "softirq" /\ cpu'.proto = p /\ cpu' \in CpuType
    BY <1>1, <1>4, <2>1 DEF CpuType
  <2> QED
    BY <2>2 DEF CpuTrue
<1>11. NetInv'
  BY <1>4, <1>8, <1>9, <1>10 DEF NetInv, HandlersTrue
<1> QED
  BY <1>1, <1>4, <1>5, <1>7, <1>11
\* The other steps.
LEMMA DeviceKeeps ==
  ASSUME NetInv, NEW pkt \in Arrivals, device_receive(pkt)
  PROVE  NetInv'
<1>1. Given(rx) # <<>> /\ UNCHANGED <<tx, queue, pending, cpu, arp, udp, pages, lost>>
  BY DEF device_receive
<1>2. rx' = [rx EXCEPT !.count = @ + 1,
                       !.done = Append(@, [id |-> rx.ring[Head(Given(rx))], pkt |-> pkt])]
  BY DEF device_receive
<1>3. RxTrue(rx)
  BY DEF NetInv
<1>4. RxTrue(rx')
  BY <1>1, <1>2, <1>3, ReceiveTrue
<1> QED
  BY <1>1, <1>4 DEF NetInv, CpuTrue, UdpTrue, OwnDatagrams

LEMMA SocketsKeep ==
  ASSUME NetInv, NEW i \in Pcbs, Sockets(i)
  PROVE  NetInv'
<1>0. UdpTrue /\ CpuTrue /\ cpu \in CpuType
  BY DEF NetInv, CpuTrue
<1>1. ASSUME NEW p \in PORTS, udp_bind(i, p)
      PROVE  NetInv'
  <2>1. UdpTrue'
    BY <1>0, <1>1, BindKeeps DEF udp_bind
  <2> QED
    BY <1>1, <2>1 DEF udp_bind, NetInv, CpuTrue
<1>2. ASSUME NEW dst \in (NEAR \ {GW}) \cup FAR, udp_sendto(i, dst)
      PROVE  NetInv'
  <2>1. ArpTrue(udp_output(dst).arp) /\ TxTrue(udp_output(dst).tx)
    <3>1. dst \in (NEAR \cup FAR) \ {ME}
      BY NetAssumption
    <3>2. CASE pages = 0
      BY <3>2 DEF udp_output, NetInv
    <3>3. CASE pages # 0
      BY <3>1, <3>3, OutputTrue DEF udp_output, NetInv
    <3> QED
      BY <3>2, <3>3
  <2>2. UdpTrue'
    <3>1. PICK p \in SourcePort(i) : udp' = [udp EXCEPT ![i].port = p]
      BY <1>2 DEF udp_sendto
    <3>2. CASE udp[i].port # 0
      <4>1. p = udp[i].port
        BY <3>2 DEF SourcePort
      <4>2. [udp[i] EXCEPT !.port = p] = udp[i]
        <5>1. udp[i] \in Socket
          BY <1>0, SocketIs
        <5> QED
          BY <4>1, <5>1 DEF Socket
      <4>3. udp' = [udp EXCEPT ![i] = udp[i]]
        BY <3>1, <4>2
      <4>4. udp[i] \in Socket /\ OwnSocket(i, udp[i])
        BY <1>0, SocketIs
      <4> QED
        BY <1>0, <4>3, <4>4, SocketSet
    <3>3. CASE udp[i].port = 0
      <4>1. p \in PORTS \cup DYNAMIC /\ ~InUse(p) /\ udp[i].open
        BY <1>2, <3>3 DEF SourcePort, udp_sendto
      <4> QED
        BY <1>0, <3>1, <3>3, <4>1, BindKeeps
    <3> QED
      BY <3>2, <3>3
  <2> QED
    BY <1>2, <2>1, <2>2 DEF udp_sendto, NetInv, CpuTrue
<1>3. ASSUME udp_recvfrom(i)
      PROVE  NetInv'
  <2>1. CASE udp[i].queue = <<>> /\ cpu' = [Out EXCEPT !.at = "poll", !.id = i] /\ UNCHANGED <<udp, pages>>
    <3>1. CpuTrue'
      BY <2>1 DEF CpuTrue, CpuType, Out
    <3> QED
      BY <1>3, <2>1, <3>1 DEF udp_recvfrom, NetInv, UdpTrue, OwnDatagrams
  <2>2. CASE udp[i].queue # <<>> /\ udp' = [udp EXCEPT ![i].queue = Tail(@)] /\ pages' = pages + 2 /\ UNCHANGED cpu
    <3>1. UdpTrue'
      BY <1>0, <2>2, TakeKeeps
    <3> QED
      BY <1>3, <2>2, <3>1 DEF udp_recvfrom, NetInv, CpuTrue
  <2> QED
    BY <1>3, <2>1, <2>2 DEF udp_recvfrom
<1>4. ASSUME udp_close(i)
      PROVE  NetInv'
  <2>1. UdpTrue'
    BY <1>0, <1>4, CloseKeeps DEF udp_close
  <2>2. pages' \in Nat
    <3>1. Len(udp[i].queue) \in Nat
      BY <1>0, SocketIs
    <3> QED
      BY <1>4, <3>1 DEF udp_close, NetInv
  <2> QED
    BY <1>4, <2>1, <2>2 DEF udp_close, NetInv, CpuTrue
<1> QED
  BY <1>1, <1>2, <1>3, <1>4 DEF Sockets
\* The invariant holds at first and is kept by every step.
LEMMA NetInit == Init => NetInv
<1> SUFFICES ASSUME Init PROVE NetInv
  OBVIOUS
<1>1. RxTrue(rx)
  <2>1. 0 \in Descs
    BY NetAssumption DEF Descs
  <2>2. rx = RxOpen /\ RxOpen.done = <<>> /\ RxOpen.avail = 0 /\ RxOpen.last = 0
    BY DEF Init, RxOpen
  <2>3. RxOpen \in RxType
    BY <2>1 DEF RxType, RxOpen
  <2>4. InTurn(RxOpen)
    BY <2>2, NetAssumption DEF InTurn
  <2> QED
    BY <2>2, <2>3, <2>4 DEF RxTrue
<1>2. TxTrue(tx)
  <2>1. tx = TxOpen /\ TxOpen \in TxType /\ TxOpen.done = <<>> /\ TxOpen.wait = <<>>
    BY DEF Init, TxOpen, TxType
  <2>2. Ids(<<>>) = <<>>
    BY DEF Ids
  <2>3. SendIds(TxOpen) = <<>>
    <3>1. <<>> \in Seq(Descs)
      OBVIOUS
    <3>2. <<>> \o <<>> = <<>>
      BY <3>1, ConcatEmptySeq
    <3> QED
      BY <2>1, <2>2, <3>2 DEF SendIds
  <2>4. Apart(<<>>, TxOpen.free)
    BY DEF Apart, IsInjective, ToSet
  <2> QED
    BY <2>1, <2>3, <2>4 DEF TxTrue
<1>3. ArpTrue(arp)
  <2>1. /\ arp = [cache |-> arp.cache, order |-> arp.order] /\ arp.order = <<>>
        /\ arp.cache = [k \in Slots |-> arp.cache[k]]
        /\ \A k \in Slots : arp.cache[k] = NoEntry
    BY DEF Init
  <2>2. CacheTrue(arp)
    BY <2>1 DEF CacheTrue, NoEntry
  <2>3. ToSet(<<>>) = {k \in Slots : arp.cache[k].state # "FREE"}
    BY <2>1 DEF ToSet, NoEntry
  <2>4. <<>> \in Seq(Slots) /\ IsInjective(<<>>)
    BY DEF IsInjective
  <2> QED
    BY <2>1, <2>2, <2>3, <2>4 DEF ArpTrue, OrderTrue
<1>4. QueuesTrue(queue)
  <2>1. Empty \in Queues /\ Empty.items = <<>>
    BY DEF Queues, Empty
  <2>2. queue \in [Protos -> Queues] /\ \A p \in Protos : queue[p] = Empty
    BY <2>1 DEF Init, Protos
  <2>3. \A p \in Protos : <<>> \in Seq(Packets(p))
    OBVIOUS
  <2> QED
    BY <2>1, <2>2, <2>3 DEF QueuesTrue
<1>5. CpuTrue
  BY DEF Init, Out, CpuTrue, CpuType
<1>6. UdpTrue
  <2>1. \A i \in Pcbs : udp[i] = Closed
    BY DEF Init
  <2>2. udp \in [Pcbs -> Socket]
    BY DEF Init, Closed, Socket
  <2>3. OwnDatagrams
    BY <2>1 DEF OwnDatagrams, Closed
  <2> QED
    BY <2>1, <2>2, <2>3 DEF UdpTrue, Closed
<1>7. pending \in BOOLEAN /\ pages \in Nat /\ lost \in Nat
  BY NetAssumption DEF Init
<1> QED
  BY <1>1, <1>2, <1>3, <1>4, <1>5, <1>6, <1>7 DEF NetInv

LEMMA NetStep ==
  ASSUME NetInv, [Next]_netVars
  PROVE  NetInv'
<1>0. /\ CpuTrue /\ cpu \in CpuType /\ UdpTrue /\ ArpTrue(arp) /\ TxTrue(tx)
  BY DEF NetInv, CpuTrue
<1>1. CASE \E pkt \in Arrivals : device_receive(pkt)
  BY <1>1, DeviceKeeps
<1>2. CASE device_send
  <2>1. TxTrue(tx')
    BY <1>0, <1>2, SendTrue DEF device_send
  <2> QED
    BY <1>2, <2>1 DEF device_send, NetInv, CpuTrue, UdpTrue, OwnDatagrams
<1>3. CASE virtio_net_intr
  BY <1>3, IntrKeeps
<1>4. CASE net_softirq_handler
  <2>1. CpuTrue'
    BY <1>0, <1>4 DEF net_softirq_handler, CpuTrue, CpuType, Protos
  <2> QED
    BY <1>4, <2>1 DEF net_softirq_handler, NetInv, UdpTrue, OwnDatagrams
<1>5. CASE queue_drained
  <2>1. CpuTrue'
    BY <1>0, <1>5 DEF queue_drained, CpuTrue, CpuType, Protos
  <2> QED
    BY <1>5, <2>1 DEF queue_drained, NetInv, UdpTrue, OwnDatagrams
<1>6. CASE queue_pop
  BY <1>6, PopKeeps
<1>7. CASE queue_popped
  BY <1>7, PoppedKeeps
<1>8. CASE arp_timer_handler
  <2>1. ArpTrue(arp')
    BY <1>0, <1>8, ExpireTrue DEF arp_timer_handler
  <2> QED
    BY <1>8, <2>1 DEF arp_timer_handler, NetInv, CpuTrue, UdpTrue, OwnDatagrams
<1>9. CASE http_polls
  <2>1. CpuTrue'
    BY <1>9 DEF http_polls, Out, CpuTrue, CpuType
  <2>2. pages' \in Nat
    BY <1>9 DEF http_polls, NetInv
  <2> QED
    BY <1>9, <2>1, <2>2 DEF http_polls, NetInv, UdpTrue, OwnDatagrams
<1>10. CASE http_returns
  <2>1. CpuTrue'
    BY <1>10 DEF http_returns, Out, CpuTrue, CpuType
  <2>2. pages' \in Nat
    BY <1>10 DEF http_returns, NetInv
  <2> QED
    BY <1>10, <2>1, <2>2 DEF http_returns, NetInv, UdpTrue, OwnDatagrams
<1>11. CASE udp_open
  <2>1. UdpTrue'
    BY <1>0, <1>11, OpenKeeps DEF udp_open
  <2> QED
    BY <1>11, <2>1 DEF udp_open, NetInv, CpuTrue
<1>12. CASE recvfrom_resume
  <2>1. cpu.id \in Pcbs
    BY <1>0, <1>12 DEF recvfrom_resume, CpuType
  <2>2. UdpTrue'
    BY <1>0, <1>12, <2>1, TakeKeeps DEF recvfrom_resume
  <2>3. CpuTrue'
    BY <1>12 DEF recvfrom_resume, Out, CpuTrue, CpuType
  <2>4. pages' \in Nat
    BY <1>12 DEF recvfrom_resume, NetInv
  <2> QED
    BY <1>12, <2>2, <2>3, <2>4 DEF recvfrom_resume, NetInv
<1>13. CASE \E i \in Pcbs : Sockets(i)
  BY <1>13, SocketsKeep
<1>14. CASE UNCHANGED netVars
  BY <1>14 DEF netVars, NetInv, CpuTrue, UdpTrue, OwnDatagrams
<1> QED
  BY <1>1, <1>2, <1>3, <1>4, <1>5, <1>6, <1>7, <1>8, <1>9, <1>10, <1>11, <1>12, <1>13, <1>14 DEF Next
THEOREM NetTheorem == Spec => []NetInv
<1>1. Init => NetInv
  BY NetInit
<1>2. NetInv /\ [Next]_netVars => NetInv'
  BY NetStep
<1> QED
  BY <1>1, <1>2, PTL DEF Spec

\* RightHop: an address has one cache entry, and a frame goes to its destination
\* on the network and to the gateway otherwise (ip_output, arp_resolve, arp_cache_alloc).
THEOREM HopTheorem == Spec => []RightHop
<1>1. NetInv => RightHop
  <2> SUFFICES ASSUME NetInv PROVE RightHop
    OBVIOUS
  <2>1. OneCacheEntry
    BY DEF NetInv, ArpTrue, CacheTrue, OneCacheEntry
  <2>2. ASSUME NEW k \in DOMAIN tx.wait
        PROVE  RightFrame(tx.wait[k].frame)
    <3>1. PICK s \in Seq(Handed) : s = tx.wait
      BY DEF NetInv, TxTrue, TxType
    <3>2. k \in 1 .. Len(s)
      BY <3>1
    <3>3. s[k] \in Handed
      BY <3>2, ElementOfSeq
    <3>4. s[k].frame \in Frames
      BY <3>3 DEF Handed
    <3> QED
      BY <3>1, <3>4 DEF Frames
  <2> QED
    BY <2>1, <2>2 DEF RightHop, RightFrame, Hop
<1> QED
  BY <1>1, NetTheorem, PTL

\* OwnDatagrams: a socket holds only datagrams for its own port, which no other
\* open socket has (udp_input, udp_pcb_select, udp_pcb_release).
THEOREM DatagramsTheorem == Spec => []OwnDatagrams
<1>1. NetInv => OwnDatagrams
  BY DEF NetInv, UdpTrue
<1> QED
  BY <1>1, NetTheorem, PTL

(***************************************************************************)
(* Packets and pages                                                       *)
(***************************************************************************)
\* No packet is forgotten: the bit is set or the handler will come to the queue.
LEMMA NoLostStep ==
  ASSUME NetInv, NoLostPacket, [Next]_netVars
  PROVE  NoLostPacket'
<1>0. CpuTrue /\ cpu \in CpuType
  BY DEF NetInv, CpuTrue
<1>1. CASE virtio_net_intr
  <2>1. (pending => pending') /\ (pending' \/ queue' = queue) /\ UNCHANGED cpu
    BY <1>1, IntrKeeps DEF virtio_net_intr
  <2> QED
    BY <2>1 DEF NoLostPacket
<1>2. CASE net_softirq_handler
  BY <1>2 DEF net_softirq_handler, NoLostPacket, CpuType, CpuTrue, NetInv
<1>3. CASE queue_drained
  BY <1>0, <1>3 DEF queue_drained, NoLostPacket, CpuType, CpuTrue, Protos
<1>4. CASE queue_pop
  <2>1. /\ cpu'.at = "unlink" /\ cpu'.proto = cpu.proto /\ cpu.at = "softirq"
        /\ cpu.proto \in Protos /\ UNCHANGED pending /\ queue[cpu.proto].items # <<>>
    BY <1>0, <1>4 DEF queue_pop, CpuTrue, CpuType
  <2>2. \A p \in Protos : p # cpu.proto => queue'[p] = queue[p]
    BY <1>4, PopKeeps
  <2> QED
    BY <2>1, <2>2 DEF NoLostPacket, Protos
<1>5. CASE queue_popped
  <2>1. /\ cpu'.at = "softirq" /\ cpu'.proto = cpu.proto /\ cpu.at = "unlink" /\ UNCHANGED pending
    BY <1>0, <1>5 DEF queue_popped, CpuType
  <2>2. /\ cpu.proto \in Protos
        /\ queue'[cpu.proto].items = queue[cpu.proto].items \/ queue'[cpu.proto].items = <<>>
        /\ \A p \in Protos : p # cpu.proto => queue'[p] = queue[p]
    BY <1>5, PoppedKeeps
  <2> QED
    BY <2>1, <2>2 DEF NoLostPacket, Protos
<1>6. CASE UNCHANGED <<queue, pending, cpu>>
  BY <1>6 DEF NoLostPacket
<1>7. CASE UNCHANGED <<queue, pending>> /\ cpu.at \notin {"softirq", "unlink"}
  BY <1>7 DEF NoLostPacket
<1> QED
  BY <1>1, <1>2, <1>3, <1>4, <1>5, <1>6, <1>7 DEF Next, netVars, device_receive, device_send,
     arp_timer_handler, http_polls, http_returns, udp_open, recvfrom_resume,
     Sockets, udp_bind, udp_sendto, udp_recvfrom, udp_close, Idle
\* The datagrams in the sockets' queues, as a sum.
UdpSum ==
    UdpTrue => \A g : IsSum(g, [i \in Pcbs |-> Len(udp[i].queue)], Pcbs) => UdpQueued[UDP_PCBS] = g[Pcbs]

LEMMA PcbsFinite == IsFiniteSet(Pcbs)
<1>1. IsFiniteSet(0 .. UDP_PCBS - 1)
  BY NetAssumption, FS_Interval
<1> QED
  BY <1>1 DEF Pcbs

LEMMA UdpSumIs == UdpSum
<1> SUFFICES ASSUME UdpTrue, NEW g, IsSum(g, [i \in Pcbs |-> Len(udp[i].queue)], Pcbs)
             PROVE  UdpQueued[UDP_PCBS] = g[Pcbs]
  BY DEF UdpSum
<1>1. PICK n \in Nat : n = UDP_PCBS /\ Pcbs = 0 .. n - 1
  BY NetAssumption DEF Pcbs
<1>2. PICK h : h = [i \in Pcbs |-> Len(udp[i].queue)]
  OBVIOUS
<1>3. IntOn(h, Pcbs) /\ \A i \in Pcbs : h[i] = Len(udp[i].queue)
  <2>1. \A i \in Pcbs : Len(udp[i].queue) \in Nat
    BY SocketIs
  <2> QED
    BY <1>2, <2>1 DEF IntOn
<1>4. SumTakes(g, h, Pcbs) /\ SumSteps(g, h, Pcbs)
  <2>1. IsSum(g, h, Pcbs)
    BY <1>2
  <2> QED
    BY <1>3, <2>1, PcbsFinite, SumTake, SumAt
<1>5. PICK f : f = [i \in 0 .. n |-> g[0 .. i - 1]]
  OBVIOUS
<1>6. f[0] = 0
  <2>1. 0 .. 0 - 1 = {} /\ 0 \in 0 .. n
    OBVIOUS
  <2> QED
    BY <1>4, <1>5, <2>1 DEF SumSteps
<1>7. ASSUME NEW i \in 1 .. n
      PROVE  f[i] = Len(udp[i - 1].queue) + f[i - 1]
  <2>1. /\ i - 1 \in 0 .. i - 1 /\ 0 .. i - 1 \in SUBSET Pcbs /\ i - 1 \in Pcbs
        /\ (0 .. i - 1) \ {i - 1} = 0 .. (i - 1) - 1
        /\ i \in 0 .. n /\ i - 1 \in 0 .. n
    BY <1>1
  <2>2. g[0 .. i - 1] = h[i - 1] + g[(0 .. i - 1) \ {i - 1}]
    BY <1>4, <2>1 DEF SumTakes
  <2> QED
    BY <1>3, <1>5, <2>1, <2>2
<1>8. f = [i \in 0 .. UDP_PCBS |-> IF i = 0 THEN 0 ELSE Len(udp[i - 1].queue) + f[i - 1]]
  <2>1. f = [i \in 0 .. n |-> f[i]]
    BY <1>5
  <2>2. \A i \in 0 .. n : f[i] = IF i = 0 THEN 0 ELSE Len(udp[i - 1].queue) + f[i - 1]
    <3> TAKE i \in 0 .. n
    <3>1. i = 0 \/ i \in 1 .. n
      OBVIOUS
    <3> QED
      BY <1>6, <1>7, <3>1
  <2> QED
    BY <1>1, <2>1, <2>2
<1>9. UdpQueued = [i \in 0 .. UDP_PCBS |-> IF i = 0 THEN 0 ELSE Len(udp[i - 1].queue) + UdpQueued[i - 1]]
  BY <1>8, Zenon DEF UdpQueued
<1>10. PICK u : u = UdpQueued
  OBVIOUS
<1>11. u[0] = 0 /\ \A i \in 1 .. n : u[i] = Len(udp[i - 1].queue) + u[i - 1]
  BY <1>1, <1>9, <1>10
<1>12. u[n] = f[n]
  <2> DEFINE D == {k \in Nat : k <= n => u[k] = f[k]}
  <2>1. 0 \in D
    BY <1>6, <1>11
  <2>2. ASSUME NEW k \in D
        PROVE  k + 1 \in D
    <3>1. SUFFICES ASSUME k + 1 <= n PROVE u[k + 1] = f[k + 1]
      OBVIOUS
    <3>2. u[k] = f[k] /\ k + 1 \in 1 .. n /\ (k + 1) - 1 = k
      BY <3>1
    <3> QED
      BY <1>7, <1>11, <3>2
  <2>3. D \in SUBSET Nat
    OBVIOUS
  <2> HIDE DEF D
  <2>4. n \in D
    BY <2>1, <2>2, <2>3, NatSet
  <2> QED
    BY <2>4 DEF D
<1>13. f[n] = g[Pcbs]
  BY <1>1, <1>5
<1> QED
  BY <1>1, <1>10, <1>12, <1>13
LEMMA UdpSumNext == UdpSum'
  BY UdpSumIs, PTL

\* The sum is a natural, and moves with the one queue that changes.
UdpCount == UdpQueued[UDP_PCBS]
LEMMA UdpCountNat ==
  ASSUME UdpTrue
  PROVE  UdpCount \in Nat /\ ((\A i \in Pcbs : udp[i].queue = <<>>) => UdpCount = 0)
<1>1. PICK h : h = [i \in Pcbs |-> Len(udp[i].queue)]
  OBVIOUS
<1>2. \A i \in Pcbs : h[i] \in Nat
  BY <1>1, SocketIs
<1>3. IntOn(h, Pcbs)
  BY <1>2 DEF IntOn
<1>4. PICK g : IsSum(g, h, Pcbs)
  BY <1>3, PcbsFinite, SumExists
<1>5. UdpCount = g[Pcbs]
  BY <1>1, <1>4, UdpSumIs DEF UdpSum, UdpCount
<1>6. g[Pcbs] \in Nat
  <2>1. \A r \in SUBSET Pcbs : g[r] \in Nat /\ \A s \in SUBSET r : g[s] <= g[r]
    BY <1>2, <1>4, PcbsFinite, SumMono
  <2> QED
    BY <2>1
<1>7. ASSUME \A i \in Pcbs : udp[i].queue = <<>>
      PROVE  g[Pcbs] = 0
  <2>1. \A i \in Pcbs : h[i] = 0
    BY <1>1, <1>7
  <2> QED
    BY <1>4, <2>1, PcbsFinite, SumZero
<1> QED
  BY <1>5, <1>6, <1>7

LEMMA UdpCountMoves ==
  ASSUME UdpTrue, UdpTrue', NEW i \in Pcbs, \A j \in Pcbs : j # i => udp'[j].queue = udp[j].queue
  PROVE  UdpCount' = UdpCount + (Len(udp'[i].queue) - Len(udp[i].queue))
<1>1. PICK h, k : h = [j \in Pcbs |-> Len(udp[j].queue)] /\ k = [j \in Pcbs |-> Len(udp'[j].queue)]
  OBVIOUS
<1>2. IntOn(h, Pcbs) /\ IntOn(k, Pcbs)
  <2>1. \A j \in Pcbs : udp[j].queue \in Seq(PORTS) /\ udp'[j].queue \in Seq(PORTS)
    BY DEF UdpTrue, Socket
  <2>2. \A j \in Pcbs : Len(udp[j].queue) \in Nat /\ Len(udp'[j].queue) \in Nat
    BY <2>1
  <2> QED
    BY <1>1, <2>2 DEF IntOn
<1>3. OnlyAt(h, k, i, Pcbs)
  BY <1>1 DEF OnlyAt
<1>4. PICK g, f : IsSum(g, h, Pcbs) /\ IsSum(f, k, Pcbs)
  <2>1. \E g : IsSum(g, h, Pcbs)
    BY <1>2, PcbsFinite, SumExists
  <2>2. \E f : IsSum(f, k, Pcbs)
    BY <1>2, PcbsFinite, SumExists
  <2> QED
    BY <2>1, <2>2
<1>5. SumMoves(g, h, f, k, i, Pcbs)
  BY <1>2, <1>3, <1>4, PcbsFinite, SumUpdate, Zenon
<1>6. UdpCount = g[Pcbs]
  BY <1>1, <1>4, UdpSumIs DEF UdpSum, UdpCount
<1>7. UdpCount' = f[Pcbs]
  BY <1>1, <1>4, UdpSumNext DEF UdpSum, UdpCount
<1> QED
  BY <1>1, <1>5, <1>6, <1>7 DEF SumMoves

LEMMA UdpCountSame ==
  ASSUME UdpTrue, UdpTrue', \A j \in Pcbs : udp'[j].queue = udp[j].queue
  PROVE  UdpCount' = UdpCount
<1>1. 0 \in Pcbs
  BY NetAssumption DEF Pcbs
<1>2. UdpCount' = UdpCount + (Len(udp'[0].queue) - Len(udp[0].queue))
  BY <1>1, UdpCountMoves
<1>3. Len(udp[0].queue) \in Nat /\ UdpCount \in Nat
  <2>1. udp[0].queue \in Seq(PORTS)
    BY <1>1, SocketIs
  <2> QED
    BY <2>1, UdpCountNat
<1>4. PICK a \in Nat, b \in Nat : a = Len(udp[0].queue) /\ b = UdpCount
  BY <1>3
<1>5. Len(udp'[0].queue) = a
  BY <1>1, <1>4
<1>6. UdpCount' = b + (a - a)
  BY <1>2, <1>4, <1>5
<1> QED
  BY <1>4, <1>6
\* The account: every page is free, held, lost or in a packet.
InHand == IF cpu.at = "unlink" THEN 2 ELSE 0
Account == InQueues + Held + InHand + 2 * UdpCount
Numbers == pages \in Nat /\ lost \in Nat /\ Queued("ARP") \in Nat /\ Queued("IP") \in Nat
           /\ Held \in {0, 2} /\ InHand \in {0, 2} /\ UdpCount \in Nat /\ InQueues \in Nat

AccountTrue == NetInv => Numbers /\ (PagesAccounted <=> Account = NPAGES)
LEMMA AccountIs == AccountTrue
<1> SUFFICES ASSUME NetInv PROVE Numbers /\ (PagesAccounted <=> Account = NPAGES)
  BY DEF AccountTrue
<1>1. pages \in Nat /\ lost \in Nat
  BY DEF NetInv
<1>2. Queued("ARP") \in Nat /\ Queued("IP") \in Nat
  <2>1. queue["ARP"].items \in Seq(Packets("ARP")) /\ queue["IP"].items \in Seq(Packets("IP"))
    BY DEF NetInv, QueuesTrue, Protos
  <2> QED
    BY <2>1 DEF Queued
<1>3. Held \in {0, 2} /\ InHand \in {0, 2}
  BY DEF Held, InHand
<1>4. UdpCount \in Nat
  BY UdpCountNat DEF NetInv
<1>5. PICK a \in Nat, b \in Nat, c \in Nat, d \in Nat, e \in {0, 2}, f \in {0, 2}, g \in Nat :
         /\ a = pages /\ b = lost /\ c = Queued("ARP") /\ d = Queued("IP")
         /\ e = Held /\ f = InHand /\ g = UdpCount
  BY <1>1, <1>2, <1>3, <1>4
<1>6. InQueues = a + b + 2 * (c + d)
  BY <1>5 DEF InQueues
<1>7. Account = (a + b + 2 * (c + d)) + e + f + 2 * g
  BY <1>5, <1>6 DEF Account
<1>8. PagesAccounted <=> (a + e + b + 2 * (c + d + g) + f = NPAGES)
  BY <1>5 DEF PagesAccounted, InHand, UdpCount
<1>9. InQueues \in Nat
  BY <1>6
<1>10. (a + b + 2 * (c + d)) + e + f + 2 * g = a + e + b + 2 * (c + d + g) + f
  OBVIOUS
<1> QED
  BY <1>1, <1>2, <1>3, <1>4, <1>7, <1>8, <1>9, <1>10 DEF Numbers
LEMMA AccountNext == AccountTrue'
  BY AccountIs, PTL

\* What goes one way comes from another.
LEMMA Balance ==
  ASSUME NetInv, NetInv', PagesAccounted, NEW x \in Int, NEW y \in Int, NEW z \in Int, NEW w \in Int,
         InQueues' = InQueues + x, Held' = Held + y, InHand' = InHand + z, UdpCount' = UdpCount + w,
         x + y + z + 2 * w = 0
  PROVE  PagesAccounted'
<1>1. Numbers /\ Account = NPAGES
  BY AccountIs DEF AccountTrue
<1>2. PagesAccounted' <=> Account' = NPAGES
  BY AccountNext DEF AccountTrue
<1>3. PICK a \in Int, b \in Int, c \in Int, d \in Int : a = InQueues /\ b = Held /\ c = InHand /\ d = UdpCount
  BY <1>1 DEF Numbers
<1>4. Account = a + b + c + 2 * d
  BY <1>3 DEF Account
<1>5. Account' = (a + x) + (b + y) + (c + z) + 2 * (d + w)
  BY <1>3 DEF Account
<1>6. (a + x) + (b + y) + (c + z) + 2 * (d + w) = a + b + c + 2 * d
  OBVIOUS
<1> QED
  BY <1>1, <1>2, <1>4, <1>5, <1>6

\* Steps that touch neither pages nor queues.
LEMMA BalanceKept ==
  ASSUME NetInv, NetInv', PagesAccounted, UNCHANGED <<pages, lost, queue>>,
         Held' = Held, InHand' = InHand, \A j \in Pcbs : udp'[j].queue = udp[j].queue
  PROVE  PagesAccounted'
<1>1. Numbers
  BY AccountIs DEF AccountTrue
<1>2. UdpCount' = UdpCount
  BY UdpCountSame DEF NetInv
<1>3. InQueues' = InQueues
  BY DEF InQueues, Queued
<1>4. /\ InQueues' = InQueues + 0 /\ Held' = Held + 0
      /\ InHand' = InHand + 0 /\ UdpCount' = UdpCount + 0
  BY <1>1, <1>2, <1>3 DEF Numbers
<1>5. 0 \in Int /\ 0 + 0 + 0 + 2 * 0 = 0
  OBVIOUS
<1> QED
  BY <1>4, <1>5, Balance

\* Steps that change one socket's queue, by w, and the pages, by x.
LEMMA BalanceSocket ==
  ASSUME NetInv, NetInv', PagesAccounted, NEW i \in Pcbs, NEW w \in Int,
         pages' = pages - 2 * w, UNCHANGED <<lost, queue>>, Held' = Held, InHand' = InHand,
         \A j \in Pcbs : j # i => udp'[j].queue = udp[j].queue,
         Len(udp'[i].queue) = Len(udp[i].queue) + w
  PROVE  PagesAccounted'
<1>1. Numbers
  BY AccountIs DEF AccountTrue
<1>2. UdpCount' = UdpCount + w
  <2>1. UdpCount' = UdpCount + (Len(udp'[i].queue) - Len(udp[i].queue))
    BY UdpCountMoves DEF NetInv
  <2>2. Len(udp[i].queue) \in Nat
    <3>1. udp[i].queue \in Seq(PORTS)
      BY SocketIs DEF NetInv
    <3> QED
      BY <3>1
  <2>3. PICK a \in Nat : a = Len(udp[i].queue)
    BY <2>2
  <2>4. Len(udp'[i].queue) - Len(udp[i].queue) = w
    BY <2>3
  <2> QED
    BY <2>1, <2>4
<1>3. InQueues' = InQueues + (0 - 2 * w)
  <2>1. PICK a \in Nat, b \in Nat, c \in Nat, d \in Nat :
           a = pages /\ b = lost /\ c = Queued("ARP") /\ d = Queued("IP")
    BY <1>1 DEF Numbers
  <2>2. InQueues = a + b + 2 * (c + d)
    BY <2>1 DEF InQueues
  <2>3. InQueues' = (a - 2 * w) + b + 2 * (c + d)
    BY <2>1 DEF InQueues, Queued
  <2> QED
    BY <2>2, <2>3
<1>4. Held' = Held + 0 /\ InHand' = InHand + 0
  BY <1>1 DEF Numbers
<1>5. PICK x \in Int, y \in Int : x = 0 - 2 * w /\ y = 0 /\ x + y + y + 2 * w = 0
  OBVIOUS
<1>6. InQueues' = InQueues + x /\ Held' = Held + y /\ InHand' = InHand + y
  BY <1>3, <1>4, <1>5
<1> QED
  BY <1>2, <1>5, <1>6, Balance
\* Unlinking an entry, and handling it.
LEMMA PopBalance ==
  ASSUME NetInv, NetInv', PagesAccounted, queue_pop
  PROVE  PagesAccounted'
<1>1. PICK p \in Protos : p = cpu.proto
  BY DEF NetInv, CpuTrue, queue_pop
<1>2. /\ Len(queue[p].items) \in Nat \ {0}
      /\ queue'[p].items = Tail(queue[p].items)
      /\ \A o \in Protos : o # p => queue'[o] = queue[o]
  BY <1>1, PopKeeps
<1>3. /\ cpu'.at = "unlink" /\ cpu'.id = cpu.id /\ cpu.at = "softirq"
      /\ UNCHANGED <<udp, pages, lost>>
  BY DEF queue_pop, NetInv, CpuTrue, CpuType
<1>4. Numbers
  BY AccountIs DEF AccountTrue
<1>5. Len(queue'[p].items) = Len(queue[p].items) - 1
  <2>1. PICK s \in Seq(Packets(p)) : s = queue[p].items
    BY DEF NetInv, QueuesTrue
  <2>2. s # <<>>
    BY <1>2, <2>1
  <2>3. Len(Tail(s)) = Len(s) - 1
    BY <2>1, <2>2, HeadTailProperties
  <2> QED
    BY <1>2, <2>1, <2>3
<1>6. InQueues' = InQueues + (0 - 2)
  <2>1. PICK a \in Nat, b \in Nat, c \in Nat, d \in Nat :
           a = pages /\ b = lost /\ c = Queued("ARP") /\ d = Queued("IP")
    BY <1>4 DEF Numbers
  <2>2. InQueues = a + b + 2 * (c + d)
    BY <2>1 DEF InQueues
  <2>3. InQueues' = a + b + 2 * ((c + d) - 1)
    <3>1. CASE p = "ARP"
      <4>1. Queued("ARP")' = c - 1 /\ Queued("IP")' = d
        BY <1>2, <1>5, <2>1, <3>1 DEF Queued, Protos
      <4>2. InQueues' = a + b + 2 * ((c - 1) + d)
        BY <1>3, <2>1, <4>1 DEF InQueues
      <4> QED
        BY <4>2
    <3>2. CASE p = "IP"
      <4>1. Queued("IP")' = d - 1 /\ Queued("ARP")' = c
        BY <1>2, <1>5, <2>1, <3>2 DEF Queued, Protos
      <4>2. InQueues' = a + b + 2 * (c + (d - 1))
        BY <1>3, <2>1, <4>1 DEF InQueues
      <4> QED
        BY <4>2
    <3> QED
      BY <3>1, <3>2 DEF Protos
  <2> QED
    BY <2>2, <2>3
<1>7. Held' = Held /\ InHand = 0 /\ InHand' = 2
  BY <1>3 DEF Held, InHand
<1>8. UdpCount' = UdpCount
  BY <1>3, UdpCountSame DEF NetInv
<1>9. Held' = Held + 0 /\ InHand' = InHand + 2 /\ UdpCount' = UdpCount + 0
  BY <1>4, <1>7, <1>8 DEF Numbers
<1>10. PICK x \in Int, y \in Int, z \in Int : x = 0 - 2 /\ y = 0 /\ z = 2 /\ x + y + z + 2 * y = 0
  OBVIOUS
<1>11. InQueues' = InQueues + x /\ Held' = Held + y /\ InHand' = InHand + z /\ UdpCount' = UdpCount + y
  BY <1>6, <1>9, <1>10
<1> QED
  BY <1>10, <1>11, Balance

LEMMA IpBalance ==
  ASSUME UdpTrue, UdpTrue', NEW e \in Packets("IP"), NEW n \in Nat, NEW gone \in Nat, ip_input(e, n, gone)
  PROVE  \E w \in {0, 1} : pages' + lost' = n + gone + 1 - 2 * w /\ UdpCount' = UdpCount + w
<1>0. UdpCount \in Nat
  BY UdpCountNat
<1>1. CASE UNCHANGED udp /\ pages' + lost' = n + gone + 1
  <2>1. UdpCount' = UdpCount
    BY <1>1, UdpCountSame
  <2>2. UdpCount' = UdpCount + 0 /\ pages' + lost' = n + gone + 1 - 2 * 0
    BY <1>0, <1>1, <2>1
  <2> QED
    BY <2>2
<1>2. CASE e.op = "udp" /\ n > 1 /\ pages' = n - 1 /\ lost' = gone
           /\ \E i \in udp_pcb_select(e.port) : udp' = [udp EXCEPT ![i].queue = Append(@, e.port)]
  <2>1. PICK i \in Pcbs : udp' = [udp EXCEPT ![i].queue = Append(@, e.port)]
    BY <1>2 DEF udp_pcb_select
  <2>2. e.port \in PORTS
    BY <1>2, ArrivalFacts DEF Packets
  <2>3. /\ udp[i].queue \in Seq(PORTS) /\ udp[i] \in Socket /\ udp \in [Pcbs -> Socket]
    BY SocketIs DEF UdpTrue
  <2>4. udp'[i].queue = Append(udp[i].queue, e.port) /\ \A j \in Pcbs : j # i => udp'[j] = udp[j]
    BY <2>1, <2>3 DEF Socket
  <2>5. PICK a \in Nat : a = Len(udp[i].queue)
    BY <2>3
  <2>6. Len(udp'[i].queue) = a + 1
    BY <2>2, <2>3, <2>4, <2>5, AppendProperties
  <2>7. UdpCount' = UdpCount + ((a + 1) - a)
    BY <2>4, <2>5, <2>6, UdpCountMoves
  <2>8. UdpCount' = UdpCount + 1 /\ pages' + lost' = n + gone + 1 - 2 * 1
    BY <1>0, <1>2, <2>7
  <2> QED
    BY <2>8
<1> QED
  <2>1. CASE e.op = "echo" /\ icmp_input(e, n) /\ lost' = gone
    <3>1. UNCHANGED udp /\ pages' = n + 1 /\ lost' = gone
      BY <2>1 DEF icmp_input
    <3> QED
      BY <1>1, <3>1
  <2>2. CASE e.op = "udp" /\ udp_input(e, n, gone)
    <3>1. CASE UNCHANGED udp /\ pages' = n + 1 /\ lost' = gone
      BY <1>1, <3>1
    <3>2. CASE UNCHANGED udp /\ pages' = n /\ lost' = gone + 1
      BY <1>1, <3>2
    <3> QED
      BY <1>2, <2>2, <3>1, <3>2 DEF udp_input
  <2> QED
    BY <2>1, <2>2 DEF ip_input
LEMMA PoppedBalance ==
  ASSUME NetInv, NetInv', PagesAccounted, queue_popped
  PROVE  PagesAccounted'
<1>1. PICK p \in Protos : p = cpu.proto
  BY DEF NetInv, CpuTrue, queue_popped
<1>2. PICK e \in Packets(p) : e = cpu.entry
  BY <1>1 DEF NetInv, CpuTrue, queue_popped
<1>3. queue \in [Protos -> Queues] /\ queue[p] \in Queues /\ queue[p].items \in Seq(Packets(p))
  BY DEF NetInv, QueuesTrue
<1>0. PICK q \in Unlinked(queue[p]) : \E n, gone :
         /\ n = pages + 1 /\ gone = lost + 2 * (Len(queue[p].items) - Len(q.items))
         /\ queue' = [queue EXCEPT ![p] = q]
         /\ \/ p = "ARP" /\ arp_input(e, n) /\ pages' = n + 1 /\ lost' = gone /\ UNCHANGED udp
            \/ p = "IP" /\ ip_input(e, n, gone)
         /\ cpu' = [cpu EXCEPT !.at = "softirq", !.entry = NONE, !.last = FALSE] /\ cpu.at = "unlink"
  BY <1>1, <1>2 DEF queue_popped
<1>4. PICK n, gone :
         /\ n = pages + 1 /\ gone = lost + 2 * (Len(queue[p].items) - Len(q.items))
         /\ queue' = [queue EXCEPT ![p] = q]
         /\ \/ p = "ARP" /\ arp_input(e, n) /\ pages' = n + 1 /\ lost' = gone /\ UNCHANGED udp
            \/ p = "IP" /\ ip_input(e, n, gone)
         /\ cpu' = [cpu EXCEPT !.at = "softirq", !.entry = NONE, !.last = FALSE] /\ cpu.at = "unlink"
  BY <1>0
<1>5. q \in Queues /\ q.items \in Seq(Packets(p)) /\ (q.items = queue[p].items \/ q.items = <<>>)
  BY <1>3, <1>4, UnlinkedTrue
<1>6. queue'[p] = q /\ \A o \in Protos : o # p => queue'[o] = queue[o]
  BY <1>3, <1>4, <1>5
<1>7. Numbers
  BY AccountIs DEF AccountTrue
<1>8. PICK l \in Nat, m \in Nat : l = Len(queue[p].items) /\ m = Len(q.items) /\ m <= l
  <2>1. Len(queue[p].items) \in Nat /\ Len(q.items) \in Nat /\ Len(q.items) <= Len(queue[p].items)
    BY <1>3, <1>5
  <2> QED
    BY <2>1
<1>9. PICK a \in Nat, b \in Nat : a = pages /\ b = lost
  BY <1>7 DEF Numbers
<1>10. n = a + 1 /\ gone = b + 2 * (l - m) /\ n \in Nat /\ gone \in Nat
  <2>1. n = a + 1 /\ gone = b + 2 * (l - m)
    BY <1>4, <1>8, <1>9
  <2>2. l - m \in Nat
    BY <1>8
  <2> QED
    BY <2>1, <2>2
<1>11. PICK w \in {0, 1} : pages' + lost' = n + gone + 1 - 2 * w /\ UdpCount' = UdpCount + w
  <2>1. UdpTrue /\ UdpTrue'
    BY DEF NetInv
  <2>2. CASE p = "ARP" /\ arp_input(e, n) /\ pages' = n + 1 /\ lost' = gone /\ UNCHANGED udp
    <3>1. UdpCount' = UdpCount
      BY <2>1, <2>2, UdpCountSame
    <3>2. UdpCount' = UdpCount + 0 /\ pages' + lost' = n + gone + 1 - 2 * 0
      BY <1>7, <1>10, <2>2, <3>1 DEF Numbers
    <3> QED
      BY <3>2
  <2>3. CASE p = "IP" /\ ip_input(e, n, gone)
    BY <1>10, <2>1, <2>3, IpBalance
  <2> QED
    BY <1>4, <2>2, <2>3
<1>12. PICK x \in Int : x = 2 - 2 * w
  OBVIOUS
<1>13. InQueues' = InQueues + x
  <2>1. PICK k \in Nat : /\ p = "ARP" => k = Queued("IP")
                         /\ p = "IP" => k = Queued("ARP")
    BY <1>7 DEF Numbers, Protos
  <2>2. InQueues = a + b + 2 * (l + k)
    <3>1. CASE p = "ARP"
      BY <1>8, <1>9, <2>1, <3>1 DEF InQueues, Queued
    <3>2. CASE p = "IP"
      <4>1. InQueues = a + b + 2 * (k + l)
        BY <1>8, <1>9, <2>1, <3>2 DEF InQueues, Queued
      <4> QED
        BY <4>1
    <3> QED
      BY <3>1, <3>2 DEF Protos
  <2>3. PICK u \in Nat, v \in Nat : u = pages' /\ v = lost'
    BY DEF NetInv
  <2>4. InQueues' = u + v + 2 * (m + k)
    <3>1. CASE p = "ARP"
      <4>1. Queued("ARP")' = m /\ Queued("IP")' = k
        BY <1>6, <1>8, <2>1, <3>1 DEF Queued, Protos
      <4> QED
        BY <2>3, <4>1 DEF InQueues
    <3>2. CASE p = "IP"
      <4>1. Queued("IP")' = m /\ Queued("ARP")' = k
        BY <1>6, <1>8, <2>1, <3>2 DEF Queued, Protos
      <4>2. InQueues' = u + v + 2 * (k + m)
        BY <2>3, <4>1 DEF InQueues
      <4> QED
        BY <4>2
    <3> QED
      BY <3>1, <3>2 DEF Protos
  <2>5. u + v = (a + 1) + (b + 2 * (l - m)) + 1 - 2 * w
    BY <1>10, <1>11, <2>3
  <2> QED
    BY <1>12, <2>2, <2>4, <2>5
<1>14. cpu'.at = "softirq" /\ cpu'.id = cpu.id
  BY <1>4 DEF NetInv, CpuTrue, CpuType
<1>15. Held' = Held /\ InHand = 2 /\ InHand' = 0
  BY <1>4, <1>14 DEF Held, InHand
<1>16. PICK y \in Int, z \in Int : y = 0 /\ z = 0 - 2 /\ x + y + z + 2 * w = 0
  BY <1>12
<1>17. Held' = Held + y /\ InHand' = InHand + z /\ w \in Int
  BY <1>7, <1>15, <1>16 DEF Numbers
<1> QED
  BY <1>11, <1>13, <1>16, <1>17, Balance

\* Every step keeps the account.
LEMMA AccountStep ==
  ASSUME NetInv, NetInv', PagesAccounted, [Next]_netVars
  PROVE  PagesAccounted'
<1>0. CpuTrue /\ cpu \in CpuType /\ UdpTrue /\ Numbers
  BY AccountIs DEF NetInv, CpuTrue, AccountTrue
<1>1. ASSUME UNCHANGED <<pages, lost, queue, cpu>>, \A j \in Pcbs : udp'[j].queue = udp[j].queue
      PROVE  PagesAccounted'
  BY <1>1, BalanceKept DEF Held, InHand
<1>2. CASE virtio_net_intr
  <2>1. InQueues' = InQueues /\ UNCHANGED <<cpu, udp>>
    BY <1>2, IntrKeeps DEF virtio_net_intr
  <2>2. UdpCount' = UdpCount
    BY <2>1, UdpCountSame DEF NetInv
  <2>3. /\ InQueues' = InQueues + 0 /\ Held' = Held + 0
        /\ InHand' = InHand + 0 /\ UdpCount' = UdpCount + 0
    BY <1>0, <2>1, <2>2 DEF Numbers, Held, InHand
  <2>4. 0 \in Int /\ 0 + 0 + 0 + 2 * 0 = 0
    OBVIOUS
  <2> QED
    BY <2>3, <2>4, Balance
<1>3. CASE net_softirq_handler \/ queue_drained
  <2>1. UNCHANGED <<udp, queue, pages, lost>> /\ Held' = Held /\ InHand' = InHand
    BY <1>0, <1>3 DEF net_softirq_handler, queue_drained, Held, InHand, CpuType
  <2> QED
    BY <2>1, BalanceKept
<1>4. CASE queue_pop
  BY <1>4, PopBalance
<1>5. CASE queue_popped
  BY <1>5, PoppedBalance
<1>6. ASSUME NEW x \in {2, -2}, pages' = pages + x, Held' = Held - x, InHand' = InHand,
             UNCHANGED <<lost, queue, udp>>
      PROVE  PagesAccounted'
  <2>1. UdpCount' = UdpCount
    BY <1>6, UdpCountSame DEF NetInv
  <2>2. InQueues' = InQueues + x
    <3>1. PICK a \in Nat, b \in Nat, c \in Nat, d \in Nat :
             a = pages /\ b = lost /\ c = Queued("ARP") /\ d = Queued("IP")
      BY <1>0 DEF Numbers
    <3>2. InQueues = a + b + 2 * (c + d)
      BY <3>1 DEF InQueues
    <3>3. InQueues' = (a + x) + b + 2 * (c + d)
      BY <1>6, <3>1 DEF InQueues, Queued
    <3> QED
      BY <3>2, <3>3
  <2>3. PICK y \in Int, z \in Int : y = 0 - x /\ z = 0 /\ x \in Int /\ x + y + z + 2 * z = 0
    OBVIOUS
  <2>4. Held' = Held + y /\ InHand' = InHand + z /\ UdpCount' = UdpCount + z
    BY <1>0, <1>6, <2>1, <2>3 DEF Numbers
  <2> QED
    BY <2>2, <2>3, <2>4, Balance
<1>7. CASE http_polls
  <2>1. pages' = pages + (-2) /\ Held' = Held - (-2) /\ InHand' = InHand /\ UNCHANGED <<lost, queue, udp>>
    BY <1>0, <1>7 DEF http_polls, Idle, Out, Held, InHand, CpuTrue, Numbers
  <2> QED
    BY <1>6, <2>1
<1>8. CASE http_returns
  <2>1. pages' = pages + 2 /\ Held' = Held - 2 /\ InHand' = InHand /\ UNCHANGED <<lost, queue, udp>>
    BY <1>0, <1>8 DEF http_returns, Out, Held, InHand, CpuTrue, Numbers
  <2> QED
    BY <1>6, <2>1
<1>9. ASSUME NEW i \in Pcbs, udp[i].queue # <<>>, udp' = [udp EXCEPT ![i].queue = Tail(@)],
             pages' = pages + 2, UNCHANGED <<lost, queue>>, Held' = Held, InHand' = InHand
      PROVE  PagesAccounted'
  <2>1. /\ udp[i].queue \in Seq(PORTS) /\ udp[i] \in Socket /\ udp \in [Pcbs -> Socket]
    BY <1>0, SocketIs DEF UdpTrue
  <2>2. udp'[i].queue = Tail(udp[i].queue) /\ \A j \in Pcbs : j # i => udp'[j] = udp[j]
    BY <1>9, <2>1 DEF Socket
  <2>3. PICK a \in Nat : a = Len(udp[i].queue) /\ Len(udp'[i].queue) = a - 1
    BY <1>9, <2>1, <2>2, HeadTailProperties
  <2>4. PICK w \in Int : w = -1 /\ a - 1 = a + w
    OBVIOUS
  <2>5. pages' = pages - 2 * w /\ Len(udp'[i].queue) = Len(udp[i].queue) + w
    BY <1>0, <1>9, <2>3, <2>4 DEF Numbers
  <2> QED
    BY <1>9, <2>2, <2>5, BalanceSocket
<1>10. CASE recvfrom_resume
  <2>1. cpu.id \in Pcbs
    BY <1>0, <1>10 DEF recvfrom_resume, CpuType
  <2>2. Held' = Held /\ InHand' = InHand
    BY <1>10 DEF recvfrom_resume, Out, Held, InHand
  <2> QED
    BY <1>9, <1>10, <2>1, <2>2 DEF recvfrom_resume
<1>11. CASE \E i \in Pcbs : udp_recvfrom(i)
  <2>1. PICK i \in Pcbs : udp_recvfrom(i)
    BY <1>11
  <2>2. CASE udp[i].queue = <<>> /\ cpu' = [Out EXCEPT !.at = "poll", !.id = i] /\ UNCHANGED <<udp, pages>>
    <3>1. i # NOID
      BY NetAssumption DEF Pcbs, NOID
    <3>2. Held' = Held /\ InHand' = InHand
      BY <2>1, <2>2, <3>1 DEF udp_recvfrom, Idle, Out, Held, InHand
    <3> QED
      BY <2>1, <2>2, <3>2, BalanceKept DEF udp_recvfrom
  <2>3. CASE udp[i].queue # <<>> /\ udp' = [udp EXCEPT ![i].queue = Tail(@)] /\ pages' = pages + 2 /\ UNCHANGED cpu
    <3>1. Held' = Held /\ InHand' = InHand /\ UNCHANGED <<lost, queue>>
      BY <2>1, <2>3 DEF udp_recvfrom, Held, InHand
    <3> QED
      BY <1>9, <2>3, <3>1
  <2> QED
    BY <2>1, <2>2, <2>3 DEF udp_recvfrom
<1>12. CASE \E i \in Pcbs : udp_close(i)
  <2>1. PICK i \in Pcbs : udp_close(i)
    BY <1>12
  <2>2. PICK a \in Nat : a = Len(udp[i].queue)
    <3>1. udp[i].queue \in Seq(PORTS)
      BY <1>0, SocketIs
    <3> QED
      BY <3>1
  <2>3. /\ udp'[i].queue = <<>> /\ \A j \in Pcbs : j # i => udp'[j] = udp[j]
        /\ pages' = pages + 2 * a /\ UNCHANGED <<queue, cpu, lost>>
    BY <1>0, <2>1, <2>2 DEF udp_close, Discarded, Closed, UdpTrue
  <2>4. PICK w \in Int : w = 0 - a /\ a + w = 0
    OBVIOUS
  <2>5. pages' = pages - 2 * w /\ Len(udp'[i].queue) = Len(udp[i].queue) + w
    BY <1>0, <2>2, <2>3, <2>4 DEF Numbers
  <2>6. Held' = Held /\ InHand' = InHand
    BY <2>3 DEF Held, InHand
  <2> QED
    BY <2>3, <2>5, <2>6, BalanceSocket
<1>13. CASE udp_open \/ \E i \in Pcbs : (\E p \in PORTS : udp_bind(i, p))
                                     \/ (\E dst \in (NEAR \ {GW}) \cup FAR : udp_sendto(i, dst))
  <2>1. UNCHANGED <<pages, lost, queue, cpu>>
    BY <1>13 DEF udp_open, udp_bind, udp_sendto
  <2>2. \E i \in Pcbs : \E s : udp' = [udp EXCEPT ![i] = s] /\ s.queue = udp[i].queue
    <3>1. CASE udp_open
      <4>1. PICK i \in Pcbs : udp' = [udp EXCEPT ![i] = [udp[i] EXCEPT !.open = TRUE]]
        BY <3>1 DEF udp_open
      <4>2. [udp[i] EXCEPT !.open = TRUE].queue = udp[i].queue
        BY <1>0, SocketIs DEF Socket
      <4> QED
        BY <4>1, <4>2
    <3>2. CASE \E i \in Pcbs : (\E p \in PORTS : udp_bind(i, p))
                               \/ (\E dst \in (NEAR \ {GW}) \cup FAR : udp_sendto(i, dst))
      <4>1. PICK i \in Pcbs : \E p : udp' = [udp EXCEPT ![i] = [udp[i] EXCEPT !.port = p]]
        BY <3>2 DEF udp_bind, udp_sendto
      <4>3. PICK p : udp' = [udp EXCEPT ![i] = [udp[i] EXCEPT !.port = p]]
        BY <4>1
      <4>2. [udp[i] EXCEPT !.port = p].queue = udp[i].queue
        BY <1>0, SocketIs DEF Socket
      <4> QED
        BY <4>2, <4>3
    <3> QED
      BY <1>13, <3>1, <3>2
  <2>4. PICK i \in Pcbs : \E s : udp' = [udp EXCEPT ![i] = s] /\ s.queue = udp[i].queue
    BY <2>2
  <2>5. PICK s : udp' = [udp EXCEPT ![i] = s] /\ s.queue = udp[i].queue
    BY <2>4
  <2>3. \A j \in Pcbs : udp'[j].queue = udp[j].queue
    BY <1>0, <2>5 DEF UdpTrue
  <2> QED
    BY <1>1, <2>1, <2>3
<1>14. CASE UNCHANGED <<pages, lost, queue, cpu, udp>>
  BY <1>1, <1>14
<1> QED
  BY <1>2, <1>3, <1>4, <1>5, <1>7, <1>8, <1>10, <1>11, <1>12, <1>13, <1>14
     DEF Next, Sockets, netVars, device_receive, device_send, arp_timer_handler
LEMMA PacketsInit ==
  ASSUME Init
  PROVE  PacketsKept
<1>1. NetInv
  BY NetInit
<1>2. \A p \in Protos : queue[p].items = <<>>
  BY DEF Init, Empty, Protos
<1>3. NoLostPacket
  BY <1>2 DEF NoLostPacket, Protos
<1>4. UdpCount = 0
  <2>1. \A i \in Pcbs : udp[i].queue = <<>>
    BY DEF Init, Closed
  <2> QED
    BY <1>1, <2>1, UdpCountNat DEF NetInv
<1>5. Held = 0 /\ InHand = 0 /\ pages = NPAGES /\ lost = 0
  BY DEF Init, Out, Held, InHand
<1>6. Queued("ARP") = 0 /\ Queued("IP") = 0
  BY <1>2 DEF Queued, Protos
<1>7. InQueues = NPAGES
  BY <1>5, <1>6, NetAssumption DEF InQueues
<1>8. Account = NPAGES
  BY <1>4, <1>5, <1>7, NetAssumption DEF Account
<1>9. PagesAccounted
  BY <1>1, <1>8, AccountIs DEF AccountTrue
<1> QED
  BY <1>3, <1>9 DEF PacketsKept

\* PacketsKept: no interrupt leaves a packet in a protocol queue unannounced, and
\* every page is free, held, in one packet or lost where queue_pop or udp_input
\* loses it (virtio_net_intr, net_softirq_handler, queue_pop, udp_input).
THEOREM PacketsTheorem == Spec => []PacketsKept
<1>1. Init => NetInv /\ PacketsKept
  BY NetInit, PacketsInit
<1>2. NetInv /\ PacketsKept /\ [Next]_netVars => (NetInv /\ PacketsKept)'
  <2> SUFFICES ASSUME NetInv, PacketsKept, [Next]_netVars
               PROVE  NetInv' /\ PacketsKept'
    OBVIOUS
  <2>1. NetInv'
    BY NetStep
  <2>2. PagesAccounted /\ NoLostPacket
    BY DEF PacketsKept
  <2>3. PagesAccounted'
    BY <2>1, <2>2, AccountStep
  <2>4. NoLostPacket'
    BY <2>2, NoLostStep
  <2> QED
    BY <2>1, <2>3, <2>4 DEF PacketsKept
<1> QED
  BY <1>1, <1>2, PTL DEF Spec

(***************************************************************************)
(* The buffers of the rings                                                *)
(***************************************************************************)
\* No more descriptors are handed out than there are.
LEMMA SendRoom ==
  ASSUME NEW ids \in Seq(Descs), IsInjective(ids)
  PROVE  Len(ids) <= QSIZE
<1>1. PICK n \in Nat : n = Len(ids) /\ DOMAIN ids = 1 .. n
  OBVIOUS
<1>2. PICK m \in Nat : m = QSIZE /\ Descs = 0 .. m - 1
  BY NetAssumption DEF Descs
<1>3. IsFiniteSet(0 .. m - 1) /\ Cardinality(0 .. m - 1) = m
  <2>1. /\ IsFiniteSet(0 .. m - 1)
        /\ Cardinality(0 .. m - 1) = IF 0 > m - 1 THEN 0 ELSE (m - 1) - 0 + 1
    BY FS_Interval
  <2> QED
    BY <2>1
<1>4. Cardinality(1 .. n) = n
  <2>1. Cardinality(1 .. n) = IF 1 > n THEN 0 ELSE n - 1 + 1
    BY FS_Interval
  <2> QED
    BY <2>1
<1>5. ids \in Injection(1 .. n, Descs)
  <2>1. ids \in [1 .. n -> Descs]
    BY <1>1
  <2> QED
    BY <2>1 DEF Injection
<1>6. Cardinality(1 .. n) <= Cardinality(0 .. m - 1)
  BY <1>2, <1>3, <1>5, FS_Injection
<1> QED
  BY <1>1, <1>2, <1>3, <1>4, <1>6

\* The buffers from the next used one on: every slot once, from last round the ring.
LEMMA ReceiveIds ==
  ASSUME NEW r, RxTrue(r)
  PROVE  \A j, k \in DOMAIN ([i \in DOMAIN r.done |-> r.done[i].id]
                              \o [i \in DOMAIN Given(r) |-> r.ring[Given(r)[i]]]) :
            j # k => ([i \in DOMAIN r.done |-> r.done[i].id]
                       \o [i \in DOMAIN Given(r) |-> r.ring[Given(r)[i]]])[j]
                     # ([i \in DOMAIN r.done |-> r.done[i].id]
                         \o [i \in DOMAIN Given(r) |-> r.ring[Given(r)[i]]])[k]
<1>1. PICK m \in Nat \ {0} : m = QSIZE /\ Descs = 0 .. m - 1
  BY NetAssumption DEF Descs
<1>2. r \in RxType /\ InTurn(r)
  BY DEF RxTrue
<1>3. PICK l \in 0 .. m - 1 : l = r.last
  BY <1>1, <1>2 DEF RxType
<1>4. PICK s \in Seq([id : Descs, pkt : Arrivals]) : s = r.done
  BY <1>2 DEF RxType
<1>5. PICK n \in Nat : n = Len(s) /\ DOMAIN s = 1 .. n
  OBVIOUS
<1>6. n <= m
  BY <1>1, <1>2, <1>4, <1>5 DEF InTurn
<1>7. PICK ring : ring = r.ring /\ \A k \in Descs : ring[k] = k
  BY <1>2 DEF RxType
<1>8. PICK d : d = [i \in DOMAIN r.done |-> r.done[i].id]
  OBVIOUS
<1>9. d = [i \in 1 .. n |-> (l + i - 1) % m]
  <2>1. \A i \in 1 .. n : r.done[i].id = (l + i - 1) % m
    BY <1>1, <1>2, <1>3, <1>4, <1>5 DEF InTurn
  <2> QED
    BY <1>4, <1>5, <1>8, <2>1
<1>10. PICK v : v = Given(r)
  OBVIOUS
<1>11. v = [k \in 1 .. m - n |-> (l + n + k - 1) % m]
  BY <1>1, <1>3, <1>4, <1>5, <1>10 DEF Given
<1>12. PICK g : g = [i \in DOMAIN Given(r) |-> r.ring[Given(r)[i]]]
  OBVIOUS
<1>13. g = [i \in 1 .. m - n |-> (l + n + i - 1) % m]
  <2>1. \A i \in 1 .. m - n : v[i] \in 0 .. m - 1
    BY <1>6, <1>11
  <2>2. \A i \in 1 .. m - n : ring[v[i]] = v[i]
    BY <1>1, <1>7, <2>1
  <2>3. DOMAIN v = 1 .. m - n
    BY <1>11
  <2>4. g = [i \in DOMAIN v |-> ring[v[i]]]
    BY <1>7, <1>10, <1>12
  <2>5. g = [i \in 1 .. m - n |-> v[i]]
    BY <2>2, <2>3, <2>4
  <2> QED
    BY <1>11, <2>5
<1>14. PICK ids : ids = d \o g
  OBVIOUS
<1>15. /\ DOMAIN ids = 1 .. m
       /\ \A j \in 1 .. m : ids[j] = (l + j - 1) % m
  <2>1. d \in Seq(Int) /\ Len(d) = n
    BY <1>9
  <2>2. g \in Seq(Int) /\ Len(g) = m - n
    BY <1>6, <1>13
  <2>6. /\ d \o g \in Seq(Int) /\ Len(d \o g) = Len(d) + Len(g)
        /\ \A j \in 1 .. Len(d) + Len(g) : (d \o g)[j] = IF j <= Len(d) THEN d[j] ELSE g[j - Len(d)]
    BY <2>1, <2>2, ConcatProperties, Zenon
  <2>7. Len(d) = n /\ Len(g) = m - n /\ Len(d) + Len(g) = m
    BY <1>6, <2>1, <2>2
  <2>3. /\ Len(ids) = m /\ ids \in Seq(Int)
        /\ \A j \in 1 .. m : ids[j] = IF j <= n THEN d[j] ELSE g[j - n]
    BY <1>14, <2>6, <2>7
  <2>4. DOMAIN ids = 1 .. m
    BY <1>6, <2>3
  <2>5. ASSUME NEW j \in 1 .. m
        PROVE  ids[j] = (l + j - 1) % m
    <3>1. CASE j <= n
      <4>1. j \in 1 .. n /\ ids[j] = d[j]
        BY <1>6, <2>3, <3>1
      <4> QED
        BY <1>9, <4>1
    <3>2. CASE ~(j <= n)
      <4>1. j - n \in 1 .. m - n /\ ids[j] = g[j - n] /\ l + n + (j - n) - 1 = l + j - 1
        BY <1>6, <2>3, <3>2
      <4> QED
        BY <1>13, <4>1
    <3> QED
      BY <3>1, <3>2
  <2> QED
    BY <2>4, <2>5
<1>16. ASSUME NEW j \in 1 .. m, NEW k \in 1 .. m, ids[j] = ids[k]
       PROVE  j = k
  <2>1. l + j - 1 \in 0 .. 2 * QSIZE - 1 /\ l + k - 1 \in 0 .. 2 * QSIZE - 1
    BY <1>1
  <2>2. PICK x \in 0 .. 2 * QSIZE - 1, y \in 0 .. 2 * QSIZE - 1 : x = l + j - 1 /\ y = l + k - 1
    BY <2>1
  <2>3. x % QSIZE = (IF x < QSIZE THEN x ELSE x - QSIZE) /\ y % QSIZE = (IF y < QSIZE THEN y ELSE y - QSIZE)
    BY Around
  <2>4. (l + j - 1) % m = (l + k - 1) % m
    BY <1>15, <1>16
  <2>5. x % QSIZE = y % QSIZE
    BY <1>1, <2>2, <2>4
  <2>6. (IF x < m THEN x ELSE x - m) = (IF y < m THEN y ELSE y - m)
    BY <1>1, <2>3, <2>5
  <2> QED
    BY <2>2, <2>6
<1>17. \A j, k \in DOMAIN ids : j # k => ids[j] # ids[k]
  BY <1>15, <1>16
<1> QED
  BY <1>8, <1>12, <1>14, <1>17
LEMMA RingsHold ==
  ASSUME NetInv, PagesAccounted
  PROVE  RingsTrue
<1>1. ReceiveBuffersDisjoint
  <2>1. RxTrue(rx)
    BY DEF NetInv
  <2> QED
    BY <2>1, ReceiveIds, Zenon DEF ReceiveBuffersDisjoint
<1>2. TxTrue(tx) /\ tx \in TxType /\ SendIds(tx) \in Seq(Descs) /\ IsInjective(SendIds(tx))
      /\ (\A d \in ToSet(SendIds(tx)) : d \notin tx.free)
      /\ Len(SendIds(tx)) = Len(tx.wait) + Len(tx.done)
  <2>1. TxTrue(tx) /\ tx \in TxType /\ Apart(SendIds(tx), tx.free)
    BY DEF NetInv, TxTrue
  <2>2. PICK q \in Seq(Handed) : q = tx.wait
    BY <2>1 DEF TxType
  <2>3. PICK d \in Seq(Descs) : d = tx.done
    BY <2>1 DEF TxType
  <2>4. Ids(q) \in Seq(Descs) /\ Len(Ids(q)) = Len(q)
    BY IdsAre
  <2>5. PICK i \in Seq(Descs) : i = Ids(q) /\ Len(i) = Len(q)
    BY <2>4
  <2>6. d \o i \in Seq(Descs) /\ Len(d \o i) = Len(i) + Len(d)
    OBVIOUS
  <2> QED
    BY <2>1, <2>2, <2>3, <2>5, <2>6 DEF SendIds, Apart
<1>3. SendBuffersDisjoint
  <2>1. PICK ids : ids = SendIds(tx)
    OBVIOUS
  <2>2. ids = tx.done \o [k \in DOMAIN tx.wait |-> tx.wait[k].id]
    BY <2>1 DEF SendIds, Ids
  <2>3. \A j \in DOMAIN ids : ids[j] \in ToSet(ids)
    BY DEF ToSet
  <2>4. \A j \in DOMAIN ids : ids[j] \notin tx.free /\ \A k \in DOMAIN ids : j # k => ids[j] # ids[k]
    BY <1>2, <2>1, <2>3 DEF IsInjective
  <2> QED
    BY <2>2, <2>4, Zenon DEF SendBuffersDisjoint
<1>4. /\ rx.ring \in [Descs -> Descs] /\ rx.avail \in Descs /\ rx.last = rx.avail
      /\ Len(rx.done) <= QSIZE
  <2>1. rx \in RxType /\ InTurn(rx)
    BY DEF NetInv, RxTrue
  <2>2. rx.ring = [k \in Descs |-> k] /\ rx.avail \in Descs
    BY <2>1 DEF RxType
  <2> QED
    BY <2>1, <2>2 DEF InTurn
<1>5. tx.free \subseteq Descs /\ Len(tx.wait) + Len(tx.done) <= QSIZE
  <2>1. tx.free \subseteq Descs
    BY <1>2 DEF TxType
  <2>2. Len(SendIds(tx)) <= QSIZE
    BY <1>2, SendRoom
  <2> QED
    BY <1>2, <2>1, <2>2
<1>6. \A p \in {"ARP", "IP"} : queue[p].items \in Seq(Arrivals) /\ queue[p].tail \in {"ok", "cut", "off"}
  <2>1. queue \in [Protos -> Queues]
    BY DEF NetInv, QueuesTrue
  <2> QED
    BY <2>1 DEF Protos, Queues
<1>7. cpu.at \in {"out", "poll", "softirq", "unlink"} /\ cpu.id \in Pcbs \cup {NOID} /\ pending \in BOOLEAN
  BY DEF NetInv, CpuTrue, CpuType
<1>8. pages \in 0 .. NPAGES /\ lost \in 0 .. NPAGES
  <2>1. Numbers /\ Account = NPAGES
    BY AccountIs DEF AccountTrue
  <2>2. PICK a \in Nat, b \in Nat, c \in Nat, d \in Nat, e \in {0, 2}, f \in {0, 2}, g \in Nat, n \in Nat :
           /\ a = pages /\ b = lost /\ c = Queued("ARP") /\ d = Queued("IP")
           /\ e = Held /\ f = InHand /\ g = UdpCount /\ n = NPAGES
    BY <2>1, NetAssumption DEF Numbers
  <2>3. (a + b + 2 * (c + d)) + e + f + 2 * g = n
    BY <2>1, <2>2 DEF Account, InQueues
  <2>4. a \in 0 .. n /\ b \in 0 .. n
    BY <2>3
  <2> QED
    BY <2>2, <2>4
<1>9. /\ \A k \in Slots : arp.cache[k].state \in {"FREE", "INCOMPLETE", "RESOLVED"}
      /\ ToSet(arp.order) = {k \in Slots : arp.cache[k].state # "FREE"}
  BY DEF NetInv, ArpTrue, CacheTrue, OrderTrue
<1>10. TypeOK
  BY <1>4, <1>5, <1>6, <1>7, <1>8, <1>9 DEF TypeOK
<1> QED
  BY <1>1, <1>3, <1>10 DEF RingsTrue

\* RingsTrue: no buffer is in two hands, the device's and the driver's or twice
\* the device's, at full and empty rings and when memory runs out
\* (virtio_net_intr, virtio_net_read, virtio_net_write, virtq_alloc_desc).
THEOREM RingsTheorem == Spec => []RingsTrue
<1>1. NetInv /\ PagesAccounted => RingsTrue
  BY RingsHold
<1>2. PacketsKept => PagesAccounted
  BY DEF PacketsKept
<1> QED
  BY <1>1, <1>2, NetTheorem, PacketsTheorem, PTL
=============================================================================
