----------------------------- MODULE PipeProofs -----------------------------
(***************************************************************************)
(* For any number of processes, threads, descriptors, files and pages, any *)
(* buffer size and any width of the counters that the buffer size divides: *)
(* a pipe loses, repeats and reorders no byte, descriptors and files agree *)
(* with the pipes they name, and a thread suspended inside a call goes on  *)
(* with the pipe it was called on.                                         *)
(***************************************************************************)
EXTENDS PipeProps, FiniteSetTheorems, WellFoundedInduction, TLAPS

(***************************************************************************)
(* Arithmetic                                                              *)
(***************************************************************************)
\* The remainder is the only one.
LEMMA ModUnique ==
  ASSUME NEW n \in Nat \ {0}, NEW q \in Int, NEW r \in 0 .. n - 1
  PROVE  (q * n + r) % n = r
  OBVIOUS

LEMMA ModParts ==
  ASSUME NEW n \in Nat \ {0}, NEW x \in Int
  PROVE  x % n \in 0 .. n - 1 /\ x = (x \div n) * n + (x % n) /\ x \div n \in Int
  OBVIOUS

\* A reduction by a multiple of n does not change the remainder.
LEMMA ModShift ==
  ASSUME NEW n \in Nat \ {0}, NEW x \in Int, NEW q \in Int
  PROVE  (x + q * n) % n = x % n
<1> DEFINE r == x % n
           d == x \div n
<1>1. r \in 0 .. n - 1 /\ x = d * n + r /\ d \in Int
  BY ModParts
<1> HIDE DEF r, d
<1>2. x + q * n = (d + q) * n + r
  BY <1>1
<1>3. ((d + q) * n + r) % n = r
  BY <1>1, ModUnique
<1> QED
  BY <1>2, <1>3 DEF r

\* A set of naturals that is not empty has a least element, and Min finds it.
LEMMA LeastNat ==
  ASSUME NEW D \in SUBSET Nat, D # {}
  PROVE  Min(D) \in D /\ \A y \in D : Min(D) <= y
<1> DEFINE R == OpToRel(<, Nat)
<1>1. IsWellFoundedOn(R, Nat)
  BY NatLessThanWellFounded
<1>2. \A x, y \in Nat : x < y => <<x, y>> \in R
  BY DEF OpToRel
<1> HIDE DEF R
<1>3. PICK x \in D : \A y \in D : ~(<<y, x>> \in R)
  BY <1>1, WFMin
<1>4. \A y \in D : x <= y
  <2> TAKE y \in D
  <2>1. x \in Nat /\ y \in Nat /\ ~(<<y, x>> \in R)
    BY <1>3
  <2>2. ~(y < x)
    BY <1>2, <2>1
  <2> QED
    BY <2>1, <2>2
<1> QED
  BY <1>4 DEF Min

LEMMA MinTwo ==
  ASSUME NEW m \in Int, NEW n \in Int
  PROVE  Min({m, n}) = IF m <= n THEN m ELSE n
<1> DEFINE k == IF m <= n THEN m ELSE n
<1>1. k \in {m, n} /\ \A y \in {m, n} : k <= y
  OBVIOUS
<1>2. \A x \in {m, n} : (\A y \in {m, n} : x <= y) => x = k
  OBVIOUS
<1> HIDE DEF k
<1>3. (CHOOSE x \in {m, n} : \A y \in {m, n} : x <= y) = k
  BY <1>1, <1>2, Zenon
<1> QED
  BY <1>3 DEF Min, k

(***************************************************************************)
(* The ring of one pipe                                                    *)
(***************************************************************************)
\* The ring of StreamIntact for one page, whether it holds a pipe or not.
Ring(nr, nw, d, s, g) ==
    /\ nr \in 0 .. COUNTER_MOD - 1 /\ nw \in 0 .. COUNTER_MOD - 1
    /\ d \in [Slots -> Nat] /\ s \in Nat /\ g \in Nat
    /\ s - g \in 0 .. PIPESIZE
    /\ (nw - nr) % COUNTER_MOD = s - g
    /\ \A i \in 0 .. (s - g) - 1 : d[(nr + i) % PIPESIZE] = g + i + 1

\* What put(g, k) leaves in the buffer.
Stored(nw, d, s, k) ==
    [x \in Slots |-> LET i == (x - nw) % PIPESIZE IN IF i < k THEN s + i + 1 ELSE d[x]]

\* The counters differ by the number of unread bytes, up to one wrap-around.
LEMMA Apart ==
  ASSUME NEW nr \in 0 .. COUNTER_MOD - 1, NEW nw \in 0 .. COUNTER_MOD - 1, NEW c \in 0 .. PIPESIZE
  PROVE  (nw - nr) % COUNTER_MOD = c <=> nw = nr + c \/ nw = nr + c - COUNTER_MOD
<1>0. COUNTER_MOD \in Nat \ {0} /\ PIPESIZE \in Nat /\ PIPESIZE < COUNTER_MOD
  BY BufferAssumption
<1>1. CASE nw >= nr
  <2>1. nw - nr \in 0 .. COUNTER_MOD - 1 /\ nw - nr = 0 * COUNTER_MOD + (nw - nr)
    BY <1>0, <1>1
  <2>2. (nw - nr) % COUNTER_MOD = nw - nr
    BY <1>0, <2>1, ModUnique
  <2> QED
    BY <1>0, <1>1, <2>2
<1>2. CASE nw < nr
  <2> DEFINE r == nw - nr + COUNTER_MOD
  <2>1. r \in 0 .. COUNTER_MOD - 1 /\ nw - nr = (-1) * COUNTER_MOD + r
    BY <1>0, <1>2
  <2>2. (nw - nr) % COUNTER_MOD = r
    <3> HIDE DEF r
    <3> QED
      BY <1>0, <2>1, ModUnique
  <2> QED
    BY <1>0, <1>2, <2>2
<1> QED
  BY <1>0, <1>1, <1>2

\* A counter that moves on by at most the buffer's size wraps at most once.
LEMMA Moved ==
  ASSUME NEW n \in 0 .. COUNTER_MOD - 1, NEW k \in 0 .. PIPESIZE
  PROVE  /\ (n + k) % COUNTER_MOD \in 0 .. COUNTER_MOD - 1
         /\ (n + k) % COUNTER_MOD = n + k \/ (n + k) % COUNTER_MOD = n + k - COUNTER_MOD
<1>0. COUNTER_MOD \in Nat \ {0} /\ PIPESIZE \in Nat /\ PIPESIZE < COUNTER_MOD
  BY BufferAssumption
<1>1. CASE n + k < COUNTER_MOD
  <2>1. n + k \in 0 .. COUNTER_MOD - 1 /\ n + k = 0 * COUNTER_MOD + (n + k)
    BY <1>0, <1>1
  <2> QED
    BY <1>0, <2>1, ModUnique
<1>2. CASE n + k >= COUNTER_MOD
  <2> DEFINE r == n + k - COUNTER_MOD
  <2>1. r \in 0 .. COUNTER_MOD - 1 /\ n + k = 1 * COUNTER_MOD + r
    BY <1>0, <1>2
  <2>2. (n + k) % COUNTER_MOD = r
    <3> HIDE DEF r
    <3> QED
      BY <1>0, <2>1, ModUnique
  <2> QED
    BY <2>1, <2>2
<1> QED
  BY <1>0, <1>1, <1>2

\* Slots do not notice that a counter wraps: PIPESIZE divides COUNTER_MOD.
LEMMA SlotWrap ==
  ASSUME NEW x \in Int
  PROVE  (x - COUNTER_MOD) % PIPESIZE = x % PIPESIZE
<1> DEFINE K == COUNTER_MOD \div PIPESIZE
<1>1. K \in Int /\ COUNTER_MOD = K * PIPESIZE /\ PIPESIZE \in Nat \ {0}
  BY BufferAssumption, ModParts
<1> HIDE DEF K
<1>2. x - COUNTER_MOD = x + (-K) * PIPESIZE
  BY <1>1
<1>3. (x + (-K) * PIPESIZE) % PIPESIZE = x % PIPESIZE
  <2>1. -K \in Int
    BY <1>1
  <2> QED
    BY <1>1, <2>1, ModShift
<1> QED
  BY <1>2, <1>3

\* Where the i-th unread byte lies, seen from the write counter.
LEMMA FromWrite ==
  ASSUME NEW nr \in 0 .. COUNTER_MOD - 1, NEW nw \in 0 .. COUNTER_MOD - 1, NEW c \in 0 .. PIPESIZE,
         nw = nr + c \/ nw = nr + c - COUNTER_MOD, NEW i \in 0 .. PIPESIZE - 1
  PROVE  /\ (nr + i) % PIPESIZE \in Slots
         /\ (((nr + i) % PIPESIZE) - nw) % PIPESIZE = IF i >= c THEN i - c ELSE i - c + PIPESIZE
<1> DEFINE P == PIPESIZE
           s == (nr + i) % P
           d == (nr + i) \div P
           r == IF i >= c THEN i - c ELSE i - c + P
<1>0. P \in Nat \ {0} /\ COUNTER_MOD \in Int
  BY BufferAssumption
<1>1. s \in 0 .. P - 1 /\ nr + i = d * P + s /\ d \in Int
  <2>1. nr + i \in Int
    BY BufferAssumption
  <2> QED
    BY <1>0, <2>1, ModParts
<1>2. r \in 0 .. P - 1 /\ r \in Int
  BY <1>0
<1>3. (i - c) % P = r
  <2>1. CASE i >= c
    <3>1. i - c = 0 * P + r
      BY <1>0, <2>1
    <3> HIDE DEF r
    <3> QED
      BY <1>0, <1>2, <3>1, ModUnique
  <2>2. CASE ~(i >= c)
    <3>1. i - c = (-1) * P + r
      BY <1>0, <2>2
    <3> HIDE DEF r
    <3> QED
      BY <1>0, <1>2, <3>1, ModUnique
  <2> QED
    BY <2>1, <2>2
<1> HIDE DEF s, d, r
<1>4. (s - (nr + c)) % P = r
  <2>1. s - (nr + c) = (i - c) + (-d) * P
    BY <1>0, <1>1, BufferAssumption
  <2>2. (i - c) \in Int /\ -d \in Int
    BY <1>0, <1>1
  <2>3. ((i - c) + (-d) * P) % P = (i - c) % P
    BY <1>0, <2>2, ModShift
  <2> QED
    BY <1>3, <2>1, <2>3
<1>5. (s - nw) % P = r
  <2>1. CASE nw = nr + c
    BY <1>4, <2>1
  <2>2. CASE nw = nr + c - COUNTER_MOD
    <3> DEFINE y == s - nw
    <3>1. y \in Int /\ y - COUNTER_MOD = s - (nr + c)
      BY <1>0, <1>1, <2>2, BufferAssumption
    <3> HIDE DEF y
    <3>2. y % P = r
      BY <1>4, <3>1, SlotWrap
    <3> QED
      BY <3>2 DEF y
  <2> QED
    BY <2>1, <2>2
<1> QED
  BY <1>1, <1>5 DEF s, r, Slots

\* k more bytes fit: they follow the unread ones and overwrite none of them.
LEMMA PutRing ==
  ASSUME NEW nr, NEW nw, NEW d, NEW s, NEW g, Ring(nr, nw, d, s, g),
         NEW k \in Nat, k <= PIPESIZE - (s - g)
  PROVE  Ring(nr, (nw + k) % COUNTER_MOD, Stored(nw, d, s, k), s + k, g)
<1> DEFINE c == s - g
           w == (nw + k) % COUNTER_MOD
           e == Stored(nw, d, s, k)
<1>0. COUNTER_MOD \in Nat \ {0} /\ PIPESIZE \in Nat \ {0} /\ PIPESIZE < COUNTER_MOD
  BY BufferAssumption
<1>1. /\ nr \in 0 .. COUNTER_MOD - 1 /\ nw \in 0 .. COUNTER_MOD - 1 /\ s \in Nat /\ g \in Nat
      /\ c \in 0 .. PIPESIZE /\ k \in 0 .. PIPESIZE /\ c + k \in 0 .. PIPESIZE
      /\ (s + k) - g = c + k /\ s + k \in Nat /\ s = g + c
  BY <1>0 DEF Ring
<1>2. nw = nr + c \/ nw = nr + c - COUNTER_MOD
  BY <1>1, Apart DEF Ring
<1>3. w \in 0 .. COUNTER_MOD - 1 /\ (w = nw + k \/ w = nw + k - COUNTER_MOD)
  BY <1>1, Moved
<1>4. e \in [Slots -> Nat]
  <2>1. \A x \in Slots : (x - nw) % PIPESIZE \in Nat
    <3>1. \A y \in Int : y % PIPESIZE \in Nat
      BY <1>0, ModParts
    <3>2. \A x \in Slots : x - nw \in Int
      BY <1>0, <1>1 DEF Slots
    <3> QED
      BY <3>1, <3>2, Zenon
  <2> QED
    BY <1>1, <2>1 DEF Ring, Stored
<1>5. ASSUME NEW i \in 0 .. (c + k) - 1
      PROVE  e[(nr + i) % PIPESIZE] = g + i + 1
  <2> DEFINE x == (nr + i) % PIPESIZE
  <2>1. i \in 0 .. PIPESIZE - 1
    BY <1>0, <1>1
  <2>2. x \in Slots /\ (x - nw) % PIPESIZE = IF i >= c THEN i - c ELSE i - c + PIPESIZE
    BY <1>1, <1>2, <2>1, FromWrite
  <2>3. i < c => d[x] = g + i + 1
    <3>1. i < c => i \in 0 .. (s - g) - 1
      BY <1>1, <2>1
    <3> QED
      BY <3>1 DEF Ring
  <2> HIDE DEF x
  <2>4. e[x] = IF (x - nw) % PIPESIZE < k THEN s + ((x - nw) % PIPESIZE) + 1 ELSE d[x]
    BY <2>2 DEF Stored
  <2>5. e[x] = g + i + 1
    <3> HIDE DEF e, c
    <3>1. CASE i >= c
      BY <1>1, <2>1, <2>2, <2>4, <3>1
    <3>2. CASE ~(i >= c)
      <4>1. (x - nw) % PIPESIZE = i - c + PIPESIZE /\ ~(i - c + PIPESIZE < k) /\ i < c
        BY <1>0, <1>1, <2>1, <2>2, <3>2
      <4> QED
        BY <2>3, <2>4, <4>1
    <3> QED
      BY <3>1, <3>2
  <2> QED
    BY <2>5 DEF x
<1>6. (w - nr) % COUNTER_MOD = c + k
  <2>1. w = nr + (c + k) \/ w = nr + (c + k) - COUNTER_MOD
    <3> HIDE DEF c, w
    <3> QED
      BY <1>0, <1>1, <1>2, <1>3
  <2> HIDE DEF c, w
  <2> QED
    BY <1>1, <1>3, <2>1, Apart
<1> HIDE DEF c, w, e
<1>7. Ring(nr, w, e, s + k, g)
  BY <1>1, <1>3, <1>4, <1>5, <1>6 DEF Ring
<1> QED
  BY <1>7 DEF w, e

\* The first k unread bytes leave: the others keep their place.
LEMMA TakeRing ==
  ASSUME NEW nr, NEW nw, NEW d, NEW s, NEW g, Ring(nr, nw, d, s, g),
         NEW k \in Nat, k <= s - g
  PROVE  Ring((nr + k) % COUNTER_MOD, nw, d, s, g + k)
<1> DEFINE c == s - g
           r == (nr + k) % COUNTER_MOD
<1>0. COUNTER_MOD \in Nat \ {0} /\ PIPESIZE \in Nat \ {0} /\ PIPESIZE < COUNTER_MOD
  BY BufferAssumption
<1>1. /\ nr \in 0 .. COUNTER_MOD - 1 /\ nw \in 0 .. COUNTER_MOD - 1 /\ s \in Nat /\ g \in Nat
      /\ c \in 0 .. PIPESIZE /\ k \in 0 .. PIPESIZE /\ c - k \in 0 .. PIPESIZE
      /\ s - (g + k) = c - k /\ g + k \in Nat /\ d \in [Slots -> Nat]
  BY <1>0 DEF Ring
<1>2. nw = nr + c \/ nw = nr + c - COUNTER_MOD
  BY <1>1, Apart DEF Ring
<1>3. r \in 0 .. COUNTER_MOD - 1 /\ (r = nr + k \/ r = nr + k - COUNTER_MOD)
  BY <1>1, Moved
<1>4. ASSUME NEW i \in 0 .. (c - k) - 1
      PROVE  d[(r + i) % PIPESIZE] = (g + k) + i + 1
  <2>1. k + i \in 0 .. c - 1 /\ nr + (k + i) \in Int
    BY <1>0, <1>1
  <2>2. d[(nr + (k + i)) % PIPESIZE] = g + (k + i) + 1
    BY <2>1 DEF Ring
  <2> HIDE DEF r
  <2>3. (r + i) % PIPESIZE = (nr + (k + i)) % PIPESIZE
    <3>1. CASE r = nr + k
      <4>1. r + i = nr + (k + i)
        BY <1>1, <3>1
      <4> QED
        BY <4>1
    <3>2. CASE r = nr + k - COUNTER_MOD
      <4>1. r + i = (nr + (k + i)) - COUNTER_MOD
        BY <1>0, <1>1, <3>2
      <4> QED
        BY <2>1, <4>1, SlotWrap
    <3> QED
      BY <1>3, <3>1, <3>2
  <2>4. g + (k + i) + 1 = (g + k) + i + 1
    BY <1>1
  <2> QED
    BY <2>2, <2>3, <2>4
<1>5. (nw - r) % COUNTER_MOD = c - k
  <2>1. nw = r + (c - k) \/ nw = r + (c - k) - COUNTER_MOD
    <3> HIDE DEF c, r
    <3>1. r = nr + k \/ r = nr + k - COUNTER_MOD
      BY <1>3
    <3> QED
      BY <1>0, <1>1, <1>2, <1>3
  <2> HIDE DEF c, r
  <2> QED
    BY <1>1, <1>3, <2>1, Apart
<1> HIDE DEF c, r
<1>6. Ring(r, nw, d, s, g + k)
  BY <1>1, <1>3, <1>4, <1>5 DEF Ring
<1> QED
  BY <1>6 DEF r

(***************************************************************************)
(* The rings of all pages                                                  *)
(***************************************************************************)
RingInv ==
    /\ nread \in [Pages -> 0 .. COUNTER_MOD - 1] /\ nwrite \in [Pages -> 0 .. COUNTER_MOD - 1]
    /\ data \in [Pages -> [Slots -> Nat]]
    /\ sent \in [Pages -> Nat] /\ got \in [Pages -> Nat]
    /\ \A g \in Pages : Ring(nread[g], nwrite[g], data[g], sent[g], got[g])

\* What the code computes as the room left, or the bytes available, is right.
LEMMA RoomAvail ==
  ASSUME RingInv, NEW g \in Pages
  PROVE  /\ Avail(g) = sent[g] - got[g] /\ Avail(g) \in 0 .. PIPESIZE
         /\ Room(g) = PIPESIZE - Avail(g) /\ Room(g) \in 0 .. PIPESIZE
<1> DEFINE c == sent[g] - got[g]
           nr == nread[g]
           nw == nwrite[g]
<1>0. COUNTER_MOD \in Nat \ {0} /\ PIPESIZE \in Nat \ {0} /\ PIPESIZE < COUNTER_MOD
  BY BufferAssumption
<1>1. Ring(nr, nw, data[g], sent[g], got[g])
  BY DEF RingInv
<1>2. nr \in 0 .. COUNTER_MOD - 1 /\ nw \in 0 .. COUNTER_MOD - 1 /\ c \in 0 .. PIPESIZE
  BY <1>1 DEF Ring
<1>3. Avail(g) = c
  BY <1>1 DEF Ring, Avail
<1>4. nw = nr + c \/ nw = nr + c - COUNTER_MOD
  BY <1>1, <1>2, Apart DEF Ring
<1> HIDE DEF c, nr, nw
<1> DEFINE r == PIPESIZE - c
<1>5. r \in 0 .. COUNTER_MOD - 1 /\ r \in 0 .. PIPESIZE
  BY <1>0, <1>2
<1>6. (nr + PIPESIZE - nw) % COUNTER_MOD = r
  <2>1. nr + PIPESIZE - nw = 0 * COUNTER_MOD + r \/ nr + PIPESIZE - nw = 1 * COUNTER_MOD + r
    BY <1>0, <1>2, <1>4
  <2> HIDE DEF r
  <2>2. (0 * COUNTER_MOD + r) % COUNTER_MOD = r /\ (1 * COUNTER_MOD + r) % COUNTER_MOD = r
    BY <1>0, <1>5, ModUnique
  <2> QED
    BY <2>1, <2>2, Zenon
<1> QED
  BY <1>2, <1>3, <1>5, <1>6 DEF Room, c, nr, nw

LEMMA RingPut ==
  ASSUME RingInv, NEW g \in Pages, NEW k \in Nat, k <= Room(g), put(g, k)
  PROVE  RingInv'
<1>1. /\ data' = [data EXCEPT ![g] = Stored(nwrite[g], data[g], sent[g], k)]
      /\ nwrite' = [nwrite EXCEPT ![g] = (nwrite[g] + k) % COUNTER_MOD]
      /\ sent' = [sent EXCEPT ![g] = sent[g] + k]
      /\ UNCHANGED <<nread, got>>
  BY DEF put, Stored
<1>2. k <= PIPESIZE - (sent[g] - got[g])
  BY RoomAvail
<1>3. Ring(nread[g], (nwrite[g] + k) % COUNTER_MOD, Stored(nwrite[g], data[g], sent[g], k), sent[g] + k, got[g])
  BY <1>2, PutRing DEF RingInv
<1> DEFINE w == (nwrite[g] + k) % COUNTER_MOD
           e == Stored(nwrite[g], data[g], sent[g], k)
           s == sent[g] + k
<1>4. /\ w \in 0 .. COUNTER_MOD - 1 /\ e \in [Slots -> Nat] /\ s \in Nat
      /\ Ring(nread[g], w, e, s, got[g])
      /\ data' = [data EXCEPT ![g] = e] /\ nwrite' = [nwrite EXCEPT ![g] = w] /\ sent' = [sent EXCEPT ![g] = s]
  BY <1>1, <1>3 DEF Ring
<1> HIDE DEF w, e, s
<1>5. nwrite' \in [Pages -> 0 .. COUNTER_MOD - 1] /\ data' \in [Pages -> [Slots -> Nat]] /\ sent' \in [Pages -> Nat]
  BY <1>4 DEF RingInv
<1>6. ASSUME NEW h \in Pages
      PROVE  Ring(nread'[h], nwrite'[h], data'[h], sent'[h], got'[h])
  <2>1. CASE h = g
    <3>1. nread'[h] = nread[g] /\ nwrite'[h] = w /\ data'[h] = e /\ sent'[h] = s /\ got'[h] = got[g]
      BY <1>1, <1>4, <2>1 DEF RingInv
    <3> QED
      BY <1>4, <3>1
  <2>2. CASE h # g
    <3>1. nread'[h] = nread[h] /\ nwrite'[h] = nwrite[h] /\ data'[h] = data[h] /\ sent'[h] = sent[h] /\ got'[h] = got[h]
      BY <1>1, <1>4, <2>2 DEF RingInv
    <3> QED
      BY <3>1 DEF RingInv
  <2> QED
    BY <2>1, <2>2
<1> QED
  BY <1>1, <1>5, <1>6 DEF RingInv

LEMMA RingTake ==
  ASSUME RingInv, NEW g \in Pages, NEW k \in Nat, k <= Avail(g), take(g, k)
  PROVE  RingInv'
<1> DEFINE r == (nread[g] + k) % COUNTER_MOD
           o == got[g] + k
<1>1. Ring(r, nwrite[g], data[g], sent[g], o)
  BY RoomAvail, TakeRing DEF RingInv
<1>2. /\ r \in 0 .. COUNTER_MOD - 1 /\ o \in Nat
      /\ nread' = [nread EXCEPT ![g] = r] /\ got' = [got EXCEPT ![g] = o]
      /\ UNCHANGED <<nwrite, data, sent>>
  BY <1>1 DEF take, Ring
<1> HIDE DEF r, o
<1>3. nread' \in [Pages -> 0 .. COUNTER_MOD - 1] /\ got' \in [Pages -> Nat]
  BY <1>2 DEF RingInv
<1>4. ASSUME NEW h \in Pages
      PROVE  Ring(nread'[h], nwrite'[h], data'[h], sent'[h], got'[h])
  <2>1. CASE h = g
    <3>1. nread'[h] = r /\ nwrite'[h] = nwrite[g] /\ data'[h] = data[g] /\ sent'[h] = sent[g] /\ got'[h] = o
      BY <1>2, <2>1 DEF RingInv
    <3> QED
      BY <1>1, <3>1
  <2>2. CASE h # g
    <3>1. nread'[h] = nread[h] /\ nwrite'[h] = nwrite[h] /\ data'[h] = data[h] /\ sent'[h] = sent[h] /\ got'[h] = got[h]
      BY <1>2, <2>2 DEF RingInv
    <3> QED
      BY <3>1 DEF RingInv
  <2> QED
    BY <2>1, <2>2
<1> QED
  BY <1>2, <1>3, <1>4 DEF RingInv

\* A page starts over, as a new pipe or as free memory.
LEMMA RingReset ==
  ASSUME RingInv, NEW g \in Pages, NEW n \in {0, Junk}, NEW d \in [Slots -> Nat],
         nread' = [nread EXCEPT ![g] = n], nwrite' = [nwrite EXCEPT ![g] = n],
         sent' = [sent EXCEPT ![g] = 0], got' = [got EXCEPT ![g] = 0],
         data' = [data EXCEPT ![g] = d]
  PROVE  RingInv'
<1>0. COUNTER_MOD \in Nat \ {0} /\ PIPESIZE \in Nat \ {0} /\ PIPESIZE < COUNTER_MOD
  BY BufferAssumption
<1>1. n \in 0 .. COUNTER_MOD - 1
  BY <1>0 DEF Junk
<1>2. Ring(n, n, d, 0, 0)
  <2>1. (n - n) % COUNTER_MOD = 0
    BY <1>0, <1>1, Apart
  <2> QED
    BY <1>0, <1>1, <2>1 DEF Ring
<1>3. /\ nread' \in [Pages -> 0 .. COUNTER_MOD - 1] /\ nwrite' \in [Pages -> 0 .. COUNTER_MOD - 1]
      /\ data' \in [Pages -> [Slots -> Nat]]
      /\ sent' \in [Pages -> Nat] /\ got' \in [Pages -> Nat]
  BY <1>1 DEF RingInv
<1>4. ASSUME NEW h \in Pages
      PROVE  Ring(nread'[h], nwrite'[h], data'[h], sent'[h], got'[h])
  <2>1. CASE h = g
    <3>1. nread'[h] = n /\ nwrite'[h] = n /\ data'[h] = d /\ sent'[h] = 0 /\ got'[h] = 0
      BY <2>1 DEF RingInv
    <3> QED
      BY <1>2, <3>1
  <2>2. CASE h # g
    <3>1. nread'[h] = nread[h] /\ nwrite'[h] = nwrite[h] /\ data'[h] = data[h] /\ sent'[h] = sent[h] /\ got'[h] = got[h]
      BY <2>2 DEF RingInv
    <3> QED
      BY <3>1 DEF RingInv
  <2> QED
    BY <2>1, <2>2
<1> QED
  BY <1>3, <1>4 DEF RingInv

(***************************************************************************)
(* Descriptors, files and pages                                            *)
(***************************************************************************)
Ops == [kind : {"read", "write"}, file : Files, pipe : Pages, left : Nat \ {0}]

TableType ==
    /\ used \in [Procs -> BOOLEAN] /\ fdt \in [Procs \X Fds -> Files \cup {None}]
    /\ ref \in [Files -> Nat] /\ type \in [Files -> {"FD_NONE", "FD_PIPE"}]
    /\ writable \in [Files -> {0, 1}] /\ fpipe \in [Files -> Pages \cup {None}]
    /\ live \in [Pages -> BOOLEAN]
    /\ readopen \in [Pages -> {0, 1}] /\ writeopen \in [Pages -> {0, 1}]
    /\ op \in [Threads -> Ops \cup {Idle}] /\ cut \subseteq Threads /\ panicked \in BOOLEAN

\* An open file is an end of a live pipe.
OpenFiles == \A f \in Files : ref[f] > 0 => type[f] = "FD_PIPE" /\ fpipe[f] \in Pages /\ live[fpipe[f]]

\* An end of a pipe is one file.
OneFile == \A f, h \in Files :
    ref[f] > 0 /\ ref[h] > 0 /\ fpipe[f] = fpipe[h] /\ writable[f] = writable[h] => f = h

\* Every descriptor is counted.
Counted == \A f \in Files : ref[f] >= Cardinality(Holders(f))

FileInv == OpenFiles /\ OneFile /\ Counted /\ EndsTruth

\* A suspended thread's process still has a descriptor of the file, unless a
\* sibling closed it.
Suspended == \A t \in Threads : op[t] # Idle /\ t \notin cut =>
    /\ used[Proc(t)]
    /\ \E d \in Fds : fdt[<<Proc(t), d>>] = op[t].file
    /\ fpipe[op[t].file] = op[t].pipe

PipeInv == TableType /\ RingInv /\ FileInv /\ Suspended

LEMMA IntRange == /\ NPROC \in Nat /\ NTHREAD \in Nat /\ FD_BUFFER_SIZE \in Nat
                  /\ FILEPOOLSIZE \in Nat /\ NPAGE \in Nat
                  /\ None \notin Files /\ None \notin Pages /\ None \notin Fds
  BY TableAssumption DEF None, Files, Pages, Fds

LEMMA HoldersFinite ==
  ASSUME NEW S \in SUBSET (Procs \X Fds)
  PROVE  IsFiniteSet(S) /\ Cardinality(S) \in Nat
<1>1. IsFiniteSet(Procs) /\ IsFiniteSet(Fds)
  BY IntRange, FS_Interval DEF Procs, Fds
<1>2. IsFiniteSet(Procs \X Fds)
  BY <1>1, FS_Product
<1>3. IsFiniteSet(S)
  BY <1>2, FS_Subset
<1> QED
  BY <1>3, FS_CardinalityType

LEMMA HoldersSubset == \A f : Holders(f) \in SUBSET (Procs \X Fds)
  BY DEF Holders

\* What a descriptor of a process in use names is open.
LEMMA HeldOpen ==
  ASSUME TableType, FileInv, NEW p \in Procs, NEW d \in Fds, used[p], fdt[<<p, d>>] # None
  PROVE  /\ fdt[<<p, d>>] \in Files /\ ref[fdt[<<p, d>>]] > 0
         /\ type[fdt[<<p, d>>]] = "FD_PIPE"
         /\ fpipe[fdt[<<p, d>>]] \in Pages /\ live[fpipe[fdt[<<p, d>>]]]
<1> DEFINE x == <<p, d>>
           f == fdt[x]
<1>1. x \in Procs \X Fds /\ x[1] = p /\ f \in Files
  BY DEF TableType
<1>2. x \in Holders(f)
  BY <1>1 DEF Holders
<1> HIDE DEF x, f
<1>3. Holders(f) # {} /\ IsFiniteSet(Holders(f)) /\ Cardinality(Holders(f)) \in Nat
  BY <1>2, HoldersFinite, HoldersSubset
<1>4. Cardinality(Holders(f)) > 0
  BY <1>3, FS_EmptySet
<1>5. ref[f] > 0
  <2>1. ref[f] \in Nat /\ ref[f] >= Cardinality(Holders(f))
    BY <1>1 DEF FileInv, Counted, TableType
  <2> QED
    BY <1>3, <1>4, <2>1
<1>6. type[f] = "FD_PIPE" /\ fpipe[f] \in Pages /\ live[fpipe[f]]
  BY <1>1, <1>5 DEF FileInv, OpenFiles
<1> QED
  BY <1>1, <1>5, <1>6 DEF f, x

\* A file nobody references has no descriptor.
LEMMA FreeUnheld ==
  ASSUME TableType, Counted, NEW f \in Files, ref[f] = 0
  PROVE  Holders(f) = {}
<1>1. IsFiniteSet(Holders(f)) /\ Cardinality(Holders(f)) \in Nat
  BY HoldersFinite, HoldersSubset
<1>2. Cardinality(Holders(f)) = 0
  BY <1>1 DEF Counted
<1> QED
  BY <1>1, <1>2, FS_EmptySet

\* The invariant gives what the runs check.
LEMMA PipeInvGives == PipeInv => FilesTrue /\ StreamIntact /\ SuspendedSafe
<1> SUFFICES ASSUME PipeInv PROVE FilesTrue /\ StreamIntact /\ SuspendedSafe
  OBVIOUS
<1>1. TypeOK
  <2>1. \A t \in Threads :
          op[t] = Idle \/ (op[t].kind \in {"read", "write"} /\ op[t].file \in Files
                           /\ op[t].pipe \in Pages /\ op[t].left \in Nat \ {0})
    BY DEF PipeInv, TableType, Ops
  <2> QED
    BY <2>1 DEF PipeInv, TableType, RingInv, TypeOK
<1>2. NoDanglingFd
  <2> SUFFICES ASSUME NEW f \in Files, Holders(f) # {}
               PROVE  ref[f] >= Cardinality(Holders(f)) /\ type[f] = "FD_PIPE" /\ live[fpipe[f]]
    BY DEF NoDanglingFd
  <2>1. PICK x \in Procs \X Fds : used[x[1]] /\ fdt[x] = f
    BY DEF Holders
  <2>2. PICK p \in Procs, d \in Fds : x = <<p, d>>
    BY <2>1
  <2>3. f # None
    BY IntRange
  <2> QED
    BY <2>1, <2>2, <2>3, HeldOpen DEF PipeInv, FileInv, Counted
<1>3. StreamIntact
  <2> SUFFICES ASSUME NEW g \in Pages
               PROVE  /\ sent[g] - got[g] \in 0 .. PIPESIZE
                      /\ Avail(g) = sent[g] - got[g]
                      /\ \A i \in 0 .. Avail(g) - 1 : data[g][(nread[g] + i) % PIPESIZE] = got[g] + i + 1
    BY DEF StreamIntact
  <2>1. Ring(nread[g], nwrite[g], data[g], sent[g], got[g]) /\ Avail(g) = sent[g] - got[g]
    BY RoomAvail DEF PipeInv, RingInv
  <2> QED
    BY <2>1 DEF Ring
<1>4. SuspendedSafe
  <2> SUFFICES ASSUME NEW t \in Threads, op[t] # Idle, t \notin cut
               PROVE  live[op[t].pipe] /\ ref[op[t].file] > 0 /\ fpipe[op[t].file] = op[t].pipe
    BY DEF SuspendedSafe
  <2>1. PICK d \in Fds : fdt[<<Proc(t), d>>] = op[t].file
    BY DEF PipeInv, Suspended
  <2>2. used[Proc(t)] /\ fpipe[op[t].file] = op[t].pipe /\ op[t].file \in Files /\ Proc(t) \in Procs
    BY DEF PipeInv, Suspended, TableType, Ops, Proc, Threads
  <2>3. op[t].file # None
    BY <2>2, IntRange
  <2> QED
    BY <2>1, <2>2, <2>3, HeldOpen DEF PipeInv
<1> QED
  BY <1>1, <1>2, <1>3, <1>4 DEF PipeInv, FileInv, FilesTrue

(***************************************************************************)
(* read, write and what follows a yield                                    *)
(***************************************************************************)
LEMMA FileSame ==
  ASSUME FileInv, UNCHANGED <<used, fdt, fileVars, live, readopen, writeopen>>
  PROVE  FileInv'
  BY DEF FileInv, OpenFiles, OneFile, Counted, EndsTruth, OpenOn, Holders, fileVars

LEMMA ThreadProc == \A t \in Threads : Proc(t) \in Procs
  BY DEF Threads, Proc

\* The thread t is in a call on file f, whose pipe is in page g.
InCall(t, f, g) ==
    t \notin cut => used[Proc(t)] /\ (\E d \in Fds : fdt[<<Proc(t), d>>] = f) /\ fpipe[f] = g

LEMMA Ended ==
  ASSUME TableType, Suspended, NEW t \in Threads, Done(t), UNCHANGED <<used, fdt, fpipe>>
  PROVE  op' \in [Threads -> Ops \cup {Idle}] /\ cut' \subseteq Threads /\ Suspended'
<1>1. op' \in [Threads -> Ops \cup {Idle}] /\ cut' \subseteq Threads
  BY DEF TableType, Done
<1>2. ASSUME NEW u \in Threads, op'[u] # Idle, u \notin cut'
      PROVE  op'[u] = op[u] /\ u \notin cut
  BY <1>2 DEF TableType, Done
<1>3. Suspended'
  BY <1>2 DEF Suspended
<1> QED
  BY <1>1, <1>3

LEMMA Yielded ==
  ASSUME TableType, Suspended, NEW t \in Threads, NEW k \in {"read", "write"}, NEW f \in Files,
         NEW g \in Pages, NEW n \in Nat \ {0}, InCall(t, f, g), Yield(t, k, f, g, n),
         UNCHANGED <<used, fdt, fpipe>>
  PROVE  op' \in [Threads -> Ops \cup {Idle}] /\ cut' \subseteq Threads /\ Suspended'
<1> DEFINE o == [kind |-> k, file |-> f, pipe |-> g, left |-> n]
<1>1. o \in Ops /\ o.file = f /\ o.pipe = g /\ op' = [op EXCEPT ![t] = o] /\ cut' = cut
  BY DEF Ops, Yield
<1> HIDE DEF o
<1>2. op' \in [Threads -> Ops \cup {Idle}] /\ cut' \subseteq Threads
  BY <1>1 DEF TableType
<1>3. ASSUME NEW u \in Threads, op'[u] # Idle, u \notin cut'
      PROVE  /\ used'[Proc(u)]
             /\ \E d \in Fds : fdt'[<<Proc(u), d>>] = op'[u].file
             /\ fpipe'[op'[u].file] = op'[u].pipe
  <2>1. CASE u = t
    <3>1. op'[u] = o
      BY <1>1, <2>1 DEF TableType
    <3> QED
      BY <1>1, <1>3, <2>1, <3>1 DEF InCall
  <2>2. CASE u # t
    <3>1. op'[u] = op[u]
      BY <1>1, <2>2 DEF TableType
    <3> QED
      BY <1>1, <1>3, <3>1 DEF Suspended
  <2> QED
    BY <2>1, <2>2
<1> QED
  BY <1>2, <1>3 DEF Suspended

LEMMA WriteStep ==
  ASSUME PipeInv, NEW t \in Threads, NEW f \in Files, NEW g \in Pages, NEW n \in Nat \ {0},
         InCall(t, f, g), pipewrite(t, f, g, n)
  PROVE  PipeInv'
<1>1. /\ UNCHANGED <<used, fdt, fileVars, live, readopen, writeopen, panicked>>
      /\ UNCHANGED <<ref, type, writable, fpipe>>
  BY DEF pipewrite, fileVars
<1>2. FileInv'
  BY <1>1, FileSame DEF PipeInv
<1>3. CASE Done(t) /\ UNCHANGED ringVars
  <2>1. RingInv'
    BY <1>3 DEF PipeInv, RingInv, ringVars
  <2>2. op' \in [Threads -> Ops \cup {Idle}] /\ cut' \subseteq Threads /\ Suspended'
    BY <1>1, <1>3, Ended DEF PipeInv
  <2> QED
    BY <1>1, <1>2, <2>1, <2>2 DEF PipeInv, TableType
<1>4. ASSUME NEW k, k = Min({n, Room(g)}), put(g, k),
             IF k = n THEN Done(t) ELSE Yield(t, "write", f, g, n - k)
      PROVE  PipeInv'
  <2>1. Room(g) \in 0 .. PIPESIZE /\ PIPESIZE \in Nat
    BY RoomAvail, BufferAssumption DEF PipeInv
  <2>2. k \in Nat /\ k <= Room(g) /\ k <= n
    BY <1>4, <2>1, MinTwo
  <2>3. RingInv'
    BY <1>4, <2>2, RingPut DEF PipeInv
  <2>4. op' \in [Threads -> Ops \cup {Idle}] /\ cut' \subseteq Threads /\ Suspended'
    <3>1. CASE k = n
      BY <1>1, <1>4, <3>1, Ended DEF PipeInv
    <3>2. CASE k # n
      <4>1. n - k \in Nat \ {0}
        BY <2>2, <3>2
      <4> QED
        BY <1>1, <1>4, <3>2, <4>1, Yielded DEF PipeInv
    <3> QED
      BY <3>1, <3>2
  <2> QED
    BY <1>1, <1>2, <2>3, <2>4 DEF PipeInv, TableType
<1> QED
  BY <1>3, <1>4 DEF pipewrite

LEMMA ReadStep ==
  ASSUME PipeInv, NEW t \in Threads, NEW f \in Files, NEW g \in Pages, NEW n \in Nat \ {0},
         InCall(t, f, g), piperead(t, f, g, n)
  PROVE  PipeInv'
<1>1. /\ UNCHANGED <<used, fdt, fileVars, live, readopen, writeopen, panicked>>
      /\ UNCHANGED <<ref, type, writable, fpipe>>
  BY DEF piperead, fileVars
<1>2. FileInv'
  BY <1>1, FileSame DEF PipeInv
<1>3. RingInv'
  <2>1. CASE take(g, Min({n, Avail(g)}))
    <3>1. Avail(g) \in 0 .. PIPESIZE /\ PIPESIZE \in Nat
      BY RoomAvail, BufferAssumption DEF PipeInv
    <3> DEFINE k == Min({n, Avail(g)})
    <3>2. k \in Nat /\ k <= Avail(g)
      BY <3>1, MinTwo
    <3> HIDE DEF k
    <3>3. take(g, k)
      BY <2>1 DEF k
    <3> QED
      BY <3>2, <3>3, RingTake DEF PipeInv
  <2>2. CASE UNCHANGED ringVars
    BY <2>2 DEF PipeInv, RingInv, ringVars
  <2> QED
    BY <2>1, <2>2 DEF piperead
<1>4. op' \in [Threads -> Ops \cup {Idle}] /\ cut' \subseteq Threads /\ Suspended'
  <2>1. CASE Done(t)
    BY <1>1, <2>1, Ended DEF PipeInv
  <2>2. CASE Yield(t, "read", f, g, n)
    BY <1>1, <2>2, Yielded DEF PipeInv
  <2> QED
    BY <2>1, <2>2 DEF piperead
<1> QED
  BY <1>1, <1>2, <1>3, <1>4 DEF PipeInv, TableType

\* A call by way of a descriptor, and what follows the yield inside one.
LEMMA CallStep ==
  ASSUME PipeInv, NEW t \in Threads, NEW d \in Fds, NEW n \in Int,
         sys_write(t, d, n) \/ sys_read(t, d, n)
  PROVE  PipeInv'
<1> DEFINE f == fdt[<<Proc(t), d>>]
<1>1. used[Proc(t)] /\ f # None /\ Proc(t) \in Procs
  BY ThreadProc DEF sys_write, sys_read
<1>2. f \in Files /\ fpipe[f] \in Pages
  BY <1>1, HeldOpen DEF PipeInv
<1>3. InCall(t, f, fpipe[f])
  BY <1>1 DEF InCall
<1>4. CASE n <= 0
  <2>1. UNCHANGED <<used, fdt, fileVars, pipeVars, op, cut>> /\ panicked' = TRUE
    BY <1>4 DEF sys_write, sys_read
  <2>2. FileInv'
    BY <2>1, FileSame DEF PipeInv, pipeVars
  <2>3. RingInv' /\ TableType' /\ Suspended'
    BY <2>1 DEF PipeInv, RingInv, TableType, Suspended, pipeVars, fileVars, ringVars
  <2> QED
    BY <2>2, <2>3 DEF PipeInv
<1>5. CASE ~(n <= 0)
  <2>1. n \in Nat \ {0} /\ (pipewrite(t, f, fpipe[f], n) \/ piperead(t, f, fpipe[f], n))
    BY <1>5 DEF sys_write, sys_read
  <2> HIDE DEF f
  <2> QED
    BY <1>2, <1>3, <2>1, WriteStep, ReadStep
<1> QED
  BY <1>4, <1>5

LEMMA ResumeStep ==
  ASSUME PipeInv, NEW t \in Threads, pipe_resume(t)
  PROVE  PipeInv'
<1>1. op[t] # Idle
  BY DEF pipe_resume, Idle
<1>2. op[t].file \in Files /\ op[t].pipe \in Pages /\ op[t].left \in Nat \ {0}
  BY <1>1 DEF PipeInv, TableType, Ops
<1>3. InCall(t, op[t].file, op[t].pipe)
  BY <1>1 DEF PipeInv, Suspended, InCall
<1> QED
  BY <1>2, <1>3, WriteStep, ReadStep DEF pipe_resume

(***************************************************************************)
(* close                                                                   *)
(***************************************************************************)
\* The flags after an end has gone, and what becomes of the page.
LEMMA CloseRing ==
  ASSUME RingInv, NEW g \in Pages, NEW r \in {0, 1}, NEW w \in {0, 1}, pipeclose(g, r, w)
  PROVE  RingInv'
<1>1. CASE UNCHANGED ringVars
  BY <1>1 DEF RingInv, ringVars
<1>2. CASE ~StillOpen(r, w)
  <2>1. [s \in Slots |-> 0] \in [Slots -> Nat]
    OBVIOUS
  <2> QED
    BY <1>2, <2>1, RingReset DEF pipeclose
<1> QED
  BY <1>1, <1>2 DEF pipeclose

\* The descriptor <<p, d>> is dropped: one holder less.
LEMMA CloseCounted ==
  ASSUME TableType, Counted, NEW p \in Procs, NEW d \in Fds, used[p], NEW f \in Files, fdt[<<p, d>>] = f,
         fdt' = [fdt EXCEPT ![<<p, d>>] = None], used' = used, ref' = [ref EXCEPT ![f] = ref[f] - 1]
  PROVE  Counted'
<1> DEFINE x == <<p, d>>
<1>1. x \in Procs \X Fds /\ x[1] = p /\ fdt[x] = f /\ fdt' = [fdt EXCEPT ![x] = None]
  OBVIOUS
<1> HIDE DEF x
<1>2. ASSUME NEW h \in Files
      PROVE  Holders(h)' = IF h = f THEN Holders(h) \ {x} ELSE Holders(h)
  BY <1>1, IntRange DEF TableType, Holders
<1>3. x \in Holders(f)
  BY <1>1 DEF Holders
<1> SUFFICES ASSUME NEW h \in Files
             PROVE  ref'[h] >= Cardinality(Holders(h)')
  BY DEF Counted
<1>4. IsFiniteSet(Holders(h)) /\ Cardinality(Holders(h)) \in Nat
  BY HoldersFinite, HoldersSubset
<1>5. ref[h] \in Nat /\ ref[h] >= Cardinality(Holders(h))
  BY DEF TableType, Counted
<1>6. CASE h = f
  <2>1. Cardinality(Holders(h) \ {x}) = Cardinality(Holders(h)) - 1
    BY <1>3, <1>4, <1>6, FS_RemoveElement
  <2>2. Holders(h)' = Holders(h) \ {x}
    BY <1>2, <1>6
  <2>3. ref'[h] = ref[h] - 1
    BY <1>6 DEF TableType
  <2> QED
    BY <1>4, <1>5, <2>1, <2>2, <2>3
<1>7. CASE h # f
  <2>1. Holders(h)' = Holders(h) /\ ref'[h] = ref[h]
    BY <1>2, <1>7 DEF TableType
  <2> QED
    BY <1>5, <2>1
<1> QED
  BY <1>6, <1>7

\* fileclose by way of a descriptor: files and pages agree again.
LEMMA CloseFiles ==
  ASSUME TableType, OpenFiles, OneFile, EndsTruth, NEW f \in Files, ref[f] > 0, fileclose(f)
  PROVE  /\ ref' \in [Files -> Nat] /\ type' \in [Files -> {"FD_NONE", "FD_PIPE"}]
         /\ writable' \in [Files -> {0, 1}] /\ live' \in [Pages -> BOOLEAN]
         /\ readopen' \in [Pages -> {0, 1}] /\ writeopen' \in [Pages -> {0, 1}]
         /\ OpenFiles' /\ OneFile' /\ EndsTruth'
<1>0. fpipe[f] \in Pages /\ ReadLeft(f) \in {0, 1} /\ WriteLeft(f) \in {0, 1}
  BY DEF ReadLeft, WriteLeft, TableType, OpenFiles
<1> PICK g \in Pages : g = fpipe[f]
  BY <1>0
<1> PICK r \in {0, 1} : r = ReadLeft(f)
  BY <1>0
<1> PICK w \in {0, 1} : w = WriteLeft(f)
  BY <1>0
<1>1. /\ g \in Pages /\ live[g] /\ type[f] = "FD_PIPE" /\ ref[f] \in Nat /\ ref[f] - 1 \in Nat
      /\ ref' = [ref EXCEPT ![f] = ref[f] - 1] /\ fpipe' = fpipe /\ writable[f] \in {0, 1}
  BY DEF TableType, OpenFiles, fileclose
<1>2. ref' \in [Files -> Nat] /\ ref'[f] = ref[f] - 1 /\ \A h \in Files : h # f => ref'[h] = ref[h]
  BY <1>1 DEF TableType
<1>3. CASE ref[f] > 1
  <2>1. UNCHANGED <<type, writable, live, readopen, writeopen>>
    BY <1>3 DEF fileclose, pipeVars, TableType
  <2>2. \A h \in Files : ref'[h] > 0 <=> ref[h] > 0
    BY <1>1, <1>2, <1>3
  <2>3. OpenFiles' /\ OneFile'
    BY <1>1, <2>1, <2>2 DEF OpenFiles, OneFile
  <2>4. \A h, v : OpenOn(h, v)' <=> OpenOn(h, v)
    BY <1>1, <2>1, <2>2 DEF OpenOn
  <2>5. EndsTruth'
    BY <2>1, <2>4 DEF EndsTruth
  <2> QED
    BY <1>2, <2>1, <2>3, <2>5 DEF TableType
<1>4. CASE ref[f] <= 1
  <2>1. /\ ref'[f] = 0 /\ type' = [type EXCEPT ![f] = "FD_NONE"]
        /\ writable' = [writable EXCEPT ![f] = 0] /\ pipeclose(g, r, w)
    BY <1>1, <1>2, <1>4 DEF fileclose
  <2>2. /\ r = (IF writable[f] = 1 THEN readopen[g] ELSE 0) /\ r \in {0, 1}
        /\ w = (IF writable[f] = 1 THEN 0 ELSE writeopen[g]) /\ w \in {0, 1}
    BY <1>1, <1>4 DEF ReadLeft, WriteLeft, TableType
  <2>3. /\ type' \in [Files -> {"FD_NONE", "FD_PIPE"}] /\ writable' \in [Files -> {0, 1}]
        /\ \A h \in Files : h # f => writable'[h] = writable[h] /\ type'[h] = type[h]
    BY <2>1 DEF TableType
  <2>4. /\ live' \in [Pages -> BOOLEAN]
        /\ readopen' \in [Pages -> {0, 1}] /\ writeopen' \in [Pages -> {0, 1}]
        /\ \A h \in Pages : h # g => live'[h] = live[h] /\ readopen'[h] = readopen[h] /\ writeopen'[h] = writeopen[h]
        /\ live'[g] <=> r = 1 \/ w = 1
        /\ live'[g] => readopen'[g] = r /\ writeopen'[g] = w
    <3>1. CASE StillOpen(r, w)
      <4>1. /\ live' = live /\ readopen' = [readopen EXCEPT ![g] = r] /\ writeopen' = [writeopen EXCEPT ![g] = w]
            /\ r = 1 \/ w = 1
        BY <2>1, <3>1 DEF pipeclose, StillOpen
      <4> QED
        BY <1>1, <4>1 DEF TableType
    <3>2. CASE ~StillOpen(r, w)
      <4>1. /\ live' = [live EXCEPT ![g] = FALSE] /\ readopen' = [readopen EXCEPT ![g] = 1]
            /\ writeopen' = [writeopen EXCEPT ![g] = 1] /\ r = 0 /\ w = 0
        BY <2>1, <3>2 DEF pipeclose, StillOpen, Junk
      <4> QED
        BY <4>1 DEF TableType
    <3> QED
      BY <3>1, <3>2
  <2>5. \A h \in Files : ref'[h] > 0 <=> ref[h] > 0 /\ h # f
    BY <1>2, <2>1
  <2>6. ASSUME NEW h \in Pages, NEW v \in {0, 1}
        PROVE  OpenOn(h, v)' <=> OpenOn(h, v) /\ ~(h = g /\ v = writable[f])
    <3>1. ASSUME OpenOn(h, v)'
          PROVE  OpenOn(h, v) /\ ~(h = g /\ v = writable[f])
      <4>1. PICK e \in Files : ref'[e] > 0 /\ fpipe'[e] = h /\ writable'[e] = v
        BY <3>1 DEF OpenOn
      <4>2. ref[e] > 0 /\ e # f /\ fpipe[e] = h /\ writable[e] = v
        BY <1>1, <2>3, <2>5, <4>1
      <4> QED
        BY <4>2 DEF OpenOn, OneFile
    <3>2. ASSUME OpenOn(h, v), ~(h = g /\ v = writable[f])
          PROVE  OpenOn(h, v)'
      <4>1. PICK e \in Files : ref[e] > 0 /\ fpipe[e] = h /\ writable[e] = v
        BY <3>2 DEF OpenOn
      <4>2. e # f
        BY <3>2, <4>1
      <4> QED
        BY <1>1, <2>3, <2>5, <4>1, <4>2 DEF OpenOn
    <3> QED
      BY <3>1, <3>2
  <2>7. /\ readopen[g] = 1 <=> OpenOn(g, 0)
        /\ writeopen[g] = 1 <=> OpenOn(g, 1)
    BY <1>1 DEF EndsTruth
  <2>8. /\ r = 1 <=> OpenOn(g, 0)'
        /\ w = 1 <=> OpenOn(g, 1)'
    BY <1>1, <2>2, <2>6, <2>7
  <2>9. EndsTruth'
    <3> SUFFICES ASSUME NEW h \in Pages
                 PROVE  IF live'[h]
                        THEN /\ readopen'[h] = 1 <=> OpenOn(h, 0)'
                             /\ writeopen'[h] = 1 <=> OpenOn(h, 1)'
                             /\ OpenOn(h, 0)' \/ OpenOn(h, 1)'
                        ELSE ~OpenOn(h, 0)' /\ ~OpenOn(h, 1)'
      BY DEF EndsTruth
    <3>1. CASE h = g
      BY <2>4, <2>8, <3>1
    <3>2. CASE h # g
      <4>1. (OpenOn(h, 0)' <=> OpenOn(h, 0)) /\ (OpenOn(h, 1)' <=> OpenOn(h, 1))
        BY <2>6, <3>2
      <4> QED
        BY <2>4, <3>2, <4>1 DEF EndsTruth
    <3> QED
      BY <3>1, <3>2
  <2>10. OpenFiles'
    <3> SUFFICES ASSUME NEW h \in Files, ref'[h] > 0
                 PROVE  type'[h] = "FD_PIPE" /\ fpipe'[h] \in Pages /\ live'[fpipe'[h]]
      BY DEF OpenFiles
    <3>1. h # f /\ ref[h] > 0 /\ type'[h] = "FD_PIPE" /\ fpipe'[h] = fpipe[h] /\ fpipe[h] \in Pages /\ live[fpipe[h]]
      BY <1>1, <2>3, <2>5 DEF OpenFiles
    <3>2. PICK y \in Pages : y = fpipe[h]
      BY <3>1
    <3>3. PICK v \in {0, 1} : v = writable'[h]
      BY <2>3
    <3>4. OpenOn(y, v)'
      BY <3>1, <3>2, <3>3 DEF OpenOn
    <3>5. live'[y]
      BY <2>9, <3>4 DEF EndsTruth
    <3> QED
      BY <3>1, <3>2, <3>5
  <2>11. OneFile'
    BY <1>1, <2>3, <2>5 DEF OneFile
  <2> QED
    BY <1>2, <2>3, <2>4, <2>9, <2>10, <2>11
<1> QED
  BY <1>1, <1>3, <1>4

LEMMA CloseStep ==
  ASSUME PipeInv, NEW t \in Threads, NEW d \in Fds, sys_close(t, d)
  PROVE  PipeInv'
<1>1. Proc(t) \in Procs /\ used[Proc(t)] /\ fdt[<<Proc(t), d>>] # None
  BY ThreadProc DEF sys_close
<1>2. fdt[<<Proc(t), d>>] \in Files /\ ref[fdt[<<Proc(t), d>>]] > 0 /\ fpipe[fdt[<<Proc(t), d>>]] \in Pages
  BY <1>1, HeldOpen DEF PipeInv
<1> PICK p \in Procs : p = Proc(t)
  BY <1>1
<1> PICK f \in Files : f = fdt[<<p, d>>]
  BY <1>2
<1>3. /\ fileclose(f) /\ fdt' = [fdt EXCEPT ![<<p, d>>] = None] /\ UNCHANGED <<used, op>>
      /\ cut' = cut \cup {u \in Threads : Proc(u) = p /\ op[u].file = f}
  BY DEF sys_close
<1>4. /\ ref' \in [Files -> Nat] /\ type' \in [Files -> {"FD_NONE", "FD_PIPE"}]
      /\ writable' \in [Files -> {0, 1}] /\ live' \in [Pages -> BOOLEAN]
      /\ readopen' \in [Pages -> {0, 1}] /\ writeopen' \in [Pages -> {0, 1}]
      /\ OpenFiles' /\ OneFile' /\ EndsTruth'
  BY <1>2, <1>3, CloseFiles DEF PipeInv, FileInv
<1>5. Counted'
  <2>1. ref' = [ref EXCEPT ![f] = ref[f] - 1]
    BY <1>3 DEF fileclose
  <2> QED
    BY <1>1, <1>3, <2>1, CloseCounted DEF PipeInv, FileInv
<1>6. fdt' \in [Procs \X Fds -> Files \cup {None}] /\ fpipe' = fpipe /\ panicked' \in BOOLEAN /\ cut' \subseteq Threads
  BY <1>3 DEF PipeInv, TableType, fileclose
<1>7. RingInv'
  <2>1. CASE UNCHANGED pipeVars
    BY <2>1 DEF PipeInv, RingInv, pipeVars, ringVars
  <2>2. CASE pipeclose(fpipe[f], ReadLeft(f), WriteLeft(f))
    <3>1. ReadLeft(f) \in {0, 1} /\ WriteLeft(f) \in {0, 1} /\ fpipe[f] \in Pages
      BY <1>2 DEF ReadLeft, WriteLeft, PipeInv, TableType
    <3> QED
      BY <2>2, <3>1, CloseRing DEF PipeInv
  <2> QED
    BY <1>3, <2>1, <2>2 DEF fileclose
<1>8. Suspended'
  <2> SUFFICES ASSUME NEW u \in Threads, op[u] # Idle, u \notin cut'
               PROVE  /\ used[Proc(u)]
                      /\ \E e \in Fds : fdt'[<<Proc(u), e>>] = op[u].file
                      /\ fpipe[op[u].file] = op[u].pipe
    BY <1>3, <1>6 DEF Suspended
  <2>1. u \notin cut /\ ~(Proc(u) = p /\ op[u].file = f)
    BY <1>3
  <2>2. used[Proc(u)] /\ fpipe[op[u].file] = op[u].pipe
    BY <2>1 DEF PipeInv, Suspended
  <2>3. PICK e \in Fds : fdt[<<Proc(u), e>>] = op[u].file
    BY <2>1 DEF PipeInv, Suspended
  <2>4. <<Proc(u), e>> # <<p, d>> /\ <<Proc(u), e>> \in Procs \X Fds
    BY <2>1, <2>3, ThreadProc
  <2>5. fdt'[<<Proc(u), e>>] = fdt[<<Proc(u), e>>]
    BY <1>3, <2>4 DEF PipeInv, TableType
  <2> QED
    BY <2>2, <2>3, <2>5
<1> QED
  BY <1>3, <1>4, <1>5, <1>6, <1>7, <1>8 DEF PipeInv, TableType, FileInv

(***************************************************************************)
(* pipe                                                                    *)
(***************************************************************************)
\* First and Second choose different members, when there are enough.
LEMMA TwoLeast ==
  ASSUME NEW D \in SUBSET Nat, IsFiniteSet(D)
  PROVE  /\ First(D) \in D \cup {None}
         /\ Second(D) \in D \cup {None}
         /\ Second(D) # None => First(D) # Second(D)
         /\ None \notin D
<1>1. First(D) \in D \cup {None}
  BY LeastNat DEF First
<1>2. None \notin D
  BY DEF None
<1>3. ASSUME Second(D) # None
      PROVE  Second(D) \in D /\ First(D) # Second(D)
  <2>1. ~(Cardinality(D) < 2) /\ Second(D) = Min(D \ {Min(D)})
    BY <1>3 DEF Second
  <2>2. D # {} /\ D # {Min(D)}
    BY <2>1, FS_EmptySet, FS_Singleton
  <2>3. First(D) = Min(D) /\ Min(D) \in D
    BY <2>2, LeastNat DEF First
  <2>4. D \ {Min(D)} # {} /\ D \ {Min(D)} \in SUBSET Nat
    BY <2>2, <2>3
  <2>5. Min(D \ {Min(D)}) \in D \ {Min(D)}
    BY <2>4, LeastNat
  <2> QED
    BY <2>1, <2>3, <2>5
<1> QED
  BY <1>1, <1>2, <1>3

\* Two free files become the ends of the pipe in page g, and get the free
\* descriptors d0 and d1 of p, if there are any.
TwoEnds(p, d0, d1, f0, f1) ==
    /\ ref[f0] = 0 /\ ref[f1] = 0 /\ \A d \in {d0, d1} \cap Fds : fdt[<<p, d>>] = None
    /\ ref'[f0] = 1 /\ ref'[f1] = 1 /\ \A h \in Files : h # f0 /\ h # f1 => ref'[h] = ref[h]
    /\ used' = used
    /\ \A x \in Procs \X Fds :
          fdt'[x] = IF x = <<p, d0>> THEN f0 ELSE IF x = <<p, d1>> THEN f1 ELSE fdt[x]

\* Then every descriptor is counted.
LEMMA NewCounted ==
  ASSUME TableType, Counted, NEW p \in Procs, NEW d0 \in Fds \cup {None}, NEW d1 \in Fds \cup {None},
         NEW f0 \in Files, NEW f1 \in Files, f0 # f1, TwoEnds(p, d0, d1, f0, f1)
  PROVE  Counted'
<1> USE DEF TwoEnds
<1>1. Holders(f0) = {} /\ Holders(f1) = {}
  BY FreeUnheld
<1>2. Holders(f0)' \subseteq {<<p, d0>>} /\ Holders(f1)' \subseteq {<<p, d1>>}
  <2>1. \A x \in Procs \X Fds : used[x[1]] => fdt[x] # f0 /\ fdt[x] # f1
    BY <1>1 DEF Holders
  <2> QED
    BY <2>1 DEF Holders
<1>3. ASSUME NEW h \in Files, h # f0, h # f1
      PROVE  Holders(h)' \subseteq Holders(h)
  BY <1>3 DEF Holders
<1> SUFFICES ASSUME NEW h \in Files
             PROVE  ref'[h] >= Cardinality(Holders(h)')
  BY DEF Counted
<1>4. CASE h = f0 \/ h = f1
  <2>1. ref'[h] = 1
    BY <1>4 DEF TableType
  <2>2. ASSUME NEW S, NEW x, S \subseteq {x}
        PROVE  Cardinality(S) <= 1
    <3>1. IsFiniteSet({x}) /\ Cardinality({x}) = 1
      BY FS_Singleton
    <3> QED
      BY <2>2, <3>1, FS_Subset
  <2>3. Cardinality(Holders(h)') <= 1
    BY <1>2, <1>4, <2>2
  <2>4. Cardinality(Holders(h)') \in Nat
    <3>1. Holders(h)' \in SUBSET (Procs \X Fds)
      BY DEF Holders
    <3> QED
      BY <3>1, HoldersFinite
  <2> QED
    BY <2>1, <2>3, <2>4
<1>5. CASE h # f0 /\ h # f1
  <2>1. ref'[h] = ref[h] /\ ref[h] \in Nat /\ ref[h] >= Cardinality(Holders(h))
    BY <1>5 DEF TableType, Counted
  <2>2. IsFiniteSet(Holders(h)) /\ Cardinality(Holders(h)) \in Nat
    BY HoldersFinite, HoldersSubset
  <2>3. Cardinality(Holders(h)') <= Cardinality(Holders(h)) /\ Cardinality(Holders(h)') \in Nat
    BY <1>3, <1>5, <2>2, FS_Subset, FS_CardinalityType
  <2> QED
    BY <2>1, <2>2, <2>3
<1> QED
  BY <1>4, <1>5

LEMMA NewFiles ==
  ASSUME TableType, OpenFiles, OneFile, EndsTruth, NEW g \in Pages, ~live[g],
         NEW f0 \in Files, NEW f1 \in Files, f0 # f1, ref[f0] = 0, ref[f1] = 0,
         ref'[f0] = 1, ref'[f1] = 1, type'[f0] = "FD_PIPE", type'[f1] = "FD_PIPE",
         writable'[f0] = 0, writable'[f1] = 1, fpipe'[f0] = g, fpipe'[f1] = g,
         live'[g], readopen'[g] = 1, writeopen'[g] = 1,
         \A h \in Files : h # f0 /\ h # f1 =>
            ref'[h] = ref[h] /\ type'[h] = type[h] /\ writable'[h] = writable[h] /\ fpipe'[h] = fpipe[h],
         \A h \in Pages : h # g => live'[h] = live[h] /\ readopen'[h] = readopen[h] /\ writeopen'[h] = writeopen[h]
  PROVE  OpenFiles' /\ OneFile' /\ EndsTruth'
<1>1. \A h \in Files : ref[h] > 0 => h # f0 /\ h # f1 /\ fpipe[h] # g
  BY DEF OpenFiles
<1>2. OpenFiles'
  <2> SUFFICES ASSUME NEW h \in Files, ref'[h] > 0
               PROVE  type'[h] = "FD_PIPE" /\ fpipe'[h] \in Pages /\ live'[fpipe'[h]]
    BY DEF OpenFiles
  <2>1. CASE h = f0 \/ h = f1
    BY <2>1
  <2>2. CASE h # f0 /\ h # f1
    BY <1>1, <2>2 DEF OpenFiles
  <2> QED
    BY <2>1, <2>2
<1>3. OneFile'
  <2> SUFFICES ASSUME NEW h \in Files, NEW k \in Files, ref'[h] > 0, ref'[k] > 0,
                      fpipe'[h] = fpipe'[k], writable'[h] = writable'[k]
               PROVE  h = k
    BY DEF OneFile
  <2>1. \A x \in Files : ref'[x] > 0 => x \in {f0, f1} \/ (ref[x] > 0 /\ x \notin {f0, f1} /\ fpipe'[x] # g)
    BY <1>1
  <2>2. CASE h \in {f0, f1}
    BY <2>1, <2>2
  <2>3. CASE h \notin {f0, f1}
    <3>1. k \notin {f0, f1} /\ ref[h] > 0 /\ ref[k] > 0
      BY <2>1, <2>3
    <3> QED
      BY <2>3, <3>1 DEF OneFile
  <2> QED
    BY <2>2, <2>3
<1>4. OpenOn(g, 0)' /\ OpenOn(g, 1)'
  BY <1>1 DEF OpenOn
<1>5. ASSUME NEW h \in Pages, h # g, NEW v \in {0, 1}
      PROVE  OpenOn(h, v)' <=> OpenOn(h, v)
  BY <1>1, <1>5 DEF OpenOn
<1>6. EndsTruth'
  <2> SUFFICES ASSUME NEW h \in Pages
               PROVE  IF live'[h]
                      THEN /\ readopen'[h] = 1 <=> OpenOn(h, 0)'
                           /\ writeopen'[h] = 1 <=> OpenOn(h, 1)'
                           /\ OpenOn(h, 0)' \/ OpenOn(h, 1)'
                      ELSE ~OpenOn(h, 0)' /\ ~OpenOn(h, 1)'
    BY DEF EndsTruth
  <2>1. CASE h = g
    BY <1>4, <2>1
  <2>2. CASE h # g
    <3>1. (OpenOn(h, 0)' <=> OpenOn(h, 0)) /\ (OpenOn(h, 1)' <=> OpenOn(h, 1))
      BY <1>5, <2>2
    <3> QED
      BY <2>2, <3>1 DEF EndsTruth
  <2> QED
    BY <2>1, <2>2
<1> QED
  BY <1>2, <1>3, <1>6

LEMMA PipeStep ==
  ASSUME PipeInv, NEW t \in Threads, sys_pipe(t)
  PROVE  PipeInv'
<1>0. Proc(t) \in Procs
  BY ThreadProc
<1> PICK p \in Procs : p = Proc(t)
  BY <1>0
<1> DEFINE free == {f \in Files : ref[f] = 0}
<1>1. free \in SUBSET Nat /\ IsFiniteSet(free) /\ FreeFds(p) \in SUBSET Nat /\ IsFiniteSet(FreeFds(p))
  <2>1. IsFiniteSet(Files) /\ IsFiniteSet(Fds) /\ Files \subseteq Nat /\ Fds \subseteq Nat
    BY IntRange, FS_Interval DEF Files, Fds
  <2> QED
    BY <2>1, FS_Subset DEF FreeFds
<1>2. UNCHANGED <<used, op, cut>>
  BY DEF sys_pipe
<1>3. CASE panicked' = TRUE /\ UNCHANGED <<fdt, fileVars, pipeVars>>
  <2>1. FileInv'
    BY <1>2, <1>3, FileSame DEF PipeInv, pipeVars
  <2>2. RingInv' /\ TableType' /\ Suspended'
    BY <1>2, <1>3 DEF PipeInv, RingInv, TableType, Suspended, pipeVars, fileVars, ringVars
  <2> QED
    BY <2>1, <2>2 DEF PipeInv
<1>4. ASSUME First(free) # None, Second(free) # None, ~(panicked' = TRUE /\ UNCHANGED <<fdt, fileVars, pipeVars>>)
      PROVE  PipeInv'
  <2>1. /\ First(free) \in free /\ Second(free) \in free /\ First(free) # Second(free)
        /\ First(FreeFds(p)) \in FreeFds(p) \cup {None} /\ Second(FreeFds(p)) \in FreeFds(p) \cup {None}
    BY <1>1, <1>4, TwoLeast
  <2> PICK f0 \in Files : f0 = First(free)
    BY <2>1
  <2> PICK f1 \in Files : f1 = Second(free)
    BY <2>1
  <2> PICK d0 \in Fds \cup {None} : d0 = First(FreeFds(p))
    BY <2>1 DEF FreeFds
  <2> PICK d1 \in Fds \cup {None} : d1 = Second(FreeFds(p))
    BY <2>1 DEF FreeFds
  <2>2. /\ f0 # f1 /\ ref[f0] = 0 /\ ref[f1] = 0
        /\ \A d \in {d0, d1} \cap Fds : fdt[<<p, d>>] = None
    BY <2>1, IntRange DEF FreeFds
  <2>3. /\ ref' = [ref EXCEPT ![f0] = 1, ![f1] = 1]
        /\ type' = [type EXCEPT ![f0] = "FD_PIPE", ![f1] = "FD_PIPE"]
        /\ writable' = [writable EXCEPT ![f0] = 0, ![f1] = 1]
        /\ fdt' = [x \in Procs \X Fds |->
                     IF x = <<p, d0>> THEN f0 ELSE IF x = <<p, d1>> THEN f1 ELSE fdt[x]]
        /\ UNCHANGED <<data, panicked>>
    BY <1>4 DEF sys_pipe
  <2>4. PICK g \in Pages :
           /\ ~live[g]
           /\ live' = [live EXCEPT ![g] = TRUE]
           /\ readopen' = [readopen EXCEPT ![g] = 1]
           /\ writeopen' = [writeopen EXCEPT ![g] = 1]
           /\ nread' = [nread EXCEPT ![g] = 0]
           /\ nwrite' = [nwrite EXCEPT ![g] = 0]
           /\ sent' = [sent EXCEPT ![g] = 0]
           /\ got' = [got EXCEPT ![g] = 0]
           /\ fpipe' = [fpipe EXCEPT ![f0] = g, ![f1] = g]
    BY <1>4 DEF sys_pipe
  <2> HIDE DEF free
  <2>5. /\ ref'[f0] = 1 /\ ref'[f1] = 1 /\ type'[f0] = "FD_PIPE" /\ type'[f1] = "FD_PIPE"
        /\ writable'[f0] = 0 /\ writable'[f1] = 1
        /\ \A h \in Files : h # f0 /\ h # f1 => ref'[h] = ref[h] /\ type'[h] = type[h] /\ writable'[h] = writable[h]
    BY <2>2, <2>3 DEF PipeInv, TableType
  <2>6. /\ fpipe'[f0] = g /\ fpipe'[f1] = g /\ \A h \in Files : h # f0 /\ h # f1 => fpipe'[h] = fpipe[h]
        /\ live'[g] /\ readopen'[g] = 1 /\ writeopen'[g] = 1
        /\ \A h \in Pages : h # g => live'[h] = live[h] /\ readopen'[h] = readopen[h] /\ writeopen'[h] = writeopen[h]
    BY <2>4 DEF PipeInv, TableType
  <2>7. \A x \in Procs \X Fds :
           fdt'[x] = IF x = <<p, d0>> THEN f0 ELSE IF x = <<p, d1>> THEN f1 ELSE fdt[x]
    BY <2>3
  <2>8. RingInv'
    <3>1. data' = [data EXCEPT ![g] = data[g]] /\ data[g] \in [Slots -> Nat]
      BY <2>3 DEF PipeInv, RingInv
    <3> QED
      BY <2>4, <3>1, RingReset DEF PipeInv
  <2>9. OpenFiles' /\ OneFile' /\ EndsTruth'
    <3>1. TableType /\ OpenFiles /\ OneFile /\ EndsTruth /\ ~live[g]
      BY <2>4 DEF PipeInv, FileInv
    <3>2. \A h \in Files : h # f0 /\ h # f1 =>
             ref'[h] = ref[h] /\ type'[h] = type[h] /\ writable'[h] = writable[h] /\ fpipe'[h] = fpipe[h]
      BY <2>5, <2>6
    <3>3. /\ ref'[f0] = 1 /\ ref'[f1] = 1 /\ type'[f0] = "FD_PIPE" /\ type'[f1] = "FD_PIPE"
          /\ writable'[f0] = 0 /\ writable'[f1] = 1 /\ fpipe'[f0] = g /\ fpipe'[f1] = g
          /\ live'[g] /\ readopen'[g] = 1 /\ writeopen'[g] = 1
          /\ \A h \in Pages : h # g => live'[h] = live[h] /\ readopen'[h] = readopen[h] /\ writeopen'[h] = writeopen[h]
      BY <2>5, <2>6, Zenon
    <3> QED
      BY <2>2, <3>1, <3>2, <3>3, NewFiles, Zenon
  <2>10. Counted'
    <3>1. Counted /\ TableType
      BY DEF PipeInv, FileInv
    <3>2. TwoEnds(p, d0, d1, f0, f1) /\ f0 # f1
      BY <1>2, <2>2, <2>5, <2>7 DEF TwoEnds
    <3> QED
      BY <3>1, <3>2, NewCounted
  <2>11. TableType'
    <3>1. fdt' \in [Procs \X Fds -> Files \cup {None}]
      BY <2>3 DEF PipeInv, TableType
    <3>2. ref' \in [Files -> Nat] /\ type' \in [Files -> {"FD_NONE", "FD_PIPE"}]
      BY <2>3 DEF PipeInv, TableType
    <3>3. writable' \in [Files -> {0, 1}] /\ fpipe' \in [Files -> Pages \cup {None}]
      BY <2>3, <2>4 DEF PipeInv, TableType
    <3>4. /\ live' \in [Pages -> BOOLEAN]
          /\ readopen' \in [Pages -> {0, 1}] /\ writeopen' \in [Pages -> {0, 1}]
      BY <2>4 DEF PipeInv, TableType
    <3> QED
      BY <1>2, <2>3, <3>1, <3>2, <3>3, <3>4 DEF PipeInv, TableType
  <2>12. Suspended'
    <3> SUFFICES ASSUME NEW u \in Threads, op[u] # Idle, u \notin cut
                 PROVE  /\ used[Proc(u)]
                        /\ \E e \in Fds : fdt'[<<Proc(u), e>>] = op[u].file
                        /\ fpipe'[op[u].file] = op[u].pipe
      BY <1>2 DEF Suspended
    <3>1. used[Proc(u)] /\ fpipe[op[u].file] = op[u].pipe /\ op[u].file \in Files /\ Proc(u) \in Procs
      BY ThreadProc DEF PipeInv, Suspended, TableType, Ops
    <3>2. PICK e \in Fds : fdt[<<Proc(u), e>>] = op[u].file
      BY DEF PipeInv, Suspended
    <3>3. op[u].file # None
      BY <3>1, IntRange
    <3>4. ref[op[u].file] > 0
      BY <3>1, <3>2, <3>3, HeldOpen DEF PipeInv
    <3>5. fpipe'[op[u].file] = fpipe[op[u].file]
      BY <2>2, <2>4, <3>1, <3>4 DEF PipeInv, TableType
    <3>6. <<Proc(u), e>> # <<p, d0>> /\ <<Proc(u), e>> # <<p, d1>>
      BY <2>2, <3>2, <3>3
    <3>7. fdt'[<<Proc(u), e>>] = fdt[<<Proc(u), e>>]
      BY <2>3, <3>1, <3>6
    <3> QED
      BY <3>1, <3>2, <3>5, <3>7
  <2> QED
    BY <2>8, <2>9, <2>10, <2>11, <2>12 DEF PipeInv, FileInv
<1> QED
  BY <1>3, <1>4 DEF sys_pipe

(***************************************************************************)
(* fork and exit                                                           *)
(***************************************************************************)
\* The copies fork makes of descriptors of f are as many as the ones it counts.
LEMMA CopiesCounted ==
  ASSUME NEW q \in Procs, NEW D \in SUBSET Fds
  PROVE  IsFiniteSet({q} \X D) /\ Cardinality({q} \X D) = Cardinality(D)
<1>1. IsFiniteSet(D) /\ Cardinality(D) \in Nat
  <2>1. IsFiniteSet(Fds)
    BY IntRange, FS_Interval DEF Fds
  <2>2. IsFiniteSet(D)
    BY <2>1, FS_Subset
  <2> QED
    BY <2>2, FS_CardinalityType
<1>2. IsFiniteSet({q}) /\ Cardinality({q}) = 1
  BY FS_Singleton
<1>3. IsFiniteSet({q} \X D) /\ Cardinality({q} \X D) = Cardinality({q}) * Cardinality(D)
  BY <1>1, <1>2, FS_Product
<1> QED
  BY <1>1, <1>2, <1>3

LEMMA ForkStep ==
  ASSUME PipeInv, NEW t \in Threads, fork(t)
  PROVE  PipeInv'
<1>0. Proc(t) \in Procs
  BY ThreadProc
<1> PICK p \in Procs : p = Proc(t)
  BY <1>0
<1>1. PICK q \in Procs :
         /\ ~used[q]
         /\ used' = [used EXCEPT ![q] = TRUE]
         /\ fdt' = [x \in Procs \X Fds |-> IF x[1] = q THEN fdt[<<p, x[2]>>] ELSE fdt[x]]
  <2>1. PICK q \in Procs :
           /\ ~used[q]
           /\ used' = [used EXCEPT ![q] = TRUE]
           /\ fdt' = [x \in Procs \X Fds |-> IF x[1] = q THEN fdt[<<Proc(t), x[2]>>] ELSE fdt[x]]
    BY DEF fork
  <2>2. fdt' = [x \in Procs \X Fds |-> IF x[1] = q THEN fdt[<<p, x[2]>>] ELSE fdt[x]]
    BY <2>1
  <2> QED
    BY <2>1, <2>2, Zenon
<1>2. /\ ref' = [f \in Files |-> ref[f] + Shares(p, f)] /\ used[p] /\ p # q
      /\ UNCHANGED <<type, writable, fpipe, pipeVars, op, cut, panicked>>
  BY <1>1 DEF fork
<1>3. UNCHANGED <<live, readopen, writeopen, ringVars>>
  BY <1>2 DEF pipeVars
<1> DEFINE Named(f) == {d \in Fds : fdt[<<p, d>>] = f}
<1>4. ASSUME NEW f \in Files
      PROVE  /\ Holders(f)' = Holders(f) \cup ({q} \X Named(f))
             /\ Holders(f) \cap ({q} \X Named(f)) = {}
  <2>1. \A x \in Procs \X Fds : x \in Holders(f)' <=> x \in Holders(f) \/ x \in {q} \X Named(f)
    <3> SUFFICES ASSUME NEW r \in Procs, NEW d \in Fds
                 PROVE  <<r, d>> \in Holders(f)' <=> <<r, d>> \in Holders(f) \/ <<r, d>> \in {q} \X Named(f)
      OBVIOUS
    <3>1. <<r, d>> \in Holders(f)' <=> used'[r] /\ fdt'[<<r, d>>] = f
      BY DEF Holders
    <3>2. <<r, d>> \in Holders(f) <=> used[r] /\ fdt[<<r, d>>] = f
      BY DEF Holders
    <3>3. fdt'[<<r, d>>] = IF r = q THEN fdt[<<p, d>>] ELSE fdt[<<r, d>>]
      BY <1>1
    <3>4. used'[r] = IF r = q THEN TRUE ELSE used[r]
      BY <1>1 DEF PipeInv, TableType
    <3> QED
      BY <1>1, <3>1, <3>2, <3>3, <3>4
  <2>2. Holders(f)' \subseteq Procs \X Fds /\ Holders(f) \subseteq Procs \X Fds /\ {q} \X Named(f) \subseteq Procs \X Fds
    BY DEF Holders
  <2>3. Holders(f) \cap ({q} \X Named(f)) = {}
    BY <1>1 DEF Holders
  <2> HIDE DEF Named
  <2> QED
    BY <2>1, <2>2, <2>3
<1>5. ASSUME NEW f \in Files
      PROVE  /\ Shares(p, f) \in Nat /\ ref[f] \in Nat /\ ref'[f] = ref[f] + Shares(p, f)
             /\ Cardinality(Holders(f)') = Cardinality(Holders(f)) + Shares(p, f)
             /\ Cardinality(Holders(f)) \in Nat
  <2>1. /\ IsFiniteSet({q} \X Named(f)) /\ Cardinality({q} \X Named(f)) = Cardinality(Named(f))
        /\ Shares(p, f) = Cardinality(Named(f))
    BY CopiesCounted DEF Shares
  <2>2. IsFiniteSet(Holders(f)) /\ Cardinality(Holders(f)) \in Nat
    BY HoldersFinite, HoldersSubset
  <2>3. Cardinality({q} \X Named(f)) \in Nat
    BY <2>1, FS_CardinalityType
  <2>4. ref[f] \in Nat /\ ref'[f] = ref[f] + Shares(p, f)
    BY <1>2 DEF PipeInv, TableType
  <2> HIDE DEF Named
  <2>5. Cardinality(Holders(f) \cup ({q} \X Named(f))) = Cardinality(Holders(f)) + Cardinality({q} \X Named(f))
    <3>1. Cardinality(Holders(f) \cap ({q} \X Named(f))) = 0
      BY <1>4, FS_EmptySet
    <3>2. Cardinality(Holders(f) \cup ({q} \X Named(f))) =
             Cardinality(Holders(f)) + Cardinality({q} \X Named(f)) - Cardinality(Holders(f) \cap ({q} \X Named(f)))
      BY <2>1, <2>2, FS_Union, Zenon
    <3> QED
      BY <2>2, <2>3, <3>1, <3>2
  <2> QED
    BY <1>4, <2>1, <2>2, <2>3, <2>4, <2>5
<1>6. ASSUME NEW f \in Files
      PROVE  ref'[f] > 0 <=> ref[f] > 0
  <2>1. CASE Named(f) = {}
    <3>1. Shares(p, f) = 0
      BY <2>1, FS_EmptySet DEF Shares
    <3> QED
      BY <1>5, <3>1
  <2>2. CASE Named(f) # {}
    <3>1. PICK d \in Fds : fdt[<<p, d>>] = f
      BY <2>2
    <3>2. ref[f] > 0
      BY <1>2, <3>1, HeldOpen, IntRange DEF PipeInv
    <3> QED
      BY <1>5, <3>2
  <2> QED
    BY <2>1, <2>2
<1> HIDE DEF Named
<1>7. Counted'
  <2>1. \A f \in Files : ref[f] >= Cardinality(Holders(f))
    BY DEF PipeInv, FileInv, Counted
  <2> SUFFICES ASSUME NEW f \in Files
               PROVE  ref'[f] >= Cardinality(Holders(f)')
    BY DEF Counted
  <2> QED
    BY <1>5, <2>1
<1>8. OpenFiles' /\ OneFile'
  BY <1>2, <1>3, <1>6 DEF PipeInv, FileInv, OpenFiles, OneFile
<1>9. EndsTruth'
  <2>1. \A g, v : OpenOn(g, v)' <=> OpenOn(g, v)
    BY <1>2, <1>6 DEF OpenOn
  <2> QED
    BY <1>3, <2>1 DEF PipeInv, FileInv, EndsTruth
<1>10. TableType'
  <2>1. fdt' \in [Procs \X Fds -> Files \cup {None}]
    <3>1. \A d \in Fds : fdt[<<p, d>>] \in Files \cup {None}
      BY DEF PipeInv, TableType
    <3> QED
      BY <1>1, <3>1 DEF PipeInv, TableType
  <2>2. ref' \in [Files -> Nat]
    <3>1. \A f \in Files : ref[f] + Shares(p, f) \in Nat
      BY <1>5
    <3> QED
      BY <1>2, <3>1
  <2> QED
    BY <1>1, <1>2, <1>3, <2>1, <2>2 DEF PipeInv, TableType
<1>11. RingInv'
  BY <1>3 DEF PipeInv, RingInv, ringVars
<1>12. Suspended'
  <2> SUFFICES ASSUME NEW u \in Threads, op[u] # Idle, u \notin cut
               PROVE  /\ used'[Proc(u)]
                      /\ \E e \in Fds : fdt'[<<Proc(u), e>>] = op[u].file
                      /\ fpipe[op[u].file] = op[u].pipe
    BY <1>2 DEF Suspended
  <2>1. used[Proc(u)] /\ fpipe[op[u].file] = op[u].pipe /\ Proc(u) \in Procs /\ Proc(u) # q
    BY <1>1, ThreadProc DEF PipeInv, Suspended
  <2>2. PICK e \in Fds : fdt[<<Proc(u), e>>] = op[u].file
    BY DEF PipeInv, Suspended
  <2>3. fdt'[<<Proc(u), e>>] = fdt[<<Proc(u), e>>] /\ used'[Proc(u)]
    BY <1>1, <2>1 DEF PipeInv, TableType
  <2> QED
    BY <2>1, <2>2, <2>3
<1> QED
  BY <1>7, <1>8, <1>9, <1>10, <1>11, <1>12 DEF PipeInv, FileInv

LEMMA ExitStep ==
  ASSUME PipeInv, NEW p \in Procs, exit(p)
  PROVE  PipeInv'
<1>1. /\ used' = [used EXCEPT ![p] = FALSE]
      /\ op' = [t \in Threads |-> IF Proc(t) = p THEN Idle ELSE op[t]]
      /\ cut' = {t \in cut : Proc(t) # p}
      /\ UNCHANGED <<fdt, panicked, ref, type, writable, fpipe, live, readopen, writeopen>>
      /\ UNCHANGED ringVars
  BY DEF exit, fileVars, pipeVars
<1>2. TableType'
  BY <1>1 DEF PipeInv, TableType
<1>3. RingInv'
  BY <1>1 DEF PipeInv, RingInv, ringVars
<1>4. OpenFiles' /\ OneFile' /\ EndsTruth'
  BY <1>1 DEF PipeInv, FileInv, OpenFiles, OneFile, EndsTruth, OpenOn
<1>5. Counted'
  <2> SUFFICES ASSUME NEW f \in Files
               PROVE  ref'[f] >= Cardinality(Holders(f)')
    BY DEF Counted
  <2>1. Holders(f)' \subseteq Holders(f)
    BY <1>1 DEF Holders, PipeInv, TableType
  <2>2. IsFiniteSet(Holders(f)) /\ Cardinality(Holders(f)) \in Nat
    BY HoldersFinite, HoldersSubset
  <2>3. Cardinality(Holders(f)') <= Cardinality(Holders(f)) /\ Cardinality(Holders(f)') \in Nat
    BY <2>1, <2>2, FS_Subset, FS_CardinalityType
  <2>4. ref'[f] = ref[f] /\ ref[f] \in Nat /\ ref[f] >= Cardinality(Holders(f))
    BY <1>1 DEF PipeInv, FileInv, Counted, TableType
  <2> QED
    BY <2>2, <2>3, <2>4
<1>6. Suspended'
  <2> SUFFICES ASSUME NEW u \in Threads, op'[u] # Idle, u \notin cut'
               PROVE  /\ used'[Proc(u)]
                      /\ \E e \in Fds : fdt[<<Proc(u), e>>] = op'[u].file
                      /\ fpipe[op'[u].file] = op'[u].pipe
    BY <1>1 DEF Suspended
  <2>1. Proc(u) # p /\ op'[u] = op[u] /\ u \notin cut /\ Proc(u) \in Procs
    BY <1>1, ThreadProc
  <2> QED
    BY <1>1, <2>1 DEF PipeInv, Suspended, TableType
<1> QED
  BY <1>2, <1>3, <1>4, <1>5, <1>6 DEF PipeInv, FileInv

(***************************************************************************)
(* The theorems                                                            *)
(***************************************************************************)
LEMMA PipeInit ==
  ASSUME Init
  PROVE  PipeInv
<1> USE DEF Init
<1>0. COUNTER_MOD \in Nat \ {0} /\ PIPESIZE \in Nat \ {0} /\ 0 \in 0 .. COUNTER_MOD - 1
  BY BufferAssumption
<1>1. TableType
  BY DEF TableType
<1>2. RingInv
  <2>1. Ring(0, 0, [s \in Slots |-> 0], 0, 0)
    <3>1. (0 - 0) % COUNTER_MOD = 0
      BY <1>0, Apart
    <3> QED
      BY <1>0, <3>1 DEF Ring
  <2> DEFINE e == [s \in Slots |-> 0]
  <2>2. e \in [Slots -> Nat]
    OBVIOUS
  <2> HIDE DEF e
  <2>3. /\ nread = [g \in Pages |-> 0] /\ nwrite = [g \in Pages |-> 0] /\ data = [g \in Pages |-> e]
        /\ sent = [g \in Pages |-> 0] /\ got = [g \in Pages |-> 0] /\ Ring(0, 0, e, 0, 0)
    BY <2>1 DEF e
  <2> QED
    BY <1>0, <2>2, <2>3 DEF RingInv
<1>3. FileInv
  <2>1. \A f \in Files : Holders(f) = {}
    BY IntRange DEF Holders
  <2>2. Counted
    <3> SUFFICES ASSUME NEW f \in Files
                 PROVE  ref[f] >= Cardinality(Holders(f))
      BY DEF Counted
    <3>1. ref[f] = 0 /\ Cardinality(Holders(f)) = 0
      BY <2>1, FS_EmptySet
    <3> QED
      BY <3>1
  <2> QED
    BY <2>2 DEF FileInv, OpenFiles, OneFile, EndsTruth, OpenOn
<1>4. Suspended
  BY DEF Suspended
<1> QED
  BY <1>1, <1>2, <1>3, <1>4 DEF PipeInv

LEMMA PipeNext ==
  ASSUME PipeInv, [Next]_vars
  PROVE  PipeInv'
<1>1. ASSUME NEW t \in Threads, Call(t)
      PROVE  PipeInv'
  <2>1. \A n \in SIZES : n \in Int
    BY ClientAssumption
  <2> QED
    BY <1>1, <2>1, PipeStep, ForkStep, CloseStep, CallStep DEF Call
<1>2. ASSUME NEW t \in Threads, pipe_resume(t)
      PROVE  PipeInv'
  BY <1>2, ResumeStep
<1>3. ASSUME NEW p \in Procs, exit(p)
      PROVE  PipeInv'
  BY <1>3, ExitStep
<1>4. CASE UNCHANGED vars
  <2> USE <1>4 DEF vars, fileVars, pipeVars, ringVars
  <2>1. TableType' /\ RingInv' /\ Suspended'
    BY DEF PipeInv, TableType, RingInv, Suspended
  <2>2. FileInv'
    BY FileSame DEF PipeInv
  <2> QED
    BY <2>1, <2>2 DEF PipeInv
<1> QED
  BY <1>1, <1>2, <1>3, <1>4 DEF Next

LEMMA PipeAlways == Spec => []PipeInv
<1>1. Init => PipeInv
  BY PipeInit
<1>2. PipeInv /\ [Next]_vars => PipeInv'
  BY PipeNext
<1> QED
  BY <1>1, <1>2, PTL DEF Spec

\* In every reachable state of any instance the unread bytes of a pipe are the ones
\* written and not yet read, in order, whatever threads and processes call pipewrite
\* and piperead and however often the counters have wrapped.
THEOREM StreamTheorem == Spec => []StreamIntact
  BY PipeAlways, PipeInvGives, PTL

\* In every reachable state of any instance the tables keep their ranges, every
\* descriptor of a process in use names an open end of a live pipe and is counted,
\* and the open flags of a pipe are right (filealloc, fileclose, pipeclose, fork).
THEOREM FilesTheorem == Spec => []FilesTrue
  BY PipeAlways, PipeInvGives, PTL

\* In every reachable state of any instance a thread suspended inside pipewrite or
\* piperead finds the pipe it was called on, unless a sibling closed the descriptor.
THEOREM SuspendedTheorem == Spec => []SuspendedSafe
  BY PipeAlways, PipeInvGives, PTL
=============================================================================
