------------------------------ MODULE VmProofs ------------------------------
(***************************************************************************)
(* Frames and address spaces, for any number of processes, threads and     *)
(* frames and programs of any size.                                        *)
(***************************************************************************)
EXTENDS VmProps, FoldProofs

(***************************************************************************)
(* Page tables as partial functions                                        *)
(***************************************************************************)
Partial(L, X) == UNION {[D -> X] : D \in SUBSET L}

LEMMA PartialIs ==
  ASSUME NEW L, NEW X, NEW f
  PROVE  f \in Partial(L, X) <=> DOMAIN f \in SUBSET L /\ f \in [DOMAIN f -> X]
  BY DEF Partial

\* g is f with y at x; g is f without S.
Extended(g, f, x, y) == DOMAIN g = DOMAIN f \cup {x} /\ g[x] = y /\ \A z \in DOMAIN f : z # x => g[z] = f[z]
Shrunk(g, f, S) == DOMAIN g = DOMAIN f \ S /\ \A z \in DOMAIN g : g[z] = f[z]

LEMMA PartialWith ==
  ASSUME NEW L, NEW X, NEW f \in Partial(L, X), NEW x \in L, NEW y \in X
  PROVE  With(f, x, y) \in Partial(L, X) /\ Extended(With(f, x, y), f, x, y)
<1>1. f \in [DOMAIN f -> X] /\ DOMAIN f \in SUBSET L
  BY PartialIs
<1>2. PICK g : g = With(f, x, y)
  OBVIOUS
<1>3. g = [z \in DOMAIN f \cup {x} |-> IF z = x THEN y ELSE f[z]]
  BY <1>2 DEF With
<1>4. DOMAIN g = DOMAIN f \cup {x} /\ g[x] = y /\ \A z \in DOMAIN f : z # x => g[z] = f[z]
  BY <1>3
<1>5. g \in [DOMAIN g -> X] /\ DOMAIN g \in SUBSET L
  BY <1>1, <1>3, <1>4
<1> QED
  BY <1>2, <1>4, <1>5, PartialIs DEF Extended

LEMMA ExtendedFrames ==
  ASSUME NEW f, NEW x, NEW y, NEW g, Extended(g, f, x, y), x \notin DOMAIN f
  PROVE  FramesOf(g) = FramesOf(f) \cup {y}
  BY DEF Extended, FramesOf

LEMMA PartialWithout ==
  ASSUME NEW L, NEW X, NEW f \in Partial(L, X), NEW S
  PROVE  Without(f, S) \in Partial(L, X) /\ Shrunk(Without(f, S), f, S)
<1>1. f \in [DOMAIN f -> X] /\ DOMAIN f \in SUBSET L
  BY PartialIs
<1>2. PICK g : g = Without(f, S)
  OBVIOUS
<1>3. g = [z \in DOMAIN f \ S |-> f[z]]
  BY <1>2 DEF Without
<1>4. g \in [DOMAIN g -> X] /\ DOMAIN g \in SUBSET L
  BY <1>1, <1>3
<1> QED
  BY <1>2, <1>3, <1>4, PartialIs DEF Shrunk

LEMMA PartialNone ==
  ASSUME NEW L, NEW X
  PROVE  <<>> \in Partial(L, X) /\ DOMAIN <<>> = {} /\ FramesOf(<<>>) = {}
<1>1. DOMAIN <<>> = {}
  OBVIOUS
<1>2. <<>> \in [{} -> X]
  OBVIOUS
<1>3. <<>> \in Partial(L, X)
  BY <1>2 DEF Partial
<1> QED
  BY <1>1, <1>3 DEF FramesOf
(***************************************************************************)
(* The invariant                                                           *)
(***************************************************************************)
\* Table pages, what pages may lead to, and why the kernel may have panicked.
Levels == {"root", "h1", "h0", "l1", "f0", "l0"}
Leafs == -2 - NPROC * NTHREAD .. NFRAMES
Whys == {"", "kfree null", "uvmcreate", "map ustack fail", "map trapframe fail", "bin_loader",
         "main thread", "copy argv failed", "uvmcopy", "allocproc"}
PageTable == Partial(Int, Leafs)
Tables == Partial(Levels, Frames \cup {NULL})

\* An address space under construction, while the other processes have the frames in R.
SpaceType == [free : SUBSET Frames, pt : PageTable, tab : Tables, ok : BOOLEAN, why : Whys]
Once(pt) == \A a, b \in DOMAIN pt : a # b /\ pt[a] \in Frames => pt[a] # pt[b]
Whole(a, b, c, R) ==
    /\ a \cap b = {} /\ a \cap c = {} /\ b \cap c = {} /\ R \cap (a \cup b \cup c) = {}
    /\ Frames \subseteq a \cup b \cup c \cup R
Sound(m, R) ==
    FramesOf(m.tab) \subseteq Frames /\ Once(m.pt) /\ Whole(m.free, FramesOf(m.tab), FramesOf(m.pt), R)

\* The kernel's own frames in a page table of slot p are at the pages in W.
HIGH == TRAMPOLINE - NTHREAD
KernelFrame(p, va) == IF va = TRAMPOLINE THEN TrampolineFrame ELSE TrapframeOf(p, TRAMPOLINE - 1 - va)
KernelAt(pt, p, W) == \A va \in DOMAIN pt : pt[va] < 0 \/ va >= HIGH => va \in W /\ pt[va] = KernelFrame(p, va)
KernelPages(L) == {TRAMPOLINE} \cup {TrapframeVa(t) : t \in L}

Good(m, R, p, W) == m \in SpaceType /\ (m.why = "" => Sound(m, R) /\ KernelAt(m.pt, p, W))

ProcType == [state : {"UNUSED", "USED", "ZOMBIE"}, parent : Slots \cup {-1}, pt : PageTable, tab : Tables,
             image : Nat, max_page : Nat, ustack : Nat, threads : [Tids -> {"UNUSED", "USED", "EXITED"}]]
\* What a program uses ends below the trap frames.
Low(d) == d.max_page > d.image /\ d.max_page <= HIGH /\ d.ustack + NTHREAD <= HIGH
Fits(d, p) ==
    IF d.state = "USED" THEN Low(d) /\ KernelAt(d.pt, p, KernelPages(Live(d)))
    ELSE d.pt = <<>> /\ d.tab = <<>> /\ d.max_page = 0 /\ d.image = 0

\* The free list fr and the process table pc share out the frames.
FramesIn(d) == FramesOf(d.tab) \cup FramesOf(d.pt)
Owns(fr, d) ==
    /\ FramesOf(d.tab) \subseteq Frames /\ Once(d.pt)
    /\ fr \cap FramesIn(d) = {} /\ FramesOf(d.tab) \cap FramesOf(d.pt) = {}
Shared(fr, pc) ==
    /\ \A p \in Slots : Owns(fr, pc[p])
    /\ \A p, q \in Slots : p # q => FramesIn(pc[p]) \cap FramesIn(pc[q]) \cap Frames = {}
    /\ \A f \in Frames : f \in fr \/ \E p \in Slots : f \in FramesIn(pc[p])
AllFit(pc) == \A p \in Slots : Fits(pc[p], p)

VmInv ==
    /\ free \in SUBSET Frames /\ proc \in [Slots -> ProcType] /\ halt \in Whys
    /\ halt = "" => Shared(free, proc) /\ AllFit(proc)

(***************************************************************************)
(* Frames: kalloc, walk, mappages                                          *)
(***************************************************************************)
LEMMA KallocTakes ==
  ASSUME NEW m, m.free \in SUBSET Frames
  PROVE  /\ m.free = {} => kalloc(m) = NULL
         /\ m.free # {} => kalloc(m) \in m.free /\ kalloc(m) \in Frames
<1>1. CASE m.free = {}
  BY <1>1 DEF kalloc
<1>2. CASE m.free # {}
  <2>1. PICK s \in SUBSET (1 .. NFRAMES) : s = m.free /\ s # {}
    BY <1>2 DEF Frames
  <2>2. Min(s) \in s /\ \A y \in s : Min(s) <= y
    BY <2>1, VmAssumption, MinIn
  <2>3. \E f \in m.free : \A g \in m.free : f <= g
    BY <2>1, <2>2
  <2>4. kalloc(m) = CHOOSE f \in m.free : \A g \in m.free : f <= g
    BY <1>2 DEF kalloc
  <2> QED
    BY <1>2, <2>3, <2>4
<1> QED
  BY <1>1, <1>2

\* Taking a frame from the free list for a table; handing one over.
LEMMA WholeMoves ==
  ASSUME NEW a, NEW b, NEW c, NEW R, Whole(a, b, c, R)
  PROVE  /\ \A f \in a : Whole(a \ {f}, b \cup {f}, c, R) /\ Whole(a \ {f}, b, c, R \cup {f})
         /\ \A f \in R : Whole(a, b, c \cup {f}, R \ {f})
  BY DEF Whole

\* n has perhaps more table pages than m.
Walked(m, n) ==
    /\ n \in SpaceType /\ n.pt = m.pt /\ n.why = m.why
    /\ n.ok => m.ok
    /\ \A R : Sound(m, R) => Sound(n, R)

LEMMA AddTableTrue ==
  ASSUME NEW m \in SpaceType, NEW level \in Levels, NEW n, n = AddTable(m, level)
  PROVE  Walked(m, n)
<1>1. m.free \in SUBSET Frames /\ m.tab \in Tables /\ m.pt \in PageTable /\ m.ok \in BOOLEAN /\ m.why \in Whys
  BY DEF SpaceType
<1>2. CASE ~m.ok \/ level \in DOMAIN m.tab
  BY <1>2 DEF AddTable, Walked
<1>3. CASE ~(~m.ok \/ level \in DOMAIN m.tab) /\ m.free = {}
  <2>1. n = [m EXCEPT !.ok = FALSE]
    BY <1>3 DEF AddTable
  <2>2. n \in SpaceType /\ n.pt = m.pt /\ n.why = m.why /\ n.free = m.free /\ n.tab = m.tab /\ n.ok = FALSE
    BY <1>1, <2>1 DEF SpaceType
  <2> QED
    BY <2>2 DEF Sound, Walked
<1>4. CASE ~(~m.ok \/ level \in DOMAIN m.tab) /\ m.free # {}
  <2>1. PICK f \in m.free : f = kalloc(m) /\ f \in Frames
    BY <1>1, <1>4, KallocTakes
  <2>2. PICK t : t = With(m.tab, level, f)
    OBVIOUS
  <2>3. n = [m EXCEPT !.tab = t, !.free = m.free \ {f}]
    BY <1>4, <2>1, <2>2 DEF AddTable
  <2>4. t \in Tables /\ FramesOf(t) = FramesOf(m.tab) \cup {f}
    <3>1. PICK tab \in Partial(Levels, Frames \cup {NULL}) : tab = m.tab /\ level \notin DOMAIN tab
      BY <1>1, <1>4 DEF Tables
    <3>2. PICK x \in Frames \cup {NULL} : x = f
      BY <2>1
    <3>3. t = With(tab, level, x)
      BY <2>2, <3>1, <3>2
    <3>4. With(tab, level, x) \in Partial(Levels, Frames \cup {NULL}) /\ Extended(With(tab, level, x), tab, level, x)
      BY PartialWith
    <3>5. FramesOf(t) = FramesOf(tab) \cup {x}
      BY <3>1, <3>3, <3>4, ExtendedFrames
    <3> QED
      BY <3>1, <3>2, <3>3, <3>4, <3>5 DEF Tables
  <2>5. n \in SpaceType /\ n.pt = m.pt /\ n.why = m.why /\ n.free = m.free \ {f} /\ n.tab = t /\ n.ok = m.ok
    BY <1>1, <2>3, <2>4 DEF SpaceType
  <2>6. ASSUME NEW R, Sound(m, R)
        PROVE  Sound(n, R)
    <3>1. Whole(m.free, FramesOf(m.tab), FramesOf(m.pt), R) /\ Once(m.pt) /\ FramesOf(m.tab) \subseteq Frames
      BY <2>6 DEF Sound
    <3>2. Whole(m.free \ {f}, FramesOf(m.tab) \cup {f}, FramesOf(m.pt), R)
      BY <3>1, WholeMoves
    <3> QED
      BY <2>1, <2>4, <2>5, <3>1, <3>2 DEF Sound
  <2> QED
    BY <1>4, <2>5, <2>6 DEF Walked
<1> QED
  BY <1>2, <1>3, <1>4

LEMMA WalkTrue ==
  ASSUME NEW m \in SpaceType, NEW va, NEW n, n = walk(m, va)
  PROVE  Walked(m, n)
<1> DEFINE seq == Path(va)
           T == 1 .. 2
           C == CHOOSE it : it = [s \in SUBSET T |->
                  IF s = {} THEN m ELSE LET x == Max(s) IN AddTable(it[s \ {x}], seq[x])]
<1>1. DOMAIN seq = T /\ seq[1] \in Levels /\ seq[2] \in Levels
  BY DEF Path, Levels
<1>2. n = C[T]
  BY <1>1 DEF walk, FoldLeft, MapThenFoldSet
<1>3. PICK step : step = [z \in T \X SpaceType |-> AddTable(z[2], seq[z[1]])]
  OBVIOUS
<1>4. \A k \in T, v \in SpaceType : step[<<k, v>>] = AddTable(v, seq[k])
  BY <1>3
<1> HIDE DEF seq
<1>5. step \in [T \X SpaceType -> SpaceType]
  <2>1. \A v \in SpaceType, k \in T : AddTable(v, seq[k]) \in SpaceType
    <3> TAKE v \in SpaceType, k \in T
    <3>1. PICK l \in Levels : l = seq[k]
      BY <1>1
    <3> QED
      BY <3>1, AddTableTrue DEF Walked
  <2> QED
    BY <1>3, <2>1
<1>6. PICK g : LastFold(g, SpaceType, m, step, 2)
  BY <1>5, FoldLast
<1>7. /\ g = [s \in SUBSET T |-> IF s = {} THEN m ELSE step[<<Max(s), g[s \ {Max(s)}]>>]]
      /\ \A s \in SUBSET T : g[s] \in SpaceType
  BY <1>6 DEF LastFold
<1>8. \A s \in SUBSET T : s # {} => Max(s) \in T /\ g[s] = AddTable(g[s \ {Max(s)}], seq[Max(s)])
  <2> TAKE s \in SUBSET T
  <2> HAVE s # {}
  <2>1. Max(s) \in s
    BY MaxIn
  <2>2. Max(s) \in T /\ g[s \ {Max(s)}] \in SpaceType
    BY <1>7, <2>1
  <2> QED
    BY <1>4, <1>7, <2>2
<1>9. g = [s \in SUBSET T |-> IF s = {} THEN m ELSE LET x == Max(s) IN AddTable(g[s \ {x}], seq[x])]
  <2>1. g = [s \in SUBSET T |-> g[s]] /\ g[{}] = m
    BY <1>7
  <2> QED
    BY <1>8, <2>1
<1>10. C = [s \in SUBSET T |-> IF s = {} THEN m ELSE LET x == Max(s) IN AddTable(C[s \ {x}], seq[x])]
  BY <1>9, Zenon
<1> HIDE DEF C
<1>11. C[T] = g[T]
  <2>1. C[{}] = g[{}]
    BY <1>7, <1>10
  <2>2. \A s \in SUBSET T : s # {} /\ C[s \ {Max(s)}] = g[s \ {Max(s)}] => C[s] = g[s]
    BY <1>8, <1>10
  <2> QED
    BY <2>1, <2>2, FoldSame
<1>12. PICK f : Chain(f, SpaceType, m, step, 2) /\ f[2] = g[T]
  <2>1. PICK k \in Nat : k = 2
    OBVIOUS
  <2>2. LastFold(g, SpaceType, m, step, k)
    BY <1>6, <2>1
  <2>3. \E f : Chain(f, SpaceType, m, step, k) /\ f[k] = g[1 .. k]
    BY <2>2, FoldChain
  <2> QED
    BY <2>1, <2>3
<1>13. PICK u \in SpaceType : u = AddTable(m, seq[1]) /\ n = AddTable(u, seq[2])
  BY <1>1, <1>2, <1>4, <1>11, <1>12 DEF Chain
<1>14. PICK a \in Levels, b \in Levels : a = seq[1] /\ b = seq[2]
  BY <1>1
<1>15. Walked(m, u)
  BY <1>13, <1>14, AddTableTrue
<1>16. Walked(u, n)
  BY <1>13, <1>14, AddTableTrue
<1> QED
  BY <1>15, <1>16 DEF Walked

\* mappages succeeded: f is at the page va, which was not mapped, and has left R; or it
\* changed nothing but the table pages.
AddedAt(m, n, va, f) ==
    /\ va \notin DOMAIN m.pt /\ Extended(n.pt, m.pt, va, f)
    /\ \A R \in SUBSET Frames : Sound(m, R) /\ (f \in Frames => f \in R) => Sound(n, R \ {f})
NotAdded(m, n) == n.pt = m.pt /\ \A R : Sound(m, R) => Sound(n, R)
MapsOrNot(m, n, va, f) ==
    /\ n \in SpaceType /\ n.why = m.why
    /\ n.ok => AddedAt(m, n, va, f)
    /\ ~n.ok => NotAdded(m, n)

LEMMA OnceExtended ==
  ASSUME NEW f, NEW g, NEW x, NEW y, Once(f), Extended(g, f, x, y), x \notin DOMAIN f,
         y \in Frames => y \notin FramesOf(f)
  PROVE  Once(g)
<1>1. \A a \in DOMAIN f : g[a] = f[a]
  BY DEF Extended
<1>2. g[x] = y /\ DOMAIN g = DOMAIN f \cup {x}
  BY DEF Extended
<1>3. y \in Frames => \A a \in DOMAIN f : f[a] # y
  BY DEF FramesOf
<1>4. ASSUME NEW a \in DOMAIN g, NEW b \in DOMAIN g, a # b, g[a] \in Frames, g[a] = g[b]
      PROVE  FALSE
  <2>1. CASE a = x
    BY <1>1, <1>2, <1>3, <1>4, <2>1
  <2>2. CASE b = x
    BY <1>1, <1>2, <1>3, <1>4, <2>2
  <2>3. CASE a # x /\ b # x
    BY <1>1, <1>2, <1>4, <2>3 DEF Once
  <2> QED
    BY <2>1, <2>2, <2>3
<1> QED
  BY <1>4 DEF Once

LEMMA MapsPage ==
  ASSUME NEW m \in SpaceType, NEW va \in Int, NEW f \in Leafs, NEW n, n = mappages(m, va, f)
  PROVE  MapsOrNot(m, n, va, f)
<1>1. m.free \in SUBSET Frames /\ m.tab \in Tables /\ m.pt \in PageTable /\ m.ok \in BOOLEAN /\ m.why \in Whys
  BY DEF SpaceType
<1>2. PICK k : k = [m EXCEPT !.ok = TRUE]
  OBVIOUS
<1>3. k \in SpaceType /\ k.free = m.free /\ k.pt = m.pt /\ k.tab = m.tab /\ k.why = m.why
  BY <1>1, <1>2 DEF SpaceType
<1>4. \A R : Sound(m, R) => Sound(k, R)
  BY <1>3 DEF Sound
<1>5. PICK w : w = walk(k, va)
  OBVIOUS
<1>6. Walked(k, w)
  BY <1>3, <1>5, WalkTrue
<1>7. w \in SpaceType /\ w.pt = m.pt /\ w.why = m.why /\ \A R : Sound(m, R) => Sound(w, R)
  BY <1>3, <1>4, <1>6 DEF Walked
<1>8. n = Mapped(w, va, f)
  BY <1>2, <1>5 DEF mappages
<1>9. w.free \in SUBSET Frames /\ w.tab \in Tables /\ w.pt \in PageTable /\ w.ok \in BOOLEAN /\ w.why \in Whys
  BY <1>7 DEF SpaceType
<1>10. CASE ~w.ok \/ va \in DOMAIN w.pt
  <2>1. n = [w EXCEPT !.ok = FALSE]
    BY <1>8, <1>10 DEF Mapped
  <2>2. n \in SpaceType /\ n.why = m.why /\ n.pt = m.pt /\ n.free = w.free /\ n.tab = w.tab /\ n.pt = w.pt /\ ~n.ok
    BY <1>7, <1>9, <2>1 DEF SpaceType
  <2>3. \A R : Sound(w, R) => Sound(n, R)
    BY <2>2 DEF Sound
  <2> QED
    BY <1>7, <2>2, <2>3 DEF MapsOrNot, NotAdded
<1>11. CASE ~(~w.ok \/ va \in DOMAIN w.pt)
  <2>1. PICK t : t = With(w.pt, va, f)
    OBVIOUS
  <2>2. n = [w EXCEPT !.pt = t]
    BY <1>8, <1>11, <2>1 DEF Mapped
  <2>3. t \in PageTable /\ Extended(t, w.pt, va, f)
    <3>1. PICK pt \in Partial(Int, Leafs) : pt = w.pt
      BY <1>9 DEF PageTable
    <3>2. With(pt, va, f) \in Partial(Int, Leafs) /\ Extended(With(pt, va, f), pt, va, f)
      BY PartialWith
    <3> QED
      BY <2>1, <3>1, <3>2 DEF PageTable
  <2>4. n \in SpaceType /\ n.why = m.why /\ n.free = w.free /\ n.tab = w.tab /\ n.pt = t /\ n.ok
    BY <1>7, <1>9, <1>11, <2>2, <2>3 DEF SpaceType
  <2>5. va \notin DOMAIN m.pt /\ Extended(n.pt, m.pt, va, f)
    BY <1>7, <1>11, <2>3, <2>4
  <2>6. FramesOf(n.pt) = FramesOf(w.pt) \cup {f}
    BY <1>11, <2>3, <2>4, ExtendedFrames
  <2>7. ASSUME NEW R \in SUBSET Frames, Sound(m, R), f \in Frames => f \in R
        PROVE  Sound(n, R \ {f})
    <3>1. /\ FramesOf(w.tab) \subseteq Frames /\ Once(w.pt)
          /\ Whole(w.free, FramesOf(w.tab), FramesOf(w.pt), R)
      BY <1>7, <2>7 DEF Sound
    <3>2. f \in Frames => f \notin FramesOf(w.pt)
      BY <2>7, <3>1 DEF Whole
    <3>3. Once(n.pt)
      BY <1>11, <2>3, <2>4, <3>1, <3>2, OnceExtended
    <3>4. Whole(w.free, FramesOf(w.tab), FramesOf(w.pt) \cup {f}, R \ {f})
      BY <1>9, <2>7, <3>1 DEF Whole
    <3> QED
      BY <2>4, <2>6, <3>1, <3>3, <3>4 DEF Sound
  <2> QED
    BY <2>4, <2>5, <2>7 DEF MapsOrNot, AddedAt
<1> QED
  BY <1>10, <1>11

\* A page with a frame from the free list; without success that frame is in no one's hands.
Took(m, n, va, f) ==
    /\ n \in SpaceType /\ n.why = m.why
    /\ n.ok => /\ va \notin DOMAIN m.pt /\ Extended(n.pt, m.pt, va, f)
               /\ \A R \in SUBSET Frames : Sound(m, R) => Sound(n, R)
    /\ ~n.ok => /\ n.pt = m.pt
                /\ \A R \in SUBSET Frames : Sound(m, R) /\ f # NULL => f \in Frames \ R /\ Sound(n, R \cup {f})

LEMMA KallocLeaf ==
  ASSUME NEW m \in SpaceType
  PROVE  /\ kalloc(m) \in Leafs /\ kalloc(m) >= 0 /\ kalloc(m) \in Int
         /\ m.free = {} => kalloc(m) = NULL /\ kalloc(m) \notin Frames
         /\ m.free # {} => kalloc(m) \in m.free /\ kalloc(m) \in Frames /\ kalloc(m) # NULL
<1>1. m.free \in SUBSET Frames
  BY DEF SpaceType
<1>2. /\ m.free = {} => kalloc(m) = NULL
      /\ m.free # {} => kalloc(m) \in m.free /\ kalloc(m) \in Frames
  BY <1>1, KallocTakes
<1>3. NPROC * NTHREAD \in Nat
  BY VmAssumption
<1>4. NULL \in Leafs /\ Frames \subseteq Leafs
  BY <1>3, VmAssumption DEF NULL, Leafs, Frames
<1> QED
  BY <1>2, <1>4, VmAssumption DEF Frames, NULL

LEMMA TakesPage ==
  ASSUME NEW m \in SpaceType, NEW va \in Int, NEW n, n = TakeMapped(m, va)
  PROVE  Took(m, n, va, kalloc(m))
<1>1. m.free \in SUBSET Frames /\ m.tab \in Tables /\ m.pt \in PageTable /\ m.ok \in BOOLEAN /\ m.why \in Whys
  BY DEF SpaceType
<1>2. PICK f \in Leafs : /\ f = kalloc(m)
                         /\ m.free = {} => f = NULL /\ f \notin Frames
                         /\ m.free # {} => f \in m.free /\ f \in Frames /\ f # NULL
  BY KallocLeaf
<1>3. PICK k : k = [m EXCEPT !.free = m.free \ {f}]
  OBVIOUS
<1>4. k \in SpaceType /\ k.free = m.free \ {f} /\ k.pt = m.pt /\ k.tab = m.tab /\ k.why = m.why
  BY <1>1, <1>3 DEF SpaceType
<1>5. n = mappages(k, va, f)
  BY <1>2, <1>3 DEF TakeMapped
<1>6. MapsOrNot(k, n, va, f)
  BY <1>4, <1>5, MapsPage
<1>7. ASSUME NEW R \in SUBSET Frames, Sound(m, R)
      PROVE  /\ f \in Frames => f \notin R /\ Sound(k, R \cup {f})
             /\ f \notin Frames => Sound(k, R)
  <2>1. /\ Whole(m.free, FramesOf(m.tab), FramesOf(m.pt), R) /\ Once(m.pt)
        /\ FramesOf(m.tab) \subseteq Frames
    BY <1>7 DEF Sound
  <2>2. CASE f \in Frames
    <3>1. f \in m.free /\ Whole(m.free \ {f}, FramesOf(m.tab), FramesOf(m.pt), R \cup {f})
      BY <1>2, <2>1, <2>2, WholeMoves
    <3> QED
      BY <1>4, <2>1, <2>2, <3>1 DEF Sound, Whole
  <2>3. CASE f \notin Frames
    <3>1. k.free = m.free
      BY <1>1, <1>4, <2>3
    <3> QED
      BY <1>4, <2>1, <2>3, <3>1 DEF Sound
  <2> QED
    BY <2>2, <2>3
<1>8. n \in SpaceType /\ n.why = m.why
  BY <1>4, <1>6 DEF MapsOrNot
<1>9. CASE n.ok
  <2>1. va \notin DOMAIN m.pt /\ Extended(n.pt, m.pt, va, f) /\ AddedAt(k, n, va, f)
    BY <1>4, <1>6, <1>9 DEF MapsOrNot, AddedAt
  <2>2. ASSUME NEW R \in SUBSET Frames, Sound(m, R)
        PROVE  Sound(n, R)
    <3>1. CASE f \in Frames
      <4>1. PICK S \in SUBSET Frames : S = R \cup {f} /\ f \in S /\ S \ {f} = R /\ Sound(k, S)
        BY <1>7, <2>2, <3>1
      <4> QED
        BY <2>1, <4>1 DEF AddedAt
    <3>2. CASE f \notin Frames
      <4>1. Sound(k, R) /\ R \ {f} = R
        BY <1>7, <2>2, <3>2
      <4> QED
        BY <2>1, <3>2, <4>1 DEF AddedAt
    <3> QED
      BY <3>1, <3>2
  <2> QED
    BY <1>2, <1>8, <1>9, <2>1, <2>2 DEF Took
<1>10. CASE ~n.ok
  <2>1. n.pt = m.pt /\ \A R : Sound(k, R) => Sound(n, R)
    BY <1>4, <1>6, <1>10 DEF MapsOrNot, NotAdded
  <2>2. ASSUME NEW R \in SUBSET Frames, Sound(m, R), f # NULL
        PROVE  f \in Frames \ R /\ Sound(n, R \cup {f})
    BY <1>2, <1>7, <2>1, <2>2
  <2> QED
    BY <1>2, <1>8, <1>10, <2>1, <2>2 DEF Took
<1> QED
  BY <1>9, <1>10

(***************************************************************************)
(* The kernel's own frames; unmapping and freeing                          *)
(***************************************************************************)
High(W) == \A va \in W : va \in Int /\ va >= HIGH

LEMMA Heights ==
  /\ HIGH \in Int /\ TRAMPOLINE \in Int /\ TRAMPOLINE >= HIGH
  /\ \A t \in Tids : TrapframeVa(t) \in Int /\ TrapframeVa(t) >= HIGH /\ TrapframeVa(t) < TRAMPOLINE
  /\ Leafs \subseteq Int /\ Frames \subseteq Leafs /\ NULL \in Leafs
<1>1. PICK k \in Nat : k = NPROC * NTHREAD
  BY VmAssumption
<1>2. Leafs \subseteq Int /\ Frames \subseteq Leafs /\ NULL \in Leafs
  BY <1>1, VmAssumption DEF Leafs, Frames, NULL
<1> QED
  BY <1>2, VmAssumption DEF HIGH, TRAMPOLINE, Tids, TrapframeVa

LEMMA FirstOnes ==
  0 \in Tids /\ 0 \in Slots
  BY VmAssumption DEF Tids, Slots

LEMMA PositiveFrames ==
  \A f \in Frames : ~(f < 0)
  BY VmAssumption DEF Frames

LEMMA KernelExtended ==
  ASSUME NEW f, NEW g, NEW x, NEW y, NEW p, NEW W, KernelAt(f, p, W), Extended(g, f, x, y),
         (y < 0 \/ x >= HIGH) => x \in W /\ y = KernelFrame(p, x)
  PROVE  KernelAt(g, p, W)
<1>1. DOMAIN g = DOMAIN f \cup {x} /\ g[x] = y /\ \A z \in DOMAIN f : z # x => g[z] = f[z]
  BY DEF Extended
<1>2. ASSUME NEW va \in DOMAIN g, g[va] < 0 \/ va >= HIGH
      PROVE  va \in W /\ g[va] = KernelFrame(p, va)
  <2>1. CASE va = x
    BY <1>1, <1>2, <2>1
  <2>2. CASE va # x
    <3>1. va \in DOMAIN f /\ g[va] = f[va]
      BY <1>1, <2>2
    <3> QED
      BY <1>2, <3>1 DEF KernelAt
  <2> QED
    BY <2>1, <2>2
<1> QED
  BY <1>2 DEF KernelAt

LEMMA KernelShrunk ==
  ASSUME NEW f, NEW g, NEW S, NEW p, NEW W, KernelAt(f, p, W), Shrunk(g, f, S)
  PROVE  KernelAt(g, p, W \ S)
  BY DEF KernelAt, Shrunk

LEMMA KernelMore ==
  ASSUME NEW f, NEW p, NEW W, NEW X, KernelAt(f, p, W), W \subseteq X
  PROVE  KernelAt(f, p, X)
  BY DEF KernelAt

LEMMA Panics ==
  ASSUME NEW m \in SpaceType, NEW why \in Whys, why # ""
  PROVE  /\ Panicked(m, why) \in SpaceType /\ Panicked(m, why).why # "" /\ Panicked(m, why).pt = m.pt
         /\ Panicked(m, why).ok = m.ok
  BY DEF SpaceType, Panicked

\* The frames of S are returned to the free list.
Freed(m, n, S) ==
    /\ n \in SpaceType /\ n.pt = m.pt /\ n.tab = m.tab /\ n.ok = m.ok /\ (n.why = "" => m.why = "")
    /\ n.why = "" => n.free = m.free \cup S /\ S \subseteq Frames

LEMMA Frees ==
  ASSUME NEW m \in SpaceType, NEW S \in SUBSET (Frames \cup {NULL}), NEW n, n = kfree(m, S)
  PROVE  Freed(m, n, S)
<1>1. m.free \in SUBSET Frames /\ m.tab \in Tables /\ m.pt \in PageTable /\ m.ok \in BOOLEAN /\ m.why \in Whys
  BY DEF SpaceType
<1>2. CASE S \subseteq Frames
  <2>1. n = [m EXCEPT !.free = m.free \cup S]
    BY <1>2 DEF kfree
  <2> QED
    BY <1>1, <1>2, <2>1 DEF SpaceType, Freed
<1>3. CASE ~(S \subseteq Frames)
  <2>1. NULL \in S
    BY <1>3
  <2>2. n = Panicked(m, "kfree null")
    BY <1>3, <2>1 DEF kfree
  <2>3. "kfree null" \in Whys
    BY DEF Whys
  <2> QED
    BY <1>1, <1>3, <2>2, <2>3 DEF SpaceType, Panicked, Freed
<1> QED
  BY <1>2, <1>3

\* No product of a slot and NTHREAD reaches NPROC * NTHREAD.
LEMMA SlotThreads ==
  ASSUME NEW p \in Slots, NEW t \in Tids
  PROVE  p * NTHREAD + t \in Nat /\ p * NTHREAD + t < NPROC * NTHREAD
<1>1. p \in Nat /\ NPROC \in Nat /\ NTHREAD \in Nat /\ p + 1 <= NPROC
  BY VmAssumption DEF Slots
<1>2. PICK j \in Nat : NPROC = (p + 1) + j
  <2>1. NPROC - (p + 1) \in Nat /\ NPROC = (p + 1) + (NPROC - (p + 1))
    BY <1>1
  <2> QED
    BY <2>1
<1>3. NPROC * NTHREAD = p * NTHREAD + NTHREAD + j * NTHREAD
  BY <1>1, <1>2
<1>4. j * NTHREAD \in Nat /\ p * NTHREAD \in Nat
  BY <1>1
<1>5. t \in Nat /\ t < NTHREAD
  BY <1>1 DEF Tids
<1> QED
  BY <1>1, <1>3, <1>4, <1>5

LEMMA KernelFrames ==
  ASSUME NEW p \in Slots, NEW va \in KernelPages(Tids)
  PROVE  KernelFrame(p, va) \in Leafs /\ KernelFrame(p, va) < 0 /\ va \in Int /\ va >= HIGH
<1>1. CASE va = TRAMPOLINE
  <2>1. PICK k \in Nat : k = NPROC * NTHREAD
    BY VmAssumption
  <2> QED
    BY <1>1, <2>1, Heights, VmAssumption DEF KernelFrame, TrampolineFrame, Leafs
<1>2. CASE va # TRAMPOLINE
  <2>1. PICK t \in Tids : va = TrapframeVa(t)
    BY <1>2 DEF KernelPages
  <2>2. TRAMPOLINE - 1 - va = t
    BY <2>1, Heights DEF TrapframeVa, Tids
  <2>3. KernelFrame(p, va) = -2 - (p * NTHREAD + t)
    BY <1>2, <2>2 DEF KernelFrame, TrapframeOf
  <2>4. p * NTHREAD + t \in Nat /\ p * NTHREAD + t < NPROC * NTHREAD
    BY SlotThreads
  <2>5. PICK j \in Nat, k \in Nat : j = p * NTHREAD + t /\ k = NPROC * NTHREAD
    BY <2>4, VmAssumption
  <2>6. KernelFrame(p, va) \in Leafs /\ KernelFrame(p, va) < 0
    BY <2>3, <2>4, <2>5, VmAssumption DEF Leafs
  <2> QED
    BY <2>1, <2>6, Heights
<1> QED
  BY <1>1, <1>2

\* n is m without the pages of S.
Unmapped(m, n, p, R, W, S) ==
    Good(n, R, p, W) /\ (n.why = "" => m.why = "") /\ n.ok = m.ok /\ Shrunk(n.pt, m.pt, S)

LEMMA UnmapsKernel ==
  ASSUME NEW m, NEW R, NEW p \in Slots, NEW W \in SUBSET KernelPages(Tids), Good(m, R, p, W),
         NEW S, High(S), NEW n, n = uvmunmap(m, S, FALSE)
  PROVE  Unmapped(m, n, p, R, W \ S, S)
<1>1. m \in SpaceType /\ m.free \in SUBSET Frames /\ m.tab \in Tables /\ m.pt \in PageTable /\ m.ok \in BOOLEAN /\ m.why \in Whys
  BY DEF Good, SpaceType
<1>2. PICK gone : gone = S \cap DOMAIN m.pt
  OBVIOUS
<1>3. PICK t : t = Without(m.pt, gone)
  OBVIOUS
<1>4. n = [m EXCEPT !.pt = t]
  BY <1>2, <1>3 DEF uvmunmap
<1>5. t \in PageTable /\ Shrunk(t, m.pt, gone)
  <2>1. PICK pt \in Partial(Int, Leafs) : pt = m.pt
    BY <1>1 DEF PageTable
  <2>2. Without(pt, gone) \in Partial(Int, Leafs) /\ Shrunk(Without(pt, gone), pt, gone)
    BY PartialWithout
  <2> QED
    BY <1>3, <2>1, <2>2 DEF PageTable
<1>6. n \in SpaceType /\ n.pt = t /\ n.free = m.free /\ n.tab = m.tab /\ n.why = m.why /\ n.ok = m.ok
  BY <1>1, <1>4, <1>5 DEF SpaceType
<1>7. Shrunk(n.pt, m.pt, S)
  BY <1>2, <1>5, <1>6 DEF Shrunk
<1>8. ASSUME n.why = ""
      PROVE  Sound(n, R) /\ KernelAt(n.pt, p, W \ S)
  <2>1. Sound(m, R) /\ KernelAt(m.pt, p, W)
    BY <1>6, <1>8 DEF Good
  <2>2. /\ Whole(m.free, FramesOf(m.tab), FramesOf(m.pt), R) /\ Once(m.pt)
        /\ FramesOf(m.tab) \subseteq Frames
    BY <2>1 DEF Sound
  <2>3. Once(t)
    BY <1>5, <2>2 DEF Once, Shrunk
  <2>4. FramesOf(t) \subseteq FramesOf(m.pt)
    BY <1>5 DEF Shrunk, FramesOf
  <2>5. \A va \in gone : m.pt[va] < 0
    <3> TAKE va \in gone
    <3>1. va \in S /\ va \in DOMAIN m.pt /\ va >= HIGH
      BY <1>2 DEF High
    <3>2. va \in W /\ m.pt[va] = KernelFrame(p, va)
      BY <2>1, <3>1 DEF KernelAt
    <3>3. va \in KernelPages(Tids)
      BY <3>2
    <3> QED
      BY <3>2, <3>3, KernelFrames
  <2>6. FramesOf(m.pt) \cap Frames \subseteq FramesOf(t)
    <3>1. \A f \in Frames : ~(f < 0)
      BY VmAssumption DEF Frames
    <3> QED
      BY <1>5, <2>5, <3>1 DEF Shrunk, FramesOf
  <2>7. Whole(m.free, FramesOf(m.tab), FramesOf(t), R)
    BY <2>2, <2>4, <2>6 DEF Whole
  <2>8. KernelAt(n.pt, p, W \ S)
    BY <1>7, <2>1, KernelShrunk
  <2> QED
    BY <1>6, <2>2, <2>3, <2>7, <2>8 DEF Sound
<1> QED
  BY <1>6, <1>7, <1>8 DEF Good, Unmapped

\* Pages of a program map its own frames, or frame 0, which cannot be freed.
LEMMA UnmapsUser ==
  ASSUME NEW m, NEW R, NEW p \in Slots, NEW W \in SUBSET KernelPages(Tids), Good(m, R, p, W),
         NEW S, \A va \in S : va \in Int /\ va < HIGH, NEW n, n = uvmunmap(m, S, TRUE)
  PROVE  Unmapped(m, n, p, R, W, S)
<1>1. m \in SpaceType /\ m.free \in SUBSET Frames /\ m.tab \in Tables /\ m.pt \in PageTable /\ m.ok \in BOOLEAN /\ m.why \in Whys
  BY DEF Good, SpaceType
<1>2. PICK gone : gone = S \cap DOMAIN m.pt
  OBVIOUS
<1>3. PICK t : t = Without(m.pt, gone)
  OBVIOUS
<1>4. PICK k : k = [m EXCEPT !.pt = t]
  OBVIOUS
<1>5. t \in PageTable /\ Shrunk(t, m.pt, gone)
  <2>1. PICK pt \in Partial(Int, Leafs) : pt = m.pt
    BY <1>1 DEF PageTable
  <2>2. Without(pt, gone) \in Partial(Int, Leafs) /\ Shrunk(Without(pt, gone), pt, gone)
    BY PartialWithout
  <2> QED
    BY <1>3, <2>1, <2>2 DEF PageTable
<1>6. k \in SpaceType /\ k.pt = t /\ k.free = m.free /\ k.tab = m.tab /\ k.why = m.why /\ k.ok = m.ok
  BY <1>1, <1>4, <1>5 DEF SpaceType
<1>7. PICK X : X = {m.pt[va] : va \in gone}
  OBVIOUS
<1>8. n = kfree(k, X)
  BY <1>2, <1>3, <1>4, <1>7 DEF uvmunmap
<1>9. Shrunk(t, m.pt, S)
  BY <1>2, <1>5 DEF Shrunk
<1>10. CASE m.why # ""
  <2>1. n = k \/ (n = [k EXCEPT !.free = k.free \cup X] /\ X \subseteq Frames)
    <3>1. CASE X \subseteq Frames
      BY <1>8, <3>1 DEF kfree
    <3>2. CASE ~(X \subseteq Frames)
      <4>1. PICK why : n = Panicked(k, why)
        BY <1>8, <3>2 DEF kfree
      <4>2. k.why # ""
        BY <1>6, <1>10
      <4>3. n = k
        BY <4>1, <4>2, Zenon DEF Panicked
      <4> QED
        BY <4>3
    <3> QED
      BY <3>1, <3>2
  <2>2. n \in SpaceType /\ n.why = m.why /\ n.pt = t /\ n.ok = m.ok
    BY <1>1, <1>6, <2>1 DEF SpaceType
  <2> QED
    BY <1>9, <1>10, <2>2 DEF Good, Unmapped
<1>11. CASE m.why = ""
  <2>1. Sound(m, R) /\ KernelAt(m.pt, p, W)
    BY <1>11 DEF Good
  <2>2. /\ Whole(m.free, FramesOf(m.tab), FramesOf(m.pt), R) /\ Once(m.pt)
        /\ FramesOf(m.tab) \subseteq Frames
    BY <2>1 DEF Sound
  <2>3. \A va \in gone : m.pt[va] \in Frames \cup {NULL}
    <3> TAKE va \in gone
    <3>1. va \in DOMAIN m.pt /\ va \in Int /\ va < HIGH
      BY <1>2
    <3>2. PICK f \in Leafs : f = m.pt[va]
      <4>1. PICK pt \in Partial(Int, Leafs) : pt = m.pt
        BY <1>1 DEF PageTable
      <4>2. pt \in [DOMAIN pt -> Leafs]
        BY PartialIs
      <4> QED
        BY <3>1, <4>1, <4>2
    <3>3. ASSUME f < 0
          PROVE  FALSE
      <4>1. va \in KernelPages(Tids)
        BY <2>1, <3>1, <3>2, <3>3 DEF KernelAt
      <4>2. va >= HIGH
        BY <4>1, KernelFrames
      <4> QED
        BY <3>1, <4>2, Heights
    <3>4. f \in Int /\ f <= NFRAMES
      <4>1. PICK j \in Nat : j = NPROC * NTHREAD
        BY VmAssumption
      <4> QED
        BY <4>1, VmAssumption DEF Leafs
    <3> QED
      BY <3>2, <3>3, <3>4, VmAssumption DEF Frames, NULL
  <2>4. X \in SUBSET (Frames \cup {NULL})
    BY <1>7, <2>3
  <2>5. /\ n \in SpaceType /\ n.pt = t /\ n.tab = m.tab /\ n.ok = m.ok /\ (n.why = "" => k.why = "")
        /\ n.why = "" => n.free = m.free \cup X /\ X \subseteq Frames
    <3>1. PICK y \in SpaceType : y = k
      BY <1>6
    <3>2. PICK Y \in SUBSET (Frames \cup {NULL}) : Y = X
      BY <2>4
    <3>3. n = kfree(y, Y)
      BY <1>8, <3>1, <3>2
    <3>4. Freed(y, n, Y)
      BY <3>3, Frees
    <3> QED
      BY <1>6, <3>1, <3>2, <3>4 DEF Freed
  <2>6. ASSUME n.why = ""
        PROVE  Sound(n, R) /\ KernelAt(n.pt, p, W)
    <3>1. n.free = m.free \cup X /\ X \subseteq Frames
      BY <2>5, <2>6
    <3>2. Once(t)
      BY <1>5, <2>2 DEF Once, Shrunk
    <3>3. FramesOf(t) \subseteq FramesOf(m.pt) /\ FramesOf(m.pt) \subseteq FramesOf(t) \cup X /\ X \subseteq FramesOf(m.pt)
      BY <1>2, <1>5, <1>7 DEF Shrunk, FramesOf
    <3>4. X \cap FramesOf(t) = {}
      <4>1. ASSUME NEW va \in gone, NEW vb \in DOMAIN t, m.pt[va] = t[vb]
            PROVE  FALSE
        <5>1. vb \in DOMAIN m.pt /\ vb \notin gone /\ t[vb] = m.pt[vb] /\ va \in DOMAIN m.pt
          BY <1>2, <1>5 DEF Shrunk
        <5>2. m.pt[va] \in Frames
          BY <1>7, <3>1
        <5> QED
          BY <2>2, <4>1, <5>1, <5>2 DEF Once
      <4> QED
        BY <1>7, <4>1 DEF FramesOf
    <3>5. Whole(m.free \cup X, FramesOf(m.tab), FramesOf(t), R)
      BY <2>2, <3>3, <3>4 DEF Whole
    <3>6. KernelAt(t, p, W \ gone)
      BY <1>5, <2>1, KernelShrunk
    <3>7. KernelAt(t, p, W)
      BY <3>6, KernelMore
    <3> QED
      BY <2>2, <2>5, <3>1, <3>2, <3>5, <3>7 DEF Sound
  <2> QED
    BY <1>6, <1>9, <2>5, <2>6 DEF Good, Unmapped
<1> QED
  BY <1>10, <1>11

\* A kernel that has panicked panics no more.
LEMMA FreesNoMore ==
  ASSUME NEW m \in SpaceType, m.why # "", NEW S, NEW n, n = kfree(m, S)
  PROVE  n \in SpaceType /\ n.why = m.why
<1>1. m.free \in SUBSET Frames /\ m.tab \in Tables /\ m.pt \in PageTable /\ m.ok \in BOOLEAN /\ m.why \in Whys
  BY DEF SpaceType
<1>2. CASE S \subseteq Frames
  <2>1. n = [m EXCEPT !.free = m.free \cup S]
    BY <1>2 DEF kfree
  <2> QED
    BY <1>1, <1>2, <2>1 DEF SpaceType
<1>3. CASE ~(S \subseteq Frames)
  <2>1. PICK why : n = Panicked(m, why)
    BY <1>3 DEF kfree
  <2> QED
    BY <2>1, Zenon DEF Panicked
<1> QED
  BY <1>2, <1>3

\* Without kernel frames, an address space has only frames of its own, or frame 0.
LEMMA OwnFrames ==
  ASSUME NEW pt \in PageTable, NEW p \in Slots, KernelAt(pt, p, {})
  PROVE  FramesOf(pt) \subseteq Frames \cup {NULL}
<1>1. pt \in [DOMAIN pt -> Leafs]
  BY PartialIs DEF PageTable
<1>2. ASSUME NEW va \in DOMAIN pt
      PROVE  pt[va] \in Frames \cup {NULL}
  <2>1. ~(pt[va] < 0)
    BY DEF KernelAt
  <2>2. pt[va] \in Leafs
    BY <1>1
  <2>3. PICK j \in Nat : j = NPROC * NTHREAD
    BY VmAssumption
  <2> QED
    BY <2>1, <2>2, <2>3, VmAssumption DEF Leafs, Frames, NULL
<1> QED
  BY <1>2 DEF FramesOf

LEMMA FreesSpace ==
  ASSUME NEW m, NEW R, NEW p \in Slots, Good(m, R, p, {}), NEW n, n = freewalk(m)
  PROVE  Good(n, R, p, {}) /\ n.pt = <<>> /\ n.tab = <<>>
<1>1. m \in SpaceType /\ m.free \in SUBSET Frames /\ m.tab \in Tables /\ m.pt \in PageTable /\ m.ok \in BOOLEAN /\ m.why \in Whys
  BY DEF Good, SpaceType
<1>2. PICK X : X = FramesOf(m.pt) \cup FramesOf(m.tab)
  OBVIOUS
<1>3. PICK k : k = kfree(m, X)
  OBVIOUS
<1>4. n = [k EXCEPT !.pt = <<>>, !.tab = <<>>]
  BY <1>2, <1>3 DEF freewalk
<1>5. k \in SpaceType /\ (m.why # "" => k.why = m.why) /\ (k.why = "" => k.free = m.free \cup X /\ X \subseteq Frames)
  <2>1. CASE m.why # ""
    BY <1>1, <1>3, <2>1, FreesNoMore
  <2>2. CASE m.why = ""
    <3>1. Sound(m, R) /\ KernelAt(m.pt, p, {})
      BY <2>2 DEF Good
    <3>2. FramesOf(m.pt) \subseteq Frames \cup {NULL}
      BY <1>1, <3>1, OwnFrames
    <3>3. PICK Y \in SUBSET (Frames \cup {NULL}) : Y = X
      BY <1>2, <3>1, <3>2 DEF Sound
    <3>4. PICK y \in SpaceType : y = m
      BY <1>1
    <3>5. k = kfree(y, Y)
      BY <1>3, <3>3, <3>4
    <3>6. Freed(y, k, Y)
      BY <3>5, Frees
    <3> QED
      BY <2>2, <3>3, <3>4, <3>6 DEF Freed
  <2> QED
    BY <2>1, <2>2
<1>6. <<>> \in PageTable /\ <<>> \in Tables
  BY PartialNone DEF PageTable, Tables
<1>7. n \in SpaceType /\ n.pt = <<>> /\ n.tab = <<>> /\ n.free = k.free /\ n.why = k.why
  BY <1>4, <1>5, <1>6 DEF SpaceType
<1>8. ASSUME n.why = ""
      PROVE  Sound(n, R) /\ KernelAt(n.pt, p, {})
  <2>1. m.why = "" /\ n.free = m.free \cup X /\ X \subseteq Frames
    BY <1>5, <1>7, <1>8
  <2>2. Whole(m.free, FramesOf(m.tab), FramesOf(m.pt), R)
    BY <2>1 DEF Good, Sound
  <2>3. Whole(n.free, {}, {}, R)
    BY <1>2, <2>1, <2>2 DEF Whole
  <2>4. FramesOf(n.pt) = {} /\ FramesOf(n.tab) = {} /\ DOMAIN n.pt = {}
    BY <1>7, PartialNone
  <2>5. Sound(n, R)
    BY <2>3, <2>4 DEF Sound, Once
  <2>6. KernelAt(n.pt, p, {})
    BY <2>4 DEF KernelAt
  <2> QED
    BY <2>5, <2>6
<1> QED
  BY <1>7, <1>8 DEF Good

LEMMA FreesProcess ==
  ASSUME NEW m, NEW R, NEW p \in Slots, Good(m, R, p, {TRAMPOLINE}),
         NEW max_page \in Nat, max_page <= HIGH, NEW n, n = freepagetable(m, max_page)
  PROVE  Good(n, R, p, {}) /\ n.pt = <<>> /\ n.tab = <<>>
<1>1. PICK k : k = uvmunmap(m, {TRAMPOLINE}, FALSE)
  OBVIOUS
<1>2. PICK l : l = uvmunmap(k, Below(max_page), TRUE)
  OBVIOUS
<1>3. n = freewalk(l)
  BY <1>1, <1>2 DEF freepagetable
<1>4. High({TRAMPOLINE}) /\ {TRAMPOLINE} \in SUBSET KernelPages(Tids)
  BY Heights DEF High, KernelPages
<1>5. Unmapped(m, k, p, R, {TRAMPOLINE} \ {TRAMPOLINE}, {TRAMPOLINE})
  BY <1>1, <1>4, UnmapsKernel
<1>6. Good(k, R, p, {})
  <2>1. {TRAMPOLINE} \ {TRAMPOLINE} = {}
    OBVIOUS
  <2> QED
    BY <1>5, <2>1 DEF Unmapped
<1>7. \A va \in Below(max_page) : va \in Int /\ va < HIGH
  BY Heights DEF Below
<1>8. Good(l, R, p, {})
  <2>1. PICK W \in SUBSET KernelPages(Tids) : W = {}
    OBVIOUS
  <2>2. Unmapped(k, l, p, R, W, Below(max_page))
    BY <1>2, <1>6, <1>7, <2>1, UnmapsUser
  <2> QED
    BY <2>1, <2>2 DEF Unmapped
<1> QED
  BY <1>3, <1>8, FreesSpace

(***************************************************************************)
(* Threads                                                                 *)
(***************************************************************************)
\* A process's stacks end below the trap frames.
Stacks(d) == d.ustack \in Nat /\ d.ustack + NTHREAD <= HIGH

LEMMA ThreadPages ==
  ASSUME NEW d, Stacks(d), NEW t \in Tids
  PROVE  d.ustack + t \in Int /\ d.ustack + t < HIGH /\ d.ustack + t \in Nat
  BY Heights, VmAssumption DEF Stacks, Tids

\* A thread less, and nothing lost of what it had.
Freethread(m, n, p, R, W, t) ==
    /\ Good(n, R, p, W \ {TrapframeVa(t)})
    /\ n.why = "" => m.why = ""
    /\ DOMAIN n.pt \subseteq DOMAIN m.pt \ {TrapframeVa(t)}
    /\ \A va \in DOMAIN n.pt : n.pt[va] = m.pt[va]

LEMMA FreesThread ==
  ASSUME NEW m, NEW R, NEW p \in Slots, NEW W \in SUBSET KernelPages(Tids), Good(m, R, p, W),
         NEW d, Stacks(d), NEW t \in Tids, NEW n, n = freethread(m, d, t)
  PROVE  Freethread(m, n, p, R, W, t)
<1>1. PICK k : k = uvmunmap(m, {TrapframeVa(t)}, FALSE)
  OBVIOUS
<1>2. PICK S : S = {d.ustack + t}
  OBVIOUS
<1>3. n = uvmunmap(k, S, TRUE)
  BY <1>1, <1>2 DEF freethread
<1>4. PICK T : T = {TrapframeVa(t)} /\ High(T)
  <2>1. High({TrapframeVa(t)})
    BY Heights DEF High
  <2> QED
    BY <2>1
<1>5. Unmapped(m, k, p, R, W \ T, T)
  BY <1>1, <1>4, UnmapsKernel
<1>6. PICK X \in SUBSET KernelPages(Tids) : X = W \ T
  OBVIOUS
<1>7. \A va \in S : va \in Int /\ va < HIGH
  BY <1>2, ThreadPages
<1>8. Good(k, R, p, X)
  BY <1>5, <1>6 DEF Unmapped
<1>9. Unmapped(k, n, p, R, X, S)
  BY <1>3, <1>6, <1>7, <1>8, UnmapsUser
<1> QED
  BY <1>4, <1>5, <1>6, <1>9 DEF Freethread, Unmapped, Shrunk

\* A page below the trap frames, from the free list.
TookGood(m, n, p, R, W) ==
    /\ n \in SpaceType /\ n.why = m.why
    /\ n.ok => Good(n, R, p, W)
    /\ ~n.ok /\ m.why = "" /\ kalloc(m) # NULL => kalloc(m) \in Frames \ R /\ Good(n, R \cup {kalloc(m)}, p, W)

LEMMA TakesGood ==
  ASSUME NEW m, NEW R \in SUBSET Frames, NEW p \in Slots, NEW W, Good(m, R, p, W),
         NEW va \in Int, va < HIGH, NEW n, n = TakeMapped(m, va)
  PROVE  TookGood(m, n, p, R, W)
<1>1. m \in SpaceType /\ (m.why = "" => Sound(m, R) /\ KernelAt(m.pt, p, W))
  BY DEF Good
<1>2. PICK f \in Leafs : f = kalloc(m) /\ f >= 0
  BY <1>1, KallocLeaf
<1>3. Took(m, n, va, f)
  BY <1>1, <1>2, TakesPage
<1>4. n \in SpaceType /\ n.why = m.why
  BY <1>3 DEF Took
<1>5. ASSUME n.ok, n.why = ""
      PROVE  Sound(n, R) /\ KernelAt(n.pt, p, W)
  <2>1. Sound(m, R) /\ KernelAt(m.pt, p, W) /\ Extended(n.pt, m.pt, va, f) /\ Sound(n, R)
    BY <1>1, <1>3, <1>4, <1>5 DEF Took
  <2>2. ~(f < 0) /\ ~(va >= HIGH)
    BY <1>2, Heights
  <2> QED
    BY <2>1, <2>2, KernelExtended
<1>6. ASSUME ~n.ok, m.why = "", f # NULL
      PROVE  f \in Frames \ R /\ Sound(n, R \cup {f}) /\ KernelAt(n.pt, p, W)
  BY <1>1, <1>3, <1>6 DEF Took
<1> QED
  BY <1>2, <1>4, <1>5, <1>6 DEF TookGood, Good

\* The trap frame of a thread.
LEMMA MapsTrapframe ==
  ASSUME NEW m, NEW R \in SUBSET Frames, NEW p \in Slots, NEW W, Good(m, R, p, W), NEW t \in Tids,
         NEW n, n = mappages(m, TrapframeVa(t), TrapframeOf(p, t))
  PROVE  n \in SpaceType /\ n.why = m.why /\ (n.ok => Good(n, R, p, W \cup {TrapframeVa(t)}))
<1>1. m \in SpaceType /\ (m.why = "" => Sound(m, R) /\ KernelAt(m.pt, p, W))
  BY DEF Good
<1>2. TrapframeVa(t) \in Int /\ TrapframeVa(t) # TRAMPOLINE /\ TrapframeVa(t) \in KernelPages(Tids)
  BY Heights DEF KernelPages
<1>3. KernelFrame(p, TrapframeVa(t)) = TrapframeOf(p, t)
  <2>1. TRAMPOLINE - 1 - TrapframeVa(t) = t
    BY Heights DEF TrapframeVa, Tids
  <2> QED
    BY <1>2, <2>1 DEF KernelFrame
<1>4. PICK f \in Leafs : f = TrapframeOf(p, t) /\ f < 0
  BY <1>2, <1>3, KernelFrames
<1>5. PICK va \in Int : va = TrapframeVa(t)
  BY <1>2
<1>6. n = mappages(m, va, f)
  BY <1>4, <1>5
<1>7. MapsOrNot(m, n, va, f)
  BY <1>1, <1>6, MapsPage
<1>8. n \in SpaceType /\ n.why = m.why
  BY <1>7 DEF MapsOrNot
<1>9. ASSUME n.ok, n.why = ""
      PROVE  Sound(n, R) /\ KernelAt(n.pt, p, W \cup {va})
  <2>1. Sound(m, R) /\ KernelAt(m.pt, p, W) /\ AddedAt(m, n, va, f)
    BY <1>1, <1>7, <1>8, <1>9 DEF MapsOrNot
  <2>2. f \notin Frames
    BY <1>4, VmAssumption DEF Frames
  <2>3. Sound(n, R \ {f}) /\ R \ {f} = R /\ Extended(n.pt, m.pt, va, f)
    BY <2>1, <2>2 DEF AddedAt
  <2>4. PICK X : X = W \cup {va}
    OBVIOUS
  <2>5. KernelAt(m.pt, p, X)
    BY <2>1, <2>4, KernelMore
  <2>6. va \in X /\ f = KernelFrame(p, va)
    BY <1>3, <1>4, <1>5, <2>4
  <2>7. KernelAt(n.pt, p, X)
    BY <2>3, <2>5, <2>6, KernelExtended
  <2> QED
    BY <2>3, <2>4, <2>7
<1> QED
  BY <1>5, <1>8, <1>9 DEF Good

LEMMA PanicGood ==
  ASSUME NEW m \in SpaceType, NEW why \in Whys, why # "", NEW R, NEW p, NEW W
  PROVE  Good(Panicked(m, why), R, p, W)
<1>1. Panicked(m, why) \in SpaceType /\ Panicked(m, why).why # ""
  BY Panics
<1> QED
  BY <1>1 DEF Good

LEMMA AllocsThread ==
  ASSUME NEW m, NEW R \in SUBSET Frames, NEW p \in Slots, NEW W, Good(m, R, p, W), NEW d, Stacks(d),
         NEW t \in Tids, NEW b \in BOOLEAN
  PROVE  Good(allocthread(m, p, d, t, b).m, R, p, W \cup {TrapframeVa(t)})
<1>1. PICK va \in Int : va = d.ustack + t /\ va < HIGH
  BY ThreadPages
<1>2. PICK s : s = IF b THEN uvmmap(m, va) ELSE m
  OBVIOUS
<1>3. PICK n : n = IF s.ok THEN mappages(s, TrapframeVa(t), TrapframeOf(p, t)) ELSE Panicked(s, "map ustack fail")
  OBVIOUS
<1>4. PICK r : r = IF n.ok THEN n ELSE Panicked(n, "map trapframe fail")
  OBVIOUS
<1>5. allocthread(m, p, d, t, b).m = r
  BY <1>1, <1>2, <1>3, <1>4 DEF allocthread
<1>6. s \in SpaceType /\ (s.ok => Good(s, R, p, W))
  <2>1. CASE b
    <3>1. s = TakeMapped(m, va)
      BY <1>2, <2>1 DEF uvmmap
    <3>2. TookGood(m, s, p, R, W)
      BY <1>1, <3>1, TakesGood
    <3> QED
      BY <3>2 DEF TookGood
  <2>2. CASE ~b
    BY <1>2, <2>2 DEF Good
  <2> QED
    BY <2>1, <2>2
<1>7. n \in SpaceType /\ (n.ok => Good(n, R, p, W \cup {TrapframeVa(t)}))
  <2>1. CASE s.ok
    <3>1. n = mappages(s, TrapframeVa(t), TrapframeOf(p, t)) /\ Good(s, R, p, W)
      BY <1>3, <1>6, <2>1
    <3>2. n \in SpaceType /\ n.why = s.why /\ (n.ok => Good(n, R, p, W \cup {TrapframeVa(t)}))
      BY <3>1, MapsTrapframe
    <3> QED
      BY <3>2
  <2>2. CASE ~s.ok
    <3>1. n = Panicked(s, "map ustack fail")
      BY <1>3, <2>2
    <3>2. PICK y \in Whys : y = "map ustack fail" /\ y # ""
      BY DEF Whys
    <3>3. n = Panicked(s, y)
      BY <3>1, <3>2
    <3>4. Good(n, R, p, W \cup {TrapframeVa(t)})
      BY <1>6, <3>2, <3>3, PanicGood
    <3> QED
      BY <3>4 DEF Good
  <2> QED
    BY <2>1, <2>2
<1>8. CASE n.ok
  BY <1>4, <1>5, <1>7, <1>8
<1>9. CASE ~n.ok
  <2>1. PICK y \in Whys : y = "map trapframe fail" /\ y # ""
    BY DEF Whys
  <2>2. r = Panicked(n, y)
    BY <1>4, <1>9, <2>1
  <2>3. Good(r, R, p, W \cup {TrapframeVa(t)})
    BY <1>7, <2>1, <2>2, PanicGood
  <2> QED
    BY <1>5, <2>3
<1> QED
  BY <1>8, <1>9

\* A new address space has the trampoline.
Holds(m, S) == m.why = "" => S \subseteq DOMAIN m.pt

LEMMA Creates ==
  ASSUME NEW m \in SpaceType, NEW R \in SUBSET Frames, NEW p \in Slots, m.why = "", m.pt = <<>>, m.tab = <<>>,
         Sound(m, R), NEW n, n = uvmcreate(m)
  PROVE  Good(n, R, p, {TRAMPOLINE}) /\ (n.why = "" => TRAMPOLINE \in DOMAIN n.pt)
<1>1. m.free \in SUBSET Frames /\ m.tab \in Tables /\ m.pt \in PageTable /\ m.ok \in BOOLEAN /\ m.why \in Whys
  BY DEF SpaceType
<1>2. PICK f \in Leafs : /\ f = kalloc(m)
                         /\ m.free = {} => f = NULL /\ f \notin Frames
                         /\ m.free # {} => f \in m.free /\ f \in Frames /\ f # NULL
  BY KallocLeaf
<1>3. PICK t : t = With(<<>>, "root", f)
  OBVIOUS
<1>4. PICK r : r = [m EXCEPT !.tab = t, !.pt = <<>>, !.free = m.free \ {f}]
  OBVIOUS
<1>5. PICK k : k = mappages(r, TRAMPOLINE, TrampolineFrame)
  OBVIOUS
<1>6. n = IF m.free = {} \/ ~k.ok THEN Panicked(m, "uvmcreate") ELSE k
  BY <1>2, <1>3, <1>4, <1>5 DEF uvmcreate
<1>7. CASE m.free = {} \/ ~k.ok
  <2>1. PICK y \in Whys : y = "uvmcreate" /\ y # ""
    BY DEF Whys
  <2>2. n = Panicked(m, y)
    BY <1>6, <1>7, <2>1
  <2> QED
    BY <2>1, <2>2, Panics, PanicGood
<1>8. CASE ~(m.free = {} \/ ~k.ok)
  <2>1. f \in m.free /\ f \in Frames /\ n = k /\ k.ok
    BY <1>2, <1>6, <1>8
  <2>2. t \in Tables /\ FramesOf(t) = {f}
    <3>1. PICK e \in Partial(Levels, Frames \cup {NULL}) : e = <<>> /\ DOMAIN e = {} /\ FramesOf(e) = {}
      BY PartialNone
    <3>2. PICK l \in Levels : l = "root"
      BY DEF Levels
    <3>3. PICK x \in Frames \cup {NULL} : x = f
      BY <2>1
    <3>4. With(e, l, x) \in Partial(Levels, Frames \cup {NULL}) /\ Extended(With(e, l, x), e, l, x)
      BY PartialWith
    <3>5. PICK u : u = With(e, l, x)
      OBVIOUS
    <3>6. Extended(u, e, l, x) /\ l \notin DOMAIN e
      BY <3>1, <3>4, <3>5
    <3>7. FramesOf(u) = FramesOf(e) \cup {x}
      BY <3>6, ExtendedFrames
    <3> QED
      BY <1>3, <3>1, <3>2, <3>3, <3>4, <3>5, <3>7 DEF Tables
  <2>3. r \in SpaceType /\ r.free = m.free \ {f} /\ r.tab = t /\ r.pt = <<>> /\ r.why = ""
    BY <1>1, <1>4, <2>2 DEF SpaceType
  <2>4. FramesOf(<<>>) = {} /\ DOMAIN <<>> = {}
    BY PartialNone
  <2>5. Whole(m.free, {}, {}, R)
    BY <2>4 DEF Sound
  <2>6. Whole(m.free \ {f}, {f}, {}, R)
    BY <2>1, <2>5 DEF Whole
  <2>7. Sound(r, R)
    BY <2>1, <2>2, <2>3, <2>4, <2>6 DEF Sound, Once
  <2>8. PICK W : W = {TRAMPOLINE}
    OBVIOUS
  <2>9. PICK va \in Int : va = TRAMPOLINE /\ va \in W /\ va \in KernelPages(Tids)
    BY <2>8, Heights DEF KernelPages
  <2>10. PICK g \in Leafs : g = TrampolineFrame /\ g < 0 /\ g = KernelFrame(p, va)
    <3>1. KernelFrame(p, va) = TrampolineFrame
      BY <2>9 DEF KernelFrame
    <3> QED
      BY <2>9, <3>1, KernelFrames
  <2>11. MapsOrNot(r, k, va, g)
    BY <1>5, <2>3, <2>9, <2>10, MapsPage
  <2>12. g \notin Frames
    BY <2>10, PositiveFrames
  <2>13. k \in SpaceType /\ Extended(k.pt, r.pt, va, g) /\ Sound(k, R \ {g}) /\ R \ {g} = R
    BY <2>1, <2>7, <2>11, <2>12 DEF MapsOrNot, AddedAt
  <2>14. KernelAt(r.pt, p, W)
    BY <2>3, <2>4 DEF KernelAt
  <2>15. KernelAt(k.pt, p, W)
    BY <2>9, <2>10, <2>13, <2>14, KernelExtended
  <2>16. TRAMPOLINE \in DOMAIN k.pt
    BY <2>9, <2>13 DEF Extended
  <2> QED
    BY <2>1, <2>8, <2>13, <2>15, <2>16 DEF Good
<1> QED
  BY <1>7, <1>8

\* A page table that only grows: every page that is mapped keeps its frame.
Grows(f, g) == DOMAIN f \subseteq DOMAIN g /\ \A z \in DOMAIN f : g[z] = f[z]

LEMMA GrowsOn ==
  ASSUME NEW f, NEW g, NEW h, Grows(f, g), Grows(g, h)
  PROVE  Grows(f, h)
  BY DEF Grows

LEMMA TakesGrow ==
  ASSUME NEW m \in SpaceType, NEW va \in Int, NEW n, n = TakeMapped(m, va)
  PROVE  n \in SpaceType /\ Grows(m.pt, n.pt)
<1>1. Took(m, n, va, kalloc(m))
  BY TakesPage
<1> QED
  BY <1>1 DEF Took, Extended, Grows

(***************************************************************************)
(* Programs: bin_loader and push_argv                                      *)
(***************************************************************************)
LoadPage(n, va) == IF n.why # "" THEN n
                   ELSE IF n.free = {} \/ ~TakeMapped(n, va).ok THEN Panicked(n, "bin_loader")
                   ELSE TakeMapped(n, va)

LEMMA LoadsPage ==
  ASSUME NEW m, NEW R \in SUBSET Frames, NEW p \in Slots, NEW W, Good(m, R, p, W), NEW va \in Int, va < HIGH
  PROVE  Good(LoadPage(m, va), R, p, W)
<1>1. PICK n : n = TakeMapped(m, va)
  OBVIOUS
<1>2. CASE m.why # ""
  BY <1>2 DEF LoadPage
<1>3. CASE m.why = "" /\ (m.free = {} \/ ~n.ok)
  <2>1. PICK y \in Whys : y = "bin_loader" /\ y # ""
    BY DEF Whys
  <2>2. LoadPage(m, va) = Panicked(m, y)
    BY <1>1, <1>3, <2>1 DEF LoadPage
  <2>3. m \in SpaceType
    BY DEF Good
  <2> QED
    BY <2>1, <2>2, <2>3, PanicGood
<1>4. CASE m.why = "" /\ ~(m.free = {} \/ ~n.ok)
  <2>1. LoadPage(m, va) = n
    BY <1>1, <1>4 DEF LoadPage
  <2>2. TookGood(m, n, p, R, W)
    BY <1>1, TakesGood
  <2> QED
    BY <1>4, <2>1, <2>2 DEF TookGood
<1> QED
  BY <1>2, <1>3, <1>4

\* Nothing is unmapped, and va is mapped then.
Puts(m, n, va) ==
    /\ n \in SpaceType
    /\ n.why = "" => m.why = "" /\ Grows(m.pt, n.pt) /\ va \in DOMAIN n.pt

LEMMA PageLoads ==
  ASSUME NEW m \in SpaceType, NEW va \in Int, NEW n, n = LoadPage(m, va)
  PROVE  Puts(m, n, va)
<1>1. CASE m.why # ""
  BY <1>1 DEF LoadPage, Puts
<1>2. CASE m.why = "" /\ (m.free = {} \/ ~TakeMapped(m, va).ok)
  <2>1. PICK y \in Whys : y = "bin_loader" /\ y # ""
    BY DEF Whys
  <2>2. n = Panicked(m, y)
    BY <1>2, <2>1 DEF LoadPage
  <2>3. n \in SpaceType /\ n.why # ""
    BY <2>1, <2>2, Panics
  <2> QED
    BY <2>3 DEF Puts
<1>3. CASE m.why = "" /\ ~(m.free = {} \/ ~TakeMapped(m, va).ok)
  <2>1. n = TakeMapped(m, va) /\ n.ok
    BY <1>3 DEF LoadPage
  <2>2. n \in SpaceType /\ Grows(m.pt, n.pt)
    BY <2>1, TakesGrow
  <2>3. Took(m, n, va, kalloc(m))
    BY <2>1, TakesPage
  <2>4. n \in SpaceType /\ Grows(m.pt, n.pt) /\ va \in DOMAIN n.pt
    BY <2>1, <2>2, <2>3 DEF Took, Extended
  <2> QED
    BY <1>3, <2>4 DEF Puts
<1> QED
  BY <1>1, <1>2, <1>3

\* The pages in S are mapped, and everything that was.
Filled(m, n, S) == n.why = "" => m.why = "" /\ Grows(m.pt, n.pt) /\ S \subseteq DOMAIN n.pt

LEMMA LoadsImage ==
  ASSUME NEW m, NEW R \in SUBSET Frames, NEW p \in Slots, NEW W, Good(m, R, p, W),
         NEW image \in Nat, image < HIGH
  PROVE  Good(FoldLeft(LoadPage, m, Each(1, image)), R, p, W) /\ Filled(m, FoldLeft(LoadPage, m, Each(1, image)), 1 .. image)
<1> DEFINE seq == Each(1, image)
           T == 1 .. image
           C == CHOOSE it : it = [s \in SUBSET T |->
                  IF s = {} THEN m ELSE LET x == Max(s) IN LoadPage(it[s \ {x}], seq[x])]
           V == {x \in SpaceType : Good(x, R, p, W)}
<1>1. DOMAIN seq = T /\ \A k \in T : seq[k] = k /\ seq[k] \in Int /\ seq[k] < HIGH
  BY Heights DEF Each
<1>2. PICK n : n = FoldLeft(LoadPage, m, seq)
  OBVIOUS
<1>3. n = C[T]
  BY <1>1, <1>2 DEF FoldLeft, MapThenFoldSet
<1> HIDE DEF seq
<1>4. PICK step : step = [z \in T \X V |-> LoadPage(z[2], seq[z[1]])]
  OBVIOUS
<1>5. \A k \in T, v \in V : step[<<k, v>>] = LoadPage(v, seq[k])
  BY <1>4
<1>6. m \in V
  BY DEF Good
<1>7. step \in [T \X V -> V]
  <2>1. \A v \in V, k \in T : LoadPage(v, seq[k]) \in V
    <3> TAKE v \in V, k \in T
    <3>1. PICK va \in Int : va = seq[k] /\ va < HIGH
      BY <1>1
    <3>2. Good(LoadPage(v, va), R, p, W)
      BY <3>1, LoadsPage
    <3> QED
      BY <3>1, <3>2 DEF Good
  <2> QED
    BY <1>4, <2>1
<1> HIDE DEF V
<1>8. PICK g : LastFold(g, V, m, step, image)
  BY <1>6, <1>7, FoldLast
<1>9. /\ g = [s \in SUBSET T |-> IF s = {} THEN m ELSE step[<<Max(s), g[s \ {Max(s)}]>>]]
      /\ \A s \in SUBSET T : g[s] \in V
  BY <1>8 DEF LastFold
<1>10. \A s \in SUBSET T : s # {} => Max(s) \in T /\ g[s] = LoadPage(g[s \ {Max(s)}], seq[Max(s)])
  <2> TAKE s \in SUBSET T
  <2> HAVE s # {}
  <2>1. Max(s) \in s
    BY MaxIn
  <2>2. Max(s) \in T /\ g[s \ {Max(s)}] \in V
    BY <1>9, <2>1
  <2> QED
    BY <1>5, <1>9, <2>2
<1>11. g = [s \in SUBSET T |-> IF s = {} THEN m ELSE LET x == Max(s) IN LoadPage(g[s \ {x}], seq[x])]
  <2>1. g = [s \in SUBSET T |-> g[s]] /\ g[{}] = m
    BY <1>9
  <2> QED
    BY <1>10, <2>1
<1>12. C = [s \in SUBSET T |-> IF s = {} THEN m ELSE LET x == Max(s) IN LoadPage(C[s \ {x}], seq[x])]
  BY <1>11, Zenon
<1> HIDE DEF C
<1>13. C[T] = g[T]
  <2>1. C[{}] = g[{}]
    BY <1>9, <1>12
  <2>2. \A s \in SUBSET T : s # {} /\ C[s \ {Max(s)}] = g[s \ {Max(s)}] => C[s] = g[s]
    BY <1>10, <1>12
  <2> QED
    BY <2>1, <2>2, FoldSame
<1>14. n \in V
  BY <1>3, <1>9, <1>13
<1>15. Filled(m, n, 1 .. image)
  <2> DEFINE P == {z \in Nat \X V : Filled(m, z[2], 1 .. z[1])}
  <2>1. <<0, m>> \in P
    <3>1. 1 .. 0 = {}
      OBVIOUS
    <3>2. Filled(m, m, 1 .. 0)
      BY <3>1 DEF Filled, Grows
    <3> QED
      BY <1>6, <3>2
  <2>2. ASSUME NEW k \in T, NEW v \in V, <<k - 1, v>> \in P
        PROVE  <<k, step[<<k, v>>]>> \in P
    <3>1. PICK u : u = LoadPage(v, k) /\ u = step[<<k, v>>]
      BY <1>1, <1>5
    <3>2. v \in SpaceType /\ k \in Int
      BY DEF V
    <3>3. Puts(v, u, k)
      BY <3>1, <3>2, PageLoads
    <3>4. Filled(m, v, 1 .. (k - 1))
      BY <2>2
    <3>5. Filled(m, u, 1 .. k)
      <4>1. SUFFICES ASSUME u.why = "" PROVE m.why = "" /\ Grows(m.pt, u.pt) /\ 1 .. k \subseteq DOMAIN u.pt
        BY DEF Filled
      <4>2. v.why = "" /\ Grows(v.pt, u.pt) /\ k \in DOMAIN u.pt
        BY <3>3, <4>1 DEF Puts
      <4>3. m.why = "" /\ Grows(m.pt, v.pt) /\ 1 .. (k - 1) \subseteq DOMAIN v.pt
        BY <3>4, <4>2 DEF Filled
      <4>4. Grows(m.pt, u.pt)
        BY <4>2, <4>3, GrowsOn
      <4>5. 1 .. k \subseteq (1 .. (k - 1)) \cup {k}
        OBVIOUS
      <4> QED
        BY <4>2, <4>3, <4>4, <4>5 DEF Grows
    <3>6. u \in V /\ k \in Nat
      BY <1>7, <3>1
    <3> QED
      BY <3>1, <3>5, <3>6
  <2> HIDE DEF P
  <2>3. <<image, g[T]>> \in P
    BY <1>8, <2>1, <2>2, FoldHolds
  <2>4. n = g[T]
    BY <1>3, <1>13
  <2> QED
    BY <2>3, <2>4 DEF P
<1> QED
  BY <1>2, <1>14, <1>15 DEF V, seq

\* The process e is d with the thread t.
NewThread(d, e, t) ==
    /\ e \in ProcType /\ e.state = d.state /\ Live(e) = Live(d) \cup {t} /\ Low(e)
    /\ e.image = d.image /\ e.ustack = d.ustack
\* With a stack of its own, max_page is above that.
Reaches(d, e, t, b) == e.max_page >= d.max_page /\ (b => e.max_page > d.ustack + t)

LEMMA LowStacks ==
  ASSUME NEW d \in ProcType, Low(d)
  PROVE  Stacks(d)
  BY DEF Low, Stacks, ProcType

LEMMA ThreadFields ==
  ASSUME NEW m, NEW p, NEW d \in ProcType, Low(d), NEW t \in Tids, NEW b \in BOOLEAN,
         NEW e, e = allocthread(m, p, d, t, b).d
  PROVE  NewThread(d, e, t) /\ Reaches(d, e, t, b)
<1>1. PICK page \in Nat : page = d.ustack + t
  BY VmAssumption DEF ProcType, Tids
<1>2. PICK n : n = IF b THEN Reach(d, page) ELSE d.max_page
  OBVIOUS
<1>3. /\ d.state \in {"UNUSED", "USED", "ZOMBIE"} /\ d.parent \in Slots \cup {-1} /\ d.pt \in PageTable
      /\ d.tab \in Tables /\ d.image \in Nat /\ d.max_page \in Nat /\ d.ustack \in Nat
      /\ d.threads \in [Tids -> {"UNUSED", "USED", "EXITED"}]
  BY DEF ProcType
<1>4. n \in Nat /\ n >= d.max_page /\ n <= HIGH /\ (b => n > page)
  <2>1. d.max_page <= HIGH /\ d.ustack + NTHREAD <= HIGH
    BY DEF Low
  <2>2. page + 1 <= HIGH /\ page + 1 \in Nat
    <3>1. t \in Nat /\ t + 1 <= NTHREAD /\ NTHREAD \in Nat
      BY VmAssumption DEF Tids
    <3>2. PICK u \in Nat, h \in Int : u = d.ustack /\ h = HIGH
      BY <1>3, Heights
    <3>3. u + NTHREAD <= h /\ page = u + t
      BY <1>1, <2>1, <3>2
    <3> QED
      BY <3>1, <3>2, <3>3
  <2>3. n = d.max_page \/ (n = page + 1 /\ page + 1 > d.max_page)
    BY <1>2 DEF Reach
  <2>4. b => n > page
    BY <1>1, <1>2, <1>3 DEF Reach
  <2> QED
    BY <1>3, <2>1, <2>2, <2>3, <2>4
<1>5. e = [d EXCEPT !.threads[t] = "USED", !.max_page = n]
  BY <1>1, <1>2 DEF allocthread
<1>6. PICK th : th = [d.threads EXCEPT ![t] = "USED"]
  OBVIOUS
<1>7. th \in [Tids -> {"UNUSED", "USED", "EXITED"}]
  BY <1>3, <1>6
<1>8. e = [d EXCEPT !.threads = th, !.max_page = n]
  BY <1>5, <1>6
<1>9. /\ e \in ProcType /\ e.threads = th /\ e.max_page = n /\ e.state = d.state /\ e.image = d.image
      /\ e.ustack = d.ustack
  BY <1>3, <1>4, <1>7, <1>8 DEF ProcType
<1>10. Live(e) = Live(d) \cup {t}
  BY <1>3, <1>6, <1>9 DEF Live
<1>11. Low(e)
  BY <1>3, <1>4, <1>9 DEF Low
<1> QED
  BY <1>1, <1>4, <1>9, <1>10, <1>11 DEF NewThread, Reaches

\* The first free thread.
LEMMA FreeTid ==
  ASSUME NEW d \in ProcType, UnusedTids(d) # {}
  PROVE  FirstTid(d) \in Tids /\ FirstTid(d) \in UnusedTids(d)
<1>1. PICK U \in SUBSET Tids : U = UnusedTids(d) /\ U # {}
  BY DEF UnusedTids
<1>2. PICK s : s = {u + 1 : u \in U}
  OBVIOUS
<1>3. s \in SUBSET (1 .. NTHREAD) /\ s # {}
  BY <1>1, <1>2, VmAssumption DEF Tids
<1>4. NTHREAD \in Nat
  BY VmAssumption
<1>5. Min(s) \in s /\ \A y \in s : Min(s) <= y
  BY <1>3, <1>4, MinIn
<1>6. PICK t \in U : Min(s) = t + 1
  BY <1>2, <1>5
<1>7. \A u \in U : t <= u
  <2> TAKE u \in U
  <2>1. t + 1 <= u + 1
    BY <1>2, <1>5, <1>6
  <2> QED
    BY <1>1, <2>1, VmAssumption DEF Tids
<1>8. FirstTid(d) \in U
  BY <1>1, <1>7 DEF FirstTid
<1> QED
  BY <1>1, <1>8

\* A space and a process that fit each other.
Ready(r, R, p, state) ==
    /\ r.d \in ProcType /\ r.d.state = state /\ Low(r.d)
    /\ Good(r.m, R, p, KernelPages(Live(r.d)))

LEMMA Allocs ==
  ASSUME NEW m, NEW R \in SUBSET Frames, NEW p \in Slots, NEW d \in ProcType, Low(d),
         Good(m, R, p, KernelPages(Live(d))), NEW t \in Tids, NEW b \in BOOLEAN
  PROVE  Ready(allocthread(m, p, d, t, b), R, p, d.state)
<1>1. PICK r : r = allocthread(m, p, d, t, b)
  OBVIOUS
<1>2. PICK e : e = r.d
  OBVIOUS
<1>3. NewThread(d, e, t)
  BY <1>1, <1>2, ThreadFields
<1>4. Stacks(d)
  BY LowStacks
<1>5. Good(r.m, R, p, KernelPages(Live(d)) \cup {TrapframeVa(t)})
  BY <1>1, <1>4, AllocsThread
<1>6. KernelPages(Live(d)) \cup {TrapframeVa(t)} = KernelPages(Live(e))
  BY <1>3 DEF NewThread, KernelPages
<1> QED
  BY <1>1, <1>2, <1>3, <1>5, <1>6 DEF Ready, NewThread

LEMMA ReadyPanics ==
  ASSUME NEW r, NEW d, NEW R, NEW p, NEW state, d \in ProcType, d.state = state, Low(d),
         NEW m \in SpaceType, m.why # "", r = [m |-> m, d |-> d]
  PROVE  Ready(r, R, p, state)
  BY DEF Ready, Good

\* A program of image pages in an address space that holds what Good says.
LEMMA Loads ==
  ASSUME NEW m, NEW R \in SUBSET Frames, NEW p \in Slots, NEW d \in ProcType, UnusedTids(d) # {},
         Good(m, R, p, KernelPages(Live(d))), NEW image \in IMAGES
  PROVE  Ready(bin_loader(m, p, d, image), R, p, d.state)
<1>1. image \in Nat /\ image # 0 /\ image + 2 + NTHREAD <= HIGH /\ image < HIGH
  BY VmAssumption DEF HIGH, TRAMPOLINE
<1>2. PICK n : n = FoldLeft(LoadPage, m, Each(1, image))
  OBVIOUS
<1>3. PICK e : e = [d EXCEPT !.image = image, !.max_page = image + 1, !.ustack = image + 2]
  OBVIOUS
<1>4. PICK t : t = FirstTid(e)
  OBVIOUS
<1>5. PICK r : r = allocthread(n, p, e, t, TRUE)
  OBVIOUS
<1>6. PICK b : b = bin_loader(m, p, d, image)
  OBVIOUS
<1>7. b = IF n.why # "" THEN [m |-> n, d |-> e]
          ELSE IF t # 0 THEN [m |-> Panicked(r.m, "main thread"), d |-> e]
          ELSE r
  BY <1>2, <1>3, <1>4, <1>5, <1>6 DEF bin_loader, LoadPage
<1>8. PICK W : W = KernelPages(Live(d))
  OBVIOUS
<1>9. Good(n, R, p, W)
  BY <1>1, <1>2, <1>8, LoadsImage
<1>10. e \in ProcType /\ e.state = d.state /\ e.threads = d.threads /\ Low(e)
  <2>1. /\ d.state \in {"UNUSED", "USED", "ZOMBIE"} /\ d.parent \in Slots \cup {-1} /\ d.pt \in PageTable
        /\ d.tab \in Tables /\ d.image \in Nat /\ d.max_page \in Nat /\ d.ustack \in Nat
        /\ d.threads \in [Tids -> {"UNUSED", "USED", "EXITED"}]
    BY DEF ProcType
  <2>2. /\ e \in ProcType /\ e.state = d.state /\ e.threads = d.threads
        /\ e.image = image /\ e.max_page = image + 1 /\ e.ustack = image + 2
    <3>1. PICK i \in Nat, j \in Nat, k \in Nat : i = image /\ j = image + 1 /\ k = image + 2
      BY <1>1
    <3>2. e = [d EXCEPT !.image = i, !.max_page = j, !.ustack = k]
      BY <1>3, <3>1
    <3>3. e \in ProcType
      BY <2>1, <3>2 DEF ProcType
    <3>4. e.state = d.state /\ e.threads = d.threads /\ e.image = i /\ e.max_page = j /\ e.ustack = k
      BY <2>1, <3>2 DEF ProcType
    <3> QED
      BY <3>1, <3>3, <3>4
  <2>3. Low(e)
    BY <1>1, <2>2, Heights, VmAssumption DEF Low
  <2> QED
    BY <2>2, <2>3
<1>11. Live(e) = Live(d) /\ UnusedTids(e) # {}
  BY <1>10 DEF Live, UnusedTids
<1>12. t \in Tids
  BY <1>4, <1>10, <1>11, FreeTid
<1>13. Good(n, R, p, KernelPages(Live(e)))
  BY <1>8, <1>9, <1>11
<1>14. Ready(r, R, p, e.state)
  BY <1>5, <1>10, <1>12, <1>13, Allocs
<1>15. CASE n.why # ""
  <2>1. b = [m |-> n, d |-> e] /\ n \in SpaceType
    BY <1>7, <1>9, <1>15 DEF Good
  <2>2. Ready(b, R, p, d.state)
    BY <1>10, <1>15, <2>1, ReadyPanics
  <2> QED
    BY <1>6, <2>2
<1>16. CASE n.why = "" /\ t # 0
  <2>1. PICK y \in Whys : y = "main thread" /\ y # ""
    BY DEF Whys
  <2>2. PICK s : s = Panicked(r.m, y)
    OBVIOUS
  <2>3. r.m \in SpaceType
    BY <1>14 DEF Ready, Good
  <2>4. s \in SpaceType /\ s.why # ""
    BY <2>1, <2>2, <2>3, Panics
  <2>5. b = [m |-> s, d |-> e]
    BY <1>7, <1>16, <2>1, <2>2
  <2>6. Ready(b, R, p, d.state)
    BY <1>10, <2>4, <2>5, ReadyPanics
  <2> QED
    BY <1>6, <2>6
<1>17. CASE n.why = "" /\ t = 0
  BY <1>6, <1>7, <1>10, <1>14, <1>17
<1> QED
  BY <1>15, <1>16, <1>17

LEMMA PushesArgv ==
  ASSUME NEW r, NEW R, NEW p, NEW state, Ready(r, R, p, state), r = [m |-> r.m, d |-> r.d]
  PROVE  Ready(push_argv(r), R, p, state)
<1>1. CASE walkaddr(r.m.pt, r.d.ustack) = NULL
  <2>1. PICK y \in Whys : y = "copy argv failed" /\ y # ""
    BY DEF Whys
  <2>2. PICK s : s = Panicked(r.m, y)
    OBVIOUS
  <2>3. r.m \in SpaceType /\ r.d \in ProcType /\ r.d.state = state /\ Low(r.d)
    BY DEF Ready, Good
  <2>4. s \in SpaceType /\ s.why # ""
    BY <2>1, <2>2, <2>3, Panics
  <2>5. PICK b : b = push_argv(r)
    OBVIOUS
  <2>6. b = [r EXCEPT !.m = s]
    BY <1>1, <2>1, <2>2, <2>5 DEF push_argv
  <2>7. PICK d : d = r.d
    OBVIOUS
  <2>8. b = [m |-> s, d |-> d]
    BY <2>6, <2>7
  <2>9. Ready(b, R, p, state)
    BY <2>3, <2>4, <2>7, <2>8, ReadyPanics
  <2> QED
    BY <2>5, <2>9
<1>2. CASE ~(walkaddr(r.m.pt, r.d.ustack) = NULL)
  BY <1>2 DEF push_argv
<1> QED
  BY <1>1, <1>2

LEMMA LoaderRecord ==
  ASSUME NEW m, NEW p, NEW d, NEW image, NEW r, r = bin_loader(m, p, d, image)
  PROVE  r = [m |-> r.m, d |-> r.d]
  BY DEF bin_loader, allocthread

(***************************************************************************)
(* Copies of an address space: uvmcopy                                     *)
(***************************************************************************)
CopiedPage(n, va, old) == IF n.ok /\ va \in DOMAIN old THEN Copied(n, va, old[va]) ELSE n

LEMMA CopiesPage ==
  ASSUME NEW m \in SpaceType, NEW R \in SUBSET Frames, NEW p \in Slots, NEW W, m.ok => Good(m, R, p, W),
         NEW va \in Int, va < HIGH, NEW old, NEW n, n = CopiedPage(m, va, old)
  PROVE  n \in SpaceType /\ (n.ok => Good(n, R, p, W))
<1>1. CASE ~(m.ok /\ va \in DOMAIN old)
  BY <1>1 DEF CopiedPage
<1>2. CASE (m.ok /\ va \in DOMAIN old) /\ (old[va] = NULL \/ m.free = {})
  <2>1. n = [m EXCEPT !.ok = FALSE]
    BY <1>2 DEF CopiedPage, Copied
  <2> QED
    BY <2>1 DEF SpaceType
<1>3. CASE (m.ok /\ va \in DOMAIN old) /\ ~(old[va] = NULL \/ m.free = {})
  <2>1. n = TakeMapped(m, va) /\ Good(m, R, p, W)
    BY <1>3 DEF CopiedPage, Copied
  <2>2. TookGood(m, n, p, R, W)
    BY <2>1, TakesGood
  <2> QED
    BY <2>2 DEF TookGood
<1> QED
  BY <1>1, <1>2, <1>3

\* What was mapped is, and so are the pages in S.
Kept(m, n, S) == n.ok => n.why = m.why /\ Grows(m.pt, n.pt) /\ S \subseteq DOMAIN n.pt

LEMMA PageCopied ==
  ASSUME NEW m \in SpaceType, NEW va \in Int, NEW old, NEW n, n = CopiedPage(m, va, old)
  PROVE  Kept(m, n, DOMAIN old \cap {va}) /\ (n.ok => m.ok)
<1>1. CASE ~(m.ok /\ va \in DOMAIN old)
  BY <1>1 DEF CopiedPage, Kept, Grows
<1>2. CASE (m.ok /\ va \in DOMAIN old) /\ (old[va] = NULL \/ m.free = {})
  <2>1. n = [m EXCEPT !.ok = FALSE]
    BY <1>2 DEF CopiedPage, Copied
  <2>2. ~n.ok
    BY <2>1 DEF SpaceType
  <2> QED
    BY <2>2 DEF Kept
<1>3. CASE (m.ok /\ va \in DOMAIN old) /\ ~(old[va] = NULL \/ m.free = {})
  <2>1. n = TakeMapped(m, va)
    BY <1>3 DEF CopiedPage, Copied
  <2>2. n \in SpaceType /\ Grows(m.pt, n.pt)
    BY <2>1, TakesGrow
  <2>3. Took(m, n, va, kalloc(m))
    BY <2>1, TakesPage
  <2> QED
    BY <1>3, <2>2, <2>3 DEF Took, Extended, Kept
<1> QED
  BY <1>1, <1>2, <1>3

LEMMA CopiesSpace ==
  ASSUME NEW m \in SpaceType, NEW R \in SUBSET Frames, NEW p \in Slots, NEW W, m.ok => Good(m, R, p, W),
         NEW old, NEW max_page \in Nat, max_page <= HIGH
  PROVE  /\ uvmcopy(m, old, max_page) \in SpaceType
         /\ uvmcopy(m, old, max_page).ok => Good(uvmcopy(m, old, max_page), R, p, W)
         /\ Kept(m, uvmcopy(m, old, max_page), DOMAIN old \cap Below(max_page))
<1> DEFINE seq == Each(0, max_page)
           T == 1 .. max_page
           C == CHOOSE it : it = [s \in SUBSET T |->
                  IF s = {} THEN m ELSE LET x == Max(s) IN CopiedPage(it[s \ {x}], seq[x], old)]
           V == {x \in SpaceType : x.ok => Good(x, R, p, W)}
<1>0. max_page \in Nat
  BY VmAssumption
<1>1. DOMAIN seq = T /\ \A k \in T : seq[k] = k - 1 /\ seq[k] \in Int /\ seq[k] < HIGH
  BY Heights DEF Each
<1>2. PICK n : n = uvmcopy(m, old, max_page)
  OBVIOUS
<1>3. n = C[T]
  BY <1>1, <1>2 DEF uvmcopy, CopiedPage, FoldLeft, MapThenFoldSet
<1> HIDE DEF seq
<1>4. PICK step : step = [z \in T \X V |-> CopiedPage(z[2], seq[z[1]], old)]
  OBVIOUS
<1>5. \A k \in T, v \in V : step[<<k, v>>] = CopiedPage(v, seq[k], old)
  BY <1>4
<1>6. m \in V
  BY DEF Good
<1>7. step \in [T \X V -> V]
  <2>1. \A v \in V, k \in T : CopiedPage(v, seq[k], old) \in V
    <3> TAKE v \in V, k \in T
    <3>1. PICK va \in Int : va = seq[k] /\ va < HIGH
      BY <1>1
    <3>2. PICK u : u = CopiedPage(v, va, old)
      OBVIOUS
    <3>3. u \in SpaceType /\ (u.ok => Good(u, R, p, W))
      BY <3>1, <3>2, CopiesPage
    <3> QED
      BY <3>1, <3>2, <3>3
  <2> QED
    BY <1>4, <2>1
<1> HIDE DEF V
<1>8. PICK g : LastFold(g, V, m, step, max_page)
  BY <1>0, <1>6, <1>7, FoldLast
<1>9. /\ g = [s \in SUBSET T |-> IF s = {} THEN m ELSE step[<<Max(s), g[s \ {Max(s)}]>>]]
      /\ \A s \in SUBSET T : g[s] \in V
  BY <1>8 DEF LastFold
<1>10. \A s \in SUBSET T : s # {} => Max(s) \in T /\ g[s] = CopiedPage(g[s \ {Max(s)}], seq[Max(s)], old)
  <2> TAKE s \in SUBSET T
  <2> HAVE s # {}
  <2>1. Max(s) \in s
    BY <1>0, MaxIn
  <2>2. Max(s) \in T /\ g[s \ {Max(s)}] \in V
    BY <1>9, <2>1
  <2> QED
    BY <1>5, <1>9, <2>2
<1>11. g = [s \in SUBSET T |-> IF s = {} THEN m ELSE LET x == Max(s) IN CopiedPage(g[s \ {x}], seq[x], old)]
  <2>1. g = [s \in SUBSET T |-> g[s]] /\ g[{}] = m
    BY <1>9
  <2> QED
    BY <1>10, <2>1
<1>12. C = [s \in SUBSET T |-> IF s = {} THEN m ELSE LET x == Max(s) IN CopiedPage(C[s \ {x}], seq[x], old)]
  BY <1>11, Zenon
<1> HIDE DEF C
<1>13. C[T] = g[T]
  <2>1. C[{}] = g[{}]
    BY <1>9, <1>12
  <2>2. \A s \in SUBSET T : s # {} /\ C[s \ {Max(s)}] = g[s \ {Max(s)}] => C[s] = g[s]
    BY <1>10, <1>12
  <2> QED
    BY <1>0, <2>1, <2>2, FoldSame
<1>14. n \in V
  BY <1>3, <1>9, <1>13
<1>15. Kept(m, n, DOMAIN old \cap Below(max_page))
  <2> DEFINE P == {z \in Nat \X V : Kept(m, z[2], DOMAIN old \cap Below(z[1]))}
  <2>1. <<0, m>> \in P
    <3>1. Below(0) = {}
      BY DEF Below
    <3>2. Kept(m, m, DOMAIN old \cap Below(0))
      BY <3>1 DEF Kept, Grows
    <3> QED
      BY <1>6, <3>2
  <2>2. ASSUME NEW k \in T, NEW v \in V, <<k - 1, v>> \in P
        PROVE  <<k, step[<<k, v>>]>> \in P
    <3>1. PICK va \in Int : va = k - 1 /\ va = seq[k]
      BY <1>1
    <3>2. PICK u : u = CopiedPage(v, va, old) /\ u = step[<<k, v>>]
      BY <1>5, <3>1
    <3>3. v \in SpaceType
      BY DEF V
    <3>4. Kept(v, u, DOMAIN old \cap {va}) /\ (u.ok => v.ok)
      BY <3>1, <3>2, <3>3, PageCopied
    <3>5. Kept(m, v, DOMAIN old \cap Below(va))
      BY <2>2, <3>1
    <3>6. Below(k) = Below(va) \cup {va}
      BY <3>1 DEF Below
    <3>7. Kept(m, u, DOMAIN old \cap Below(k))
      <4>1. SUFFICES ASSUME u.ok PROVE u.why = m.why /\ Grows(m.pt, u.pt) /\ DOMAIN old \cap Below(k) \subseteq DOMAIN u.pt
        BY DEF Kept
      <4>2. u.why = v.why /\ Grows(v.pt, u.pt) /\ DOMAIN old \cap {va} \subseteq DOMAIN u.pt
        BY <3>4, <4>1 DEF Kept
      <4>3. v.why = m.why /\ Grows(m.pt, v.pt) /\ DOMAIN old \cap Below(va) \subseteq DOMAIN v.pt
        BY <3>4, <3>5, <4>1 DEF Kept
      <4>4. Grows(m.pt, u.pt)
        BY <4>2, <4>3, GrowsOn
      <4> QED
        BY <3>6, <4>2, <4>3, <4>4 DEF Grows
    <3>8. u \in V /\ k \in Nat
      BY <1>7, <3>2
    <3> QED
      BY <3>2, <3>7, <3>8
  <2> HIDE DEF P
  <2>3. <<max_page, g[T]>> \in P
    BY <1>0, <1>8, <2>1, <2>2, FoldHolds
  <2>4. n = g[T]
    BY <1>3, <1>13
  <2> QED
    BY <2>3, <2>4 DEF P
<1> QED
  BY <1>2, <1>14, <1>15 DEF V


(***************************************************************************)
(* sys_mmap: what fails half-way gives its frame back                      *)
(***************************************************************************)
MapPage(m, va) == IF ~m.ok \/ m.free = {} THEN [m EXCEPT !.ok = FALSE]
                  ELSE LET r == TakeMapped(m, va)
                       IN  IF r.ok THEN r ELSE kfree(r, {kalloc(m)})

LEMMA GivesBack ==
  ASSUME NEW m, NEW R \in SUBSET Frames, NEW p \in Slots, NEW W, NEW f \in Frames \ R,
         Good(m, R \cup {f}, p, W), NEW n, n = kfree(m, {f})
  PROVE  Good(n, R, p, W)
<1>1. m \in SpaceType /\ (m.why = "" => Sound(m, R \cup {f}) /\ KernelAt(m.pt, p, W))
  BY DEF Good
<1>2. PICK S \in SUBSET (Frames \cup {NULL}) : S = {f}
  OBVIOUS
<1>3. Freed(m, n, S)
  BY <1>1, <1>2, Frees
<1>4. ASSUME n.why = ""
      PROVE  Sound(n, R) /\ KernelAt(n.pt, p, W)
  <2>1. Sound(m, R \cup {f}) /\ KernelAt(m.pt, p, W) /\ n.pt = m.pt /\ n.tab = m.tab /\ n.free = m.free \cup {f}
    BY <1>1, <1>2, <1>3, <1>4 DEF Freed
  <2>2. Whole(m.free, FramesOf(m.tab), FramesOf(m.pt), R \cup {f})
    BY <2>1 DEF Sound
  <2>3. Whole(m.free \cup {f}, FramesOf(m.tab), FramesOf(m.pt), R)
    BY <2>2 DEF Whole
  <2> QED
    BY <2>1, <2>3 DEF Sound
<1> QED
  BY <1>3, <1>4 DEF Good, Freed

LEMMA MapsOnePage ==
  ASSUME NEW m, NEW R \in SUBSET Frames, NEW p \in Slots, NEW W, Good(m, R, p, W),
         NEW va \in Int, va < HIGH, NEW n, n = MapPage(m, va)
  PROVE  Good(n, R, p, W)
<1>1. m \in SpaceType /\ m.free \in SUBSET Frames /\ m.tab \in Tables /\ m.pt \in PageTable /\ m.ok \in BOOLEAN /\ m.why \in Whys
  BY DEF Good, SpaceType
<1>2. CASE ~m.ok \/ m.free = {}
  <2>1. n = [m EXCEPT !.ok = FALSE]
    BY <1>2 DEF MapPage
  <2>2. n \in SpaceType /\ n.free = m.free /\ n.pt = m.pt /\ n.tab = m.tab /\ n.why = m.why
    BY <1>1, <2>1 DEF SpaceType
  <2> QED
    BY <2>2 DEF Good, Sound
<1>3. CASE ~(~m.ok \/ m.free = {})
  <2>1. PICK r : r = TakeMapped(m, va)
    OBVIOUS
  <2>2. TookGood(m, r, p, R, W)
    BY <2>1, TakesGood
  <2>3. n = IF r.ok THEN r ELSE kfree(r, {kalloc(m)})
    BY <1>3, <2>1 DEF MapPage
  <2>4. CASE r.ok
    BY <2>2, <2>3, <2>4 DEF TookGood
  <2>5. CASE ~r.ok /\ m.why # ""
    <3>1. r \in SpaceType /\ r.why # "" /\ n = kfree(r, {kalloc(m)})
      BY <2>2, <2>3, <2>5 DEF TookGood
    <3>2. n \in SpaceType /\ n.why = r.why
      BY <3>1, FreesNoMore
    <3> QED
      BY <3>1, <3>2 DEF Good
  <2>6. CASE ~r.ok /\ m.why = ""
    <3>1. kalloc(m) # NULL
      BY <1>1, <1>3, KallocLeaf
    <3>2. PICK f \in Frames \ R : f = kalloc(m) /\ Good(r, R \cup {f}, p, W)
      BY <2>2, <2>6, <3>1 DEF TookGood
    <3>3. n = kfree(r, {f})
      BY <2>3, <2>6, <3>2
    <3> QED
      BY <3>2, <3>3, GivesBack
  <2> QED
    BY <2>4, <2>5, <2>6
<1> QED
  BY <1>2, <1>3

LEMMA PageGrows ==
  ASSUME NEW m \in SpaceType, NEW va \in Int, NEW n, n = MapPage(m, va)
  PROVE  Grows(m.pt, n.pt)
<1>1. m.ok \in BOOLEAN /\ m.free \in SUBSET Frames
  BY DEF SpaceType
<1>2. CASE ~m.ok \/ m.free = {}
  <2>1. n = [m EXCEPT !.ok = FALSE]
    BY <1>2 DEF MapPage
  <2> QED
    BY <2>1 DEF SpaceType, Grows
<1>3. CASE ~(~m.ok \/ m.free = {})
  <2>1. PICK r : r = TakeMapped(m, va)
    OBVIOUS
  <2>2. r \in SpaceType /\ Grows(m.pt, r.pt)
    BY <2>1, TakesGrow
  <2>3. n = IF r.ok THEN r ELSE kfree(r, {kalloc(m)})
    BY <1>3, <2>1 DEF MapPage
  <2>4. PICK S \in SUBSET (Frames \cup {NULL}) : S = {kalloc(m)}
    BY <1>1, <1>3, KallocLeaf
  <2>5. CASE r.ok
    BY <2>2, <2>3, <2>5
  <2>6. CASE ~r.ok
    <3>1. n = kfree(r, S)
      BY <2>3, <2>4, <2>6
    <3>2. Freed(r, n, S)
      BY <2>2, <3>1, Frees
    <3> QED
      BY <2>2, <3>2 DEF Freed
  <2> QED
    BY <2>5, <2>6
<1> QED
  BY <1>2, <1>3

LEMMA MapsPages ==
  ASSUME NEW m, NEW R \in SUBSET Frames, NEW p \in Slots, NEW W, Good(m, R, p, W),
         NEW start \in Nat, NEW pages \in Nat, start + pages <= HIGH
  PROVE  LET n == FoldLeft(MapPage, m, Each(start, pages)) IN Good(n, R, p, W) /\ Grows(m.pt, n.pt)
<1> DEFINE seq == Each(start, pages)
           T == 1 .. pages
           C == CHOOSE it : it = [s \in SUBSET T |->
                  IF s = {} THEN m ELSE LET x == Max(s) IN MapPage(it[s \ {x}], seq[x])]
           V == {x \in SpaceType : Good(x, R, p, W) /\ Grows(m.pt, x.pt)}
<1>0. pages \in Nat
  BY VmAssumption
<1>1. DOMAIN seq = T /\ \A k \in T : seq[k] \in Int /\ seq[k] < HIGH
  BY Heights DEF Each
<1>2. PICK n : n = FoldLeft(MapPage, m, seq)
  OBVIOUS
<1>3. n = C[T]
  BY <1>1, <1>2 DEF FoldLeft, MapThenFoldSet
<1> HIDE DEF seq
<1>4. PICK step : step = [z \in T \X V |-> MapPage(z[2], seq[z[1]])]
  OBVIOUS
<1>5. \A k \in T, v \in V : step[<<k, v>>] = MapPage(v, seq[k])
  BY <1>4
<1>6. m \in V
  BY DEF Good, Grows
<1>7. step \in [T \X V -> V]
  <2>1. \A v \in V, k \in T : MapPage(v, seq[k]) \in V
    <3> TAKE v \in V, k \in T
    <3>1. PICK va \in Int : va = seq[k] /\ va < HIGH
      BY <1>1
    <3>2. PICK u : u = MapPage(v, va)
      OBVIOUS
    <3>3. Good(u, R, p, W)
      BY <3>1, <3>2, MapsOnePage
    <3>4. Grows(m.pt, v.pt) /\ Grows(v.pt, u.pt)
      BY <3>1, <3>2, PageGrows
    <3>5. Grows(m.pt, u.pt)
      BY <3>4, GrowsOn
    <3> QED
      BY <3>1, <3>2, <3>3, <3>5 DEF Good
  <2> QED
    BY <1>4, <2>1
<1> HIDE DEF V
<1>8. PICK g : LastFold(g, V, m, step, pages)
  BY <1>0, <1>6, <1>7, FoldLast
<1>9. /\ g = [s \in SUBSET T |-> IF s = {} THEN m ELSE step[<<Max(s), g[s \ {Max(s)}]>>]]
      /\ \A s \in SUBSET T : g[s] \in V
  BY <1>8 DEF LastFold
<1>10. \A s \in SUBSET T : s # {} => Max(s) \in T /\ g[s] = MapPage(g[s \ {Max(s)}], seq[Max(s)])
  <2> TAKE s \in SUBSET T
  <2> HAVE s # {}
  <2>1. Max(s) \in s
    BY <1>0, MaxIn
  <2>2. Max(s) \in T /\ g[s \ {Max(s)}] \in V
    BY <1>9, <2>1
  <2> QED
    BY <1>5, <1>9, <2>2
<1>11. g = [s \in SUBSET T |-> IF s = {} THEN m ELSE LET x == Max(s) IN MapPage(g[s \ {x}], seq[x])]
  <2>1. g = [s \in SUBSET T |-> g[s]] /\ g[{}] = m
    BY <1>9
  <2> QED
    BY <1>10, <2>1
<1>12. C = [s \in SUBSET T |-> IF s = {} THEN m ELSE LET x == Max(s) IN MapPage(C[s \ {x}], seq[x])]
  BY <1>11, Zenon
<1> HIDE DEF C
<1>13. C[T] = g[T]
  <2>1. C[{}] = g[{}]
    BY <1>9, <1>12
  <2>2. \A s \in SUBSET T : s # {} /\ C[s \ {Max(s)}] = g[s \ {Max(s)}] => C[s] = g[s]
    BY <1>10, <1>12
  <2> QED
    BY <1>0, <2>1, <2>2, FoldSame
<1>14. n \in V
  BY <1>3, <1>9, <1>13
<1> QED
  BY <1>2, <1>14 DEF V, seq


(***************************************************************************)
(* exit: every thread, then the rest                                       *)
(***************************************************************************)
FreeOne(m, t, d) == IF t \in Live(d) THEN freethread(m, d, t) ELSE m
FreeThreads(a, d) == LET Step(m, t) == FreeOne(m, t, d) IN FoldLeft(Step, a, Each(0, NTHREAD))
FreedOne(m, n, p, R, W, t, d) ==
    /\ Good(n, R, p, W) /\ DOMAIN n.pt \subseteq DOMAIN m.pt
    /\ t \in Live(d) => TrapframeVa(t) \notin DOMAIN n.pt

LEMMA FreesOne ==
  ASSUME NEW m, NEW R, NEW p \in Slots, NEW W \in SUBSET KernelPages(Tids), Good(m, R, p, W),
         NEW d, Stacks(d), NEW t \in Tids, NEW n, n = FreeOne(m, t, d)
  PROVE  FreedOne(m, n, p, R, W, t, d)
<1>1. CASE t \in Live(d)
  <2>1. n = freethread(m, d, t)
    BY <1>1 DEF FreeOne
  <2>2. Freethread(m, n, p, R, W, t)
    BY <2>1, FreesThread
  <2>3. Good(n, R, p, W)
    BY <2>2, KernelMore DEF Freethread, Good
  <2> QED
    BY <2>2, <2>3 DEF Freethread, FreedOne
<1>2. CASE t \notin Live(d)
  BY <1>2 DEF FreeOne, FreedOne
<1> QED
  BY <1>1, <1>2

LEMMA FreesThreads ==
  ASSUME NEW m, NEW R \in SUBSET Frames, NEW p \in Slots, NEW W \in SUBSET KernelPages(Tids), Good(m, R, p, W),
         NEW d, Stacks(d)
  PROVE  /\ Good(FreeThreads(m, d), R, p, W)
         /\ \A t \in Live(d) : TrapframeVa(t) \notin DOMAIN FreeThreads(m, d).pt
<1> DEFINE seq == Each(0, NTHREAD)
           T == 1 .. NTHREAD
           C == CHOOSE it : it = [s \in SUBSET T |->
                  IF s = {} THEN m ELSE LET x == Max(s) IN FreeOne(it[s \ {x}], seq[x], d)]
           V == {x \in SpaceType : Good(x, R, p, W)}
<1>0. NTHREAD \in Nat
  BY VmAssumption
<1>1. DOMAIN seq = T /\ \A k \in T : seq[k] = k - 1 /\ seq[k] \in Tids
  BY VmAssumption DEF Each, Tids
<1>2. PICK n : n = FreeThreads(m, d)
  OBVIOUS
<1>3. n = C[T]
  BY <1>1, <1>2 DEF FreeThreads, FoldLeft, MapThenFoldSet
<1> HIDE DEF seq
<1>4. PICK step : step = [z \in T \X V |-> FreeOne(z[2], seq[z[1]], d)]
  OBVIOUS
<1>5. \A k \in T, v \in V : step[<<k, v>>] = FreeOne(v, seq[k], d)
  BY <1>4
<1>6. m \in V
  BY DEF Good
<1>7. step \in [T \X V -> V]
  <2>1. \A v \in V, k \in T : FreeOne(v, seq[k], d) \in V
    <3> TAKE v \in V, k \in T
    <3>1. PICK t \in Tids : t = seq[k]
      BY <1>1
    <3>2. PICK u : u = FreeOne(v, t, d)
      OBVIOUS
    <3>3. FreedOne(v, u, p, R, W, t, d)
      BY <3>2, FreesOne
    <3> QED
      BY <3>1, <3>2, <3>3 DEF FreedOne, Good
  <2> QED
    BY <1>4, <2>1
<1> HIDE DEF V
<1>8. PICK g : LastFold(g, V, m, step, NTHREAD)
  BY <1>0, <1>6, <1>7, FoldLast
<1>9. /\ g = [s \in SUBSET T |-> IF s = {} THEN m ELSE step[<<Max(s), g[s \ {Max(s)}]>>]]
      /\ \A s \in SUBSET T : g[s] \in V
  BY <1>8 DEF LastFold
<1>10. \A s \in SUBSET T : s # {} => Max(s) \in T /\ g[s] = FreeOne(g[s \ {Max(s)}], seq[Max(s)], d)
  <2> TAKE s \in SUBSET T
  <2> HAVE s # {}
  <2>1. Max(s) \in s
    BY <1>0, MaxIn
  <2>2. Max(s) \in T /\ g[s \ {Max(s)}] \in V
    BY <1>9, <2>1
  <2> QED
    BY <1>5, <1>9, <2>2
<1>11. g = [s \in SUBSET T |-> IF s = {} THEN m ELSE LET x == Max(s) IN FreeOne(g[s \ {x}], seq[x], d)]
  <2>1. g = [s \in SUBSET T |-> g[s]] /\ g[{}] = m
    BY <1>9
  <2> QED
    BY <1>10, <2>1
<1>12. C = [s \in SUBSET T |-> IF s = {} THEN m ELSE LET x == Max(s) IN FreeOne(C[s \ {x}], seq[x], d)]
  BY <1>11, Zenon
<1> HIDE DEF C
<1>13. C[T] = g[T]
  <2>1. C[{}] = g[{}]
    BY <1>9, <1>12
  <2>2. \A s \in SUBSET T : s # {} /\ C[s \ {Max(s)}] = g[s \ {Max(s)}] => C[s] = g[s]
    BY <1>10, <1>12
  <2> QED
    BY <1>0, <2>1, <2>2, FoldSame
<1>14. n \in V
  BY <1>3, <1>9, <1>13
<1>15. PICK f : Chain(f, V, m, step, NTHREAD) /\ f[NTHREAD] = g[T]
  BY <1>0, <1>8, FoldChain
<1>16. f \in [0 .. NTHREAD -> V] /\ \A k \in T : f[k] = step[<<k, f[k - 1]>>]
  BY <1>15 DEF Chain
<1> DEFINE D == {k \in Nat : k <= NTHREAD => \A t \in Live(d) : t < k => TrapframeVa(t) \notin DOMAIN f[k].pt}
<1>17. 0 \in D
  BY DEF Live, Tids
<1>18. ASSUME NEW k \in D
       PROVE  k + 1 \in D
  <2>1. SUFFICES ASSUME k + 1 <= NTHREAD, NEW t \in Live(d), t < k + 1
                 PROVE  TrapframeVa(t) \notin DOMAIN f[k + 1].pt
    OBVIOUS
  <2>2. PICK j \in T : j = k + 1 /\ j - 1 = k /\ k \in 0 .. NTHREAD
    BY <1>0, <2>1
  <2>3. PICK v \in V : v = f[k]
    BY <1>16, <2>2
  <2>4. PICK u \in Tids : u = seq[j] /\ u = k
    BY <1>1, <2>2
  <2>5. f[j] = FreeOne(v, u, d)
    BY <1>5, <1>16, <2>2, <2>3, <2>4
  <2>6. Good(v, R, p, W)
    BY DEF V
  <2>7. FreedOne(v, f[j], p, R, W, u, d)
    BY <2>5, <2>6, FreesOne
  <2>8. t \in Int /\ (t = u \/ t < k)
    BY <2>1, <2>4 DEF Live, Tids
  <2> QED
    BY <2>1, <2>2, <2>3, <2>7, <2>8 DEF FreedOne
<1>19. D \in SUBSET Nat
  OBVIOUS
<1> HIDE DEF D
<1>20. NTHREAD \in D
  BY <1>0, <1>17, <1>18, <1>19, NatSet
<1>21. f[NTHREAD] = n
  BY <1>3, <1>13, <1>15
<1>22. \A t \in Live(d) : t < NTHREAD
  BY <1>0 DEF Live, Tids
<1>23. \A t \in Live(d) : TrapframeVa(t) \notin DOMAIN n.pt
  BY <1>0, <1>20, <1>21, <1>22 DEF D
<1> QED
  BY <1>2, <1>14, <1>23 DEF V


(***************************************************************************)
(* Processes                                                               *)
(***************************************************************************)
\* The frames of the other processes.
Others(fr, d) == Frames \ (fr \cup FramesIn(d))

\* Only p's memory is another, that of m.
OneSpace(pc, pd, p, m) ==
    /\ pd[p].pt = m.pt /\ pd[p].tab = m.tab
    /\ \A q \in Slots : q # p => pd[q].pt = pc[q].pt /\ pd[q].tab = pc[q].tab

LEMMA Rearranges ==
  ASSUME NEW fr \in SUBSET Frames, NEW pc \in [Slots -> ProcType], Shared(fr, pc), NEW p \in Slots,
         NEW m, m.free \in SUBSET Frames, Sound(m, Others(fr, pc[p])),
         NEW pd \in [Slots -> ProcType], OneSpace(pc, pd, p, m)
  PROVE  Shared(m.free, pd)
<1>1. PICK R : R = Others(fr, pc[p])
  OBVIOUS
<1>2. /\ FramesOf(m.tab) \subseteq Frames /\ Once(m.pt) /\ Whole(m.free, FramesOf(m.tab), FramesOf(m.pt), R)
  BY <1>1 DEF Sound
<1>3. FramesIn(pd[p]) = FramesOf(m.tab) \cup FramesOf(m.pt)
  BY DEF FramesIn, OneSpace
<1>4. \A q \in Slots : q # p => FramesIn(pd[q]) = FramesIn(pc[q]) /\ pd[q].pt = pc[q].pt /\ pd[q].tab = pc[q].tab
  BY DEF FramesIn, OneSpace
<1>5. \A q \in Slots : q # p => FramesIn(pc[q]) \cap Frames \subseteq R
  <2> TAKE q \in Slots
  <2> HAVE q # p
  <2>1. FramesIn(pc[q]) \cap fr = {} /\ FramesIn(pc[p]) \cap FramesIn(pc[q]) \cap Frames = {}
    BY DEF Shared, Owns
  <2> QED
    BY <1>1, <2>1 DEF Others
<1>6. \A q \in Slots : Owns(m.free, pd[q])
  <2> TAKE q \in Slots
  <2>1. CASE q = p
    BY <1>2, <1>3, <2>1 DEF Owns, Whole, OneSpace
  <2>2. CASE q # p
    <3>1. Owns(fr, pc[q])
      BY DEF Shared
    <3>2. m.free \cap FramesIn(pd[q]) = {}
      BY <1>2, <1>4, <1>5, <2>2 DEF Whole
    <3> QED
      BY <1>4, <2>2, <3>1, <3>2 DEF Owns
  <2> QED
    BY <2>1, <2>2
<1>7. \A q, r \in Slots : q # r => FramesIn(pd[q]) \cap FramesIn(pd[r]) \cap Frames = {}
  <2>1. \A q \in Slots : q # p => FramesIn(pd[q]) \cap FramesIn(pd[p]) \cap Frames = {}
    BY <1>2, <1>3, <1>4, <1>5 DEF Whole
  <2>2. \A q, r \in Slots : q # r /\ q # p /\ r # p => FramesIn(pd[q]) \cap FramesIn(pd[r]) \cap Frames = {}
    BY <1>4 DEF Shared
  <2> QED
    BY <2>1, <2>2
<1>8. ASSUME NEW f \in Frames
      PROVE  f \in m.free \/ \E q \in Slots : f \in FramesIn(pd[q])
  <2>1. f \in m.free \/ f \in FramesIn(pd[p]) \/ f \in R
    BY <1>2, <1>3 DEF Whole
  <2>2. CASE f \in R
    <3>1. f \notin fr /\ f \notin FramesIn(pc[p])
      BY <1>1, <2>2 DEF Others
    <3>2. PICK q \in Slots : f \in FramesIn(pc[q])
      BY <3>1 DEF Shared
    <3> QED
      BY <1>4, <3>1, <3>2
  <2> QED
    BY <2>1, <2>2
<1> QED
  BY <1>6, <1>7, <1>8 DEF Shared

LEMMA SpaceSound ==
  ASSUME NEW fr \in SUBSET Frames, NEW d, Owns(fr, d), NEW m, m.free = fr, m.pt = d.pt, m.tab = d.tab
  PROVE  Sound(m, Others(fr, d))
<1>1. PICK R : R = Others(fr, d)
  OBVIOUS
<1>2. PICK a, b : a = FramesOf(d.tab) /\ b = FramesOf(d.pt)
  OBVIOUS
<1>3. FramesIn(d) = a \cup b
  BY <1>2 DEF FramesIn
<1>4. Whole(fr, a, b, R)
  BY <1>1, <1>2, <1>3 DEF Owns, Others, Whole
<1> QED
  BY <1>1, <1>2, <1>4 DEF Owns, Sound

LEMMA InvNext ==
  ASSUME free' \in SUBSET Frames, proc' \in [Slots -> ProcType], halt' \in Whys,
         halt' = "" => Shared(free', proc') /\ AllFit(proc')
  PROVE  VmInv'
  BY DEF VmInv

\* A process that runs, at the start of a call.
Caller(p) ==
    /\ proc[p] \in ProcType /\ Low(proc[p]) /\ Stacks(proc[p]) /\ Others(free, proc[p]) \in SUBSET Frames
    /\ Good(Space(p), Others(free, proc[p]), p, KernelPages(Live(proc[p]))) /\ Space(p).why = ""
    /\ KernelPages(Live(proc[p])) \in SUBSET KernelPages(Tids)

LEMMA CallerGood ==
  ASSUME VmInv, NEW p \in Slots, Running(p)
  PROVE  Caller(p)
<1>1. free \in SUBSET Frames /\ proc \in [Slots -> ProcType] /\ halt = "" /\ proc[p].state = "USED"
  BY DEF VmInv, Running
<1>2. Shared(free, proc) /\ AllFit(proc)
  BY <1>1 DEF VmInv
<1>3. PICK d \in ProcType : d = proc[p]
  BY <1>1
<1>4. Low(d) /\ KernelAt(d.pt, p, KernelPages(Live(d)))
  BY <1>1, <1>2, <1>3 DEF AllFit, Fits
<1>5. PICK m : m = Space(p)
  OBVIOUS
<1>6. m = [free |-> free, pt |-> d.pt, tab |-> d.tab, ok |-> TRUE, why |-> halt]
  BY <1>3, <1>5 DEF Space
<1>7. m.free = free /\ m.pt = d.pt /\ m.tab = d.tab /\ m.why = "" /\ m \in SpaceType
  BY <1>1, <1>6 DEF SpaceType, ProcType, Whys
<1>8. Owns(free, d)
  BY <1>2, <1>3 DEF Shared
<1>9. Sound(m, Others(free, d))
  BY <1>1, <1>7, <1>8, SpaceSound
<1>10. Others(free, d) \in SUBSET Frames /\ KernelPages(Live(d)) \in SUBSET KernelPages(Tids)
  BY DEF Others, KernelPages, Live
<1>11. Stacks(d)
  BY <1>4, LowStacks
<1> QED
  BY <1>3, <1>4, <1>5, <1>7, <1>9, <1>10, <1>11 DEF Caller, Good

LEMMA PutKeeps ==
  ASSUME VmInv, halt = "", NEW p \in Slots, NEW r, Ready(r, Others(free, proc[p]), p, "USED"), Put(p, r.d, r.m)
  PROVE  VmInv'
<1>1. free \in SUBSET Frames /\ proc \in [Slots -> ProcType] /\ Shared(free, proc) /\ AllFit(proc)
  BY DEF VmInv
<1>2. PICK d \in ProcType : d = r.d /\ d.state = "USED" /\ Low(d)
  BY DEF Ready
<1>3. PICK m \in SpaceType : m = r.m /\ (m.why = "" => Sound(m, Others(free, proc[p])) /\ KernelAt(m.pt, p, KernelPages(Live(d))))
  BY <1>2 DEF Ready, Good
<1>4. /\ m.free \in SUBSET Frames /\ m.tab \in Tables /\ m.pt \in PageTable /\ m.why \in Whys
  BY DEF SpaceType
<1>5. PICK e : e = [d EXCEPT !.pt = m.pt, !.tab = m.tab]
  OBVIOUS
<1>6. /\ d.state \in {"UNUSED", "USED", "ZOMBIE"} /\ d.parent \in Slots \cup {-1} /\ d.pt \in PageTable
      /\ d.tab \in Tables /\ d.image \in Nat /\ d.max_page \in Nat /\ d.ustack \in Nat
      /\ d.threads \in [Tids -> {"UNUSED", "USED", "EXITED"}]
  BY DEF ProcType
<1>7. /\ e \in ProcType /\ e.pt = m.pt /\ e.tab = m.tab /\ e.state = "USED" /\ e.image = d.image
      /\ e.max_page = d.max_page /\ e.ustack = d.ustack /\ e.threads = d.threads
  BY <1>2, <1>4, <1>5, <1>6 DEF ProcType
<1>8. free' = m.free /\ halt' = m.why /\ proc' = [proc EXCEPT ![p] = e]
  BY <1>2, <1>3, <1>5 DEF Put
<1>9. proc' \in [Slots -> ProcType] /\ proc'[p] = e /\ \A q \in Slots : q # p => proc'[q] = proc[q]
  BY <1>1, <1>7, <1>8
<1>10. ASSUME m.why = ""
       PROVE  Shared(free', proc') /\ AllFit(proc')
  <2>1. PICK pd \in [Slots -> ProcType] : pd = proc'
    BY <1>9
  <2>2. PICK fr \in SUBSET Frames, pc \in [Slots -> ProcType] : fr = free /\ pc = proc
    BY <1>1
  <2>3. Sound(m, Others(fr, pc[p])) /\ Shared(fr, pc)
    BY <1>1, <1>3, <1>10, <2>2
  <2>4. Shared(m.free, pd)
    <3>1. OneSpace(pc, pd, p, m)
      BY <1>7, <1>9, <2>1, <2>2 DEF OneSpace
    <3> QED
      BY <1>4, <2>3, <3>1, Rearranges
  <2>5. Live(e) = Live(d)
    BY <1>7 DEF Live
  <2>6. Low(e)
    BY <1>2, <1>7 DEF Low
  <2>7. Fits(e, p)
    BY <1>3, <1>7, <1>10, <2>5, <2>6 DEF Fits
  <2>8. AllFit(pd)
    BY <1>1, <1>9, <2>1, <2>7 DEF AllFit
  <2> QED
    BY <1>8, <2>1, <2>4, <2>8
<1> QED
  BY <1>4, <1>8, <1>9, <1>10, InvNext

(***************************************************************************)
(* One step                                                                *)
(***************************************************************************)
LEMMA ThreadCreateStep ==
  ASSUME VmInv, NEW p \in Slots, sys_thread_create(p)
  PROVE  VmInv'
<1>1. Running(p) /\ halt = "" /\ proc[p].state = "USED" /\ UnusedTids(proc[p]) # {}
  BY DEF sys_thread_create, Running
<1>2. Caller(p)
  BY <1>1, CallerGood
<1>3. PICK d \in ProcType : d = proc[p] /\ Low(d)
  BY <1>2 DEF Caller
<1>4. PICK R \in SUBSET Frames, m \in SpaceType :
         R = Others(free, d) /\ m = Space(p) /\ Good(m, R, p, KernelPages(Live(d)))
  BY <1>2, <1>3 DEF Caller, Good
<1>5. PICK t \in Tids : t = FirstTid(d)
  BY <1>1, <1>3, FreeTid
<1>6. PICK r : r = allocthread(m, p, d, t, TRUE) /\ Put(p, r.d, r.m)
  BY <1>3, <1>4, <1>5 DEF sys_thread_create
<1>7. Ready(r, R, p, d.state)
  BY <1>3, <1>4, <1>6, Allocs
<1>8. Ready(r, Others(free, proc[p]), p, "USED")
  BY <1>1, <1>3, <1>4, <1>7
<1> QED
  BY <1>1, <1>6, <1>8, PutKeeps

\* A thread that is gone: its trap frame is, too.
GoneThread(d, e, m, R, p, t, s) ==
    /\ e \in ProcType /\ Low(e) /\ Stacks(e) /\ e.state = d.state /\ e.max_page = d.max_page
    /\ e.ustack = d.ustack /\ Good(m, R, p, KernelPages(Live(e)))
    /\ e.threads[t] = s

LEMMA ThreadGone ==
  ASSUME NEW m, NEW R, NEW p \in Slots, NEW d \in ProcType, Low(d), NEW t \in Tids, NEW s \in {"UNUSED", "EXITED"},
         Good(m, R, p, KernelPages(Live(d)) \ {TrapframeVa(t)}), NEW e, e = [d EXCEPT !.threads[t] = s]
  PROVE  GoneThread(d, e, m, R, p, t, s)
<1>1. /\ d.state \in {"UNUSED", "USED", "ZOMBIE"} /\ d.parent \in Slots \cup {-1} /\ d.pt \in PageTable
      /\ d.tab \in Tables /\ d.image \in Nat /\ d.max_page \in Nat /\ d.ustack \in Nat
      /\ d.threads \in [Tids -> {"UNUSED", "USED", "EXITED"}]
  BY DEF ProcType
<1>2. PICK th : th = [d.threads EXCEPT ![t] = s]
  OBVIOUS
<1>3. th \in [Tids -> {"UNUSED", "USED", "EXITED"}] /\ th[t] = s /\ \A u \in Tids : u # t => th[u] = d.threads[u]
  BY <1>1, <1>2
<1>4. e = [d EXCEPT !.threads = th]
  BY <1>2
<1>5. /\ e \in ProcType /\ e.threads = th /\ e.state = d.state /\ e.max_page = d.max_page
      /\ e.ustack = d.ustack /\ e.image = d.image
  BY <1>1, <1>3, <1>4 DEF ProcType
<1>6. Low(e)
  BY <1>5 DEF Low
<1>7. Live(d) \ {t} \subseteq Live(e)
  BY <1>3, <1>5 DEF Live
<1>8. KernelPages(Live(d)) \ {TrapframeVa(t)} \subseteq KernelPages(Live(e))
  BY <1>7 DEF KernelPages
<1>9. Good(m, R, p, KernelPages(Live(e)))
  BY <1>8, KernelMore DEF Good
<1>10. Stacks(e)
  BY <1>5, <1>6, LowStacks
<1> QED
  BY <1>3, <1>5, <1>6, <1>9, <1>10 DEF GoneThread

LEMMA ExitThreadStep ==
  ASSUME VmInv, NEW p \in Slots, NEW t \in Tids, exit_thread(p, t)
  PROVE  VmInv'
<1>1. Running(p) /\ halt = "" /\ proc[p].state = "USED"
  BY DEF exit_thread, Running
<1>2. Caller(p)
  BY <1>1, CallerGood
<1>3. PICK d \in ProcType : d = proc[p] /\ Low(d) /\ Stacks(d)
  BY <1>2 DEF Caller
<1>4. PICK R \in SUBSET Frames, W \in SUBSET KernelPages(Tids), m \in SpaceType :
         R = Others(free, d) /\ m = Space(p) /\ W = KernelPages(Live(d)) /\ Good(m, R, p, W)
  BY <1>2, <1>3 DEF Caller, Good
<1>5. PICK n, e : n = freethread(m, d, t) /\ e = [d EXCEPT !.threads[t] = "EXITED"] /\ Put(p, e, n)
  BY <1>3, <1>4 DEF exit_thread
<1>6. Freethread(m, n, p, R, W, t)
  BY <1>3, <1>4, <1>5, FreesThread
<1>7. Good(n, R, p, KernelPages(Live(d)) \ {TrapframeVa(t)})
  BY <1>4, <1>6 DEF Freethread
<1>8. GoneThread(d, e, n, R, p, t, "EXITED")
  BY <1>3, <1>5, <1>7, ThreadGone
<1>9. PICK r : r = [m |-> n, d |-> e]
  OBVIOUS
<1>10. Ready(r, Others(free, proc[p]), p, "USED")
  BY <1>1, <1>3, <1>4, <1>8, <1>9 DEF Ready, GoneThread
<1>11. Put(p, r.d, r.m)
  BY <1>5, <1>9
<1> QED
  BY <1>1, <1>10, <1>11, PutKeeps

LEMMA WaittidStep ==
  ASSUME VmInv, NEW p \in Slots, NEW t \in Tids, sys_waittid(p, t)
  PROVE  VmInv'
<1>1. Running(p) /\ halt = "" /\ proc[p].state = "USED" /\ proc \in [Slots -> ProcType]
  BY DEF sys_waittid, Running, VmInv
<1>2. Caller(p)
  BY <1>1, CallerGood
<1>3. PICK d \in ProcType : d = proc[p] /\ Low(d) /\ Stacks(d)
  BY <1>2 DEF Caller
<1>4. PICK R \in SUBSET Frames, W \in SUBSET KernelPages(Tids), m \in SpaceType :
         R = Others(free, d) /\ m = Space(p) /\ W = KernelPages(Live(d)) /\ Good(m, R, p, W)
  BY <1>2, <1>3 DEF Caller, Good
<1>5. PICK e : e = [d EXCEPT !.threads[t] = "UNUSED"]
  OBVIOUS
<1>6. Good(m, R, p, KernelPages(Live(d)) \ {TrapframeVa(t)})
  <2>1. d.threads[t] = "EXITED"
    BY <1>3 DEF sys_waittid
  <2>2. KernelPages(Live(d)) \ {TrapframeVa(t)} = KernelPages(Live(d))
    <3>1. \A u \in Live(d) : TrapframeVa(u) # TrapframeVa(t)
      BY <2>1, Heights DEF Live, TrapframeVa, Tids
    <3>2. TRAMPOLINE # TrapframeVa(t)
      BY Heights
    <3> QED
      BY <3>1, <3>2 DEF KernelPages
  <2> QED
    BY <1>4, <2>2
<1>7. GoneThread(d, e, m, R, p, t, "UNUSED")
  BY <1>3, <1>5, <1>6, ThreadGone
<1>8. PICK r : r = [m |-> m, d |-> e]
  OBVIOUS
<1>9. Ready(r, Others(free, proc[p]), p, "USED")
  BY <1>1, <1>3, <1>4, <1>7, <1>8 DEF Ready, GoneThread
<1>10. Put(p, r.d, r.m)
  <2>1. m = [free |-> free, pt |-> d.pt, tab |-> d.tab, ok |-> TRUE, why |-> halt]
    BY <1>3, <1>4 DEF Space
  <2>2. e = [e EXCEPT !.pt = m.pt, !.tab = m.tab]
    BY <1>3, <1>5, <2>1 DEF ProcType
  <2>3. proc' = [proc EXCEPT ![p] = e] /\ free' = free /\ halt' = halt
    BY <1>3, <1>5 DEF sys_waittid
  <2> QED
    BY <1>8, <2>1, <2>2, <2>3 DEF Put
<1> QED
  BY <1>1, <1>9, <1>10, PutKeeps

\* A change of memory alone.
LEMMA MemoryStep ==
  ASSUME VmInv, NEW p \in Slots, Caller(p), Running(p), NEW n,
         Good(n, Others(free, proc[p]), p, KernelPages(Live(proc[p]))), Put(p, proc[p], n)
  PROVE  VmInv'
<1>1. PICK r : r = [m |-> n, d |-> proc[p]]
  OBVIOUS
<1>2. Ready(r, Others(free, proc[p]), p, "USED")
  BY <1>1 DEF Ready, Caller, Running
<1>3. Put(p, r.d, r.m) /\ halt = ""
  BY <1>1 DEF Running
<1> QED
  BY <1>2, <1>3, PutKeeps

LEMMA MmapStep ==
  ASSUME VmInv, NEW p \in Slots, NEW start \in STARTS, NEW n \in 1 .. MAPLEN, sys_mmap(p, start, n)
  PROVE  VmInv'
<1>1. Running(p)
  BY DEF sys_mmap
<1>2. Caller(p)
  BY <1>1, CallerGood
<1>3. PICK R \in SUBSET Frames, W \in SUBSET KernelPages(Tids), m \in SpaceType :
         R = Others(free, proc[p]) /\ m = Space(p) /\ W = KernelPages(Live(proc[p])) /\ Good(m, R, p, W)
  BY <1>2 DEF Caller, Good
<1>4. PICK k : k = FoldLeft(MapPage, m, Each(start, n)) /\ Put(p, proc[p], k)
  BY <1>3 DEF sys_mmap, MapPage
<1>5. start \in Nat /\ n \in Nat /\ start + n <= HIGH
  BY VmAssumption DEF HIGH, TRAMPOLINE
<1>6. Good(k, R, p, W)
  BY <1>3, <1>4, <1>5, MapsPages
<1> QED
  BY <1>1, <1>2, <1>3, <1>4, <1>6, MemoryStep

LEMMA MunmapStep ==
  ASSUME VmInv, NEW p \in Slots, NEW start \in STARTS, NEW n \in 1 .. MAPLEN, sys_munmap(p, start, n)
  PROVE  VmInv'
<1>1. Running(p)
  BY DEF sys_munmap
<1>2. Caller(p)
  BY <1>1, CallerGood
<1>3. PICK R \in SUBSET Frames, W \in SUBSET KernelPages(Tids), m \in SpaceType :
         R = Others(free, proc[p]) /\ m = Space(p) /\ W = KernelPages(Live(proc[p])) /\ Good(m, R, p, W)
  BY <1>2 DEF Caller, Good
<1>4. PICK S : S = PagesFrom(start, n)
  OBVIOUS
<1>5. PICK k : k = uvmunmap(m, S, TRUE) /\ Put(p, proc[p], k)
  BY <1>3, <1>4 DEF sys_munmap
<1>6. \A va \in S : va \in Int /\ va < HIGH
  <2>1. start \in Nat /\ n \in Nat /\ start + n <= HIGH
    BY VmAssumption DEF HIGH, TRAMPOLINE
  <2> QED
    BY <1>4, <2>1, Heights DEF PagesFrom
<1>7. Unmapped(m, k, p, R, W, S)
  BY <1>3, <1>5, <1>6, UnmapsUser
<1>8. Good(k, Others(free, proc[p]), p, KernelPages(Live(proc[p])))
  BY <1>3, <1>7 DEF Unmapped
<1> QED
  BY <1>1, <1>2, <1>5, <1>8, MemoryStep

LEMMA ExecStep ==
  ASSUME VmInv, NEW p \in Slots, NEW t \in Tids, NEW image \in IMAGES, exec(p, t, image)
  PROVE  VmInv'
<1>1. Running(p) /\ halt = "" /\ proc[p].state = "USED"
  BY DEF exec, Running
<1>2. Caller(p)
  BY <1>1, CallerGood
<1>3. PICK d \in ProcType : d = proc[p] /\ Low(d) /\ Stacks(d)
  BY <1>2 DEF Caller
<1>4. PICK R \in SUBSET Frames, W \in SUBSET KernelPages(Tids), m \in SpaceType :
         R = Others(free, d) /\ m = Space(p) /\ W = KernelPages(Live(d)) /\ Good(m, R, p, W)
  BY <1>2, <1>3 DEF Caller, Good
<1>5. PICK e : e = [d EXCEPT !.threads[t] = "UNUSED"]
  OBVIOUS
<1>6. PICK k : k = freethread(m, e, t)
  OBVIOUS
<1>7. PICK S : S = Below(e.max_page)
  OBVIOUS
<1>8. PICK n : n = uvmunmap(k, S, TRUE)
  OBVIOUS
<1>9. PICK b : b = bin_loader(n, p, e, image)
  OBVIOUS
<1>10. PICK r : r = push_argv(b) /\ Put(p, r.d, r.m)
  BY <1>3, <1>4, <1>5, <1>6, <1>7, <1>8, <1>9 DEF exec
<1>11. e \in ProcType /\ Stacks(e) /\ Low(e) /\ e.state = d.state
  <2>2. /\ d.state \in {"UNUSED", "USED", "ZOMBIE"} /\ d.parent \in Slots \cup {-1} /\ d.pt \in PageTable
        /\ d.tab \in Tables /\ d.image \in Nat /\ d.max_page \in Nat /\ d.ustack \in Nat
        /\ d.threads \in [Tids -> {"UNUSED", "USED", "EXITED"}]
    BY DEF ProcType
  <2>3. PICK th \in [Tids -> {"UNUSED", "USED", "EXITED"}] : th = [d.threads EXCEPT ![t] = "UNUSED"]
    BY <2>2
  <2>4. e = [d EXCEPT !.threads = th]
    BY <1>5, <2>3
  <2>5. e \in ProcType /\ e.state = d.state /\ e.max_page = d.max_page /\ e.ustack = d.ustack /\ e.image = d.image
    BY <2>2, <2>4 DEF ProcType
  <2> QED
    BY <1>3, <2>5 DEF Low, Stacks
<1>12. Freethread(m, k, p, R, W, t)
  BY <1>4, <1>6, <1>11, FreesThread
<1>13. GoneThread(d, e, k, R, p, t, "UNUSED")
  <2>1. Good(k, R, p, KernelPages(Live(d)) \ {TrapframeVa(t)})
    BY <1>4, <1>12 DEF Freethread
  <2> QED
    BY <1>3, <1>5, <2>1, ThreadGone
<1>14. PICK X \in SUBSET KernelPages(Tids) : X = KernelPages(Live(e)) /\ Good(k, R, p, X)
  BY <1>13 DEF GoneThread, KernelPages, Live
<1>15. \A va \in S : va \in Int /\ va < HIGH
  BY <1>7, <1>11, Heights DEF Below, Low, ProcType
<1>16. Unmapped(k, n, p, R, X, S)
  BY <1>8, <1>14, <1>15, UnmapsUser
<1>17. Good(n, R, p, KernelPages(Live(e)))
  BY <1>14, <1>16 DEF Unmapped
<1>18. UnusedTids(e) # {}
  BY <1>13 DEF GoneThread, UnusedTids
<1>19. Ready(b, R, p, e.state)
  BY <1>9, <1>11, <1>17, <1>18, Loads
<1>20. b = [m |-> b.m, d |-> b.d]
  BY <1>9, LoaderRecord
<1>21. Ready(r, R, p, e.state)
  BY <1>10, <1>19, <1>20, PushesArgv
<1>22. Ready(r, Others(free, proc[p]), p, "USED")
  BY <1>1, <1>3, <1>4, <1>11, <1>21
<1> QED
  BY <1>1, <1>10, <1>22, PutKeeps

\* A slot for a new process: with the trampoline, and the rest of memory untouched.
Newborn(p, q) ==
    /\ q \in Slots /\ Others(free, proc[q]) \in SUBSET Frames
    /\ NewProc(p, q) \in ProcType /\ NewProc(p, q).state = "USED" /\ UnusedTids(NewProc(p, q)) = Tids /\ 0 \in Tids
    /\ Good(Created(q), Others(free, proc[q]), q, KernelPages(Live(NewProc(p, q))))
    /\ Holds(Created(q), KernelPages(Live(NewProc(p, q))))

LEMMA NewbornGood ==
  ASSUME VmInv, halt = "", NEW p \in Slots, NEW q \in FirstSlot
  PROVE  Newborn(p, q)
<1>1. q \in Slots /\ proc[q].state = "UNUSED"
  BY DEF FirstSlot, UnusedSlots
<1>2. free \in SUBSET Frames /\ proc \in [Slots -> ProcType] /\ Shared(free, proc) /\ AllFit(proc)
  BY DEF VmInv
<1>3. PICK d \in ProcType : d = proc[q] /\ d.pt = <<>> /\ d.tab = <<>>
  BY <1>1, <1>2 DEF AllFit, Fits
<1>4. PICK m : m = [Space(q) EXCEPT !.tab = <<>>]
  OBVIOUS
<1>5. m.free = free /\ m.pt = <<>> /\ m.tab = <<>> /\ m.why = "" /\ m \in SpaceType
  <2>1. <<>> \in PageTable /\ <<>> \in Tables
    BY PartialNone DEF PageTable, Tables
  <2>2. PICK x : x = <<>> /\ x \in PageTable /\ x \in Tables
    BY <2>1
  <2>3. m = [[free |-> free, pt |-> x, tab |-> x, ok |-> TRUE, why |-> ""] EXCEPT !.tab = x]
    BY <1>3, <1>4, <2>2 DEF Space
  <2> QED
    BY <1>2, <2>2, <2>3 DEF SpaceType, Whys
<1>6. PICK R : R = Others(free, d)
  OBVIOUS
<1>7. R \in SUBSET Frames
  BY <1>6 DEF Others
<1>8. Sound(m, R)
  <2>1. Owns(free, d)
    BY <1>1, <1>2, <1>3 DEF Shared
  <2> QED
    BY <1>2, <1>3, <1>5, <1>6, <2>1, SpaceSound
<1>9. Created(q) = uvmcreate(m)
  BY <1>4 DEF Created
<1>10. Good(Created(q), R, q, {TRAMPOLINE}) /\ Holds(Created(q), {TRAMPOLINE})
  BY <1>1, <1>5, <1>7, <1>8, <1>9, Creates DEF Holds
<1>11. PICK e : e = NewProc(p, q)
  OBVIOUS
<1>12. PICK th \in [Tids -> {"UNUSED", "USED", "EXITED"}] : th = NoThread /\ \A t \in Tids : th[t] = "UNUSED"
  <2>1. NoThread \in [Tids -> {"UNUSED", "USED", "EXITED"}]
    BY DEF NoThread
  <2>2. \A t \in Tids : NoThread[t] = "UNUSED"
    BY DEF NoThread
  <2> QED
    BY <2>1, <2>2
<1>13. /\ e \in ProcType /\ e.state = "USED" /\ e.threads = th
  <2>1. PICK x : x = <<>> /\ x \in PageTable /\ x \in Tables
    BY PartialNone DEF PageTable, Tables
  <2>2. e = [[state |-> "UNUSED", parent |-> -1, pt |-> x, tab |-> x, image |-> 0,
              max_page |-> 0, ustack |-> 0, threads |-> th] EXCEPT !.state = "USED", !.parent = p]
    BY <1>11, <1>12, <2>1 DEF NewProc, NoProc
  <2> QED
    BY <2>1, <2>2 DEF ProcType
<1>14. UnusedTids(e) = Tids /\ Live(e) = {} /\ 0 \in Tids
  <2>1. \A t \in Tids : e.threads[t] = "UNUSED"
    BY <1>12, <1>13
  <2>2. 0 \in Tids
    BY FirstOnes
  <2> QED
    BY <2>1, <2>2 DEF UnusedTids, Live
<1>15. KernelPages(Live(e)) = {TRAMPOLINE}
  BY <1>14 DEF KernelPages
<1> QED
  BY <1>1, <1>3, <1>6, <1>7, <1>10, <1>11, <1>13, <1>14, <1>15 DEF Newborn

LEMMA SpawnStep ==
  ASSUME VmInv, NEW p \in Slots, NEW image \in IMAGES, sys_spawn(p, image)
  PROVE  VmInv'
<1>1. halt = ""
  BY DEF sys_spawn, Running
<1>2. PICK q \in FirstSlot : \E r \in {push_argv(bin_loader(Created(q), q, NewProc(p, q), image))} : Put(q, r.d, r.m)
  BY DEF sys_spawn
<1>3. Newborn(p, q)
  BY <1>1, NewbornGood
<1>4. PICK d \in ProcType : d = NewProc(p, q) /\ d.state = "USED" /\ UnusedTids(d) # {}
  BY <1>3 DEF Newborn
<1>5. PICK R \in SUBSET Frames, m \in SpaceType :
         R = Others(free, proc[q]) /\ m = Created(q) /\ Good(m, R, q, KernelPages(Live(d)))
  BY <1>3, <1>4 DEF Newborn, Good
<1>6. PICK b : b = bin_loader(m, q, d, image)
  OBVIOUS
<1>7. PICK r : r = push_argv(b) /\ Put(q, r.d, r.m)
  BY <1>2, <1>4, <1>5, <1>6
<1>8. q \in Slots
  BY <1>3 DEF Newborn
<1>9. Ready(b, R, q, d.state)
  BY <1>4, <1>5, <1>6, <1>8, Loads
<1>10. b = [m |-> b.m, d |-> b.d]
  BY <1>6, LoaderRecord
<1>11. Ready(r, R, q, d.state)
  BY <1>7, <1>9, <1>10, PushesArgv
<1>12. Ready(r, Others(free, proc[q]), q, "USED")
  BY <1>4, <1>5, <1>11
<1> QED
  BY <1>1, <1>7, <1>8, <1>12, PutKeeps

LEMMA ForkStep ==
  ASSUME VmInv, NEW p \in Slots, fork(p)
  PROVE  VmInv'
<1>1. Running(p) /\ halt = "" /\ proc[p].state = "USED"
  BY DEF fork, Running
<1>2. CASE halt' = "allocproc" /\ UNCHANGED <<free, proc>>
  BY <1>2 DEF VmInv, Whys
<1>3. ASSUME NEW q \in FirstSlot,
             \E m \in {uvmcopy(Created(q), proc[p].pt, proc[p].max_page)} :
                LET n == IF m.ok THEN m ELSE Panicked(m, "uvmcopy")
                    d == [NewProc(p, q) EXCEPT !.max_page = proc[p].max_page, !.ustack = proc[p].ustack,
                                               !.image = proc[p].image]
                IN  \E r \in {allocthread(n, q, d, 0, FALSE)} : Put(q, r.d, r.m)
      PROVE  VmInv'
  <2>1. Newborn(p, q) /\ Caller(p)
    BY <1>1, CallerGood, NewbornGood
  <2>2. PICK o \in ProcType : o = proc[p] /\ Low(o)
    BY <2>1 DEF Caller
  <2>3. PICK c \in ProcType : c = NewProc(p, q) /\ c.state = "USED"
    BY <2>1 DEF Newborn
  <2>4. PICK R \in SUBSET Frames, W \in SUBSET KernelPages(Tids), k \in SpaceType :
           R = Others(free, proc[q]) /\ W = KernelPages(Live(c)) /\ k = Created(q) /\ Good(k, R, q, W)
    BY <2>1, <2>3 DEF Newborn, Good, KernelPages, Live
  <2>5. PICK m : m = uvmcopy(k, o.pt, o.max_page)
    OBVIOUS
  <2>6. PICK n : n = IF m.ok THEN m ELSE Panicked(m, "uvmcopy")
    OBVIOUS
  <2>7. PICK d : d = [c EXCEPT !.max_page = o.max_page, !.ustack = o.ustack, !.image = o.image]
    OBVIOUS
  <2>8. PICK r : r = allocthread(n, q, d, 0, FALSE) /\ Put(q, r.d, r.m)
    BY <1>3, <2>2, <2>3, <2>4, <2>5, <2>6, <2>7
  <2>9. q \in Slots /\ 0 \in Tids
    BY <2>1 DEF Newborn
  <2>10. m \in SpaceType /\ (m.ok => Good(m, R, q, W))
    <3>1. PICK h \in Nat : h = o.max_page /\ h <= HIGH
      BY <2>2 DEF Low, ProcType
    <3>2. m = uvmcopy(k, o.pt, h)
      BY <2>5, <3>1
    <3> QED
      BY <2>4, <2>9, <3>1, <3>2, CopiesSpace
  <2>11. Good(n, R, q, W)
    <3>1. CASE m.ok
      BY <2>6, <2>10, <3>1
    <3>2. CASE ~m.ok
      <4>1. PICK y \in Whys : y = "uvmcopy" /\ y # ""
        BY DEF Whys
      <4>2. n = Panicked(m, y)
        BY <2>6, <3>2, <4>1
      <4> QED
        BY <2>10, <4>1, <4>2, PanicGood
    <3> QED
      BY <3>1, <3>2
  <2>12. d \in ProcType /\ d.state = "USED" /\ Low(d) /\ Live(d) = Live(c)
    <3>1. /\ c.state \in {"UNUSED", "USED", "ZOMBIE"} /\ c.parent \in Slots \cup {-1} /\ c.pt \in PageTable
          /\ c.tab \in Tables /\ c.threads \in [Tids -> {"UNUSED", "USED", "EXITED"}]
      BY DEF ProcType
    <3>2. PICK h \in Nat, i \in Nat, j \in Nat : h = o.max_page /\ i = o.ustack /\ j = o.image
      BY DEF ProcType
    <3>3. d = [c EXCEPT !.max_page = h, !.ustack = i, !.image = j]
      BY <2>7, <3>2
    <3>4. d \in ProcType
      BY <3>1, <3>3 DEF ProcType
    <3>5. d.state = c.state /\ d.max_page = h /\ d.ustack = i /\ d.image = j /\ d.threads = c.threads
      BY <3>1, <3>3 DEF ProcType
    <3> QED
      BY <2>2, <2>3, <3>2, <3>4, <3>5 DEF Low, Live
  <2>13. Good(n, R, q, KernelPages(Live(d)))
    BY <2>4, <2>11, <2>12
  <2>14. PICK t \in Tids, b \in BOOLEAN : t = 0 /\ b = FALSE
    BY <2>9
  <2>15. r = allocthread(n, q, d, t, b)
    BY <2>8, <2>14
  <2>16. Ready(r, R, q, d.state)
    BY <2>9, <2>12, <2>13, <2>15, Allocs
  <2>17. Ready(r, Others(free, proc[q]), q, "USED")
    BY <2>4, <2>12, <2>16
  <2> QED
    BY <1>1, <2>8, <2>9, <2>17, PutKeeps
<1> QED
  BY <1>2, <1>3 DEF fork

\* Of a process that does not run nothing is left.
LEMMA NothingLeft ==
  ASSUME NEW s \in {"UNUSED", "ZOMBIE"}, NEW parent \in Slots \cup {-1}, NEW q, NEW d,
         d = [NoProc EXCEPT !.state = s, !.parent = parent]
  PROVE  d \in ProcType /\ d.pt = <<>> /\ d.tab = <<>> /\ Fits(d, q)
<1>1. PICK th \in [Tids -> {"UNUSED", "USED", "EXITED"}] : th = NoThread
  BY DEF NoThread
<1>2. PICK x : x = <<>> /\ x \in PageTable /\ x \in Tables
  BY PartialNone DEF PageTable, Tables
<1>3. d = [state |-> s, parent |-> parent, pt |-> x, tab |-> x, image |-> 0,
           max_page |-> 0, ustack |-> 0, threads |-> th]
  BY <1>1, <1>2 DEF NoProc
<1>4. d \in ProcType
  <2>1. PICK y \in PageTable, z \in Tables : y = x /\ z = x
    BY <1>2
  <2>2. PICK st \in {"UNUSED", "USED", "ZOMBIE"}, o \in Nat : st = s /\ o = 0
    OBVIOUS
  <2>3. d = [state |-> st, parent |-> parent, pt |-> y, tab |-> z, image |-> o,
             max_page |-> o, ustack |-> o, threads |-> th]
    BY <1>3, <2>1, <2>2
  <2> QED
    BY <2>3 DEF ProcType
<1>5. d.pt = x /\ d.tab = x /\ d.state = s /\ d.max_page = 0 /\ d.image = 0
  <2>1. PICK e : e = [state |-> s, parent |-> parent, pt |-> x, tab |-> x, image |-> 0,
                      max_page |-> 0, ustack |-> 0, threads |-> th]
    OBVIOUS
  <2>2. e.pt = x /\ e.tab = x /\ e.state = s /\ e.max_page = 0 /\ e.image = 0
    BY <2>1, Zenon
  <2> QED
    BY <1>3, <2>1, <2>2
<1> QED
  BY <1>2, <1>4, <1>5 DEF Fits

LEMMA WaitStep ==
  ASSUME VmInv, NEW p \in Slots, NEW q \in Slots, wait(p, q)
  PROVE  VmInv'
<1>1. Running(p) /\ halt = "" /\ proc[q].state = "ZOMBIE" /\ proc' = [proc EXCEPT ![q] = NoProc]
      /\ free' = free /\ halt' = halt
  BY DEF wait, Running
<1>2. free \in SUBSET Frames /\ proc \in [Slots -> ProcType] /\ Shared(free, proc) /\ AllFit(proc) /\ halt \in Whys
  BY <1>1 DEF VmInv
<1>3. PICK d : d = NoProc /\ d \in ProcType /\ d.pt = <<>> /\ d.tab = <<>> /\ Fits(d, q)
  <2>1. PICK s \in {"UNUSED", "ZOMBIE"}, i \in Slots \cup {-1} : s = "UNUSED" /\ i = -1
    OBVIOUS
  <2>2. PICK e : e = [NoProc EXCEPT !.state = s, !.parent = i]
    OBVIOUS
  <2>3. e = NoProc
    BY <2>1, <2>2 DEF NoProc
  <2>4. e \in ProcType /\ e.pt = <<>> /\ e.tab = <<>> /\ Fits(e, q)
    BY <2>2, NothingLeft
  <2> QED
    BY <2>3, <2>4
<1>4. proc[q].pt = <<>> /\ proc[q].tab = <<>>
  BY <1>1, <1>2 DEF AllFit, Fits
<1>5. PICK pd \in [Slots -> ProcType] : pd = proc' /\ pd[q] = d /\ \A r \in Slots : r # q => pd[r] = proc[r]
  BY <1>1, <1>2, <1>3
<1>6. \A r \in Slots : pd[r].pt = proc[r].pt /\ pd[r].tab = proc[r].tab
  BY <1>3, <1>4, <1>5
<1>7. \A r \in Slots : FramesIn(pd[r]) = FramesIn(proc[r])
  BY <1>6 DEF FramesIn
<1>8. Shared(free, pd)
  BY <1>2, <1>6, <1>7 DEF Shared, Owns
<1>9. AllFit(pd)
  BY <1>2, <1>3, <1>5 DEF AllFit
<1> QED
  BY <1>1, <1>2, <1>5, <1>8, <1>9, InvNext

\* A process that has lost its parent.
LEMMA Orphan ==
  ASSUME NEW d \in ProcType, NEW q, Fits(d, q), NEW e, e = [d EXCEPT !.parent = -1]
  PROVE  e \in ProcType /\ e.pt = d.pt /\ e.tab = d.tab /\ Fits(e, q)
<1>1. /\ d.state \in {"UNUSED", "USED", "ZOMBIE"} /\ d.parent \in Slots \cup {-1} /\ d.pt \in PageTable
      /\ d.tab \in Tables /\ d.image \in Nat /\ d.max_page \in Nat /\ d.ustack \in Nat
      /\ d.threads \in [Tids -> {"UNUSED", "USED", "EXITED"}]
  BY DEF ProcType
<1>2. e \in ProcType
  BY <1>1 DEF ProcType
<1>3. /\ e.pt = d.pt /\ e.tab = d.tab /\ e.state = d.state /\ e.image = d.image /\ e.max_page = d.max_page
      /\ e.ustack = d.ustack /\ e.threads = d.threads
  BY DEF ProcType
<1>4. Live(e) = Live(d)
  BY <1>3 DEF Live
<1>5. Low(e) <=> Low(d)
  BY <1>3 DEF Low
<1>6. Fits(e, q)
  BY <1>3, <1>4, <1>5 DEF Fits
<1> QED
  BY <1>2, <1>3, <1>6

LEMMA ExitStep ==
  ASSUME VmInv, NEW p \in Slots, exit(p)
  PROVE  VmInv'
<1>1. Running(p) /\ halt = "" /\ proc[p].state = "USED"
  BY DEF exit, Running
<1>2. free \in SUBSET Frames /\ proc \in [Slots -> ProcType] /\ Shared(free, proc) /\ AllFit(proc)
  BY <1>1 DEF VmInv
<1>3. Caller(p)
  BY <1>1, CallerGood
<1>4. PICK d \in ProcType : d = proc[p] /\ Low(d) /\ Stacks(d)
  BY <1>3 DEF Caller
<1>5. PICK R \in SUBSET Frames, W \in SUBSET KernelPages(Tids), m \in SpaceType :
         R = Others(free, d) /\ m = Space(p) /\ W = KernelPages(Live(d)) /\ Good(m, R, p, W)
  BY <1>3, <1>4 DEF Caller, Good
<1>6. PICK k : k = FreeThreads(Space(p), proc[p])
  OBVIOUS
<1>7. PICK n : n = freepagetable(k, proc[p].max_page)
  OBVIOUS
<1>8. /\ free' = n.free /\ halt' = n.why
      /\ proc' = [q \in Slots |->
                    IF q = p THEN [NoProc EXCEPT !.state = IF proc[p].parent = -1 THEN "UNUSED" ELSE "ZOMBIE",
                                                 !.parent = proc[p].parent]
                    ELSE IF proc[q].parent = p THEN [proc[q] EXCEPT !.parent = -1]
                    ELSE proc[q]]
  BY <1>6, <1>7 DEF exit, FreeThreads, FreeOne
<1>9. Good(k, R, p, W) /\ \A t \in Live(d) : TrapframeVa(t) \notin DOMAIN k.pt
  <2>1. k = FreeThreads(m, d)
    BY <1>4, <1>5, <1>6
  <2>2. /\ Good(FreeThreads(m, d), R, p, W)
        /\ \A t \in Live(d) : TrapframeVa(t) \notin DOMAIN FreeThreads(m, d).pt
    BY <1>4, <1>5, FreesThreads
  <2> QED
    BY <2>1, <2>2
<1>10. Good(k, R, p, {TRAMPOLINE})
  <2>1. KernelAt(k.pt, p, W) => KernelAt(k.pt, p, {TRAMPOLINE})
    BY <1>5, <1>9 DEF KernelAt, KernelPages
  <2> QED
    BY <1>9, <2>1 DEF Good
<1>11. PICK h \in Nat : h = d.max_page /\ h <= HIGH
  BY <1>4 DEF Low, ProcType
<1>12. Good(n, R, p, {}) /\ n.pt = <<>> /\ n.tab = <<>>
  <2>1. n = freepagetable(k, h)
    BY <1>4, <1>7, <1>11
  <2> QED
    BY <1>10, <1>11, <2>1, FreesProcess
<1>13. PICK e : e = proc'[p] /\ e \in ProcType /\ e.pt = <<>> /\ e.tab = <<>> /\ Fits(e, p)
  <2>1. PICK s \in {"UNUSED", "ZOMBIE"}, i \in Slots \cup {-1} :
           s = (IF d.parent = -1 THEN "UNUSED" ELSE "ZOMBIE") /\ i = d.parent
    BY DEF ProcType
  <2>2. proc'[p] = [NoProc EXCEPT !.state = s, !.parent = i]
    BY <1>4, <1>8, <2>1
  <2>3. proc'[p] \in ProcType /\ proc'[p].pt = <<>> /\ proc'[p].tab = <<>> /\ Fits(proc'[p], p)
    BY <2>2, NothingLeft
  <2> QED
    BY <2>3
<1>14. ASSUME NEW q \in Slots, q # p
       PROVE  proc'[q] \in ProcType /\ proc'[q].pt = proc[q].pt /\ proc'[q].tab = proc[q].tab /\ Fits(proc'[q], q)
  <2>1. PICK c \in ProcType : c = proc[q] /\ Fits(c, q)
    BY <1>2 DEF AllFit
  <2>2. CASE c.parent = p
    <3>1. proc'[q] = [c EXCEPT !.parent = -1]
      BY <1>8, <1>14, <2>1, <2>2
    <3>2. proc'[q] \in ProcType /\ proc'[q].pt = c.pt /\ proc'[q].tab = c.tab /\ Fits(proc'[q], q)
      BY <2>1, <3>1, Orphan
    <3> QED
      BY <2>1, <3>2
  <2>3. CASE c.parent # p
    <3>1. proc'[q] = c
      BY <1>8, <1>14, <2>1, <2>3
    <3> QED
      BY <2>1, <3>1
  <2> QED
    BY <2>2, <2>3
<1>15. proc' \in [Slots -> ProcType]
  <2>1. \A q \in Slots : proc'[q] \in ProcType
    BY <1>13, <1>14
  <2>2. proc' = [q \in Slots |-> proc'[q]]
    BY <1>8
  <2> QED
    BY <2>1, <2>2
<1>16. PICK pd \in [Slots -> ProcType] : pd = proc'
  BY <1>15
<1>17. n \in SpaceType /\ n.free \in SUBSET Frames /\ n.why \in Whys
  BY <1>12 DEF Good, SpaceType
<1>18. ASSUME n.why = ""
       PROVE  Shared(n.free, pd)
  <2>1. PICK fr \in SUBSET Frames, pc \in [Slots -> ProcType] : fr = free /\ pc = proc
    BY <1>2
  <2>2. Sound(n, Others(fr, pc[p])) /\ Shared(fr, pc)
    BY <1>2, <1>4, <1>5, <1>12, <1>18, <2>1 DEF Good
  <2>3. OneSpace(pc, pd, p, n)
    BY <1>12, <1>13, <1>14, <1>16, <2>1 DEF OneSpace
  <2> QED
    BY <1>17, <2>2, <2>3, Rearranges
<1>19. AllFit(pd)
  BY <1>13, <1>14, <1>16 DEF AllFit
<1> QED
  BY <1>8, <1>15, <1>16, <1>17, <1>18, <1>19, InvNext

(***************************************************************************)
(* The theorem                                                             *)
(***************************************************************************)
LEMMA VmInit ==
  ASSUME Init
  PROVE  VmInv
<1>1. PICK x : x = <<>> /\ x \in PageTable /\ x \in Tables /\ FramesOf(x) = {} /\ DOMAIN x = {}
  BY PartialNone DEF PageTable, Tables
<1>2. PICK th \in [Tids -> {"UNUSED", "USED", "EXITED"}] : th = NoThread /\ \A t \in Tids : th[t] = "UNUSED"
  <2>1. NoThread \in [Tids -> {"UNUSED", "USED", "EXITED"}]
    BY DEF NoThread
  <2>2. \A t \in Tids : NoThread[t] = "UNUSED"
    BY DEF NoThread
  <2> QED
    BY <2>1, <2>2
<1>3. PICK z : z = NoProc
  OBVIOUS
<1>4. z \in ProcType /\ z.pt = <<>> /\ z.tab = <<>> /\ \A q : Fits(z, q)
  <2>1. PICK s \in {"UNUSED", "ZOMBIE"}, i \in Slots \cup {-1} : s = "UNUSED" /\ i = -1
    OBVIOUS
  <2>2. z = [NoProc EXCEPT !.state = s, !.parent = i]
    <3>1. PICK e : e = [NoProc EXCEPT !.state = s, !.parent = i]
      OBVIOUS
    <3>2. e = NoProc
      BY <2>1, <3>1 DEF NoProc
    <3> QED
      BY <1>3, <3>1, <3>2
  <2>3. \A q : z \in ProcType /\ z.pt = <<>> /\ z.tab = <<>> /\ Fits(z, q)
    BY <2>2, NothingLeft
  <2> QED
    BY <2>3
<1>5. PICK d : d = [NoProc EXCEPT !.state = "USED"]
  OBVIOUS
<1>6. d \in ProcType /\ d.state = "USED" /\ d.threads = th
  <2>1. d = [[state |-> "UNUSED", parent |-> -1, pt |-> x, tab |-> x, image |-> 0,
              max_page |-> 0, ustack |-> 0, threads |-> th] EXCEPT !.state = "USED"]
    BY <1>1, <1>2, <1>5 DEF NoProc
  <2> QED
    BY <1>1, <2>1 DEF ProcType
<1>7. UnusedTids(d) # {} /\ Live(d) = {}
  BY <1>2, <1>6, FirstOnes DEF UnusedTids, Live
<1>8. PICK a : a = [free |-> Frames, pt |-> x, tab |-> x, ok |-> TRUE, why |-> ""]
  OBVIOUS
<1>9. a \in SpaceType /\ a.free = Frames /\ a.pt = x /\ a.tab = x /\ a.why = ""
  BY <1>1, <1>8 DEF SpaceType, Whys
<1>10. PICK R \in SUBSET Frames : R = {}
  OBVIOUS
<1>11. Sound(a, R)
  BY <1>1, <1>9, <1>10 DEF Sound, Once, Whole
<1>12. 0 \in Slots
  BY FirstOnes
<1>13. PICK u : u = uvmcreate(a)
  OBVIOUS
<1>14. Good(u, R, 0, {TRAMPOLINE})
  BY <1>1, <1>9, <1>11, <1>12, <1>13, Creates
<1>15. Good(u, R, 0, KernelPages(Live(d)))
  <2>1. KernelPages(Live(d)) = {TRAMPOLINE}
    BY <1>7 DEF KernelPages
  <2> QED
    BY <1>14, <2>1
<1>16. PICK image \in IMAGES :
          \E r \in {push_argv(bin_loader(u, 0, d, image))} :
             /\ free = r.m.free /\ halt = r.m.why
             /\ proc = [p \in Slots |-> IF p = 0 THEN [r.d EXCEPT !.pt = r.m.pt, !.tab = r.m.tab] ELSE z]
  BY <1>1, <1>3, <1>5, <1>8, <1>13 DEF Init
<1>17. PICK r : /\ r = push_argv(bin_loader(u, 0, d, image))
                /\ free = r.m.free /\ halt = r.m.why
                /\ proc = [p \in Slots |-> IF p = 0 THEN [r.d EXCEPT !.pt = r.m.pt, !.tab = r.m.tab] ELSE z]
  BY <1>16
<1>18. PICK b : b = bin_loader(u, 0, d, image)
  OBVIOUS
<1>19. Ready(b, R, 0, d.state) /\ b = [m |-> b.m, d |-> b.d]
  BY <1>6, <1>7, <1>12, <1>15, <1>18, Loads, LoaderRecord
<1>20. Ready(r, R, 0, "USED")
  <2>1. r = push_argv(b)
    BY <1>17, <1>18
  <2>2. Ready(b, R, 0, "USED")
    BY <1>6, <1>19
  <2> QED
    BY <1>19, <2>1, <2>2, PushesArgv
<1>21. PICK c \in ProcType : c = r.d /\ c.state = "USED" /\ Low(c)
  BY <1>20 DEF Ready
<1>22. PICK m \in SpaceType : m = r.m /\ (m.why = "" => Sound(m, R) /\ KernelAt(m.pt, 0, KernelPages(Live(c))))
  BY <1>20, <1>21 DEF Ready, Good
<1>23. m.free \in SUBSET Frames /\ m.tab \in Tables /\ m.pt \in PageTable /\ m.why \in Whys
  BY DEF SpaceType
<1>24. PICK e : e = [c EXCEPT !.pt = m.pt, !.tab = m.tab]
  OBVIOUS
<1>25. /\ e \in ProcType /\ e.pt = m.pt /\ e.tab = m.tab /\ e.state = "USED" /\ e.image = c.image
       /\ e.max_page = c.max_page /\ e.ustack = c.ustack /\ e.threads = c.threads
  BY <1>21, <1>23, <1>24 DEF ProcType
<1>26. proc = [p \in Slots |-> IF p = 0 THEN e ELSE z]
  BY <1>17, <1>21, <1>22, <1>24
<1>27. PICK pc \in [Slots -> ProcType] : pc = [p \in Slots |-> z]
  BY <1>4
<1>28. proc \in [Slots -> ProcType] /\ proc[0] = e /\ \A q \in Slots : q # 0 => proc[q] = z
  BY <1>4, <1>12, <1>25, <1>26
<1>29. PICK pd \in [Slots -> ProcType] : pd = proc
  BY <1>28
<1>30. ASSUME m.why = ""
       PROVE  Shared(m.free, pd) /\ AllFit(pd)
  <2>1. FramesIn(z) = {} /\ FramesOf(z.tab) = {} /\ FramesOf(z.pt) = {} /\ DOMAIN z.pt = {}
    BY <1>1, <1>4 DEF FramesIn
  <2>2. PICK fr \in SUBSET Frames : fr = Frames
    OBVIOUS
  <2>3. Shared(fr, pc)
    BY <1>27, <2>1, <2>2 DEF Shared, Owns, Once
  <2>4. Others(fr, pc[0]) = R
    BY <1>10, <1>12, <1>27, <2>1, <2>2 DEF Others
  <2>5. OneSpace(pc, pd, 0, m)
    BY <1>25, <1>27, <1>28, <1>29 DEF OneSpace
  <2>6. Shared(m.free, pd)
    <3>1. Sound(m, Others(fr, pc[0]))
      BY <1>22, <1>30, <2>4
    <3> QED
      BY <1>12, <1>23, <2>3, <2>5, <3>1, Rearranges
  <2>7. Low(e) /\ Live(e) = Live(c)
    BY <1>21, <1>25 DEF Low, Live
  <2>8. Fits(e, 0)
    BY <1>22, <1>25, <1>30, <2>7 DEF Fits
  <2> QED
    BY <1>4, <1>28, <1>29, <2>6, <2>8 DEF AllFit
<1>31. free = m.free /\ halt = m.why
  BY <1>17, <1>22
<1> QED
  BY <1>23, <1>28, <1>29, <1>30, <1>31 DEF VmInv

LEMMA VmStep ==
  ASSUME VmInv, [Next]_vmVars
  PROVE  VmInv'
<1>1. CASE UNCHANGED vmVars
  BY <1>1 DEF VmInv, vmVars
<1>2. CASE Next
  BY <1>2, ThreadCreateStep, ExitThreadStep, WaittidStep, MmapStep, MunmapStep, ExecStep, SpawnStep, ForkStep,
     WaitStep, ExitStep DEF Next
<1> QED
  BY <1>1, <1>2

\* The kernel's frames differ in every process.
LEMMA KernelDistinct ==
  ASSUME NEW p \in Slots, NEW a \in KernelPages(Tids), NEW b \in KernelPages(Tids),
         KernelFrame(p, a) = KernelFrame(p, b)
  PROVE  a = b
<1>1. \A va \in KernelPages(Tids) : va # TRAMPOLINE =>
         \E t \in Tids : va = TRAMPOLINE - 1 - t /\ KernelFrame(p, va) = -2 - (p * NTHREAD + t)
  <2> TAKE va \in KernelPages(Tids)
  <2> HAVE va # TRAMPOLINE
  <2>1. PICK t \in Tids : va = TrapframeVa(t)
    BY DEF KernelPages
  <2>2. TRAMPOLINE - 1 - va = t
    BY <2>1, Heights DEF TrapframeVa, Tids
  <2> QED
    BY <2>1, <2>2 DEF KernelFrame, TrapframeOf, TrapframeVa
<1>2. PICK k \in Nat : k = p * NTHREAD
  BY VmAssumption DEF Slots
<1>3. \A t \in Tids : k + t \in Nat /\ t \in Nat
  BY DEF Tids
<1>4. KernelFrame(p, TRAMPOLINE) = -1
  BY DEF KernelFrame, TrampolineFrame
<1>5. CASE a = TRAMPOLINE \/ b = TRAMPOLINE
  BY <1>1, <1>2, <1>3, <1>4, <1>5
<1>6. CASE a # TRAMPOLINE /\ b # TRAMPOLINE
  <2>1. PICK t \in Tids : a = TRAMPOLINE - 1 - t /\ KernelFrame(p, a) = -2 - (k + t)
    BY <1>1, <1>2, <1>6
  <2>2. PICK u \in Tids : b = TRAMPOLINE - 1 - u /\ KernelFrame(p, b) = -2 - (k + u)
    BY <1>1, <1>2, <1>6
  <2>3. t = u
    BY <1>3, <2>1, <2>2
  <2> QED
    BY <2>1, <2>2, <2>3
<1> QED
  BY <1>5, <1>6

LEMMA VmFrames ==
  ASSUME VmInv
  PROVE  FramesTrue
<1>1. free \in SUBSET Frames /\ proc \in [Slots -> ProcType] /\ halt \in Whys
  BY DEF VmInv
<1>2. \A p \in Slots : Owned(p) = FramesIn(proc[p])
  BY DEF Owned, FramesIn
<1>3. TypeOK
  <2>1. ASSUME NEW p \in Slots
        PROVE  /\ FramesOf(proc[p].tab) \subseteq Frames \cup {NULL}
               /\ FramesOf(proc[p].pt) \subseteq -2 - NPROC * NTHREAD .. NFRAMES
               /\ halt = "" => (proc[p].state = "USED") = (proc[p].max_page > proc[p].image)
    <3>1. PICK d \in ProcType : d = proc[p]
      BY <1>1
    <3>2. PICK tab \in Partial(Levels, Frames \cup {NULL}), pt \in Partial(Int, Leafs) : tab = d.tab /\ pt = d.pt
      BY DEF ProcType, Tables, PageTable
    <3>3. tab \in [DOMAIN tab -> Frames \cup {NULL}] /\ pt \in [DOMAIN pt -> Leafs]
      BY PartialIs
    <3>4. FramesOf(tab) \subseteq Frames \cup {NULL} /\ FramesOf(pt) \subseteq Leafs
      BY <3>3 DEF FramesOf
    <3>5. halt = "" => (d.state = "USED") = (d.max_page > d.image)
      <4>1. SUFFICES ASSUME halt = "" PROVE (d.state = "USED") = (d.max_page > d.image)
        OBVIOUS
      <4>2. Fits(d, p)
        BY <3>1, <4>1 DEF VmInv, AllFit
      <4> QED
        BY <4>2 DEF Fits, Low
    <3> QED
      BY <3>1, <3>2, <3>4, <3>5 DEF Leafs
  <2> QED
    BY <1>1, <2>1 DEF TypeOK
<1>4. ASSUME halt = ""
      PROVE  Shared(free, proc) /\ AllFit(proc)
  BY <1>4 DEF VmInv
<1>5. NoSharing
  <2>1. SUFFICES ASSUME halt = ""
                 PROVE  /\ \A p \in Used : Owned(p) \cap free = {}
                        /\ \A p, q \in Used : p # q => Owned(p) \cap Owned(q) \cap Frames = {}
                        /\ \A p \in Used : FramesOf(proc[p].tab) \cap FramesOf(proc[p].pt) = {}
                        /\ \A p \in Used : \A a, b \in DOMAIN proc[p].pt :
                              a # b /\ proc[p].pt[a] # NULL => proc[p].pt[a] # proc[p].pt[b]
    BY DEF NoSharing
  <2>2. Shared(free, proc) /\ AllFit(proc)
    BY <1>4, <2>1
  <2>3. \A p \in Slots : FramesIn(proc[p]) \cap free = {} /\ FramesOf(proc[p].tab) \cap FramesOf(proc[p].pt) = {}
    BY <2>2 DEF Shared, Owns
  <2>4. \A p, q \in Slots : p # q => FramesIn(proc[p]) \cap FramesIn(proc[q]) \cap Frames = {}
    BY <2>2 DEF Shared
  <2>5. ASSUME NEW p \in Used, NEW a \in DOMAIN proc[p].pt, NEW b \in DOMAIN proc[p].pt,
               a # b, proc[p].pt[a] # NULL, proc[p].pt[a] = proc[p].pt[b]
        PROVE  FALSE
    <3>1. p \in Slots /\ proc[p].state = "USED"
      BY DEF Used
    <3>2. PICK d \in ProcType : d = proc[p]
      BY <1>1, <3>1
    <3>3. PICK pt \in Partial(Int, Leafs) : pt = d.pt
      BY DEF ProcType, PageTable
    <3>4. pt \in [DOMAIN pt -> Leafs] /\ a \in DOMAIN pt /\ b \in DOMAIN pt /\ pt[a] = pt[b] /\ pt[a] # NULL
      BY <2>5, <3>2, <3>3, PartialIs
    <3>5. Once(pt) /\ KernelAt(pt, p, KernelPages(Live(d)))
      BY <2>2, <3>1, <3>2, <3>3 DEF Shared, Owns, AllFit, Fits
    <3>6. pt[a] \notin Frames
      BY <2>5, <3>4, <3>5 DEF Once
    <3>7. PICK f \in Leafs : f = pt[a]
      BY <3>4
    <3>8. f < 0
      <4>1. f \in Int /\ f <= NFRAMES
        <5>1. PICK j \in Nat : j = NPROC * NTHREAD
          BY VmAssumption
        <5> QED
          BY <5>1, VmAssumption DEF Leafs
      <4> QED
        BY <3>4, <3>6, <3>7, <4>1, VmAssumption DEF Frames, NULL
    <3>9. /\ a \in KernelPages(Live(d)) /\ pt[a] = KernelFrame(p, a)
          /\ b \in KernelPages(Live(d)) /\ pt[b] = KernelFrame(p, b)
      BY <3>4, <3>5, <3>7, <3>8 DEF KernelAt
    <3>10. a \in KernelPages(Tids) /\ b \in KernelPages(Tids)
      BY <3>9 DEF KernelPages, Live
    <3> QED
      BY <2>5, <3>1, <3>4, <3>9, <3>10, KernelDistinct
  <2>6. \A p \in Used : p \in Slots
    BY DEF Used
  <2>7. \A p \in Used : Owned(p) \cap free = {}
    BY <1>2, <2>3, <2>6
  <2>8. \A p, q \in Used : p # q => Owned(p) \cap Owned(q) \cap Frames = {}
    BY <1>2, <2>4, <2>6
  <2> QED
    BY <2>3, <2>5, <2>6, <2>7, <2>8
<1>6. NothingLost
  <2>1. SUFFICES ASSUME halt = "", NEW f \in Frames
                 PROVE  f \in free \/ \E p \in Used : f \in Owned(p)
    BY DEF NothingLost
  <2>2. Shared(free, proc) /\ AllFit(proc)
    BY <1>4, <2>1
  <2>3. CASE f \notin free
    <3>1. PICK p \in Slots : f \in FramesIn(proc[p])
      BY <2>2, <2>3 DEF Shared
    <3>2. p \in Used
      <4>1. ASSUME p \notin Used
            PROVE  FALSE
        <5>1. proc[p].pt = <<>> /\ proc[p].tab = <<>>
          BY <2>2, <4>1 DEF AllFit, Fits, Used
        <5>2. FramesOf(<<>>) = {}
          BY PartialNone
        <5> QED
          BY <3>1, <5>1, <5>2 DEF FramesIn
      <4> QED
        BY <4>1
    <3> QED
      BY <1>2, <3>1, <3>2
  <2> QED
    BY <2>3
<1>7. KernelFramesKept
  BY <1>1 DEF KernelFramesKept, Whys
<1> QED
  BY <1>3, <1>5, <1>6, <1>7 DEF FramesTrue

\* FramesTrue, for any number of processes, threads, frames and calls: the free list, the
\* page tables and the pages of the processes share out the frames of kinit, whatever
\* order of fork, spawn, exec, exit, mmap and munmap led there; and no process that
\* ends hands a frame of the kernel to kfree (vm.c, loader.c, proc.c).
THEOREM FramesTheorem == Spec => []FramesTrue
<1>1. Init => VmInv
  BY VmInit
<1>2. VmInv /\ [Next]_vmVars => VmInv'
  BY VmStep
<1>3. VmInv => FramesTrue
  BY VmFrames
<1> QED
  BY <1>1, <1>2, <1>3, PTL DEF Spec

(***************************************************************************)
(* What stays mapped keeps its frame                                       *)
(***************************************************************************)
\* The pages that are mapped before and after have the same frames.
Agrees(f, g) == \A va \in DOMAIN f \cap DOMAIN g : g[va] = f[va]

LEMMA PanicGrows ==
  ASSUME NEW m, NEW n \in SpaceType, Grows(m.pt, n.pt), NEW y \in Whys, y # "", NEW r, r = Panicked(n, y)
  PROVE  r \in SpaceType /\ Grows(m.pt, r.pt)
  BY Panics

\* What was mapped stays, and the thread's trap frame and its stack are.
Alloced(m, x, d, t, b) ==
    /\ x \in SpaceType /\ Grows(m.pt, x.pt)
    /\ x.why = "" => TrapframeVa(t) \in DOMAIN x.pt /\ (b => d.ustack + t \in DOMAIN x.pt)

LEMMA ThreadGrows ==
  ASSUME NEW m \in SpaceType, NEW p \in Slots, NEW d, Stacks(d), NEW t \in Tids,
         NEW b \in BOOLEAN, NEW x, x = allocthread(m, p, d, t, b).m
  PROVE  Alloced(m, x, d, t, b)
<1>1. PICK va \in Int : va = d.ustack + t
  BY ThreadPages
<1>2. PICK s : s = IF b THEN uvmmap(m, va) ELSE m
  OBVIOUS
<1>3. PICK n : n = IF s.ok THEN mappages(s, TrapframeVa(t), TrapframeOf(p, t)) ELSE Panicked(s, "map ustack fail")
  OBVIOUS
<1>4. PICK r : r = IF n.ok THEN n ELSE Panicked(n, "map trapframe fail")
  OBVIOUS
<1>5. x = r
  BY <1>1, <1>2, <1>3, <1>4 DEF allocthread
<1>6. s \in SpaceType /\ Grows(m.pt, s.pt) /\ (s.ok /\ b => va \in DOMAIN s.pt)
  <2>1. CASE b
    <3>1. s = TakeMapped(m, va)
      BY <1>2, <2>1 DEF uvmmap
    <3>2. s \in SpaceType /\ Grows(m.pt, s.pt)
      BY <3>1, TakesGrow
    <3>3. Took(m, s, va, kalloc(m))
      BY <3>1, TakesPage
    <3> QED
      BY <3>2, <3>3 DEF Took, Extended
  <2>2. CASE ~b
    BY <1>2, <2>2 DEF Grows
  <2> QED
    BY <2>1, <2>2
<1>7. n \in SpaceType /\ Grows(m.pt, n.pt) /\ (n.ok => TrapframeVa(t) \in DOMAIN n.pt /\ (b => va \in DOMAIN n.pt))
  <2>1. CASE s.ok
    <3>1. n = mappages(s, TrapframeVa(t), TrapframeOf(p, t))
      BY <1>3, <2>1
    <3>2. PICK w \in Int, f \in Leafs : w = TrapframeVa(t) /\ f = TrapframeOf(p, t)
      <4>1. PICK w \in Int : w = TrapframeVa(t) /\ w \in KernelPages(Tids) /\ w # TRAMPOLINE
        BY Heights DEF KernelPages
      <4>2. TRAMPOLINE - 1 - w = t
        BY <4>1, Heights, VmAssumption DEF TrapframeVa, Tids
      <4>3. KernelFrame(p, w) = TrapframeOf(p, t)
        BY <4>1, <4>2 DEF KernelFrame
      <4> QED
        BY <4>1, <4>3, KernelFrames
    <3>3. MapsOrNot(s, n, w, f)
      BY <1>6, <3>1, <3>2, MapsPage
    <3>4. n \in SpaceType /\ Grows(s.pt, n.pt) /\ (n.ok => w \in DOMAIN n.pt)
      BY <3>3 DEF MapsOrNot, AddedAt, NotAdded, Extended, Grows
    <3>5. Grows(m.pt, n.pt)
      BY <1>6, <3>4, GrowsOn
    <3>6. b => va \in DOMAIN n.pt
      BY <1>6, <2>1, <3>4 DEF Grows
    <3> QED
      BY <3>2, <3>4, <3>5, <3>6
  <2>2. CASE ~s.ok
    <3>1. PICK y \in Whys : y = "map ustack fail" /\ y # ""
      BY DEF Whys
    <3>2. n = Panicked(s, y)
      BY <1>3, <2>2, <3>1
    <3>3. n \in SpaceType /\ Grows(m.pt, n.pt) /\ n.ok = s.ok
      BY <1>6, <3>1, <3>2, Panics, PanicGrows
    <3> QED
      BY <2>2, <3>3
  <2> QED
    BY <2>1, <2>2
<1>8. CASE n.ok
  BY <1>1, <1>4, <1>5, <1>7, <1>8 DEF Alloced
<1>9. CASE ~n.ok
  <2>1. PICK y \in Whys : y = "map trapframe fail" /\ y # ""
    BY DEF Whys
  <2>2. r = Panicked(n, y)
    BY <1>4, <1>9, <2>1
  <2>3. r \in SpaceType /\ Grows(m.pt, r.pt) /\ r.why # ""
    BY <1>7, <2>1, <2>2, Panics, PanicGrows
  <2> QED
    BY <1>5, <2>3 DEF Alloced
<1> QED
  BY <1>8, <1>9

\* A call that rebuilds the memory of p leaves every other process alone.
OnlyIn(p, pt) == proc'[p].pt = pt /\ \A q \in Slots : q # p => proc'[q] = proc[q]

LEMMA PutOnly ==
  ASSUME VmInv, NEW p \in Slots, NEW d \in ProcType, NEW m, Put(p, d, m)
  PROVE  OnlyIn(p, m.pt)
<1>1. proc \in [Slots -> ProcType]
  BY DEF VmInv
<1>2. PICK e : e = [d EXCEPT !.pt = m.pt, !.tab = m.tab]
  OBVIOUS
<1>3. e.pt = m.pt
  BY <1>2 DEF ProcType
<1>4. proc' = [proc EXCEPT ![p] = e]
  BY <1>2 DEF Put
<1> QED
  BY <1>1, <1>3, <1>4 DEF OnlyIn

\* What NoRemap says of every slot when no program is executed.
AllAgree == \A q \in Slots : proc[q].state = "USED" /\ proc'[q].state = "USED" => Agrees(proc[q].pt, proc'[q].pt)

LEMMA AgreeIn ==
  ASSUME NEW p \in Slots, NEW pt, OnlyIn(p, pt), Agrees(proc[p].pt, pt)
  PROVE  AllAgree
  BY DEF OnlyIn, AllAgree, Agrees

LEMMA GrowsAgree ==
  ASSUME NEW f, NEW g, Grows(f, g)
  PROVE  Agrees(f, g)
  BY DEF Grows, Agrees

LEMMA CreateAgrees ==
  ASSUME VmInv, NEW p \in Slots, sys_thread_create(p)
  PROVE  AllAgree
<1>1. Running(p) /\ UnusedTids(proc[p]) # {}
  BY DEF sys_thread_create
<1>2. Caller(p)
  BY <1>1, CallerGood
<1>3. PICK d \in ProcType : d = proc[p] /\ Low(d) /\ Stacks(d)
  BY <1>2 DEF Caller
<1>4. PICK m \in SpaceType : m = Space(p) /\ m.pt = d.pt /\ Good(m, Others(free, d), p, KernelPages(Live(d)))
  BY <1>2, <1>3 DEF Caller, Good, Space
<1>5. PICK t \in Tids : t = FirstTid(d)
  BY <1>1, <1>3, FreeTid
<1>6. PICK r : r = allocthread(m, p, d, t, TRUE) /\ Put(p, r.d, r.m)
  BY <1>3, <1>4, <1>5 DEF sys_thread_create
<1>7. Grows(m.pt, r.m.pt)
  <2>1. PICK x : x = r.m
    OBVIOUS
  <2>2. Alloced(m, x, d, t, TRUE)
    BY <1>3, <1>6, <2>1, ThreadGrows
  <2> QED
    BY <2>1, <2>2 DEF Alloced
<1>8. PICK e \in ProcType : e = r.d
  <2>1. PICK e : e = r.d
    OBVIOUS
  <2>2. NewThread(d, e, t)
    BY <1>3, <1>6, <2>1, ThreadFields
  <2> QED
    BY <2>1, <2>2 DEF NewThread
<1>9. PICK n : n = r.m
  OBVIOUS
<1>10. OnlyIn(p, n.pt)
  BY <1>6, <1>8, <1>9, PutOnly
<1>11. Agrees(d.pt, n.pt)
  BY <1>4, <1>7, <1>9, GrowsAgree
<1> QED
  BY <1>3, <1>10, <1>11, AgreeIn

LEMMA MmapAgrees ==
  ASSUME VmInv, NEW p \in Slots, NEW start \in STARTS, NEW n \in 1 .. MAPLEN, sys_mmap(p, start, n)
  PROVE  AllAgree
<1>1. Running(p)
  BY DEF sys_mmap
<1>2. Caller(p)
  BY <1>1, CallerGood
<1>3. PICK d \in ProcType : d = proc[p]
  BY <1>2 DEF Caller
<1>4. PICK R \in SUBSET Frames, W \in SUBSET KernelPages(Tids), m \in SpaceType :
         R = Others(free, d) /\ m = Space(p) /\ m.pt = d.pt /\ W = KernelPages(Live(d)) /\ Good(m, R, p, W)
  BY <1>2, <1>3 DEF Caller, Good, Space
<1>5. PICK k : k = FoldLeft(MapPage, m, Each(start, n)) /\ Put(p, d, k)
  BY <1>3, <1>4 DEF sys_mmap, MapPage
<1>6. start \in Nat /\ n \in Nat /\ start + n <= HIGH
  BY VmAssumption DEF HIGH, TRAMPOLINE
<1>7. Grows(m.pt, k.pt)
  BY <1>4, <1>5, <1>6, MapsPages
<1>8. Agrees(d.pt, k.pt)
  BY <1>4, <1>7, GrowsAgree
<1>9. OnlyIn(p, k.pt)
  BY <1>5, PutOnly
<1> QED
  BY <1>3, <1>8, <1>9, AgreeIn

LEMMA MunmapAgrees ==
  ASSUME VmInv, NEW p \in Slots, NEW start \in STARTS, NEW n \in 1 .. MAPLEN, sys_munmap(p, start, n)
  PROVE  AllAgree
<1>1. Running(p)
  BY DEF sys_munmap
<1>2. Caller(p)
  BY <1>1, CallerGood
<1>3. PICK d \in ProcType : d = proc[p]
  BY <1>2 DEF Caller
<1>4. PICK R \in SUBSET Frames, W \in SUBSET KernelPages(Tids), m \in SpaceType :
         R = Others(free, d) /\ m = Space(p) /\ m.pt = d.pt /\ W = KernelPages(Live(d)) /\ Good(m, R, p, W)
  BY <1>2, <1>3 DEF Caller, Good, Space
<1>5. PICK S : S = PagesFrom(start, n)
  OBVIOUS
<1>6. PICK k : k = uvmunmap(m, S, TRUE) /\ Put(p, d, k)
  BY <1>3, <1>4, <1>5 DEF sys_munmap
<1>7. \A va \in S : va \in Int /\ va < HIGH
  <2>1. start \in Nat /\ n \in Nat /\ start + n <= HIGH
    BY VmAssumption DEF HIGH, TRAMPOLINE
  <2> QED
    BY <1>5, <2>1, Heights DEF PagesFrom
<1>8. Unmapped(m, k, p, R, W, S)
  BY <1>4, <1>6, <1>7, UnmapsUser
<1>9. Agrees(d.pt, k.pt)
  BY <1>4, <1>8 DEF Unmapped, Shrunk, Agrees
<1>10. OnlyIn(p, k.pt)
  BY <1>6, PutOnly
<1> QED
  BY <1>3, <1>9, <1>10, AgreeIn

LEMMA ExitThreadAgrees ==
  ASSUME VmInv, NEW p \in Slots, NEW t \in Tids, exit_thread(p, t)
  PROVE  AllAgree
<1>1. Running(p)
  BY DEF exit_thread
<1>2. Caller(p)
  BY <1>1, CallerGood
<1>3. PICK d \in ProcType : d = proc[p] /\ Low(d) /\ Stacks(d)
  BY <1>2 DEF Caller
<1>4. PICK R \in SUBSET Frames, W \in SUBSET KernelPages(Tids), m \in SpaceType :
         R = Others(free, d) /\ m = Space(p) /\ m.pt = d.pt /\ W = KernelPages(Live(d)) /\ Good(m, R, p, W)
  BY <1>2, <1>3 DEF Caller, Good, Space
<1>5. PICK n, e : n = freethread(m, d, t) /\ e = [d EXCEPT !.threads[t] = "EXITED"] /\ Put(p, e, n)
  BY <1>3, <1>4 DEF exit_thread
<1>6. Freethread(m, n, p, R, W, t)
  BY <1>3, <1>4, <1>5, FreesThread
<1>7. Good(n, R, p, KernelPages(Live(d)) \ {TrapframeVa(t)})
  BY <1>4, <1>6 DEF Freethread
<1>8. GoneThread(d, e, n, R, p, t, "EXITED")
  BY <1>3, <1>5, <1>7, ThreadGone
<1>9. e \in ProcType
  BY <1>8 DEF GoneThread
<1>10. OnlyIn(p, n.pt)
  BY <1>5, <1>9, PutOnly
<1>11. Agrees(d.pt, n.pt)
  BY <1>4, <1>6 DEF Freethread, Agrees
<1> QED
  BY <1>3, <1>10, <1>11, AgreeIn

LEMMA WaittidAgrees ==
  ASSUME VmInv, NEW p \in Slots, NEW t \in Tids, sys_waittid(p, t)
  PROVE  AllAgree
<1>1. proc \in [Slots -> ProcType] /\ proc' = [proc EXCEPT ![p].threads[t] = "UNUSED"]
  BY DEF sys_waittid, VmInv
<1>2. PICK d \in ProcType : d = proc[p]
  BY <1>1
<1>3. PICK e : e = [d EXCEPT !.threads[t] = "UNUSED"]
  OBVIOUS
<1>4. e.pt = d.pt
  BY <1>3 DEF ProcType
<1>5. proc' = [proc EXCEPT ![p] = e]
  BY <1>1, <1>2, <1>3
<1>6. OnlyIn(p, d.pt)
  BY <1>1, <1>4, <1>5 DEF OnlyIn
<1>7. Agrees(proc[p].pt, d.pt)
  BY <1>2 DEF Agrees
<1> QED
  BY <1>6, <1>7, AgreeIn

\* A slot in which no process ran before or none runs afterwards.
LEMMA OtherSlot ==
  ASSUME NEW p \in Slots, proc[p].state # "USED" \/ proc'[p].state # "USED",
         \A q \in Slots : q # p => proc'[q].pt = proc[q].pt
  PROVE  AllAgree
  BY DEF AllAgree, Agrees

LEMMA PutElsewhere ==
  ASSUME VmInv, NEW q \in FirstSlot, NEW d, NEW m, Put(q, d, m)
  PROVE  AllAgree
<1>1. proc \in [Slots -> ProcType]
  BY DEF VmInv
<1>2. q \in Slots /\ proc[q].state # "USED"
  BY DEF FirstSlot, UnusedSlots
<1>3. \A r \in Slots : r # q => proc'[r].pt = proc[r].pt
  BY <1>1, <1>2 DEF Put
<1> QED
  BY <1>2, <1>3, OtherSlot

LEMMA ForkAgrees ==
  ASSUME VmInv, NEW p \in Slots, fork(p)
  PROVE  AllAgree
<1>1. CASE UNCHANGED proc
  BY <1>1 DEF AllAgree, Agrees
<1>2. CASE ~UNCHANGED proc
  <2>1. \E q \in FirstSlot : \E d, m : Put(q, d, m)
    BY <1>2, Zenon DEF fork
  <2> QED
    BY <2>1, PutElsewhere
<1> QED
  BY <1>1, <1>2

LEMMA SpawnAgrees ==
  ASSUME VmInv, NEW p \in Slots, NEW image \in IMAGES, sys_spawn(p, image)
  PROVE  AllAgree
<1>1. \E q \in FirstSlot : \E d, m : Put(q, d, m)
  BY DEF sys_spawn
<1> QED
  BY <1>1, PutElsewhere

LEMMA ExitAgrees ==
  ASSUME VmInv, NEW p \in Slots, exit(p)
  PROVE  AllAgree
<1>1. proc \in [Slots -> ProcType]
  BY DEF VmInv
<1>2. proc' = [q \in Slots |->
                 IF q = p THEN [NoProc EXCEPT !.state = IF proc[p].parent = -1 THEN "UNUSED" ELSE "ZOMBIE",
                                              !.parent = proc[p].parent]
                 ELSE IF proc[q].parent = p THEN [proc[q] EXCEPT !.parent = -1]
                 ELSE proc[q]]
  BY DEF exit
<1>3. proc'[p].state # "USED"
  BY <1>2 DEF NoProc
<1>4. \A q \in Slots : q # p => proc'[q].pt = proc[q].pt
  <2> TAKE q \in Slots
  <2> HAVE q # p
  <2>1. PICK d \in ProcType : d = proc[q]
    BY <1>1
  <2>2. proc'[q] = IF d.parent = p THEN [d EXCEPT !.parent = -1] ELSE d
    BY <1>2, <2>1
  <2> QED
    BY <2>1, <2>2 DEF ProcType
<1> QED
  BY <1>3, <1>4, OtherSlot

LEMMA WaitAgrees ==
  ASSUME VmInv, NEW p \in Slots, NEW q \in Slots, wait(p, q)
  PROVE  AllAgree
<1>1. proc \in [Slots -> ProcType]
  BY DEF VmInv
<1>2. proc[q].state # "USED" /\ \A r \in Slots : r # q => proc'[r].pt = proc[r].pt
  BY <1>1 DEF wait
<1> QED
  BY <1>2, OtherSlot

\* exec rebuilds the memory of its own process only.
LEMMA ExecOthers ==
  ASSUME VmInv, NEW p \in Slots, NEW t \in Tids, NEW image \in IMAGES, exec(p, t, image)
  PROVE  \A q \in Slots : q # p => proc'[q] = proc[q]
<1>1. proc \in [Slots -> ProcType]
  BY DEF VmInv
<1>2. \E d, m : Put(p, d, m)
  BY DEF exec
<1> QED
  BY <1>1, <1>2 DEF Put

LEMMA NoRemapStep ==
  ASSUME VmInv, [Next]_vmVars
  PROVE  [\A p \in Slots :
            proc[p].state = "USED" /\ proc'[p].state = "USED"
              => \/ \E t \in Tids, image \in IMAGES : exec(p, t, image)
                 \/ \A va \in DOMAIN proc[p].pt \cap DOMAIN proc'[p].pt : proc'[p].pt[va] = proc[p].pt[va]]_vmVars
<1>1. CASE AllAgree
  BY <1>1 DEF AllAgree, Agrees
<1>2. CASE \E p \in Slots, t \in Tids, image \in IMAGES : exec(p, t, image)
  <2>1. PICK p \in Slots, t \in Tids, image \in IMAGES : exec(p, t, image)
    BY <1>2
  <2>2. \A q \in Slots : q # p => proc'[q] = proc[q]
    BY <2>1, ExecOthers
  <2> QED
    BY <2>1, <2>2
<1>3. CASE Next
  BY <1>1, <1>2, <1>3, CreateAgrees, MmapAgrees, MunmapAgrees, ExitThreadAgrees, WaittidAgrees, ForkAgrees,
     SpawnAgrees, ExitAgrees, WaitAgrees DEF Next
<1> QED
  BY <1>3

\* NoRemap, for any number of processes, threads and frames: whatever mmap, munmap,
\* thread_create and fork do, a page that stays mapped in a process that goes on keeps
\* its frame, unless the process executes a new program (mappages of vm.c refuses a
\* page that is mapped).
THEOREM RemapTheorem == Spec => NoRemap
<1>1. Init => VmInv
  BY VmInit
<1>2. VmInv /\ [Next]_vmVars => VmInv'
  BY VmStep
<1>3. VmInv /\ [Next]_vmVars =>
        [\A p \in Slots :
            proc[p].state = "USED" /\ proc'[p].state = "USED"
              => \/ \E t \in Tids, image \in IMAGES : exec(p, t, image)
                 \/ \A va \in DOMAIN proc[p].pt \cap DOMAIN proc'[p].pt : proc'[p].pt[va] = proc[p].pt[va]]_vmVars
  BY NoRemapStep
<1> QED
  BY <1>1, <1>2, <1>3, PTL DEF Spec, NoRemap

(***************************************************************************)
(* What a process needs to run stays mapped                                 *)
(***************************************************************************)
\* What the process d needs in the page table pt to run: its image, the stack of its
\* first thread, the trampoline and the trap frames of its threads.
Needs(d) == KernelPages(Live(d)) \cup (1 .. d.image) \cup {d.ustack}
Runs(d, pt) ==
    /\ d.image \in IMAGES /\ d.ustack = d.image + 2 /\ d.ustack < d.max_page
    /\ Needs(d) \subseteq DOMAIN pt
AllRun == halt = "" => \A p \in Slots : proc[p].state = "USED" => Runs(proc[p], proc[p].pt)

LEMMA RunsGrows ==
  ASSUME NEW d, NEW f, NEW g, Runs(d, f), Grows(f, g)
  PROVE  Runs(d, g)
  BY DEF Runs, Grows

\* A process that differs in nothing that it needs.
LEMMA RunsSame ==
  ASSUME NEW d, NEW e, NEW pt, Runs(d, pt), e.image = d.image, e.ustack = d.ustack, e.max_page = d.max_page,
         Live(e) \subseteq Live(d)
  PROVE  Runs(e, pt)
  BY DEF Runs, Needs, KernelPages

\* The result of a loader or of allocthread: the kernel has panicked, or it can run.
CanGo(r) == r.m.why = "" => Runs(r.d, r.m.pt)

\* A loaded program can run.
LEMMA LoadsRuns ==
  ASSUME NEW m, NEW R \in SUBSET Frames, NEW p \in Slots, NEW d \in ProcType, UnusedTids(d) # {},
         Good(m, R, p, KernelPages(Live(d))), NEW image \in IMAGES, Holds(m, KernelPages(Live(d))),
         NEW b, b = bin_loader(m, p, d, image)
  PROVE  CanGo(b)
<1>1. image \in Nat /\ image # 0 /\ image + 2 + NTHREAD <= HIGH /\ image < HIGH
  BY VmAssumption DEF HIGH, TRAMPOLINE
<1>2. PICK n : n = FoldLeft(LoadPage, m, Each(1, image))
  OBVIOUS
<1>3. PICK e : e = [d EXCEPT !.image = image, !.max_page = image + 1, !.ustack = image + 2]
  OBVIOUS
<1>4. PICK t : t = FirstTid(e)
  OBVIOUS
<1>5. PICK r : r = allocthread(n, p, e, t, TRUE)
  OBVIOUS
<1>7. b = IF n.why # "" THEN [m |-> n, d |-> e]
          ELSE IF t # 0 THEN [m |-> Panicked(r.m, "main thread"), d |-> e]
          ELSE r
  BY <1>2, <1>3, <1>4, <1>5 DEF bin_loader, LoadPage
<1>8. PICK W : W = KernelPages(Live(d))
  OBVIOUS
<1>9. Good(n, R, p, W) /\ Filled(m, n, 1 .. image)
  BY <1>1, <1>2, <1>8, LoadsImage
<1>10. e \in ProcType /\ e.threads = d.threads /\ e.image = image /\ e.ustack = image + 2 /\ Low(e)
  <2>1. /\ d.state \in {"UNUSED", "USED", "ZOMBIE"} /\ d.parent \in Slots \cup {-1} /\ d.pt \in PageTable
        /\ d.tab \in Tables /\ d.image \in Nat /\ d.max_page \in Nat /\ d.ustack \in Nat
        /\ d.threads \in [Tids -> {"UNUSED", "USED", "EXITED"}]
    BY DEF ProcType
  <2>2. PICK i \in Nat, j \in Nat, k \in Nat : i = image /\ j = image + 1 /\ k = image + 2
    BY <1>1
  <2>3. e = [d EXCEPT !.image = i, !.max_page = j, !.ustack = k]
    BY <1>3, <2>2
  <2>4. e \in ProcType
    BY <2>1, <2>3 DEF ProcType
  <2>5. e.threads = d.threads /\ e.image = i /\ e.max_page = j /\ e.ustack = k
    BY <2>1, <2>3 DEF ProcType
  <2>6. Low(e)
    BY <1>1, <2>2, <2>5, Heights, VmAssumption DEF Low
  <2> QED
    BY <2>2, <2>4, <2>5, <2>6
<1>11. Live(e) = Live(d) /\ UnusedTids(e) # {}
  BY <1>10 DEF Live, UnusedTids
<1>12. t \in Tids
  BY <1>4, <1>10, <1>11, FreeTid
<1>13. CASE n.why # ""
  <2>1. b = [m |-> n, d |-> e]
    BY <1>7, <1>13
  <2>2. b.m = n
    BY <2>1
  <2> QED
    BY <1>13, <2>2 DEF CanGo
<1>14. PICK x : x = r.m /\ Alloced(n, x, e, t, TRUE)
  <2>1. n \in SpaceType
    BY <1>9 DEF Good
  <2> QED
    BY <1>5, <1>10, <1>12, <2>1, LowStacks, ThreadGrows
<1>15. CASE n.why = "" /\ t # 0
  <2>1. PICK y \in Whys : y = "main thread" /\ y # ""
    BY DEF Whys
  <2>2. PICK s : s = Panicked(x, y)
    OBVIOUS
  <2>3. s.why # ""
    BY <1>14, <2>1, <2>2, Panics DEF Alloced
  <2>4. b = [m |-> s, d |-> e]
    BY <1>7, <1>14, <1>15, <2>1, <2>2
  <2>5. b.m = s
    BY <2>4
  <2> QED
    BY <2>3, <2>5 DEF CanGo
<1>16. CASE n.why = "" /\ t = 0
  <2>1. b = r
    BY <1>7, <1>16
  <2>2. PICK c : c = b.d /\ NewThread(e, c, t) /\ Reaches(e, c, t, TRUE)
    BY <1>5, <1>10, <1>12, <2>1, ThreadFields
  <2>3. SUFFICES ASSUME x.why = "" PROVE Runs(c, x.pt)
    BY <1>14, <2>1, <2>2 DEF CanGo
  <2>4. m.why = "" /\ Grows(m.pt, n.pt) /\ 1 .. image \subseteq DOMAIN n.pt
    BY <1>9, <1>16 DEF Filled
  <2>5. Grows(n.pt, x.pt) /\ TrapframeVa(t) \in DOMAIN x.pt /\ e.ustack + t \in DOMAIN x.pt
    BY <1>14, <2>3 DEF Alloced
  <2>6. KernelPages(Live(d)) \subseteq DOMAIN m.pt
    BY <2>4 DEF Holds
  <2>7. c.image = image /\ c.ustack = image + 2 /\ c.max_page \in Nat /\ c.max_page > e.ustack + t
    BY <1>10, <2>2 DEF NewThread, Reaches, ProcType
  <2>8. PICK u \in Nat : u = image + 2 /\ e.ustack + t = u
    <3>1. t = 0
      BY <1>16
    <3> QED
      BY <1>1, <1>10, <3>1
  <2>9. c.ustack = u /\ c.ustack < c.max_page /\ u \in DOMAIN x.pt
    BY <2>5, <2>7, <2>8
  <2>10. KernelPages(Live(c)) = KernelPages(Live(d)) \cup {TrapframeVa(t)}
    BY <1>11, <2>2 DEF NewThread, KernelPages
  <2>11. Needs(c) \subseteq DOMAIN x.pt
    BY <2>4, <2>5, <2>6, <2>7, <2>9, <2>10 DEF Needs, Grows
  <2> QED
    BY <2>7, <2>9, <2>11 DEF Runs
<1> QED
  BY <1>13, <1>15, <1>16

\* The arguments change nothing of it, or the kernel has panicked.
LEMMA ArgvRuns ==
  ASSUME NEW b, NEW R, NEW p, NEW state, Ready(b, R, p, state), b = [m |-> b.m, d |-> b.d], CanGo(b),
         NEW r, r = push_argv(b)
  PROVE  CanGo(r)
<1>1. CASE walkaddr(b.m.pt, b.d.ustack) = NULL
  <2>1. PICK y \in Whys : y = "copy argv failed" /\ y # ""
    BY DEF Whys
  <2>2. PICK s : s = Panicked(b.m, y)
    OBVIOUS
  <2>3. b.m \in SpaceType
    BY DEF Ready, Good
  <2>4. s.why # ""
    BY <2>1, <2>2, <2>3, Panics
  <2>5. r = [b EXCEPT !.m = s]
    BY <1>1, <2>1, <2>2 DEF push_argv
  <2>6. PICK d : d = b.d
    OBVIOUS
  <2>7. r = [m |-> s, d |-> d]
    BY <2>5, <2>6
  <2> QED
    <3>1. r.m = s
      BY <2>7
    <3> QED
      BY <2>4, <3>1 DEF CanGo
<1>2. CASE ~(walkaddr(b.m.pt, b.d.ustack) = NULL)
  BY <1>2 DEF push_argv
<1> QED
  BY <1>1, <1>2

\* The call has built d in slot p.
LEMMA PutRuns ==
  ASSUME VmInv, AllRun, halt = "", NEW p \in Slots, NEW d \in ProcType, NEW m \in SpaceType,
         d.state = "USED" /\ m.why = "" => Runs(d, m.pt), Put(p, d, m)
  PROVE  AllRun'
<1>1. proc \in [Slots -> ProcType]
  BY DEF VmInv
<1>2. PICK e : e = [d EXCEPT !.pt = m.pt, !.tab = m.tab]
  OBVIOUS
<1>3. /\ e.pt = m.pt /\ e.state = d.state /\ e.image = d.image /\ e.ustack = d.ustack /\ e.max_page = d.max_page
      /\ e.threads = d.threads
  BY <1>2 DEF ProcType
<1>4. proc' = [proc EXCEPT ![p] = e] /\ halt' = m.why
  BY <1>2 DEF Put
<1>5. Live(e) = Live(d)
  BY <1>3 DEF Live
<1>6. e.state = "USED" /\ m.why = "" => Runs(e, e.pt)
  BY <1>3, <1>5, RunsSame
<1>7. SUFFICES ASSUME halt' = "", NEW q \in Slots, proc'[q].state = "USED" PROVE Runs(proc'[q], proc'[q].pt)
  BY DEF AllRun, Runs, Needs, Live
<1>8. CASE q = p
  BY <1>1, <1>4, <1>6, <1>7, <1>8
<1>9. CASE q # p
  BY <1>1, <1>4, <1>7, <1>9 DEF AllRun
<1> QED
  BY <1>8, <1>9
\* The process e is d without the live thread t.
LessThread(d, e, t) ==
    /\ e.image = d.image /\ e.ustack = d.ustack /\ e.max_page = d.max_page /\ e.state = d.state
    /\ Live(e) = Live(d) \ {t}

LEMMA LosesThread ==
  ASSUME NEW d \in ProcType, NEW t \in Tids, NEW s \in {"UNUSED", "EXITED"}, NEW e, e = [d EXCEPT !.threads[t] = s]
  PROVE  LessThread(d, e, t)
<1>1. d.threads \in [Tids -> {"UNUSED", "USED", "EXITED"}]
  BY DEF ProcType
<1>2. PICK th \in [Tids -> {"UNUSED", "USED", "EXITED"}] : th = [d.threads EXCEPT ![t] = s]
  BY <1>1
<1>3. e = [d EXCEPT !.threads = th]
  BY <1>2
<1>4. /\ e.image = d.image /\ e.ustack = d.ustack /\ e.max_page = d.max_page /\ e.state = d.state
      /\ e.threads = th
  BY <1>3 DEF ProcType
<1>5. Live(e) = Live(d) \ {t}
  BY <1>1, <1>2, <1>4 DEF Live
<1> QED
  BY <1>4, <1>5 DEF LessThread
\* The caller can run.
LEMMA CallerRuns ==
  ASSUME AllRun, NEW p \in Slots, Running(p)
  PROVE  Runs(proc[p], proc[p].pt)
  BY DEF AllRun, Running

LEMMA CreateRuns ==
  ASSUME VmInv, AllRun, NEW p \in Slots, sys_thread_create(p)
  PROVE  AllRun'
<1>1. Running(p) /\ UnusedTids(proc[p]) # {} /\ halt = ""
  BY DEF sys_thread_create, Running
<1>2. Caller(p)
  BY <1>1, CallerGood
<1>3. PICK d \in ProcType : d = proc[p] /\ Low(d) /\ Stacks(d) /\ Runs(d, d.pt)
  BY <1>1, <1>2, CallerRuns DEF Caller
<1>4. PICK m \in SpaceType : m = Space(p) /\ m.pt = d.pt
  BY <1>2, <1>3 DEF Caller, Good, Space
<1>5. PICK t \in Tids : t = FirstTid(d)
  BY <1>1, <1>3, FreeTid
<1>6. PICK r : r = allocthread(m, p, d, t, TRUE) /\ Put(p, r.d, r.m)
  BY <1>3, <1>4, <1>5 DEF sys_thread_create
<1>7. PICK x, e : x = r.m /\ e = r.d
  OBVIOUS
<1>8. Alloced(m, x, d, t, TRUE)
  BY <1>3, <1>6, <1>7, ThreadGrows
<1>9. NewThread(d, e, t) /\ Reaches(d, e, t, TRUE)
  BY <1>3, <1>6, <1>7, ThreadFields
<1>10. ASSUME x.why = ""
       PROVE  Runs(e, x.pt)
  <2>1. Grows(d.pt, x.pt) /\ TrapframeVa(t) \in DOMAIN x.pt
    BY <1>4, <1>8, <1>10 DEF Alloced
  <2>2. e.image = d.image /\ e.ustack = d.ustack
    BY <1>9 DEF NewThread
  <2>3. KernelPages(Live(e)) = KernelPages(Live(d)) \cup {TrapframeVa(t)}
    BY <1>9 DEF NewThread, KernelPages
  <2>4. d.image \in IMAGES /\ d.ustack = d.image + 2 /\ d.ustack < d.max_page /\ Needs(d) \subseteq DOMAIN d.pt
    BY <1>3 DEF Runs
  <2>5. e.ustack < e.max_page
    <3>1. PICK a \in Nat, b \in Nat, c \in Nat : a = d.ustack /\ b = d.max_page /\ c = e.max_page
      BY <1>9 DEF NewThread, ProcType
    <3>2. a < b /\ c >= b
      BY <1>9, <2>4, <3>1 DEF Reaches
    <3> QED
      BY <2>2, <3>1, <3>2
  <2>6. Needs(e) \subseteq DOMAIN x.pt
    BY <2>1, <2>2, <2>3, <2>4 DEF Needs, Grows
  <2> QED
    BY <2>2, <2>4, <2>5, <2>6 DEF Runs
<1>11. e \in ProcType /\ x \in SpaceType
  BY <1>8, <1>9 DEF NewThread, Alloced
<1> QED
  BY <1>1, <1>6, <1>7, <1>10, <1>11, PutRuns

\* freethread unmaps the trap frame and the stack of the thread and nothing else.
Parted(m, n, d, t) == n.why = "" => DOMAIN m.pt \ {TrapframeVa(t), d.ustack + t} \subseteq DOMAIN n.pt

LEMMA PartsThread ==
  ASSUME NEW m, NEW R, NEW p \in Slots, NEW W \in SUBSET KernelPages(Tids), Good(m, R, p, W),
         NEW d, Stacks(d), NEW t \in Tids, NEW n, n = freethread(m, d, t)
  PROVE  Parted(m, n, d, t)
<1>1. PICK k : k = uvmunmap(m, {TrapframeVa(t)}, FALSE)
  OBVIOUS
<1>2. PICK S : S = {d.ustack + t}
  OBVIOUS
<1>3. n = uvmunmap(k, S, TRUE)
  BY <1>1, <1>2 DEF freethread
<1>4. PICK T : T = {TrapframeVa(t)} /\ High(T)
  <2>1. High({TrapframeVa(t)})
    BY Heights DEF High
  <2> QED
    BY <2>1
<1>5. Unmapped(m, k, p, R, W \ T, T)
  BY <1>1, <1>4, UnmapsKernel
<1>6. PICK X \in SUBSET KernelPages(Tids) : X = W \ T
  OBVIOUS
<1>7. \A va \in S : va \in Int /\ va < HIGH
  BY <1>2, ThreadPages
<1>8. Good(k, R, p, X)
  BY <1>5, <1>6 DEF Unmapped
<1>9. Unmapped(k, n, p, R, X, S)
  BY <1>3, <1>6, <1>7, <1>8, UnmapsUser
<1> QED
  BY <1>2, <1>4, <1>5, <1>9 DEF Parted, Unmapped, Shrunk

\* The page of a thread's stack is none that the other threads need.
LEMMA OtherPages ==
  ASSUME NEW d \in ProcType, Stacks(d), NEW t \in Tids, NEW L \in SUBSET (Tids \ {t})
  PROVE  TrapframeVa(t) \notin KernelPages(L) /\ d.ustack + t \notin KernelPages(Tids)
<1>1. d.ustack + t \in Int /\ d.ustack + t < HIGH
  BY ThreadPages
<1>2. \A va \in KernelPages(Tids) : va \in Int /\ va >= HIGH
  BY Heights DEF KernelPages
<1>3. \A u \in L : TrapframeVa(u) # TrapframeVa(t)
  <2> TAKE u \in L
  <2>1. u \in Int /\ t \in Int /\ TRAMPOLINE \in Int /\ u # t
    BY Heights, VmAssumption DEF Tids
  <2> QED
    BY <2>1 DEF TrapframeVa
<1>4. TrapframeVa(t) # TRAMPOLINE
  BY Heights
<1>5. d.ustack + t \notin KernelPages(Tids)
  BY <1>1, <1>2, Heights
<1> QED
  BY <1>3, <1>4, <1>5 DEF KernelPages

LEMMA ExitThreadRuns ==
  ASSUME VmInv, AllRun, NEW p \in Slots, NEW t \in Tids, exit_thread(p, t)
  PROVE  AllRun'
<1>1. Running(p) /\ halt = "" /\ t # 0
  BY DEF exit_thread, Running
<1>2. Caller(p)
  BY <1>1, CallerGood
<1>3. PICK d \in ProcType : d = proc[p] /\ Low(d) /\ Stacks(d) /\ Runs(d, d.pt)
  BY <1>1, <1>2, CallerRuns DEF Caller
<1>4. PICK R \in SUBSET Frames, W \in SUBSET KernelPages(Tids), m \in SpaceType :
         R = Others(free, d) /\ m = Space(p) /\ m.pt = d.pt /\ W = KernelPages(Live(d)) /\ Good(m, R, p, W)
  BY <1>2, <1>3 DEF Caller, Good, Space
<1>5. PICK n, e : n = freethread(m, d, t) /\ e = [d EXCEPT !.threads[t] = "EXITED"] /\ Put(p, e, n)
  BY <1>3, <1>4 DEF exit_thread
<1>6. Freethread(m, n, p, R, W, t) /\ Parted(m, n, d, t)
  BY <1>3, <1>4, <1>5, FreesThread, PartsThread
<1>7. Good(n, R, p, KernelPages(Live(d)) \ {TrapframeVa(t)})
  BY <1>4, <1>6 DEF Freethread
<1>8. GoneThread(d, e, n, R, p, t, "EXITED")
  BY <1>3, <1>5, <1>7, ThreadGone
<1>9. LessThread(d, e, t)
  BY <1>3, <1>5, LosesThread
<1>10. ASSUME n.why = ""
       PROVE  Runs(e, n.pt)
  <2>1. DOMAIN d.pt \ {TrapframeVa(t), d.ustack + t} \subseteq DOMAIN n.pt
    BY <1>4, <1>6, <1>10 DEF Parted
  <2>2. e.image = d.image /\ e.ustack = d.ustack /\ e.max_page = d.max_page /\ Live(e) = Live(d) \ {t}
    BY <1>9 DEF LessThread
  <2>3. d.image \in IMAGES /\ d.ustack = d.image + 2 /\ d.ustack < d.max_page /\ Needs(d) \subseteq DOMAIN d.pt
    BY <1>3 DEF Runs
  <2>4. PICK L \in SUBSET (Tids \ {t}) : L = Live(e)
    BY <2>2 DEF Live
  <2>5. TrapframeVa(t) \notin KernelPages(L) /\ d.ustack + t \notin KernelPages(Tids)
    BY <1>3, OtherPages
  <2>6. KernelPages(L) \subseteq KernelPages(Live(d)) /\ KernelPages(L) \subseteq KernelPages(Tids)
    BY <2>2, <2>4 DEF KernelPages
  <2>7. PICK u \in Nat, i \in Nat, h \in Int : u = d.ustack /\ i = d.image /\ h = HIGH /\ u + NTHREAD <= h /\ u = i + 2
    BY <1>3, <2>3, Heights DEF Stacks, ProcType
  <2>8. t \in Nat /\ t > 0 /\ t < NTHREAD /\ NTHREAD \in Nat
    <3>1. t # 0
      BY <1>1
    <3> QED
      BY <3>1, VmAssumption DEF Tids
  <2>9. TrapframeVa(t) \in Int /\ TrapframeVa(t) >= h
    BY <2>7, Heights
  <2>10. \A va \in (1 .. i) \cup {u} : va # TrapframeVa(t) /\ va # u + t
    BY <2>7, <2>8, <2>9
  <2>11. Needs(e) \subseteq Needs(d) \ {TrapframeVa(t), d.ustack + t}
    BY <2>2, <2>4, <2>5, <2>6, <2>7, <2>10 DEF Needs
  <2> QED
    BY <2>1, <2>2, <2>3, <2>11 DEF Runs
<1>11. e \in ProcType /\ n \in SpaceType
  BY <1>6, <1>8 DEF GoneThread, Freethread, Good
<1> QED
  BY <1>1, <1>5, <1>10, <1>11, PutRuns
LEMMA ReadyRuns ==
  ASSUME VmInv, AllRun, halt = "", NEW p \in Slots, NEW r, NEW R, NEW state, Ready(r, R, p, state), CanGo(r),
         Put(p, r.d, r.m)
  PROVE  AllRun'
<1>1. PICK d \in ProcType, m \in SpaceType : d = r.d /\ m = r.m
  BY DEF Ready, Good
<1>2. d.state = "USED" /\ m.why = "" => Runs(d, m.pt)
  BY <1>1 DEF CanGo
<1>3. Put(p, d, m)
  BY <1>1
<1> QED
  BY <1>2, <1>3, PutRuns
\* A change of the caller's memory alone.
LEMMA MemoryRuns ==
  ASSUME VmInv, AllRun, NEW p \in Slots, Running(p), NEW d \in ProcType, d = proc[p],
         NEW n \in SpaceType, n.why = "" => Needs(d) \subseteq DOMAIN n.pt, Put(p, d, n)
  PROVE  AllRun'
<1>1. Runs(d, d.pt)
  BY CallerRuns
<1>2. d.state = "USED" /\ n.why = "" => Runs(d, n.pt)
  BY <1>1 DEF Runs
<1>3. halt = ""
  BY DEF Running
<1> QED
  BY <1>2, <1>3, PutRuns

LEMMA MmapRuns ==
  ASSUME VmInv, AllRun, NEW p \in Slots, NEW start \in STARTS, NEW n \in 1 .. MAPLEN, sys_mmap(p, start, n)
  PROVE  AllRun'
<1>1. Running(p)
  BY DEF sys_mmap
<1>2. Caller(p)
  BY <1>1, CallerGood
<1>3. PICK d \in ProcType : d = proc[p]
  BY <1>2 DEF Caller
<1>4. PICK R \in SUBSET Frames, W \in SUBSET KernelPages(Tids), m \in SpaceType :
         R = Others(free, d) /\ m = Space(p) /\ m.pt = d.pt /\ W = KernelPages(Live(d)) /\ Good(m, R, p, W)
  BY <1>2, <1>3 DEF Caller, Good, Space
<1>5. PICK k : k = FoldLeft(MapPage, m, Each(start, n)) /\ Put(p, d, k)
  BY <1>3, <1>4 DEF sys_mmap, MapPage
<1>6. start \in Nat /\ n \in Nat /\ start + n <= HIGH
  BY VmAssumption DEF HIGH, TRAMPOLINE
<1>7. Grows(m.pt, k.pt) /\ k \in SpaceType
  BY <1>4, <1>5, <1>6, MapsPages DEF Good
<1>8. Needs(d) \subseteq DOMAIN d.pt
  BY <1>1, <1>3, CallerRuns DEF Runs
<1>9. Needs(d) \subseteq DOMAIN k.pt
  BY <1>4, <1>7, <1>8 DEF Grows
<1> QED
  BY <1>1, <1>3, <1>5, <1>7, <1>9, MemoryRuns

LEMMA MunmapRuns ==
  ASSUME KeepsProgram, VmInv, AllRun, NEW p \in Slots, NEW start \in STARTS, NEW n \in 1 .. MAPLEN,
         sys_munmap(p, start, n)
  PROVE  AllRun'
<1>1. Running(p)
  BY DEF sys_munmap
<1>2. Caller(p)
  BY <1>1, CallerGood
<1>3. PICK d \in ProcType : d = proc[p] /\ Runs(d, d.pt)
  BY <1>1, <1>2, CallerRuns DEF Caller
<1>4. PICK R \in SUBSET Frames, W \in SUBSET KernelPages(Tids), m \in SpaceType :
         R = Others(free, d) /\ m = Space(p) /\ m.pt = d.pt /\ W = KernelPages(Live(d)) /\ Good(m, R, p, W)
  BY <1>2, <1>3 DEF Caller, Good, Space
<1>5. PICK S : S = PagesFrom(start, n)
  OBVIOUS
<1>6. PICK k : k = uvmunmap(m, S, TRUE) /\ Put(p, d, k)
  BY <1>3, <1>4, <1>5 DEF sys_munmap
<1>7. start \in Nat /\ n \in Nat /\ start + n <= HIGH
  BY VmAssumption DEF HIGH, TRAMPOLINE
<1>8. \A va \in S : va \in Int /\ va < HIGH /\ va >= start
  BY <1>5, <1>7, Heights DEF PagesFrom
<1>9. Unmapped(m, k, p, R, W, S)
  BY <1>4, <1>6, <1>8, UnmapsUser
<1>10. Needs(d) \cap S = {}
  <2>1. PICK i \in Nat, u \in Nat : i = d.image /\ u = d.ustack
    BY DEF ProcType
  <2>2. u < start /\ i < start
    BY <1>3, <1>7, <2>1 DEF Runs, KeepsProgram
  <2>3. \A va \in (1 .. i) \cup {u} : va < start /\ va \in Int
    BY <1>7, <2>1, <2>2
  <2>4. \A va \in (1 .. i) \cup {u} : va \notin S
    BY <1>7, <1>8, <2>3
  <2>5. \A va \in W : va >= HIGH
    BY <1>4, Heights DEF KernelPages
  <2>6. \A va \in W : va \notin S
    BY <1>8, <2>5, Heights
  <2> QED
    BY <1>4, <2>1, <2>4, <2>6 DEF Needs
<1>11. Needs(d) \subseteq DOMAIN k.pt
  BY <1>3, <1>4, <1>9, <1>10 DEF Runs, Unmapped, Shrunk
<1>12. k \in SpaceType
  BY <1>9 DEF Unmapped, Good
<1> QED
  BY <1>1, <1>3, <1>6, <1>11, <1>12, MemoryRuns

LEMMA ExecRuns ==
  ASSUME VmInv, AllRun, NEW p \in Slots, NEW t \in Tids, NEW image \in IMAGES, exec(p, t, image)
  PROVE  AllRun'
<1>1. Running(p) /\ halt = ""
  BY DEF exec, Running
<1>2. Caller(p)
  BY <1>1, CallerGood
<1>3. PICK d \in ProcType : d = proc[p] /\ Low(d) /\ Stacks(d) /\ Runs(d, d.pt)
  BY <1>1, <1>2, CallerRuns DEF Caller
<1>4. PICK R \in SUBSET Frames, W \in SUBSET KernelPages(Tids), m \in SpaceType :
         R = Others(free, d) /\ m = Space(p) /\ m.pt = d.pt /\ W = KernelPages(Live(d)) /\ Good(m, R, p, W)
  BY <1>2, <1>3 DEF Caller, Good, Space
<1>5. PICK e : e = [d EXCEPT !.threads[t] = "UNUSED"]
  OBVIOUS
<1>6. PICK k : k = freethread(m, e, t)
  OBVIOUS
<1>7. PICK S : S = Below(e.max_page)
  OBVIOUS
<1>8. PICK n : n = uvmunmap(k, S, TRUE)
  OBVIOUS
<1>9. PICK b : b = bin_loader(n, p, e, image)
  OBVIOUS
<1>10. PICK r : r = push_argv(b) /\ Put(p, r.d, r.m)
  BY <1>3, <1>4, <1>5, <1>6, <1>7, <1>8, <1>9 DEF exec
<1>11. LessThread(d, e, t)
  BY <1>5, LosesThread
<1>12. Stacks(e) /\ e.max_page <= HIGH
  BY <1>3, <1>11 DEF LessThread, Stacks, Low
<1>13. Freethread(m, k, p, R, W, t) /\ Parted(m, k, e, t)
  BY <1>4, <1>6, <1>12, FreesThread, PartsThread
<1>14. GoneThread(d, e, k, R, p, t, "UNUSED")
  <2>1. Good(k, R, p, KernelPages(Live(d)) \ {TrapframeVa(t)})
    BY <1>4, <1>13 DEF Freethread
  <2> QED
    BY <1>3, <1>5, <2>1, ThreadGone
<1>15. PICK X \in SUBSET KernelPages(Tids) : X = KernelPages(Live(e)) /\ Good(k, R, p, X)
  BY <1>14 DEF GoneThread, KernelPages, Live
<1>16. e \in ProcType
  BY <1>14 DEF GoneThread
<1>17. \A va \in S : va \in Int /\ va < HIGH
  BY <1>7, <1>12, <1>16, Heights DEF Below, ProcType
<1>18. Unmapped(k, n, p, R, X, S)
  BY <1>8, <1>15, <1>17, UnmapsUser
<1>19. Good(n, R, p, KernelPages(Live(e))) /\ UnusedTids(e) # {}
  BY <1>14, <1>15, <1>18 DEF Unmapped, GoneThread, UnusedTids
<1>20. Holds(n, X)
  <2>1. SUFFICES ASSUME n.why = "" PROVE X \subseteq DOMAIN n.pt
    BY DEF Holds
  <2>2. k.why = "" /\ DOMAIN n.pt = DOMAIN k.pt \ S
    BY <1>18, <2>1 DEF Unmapped, Shrunk
  <2>3. DOMAIN d.pt \ {TrapframeVa(t), e.ustack + t} \subseteq DOMAIN k.pt
    BY <1>4, <1>13, <2>2 DEF Parted
  <2>4. PICK L \in SUBSET (Tids \ {t}) : L = Live(e) /\ L \subseteq Live(d)
    BY <1>11 DEF LessThread, Live
  <2>5. TrapframeVa(t) \notin X /\ e.ustack + t \notin X
    <3>1. TrapframeVa(t) \notin KernelPages(L) /\ e.ustack + t \notin KernelPages(Tids)
      BY <1>12, <1>16, OtherPages
    <3> QED
      BY <1>15, <2>4, <3>1
  <2>6. X \subseteq KernelPages(Live(d))
    BY <1>15, <2>4 DEF KernelPages
  <2>7. KernelPages(Live(d)) \subseteq DOMAIN d.pt
    BY <1>3 DEF Runs, Needs
  <2>8. \A va \in X : va >= HIGH
    BY <1>15, Heights DEF KernelPages
  <2>9. \A va \in X : va \notin S
    BY <1>17, <2>8, Heights
  <2> QED
    BY <2>2, <2>3, <2>5, <2>6, <2>7, <2>9
<1>21. CanGo(b)
  BY <1>9, <1>15, <1>16, <1>19, <1>20, LoadsRuns
<1>22. Ready(b, R, p, e.state) /\ b = [m |-> b.m, d |-> b.d]
  BY <1>9, <1>16, <1>19, Loads, LoaderRecord
<1>23. CanGo(r) /\ Ready(r, R, p, e.state)
  BY <1>10, <1>21, <1>22, ArgvRuns, PushesArgv
<1> QED
  BY <1>1, <1>10, <1>23, ReadyRuns
LEMMA TrapframeTypes ==
  ASSUME NEW p \in Slots, NEW t \in Tids
  PROVE  TrapframeVa(t) \in Int /\ TrapframeOf(p, t) \in Leafs
<1>1. PICK w \in Int : w = TrapframeVa(t) /\ w \in KernelPages(Tids) /\ w # TRAMPOLINE
  BY Heights DEF KernelPages
<1>2. TRAMPOLINE - 1 - w = t
  BY <1>1, Heights, VmAssumption DEF TrapframeVa, Tids
<1>3. KernelFrame(p, w) = TrapframeOf(p, t)
  BY <1>1, <1>2 DEF KernelFrame
<1> QED
  BY <1>1, <1>3, KernelFrames

\* allocthread does not take back a panic.
LEMMA StaysPanicked ==
  ASSUME NEW m \in SpaceType, m.why # "", NEW p \in Slots, NEW d, Stacks(d), NEW t \in Tids, NEW b \in BOOLEAN,
         NEW x, x = allocthread(m, p, d, t, b).m
  PROVE  x.why # ""
<1>1. PICK va \in Int : va = d.ustack + t
  BY ThreadPages
<1>2. PICK s : s = IF b THEN uvmmap(m, va) ELSE m
  OBVIOUS
<1>3. PICK n : n = IF s.ok THEN mappages(s, TrapframeVa(t), TrapframeOf(p, t)) ELSE Panicked(s, "map ustack fail")
  OBVIOUS
<1>4. x = IF n.ok THEN n ELSE Panicked(n, "map trapframe fail")
  BY <1>1, <1>2, <1>3 DEF allocthread
<1>5. s \in SpaceType /\ s.why = m.why
  <2>1. CASE b
    <3>1. s = TakeMapped(m, va)
      BY <1>2, <2>1 DEF uvmmap
    <3>2. Took(m, s, va, kalloc(m))
      BY <3>1, TakesPage
    <3> QED
      BY <3>2 DEF Took
  <2>2. CASE ~b
    BY <1>2, <2>2
  <2> QED
    BY <2>1, <2>2
<1>6. \A y : Panicked(s, y) = s
  BY <1>5 DEF Panicked
<1>7. n \in SpaceType /\ n.why = m.why
  <2>1. CASE s.ok
    <3>1. n = mappages(s, TrapframeVa(t), TrapframeOf(p, t))
      BY <1>3, <2>1
    <3>2. PICK w \in Int, f \in Leafs : w = TrapframeVa(t) /\ f = TrapframeOf(p, t)
      BY TrapframeTypes
    <3>3. MapsOrNot(s, n, w, f)
      BY <1>5, <3>1, <3>2, MapsPage
    <3> QED
      BY <1>5, <3>3 DEF MapsOrNot
  <2>2. CASE ~s.ok
    BY <1>3, <1>5, <1>6, <2>2
  <2> QED
    BY <2>1, <2>2
<1>8. \A y : Panicked(n, y) = n
  BY <1>7 DEF Panicked
<1> QED
  BY <1>4, <1>7, <1>8
LEMMA SpawnRuns ==
  ASSUME VmInv, AllRun, NEW p \in Slots, NEW image \in IMAGES, sys_spawn(p, image)
  PROVE  AllRun'
<1>1. halt = ""
  BY DEF sys_spawn, Running
<1>2. PICK q \in FirstSlot : \E r \in {push_argv(bin_loader(Created(q), q, NewProc(p, q), image))} : Put(q, r.d, r.m)
  BY DEF sys_spawn
<1>3. Newborn(p, q)
  BY <1>1, NewbornGood
<1>4. PICK d \in ProcType : d = NewProc(p, q) /\ d.state = "USED" /\ UnusedTids(d) # {}
  BY <1>3 DEF Newborn
<1>5. PICK R \in SUBSET Frames, m \in SpaceType :
         R = Others(free, proc[q]) /\ m = Created(q) /\ Good(m, R, q, KernelPages(Live(d)))
         /\ Holds(m, KernelPages(Live(d)))
  BY <1>3, <1>4 DEF Newborn, Good
<1>6. PICK b : b = bin_loader(m, q, d, image)
  OBVIOUS
<1>7. PICK r : r = push_argv(b) /\ Put(q, r.d, r.m)
  BY <1>2, <1>4, <1>5, <1>6
<1>8. q \in Slots
  BY <1>3 DEF Newborn
<1>9. Ready(b, R, q, d.state) /\ b = [m |-> b.m, d |-> b.d]
  BY <1>4, <1>5, <1>6, <1>8, Loads, LoaderRecord
<1>10. CanGo(b)
  BY <1>4, <1>5, <1>6, <1>8, LoadsRuns
<1>11. CanGo(r) /\ Ready(r, R, q, d.state)
  BY <1>7, <1>9, <1>10, ArgvRuns, PushesArgv
<1> QED
  BY <1>1, <1>7, <1>8, <1>11, ReadyRuns

\* fork copies what is below max_page, and with it what the parent needs.
LEMMA CopyRuns ==
  ASSUME NEW k \in SpaceType, NEW q \in Slots, NEW o \in ProcType, Low(o), Runs(o, o.pt),
         NEW c \in ProcType, Live(c) = {}, Holds(k, KernelPages(Live(c))),
         NEW m \in SpaceType, Kept(k, m, DOMAIN o.pt \cap Below(o.max_page)),
         NEW n, n = IF m.ok THEN m ELSE Panicked(m, "uvmcopy"),
         NEW d \in ProcType, Low(d), Live(d) = {},
         d.image = o.image, d.ustack = o.ustack, d.max_page = o.max_page,
         NEW r, r = allocthread(n, q, d, 0, FALSE)
  PROVE  CanGo(r)
<1>1. PICK t \in Tids, b \in BOOLEAN : t = 0 /\ b = FALSE
  BY FirstOnes
<1>2. r = allocthread(n, q, d, t, b)
  BY <1>1
<1>3. n \in SpaceType /\ (n.why = "" => m.ok /\ n = m)
  <2>1. CASE m.ok
    BY <2>1
  <2>2. CASE ~m.ok
    <3>1. PICK y \in Whys : y = "uvmcopy" /\ y # ""
      BY DEF Whys
    <3>2. n = Panicked(m, y)
      BY <2>2, <3>1
    <3> QED
      BY <3>1, <3>2, Panics
  <2> QED
    BY <2>1, <2>2
<1>4. PICK x, e : x = r.m /\ e = r.d
  OBVIOUS
<1>5. Alloced(n, x, d, t, b)
  BY <1>2, <1>3, <1>4, LowStacks, ThreadGrows
<1>6. NewThread(d, e, t) /\ Reaches(d, e, t, b)
  BY <1>2, <1>4, ThreadFields
<1>7. CASE n.why # ""
  <2>1. x.why # ""
    <3>1. Stacks(d)
      BY LowStacks
    <3> QED
      BY <1>2, <1>3, <1>4, <1>7, <3>1, StaysPanicked
  <2> QED
    BY <1>4, <2>1 DEF CanGo
<1>8. CASE n.why = ""
  <2>1. SUFFICES ASSUME x.why = "" PROVE Runs(e, x.pt)
    BY <1>4 DEF CanGo
  <2>2. k.why = "" /\ Grows(k.pt, n.pt) /\ DOMAIN o.pt \cap Below(o.max_page) \subseteq DOMAIN n.pt
    BY <1>3, <1>8 DEF Kept
  <2>3. Grows(n.pt, x.pt) /\ TrapframeVa(t) \in DOMAIN x.pt
    BY <1>5, <2>1 DEF Alloced
  <2>4. o.image \in IMAGES /\ o.ustack = o.image + 2 /\ o.ustack < o.max_page /\ Needs(o) \subseteq DOMAIN o.pt
    BY DEF Runs
  <2>5. e.image = o.image /\ e.ustack = o.ustack /\ Live(e) = {t}
    BY <1>6 DEF NewThread
  <2>6. PICK i \in Nat, u \in Nat, h \in Nat, z \in Nat :
           i = o.image /\ u = o.ustack /\ h = o.max_page /\ z = e.max_page
    BY <1>6 DEF ProcType, NewThread
  <2>7. u = i + 2 /\ u < h /\ z >= h
    BY <1>6, <2>4, <2>6 DEF Reaches
  <2>8. (1 .. i) \cup {u} \subseteq Below(h) /\ u < z
    BY <2>6, <2>7 DEF Below
  <2>9. (1 .. i) \cup {u} \subseteq DOMAIN n.pt
    BY <2>2, <2>4, <2>6, <2>8 DEF Needs
  <2>10. TRAMPOLINE \in DOMAIN n.pt
    BY <2>2 DEF Holds, KernelPages, Grows
  <2>11. KernelPages(Live(e)) = {TRAMPOLINE, TrapframeVa(t)}
    BY <2>5 DEF KernelPages
  <2>12. Needs(e) \subseteq DOMAIN x.pt
    BY <2>3, <2>5, <2>6, <2>9, <2>10, <2>11 DEF Needs, Grows
  <2> QED
    BY <2>4, <2>5, <2>6, <2>8, <2>12 DEF Runs
<1> QED
  BY <1>7, <1>8

LEMMA ForkRuns ==
  ASSUME VmInv, AllRun, NEW p \in Slots, fork(p)
  PROVE  AllRun'
<1>1. Running(p) /\ halt = ""
  BY DEF fork, Running
<1>2. CASE halt' = "allocproc" /\ UNCHANGED <<free, proc>>
  <2>1. halt' # ""
    BY <1>2
  <2> QED
    BY <2>1 DEF AllRun
<1>3. ASSUME NEW q \in FirstSlot,
             \E m \in {uvmcopy(Created(q), proc[p].pt, proc[p].max_page)} :
                LET n == IF m.ok THEN m ELSE Panicked(m, "uvmcopy")
                    d == [NewProc(p, q) EXCEPT !.max_page = proc[p].max_page, !.ustack = proc[p].ustack,
                                               !.image = proc[p].image]
                IN  \E r \in {allocthread(n, q, d, 0, FALSE)} : Put(q, r.d, r.m)
      PROVE  AllRun'
  <2>1. Newborn(p, q) /\ Caller(p)
    BY <1>1, CallerGood, NewbornGood
  <2>2. PICK o \in ProcType : o = proc[p] /\ Low(o) /\ Runs(o, o.pt)
    BY <1>1, <2>1, CallerRuns DEF Caller
  <2>3. PICK c \in ProcType : c = NewProc(p, q) /\ c.state = "USED" /\ Live(c) = {}
    BY <2>1 DEF Newborn, UnusedTids, Live
  <2>4. PICK R \in SUBSET Frames, W \in SUBSET KernelPages(Tids), k \in SpaceType :
           R = Others(free, proc[q]) /\ W = KernelPages(Live(c)) /\ k = Created(q) /\ Good(k, R, q, W)
           /\ Holds(k, KernelPages(Live(c)))
    BY <2>1, <2>3 DEF Newborn, Good, KernelPages, Live
  <2>5. PICK m : m = uvmcopy(k, o.pt, o.max_page)
    OBVIOUS
  <2>6. PICK n : n = IF m.ok THEN m ELSE Panicked(m, "uvmcopy")
    OBVIOUS
  <2>7. PICK d : d = [c EXCEPT !.max_page = o.max_page, !.ustack = o.ustack, !.image = o.image]
    OBVIOUS
  <2>8. PICK r : r = allocthread(n, q, d, 0, FALSE) /\ Put(q, r.d, r.m)
    BY <1>3, <2>2, <2>3, <2>4, <2>5, <2>6, <2>7
  <2>9. q \in Slots /\ 0 \in Tids
    BY <2>1 DEF Newborn
  <2>10. m \in SpaceType /\ Kept(k, m, DOMAIN o.pt \cap Below(o.max_page))
    <3>1. PICK h \in Nat : h = o.max_page /\ h <= HIGH
      BY <2>2 DEF Low, ProcType
    <3>2. m = uvmcopy(k, o.pt, h)
      BY <2>5, <3>1
    <3> QED
      BY <2>4, <2>9, <3>1, <3>2, CopiesSpace
  <2>11. /\ d \in ProcType /\ Low(d) /\ Live(d) = {}
         /\ d.image = o.image /\ d.ustack = o.ustack /\ d.max_page = o.max_page
    <3>1. /\ c.state \in {"UNUSED", "USED", "ZOMBIE"} /\ c.parent \in Slots \cup {-1} /\ c.pt \in PageTable
          /\ c.tab \in Tables /\ c.threads \in [Tids -> {"UNUSED", "USED", "EXITED"}]
      BY DEF ProcType
    <3>2. PICK h \in Nat, i \in Nat, j \in Nat : h = o.max_page /\ i = o.ustack /\ j = o.image
      BY DEF ProcType
    <3>3. d = [c EXCEPT !.max_page = h, !.ustack = i, !.image = j]
      BY <2>7, <3>2
    <3>4. d \in ProcType
      BY <3>1, <3>3 DEF ProcType
    <3>5. d.max_page = h /\ d.ustack = i /\ d.image = j /\ d.threads = c.threads
      BY <3>1, <3>3 DEF ProcType
    <3> QED
      BY <2>2, <2>3, <3>2, <3>4, <3>5 DEF Low, Live
  <2>12. CanGo(r)
    BY <2>2, <2>3, <2>4, <2>6, <2>8, <2>9, <2>10, <2>11, CopyRuns
  <2>13. r.d \in ProcType /\ r.m \in SpaceType
    <3>0. PICK t \in Tids, b \in BOOLEAN : t = 0 /\ b = FALSE
      BY <2>9
    <3>1. PICK x, e : x = r.m /\ e = r.d
      OBVIOUS
    <3>2. n \in SpaceType
      <4>1. PICK y \in Whys : y = "uvmcopy" /\ y # ""
        BY DEF Whys
      <4> QED
        BY <2>6, <2>10, <4>1, Panics
    <3>3. Alloced(n, x, d, t, b)
      BY <2>8, <2>9, <2>11, <3>0, <3>1, <3>2, LowStacks, ThreadGrows
    <3>4. NewThread(d, e, t)
      BY <2>8, <2>11, <3>0, <3>1, ThreadFields
    <3> QED
      BY <3>1, <3>3, <3>4 DEF Alloced, NewThread
  <2>14. PICK x \in SpaceType, e \in ProcType : x = r.m /\ e = r.d
    BY <2>13
  <2>15. e.state = "USED" /\ x.why = "" => Runs(e, x.pt)
    BY <2>12, <2>14 DEF CanGo
  <2>16. Put(q, e, x)
    BY <2>8, <2>14
  <2> QED
    BY <1>1, <2>9, <2>15, <2>16, PutRuns
<1> QED
  BY <1>2, <1>3 DEF fork
LEMMA AllRunNext ==
  ASSUME \A q \in Slots : proc'[q].state = "USED" => Runs(proc'[q], proc'[q].pt)
  PROVE  AllRun'
  BY DEF AllRun, Runs, Needs, Live
LEMMA WaittidRuns ==
  ASSUME VmInv, AllRun, NEW p \in Slots, NEW t \in Tids, sys_waittid(p, t)
  PROVE  AllRun'
<1>1. Running(p) /\ halt = "" /\ proc \in [Slots -> ProcType]
  BY DEF sys_waittid, Running, VmInv
<1>2. PICK d \in ProcType : d = proc[p] /\ Runs(d, d.pt)
  BY <1>1, CallerRuns
<1>3. PICK e : e = [d EXCEPT !.threads[t] = "UNUSED"]
  OBVIOUS
<1>4. LessThread(d, e, t)
  BY <1>3, LosesThread
<1>5. e.pt = d.pt
  BY <1>3 DEF ProcType
<1>6. proc' = [proc EXCEPT ![p] = e] /\ halt' = halt
  BY <1>2, <1>3 DEF sys_waittid
<1>7. Runs(e, e.pt)
  BY <1>2, <1>4, <1>5, RunsSame DEF LessThread
<1>8. \A q \in Slots : proc'[q].state = "USED" => Runs(proc'[q], proc'[q].pt)
  BY <1>1, <1>6, <1>7 DEF AllRun
<1> QED
  BY <1>8, AllRunNext

LEMMA ExitRuns ==
  ASSUME VmInv, AllRun, NEW p \in Slots, exit(p)
  PROVE  AllRun'
<1>1. halt = "" /\ proc \in [Slots -> ProcType]
  BY DEF exit, Running, VmInv
<1>2. proc' = [q \in Slots |->
                 IF q = p THEN [NoProc EXCEPT !.state = IF proc[p].parent = -1 THEN "UNUSED" ELSE "ZOMBIE",
                                              !.parent = proc[p].parent]
                 ELSE IF proc[q].parent = p THEN [proc[q] EXCEPT !.parent = -1]
                 ELSE proc[q]]
  BY DEF exit
<1>3. proc'[p].state # "USED"
  BY <1>2 DEF NoProc
<1>4. ASSUME NEW q \in Slots, q # p, proc'[q].state = "USED"
      PROVE  Runs(proc'[q], proc'[q].pt)
  <2>1. PICK d \in ProcType : d = proc[q]
    BY <1>1
  <2>2. PICK e : e = proc'[q]
    OBVIOUS
  <2>3. e = IF d.parent = p THEN [d EXCEPT !.parent = -1] ELSE d
    BY <1>2, <1>4, <2>1, <2>2
  <2>4. /\ e.state = d.state /\ e.pt = d.pt /\ e.image = d.image /\ e.ustack = d.ustack /\ e.max_page = d.max_page
        /\ e.threads = d.threads
    BY <2>3 DEF ProcType
  <2>5. Runs(d, d.pt)
    BY <1>1, <1>4, <2>1, <2>2, <2>4 DEF AllRun
  <2>6. Live(e) \subseteq Live(d)
    BY <2>4 DEF Live
  <2>7. Runs(e, d.pt)
    BY <2>4, <2>5, <2>6, RunsSame
  <2> QED
    BY <2>2, <2>4, <2>7
<1>5. \A q \in Slots : proc'[q].state = "USED" => Runs(proc'[q], proc'[q].pt)
  BY <1>3, <1>4
<1> QED
  BY <1>5, AllRunNext

LEMMA WaitRuns ==
  ASSUME VmInv, AllRun, NEW p \in Slots, NEW q \in Slots, wait(p, q)
  PROVE  AllRun'
<1>1. proc \in [Slots -> ProcType] /\ halt = "" /\ proc' = [proc EXCEPT ![q] = NoProc]
  BY DEF VmInv, wait, Running
<1>2. NoProc.state # "USED"
  BY DEF NoProc
<1>3. \A r \in Slots : proc'[r].state = "USED" => Runs(proc'[r], proc'[r].pt)
  BY <1>1, <1>2 DEF AllRun
<1> QED
  BY <1>3, AllRunNext

LEMMA InitRuns ==
  ASSUME Init
  PROVE  AllRun
<1>1. PICK x : x = <<>> /\ x \in PageTable /\ x \in Tables /\ FramesOf(x) = {} /\ DOMAIN x = {}
  BY PartialNone DEF PageTable, Tables
<1>2. PICK th \in [Tids -> {"UNUSED", "USED", "EXITED"}] : th = NoThread /\ \A t \in Tids : th[t] = "UNUSED"
  <2>1. NoThread \in [Tids -> {"UNUSED", "USED", "EXITED"}]
    BY DEF NoThread
  <2>2. \A t \in Tids : NoThread[t] = "UNUSED"
    BY DEF NoThread
  <2> QED
    BY <2>1, <2>2
<1>3. PICK z : z = NoProc
  OBVIOUS
<1>4. PICK d : d = [NoProc EXCEPT !.state = "USED"]
  OBVIOUS
<1>5. d \in ProcType /\ d.threads = th
  <2>1. d = [[state |-> "UNUSED", parent |-> -1, pt |-> x, tab |-> x, image |-> 0,
              max_page |-> 0, ustack |-> 0, threads |-> th] EXCEPT !.state = "USED"]
    BY <1>1, <1>2, <1>4 DEF NoProc
  <2> QED
    BY <1>1, <2>1 DEF ProcType
<1>6. UnusedTids(d) # {} /\ Live(d) = {}
  BY <1>2, <1>5, FirstOnes DEF UnusedTids, Live
<1>7. PICK a : a = [free |-> Frames, pt |-> x, tab |-> x, ok |-> TRUE, why |-> ""]
  OBVIOUS
<1>8. a \in SpaceType /\ a.free = Frames /\ a.pt = x /\ a.tab = x /\ a.why = ""
  BY <1>1, <1>7 DEF SpaceType, Whys
<1>9. PICK R \in SUBSET Frames : R = {}
  OBVIOUS
<1>10. Sound(a, R)
  BY <1>1, <1>8, <1>9 DEF Sound, Once, Whole
<1>11. 0 \in Slots
  BY FirstOnes
<1>12. PICK u : u = uvmcreate(a)
  OBVIOUS
<1>13. Good(u, R, 0, {TRAMPOLINE}) /\ Holds(u, {TRAMPOLINE})
  BY <1>1, <1>8, <1>10, <1>11, <1>12, Creates DEF Holds
<1>14. Good(u, R, 0, KernelPages(Live(d))) /\ Holds(u, KernelPages(Live(d)))
  <2>1. KernelPages(Live(d)) = {TRAMPOLINE}
    BY <1>6 DEF KernelPages
  <2> QED
    BY <1>13, <2>1
<1>15. PICK image \in IMAGES :
           \E r \in {push_argv(bin_loader(u, 0, d, image))} :
              /\ free = r.m.free /\ halt = r.m.why
              /\ proc = [p \in Slots |-> IF p = 0 THEN [r.d EXCEPT !.pt = r.m.pt, !.tab = r.m.tab] ELSE z]
  BY <1>1, <1>3, <1>4, <1>7, <1>12 DEF Init
<1>16. PICK r : /\ r = push_argv(bin_loader(u, 0, d, image))
                /\ free = r.m.free /\ halt = r.m.why
                /\ proc = [p \in Slots |-> IF p = 0 THEN [r.d EXCEPT !.pt = r.m.pt, !.tab = r.m.tab] ELSE z]
  BY <1>15
<1>17. PICK b : b = bin_loader(u, 0, d, image)
  OBVIOUS
<1>18. Ready(b, R, 0, d.state) /\ b = [m |-> b.m, d |-> b.d]
  BY <1>5, <1>6, <1>11, <1>14, <1>17, Loads, LoaderRecord
<1>19. CanGo(b)
  BY <1>5, <1>6, <1>11, <1>14, <1>17, LoadsRuns
<1>20. r = push_argv(b)
  BY <1>16, <1>17
<1>21. CanGo(r) /\ Ready(r, R, 0, d.state)
  BY <1>18, <1>19, <1>20, ArgvRuns, PushesArgv
<1>22. PICK c \in ProcType, m \in SpaceType : c = r.d /\ m = r.m
  BY <1>21 DEF Ready, Good
<1>23. PICK e : e = [c EXCEPT !.pt = m.pt, !.tab = m.tab]
  OBVIOUS
<1>24. /\ e.pt = m.pt /\ e.image = c.image /\ e.max_page = c.max_page /\ e.ustack = c.ustack
       /\ e.threads = c.threads
  BY <1>23 DEF ProcType
<1>25. proc = [p \in Slots |-> IF p = 0 THEN e ELSE z] /\ halt = m.why
  BY <1>16, <1>22, <1>23
<1>26. ASSUME m.why = ""
       PROVE  Runs(e, e.pt)
  <2>1. Runs(c, m.pt)
    BY <1>21, <1>22, <1>26 DEF CanGo
  <2>2. Live(e) \subseteq Live(c)
    BY <1>24 DEF Live
  <2> QED
    BY <1>24, <2>1, <2>2, RunsSame
<1>27. z.state # "USED"
  <2>1. NoProc.state # "USED"
    BY DEF NoProc
  <2> QED
    BY <1>3, <2>1
<1> QED
  BY <1>25, <1>26, <1>27 DEF AllRun

LEMMA RunStep ==
  ASSUME KeepsProgram, VmInv, AllRun, [Next]_vmVars
  PROVE  AllRun'
<1>1. CASE Next
  BY <1>1, CreateRuns, MmapRuns, MunmapRuns, ExitThreadRuns, WaittidRuns, ForkRuns, SpawnRuns, ExitRuns, WaitRuns,
     ExecRuns DEF Next
<1>2. CASE UNCHANGED vmVars
  BY <1>2 DEF vmVars, AllRun, Runs, Needs, Live
<1> QED
  BY <1>1, <1>2

LEMMA RunCan ==
  ASSUME VmInv, AllRun
  PROVE  CanRun
<1>1. SUFFICES ASSUME halt = "", NEW p \in Used
      PROVE  /\ proc[p].pt[TRAMPOLINE] = TrampolineFrame
             /\ \A va \in (1 .. proc[p].image) \cup {proc[p].ustack} : va \in DOMAIN proc[p].pt
             /\ \A t \in Live(proc[p]) : /\ TrapframeVa(t) \in DOMAIN proc[p].pt
                                         /\ proc[p].pt[TrapframeVa(t)] = TrapframeOf(p, t)
  BY DEF CanRun
<1>2. p \in Slots /\ proc[p].state = "USED" /\ AllFit(proc) /\ proc[p] \in ProcType
  BY <1>1 DEF Used, VmInv
<1>3. PICK d \in ProcType : d = proc[p] /\ KernelAt(d.pt, p, KernelPages(Live(d))) /\ Runs(d, d.pt)
  BY <1>1, <1>2 DEF AllFit, Fits, AllRun
<1>4. Needs(d) \subseteq DOMAIN d.pt
  BY <1>3 DEF Runs
<1>5. \A va \in KernelPages(Live(d)) : va \in DOMAIN d.pt /\ d.pt[va] = KernelFrame(p, va)
  <2> TAKE va \in KernelPages(Live(d))
  <2>1. va >= HIGH
    BY Heights DEF KernelPages, Live
  <2> QED
    BY <1>3, <1>4, <2>1 DEF KernelAt, Needs
<1>6. d.pt[TRAMPOLINE] = TrampolineFrame
  BY <1>5 DEF KernelPages, KernelFrame
<1>7. ASSUME NEW t \in Live(d)
      PROVE  TrapframeVa(t) \in DOMAIN d.pt /\ d.pt[TrapframeVa(t)] = TrapframeOf(p, t)
  <2>1. t \in Tids /\ TrapframeVa(t) \in KernelPages(Live(d))
    BY DEF Live, KernelPages
  <2>2. TRAMPOLINE - 1 - TrapframeVa(t) = t /\ TrapframeVa(t) # TRAMPOLINE
    BY <2>1, Heights, VmAssumption DEF TrapframeVa, Tids
  <2> QED
    BY <1>5, <2>1, <2>2 DEF KernelFrame
<1> QED
  BY <1>3, <1>4, <1>6, <1>7 DEF Needs

(***************************************************************************)
(* Copies: addresses and pages, and the loop of copyin and copyout.         *)
(***************************************************************************)
LEMMA DivMod ==
  ASSUME NEW P \in Nat, P # 0, NEW v \in Nat
  PROVE  /\ v \div P \in Nat /\ v % P \in Nat /\ v % P < P
         /\ v = (v \div P) * P + (v % P)
  OBVIOUS

LEMMA TimesMore ==
  ASSUME NEW P \in Nat, NEW a \in Nat, NEW b \in Nat, a < b
  PROVE  a * P + P <= b * P
<1>1. PICK k \in Nat : b = a + 1 + k
  <2>1. b - a - 1 \in Nat /\ b = a + 1 + (b - a - 1)
    OBVIOUS
  <2> QED
    BY <2>1
<1>2. k * P \in Nat /\ a * P \in Nat
  OBVIOUS
<1>3. b * P = a * P + P + k * P
  BY <1>1
<1> QED
  BY <1>2, <1>3

LEMMA DivUnique ==
  ASSUME NEW P \in Nat, P # 0, NEW a \in Nat, NEW b \in Nat, NEW c \in Nat, NEW d \in Nat,
         c < P, d < P, a * P + c = b * P + d
  PROVE  a = b /\ c = d
<1>1. a * P \in Nat /\ b * P \in Nat
  OBVIOUS
<1>2. ~(a < b)
  BY <1>1, TimesMore
<1>3. ~(b < a)
  BY <1>1, TimesMore
<1>4. a = b
  BY <1>2, <1>3
<1> QED
  BY <1>1, <1>4

\* Within a page.
LEMMA SamePage ==
  ASSUME NEW P \in Nat, P # 0, NEW v \in Nat, NEW j \in Nat, (v % P) + j < P
  PROVE  (v + j) \div P = v \div P /\ (v + j) % P = (v % P) + j
<1>1. PICK a \in Nat, b \in Nat : a = v \div P /\ b = v % P /\ v = a * P + b
  BY DivMod
<1>2. PICK c \in Nat, d \in Nat : c = (v + j) \div P /\ d = (v + j) % P /\ d < P /\ v + j = c * P + d
  BY DivMod
<1>3. a * P \in Nat /\ c * P \in Nat
  OBVIOUS
<1>4. c * P + d = a * P + (b + j)
  BY <1>1, <1>2, <1>3
<1>5. c = a /\ d = b + j
  BY <1>1, <1>2, <1>4, DivUnique
<1> QED
  BY <1>1, <1>2, <1>5

\* The first address after the page.
LEMMA NextPage ==
  ASSUME NEW P \in Nat, P # 0, NEW v \in Nat
  PROVE  (v \div P + 1) * P \in Nat /\ (v \div P + 1) * P = v + (P - (v % P))
<1>1. PICK a \in Nat, b \in Nat : a = v \div P /\ b = v % P /\ v = a * P + b /\ b < P
  BY DivMod
<1>2. (a + 1) * P = a * P + P /\ a * P \in Nat
  OBVIOUS
<1> QED
  BY <1>1, <1>2
Phys(pt, v) == walkaddr(pt, v \div PGSIZE) * PGSIZE + (v % PGSIZE)
CopyType == [ok : BOOLEAN, va : Nat, len : Nat, bytes : Seq(Int)]

\* The loop has copied the first of len bytes from va on, and goes on where it stopped
\* or has found a page that is not the program's.
Copying(c, pt, va, len) ==
    /\ Len(c.bytes) + c.len = len
    /\ c.ok /\ c.len # 0 => c.va = va + Len(c.bytes)
    /\ \A i \in 1 .. Len(c.bytes) : c.bytes[i] = Phys(pt, va + i - 1)
    /\ ~c.ok => c.len # 0 /\ walkaddr(pt, (va + Len(c.bytes)) \div PGSIZE) = NULL
\* A turn ends the copy or makes it shorter.
Shorter(c, n) == n.ok => n.len = 0 \/ (c.ok /\ n.len < c.len)

LEMMA WalkInt ==
  ASSUME NEW pt \in PageTable, NEW va
  PROVE  walkaddr(pt, va) \in Int
<1>1. DOMAIN pt \in SUBSET Int /\ pt \in [DOMAIN pt -> Leafs]
  BY PartialIs DEF PageTable
<1> QED
  BY <1>1, Heights DEF walkaddr, NULL

LEMMA Longer ==
  ASSUME NEW a \in Seq(Int), NEW b \in Seq(Int)
  PROVE  a \o b \in Seq(Int) /\ Len(a \o b) = Len(a) + Len(b)
  OBVIOUS

LEMMA CopiesOnePage ==
  ASSUME NEW pt \in PageTable, NEW va \in Nat, NEW len \in Nat, NEW c \in CopyType, Copying(c, pt, va, len),
         NEW n, n = CopyPage(pt, c)
  PROVE  n \in CopyType /\ Copying(n, pt, va, len) /\ Shorter(c, n)
<1>1. c.ok \in BOOLEAN /\ c.va \in Nat /\ c.len \in Nat /\ c.bytes \in Seq(Int)
  BY DEF CopyType
<1>2. CASE c.len = 0 \/ ~c.ok
  BY <1>1, <1>2 DEF CopyPage, Shorter
<1>3. CASE c.len # 0 /\ c.ok /\ walkaddr(pt, c.va \div PGSIZE) = NULL
  <2>1. n = [c EXCEPT !.ok = FALSE]
    BY <1>3 DEF CopyPage
  <2>2. n \in CopyType /\ ~n.ok /\ n.va = c.va /\ n.len = c.len /\ n.bytes = c.bytes
    BY <1>1, <2>1 DEF CopyType
  <2>3. c.va = va + Len(c.bytes)
    BY <1>3 DEF Copying
  <2> QED
    BY <1>3, <2>2, <2>3 DEF Copying, Shorter
<1>4. CASE c.len # 0 /\ c.ok /\ walkaddr(pt, c.va \div PGSIZE) # NULL
  <2>1. PICK v \in Nat, l \in Nat, b \in Seq(Int), k \in Nat :
           v = c.va /\ l = c.len /\ b = c.bytes /\ k = Len(c.bytes)
    BY <1>1
  <2>2. PICK r : r = Rest(v, l)
    OBVIOUS
  <2>3. PGSIZE \in Nat /\ PGSIZE # 0
    BY VmAssumption
  <2>4. v % PGSIZE \in Nat /\ v % PGSIZE < PGSIZE
    BY <2>3, DivMod
  <2>5. r \in Nat /\ r # 0 /\ r <= l /\ r <= PGSIZE - (v % PGSIZE) /\ (l - r # 0 => r = PGSIZE - (v % PGSIZE))
    BY <1>4, <2>1, <2>2, <2>3, <2>4 DEF Rest
  <2>6. PICK w \in Int : w = walkaddr(pt, v \div PGSIZE)
    BY WalkInt
  <2>7. PICK s : s = [i \in 1 .. r |-> w * PGSIZE + (v % PGSIZE) + i - 1]
    OBVIOUS
  <2>8. PICK u \in Nat : u = (v \div PGSIZE + 1) * PGSIZE /\ u = v + (PGSIZE - (v % PGSIZE))
    BY <2>3, NextPage
  <2>9. n = [ok |-> TRUE, va |-> u, len |-> l - r, bytes |-> b \o s]
    BY <1>4, <2>1, <2>2, <2>6, <2>7, <2>8 DEF CopyPage
  <2>10. s \in Seq(Int) /\ Len(s) = r
    <3>1. \A i \in 1 .. r : w * PGSIZE + (v % PGSIZE) + i - 1 \in Int
      <4>1. w * PGSIZE \in Int
        BY <2>3
      <4> QED
        BY <2>4, <2>5, <4>1
    <3> QED
      BY <2>5, <2>7, <3>1
  <2>11. b \o s \in Seq(Int) /\ Len(b \o s) = k + r
    <3>1. Len(b) = k
      BY <2>1
    <3> QED
      BY <2>10, <3>1, Longer
  <2>12. l - r \in Nat
    BY <2>5
  <2>13. PICK m \in Nat, x \in Seq(Int) : m = l - r /\ x = b \o s
    BY <2>11, <2>12
  <2>14. n \in CopyType /\ n.ok /\ n.va = u /\ n.len = m /\ n.bytes = x
    BY <2>9, <2>13 DEF CopyType
  <2>15. k + l = len /\ v = va + k /\ \A i \in 1 .. k : b[i] = Phys(pt, va + i - 1)
    BY <1>4, <2>1 DEF Copying
  <2>16. \A i \in 1 .. k + r : x[i] = Phys(pt, va + i - 1)
    <3> TAKE i \in 1 .. k + r
    <3>1. CASE i <= k
      BY <2>1, <2>10, <2>13, <2>15, <3>1
    <3>2. CASE i > k
      <4>1. PICK j \in Nat : j = i - k - 1 /\ j < r /\ j + 1 \in 1 .. r
        BY <2>5, <3>2
      <4>2. (v % PGSIZE) + j < PGSIZE
        BY <2>3, <2>4, <2>5, <4>1
      <4>3. (v + j) \div PGSIZE = v \div PGSIZE /\ (v + j) % PGSIZE = (v % PGSIZE) + j
        BY <2>3, <4>2, SamePage
      <4>4. x[i] = s[j + 1]
        BY <2>1, <2>10, <2>13, <3>2, <4>1
      <4>5. s[j + 1] = w * PGSIZE + (v % PGSIZE) + (j + 1) - 1
        BY <2>7, <4>1
      <4>6. Phys(pt, v + j) = w * PGSIZE + ((v % PGSIZE) + j)
        BY <2>6, <4>3 DEF Phys
      <4>7. v + j = va + i - 1
        BY <2>15, <4>1
      <4>8. PICK y \in Int : y = w * PGSIZE
        BY <2>3
      <4>9. y + (v % PGSIZE) + (j + 1) - 1 = y + ((v % PGSIZE) + j)
        BY <2>4
      <4> QED
        BY <4>4, <4>5, <4>6, <4>7, <4>8, <4>9
    <3> QED
      BY <2>1, <2>5, <3>1, <3>2
  <2>17. Len(x) + m = len /\ (m # 0 => u = va + Len(x))
    <3>1. Len(x) = k + r /\ m = l - r
      BY <2>11, <2>13
    <3>2. k + l = len /\ v = va + k
      BY <2>15
    <3>3. PICK o \in Nat : o = v % PGSIZE /\ o < PGSIZE
      BY <2>4
    <3>4. u = v + (PGSIZE - o) /\ r <= l /\ (l - r # 0 => r = PGSIZE - o)
      BY <2>5, <2>8, <3>3
    <3>5. r \in Nat
      BY <2>5
    <3> QED
      BY <2>3, <3>1, <3>2, <3>4, <3>5
  <2>18. Copying(n, pt, va, len)
    BY <2>11, <2>13, <2>14, <2>16, <2>17 DEF Copying
  <2>19. Shorter(c, n)
    BY <1>4, <2>1, <2>5, <2>13, <2>14 DEF Shorter
  <2> QED
    BY <2>14, <2>18, <2>19
<1> QED
  BY <1>2, <1>3, <1>4

LEMMA CopiesBytes ==
  ASSUME NEW pt \in PageTable, NEW va \in Nat, NEW len \in Nat, NEW n, n = copy(pt, va, len)
  PROVE  n \in CopyType /\ Copying(n, pt, va, len) /\ (n.ok => n.len = 0)
<1> DEFINE seq == Each(1, len)
           T == 1 .. len
           base == [ok |-> TRUE, va |-> va, len |-> len, bytes |-> <<>>]
           C == CHOOSE it : it = [s \in SUBSET T |->
                  IF s = {} THEN base ELSE LET x == Max(s) IN CopyPage(pt, it[s \ {x}])]
           V == {x \in CopyType : Copying(x, pt, va, len)}
<1>1. DOMAIN seq = T
  BY DEF Each
<1>2. n = C[T]
  BY <1>1 DEF copy, FoldLeft, MapThenFoldSet
<1> HIDE DEF seq
<1>3. PICK step : step = [z \in T \X V |-> CopyPage(pt, z[2])]
  OBVIOUS
<1>4. \A k \in T, v \in V : step[<<k, v>>] = CopyPage(pt, v)
  BY <1>3
<1>5. base \in V /\ base.len = len
  <2>1. base \in CopyType /\ base.ok /\ base.va = va /\ base.len = len /\ base.bytes = <<>>
    BY DEF CopyType
  <2>2. Len(<<>>) = 0 /\ 1 .. 0 = {}
    OBVIOUS
  <2>3. Copying(base, pt, va, len)
    BY <2>1, <2>2 DEF Copying
  <2> QED
    BY <2>1, <2>3
<1> HIDE DEF base
<1>6. step \in [T \X V -> V]
  <2>1. \A v \in V, k \in T : CopyPage(pt, v) \in V
    BY CopiesOnePage
  <2> QED
    BY <1>3, <2>1
<1> HIDE DEF V
<1>7. PICK g : LastFold(g, V, base, step, len)
  BY <1>5, <1>6, FoldLast
<1>8. /\ g = [s \in SUBSET T |-> IF s = {} THEN base ELSE step[<<Max(s), g[s \ {Max(s)}]>>]]
      /\ \A s \in SUBSET T : g[s] \in V
  BY <1>7 DEF LastFold
<1>9. \A s \in SUBSET T : s # {} => Max(s) \in T /\ g[s] = CopyPage(pt, g[s \ {Max(s)}])
  <2> TAKE s \in SUBSET T
  <2> HAVE s # {}
  <2>1. Max(s) \in s
    BY MaxIn
  <2>2. Max(s) \in T /\ g[s \ {Max(s)}] \in V
    BY <1>8, <2>1
  <2> QED
    BY <1>4, <1>8, <2>2
<1>10. g = [s \in SUBSET T |-> IF s = {} THEN base ELSE LET x == Max(s) IN CopyPage(pt, g[s \ {x}])]
  <2>1. g = [s \in SUBSET T |-> g[s]] /\ g[{}] = base
    BY <1>8
  <2> QED
    BY <1>9, <2>1
<1>11. C = [s \in SUBSET T |-> IF s = {} THEN base ELSE LET x == Max(s) IN CopyPage(pt, C[s \ {x}])]
  BY <1>10, Zenon
<1> HIDE DEF C
<1>12. C[T] = g[T]
  <2>1. C[{}] = g[{}]
    BY <1>8, <1>11
  <2>2. \A s \in SUBSET T : s # {} /\ C[s \ {Max(s)}] = g[s \ {Max(s)}] => C[s] = g[s]
    BY <1>9, <1>11
  <2> QED
    BY <2>1, <2>2, FoldSame
<1>13. n \in V
  BY <1>2, <1>8, <1>12
<1>14. n.ok => n.len = 0
  <2> DEFINE Left(k, v) == v.ok => v.len = 0 \/ v.len + k <= len
             P == {z \in Nat \X V : Left(z[1], z[2])}
  <2>1. <<0, base>> \in P
    BY <1>5
  <2>2. ASSUME NEW k \in T, NEW v \in V, <<k - 1, v>> \in P
        PROVE  <<k, step[<<k, v>>]>> \in P
    <3>1. PICK u : u = CopyPage(pt, v) /\ u = step[<<k, v>>]
      BY <1>4
    <3>2. v \in CopyType /\ Copying(v, pt, va, len)
      BY DEF V
    <3>3. u \in CopyType /\ Shorter(v, u)
      BY <3>1, <3>2, CopiesOnePage
    <3>4. Left(k - 1, v)
      BY <2>2
    <3>5. Left(k, u)
      <4>1. SUFFICES ASSUME u.ok, u.len # 0 PROVE u.len + k <= len
        OBVIOUS
      <4>2. v.ok /\ u.len < v.len
        BY <3>3, <4>1 DEF Shorter
      <4>3. PICK a \in Nat, b \in Nat : a = u.len /\ b = v.len
        BY <3>2, <3>3 DEF CopyType
      <4>4. b # 0 /\ a < b
        BY <4>2, <4>3
      <4>5. b + (k - 1) <= len
        BY <3>4, <4>2, <4>3, <4>4
      <4> QED
        BY <4>3, <4>4, <4>5
    <3>6. u \in V /\ k \in Nat
      BY <1>6, <3>1
    <3> QED
      BY <3>1, <3>5, <3>6
  <2> HIDE DEF P
  <2>3. <<len, g[T]>> \in P
    BY <1>7, <2>1, <2>2, FoldHolds
  <2>4. Left(len, n)
    BY <1>2, <1>12, <2>3 DEF P
  <2>5. n \in CopyType
    BY <1>13 DEF V
  <2>6. n.len \in Nat
    BY <2>5 DEF CopyType
  <2> QED
    BY <2>4, <2>6
<1> QED
  BY <1>13, <1>14 DEF V

LEMMA CopiesExactly ==
  ASSUME VmInv
  PROVE  CopyExact
<1>1. SUFFICES ASSUME halt = "", NEW p \in Used, NEW va \in 0 .. (FAR + MAPLEN) * PGSIZE,
                      NEW c, c = copy(proc[p].pt, va, 2 * PGSIZE + 1)
               PROVE  /\ \A i \in 1 .. Len(c.bytes) :
                            c.bytes[i] = walkaddr(proc[p].pt, (va + i - 1) \div PGSIZE) * PGSIZE + ((va + i - 1) % PGSIZE)
                      /\ c.ok <=> Len(c.bytes) = 2 * PGSIZE + 1
                      /\ ~c.ok => walkaddr(proc[p].pt, (va + Len(c.bytes)) \div PGSIZE) = NULL
  BY DEF CopyExact
<1>2. PICK pt \in PageTable : pt = proc[p].pt
  BY DEF Used, VmInv, ProcType
<1>3. PICK len \in Nat : len = 2 * PGSIZE + 1
  BY VmAssumption
<1>4. va \in Nat
  <2>1. (FAR + MAPLEN) * PGSIZE \in Int
    BY VmAssumption
  <2> QED
    BY <2>1
<1>5. c \in CopyType /\ Copying(c, pt, va, len) /\ (c.ok => c.len = 0)
  BY <1>1, <1>2, <1>3, <1>4, CopiesBytes
<1>6. c.len \in Nat /\ c.bytes \in Seq(Int) /\ c.ok \in BOOLEAN
  BY <1>5 DEF CopyType
<1>7. c.ok <=> Len(c.bytes) = len
  <2>1. Len(c.bytes) + c.len = len /\ Len(c.bytes) \in Nat /\ (~c.ok => c.len # 0)
    BY <1>5, <1>6 DEF Copying
  <2> QED
    BY <1>5, <1>6, <2>1
<1> QED
  BY <1>2, <1>3, <1>5, <1>7 DEF Copying, Phys

\* copyin and copyout are exact, whatever programs map and unmap.
THEOREM CopyTheorem == Spec => []CopyExact
<1>1. Init => VmInv
  BY VmInit
<1>2. VmInv /\ [Next]_vmVars => VmInv'
  BY VmStep
<1>3. VmInv => CopyExact
  BY CopiesExactly
<1> QED
  BY <1>1, <1>2, <1>3, PTL DEF Spec

LEMMA SpacesAreWhole ==
  ASSUME VmInv, AllRun
  PROVE  SpacesWhole
  BY RunCan, CopiesExactly DEF SpacesWhole

\* SpacesWhole, for any number of processes, threads and frames and any size of a page:
\* a process can run after fork, exec and spawn and while its threads come and go, and
\* copyin and copyout reach byte for byte what it sees, as long as programs map and
\* unmap memory above their image and the stack of their first thread.
THEOREM SpacesTheorem ==
  ASSUME KeepsProgram
  PROVE  Spec => []SpacesWhole
<1>1. Init => VmInv /\ AllRun
  BY VmInit, InitRuns
<1>2. VmInv /\ AllRun /\ [Next]_vmVars => VmInv' /\ AllRun'
  BY VmStep, RunStep
<1>3. VmInv /\ AllRun => SpacesWhole
  BY SpacesAreWhole
<1> QED
  BY <1>1, <1>2, <1>3, PTL DEF Spec
=============================================================================
