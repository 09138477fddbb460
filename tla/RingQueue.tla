----------------------------- MODULE RingQueue ------------------------------
(***************************************************************************)
(* The ring behind every kernel queue (os/queue.c): the scheduler's task   *)
(* queue and the wait queues of mutexes, semaphores and condition          *)
(* variables.  fetch_task (os/proc.c) also takes an element out of the     *)
(* middle of the task queue; take models that part of it.                  *)
(***************************************************************************)
EXTENDS Integers, Sequences

CONSTANTS SIZE,     \* slots of the ring
          VALUES    \* task ids

ASSUME SizeAssumption == SIZE \in Nat \ {0}
ASSUME ValuesAssumption == VALUES \subseteq Nat

VARIABLES data, front, tail, empty, out, overflow

ringVars == <<data, front, tail, empty, out, overflow>>

Slots == 0 .. SIZE - 1

\* init_queue; the slots hold whatever was there.
RingInit ==
    /\ data \in [Slots -> {0}]
    /\ front = 0 /\ tail = 0
    /\ empty = TRUE
    /\ out = -1
    /\ overflow = FALSE

\* The slot after i.
Succ(i) == (i + 1) % SIZE

\* The ring is full: front has been caught up by tail.
RingFull_never(f, t) == FALSE                           \* mutant: no guard
RingFull(f, t) == ~empty /\ f = t

push_queue(v) ==
    /\ IF RingFull(front, tail)
       THEN /\ overflow' = TRUE
            /\ UNCHANGED <<data, tail, empty>>
       ELSE /\ empty' = FALSE
            /\ data' = [data EXCEPT ![tail] = v]
            /\ tail' = Succ(tail)
            /\ UNCHANGED overflow
    /\ UNCHANGED <<front, out>>

pop_queue ==
    /\ IF empty
       THEN out' = -1 /\ UNCHANGED <<front, empty>>
       ELSE /\ out' = data[front]
            /\ front' = Succ(front)
            /\ empty' = (Succ(front) = tail)
    /\ UNCHANGED <<data, tail, overflow>>

\* How many entries fetch_task looks at.  A full ring has front = tail, which
\* the code reads as no entry at all.
ScanCount ==
    IF empty THEN 0
    ELSE IF front <= tail THEN tail - front ELSE SIZE - front + tail

\* fetch_task removes the k-th entry it scanned (k from 0): the entries behind
\* it move forward by one and tail moves back.
take(k) ==
    LET idx == (front + k) % SIZE
        last == (tail - 1 + SIZE) % SIZE
        behind(i) == (i - idx + SIZE) % SIZE    \* distance of slot i from idx
    IN /\ out' = data[idx]
       /\ data' = [i \in Slots |->
                     IF behind(i) < behind(last) THEN data[Succ(i)] ELSE data[i]]
       /\ tail' = last
       /\ empty' = (front = last)
       /\ UNCHANGED <<front, overflow>>

RingNext ==
    /\ ~overflow
    /\ \/ \E v \in VALUES : push_queue(v)
       \/ pop_queue
       \/ \E k \in 0 .. ScanCount - 1 : take(k)

RingSpec == RingInit /\ [][RingNext]_ringVars

-----------------------------------------------------------------------------
\* The fields of struct queue keep their ranges.
RingType ==
    /\ data \in [Slots -> Nat]
    /\ front \in Slots /\ tail \in Slots
    /\ empty \in BOOLEAN
    /\ out \in Nat \cup {-1}
    /\ overflow \in BOOLEAN

\* An empty ring has front = tail (the converse is a full ring).
Shape == RingType /\ (empty => front = tail)

\* The number of entries, and the sequence they form.
Count == IF empty THEN 0 ELSE IF front < tail THEN tail - front ELSE SIZE - front + tail
Contents == [i \in 1 .. Count |-> data[(front + i - 1) % SIZE]]

Abstract == INSTANCE TaskQueue WITH queue <- Contents, panicked <- overflow

\* The ring implements the bounded queue, across every wrap-around and also
\* when an entry is taken from the middle.
RefinesQueue == Abstract!Spec
=============================================================================
