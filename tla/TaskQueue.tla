----------------------------- MODULE TaskQueue ------------------------------
(***************************************************************************)
(* What a kernel queue promises: a bounded sequence from which values are  *)
(* taken at the head, or (by the scheduler) at any position, the others    *)
(* keeping their order.                                                    *)
(***************************************************************************)
EXTENDS Integers, Sequences

CONSTANTS SIZE, VALUES
VARIABLES queue, out, panicked

vars == <<queue, out, panicked>>

\* q without its i-th element.
Without(q, i) == [j \in 1 .. Len(q) - 1 |-> IF j < i THEN q[j] ELSE q[j + 1]]

Init == queue = <<>> /\ out = -1 /\ panicked = FALSE

Push(v) ==
    /\ IF Len(queue) = SIZE
       THEN panicked' = TRUE /\ UNCHANGED queue
       ELSE queue' = Append(queue, v) /\ UNCHANGED panicked
    /\ UNCHANGED out

Pop ==
    /\ IF queue = <<>>
       THEN out' = -1 /\ UNCHANGED queue
       ELSE out' = Head(queue) /\ queue' = Tail(queue)
    /\ UNCHANGED panicked

Take(i) ==
    /\ out' = queue[i]
    /\ queue' = Without(queue, i)
    /\ UNCHANGED panicked

Next ==
    /\ ~panicked
    /\ \/ \E v \in VALUES : Push(v)
       \/ Pop
       \/ \E i \in 1 .. Len(queue) : Take(i)

Spec == Init /\ [][Next]_vars
=============================================================================
