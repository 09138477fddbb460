------------------------------- MODULE MCTcp --------------------------------
(***************************************************************************)
(* Instances of Tcp for TLC.                                               *)
(***************************************************************************)
EXTENDS TcpProps

CONSTANT MAX_TRAFFIC   \* bound on the bytes of both directions of one connection

\* The third byte sent on the first connection passes the end of the sequence space.
TwoNumbers == <<4, 1>>

\* States past the bound are checked, and not continued.
FewBytes == \A i \in Ids : hist[i].asked + Len(Received(i)) <= MAX_TRAFFIC
=============================================================================
