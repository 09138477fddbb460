------------------------------- MODULE MCSmall ------------------------------
(***************************************************************************)
(* Two small components that share nothing, side by side: the ring behind   *)
(* the kernel's queues and the AI client.                                   *)
(***************************************************************************)
EXTENDS RingQueue, Chat

SmallInit == RingInit /\ ChatInit
SmallNext == (RingNext /\ UNCHANGED chat) \/ (ChatNext /\ UNCHANGED ringVars)
SmallSpec == SmallInit /\ [][SmallNext]_<<ringVars, chat>>
=============================================================================
