------------------------------- MODULE MCNpc -------------------------------
(* The NPC world for TLC: a small number of NPCs with short lives and short *)
(* messages; a longer message only fills the same buffers sooner.           *)
EXTENDS NpcProps
=============================================================================
