------------------------------- MODULE MCNet --------------------------------
(***************************************************************************)
(* Instances of Net for TLC.                                               *)
(***************************************************************************)
EXTENDS NetProps
=============================================================================
