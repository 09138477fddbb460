-------------------------------- MODULE MCFs --------------------------------
(***************************************************************************)
(* Instances of Fs for TLC.                                                *)
(***************************************************************************)
EXTENDS FsProps

\* Names are only compared with each other.
Symmetry == Permutations(NAMES)
=============================================================================
