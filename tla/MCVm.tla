-------------------------------- MODULE MCVm --------------------------------
(* Memory management for TLC. *)
EXTENDS VmProps

\* The programs of the run keep their own pages.
ASSUME MCVmKeeps == KeepsProgram

=============================================================================
