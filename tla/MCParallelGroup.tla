--------------------------- MODULE MCParallelGroup ---------------------------
(* Instances of ParallelGroup for TLC. *)
EXTENDS ParallelGroup
=============================================================================
