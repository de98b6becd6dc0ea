------------------------------ MODULE MCBuffer ------------------------------
(* Instances of Buffer for TLC: one io thread, two managers, one sender    *)
(* and three slots, given values in the cfg files.                         *)
EXTENDS Buffer
=============================================================================
