------------------------------ MODULE MCCellCV ------------------------------
(* Instances of CellCV for TLC.                                            *)
EXTENDS CellCV, TLC
=============================================================================
