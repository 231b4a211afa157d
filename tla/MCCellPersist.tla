---------------------------- MODULE MCCellPersist ----------------------------
(* Instances of CellPersist for TLC.                                        *)
EXTENDS CellPersist

CONSTANTS l1, l2
=============================================================================
