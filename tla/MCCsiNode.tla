------------------------------ MODULE MCCsiNode ------------------------------
(***************************************************************************)
(* Small instances of CsiNode.  Volumes are interchangeable: no action and *)
(* no property prefers one of them.                                        *)
(***************************************************************************)
EXTENDS CsiNode, TLC

Symmetry == Permutations(Volumes)
=============================================================================
