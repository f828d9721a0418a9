-------------------------- MODULE MCNodesController --------------------------
(***************************************************************************)
(* Small instances of NodesController.  Nodes are interchangeable: no      *)
(* action and no property prefers one of them.                             *)
(***************************************************************************)
EXTENDS NodesController, TLC

Symmetry == Permutations(Nodes)
=============================================================================
