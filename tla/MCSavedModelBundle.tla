------------------------- MODULE MCSavedModelBundle -------------------------
(* One bundle and the tensors it runs on, shared by two threads. *)
EXTENDS CellRefinement, TLC

(***************************************************************************)
(* The elements of each of these sets are interchangeable, in TensorCells  *)
(* too; its specification has no fairness, so that TLC checks it step by   *)
(* step and symmetry is sound.                                             *)
(***************************************************************************)
Symmetry == Permutations(Threads) \cup Permutations(Tensors)
              \cup Permutations(Addrs) \cup Permutations(Bufs)
              \cup Permutations(Values)
=============================================================================
