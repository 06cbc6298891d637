--------------------------- MODULE MCTensorBytes ---------------------------
(* Shapes of up to three dimensions, and an int that they overflow. *)
EXTENDS TensorBytes

SmallDims == {-1, 0, 1, 6}
=============================================================================
