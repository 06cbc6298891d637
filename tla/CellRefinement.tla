--------------------------- MODULE CellRefinement ---------------------------
(***************************************************************************)
(* The library implements TensorCells for clients that keep to the rules   *)
(* (Breakable = {}) and graphs that forward no input.                      *)
(***************************************************************************)
EXTENDS SavedModelBundle

(* What a client finds behind an open tensor: the bytes of its buffer. *)
bytesOf(t) ==
    IF t \in Open /\ Deref(t) = "running" THEN content[BufferOf(t)] ELSE Uninit

cells == [t \in Tensors |-> bytesOf(t)]

(* What the calls in flight use. *)
holds == [th \in Threads |-> [reads |-> call[th].reads,
                              writes |-> call[th].writes]]

Cells == INSTANCE TensorCells WITH cell <- cells, hold <- holds, shut <- closed

(***************************************************************************)
(* To its clients a tensor is a cell of its own: the native tensors,       *)
(* buffers and sessions that Java tensors share behind the scenes never    *)
(* let a call fill or empty a tensor that it has not claimed for writing,  *)
(* also while the calls of several threads interleave.                     *)
(***************************************************************************)
ImplementsCells == Cells!Spec
=============================================================================
