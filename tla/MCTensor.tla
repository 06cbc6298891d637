------------------------------ MODULE MCTensor ------------------------------
(* Tensor objects alone, shared by two threads. *)
EXTENDS Tensor, TLC

(* Threads, addresses, buffers and contents are interchangeable. *)
Symmetry == Permutations(Threads) \cup Permutations(Tensors)
              \cup Permutations(Addrs) \cup Permutations(Bufs)
=============================================================================
