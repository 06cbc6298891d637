---------------------------- MODULE TensorCells ----------------------------
(***************************************************************************)
(* What the library promises of tensors to clients that keep to the rules, *)
(* without handles, native tensors, shared buffers or sessions: a tensor   *)
(* is a cell that holds one value, a call claims the cells it reads and    *)
(* the cells it writes, and a step changes at most one cell, which its own *)
(* thread has claimed for writing.                                         *)
(***************************************************************************)
CONSTANTS Threads, Tensors, Values, Uninit

VARIABLES
    cell,  \* the bytes of each tensor
    hold,  \* the tensors that the call of each thread reads and writes
    shut   \* the tensors that are closed

vars == << cell, hold, shut >>

Nothing == [reads |-> {}, writes |-> {}]

Unclaimed(th, R, W) ==
    \A u \in Threads \ {th} : /\ hold[u].writes \cap (R \cup W) = {}
                              /\ hold[u].reads \cap W = {}

(* A call starts that reads the cells R, all of them filled, and writes W. *)
Claim(th, R, W) ==
    /\ hold[th] = Nothing
    /\ Unclaimed(th, R, W)
    /\ (R \cup W) \cap shut = {}
    /\ \A t \in R : cell[t] # Uninit
    /\ hold' = [hold EXCEPT ![th] = [reads |-> R, writes |-> W]]
    /\ UNCHANGED shut

(* It may empty the only cell it writes: setBytes gives a tensor memory. *)
Start(th, R, W) == Claim(th, R, W) /\ UNCHANGED cell

Empty(th, t) == Claim(th, {}, {t}) /\ cell' = [cell EXCEPT ![t] = Uninit]

(* A call fills a cell: setBytes as it ends, a model one of its outputs. *)
Put(th, t, v) ==
    /\ t \in hold[th].writes
    /\ cell' = [cell EXCEPT ![t] = v]
    /\ hold' \in {hold, [hold EXCEPT ![th] = Nothing]}
    /\ UNCHANGED shut

End(th) ==
    /\ hold' = [hold EXCEPT ![th] = Nothing]
    /\ UNCHANGED << cell, shut >>

Shut(th, t) ==
    /\ hold[th] = Nothing
    /\ Unclaimed(th, {}, {t})
    /\ shut' = shut \cup {t}
    /\ cell' = [cell EXCEPT ![t] = Uninit]
    /\ UNCHANGED hold

Init ==
    /\ cell = [t \in Tensors |-> Uninit]
    /\ hold = [th \in Threads |-> Nothing]
    /\ shut = {}

Next ==
    \E th \in Threads :
        \/ End(th)
        \/ \E R, W \in SUBSET Tensors : Start(th, R, W)
        \/ \E t \in Tensors :
              \/ Empty(th, t)
              \/ Shut(th, t)
              \/ \E v \in Values : Put(th, t, v)

Spec == Init /\ [][Next]_vars
=============================================================================
