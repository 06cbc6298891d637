-------------------------- MODULE SavedModelBundle --------------------------
(***************************************************************************)
(* The Java class SavedModelBundle and its native half,                    *)
(* saved_model_bundle_jni.cpp, on top of the tensors of module Tensor.     *)
(*                                                                         *)
(* run() and train() copy the native input tensors (copies share their     *)
(* buffers), run the session, and then hand each requested output to its   *)
(* Java Tensor as a new native tensor.  The session call takes time: other *)
(* threads' calls interleave with it, and a call that is handing over its  *)
(* outputs does so one output at a time.                                   *)
(***************************************************************************)
EXTENDS Tensor, Sequences, Functions

CONSTANTS
    Bundles,     \* Java SavedModelBundle objects
    MaxOutputs,  \* bound on the length of the outputs array
    PassThrough  \* TRUE if the graph may return an input's buffer as output

ASSUME BundleAssumption ==
    /\ MaxOutputs \in Nat
    /\ PassThrough \in BOOLEAN

VARIABLES
    bundle,   \* the native SavedModelBundle behind each Java object
    outputs   \* history: the tensors that have been given a model's output

vars == << handle, isBacked, native, content, call, status, view, owner,
           written, closed, blame, bundle, outputs >>

(* What the steps of a native call on a bundle never change. *)
clientVars == << isBacked, view, closed >>

Faulty == {"failed_assert", "jni_abort"}

-----------------------------------------------------------------------------
(***************************************************************************)
(* create: the constructor of a Java bundle.  When LoadSavedModel fails    *)
(* the native bundle is not deleted, and the constructor throws, so that   *)
(* the client never gets the object.                                       *)
(***************************************************************************)
Create(th, b) ==
    /\ Ready(th)
    /\ bundle[b] = "none"
    /\ \/ bundle' = [bundle EXCEPT ![b] = "loaded"]
       \/ bundle' = [bundle EXCEPT ![b] = "leaked"]
    /\ UNCHANGED << tensorVars, outputs >>

(* A client can call an object once its constructor has returned. *)
Constructed(b) == bundle[b] \in {"loaded", "deleted"}

ChargeBundle(b) == IF bundle[b] = "deleted" THEN {"afterClose"} ELSE {}

BundleOps == {"run", "train", "fetch", "publish", "export"}

(* The threads whose call on bundle b is in flight. *)
CallsOn(b) == { u \in Threads : /\ call[u].op \in BundleOps
                                /\ call[u].bundle = b }

-----------------------------------------------------------------------------
(***************************************************************************)
(* run and train, up to the session call: copy every input tensor, then    *)
(* follow the bundle's handle to its session.                              *)
(***************************************************************************)
BeginCall(th, op, b, ins, outs) ==
    /\ Ready(th)
    /\ Constructed(b)
    /\ Accept(Charge(th, ins, Range(outs)) \cup ChargeBundle(b))
    /\ \/ /\ \E t \in ins : Deref(t) # "running" /\ status' = Deref(t)
          /\ UNCHANGED call
       \/ /\ \A t \in ins : Deref(t) = "running"
          /\ bundle[b] = "deleted"
          /\ status' = "use_after_free"
          /\ UNCHANGED call
       \/ /\ \A t \in ins : Deref(t) = "running"
          /\ bundle[b] = "loaded"
          /\ call' = [call EXCEPT ![th] =
                        [op |-> op, bundle |-> b, reads |-> ins,
                         writes |-> Range(outs), outs |-> outs,
                         bufs |-> { BufferOf(t) : t \in ins },
                         results |-> << >>, next |-> 1, pending |-> FALSE]]
          /\ UNCHANGED status
    /\ UNCHANGED << handle, native, content, owner, written, bundle, outputs,
                    clientVars >>

Run(th, b, ins, outs) == BeginCall(th, "run", b, ins, outs)

Train(th, b, ins, outs) == BeginCall(th, "train", b, ins, outs)

(* The call c of run or train, gone on to another step. *)
Onward(c, op, bufs, results, next, pending) ==
    [op |-> op, bundle |-> c.bundle, reads |-> c.reads, writes |-> c.writes,
     outs |-> c.outs, bufs |-> bufs, results |-> results, next |-> next,
     pending |-> pending]

(***************************************************************************)
(* Session::Run (external) fills the caller's vector with tensors, in the  *)
(* order of the requested names, each in a buffer of its own, unless the   *)
(* graph forwards an input (Identity, Reshape): then it is the input's     *)
(* buffer.  The vector keeps the n tensors alive until the call returns.   *)
(***************************************************************************)
Fetched(th, n, failed) ==
    LET shared == IF PassThrough THEN call[th].bufs ELSE {}
    IN  \E r \in [1..n -> FreeBufs \cup shared], v \in [1..n -> Values] :
          /\ \A i, j \in 1..n : r[i] = r[j] /\ r[i] \notin shared => i = j
          /\ content' = [ b \in Bufs |->
                            IF b \in Range(r) \ shared
                            THEN v[CHOOSE i \in 1..n : r[i] = b]
                            ELSE content[b] ]
          /\ call' = [call EXCEPT ![th] =
                         Onward(@, "publish", @.bufs \cup Range(r), r, 1,
                                @.pending \/ failed)]

(* The buffers of the outputs do not fit in memory. *)
Exhausted(th) ==
    /\ ~PassThrough
    /\ Cardinality(FreeBufs) < Len(call[th].outs)
    /\ status' = "out_of_memory"
    /\ UNCHANGED << call, content >>

(* The session was deleted while it was running. *)
SessionGone(th) ==
    /\ bundle[call[th].bundle] = "deleted"
    /\ status' = "use_after_free"
    /\ UNCHANGED << call, content >>

(* Any return to Java, with or without an exception. *)
Return(th) ==
    /\ call' = [call EXCEPT ![th] = Idle]
    /\ UNCHANGED content

(***************************************************************************)
(* run, after the session call: on an error it throws and returns at once. *)
(***************************************************************************)
FinishRun(th) ==
    /\ status = "running"
    /\ call[th].op = "run"
    /\ \/ SessionGone(th)
       \/ /\ bundle[call[th].bundle] = "loaded"
          /\ \/ Exhausted(th)
             \/ Fetched(th, Len(call[th].outs), FALSE) /\ UNCHANGED status
             \/ Return(th) /\ UNCHANGED status
    /\ UNCHANGED << handle, native, owner, written, blame, bundle, outputs,
                    clientVars >>

(***************************************************************************)
(* train, after its first session call: an error raises an exception, but  *)
(* the function goes on to the output step all the same.                   *)
(***************************************************************************)
TrainStep(th) ==
    /\ status = "running"
    /\ call[th].op = "train"
    /\ \/ SessionGone(th)
       \/ /\ bundle[call[th].bundle] = "loaded"
          /\ \E failed \in BOOLEAN :
               call' = [call EXCEPT ![th] =
                          Onward(@, "fetch", @.bufs, << >>, 1, failed)]
          /\ UNCHANGED << status, content >>
    /\ UNCHANGED << handle, native, owner, written, blame, bundle, outputs,
                    clientVars >>

(* Mutant: after an error train starts over. *)
FetchFailedRetry(th) ==
    /\ call' = [call EXCEPT ![th] =
                  Onward(@, "train", @.bufs, << >>, 1, FALSE)]
    /\ UNCHANGED << content, status >>

(***************************************************************************)
(* An error of train's second session call raises an exception, which with *)
(* one pending already is a JNI call that the checking VM of a debug build *)
(* aborts on.  The function goes on: to the assertion that the session     *)
(* returned as many tensors as were asked for, and to handing them over.   *)
(* Session::Run leaves the vector undefined on an error: it has k tensors, *)
(* for any k up to the number asked for.                                   *)
(***************************************************************************)
FetchFailed(th) ==
    \/ /\ Debug /\ call[th].pending
       /\ status' = "jni_abort"
       /\ UNCHANGED << call, content >>
    \/ /\ Debug /\ ~call[th].pending
       /\ call[th].outs # << >>
       /\ status' = "failed_assert"
       /\ UNCHANGED << call, content >>
    \/ /\ ~(Debug /\ call[th].pending)
       /\ \E k \in 0..Len(call[th].outs) :
            /\ Debug => k = Len(call[th].outs)
            /\ Fetched(th, k, TRUE)
       /\ UNCHANGED status

(* train, after its second session call. *)
FetchStep(th) ==
    /\ status = "running"
    /\ call[th].op = "fetch"
    /\ \/ SessionGone(th)
       \/ /\ bundle[call[th].bundle] = "loaded"
          /\ \/ Exhausted(th)
             \/ Fetched(th, Len(call[th].outs), FALSE) /\ UNCHANGED status
             \/ FetchFailed(th)
    /\ UNCHANGED << handle, native, owner, written, blame, bundle, outputs,
                    clientVars >>

(* Mutants: the handle is set to an address without a tensor; the tensor   *)
(* that t had is deleted; the output is copied into it.                    *)
HandOverDangling(t, b) ==
    /\ \E a \in FreeAddrs : handle' = [handle EXCEPT ![t] = a]
    /\ UNCHANGED << native, owner, content >>

HandOverDeletingOld(t, b) ==
    /\ \E a \in FreeAddrs :
         /\ native' = [ x \in Addrs |-> CASE x = a -> b
                                         [] x # a /\ x = handle[t] -> NULL
                                         [] OTHER -> native[x] ]
         /\ handle' = [handle EXCEPT ![t] = a]
    /\ UNCHANGED << owner, content >>

HandOverInPlace(t, b) ==
    \/ /\ Deref(t) = "running"
       /\ content' = [content EXCEPT ![BufferOf(t)] = content[b]]
       /\ UNCHANGED << handle, native, owner >>
    \/ /\ Deref(t) # "running"
       /\ \E a \in FreeAddrs : setHandle(t, a, b)
       /\ UNCHANGED content

(* t gets a new native tensor, a copy that shares the buffer b. *)
HandOver(t, b) ==
    /\ \E a \in FreeAddrs : setHandle(t, a, b)
    /\ UNCHANGED content

(* Mutant: the results are taken in the opposite order. *)
NextResultReversed(th) ==
    call[th].results[Len(call[th].results) + 1 - call[th].next]

NextResult(th) == call[th].results[call[th].next]

(***************************************************************************)
(* The loop that hands over the outputs: copy the next one into a new      *)
(* native tensor and set the handle of its Java tensor, which is a JNI     *)
(* call a debug build does not survive with an exception pending.          *)
(***************************************************************************)
PublishOutput(th) ==
    /\ status = "running"
    /\ call[th].op = "publish"
    /\ call[th].next <= Len(call[th].results)
    /\ LET t == call[th].outs[call[th].next]
       IN  \/ /\ Debug /\ call[th].pending
              /\ status' = "jni_abort"
              /\ UNCHANGED << call, handle, native, owner, content, written,
                              outputs >>
           \/ /\ ~(Debug /\ call[th].pending)
              /\ FreeAddrs = {}
              /\ status' = "out_of_memory"
              /\ UNCHANGED << call, handle, native, owner, content, written,
                              outputs >>
           \/ /\ ~(Debug /\ call[th].pending)
              /\ HandOver(t, NextResult(th))
              /\ written' = [written EXCEPT ![t] = content[NextResult(th)]]
              /\ outputs' = outputs \cup {t}
              /\ call' = [call EXCEPT ![th] =
                            Onward(@, "publish", @.bufs, @.results,
                                   @.next + 1, @.pending)]
              /\ UNCHANGED status
    /\ UNCHANGED << blame, bundle, clientVars >>

(* All outputs are handed over: the vectors go out of scope. *)
ReturnOutputs(th) ==
    /\ status = "running"
    /\ call[th].op = "publish"
    /\ call[th].next > Len(call[th].results)
    /\ Return(th)
    /\ UNCHANGED << status, handle, native, owner, written, blame, bundle,
                    outputs, clientVars >>

-----------------------------------------------------------------------------
(***************************************************************************)
(* export runs the save op of the graph; an error throws.                  *)
(***************************************************************************)
Export(th, b) ==
    /\ Ready(th)
    /\ Constructed(b)
    /\ Accept(ChargeBundle(b))
    /\ \/ /\ bundle[b] = "deleted"
          /\ status' = "use_after_free"
          /\ UNCHANGED call
       \/ /\ bundle[b] = "loaded"
          /\ call' = [call EXCEPT ![th] =
                        [op |-> "export", bundle |-> b, reads |-> {},
                         writes |-> {}, bufs |-> {}]]
          /\ UNCHANGED status
    /\ UNCHANGED << handle, native, content, owner, written, bundle, outputs,
                    clientVars >>

FinishExport(th) ==
    /\ status = "running"
    /\ call[th].op = "export"
    /\ \/ SessionGone(th)
       \/ /\ bundle[call[th].bundle] = "loaded"
          /\ Return(th)
          /\ UNCHANGED status
    /\ UNCHANGED << handle, native, owner, written, blame, bundle, outputs,
                    clientVars >>

(***************************************************************************)
(* close: close the session and delete the native bundle; the handle stays *)
(* as it is.  Session::Close may only be called when no Run is in flight.  *)
(***************************************************************************)
CloseBundle(th, b) ==
    /\ Ready(th)
    /\ Constructed(b)
    /\ Accept(ChargeBundle(b)
                 \cup IF CallsOn(b) # {} THEN {"overlap"} ELSE {})
    /\ \/ /\ bundle[b] = "deleted"
          /\ status' = "use_after_free"
          /\ UNCHANGED bundle
       \/ /\ bundle[b] = "loaded"
          /\ bundle' = [bundle EXCEPT ![b] = "deleted"]
          /\ UNCHANGED status
    /\ UNCHANGED << handle, native, content, call, owner, written, outputs,
                    clientVars >>

-----------------------------------------------------------------------------
Init ==
    /\ TensorInit
    /\ bundle = [b \in Bundles |-> "none"]
    /\ outputs = {}

OutputArrays == UNION { [1..n -> Tensors] : n \in 0..MaxOutputs }

(* What a thread does between entering a native call and returning to Java. *)
Steps(th) ==
    \/ WriteBytes(th) /\ UNCHANGED << bundle, outputs >>
    \/ FinishRun(th)
    \/ TrainStep(th)
    \/ FetchStep(th)
    \/ PublishOutput(th)
    \/ ReturnOutputs(th)
    \/ FinishExport(th)

(* The calls an application can make. *)
Calls(th) ==
    \/ \E t \in Tensors :
          /\ \/ \E v \in Values, buffer \in ByteBuffers :
                   SetBytes(th, t, v, buffer)
             \/ GetBytes(th, t)
             \/ Close(th, t)
          /\ UNCHANGED << bundle, outputs >>
    \/ \E b \in Bundles :
          \/ Create(th, b)
          \/ Export(th, b)
          \/ CloseBundle(th, b)
          \/ \E ins \in SUBSET Tensors, outs \in OutputArrays :
                \/ Run(th, b, ins, outs)
                \/ Train(th, b, ins, outs)

Next == \E th \in Threads : Steps(th) \/ Calls(th)

Spec == Init /\ [][Next]_vars

(***************************************************************************)
(* The scheduler lets every thread run, and Session::Run and LoadSavedModel *)
(* return.  Nothing is assumed of the client: it may never call again.      *)
(***************************************************************************)
FairSpec == Spec /\ \A th \in Threads : WF_vars(Steps(th))

-----------------------------------------------------------------------------
(***************************************************************************)
(* Properties.                                                             *)
(***************************************************************************)

ModelCalls == [op : {"run", "train", "fetch", "publish"}, bundle : Bundles,
               reads : SUBSET Tensors, writes : SUBSET Tensors,
               outs : Seq(Tensors), bufs : SUBSET Bufs, results : Seq(Bufs),
               next : Nat \ {0}, pending : BOOLEAN]

ExportCalls == [op : {"export"}, bundle : Bundles, reads : {{}},
                writes : {{}}, bufs : {{}}]

(* The types of the whole state of the library. *)
TypeOK ==
    /\ HeapTypeOK
    /\ call \in [Threads -> IdleCalls \cup WriteCalls \cup ModelCalls
                               \cup ExportCalls]
    /\ status \in {"running", "out_of_memory"} \cup MemoryFaults \cup Faulty
    /\ bundle \in [Bundles -> {"none", "loaded", "deleted", "leaked"}]
    /\ outputs \subseteq Tensors

(***************************************************************************)
(* The loop of run and train that hands over the session's results stays   *)
(* within the outputs array, after an error too.                           *)
(***************************************************************************)
ResultsMatch ==
    \A th \in Threads : call[th].op = "publish" =>
        Len(call[th].results) <= Len(call[th].outs)

(***************************************************************************)
(* A ByteBuffer taken from a tensor that only the model fills (isBacked is *)
(* false) shows that model run's result for good: neither later runs into  *)
(* the same tensor nor a later setBytes on it, which allocates a tensor of *)
(* its own, change the bytes the client is looking at.                     *)
(***************************************************************************)
OutputViewsStable ==
    Lawful /\ status = "running" =>
        \A t \in Open : view[t] # NULL /\ ~view[t].backed =>
            content[view[t].buf] = view[t].bytes

(***************************************************************************)
(* The i-th tensor of the outputs array gets the i-th result of the        *)
(* session, however the calls of other threads interleave with the loop    *)
(* that hands them over (the last one wins if a tensor is listed twice).   *)
(***************************************************************************)
OutputsByPosition ==
    Lawful /\ status = "running" =>
        \A th \in Threads : call[th].op = "publish" =>
            \A i \in 1..(call[th].next - 1) :
                \/ \E j \in (i+1)..(call[th].next - 1) :
                       call[th].outs[j] = call[th].outs[i]
                \/ /\ Deref(call[th].outs[i]) = "running"
                   /\ BufferOf(call[th].outs[i]) = call[th].results[i]

(***************************************************************************)
(* Only output tensors leak: a live native tensor that no open Java tensor *)
(* points to was allocated for a tensor that run or train has given an     *)
(* output.  Tensors that are only inputs are freed completely by close().  *)
(***************************************************************************)
OnlyOutputsLeak ==
    Lawful => \A a \in Addrs : native[a] # NULL =>
        \/ \E t \in Open : handle[t] = a
        \/ owner[a] \in outputs

(***************************************************************************)
(* What getBytes documents of outputs: an open tensor that a model has     *)
(* filled always has bytes to return, the model's or ones set since; it    *)
(* never falls back to memory that nobody wrote.                           *)
(***************************************************************************)
OutputTensorsReadable ==
    Lawful /\ status = "running" =>
        \A t \in outputs \ closed :
            (\A th \in Threads : t \notin call[th].writes) => written[t] # Uninit

(* An open tensor that a call in flight does not name has its bytes in a   *)
(* buffer that the call holds: two native tensors share it, as they do     *)
(* when run has handed over an output that the graph forwarded.            *)
SharedUnseen(th, t) ==
    /\ t \notin call[th].reads \cup call[th].writes
    /\ Deref(t) = "running"
    /\ BufferOf(t) \in call[th].bufs
    /\ \E a \in Addrs \ {handle[t]} : native[a] = BufferOf(t)

(***************************************************************************)
(* Graphs that forward an input add one fault to those of clients, and no  *)
(* other: a setBytes that writes the buffer which the session of another   *)
(* thread reads as the data of another tensor (memcpy in writeBytes).  The *)
(* two calls have no tensor in common, so that the client broke no rule it *)
(* could have known of.                                                    *)
(***************************************************************************)
RacesNeedForwarding ==
    \/ FaultsAreClientFaults
    \/ /\ status = "data_race"
       /\ \E th \in Threads, t \in Open : SharedUnseen(th, t)

(***************************************************************************)
(* A native call ends: it returns to Java, or the process has died.        *)
(***************************************************************************)
CallsReturn ==
    \A th \in Threads :
        call[th] # Idle ~> (call[th] = Idle \/ status # "running")

(***************************************************************************)
(* The assertion of train on the number of outputs the session returned.   *)
(***************************************************************************)
TrainAssertHolds == status # "failed_assert"
=============================================================================
