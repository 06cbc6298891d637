----------------------------- MODULE TypeProofs -----------------------------
(***************************************************************************)
(* Proofs about module SavedModelBundle, and about module Tensor alone,    *)
(* for any number of threads, tensors, bundles, addresses, buffers and     *)
(* contents.                                                               *)
(***************************************************************************)
EXTENDS SavedModelBundle, TLAPS

TypeInv == TypeOK /\ ResultsMatch

USE TensorAssumption, BundleAssumption

-----------------------------------------------------------------------------
(***************************************************************************)
(* Facts about calls in flight.                                            *)
(***************************************************************************)

(* The step of a call tells which kind of record describes it. *)
LEMMA CallKinds ==
    ASSUME TypeOK, NEW th \in Threads
    PROVE  /\ call[th].op = "writeBytes" => call[th] \in WriteCalls
           /\ call[th].op \in {"run", "train", "fetch", "publish"}
                  => call[th] \in ModelCalls
           /\ call[th].op = "export" => call[th] \in ExportCalls
           /\ call[th].reads \subseteq Tensors
           /\ call[th].writes \subseteq Tensors
           /\ call[th].bufs \subseteq Bufs
BY DEF TypeOK, IdleCalls, WriteCalls, ModelCalls, ExportCalls

LEMMA IdleIsACall == Idle \in IdleCalls
BY DEF Idle, IdleCalls

(* What a call that is handing over its outputs refers to. *)
LEMMA PublishTypes ==
    ASSUME TypeInv, NEW th \in Threads, call[th].op = "publish",
           call[th].next <= Len(call[th].results)
    PROVE  /\ call[th].outs[call[th].next] \in Tensors
           /\ NextResult(th) \in Bufs
<1>1. call[th] \in ModelCalls
  BY CallKinds DEF TypeInv
<1>2. /\ call[th].next \in 1..Len(call[th].results)
      /\ call[th].next \in 1..Len(call[th].outs)
      /\ call[th].outs \in Seq(Tensors)
      /\ call[th].results \in Seq(Bufs)
  BY <1>1 DEF ModelCalls, TypeInv, ResultsMatch
<1>3. QED
  BY <1>2 DEF NextResult

-----------------------------------------------------------------------------
(***************************************************************************)
(* Every step preserves the types.                                         *)
(***************************************************************************)

(* A step of thread th that replaces its call by one of the right type. *)
LEMMA CallTypes ==
    ASSUME TypeInv, NEW th \in Threads,
           NEW c \in IdleCalls \cup WriteCalls \cup ModelCalls \cup ExportCalls,
           c.op = "publish" => Len(c.results) <= Len(c.outs),
           call' = [call EXCEPT ![th] = c]
    PROVE  /\ call' \in [Threads -> IdleCalls \cup WriteCalls \cup ModelCalls
                                        \cup ExportCalls]
           /\ ResultsMatch'
<1>1. \A u \in Threads : call'[u] = IF u = th THEN c ELSE call[u]
  BY DEF TypeInv, TypeOK
<1>2. QED
  BY <1>1 DEF TypeInv, TypeOK, ResultsMatch

(* Idle is such a call. *)
LEMMA IdleTypes ==
    ASSUME TypeInv, NEW th \in Threads, call' = [call EXCEPT ![th] = Idle]
    PROVE  /\ call' \in [Threads -> IdleCalls \cup WriteCalls \cup ModelCalls
                                        \cup ExportCalls]
           /\ ResultsMatch'
<1>1. Idle.op # "publish"
  BY DEF Idle
<1>2. QED
  BY <1>1, IdleIsACall, CallTypes

LEMMA SetBytesTypes ==
    ASSUME TypeInv, NEW th \in Threads, NEW t \in Tensors, NEW v \in Values,
           NEW buffer \in ByteBuffers, SetBytes(th, t, v, buffer),
           UNCHANGED << bundle, outputs >>
    PROVE  TypeInv'
<1> DEFINE c == [op |-> "writeBytes", reads |-> {}, writes |-> {t},
                 bufs |-> {}, tensor |-> t, data |-> v,
                 direct |-> buffer # "heap"]
<1>1. c \in WriteCalls /\ c.op # "publish"
  BY DEF WriteCalls
<1>2. call' = [call EXCEPT ![th] = c]
  BY DEF SetBytes
<1> HIDE DEF c
<1>3. /\ call' \in [Threads -> IdleCalls \cup WriteCalls \cup ModelCalls
                                 \cup ExportCalls]
      /\ ResultsMatch'
  BY <1>1, <1>2, CallTypes
<1>4. blame' \subseteq Rules
  BY DEF TypeInv, TypeOK, HeapTypeOK, SetBytes, Accept, Charge
<1>5. createBackingTensor(t) /\ UNCHANGED << view, closed >>
  BY DEF SetBytes
<1>6. CASE create(t) /\ isBacked' = [isBacked EXCEPT ![t] = (status' = "running")]
  <2>1. /\ status' \in {status, "out_of_memory"}
        /\ written' \in [Tensors -> Values \cup {Uninit}]
        /\ isBacked' \in [Tensors -> BOOLEAN]
        /\ content' \in [Bufs -> Values \cup {Uninit}]
    BY <1>6 DEF create, TypeInv, TypeOK, HeapTypeOK, FreeBufs
  <2>2. /\ handle' \in [Tensors -> Addrs \cup {NULL}]
        /\ native' \in [Addrs -> Bufs \cup {NULL}]
        /\ owner' \in [Addrs -> Tensors \cup {NULL}]
    BY <1>6 DEF create, setHandle, FreeAddrs, FreeBufs,
                TypeInv, TypeOK, HeapTypeOK
  <2>3. QED
    BY <1>3, <1>4, <1>5, <2>1, <2>2 DEF TypeInv, TypeOK, HeapTypeOK
<1>7. CASE UNCHANGED << handle, isBacked, native, owner, content, written,
                        status >>
  BY <1>3, <1>4, <1>5, <1>7 DEF TypeInv, TypeOK, HeapTypeOK
<1>8. QED
  BY <1>5, <1>6, <1>7 DEF createBackingTensor

LEMMA WriteBytesTypes ==
    ASSUME TypeInv, NEW th \in Threads, WriteBytes(th),
           UNCHANGED << bundle, outputs >>
    PROVE  TypeInv'
<1>1. /\ call[th] \in WriteCalls
      /\ call[th].tensor \in Tensors
      /\ call[th].data \in Values
  BY CallKinds DEF TypeInv, WriteBytes, WriteCalls
<1>2. call' = [call EXCEPT ![th] = Idle]
  BY DEF WriteBytes
<1>3. HeapTypeOK' /\ status' \in {"running", "out_of_memory"} \cup MemoryFaults \cup Faulty
  BY <1>1 DEF TypeInv, TypeOK, HeapTypeOK, WriteBytes, Deref, BufferOf,
              MemoryFaults
<1>4. QED
  BY <1>2, <1>3, IdleTypes DEF TypeInv, TypeOK, WriteBytes

LEMMA GetBytesTypes ==
    ASSUME TypeInv, NEW th \in Threads, NEW t \in Tensors, GetBytes(th, t),
           UNCHANGED << bundle, outputs >>
    PROVE  TypeInv'
<1>1. view' \in [Tensors -> Views \cup {NULL}]
  BY DEF TypeInv, TypeOK, HeapTypeOK, GetBytes, Deref, BufferOf, Views
<1>2. blame' \subseteq Rules
  BY DEF TypeInv, TypeOK, HeapTypeOK, GetBytes, Accept, Charge
<1>3. status' \in {"running", "out_of_memory"} \cup MemoryFaults \cup Faulty
  BY DEF TypeInv, TypeOK, GetBytes, Deref, MemoryFaults
<1>4. QED
  BY <1>1, <1>2, <1>3
     DEF TypeInv, TypeOK, HeapTypeOK, GetBytes, ResultsMatch

LEMMA CloseTypes ==
    ASSUME TypeInv, NEW th \in Threads, NEW t \in Tensors, Close(th, t),
           UNCHANGED << bundle, outputs >>
    PROVE  TypeInv'
<1>1. HeapTypeOK' /\ status' \in {"running", "out_of_memory"} \cup MemoryFaults \cup Faulty
  BY DEF TypeInv, TypeOK, HeapTypeOK, Close, Deref, Accept, Charge,
         MemoryFaults
<1>2. QED
  BY <1>1 DEF TypeInv, TypeOK, ResultsMatch, Close

(* run and train enter the session with a call of the right type. *)
LEMMA BeginCallTypes ==
    ASSUME TypeInv, NEW th \in Threads, NEW b \in Bundles,
           NEW ins \in SUBSET Tensors, NEW outs \in OutputArrays,
           NEW op \in {"run", "train"}, BeginCall(th, op, b, ins, outs)
    PROVE  TypeInv'
<1> DEFINE c == [op |-> op, bundle |-> b, reads |-> ins,
                 writes |-> Range(outs), outs |-> outs,
                 bufs |-> { BufferOf(t) : t \in ins },
                 results |-> << >>, next |-> 1, pending |-> FALSE]
<1>1. outs \in Seq(Tensors) /\ Range(outs) \subseteq Tensors
  BY DEF OutputArrays, Range
<1>2. ASSUME \A t \in ins : Deref(t) = "running"
      PROVE  c \in ModelCalls
  <2>1. { BufferOf(t) : t \in ins } \subseteq Bufs
    BY <1>2 DEF TypeInv, TypeOK, HeapTypeOK, BufferOf, Deref
  <2>2. QED
    BY <1>1, <2>1 DEF ModelCalls
<1>3. c.op # "publish"
  OBVIOUS
<1>4. blame' \subseteq Rules
  BY DEF TypeInv, TypeOK, HeapTypeOK, BeginCall, Accept, Charge,
         ChargeBundle, Rules
<1>5. \/ UNCHANGED call /\ status' \in MemoryFaults \cup {"running"}
      \/ /\ call' = [call EXCEPT ![th] = c] /\ UNCHANGED status
         /\ \A t \in ins : Deref(t) = "running"
  BY DEF BeginCall, Deref, MemoryFaults
<1>6. UNCHANGED << handle, native, content, owner, written, bundle, outputs,
                   clientVars >>
  BY DEF BeginCall
<1> HIDE DEF c
<1>7. /\ call' \in [Threads -> IdleCalls \cup WriteCalls \cup ModelCalls
                                 \cup ExportCalls]
      /\ ResultsMatch'
  BY <1>2, <1>3, <1>5, CallTypes DEF TypeInv, TypeOK, ResultsMatch
<1>8. QED
  BY <1>4, <1>5, <1>6, <1>7 DEF TypeInv, TypeOK, HeapTypeOK, clientVars

(* What a session call leaves in the caller's hands is of the right type. *)
LEMMA FetchedTypes ==
    ASSUME TypeInv, NEW th \in Threads,
           call[th].op \in {"run", "train", "fetch", "publish"},
           NEW n \in 0..Len(call[th].outs), NEW failed \in BOOLEAN,
           Fetched(th, n, failed)
    PROVE  /\ content' \in [Bufs -> Values \cup {Uninit}]
           /\ call' \in [Threads -> IdleCalls \cup WriteCalls \cup ModelCalls
                                        \cup ExportCalls]
           /\ ResultsMatch'
<1>1. call[th] \in ModelCalls
  BY CallKinds DEF TypeInv
<1> DEFINE shared == IF PassThrough THEN call[th].bufs ELSE {}
<1>2. shared \subseteq Bufs
  BY <1>1 DEF ModelCalls
<1>3. PICK r \in [1..n -> FreeBufs \cup shared], v \in [1..n -> Values] :
          /\ content' = [ b \in Bufs |->
                            IF b \in Range(r) \ shared
                            THEN v[CHOOSE i \in 1..n : r[i] = b]
                            ELSE content[b] ]
          /\ call' = [call EXCEPT ![th] =
                         Onward(@, "publish", @.bufs \cup Range(r), r, 1,
                                @.pending \/ failed)]
  BY DEF Fetched
<1>4. n \in Nat /\ r \in [1..n -> Bufs]
  BY <1>1, <1>2, <1>3 DEF FreeBufs, ModelCalls
<1>5. /\ r \in Seq(Bufs) /\ Len(r) = n
      /\ Range(r) \subseteq Bufs
  BY <1>4 DEF Range
<1>6. ASSUME NEW b \in Range(r)
      PROVE  v[CHOOSE i \in 1..n : r[i] = b] \in Values
  <2>1. \E i \in 1..n : r[i] = b
    BY <1>4 DEF Range
  <2>2. (CHOOSE i \in 1..n : r[i] = b) \in 1..n
    BY <2>1
  <2>3. QED
    BY <1>3, <2>2
<1>7. content' \in [Bufs -> Values \cup {Uninit}]
  BY <1>3, <1>6 DEF TypeInv, TypeOK, HeapTypeOK
<1> DEFINE c == Onward(call[th], "publish", call[th].bufs \cup Range(r), r, 1,
                       call[th].pending \/ failed)
<1>8. call' = [call EXCEPT ![th] = c]
  BY <1>3
<1>9. c \in ModelCalls /\ c.op = "publish" /\ Len(c.results) <= Len(c.outs)
  BY <1>1, <1>5 DEF ModelCalls, Onward
<1> HIDE DEF c
<1>10. QED
  BY <1>7, <1>8, <1>9, CallTypes

(* Returning to Java. *)
LEMMA ReturnTypes ==
    ASSUME TypeInv, NEW th \in Threads, Return(th)
    PROVE  /\ call' \in [Threads -> IdleCalls \cup WriteCalls \cup ModelCalls
                                        \cup ExportCalls]
           /\ ResultsMatch'
           /\ UNCHANGED content
BY IdleTypes DEF Return

(***************************************************************************)
(* What the steps of run, train and export leave alone.                    *)
(***************************************************************************)
LEMMA SessionFrame ==
    ASSUME TypeInv, UNCHANGED << handle, native, owner, written, blame,
                                 bundle, outputs, clientVars >>,
           content' \in [Bufs -> Values \cup {Uninit}],
           status' \in {"running", "out_of_memory"} \cup MemoryFaults \cup Faulty,
           call' \in [Threads -> IdleCalls \cup WriteCalls \cup ModelCalls
                                   \cup ExportCalls],
           ResultsMatch'
    PROVE  TypeInv'
BY DEF TypeInv, TypeOK, HeapTypeOK, clientVars

(* A session call that ends the process leaves the calls as they are. *)
LEMMA DeadFrame ==
    ASSUME TypeInv, UNCHANGED << handle, native, owner, written, blame,
                                 bundle, outputs, clientVars >>,
           UNCHANGED << call, content >>,
           status' \in {"running", "out_of_memory"} \cup MemoryFaults \cup Faulty
    PROVE  TypeInv'
BY DEF TypeInv, TypeOK, HeapTypeOK, clientVars, ResultsMatch

LEMMA FinishRunTypes ==
    ASSUME TypeInv, NEW th \in Threads, FinishRun(th)
    PROVE  TypeInv'
<1> DEFINE n == Len(call[th].outs)
<1>1. UNCHANGED << handle, native, owner, written, blame, bundle, outputs,
                   clientVars >>
  BY DEF FinishRun
<1>2. n \in 0..n
  BY CallKinds DEF TypeInv, FinishRun, ModelCalls
<1>3. CASE SessionGone(th) \/ Exhausted(th)
  BY <1>1, <1>3, DeadFrame DEF SessionGone, Exhausted, MemoryFaults
<1>4. CASE Fetched(th, n, FALSE) /\ UNCHANGED status
  BY <1>1, <1>2, <1>4, FetchedTypes, SessionFrame
     DEF FinishRun, TypeInv, TypeOK
<1>5. CASE Return(th) /\ UNCHANGED status
  BY <1>1, <1>5, ReturnTypes, SessionFrame DEF TypeInv, TypeOK, HeapTypeOK
<1>6. QED
  BY <1>3, <1>4, <1>5 DEF FinishRun

LEMMA TrainStepTypes ==
    ASSUME TypeInv, NEW th \in Threads, TrainStep(th)
    PROVE  TypeInv'
<1>1. UNCHANGED << handle, native, owner, written, blame, bundle, outputs,
                   clientVars >>
  BY DEF TrainStep
<1>2. CASE SessionGone(th)
  BY <1>1, <1>2, DeadFrame DEF SessionGone, MemoryFaults
<1>3. CASE /\ \E failed \in BOOLEAN :
                call' = [call EXCEPT ![th] =
                           Onward(@, "fetch", @.bufs, << >>, 1, failed)]
           /\ UNCHANGED << status, content >>
  <2>1. PICK failed \in BOOLEAN :
                call' = [call EXCEPT ![th] =
                           Onward(@, "fetch", @.bufs, << >>, 1, failed)]
    BY <1>3
  <2> DEFINE c == Onward(call[th], "fetch", call[th].bufs, << >>, 1, failed)
  <2>2. c \in ModelCalls /\ c.op # "publish"
    BY CallKinds DEF TypeInv, TrainStep, ModelCalls, Onward
  <2>3. call' = [call EXCEPT ![th] = c]
    BY <2>1
  <2> HIDE DEF c
  <2>4. QED
    BY <1>1, <1>3, <2>2, <2>3, CallTypes, SessionFrame
       DEF TypeInv, TypeOK, HeapTypeOK
<1>4. QED
  BY <1>2, <1>3 DEF TrainStep

LEMMA FetchStepTypes ==
    ASSUME TypeInv, NEW th \in Threads, FetchStep(th)
    PROVE  TypeInv'
<1> DEFINE n == Len(call[th].outs)
<1>1. UNCHANGED << handle, native, owner, written, blame, bundle, outputs,
                   clientVars >>
  BY DEF FetchStep
<1>2. n \in 0..n /\ call[th].op \in {"run", "train", "fetch", "publish"}
  BY CallKinds DEF TypeInv, FetchStep, ModelCalls
<1>3. ASSUME UNCHANGED << call, content >>,
             status' \in {"use_after_free", "out_of_memory"} \cup Faulty
      PROVE  TypeInv'
  BY <1>1, <1>3, DeadFrame DEF MemoryFaults
<1>4. ASSUME NEW k \in 0..n, NEW failed \in BOOLEAN, Fetched(th, k, failed),
             UNCHANGED status
      PROVE  TypeInv'
  <2>1. /\ content' \in [Bufs -> Values \cup {Uninit}]
        /\ call' \in [Threads -> IdleCalls \cup WriteCalls \cup ModelCalls
                                     \cup ExportCalls]
        /\ ResultsMatch'
    BY <1>2, <1>4, FetchedTypes
  <2>2. QED
    BY <1>1, <1>4, <2>1, SessionFrame DEF TypeInv, TypeOK
<1>5. CASE FetchFailed(th)
  BY <1>3, <1>4, <1>5 DEF FetchFailed, Faulty
<1>6. CASE SessionGone(th) \/ Exhausted(th)
  BY <1>3, <1>6 DEF SessionGone, Exhausted
<1>7. CASE Fetched(th, n, FALSE) /\ UNCHANGED status
  BY <1>2, <1>4, <1>7
<1>8. QED
  BY <1>5, <1>6, <1>7 DEF FetchStep

LEMMA PublishOutputTypes ==
    ASSUME TypeInv, NEW th \in Threads, PublishOutput(th)
    PROVE  TypeInv'
<1> DEFINE t == call[th].outs[call[th].next]
           b == NextResult(th)
           c == Onward(call[th], "publish", call[th].bufs, call[th].results,
                       call[th].next + 1, call[th].pending)
<1>1. t \in Tensors /\ b \in Bufs
  BY PublishTypes DEF PublishOutput
<1>2. c \in ModelCalls /\ Len(c.results) <= Len(c.outs)
  BY CallKinds DEF TypeInv, PublishOutput, ModelCalls, Onward, ResultsMatch
<1>3. UNCHANGED << blame, bundle, clientVars >>
  BY DEF PublishOutput
<1>4. CASE /\ status' \in {"jni_abort", "out_of_memory"}
           /\ UNCHANGED << call, handle, native, owner, content, written,
                           outputs >>
  BY <1>3, <1>4, DeadFrame DEF Faulty
<1>5. CASE /\ HandOver(t, b)
           /\ written' = [written EXCEPT ![t] = content[b]]
           /\ outputs' = outputs \cup {t}
           /\ call' = [call EXCEPT ![th] = c]
           /\ UNCHANGED status
  <2> HIDE DEF t, b, c
  <2>1. /\ call' \in [Threads -> IdleCalls \cup WriteCalls \cup ModelCalls
                                   \cup ExportCalls]
        /\ ResultsMatch'
    BY <1>2, <1>5, CallTypes
  <2>2. /\ handle' \in [Tensors -> Addrs \cup {NULL}]
        /\ native' \in [Addrs -> Bufs \cup {NULL}]
        /\ owner' \in [Addrs -> Tensors \cup {NULL}]
        /\ content' \in [Bufs -> Values \cup {Uninit}]
    BY <1>1, <1>5 DEF HandOver, setHandle, FreeAddrs, TypeInv, TypeOK,
                      HeapTypeOK
  <2>3. /\ written' \in [Tensors -> Values \cup {Uninit}]
        /\ outputs' \subseteq Tensors
    BY <1>1, <1>5 DEF TypeInv, TypeOK, HeapTypeOK
  <2>4. QED
    BY <1>3, <1>5, <2>1, <2>2, <2>3 DEF TypeInv, TypeOK, HeapTypeOK, clientVars
<1>6. QED
  BY <1>4, <1>5 DEF PublishOutput

LEMMA ReturnOutputsTypes ==
    ASSUME TypeInv, NEW th \in Threads, ReturnOutputs(th)
    PROVE  TypeInv'
BY ReturnTypes, SessionFrame DEF ReturnOutputs, TypeInv, TypeOK, HeapTypeOK

LEMMA CreateTypes ==
    ASSUME TypeInv, NEW th \in Threads, NEW b \in Bundles, Create(th, b)
    PROVE  TypeInv'
BY DEF Create, TypeInv, TypeOK, HeapTypeOK, tensorVars, ResultsMatch

LEMMA ExportTypes ==
    ASSUME TypeInv, NEW th \in Threads, NEW b \in Bundles, Export(th, b)
    PROVE  TypeInv'
<1> DEFINE c == [op |-> "export", bundle |-> b, reads |-> {}, writes |-> {},
                 bufs |-> {}]
<1>1. c \in ExportCalls /\ c.op # "publish"
  BY DEF ExportCalls
<1>2. blame' \subseteq Rules
  BY DEF TypeInv, TypeOK, HeapTypeOK, Export, Accept, ChargeBundle, Rules
<1>3. \/ UNCHANGED call /\ status' = "use_after_free"
      \/ call' = [call EXCEPT ![th] = c] /\ UNCHANGED status
  BY DEF Export
<1> HIDE DEF c
<1>4. /\ call' \in [Threads -> IdleCalls \cup WriteCalls \cup ModelCalls
                                 \cup ExportCalls]
      /\ ResultsMatch'
  BY <1>1, <1>3, CallTypes DEF TypeInv, TypeOK, ResultsMatch
<1>5. QED
  BY <1>2, <1>3, <1>4 DEF Export, TypeInv, TypeOK, HeapTypeOK, clientVars,
                          MemoryFaults

LEMMA FinishExportTypes ==
    ASSUME TypeInv, NEW th \in Threads, FinishExport(th)
    PROVE  TypeInv'
<1>1. UNCHANGED << handle, native, owner, written, blame, bundle, outputs,
                   clientVars >>
  BY DEF FinishExport
<1>2. CASE SessionGone(th)
  BY <1>1, <1>2, DeadFrame DEF SessionGone, MemoryFaults
<1>3. CASE Return(th) /\ UNCHANGED status
  BY <1>1, <1>3, ReturnTypes, SessionFrame DEF TypeInv, TypeOK, HeapTypeOK
<1>4. QED
  BY <1>2, <1>3 DEF FinishExport

LEMMA CloseBundleTypes ==
    ASSUME TypeInv, NEW th \in Threads, NEW b \in Bundles, CloseBundle(th, b)
    PROVE  TypeInv'
<1>1. blame' \subseteq Rules
  BY DEF TypeInv, TypeOK, HeapTypeOK, CloseBundle, Accept, ChargeBundle, Rules
<1>2. /\ bundle' \in [Bundles -> {"none", "loaded", "deleted", "leaked"}]
      /\ status' \in {status, "use_after_free"}
  BY DEF CloseBundle, TypeInv, TypeOK
<1>3. UNCHANGED << handle, native, content, call, owner, written, outputs,
                   clientVars >>
  BY DEF CloseBundle
<1>4. QED
  BY <1>1, <1>2, <1>3 DEF TypeInv, TypeOK, HeapTypeOK, clientVars,
                          MemoryFaults, ResultsMatch

(***************************************************************************)
(* One step: a case for each action.                                       *)
(***************************************************************************)
LEMMA TypeStep ==
    ASSUME TypeInv, [Next]_vars
    PROVE  TypeInv'
<1>1. CASE UNCHANGED vars
  BY <1>1 DEF vars, TypeInv, TypeOK, HeapTypeOK, ResultsMatch
<1>2. ASSUME NEW th \in Threads, Steps(th)
      PROVE  TypeInv'
  BY <1>2, WriteBytesTypes, FinishRunTypes, TrainStepTypes, FetchStepTypes,
     PublishOutputTypes, ReturnOutputsTypes, FinishExportTypes DEF Steps
<1>3. ASSUME NEW th \in Threads, Calls(th)
      PROVE  TypeInv'
  <2>1. CASE \E t \in Tensors :
               /\ \/ \E v \in Values, buffer \in ByteBuffers :
                        SetBytes(th, t, v, buffer)
                  \/ GetBytes(th, t)
                  \/ Close(th, t)
               /\ UNCHANGED << bundle, outputs >>
    BY <2>1, SetBytesTypes, GetBytesTypes, CloseTypes
  <2>2. CASE \E b \in Bundles :
               \/ Create(th, b)
               \/ Export(th, b)
               \/ CloseBundle(th, b)
    BY <2>2, CreateTypes, ExportTypes, CloseBundleTypes
  <2>3. CASE \E b \in Bundles, ins \in SUBSET Tensors, outs \in OutputArrays :
               Run(th, b, ins, outs) \/ Train(th, b, ins, outs)
    BY <2>3, BeginCallTypes DEF Run, Train
  <2>4. QED
    BY <1>3, <2>1, <2>2, <2>3 DEF Calls
<1>4. QED
  BY <1>1, <1>2, <1>3 DEF Next

LEMMA TypeStart == Init => TypeInv
BY IdleIsACall DEF Init, TensorInit, TypeInv, TypeOK, HeapTypeOK, ResultsMatch,
                   Idle

(***************************************************************************)
(* Whatever the clients do, the state of the library stays within its      *)
(* types, and the loop that hands over a session's results (PublishOutput) *)
(* stays within the outputs array it was given.                            *)
(***************************************************************************)
THEOREM TypeCorrect == Spec => [](TypeOK /\ ResultsMatch)
<1>1. TypeInv => TypeOK /\ ResultsMatch
  BY DEF TypeInv
<1>2. QED
  BY <1>1, TypeStart, TypeStep, PTL DEF Spec

-----------------------------------------------------------------------------
(***************************************************************************)
(* Tensors alone: module Tensor, in a process that loads no bundle.        *)
(***************************************************************************)

(* Without run and train, all native tensors come from setBytes. *)
HandlesBacked ==
    status = "running" => \A t \in Tensors : handle[t] # NULL => isBacked[t]

TensorInv == TensorTypeOK /\ HandlesBacked /\ NoLeak

(* What the calls look like after thread th has left or entered one. *)
LEMMA TensorCalls ==
    ASSUME TensorTypeOK, NEW th \in Threads, NEW c \in IdleCalls \cup WriteCalls,
           call' = [call EXCEPT ![th] = c]
    PROVE  call' \in [Threads -> IdleCalls \cup WriteCalls]
BY DEF TensorTypeOK

LEMMA SetBytesAlone ==
    ASSUME TensorInv, NEW th \in Threads, NEW t \in Tensors, NEW v \in Values,
           NEW buffer \in ByteBuffers, SetBytes(th, t, v, buffer)
    PROVE  TensorInv'
<1> DEFINE c == [op |-> "writeBytes", reads |-> {}, writes |-> {t},
                 bufs |-> {}, tensor |-> t, data |-> v,
                 direct |-> buffer # "heap"]
<1>1. c \in WriteCalls
  BY DEF WriteCalls
<1>2. call' = [call EXCEPT ![th] = c]
  BY DEF SetBytes
<1> HIDE DEF c
<1>3. call' \in [Threads -> IdleCalls \cup WriteCalls]
  BY <1>1, <1>2, TensorCalls DEF TensorInv
<1>4. /\ createBackingTensor(t) /\ UNCHANGED << view, closed >>
      /\ status = "running" /\ Open' = Open
      /\ blame' \subseteq Rules
      /\ Lawful' => Lawful /\ t \in Open
  BY DEF SetBytes, Ready, Accept, Charge, Open, Lawful, Rules, TensorInv,
         TensorTypeOK, HeapTypeOK
<1>5. CASE UNCHANGED << handle, isBacked, native, owner, content, written,
                        status >>
  BY <1>3, <1>4, <1>5 DEF TensorInv, TensorTypeOK, HeapTypeOK, HandlesBacked,
                          NoLeak
<1>6. CASE ~isBacked[t] /\ create(t)
             /\ isBacked' = [isBacked EXCEPT ![t] = (status' = "running")]
  <2>1. handle[t] = NULL
    BY <1>4, <1>6 DEF TensorInv, HandlesBacked
  <2>2. /\ status' \in {status, "out_of_memory"}
        /\ written' \in [Tensors -> Values \cup {Uninit}]
        /\ isBacked' \in [Tensors -> BOOLEAN]
        /\ content' \in [Bufs -> Values \cup {Uninit}]
    BY <1>6 DEF create, TensorInv, TensorTypeOK, HeapTypeOK
  <2>3. CASE UNCHANGED << handle, native, owner >> /\ status' = "out_of_memory"
    BY <1>3, <1>4, <2>2, <2>3 DEF TensorInv, TensorTypeOK, HeapTypeOK,
                                  HandlesBacked, NoLeak
  <2>4. ASSUME NEW a \in FreeAddrs, NEW b \in FreeBufs, setHandle(t, a, b),
               UNCHANGED status
        PROVE  TensorInv'
    <3>1. a \in Addrs /\ native[a] = NULL /\ b \in Bufs
      BY DEF FreeAddrs, FreeBufs
    <3>2. /\ handle' \in [Tensors -> Addrs \cup {NULL}]
          /\ native' \in [Addrs -> Bufs \cup {NULL}]
          /\ owner' \in [Addrs -> Tensors \cup {NULL}]
          /\ \A u \in Tensors : handle'[u] = IF u = t THEN a ELSE handle[u]
          /\ \A x \in Addrs : native'[x] = IF x = a THEN b ELSE native[x]
      BY <2>4, <3>1 DEF setHandle, TensorInv, TensorTypeOK, HeapTypeOK
    <3>3. TensorTypeOK'
      BY <1>3, <1>4, <2>2, <2>4, <3>2 DEF TensorInv, TensorTypeOK, HeapTypeOK
    <3>4. HandlesBacked'
      BY <1>4, <1>6, <2>4, <3>2 DEF HandlesBacked, TensorInv, TensorTypeOK,
                                    HeapTypeOK
    <3>5. NoLeak'
      <4>1. SUFFICES ASSUME Lawful', NEW x \in Addrs, native'[x] # NULL
                     PROVE  \E u \in Open : handle'[u] = x
        BY <1>4 DEF NoLeak
      <4>2. CASE x = a
        BY <1>4, <3>2, <4>1, <4>2
      <4>3. CASE x # a
        <5>1. PICK u \in Open : handle[u] = x
          BY <1>4, <3>2, <4>1, <4>3 DEF TensorInv, NoLeak
        <5>2. u # t /\ u \in Tensors
          BY <2>1, <4>1, <5>1 DEF Open
        <5>3. QED
          BY <3>2, <5>1, <5>2
      <4>4. QED
        BY <4>2, <4>3
    <3>6. QED
      BY <3>3, <3>4, <3>5 DEF TensorInv
  <2>5. QED
    BY <1>6, <2>3, <2>4 DEF create
<1>7. QED
  BY <1>4, <1>5, <1>6 DEF createBackingTensor

LEMMA WriteBytesAlone ==
    ASSUME TensorInv, NEW th \in Threads, WriteBytes(th)
    PROVE  TensorInv'
<1>1. call[th].tensor \in Tensors /\ call[th].data \in Values
  BY DEF WriteBytes, TensorInv, TensorTypeOK, IdleCalls, WriteCalls
<1>2. call' \in [Threads -> IdleCalls \cup WriteCalls]
  BY IdleIsACall, TensorCalls DEF WriteBytes, TensorInv
<1>3. HeapTypeOK' /\ status' \in {"running", "out_of_memory"} \cup MemoryFaults
  BY <1>1 DEF TensorInv, TensorTypeOK, HeapTypeOK, WriteBytes, Deref, BufferOf,
              MemoryFaults
<1>4. HandlesBacked' /\ NoLeak'
  BY DEF WriteBytes, TensorInv, HandlesBacked, NoLeak, Lawful, Open
<1>5. QED
  BY <1>2, <1>3, <1>4 DEF TensorInv, TensorTypeOK

LEMMA GetBytesAlone ==
    ASSUME TensorInv, NEW th \in Threads, NEW t \in Tensors, GetBytes(th, t)
    PROVE  TensorInv'
<1>1. view' \in [Tensors -> Views \cup {NULL}]
  BY DEF TensorInv, TensorTypeOK, HeapTypeOK, GetBytes, Deref, BufferOf, Views
<1>2. blame' \subseteq Rules /\ (Lawful' => Lawful)
  BY DEF TensorInv, TensorTypeOK, HeapTypeOK, GetBytes, Accept, Charge, Lawful
<1>3. status' \in {"running", "out_of_memory"} \cup MemoryFaults
  BY DEF TensorInv, TensorTypeOK, GetBytes, Deref, MemoryFaults
<1>4. TensorTypeOK'
  BY <1>1, <1>2, <1>3 DEF TensorInv, TensorTypeOK, HeapTypeOK, GetBytes
<1>5. HandlesBacked' /\ NoLeak'
  BY <1>2 DEF GetBytes, Ready, TensorInv, HandlesBacked, NoLeak, Open
<1>6. QED
  BY <1>4, <1>5 DEF TensorInv

LEMMA CloseAlone ==
    ASSUME TensorInv, NEW th \in Threads, NEW t \in Tensors, Close(th, t)
    PROVE  TensorInv'
<1>1. TensorTypeOK'
  BY DEF TensorInv, TensorTypeOK, HeapTypeOK, Close, Deref, Accept, Charge,
         MemoryFaults
<1>2. HandlesBacked'
  BY DEF Close, Ready, TensorInv, HandlesBacked
<1>3. NoLeak'
  <2>1. SUFFICES ASSUME Lawful', NEW a \in Addrs, native'[a] # NULL
                 PROVE  \E u \in Open' : handle[u] = a
    BY DEF NoLeak, Close
  <2>2. /\ Lawful /\ NoLeak /\ Open' = Open \ {t}
    BY <2>1 DEF Close, Accept, Lawful, Open, TensorInv
  <2>3. native[a] # NULL /\ handle[t] # a
    BY <2>1 DEF Close, Deref, TensorInv, TensorTypeOK, HeapTypeOK
  <2>4. QED
    BY <2>2, <2>3 DEF NoLeak
<1>4. QED
  BY <1>1, <1>2, <1>3 DEF TensorInv

LEMMA TensorInvariant == TensorSpec => []TensorInv
<1>1. TensorInit => TensorInv
  BY IdleIsACall DEF TensorInit, TensorInv, TensorTypeOK, HeapTypeOK,
                     HandlesBacked, NoLeak
<1>2. TensorInv /\ [TensorNext]_tensorVars => TensorInv'
  <2> SUFFICES ASSUME TensorInv, [TensorNext]_tensorVars PROVE TensorInv'
    OBVIOUS
  <2>1. CASE UNCHANGED tensorVars
    BY <2>1 DEF tensorVars, TensorInv, TensorTypeOK, HeapTypeOK, HandlesBacked,
                NoLeak, Lawful, Open
  <2>2. CASE TensorNext
    BY <2>2, SetBytesAlone, WriteBytesAlone, GetBytesAlone, CloseAlone
       DEF TensorNext
  <2>3. QED
    BY <2>1, <2>2
<1>3. QED
  BY <1>1, <1>2, PTL DEF TensorSpec

(***************************************************************************)
(* Every reachable state of the tensors of a process without bundles is    *)
(* well typed, calls in flight are those of setBytes, and no fault but one *)
(* of memory ends the process, for any number of threads and tensors.      *)
(***************************************************************************)
THEOREM TensorTypeCorrect == TensorSpec => []TensorTypeOK
<1>1. TensorInv => TensorTypeOK
  BY DEF TensorInv
<1>2. QED
  BY <1>1, TensorInvariant, PTL

(***************************************************************************)
(* In such a process close() frees all that createBackingTensor allocated: *)
(* isBacked keeps setBytes from allocating for a tensor a second time.     *)
(***************************************************************************)
THEOREM TensorsNeverLeak == TensorSpec => []NoLeak
<1>1. TensorInv => NoLeak
  BY DEF TensorInv
<1>2. QED
  BY <1>1, TensorInvariant, PTL

(* No bundle is ever loaded, and so no tensor is ever an output. *)
Unbundled ==
    /\ bundle = [b \in Bundles |-> "none"]
    /\ outputs = {}
    /\ [][FALSE]_<< bundle, outputs >>

(***************************************************************************)
(* A process that only uses tensors is one that has loaded no bundle yet:  *)
(* what is proved of the library holds of its tensors alone.               *)
(***************************************************************************)
THEOREM TensorsAreLibrary == TensorSpec /\ Unbundled => Spec
<1>1. TensorInit /\ bundle = [b \in Bundles |-> "none"] /\ outputs = {} => Init
  BY DEF Init
<1>2. [TensorNext]_tensorVars /\ [FALSE]_<< bundle, outputs >> => [Next]_vars
  <2> SUFFICES ASSUME [TensorNext]_tensorVars, UNCHANGED << bundle, outputs >>
               PROVE  [Next]_vars
    OBVIOUS
  <2>1. CASE UNCHANGED tensorVars
    BY <2>1 DEF tensorVars, vars
  <2>2. CASE TensorNext
    BY <2>2 DEF TensorNext, Next, Steps, Calls
  <2>3. QED
    BY <2>1, <2>2
<1>3. QED
  BY <1>1, <1>2, PTL DEF TensorSpec, Spec, Unbundled
=============================================================================
