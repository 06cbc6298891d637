---------------------------- MODULE OutputProofs ----------------------------
(***************************************************************************)
(* What clients are promised of the tensors that run and train fill: which *)
(* result each one gets, which native tensors stay behind, that a view of  *)
(* an output never changes, that an output always has bytes to show, and   *)
(* which faults there can be when an output shares an input's buffer.      *)
(***************************************************************************)
EXTENDS BufferProofs

USE TensorAssumption, BundleAssumption

-----------------------------------------------------------------------------
(***************************************************************************)
(* What a step may do to the heap and to the calls in flight.              *)
(***************************************************************************)

(* setBytes on a tensor that had no backing tensor has made one for it. *)
Backs(t) ==
    /\ ~isBacked[t]
    /\ create(t)
    /\ isBacked' = [isBacked EXCEPT ![t] = (status' = "running")]

heapVars == << handle, isBacked, native, owner, closed, outputs >>

(* Only three operations change what the Java tensors point to. *)
LEMMA HeapSteps ==
    ASSUME Next
    PROVE  \/ UNCHANGED heapVars
           \/ \E th \in Threads, t \in Tensors, v \in Values,
                 buffer \in ByteBuffers :
                 /\ SetBytes(th, t, v, buffer) /\ Backs(t)
                 /\ UNCHANGED << bundle, outputs >>
           \/ \E th \in Threads, t \in Tensors :
                 Close(th, t) /\ UNCHANGED << bundle, outputs >>
           \/ \E th \in Threads : PublishOutput(th)
<1>1. PICK th \in Threads : Steps(th) \/ Calls(th)
  BY DEF Next
<1>2. CASE Steps(th)
  BY <1>2 DEF Steps, WriteBytes, FinishRun, TrainStep, FetchStep,
              ReturnOutputs, FinishExport, clientVars, heapVars
<1>3. CASE Calls(th)
  <2>1. ASSUME NEW t \in Tensors, NEW v \in Values, NEW buffer \in ByteBuffers,
               SetBytes(th, t, v, buffer), UNCHANGED << bundle, outputs >>
        PROVE  UNCHANGED heapVars \/ Backs(t)
    BY <2>1 DEF SetBytes, createBackingTensor, Backs, heapVars
  <2>2. ASSUME NEW t \in Tensors, GetBytes(th, t),
               UNCHANGED << bundle, outputs >>
        PROVE  UNCHANGED heapVars
    BY <2>2 DEF GetBytes, heapVars
  <2>3. ASSUME NEW b \in Bundles,
               Create(th, b) \/ Export(th, b) \/ CloseBundle(th, b)
        PROVE  UNCHANGED heapVars
    BY <2>3 DEF Create, Export, CloseBundle, tensorVars, clientVars, heapVars
  <2>4. ASSUME NEW b \in Bundles, NEW ins \in SUBSET Tensors,
               NEW outs \in OutputArrays,
               Run(th, b, ins, outs) \/ Train(th, b, ins, outs)
        PROVE  UNCHANGED heapVars
    BY <2>4 DEF Run, Train, BeginCall, clientVars, heapVars
  <2>5. QED
    BY <1>3, <2>1, <2>2, <2>3, <2>4 DEF Calls
<1>4. QED
  BY <1>1, <1>2, <1>3

(* No step starts once the process has ended, or lifts a client's blame. *)
LEMMA LawfulBefore ==
    ASSUME Next
    PROVE  status = "running" /\ (Lawful' => Lawful)
<1>1. PICK th \in Threads : Steps(th) \/ Calls(th)
  BY DEF Next
<1>2. CASE Steps(th)
  BY <1>2 DEF Steps, WriteBytes, FinishRun, TrainStep, FetchStep,
              PublishOutput, ReturnOutputs, FinishExport, Lawful
<1>3. CASE Calls(th)
  <2>1. \A X : Accept(X) => (Lawful' => Lawful)
    BY DEF Accept, Lawful
  <2>2. ASSUME NEW t \in Tensors,
               \/ \E v \in Values, buffer \in ByteBuffers :
                     SetBytes(th, t, v, buffer)
               \/ GetBytes(th, t) \/ Close(th, t)
        PROVE  status = "running" /\ (Lawful' => Lawful)
    BY <2>1, <2>2 DEF SetBytes, GetBytes, Close, Ready
  <2>3. ASSUME NEW b \in Bundles, Create(th, b)
        PROVE  status = "running" /\ (Lawful' => Lawful)
    BY <2>3 DEF Create, Ready, Lawful, tensorVars
  <2>4. ASSUME NEW b \in Bundles, Export(th, b) \/ CloseBundle(th, b)
        PROVE  status = "running" /\ (Lawful' => Lawful)
    BY <2>1, <2>4 DEF Export, CloseBundle, Ready
  <2>5. ASSUME NEW b \in Bundles, NEW ins \in SUBSET Tensors,
               NEW outs \in OutputArrays,
               Run(th, b, ins, outs) \/ Train(th, b, ins, outs)
        PROVE  status = "running" /\ (Lawful' => Lawful)
    BY <2>1, <2>5 DEF Run, Train, BeginCall, Ready
  <2>6. QED
    BY <1>3, <2>2, <2>3, <2>4, <2>5 DEF Calls
<1>4. QED
  BY <1>1, <1>2, <1>3

(* What setHandle does, for a new address. *)
LEMMA SetHandleEffect ==
    ASSUME AddressInv, NEW t \in Tensors, NEW a \in FreeAddrs, NEW b \in Bufs,
           setHandle(t, a, b)
    PROVE  /\ a \in Addrs /\ native[a] = NULL /\ a # NULL /\ b # NULL
           /\ \A u \in Tensors : handle'[u] = IF u = t THEN a ELSE handle[u]
           /\ \A x \in Addrs : native'[x] = IF x = a THEN b ELSE native[x]
           /\ \A x \in Addrs : owner'[x] = IF x = a THEN t ELSE owner[x]
BY DEF FreeAddrs, setHandle, AddressInv, TypeInv, TypeOK, HeapTypeOK

(* What createBackingTensor does when it does something. *)
LEMMA BacksEffect ==
    ASSUME AddressInv, NEW t \in Tensors, Backs(t)
    PROVE  \/ /\ status' = "out_of_memory"
              /\ UNCHANGED << handle, native, owner, isBacked, content, written >>
           \/ \E a \in FreeAddrs, b \in FreeBufs :
                 /\ setHandle(t, a, b)
                 /\ content' = [content EXCEPT ![b] = Uninit]
                 /\ written' = [written EXCEPT ![t] = Uninit]
                 /\ UNCHANGED status
<1>1. CASE /\ status' = "out_of_memory"
           /\ UNCHANGED << handle, native, owner, content, written >>
  <2>1. isBacked' = isBacked
    BY <1>1 DEF Backs, AddressInv, TypeInv, TypeOK, HeapTypeOK
  <2>2. QED
    BY <1>1, <2>1
<1>2. QED
  BY <1>1 DEF Backs, create

(* What the steps of a call that is handing over outputs leave of it. *)
LEMMA PublishEffect ==
    ASSUME AddressInv, NEW th \in Threads, PublishOutput(th)
    PROVE  /\ call[th].op = "publish" /\ call[th] \in ModelCalls
           /\ call[th].next \in 1..Len(call[th].results)
           /\ call[th].next \in 1..Len(call[th].outs)
           /\ call[th].outs[call[th].next] \in Tensors
           /\ call[th].outs[call[th].next] \in call[th].writes
           /\ NextResult(th) \in Bufs
           /\ UNCHANGED << isBacked, view, closed, content, blame >>
           /\ \/ UNCHANGED << call, handle, native, owner, written, outputs >>
              \/ /\ \E a \in FreeAddrs :
                      setHandle(call[th].outs[call[th].next], a, NextResult(th))
                 /\ written' = [written EXCEPT ![call[th].outs[call[th].next]] =
                                  content[NextResult(th)]]
                 /\ outputs' = outputs \cup {call[th].outs[call[th].next]}
                 /\ \A u \in Threads \ {th} : call'[u] = call[u]
                 /\ call'[th] = Onward(call[th], "publish", call[th].bufs,
                                       call[th].results, call[th].next + 1,
                                       call[th].pending)
<1>1. /\ status = "running" /\ call[th].op = "publish"
      /\ call[th].next <= Len(call[th].results)
  BY DEF PublishOutput
<1>2. call[th] \in ModelCalls
  BY <1>1, CallKinds DEF AddressInv, TypeInv
<1>3. /\ call[th].next \in 1..Len(call[th].results)
      /\ call[th].next \in 1..Len(call[th].outs)
  BY <1>1, <1>2 DEF ModelCalls, AddressInv, TypeInv, ResultsMatch
<1>4. /\ call[th].outs[call[th].next] \in Tensors
      /\ NextResult(th) \in Bufs
  BY <1>1, PublishTypes DEF AddressInv
<1>5. call[th].outs[call[th].next] \in call[th].writes
  BY <1>1, <1>2, <1>3 DEF AddressInv, CallShapes, Range, ModelCalls
<1>6. call \in [Threads -> IdleCalls \cup WriteCalls \cup ModelCalls
                              \cup ExportCalls]
  BY DEF AddressInv, TypeInv, TypeOK
<1>7. QED
  BY <1>1, <1>2, <1>3, <1>4, <1>5, <1>6
     DEF PublishOutput, HandOver, clientVars

-----------------------------------------------------------------------------
(***************************************************************************)
(* Only output tensors leak.                                               *)
(***************************************************************************)

(* The native tensor that an open tensor points to was made for it. *)
OwnersKnown ==
    \A t \in Open : handle[t] # NULL => owner[handle[t]] = t

(* Whoever has a native tensor that setBytes did not make got it as output. *)
UnbackedAreOutputs ==
    \A t \in Open : handle[t] # NULL /\ ~isBacked[t] => t \in outputs

LeakInv ==
    /\ AddressInv
    /\ Lawful => OwnersKnown /\ UnbackedAreOutputs
    /\ OnlyOutputsLeak

(* A tensor may be given a new native tensor if its old one may leak. *)
LEMMA SetHandleLeak ==
    ASSUME LeakInv, Lawful, Lawful', status = "running",
           NEW t \in Open, NEW a \in FreeAddrs, NEW b \in Bufs,
           setHandle(t, a, b), UNCHANGED closed,
           outputs \subseteq outputs',
           handle[t] # NULL => t \in outputs',
           t \in outputs' \/ isBacked'[t],
           \A u \in Tensors : u # t => isBacked'[u] = isBacked[u]
    PROVE  OwnersKnown' /\ UnbackedAreOutputs' /\ OnlyOutputsLeak'
<1>1. /\ AddressInv /\ LiveHandles /\ OwnersKnown /\ UnbackedAreOutputs
      /\ OnlyOutputsLeak
  BY DEF LeakInv, AddressInv
<1>2. /\ Open' = Open /\ Open \subseteq Tensors
      /\ \A u \in Open : handle[u] # NULL => handle[u] \in Addrs
  BY <1>1 DEF Open, AddressInv, TypeInv, TypeOK, HeapTypeOK
<1>3. /\ a \in Addrs /\ native[a] = NULL /\ a # NULL /\ b # NULL
      /\ \A u \in Tensors : handle'[u] = IF u = t THEN a ELSE handle[u]
      /\ \A x \in Addrs : native'[x] = IF x = a THEN b ELSE native[x]
      /\ \A x \in Addrs : owner'[x] = IF x = a THEN t ELSE owner[x]
  BY <1>1, <1>2, SetHandleEffect
<1>4. \A u \in Open : handle[u] # NULL => handle[u] # a
  BY <1>1, <1>3 DEF LiveHandles
<1>5. OwnersKnown'
  BY <1>1, <1>2, <1>3, <1>4 DEF OwnersKnown
<1>6. UnbackedAreOutputs'
  BY <1>1, <1>2, <1>3 DEF UnbackedAreOutputs
<1>7. OnlyOutputsLeak'
  <2>1. SUFFICES ASSUME NEW x \in Addrs, native'[x] # NULL
                 PROVE  \/ \E u \in Open : handle'[u] = x
                        \/ owner'[x] \in outputs'
    BY <1>2 DEF OnlyOutputsLeak
  <2>2. CASE x = a
    BY <1>2, <1>3, <2>2
  <2>3. CASE x # a
    <3>1. native[x] # NULL /\ owner'[x] = owner[x]
      BY <1>3, <2>1, <2>3
    <3>2. CASE owner[x] \in outputs
      BY <3>1, <3>2
    <3>3. ASSUME NEW u \in Open, handle[u] = x
          PROVE  \/ \E w \in Open : handle'[w] = x
                 \/ owner'[x] \in outputs'
      <4>1. CASE u = t
        <5>1. handle[t] # NULL
          BY <3>3, <4>1
        <5>2. owner[x] = t
          BY <1>1, <3>3, <4>1, <5>1 DEF OwnersKnown
        <5>3. QED
          BY <3>1, <5>1, <5>2
      <4>2. CASE u # t
        BY <1>2, <1>3, <3>3, <4>2
      <4>3. QED
        BY <4>1, <4>2
    <3>4. QED
      BY <1>1, <3>1, <3>2, <3>3 DEF OnlyOutputsLeak
  <2>4. QED
    BY <2>2, <2>3
<1>8. QED
  BY <1>5, <1>6, <1>7

LEMMA SetBytesLeak ==
    ASSUME LeakInv, Lawful', NEW th \in Threads, NEW t \in Tensors,
           NEW v \in Values, NEW buffer \in ByteBuffers,
           SetBytes(th, t, v, buffer), Backs(t), UNCHANGED outputs
    PROVE  OwnersKnown' /\ UnbackedAreOutputs' /\ OnlyOutputsLeak'
<1>1. /\ status = "running" /\ UNCHANGED closed /\ Open' = Open /\ ~isBacked[t]
      /\ isBacked' = [isBacked EXCEPT ![t] = (status' = "running")]
      /\ Accept(Charge(th, {}, {t}))
  BY DEF SetBytes, Ready, Open, Backs
<1>2. Lawful /\ t \in Open
  BY <1>1, LawfulTensorStart DEF Open
<1>3. /\ AddressInv /\ OwnersKnown /\ UnbackedAreOutputs /\ OnlyOutputsLeak
  BY <1>2 DEF LeakInv
<1>4. CASE UNCHANGED << handle, native, owner, isBacked >>
  BY <1>1, <1>2, <1>3, <1>4
     DEF OwnersKnown, UnbackedAreOutputs, OnlyOutputsLeak
<1>5. ASSUME NEW a \in FreeAddrs, NEW b \in FreeBufs, setHandle(t, a, b),
             UNCHANGED status
      PROVE  OwnersKnown' /\ UnbackedAreOutputs' /\ OnlyOutputsLeak'
  <2>1. handle[t] # NULL => t \in outputs
    BY <1>1, <1>2, <1>3 DEF UnbackedAreOutputs
  <2>2. /\ isBacked'[t]
        /\ \A u \in Tensors : u # t => isBacked'[u] = isBacked[u]
    BY <1>1, <1>3, <1>5 DEF AddressInv, TypeInv, TypeOK, HeapTypeOK
  <2>3. b \in Bufs
    BY DEF FreeBufs
  <2>4. QED
    BY <1>1, <1>2, <1>5, <2>1, <2>2, <2>3, SetHandleLeak
<1>6. QED
  BY <1>3, <1>4, <1>5, BacksEffect

LEMMA PublishLeak ==
    ASSUME LeakInv, Lawful', NEW th \in Threads, PublishOutput(th)
    PROVE  OwnersKnown' /\ UnbackedAreOutputs' /\ OnlyOutputsLeak'
<1> DEFINE t == call[th].outs[call[th].next]
<1>1. /\ status = "running" /\ Lawful /\ AddressInv
      /\ OwnersKnown /\ UnbackedAreOutputs /\ OnlyOutputsLeak /\ CallsOpen
  BY DEF PublishOutput, Lawful, LeakInv, AddressInv
<1>2. /\ t \in Tensors /\ t \in call[th].writes /\ NextResult(th) \in Bufs
      /\ UNCHANGED << isBacked, closed >> /\ Open' = Open
  BY <1>1, PublishEffect DEF Open
<1>3. t \in Open
  BY <1>1, <1>2 DEF CallsOpen, Open
<1>4. CASE UNCHANGED << handle, native, owner, outputs >>
  BY <1>1, <1>2, <1>4 DEF OwnersKnown, UnbackedAreOutputs, OnlyOutputsLeak
<1>5. CASE /\ \E a \in FreeAddrs : setHandle(t, a, NextResult(th))
           /\ outputs' = outputs \cup {t}
  BY <1>1, <1>2, <1>3, <1>5, SetHandleLeak
<1>6. QED
  BY <1>1, <1>4, <1>5, PublishEffect

LEMMA CloseLeak ==
    ASSUME LeakInv, Lawful', NEW th \in Threads, NEW t \in Tensors,
           Close(th, t), UNCHANGED outputs
    PROVE  OwnersKnown' /\ UnbackedAreOutputs' /\ OnlyOutputsLeak'
<1>1. /\ status = "running" /\ Open' = Open \ {t}
      /\ UNCHANGED << handle, isBacked >> /\ Accept(Charge(th, {}, {t}))
  BY DEF Close, Ready, Open
<1>2. Lawful /\ t \in Open
  BY <1>1, LawfulTensorStart DEF Open
<1>3. /\ AddressInv /\ LiveHandles /\ DistinctHandles
      /\ OwnersKnown /\ UnbackedAreOutputs /\ OnlyOutputsLeak
  BY <1>1, <1>2 DEF LeakInv, AddressInv
<1>4. /\ \A u \in Open : handle[u] # NULL => handle[u] \in Addrs
      /\ NULL \notin Addrs
  BY <1>3 DEF Open, AddressInv, TypeInv, TypeOK, HeapTypeOK
<1>5. \A x \in Addrs : x # handle[t] =>
          native'[x] = native[x] /\ owner'[x] = owner[x]
  BY <1>3 DEF Close, AddressInv, TypeInv, TypeOK, HeapTypeOK
<1>6. handle[t] # NULL => native'[handle[t]] = NULL
  BY <1>2, <1>3, <1>4 DEF Close, Deref, LiveHandles, AddressInv, TypeInv,
                          TypeOK, HeapTypeOK
<1>7. OwnersKnown'
  BY <1>1, <1>2, <1>3, <1>4, <1>5 DEF OwnersKnown, DistinctHandles
<1>8. UnbackedAreOutputs'
  BY <1>1, <1>3 DEF UnbackedAreOutputs
<1>9. OnlyOutputsLeak'
  <2>1. SUFFICES ASSUME NEW x \in Addrs, native'[x] # NULL
                 PROVE  \/ \E u \in Open \ {t} : handle[u] = x
                        \/ owner'[x] \in outputs
    BY <1>1 DEF OnlyOutputsLeak
  <2>2. x # handle[t]
    BY <1>4, <1>6, <2>1
  <2>3. QED
    BY <1>2, <1>3, <1>5, <2>1, <2>2 DEF OnlyOutputsLeak
<1>10. QED
  BY <1>7, <1>8, <1>9

LEMMA LeakStep ==
    ASSUME LeakInv, [Next]_vars
    PROVE  LeakInv'
<1>1. AddressInv'
  BY AddressStep DEF LeakInv
<1>2. SUFFICES ASSUME Lawful'
               PROVE  OwnersKnown' /\ UnbackedAreOutputs' /\ OnlyOutputsLeak'
  BY <1>1 DEF LeakInv, OnlyOutputsLeak
<1>3. CASE UNCHANGED heapVars /\ Lawful
  <2>1. Open' = Open
    BY <1>3 DEF heapVars, Open
  <2>2. QED
    BY <1>3, <2>1 DEF LeakInv, heapVars, OwnersKnown, UnbackedAreOutputs,
                      OnlyOutputsLeak
<1>4. CASE UNCHANGED vars
  BY <1>2, <1>3, <1>4 DEF vars, heapVars, Lawful
<1>5. CASE Next
  BY <1>2, <1>3, <1>5, HeapSteps, LawfulBefore, SetBytesLeak, PublishLeak,
     CloseLeak
<1>6. QED
  BY <1>4, <1>5

LEMMA LeakStart == Init => LeakInv
<1> SUFFICES ASSUME Init PROVE LeakInv
  OBVIOUS
<1>1. AddressInv
  BY AddressStart
<1>2. /\ \A t \in Tensors : handle[t] = NULL
      /\ \A a \in Addrs : native[a] = NULL
  BY DEF Init, TensorInit
<1>3. QED
  BY <1>1, <1>2 DEF LeakInv, OwnersKnown, UnbackedAreOutputs, OnlyOutputsLeak,
                    Open

(***************************************************************************)
(* For every graph and any number of calls, close() frees everything that  *)
(* setBytes and setHandle ever allocated for a tensor, unless run or train *)
(* has put an output in it: what is left behind belongs to an output.      *)
(***************************************************************************)
THEOREM LeaksAreOutputs == Spec => []OnlyOutputsLeak
<1>1. LeakInv => OnlyOutputsLeak
  BY DEF LeakInv
<1>2. QED
  BY <1>1, LeakStart, LeakStep, PTL DEF Spec

-----------------------------------------------------------------------------
(***************************************************************************)
(* Each output gets the result of its position.                            *)
(***************************************************************************)

(* The loop over the results ends just behind the last one. *)
NextInRange ==
    \A th \in Threads : call[th].op = "publish" =>
        call[th].next <= Len(call[th].results) + 1

PositionInv == AddressInv /\ NextInRange /\ OutputsByPosition

(***************************************************************************)
(* A call is handing over outputs after a step if it was before, starts    *)
(* with the first one, or has just handed one over.                        *)
(***************************************************************************)
LEMMA PublishingCalls ==
    ASSUME AddressInv, Next, NEW th \in Threads, call'[th].op = "publish"
    PROVE  \/ call'[th] = call[th]
           \/ call'[th].next = 1 /\ call'[th].results \in Seq(Bufs)
           \/ PublishOutput(th)
<1>1. PICK u \in Threads : Steps(u) \/ Calls(u)
  BY DEF Next
<1>2. call \in [Threads -> IdleCalls \cup WriteCalls \cup ModelCalls
                              \cup ExportCalls]
  BY DEF AddressInv, TypeInv, TypeOK
<1>3. ASSUME NEW c, c.op # "publish", call' \in {call, [call EXCEPT ![u] = c]}
      PROVE  call'[th] = call[th]
  BY <1>2, <1>3
<1>4. Idle.op # "publish"
  BY DEF Idle
<1>5. ASSUME NEW n, NEW failed, Fetched(u, n, failed)
      PROVE  call'[th] = call[th] \/ call'[th].next = 1
  <2>1. PICK r : call' = [call EXCEPT ![u] =
                   Onward(call[u], "publish", call[u].bufs \cup Range(r),
                          r, 1, call[u].pending \/ failed)]
    BY <1>5 DEF Fetched
  <2>2. QED
    BY <1>2, <2>1 DEF Onward
<1>6. call'[th].results \in Seq(Bufs)
  <2>1. TypeInv'
    BY AddressStep DEF AddressInv
  <2>2. call'[th] \in IdleCalls \cup WriteCalls \cup ModelCalls \cup ExportCalls
    BY <2>1 DEF TypeInv, TypeOK
  <2>3. QED
    BY <2>2 DEF IdleCalls, WriteCalls, ModelCalls, ExportCalls
<1>7. CASE Steps(u)
  <2>1. CASE WriteBytes(u) \/ ReturnOutputs(u) \/ FinishExport(u)
    <3>1. call' \in {call, [call EXCEPT ![u] = Idle]}
      BY <2>1 DEF WriteBytes, ReturnOutputs, FinishExport, Return, SessionGone
    <3>2. QED
      BY <1>3, <1>4, <3>1
  <2>2. CASE FinishRun(u)
    <3>1. \/ call' \in {call, [call EXCEPT ![u] = Idle]}
          \/ Fetched(u, Len(call[u].outs), FALSE)
      BY <2>2 DEF FinishRun, Return, SessionGone, Exhausted
    <3>2. QED
      BY <1>3, <1>4, <1>5, <1>6, <3>1
  <2>3. CASE TrainStep(u)
    <3>1. CASE UNCHANGED call
      BY <3>1
    <3>2. ASSUME NEW failed \in BOOLEAN,
                 call' = [call EXCEPT ![u] =
                            Onward(@, "fetch", @.bufs, << >>, 1, failed)]
          PROVE  call'[th] = call[th]
      BY <1>2, <3>2 DEF Onward
    <3>3. QED
      BY <2>3, <3>1, <3>2 DEF TrainStep, SessionGone
  <2>4. CASE FetchStep(u)
    <3>1. UNCHANGED call \/ \E n, failed : Fetched(u, n, failed)
      BY <2>4 DEF FetchStep, FetchFailed, SessionGone, Exhausted
    <3>2. QED
      BY <1>5, <1>6, <3>1
  <2>5. CASE PublishOutput(u)
    BY <2>5, PublishEffect
  <2>6. QED
    BY <1>7, <2>1, <2>2, <2>3, <2>4, <2>5 DEF Steps
<1>8. CASE Calls(u)
  <2>1. CASE UNCHANGED call
    BY <2>1
  <2>2. ASSUME NEW t \in Tensors, NEW v \in Values, NEW buffer \in ByteBuffers,
               SetBytes(u, t, v, buffer)
        PROVE  call'[th] = call[th]
    BY <1>2, <2>2 DEF SetBytes
  <2>3. ASSUME NEW b \in Bundles, Export(u, b)
        PROVE  call'[th] = call[th]
    BY <1>2, <2>3 DEF Export
  <2>4. ASSUME NEW b \in Bundles, NEW ins \in SUBSET Tensors,
               NEW outs \in OutputArrays, NEW op \in {"run", "train"},
               BeginCall(u, op, b, ins, outs)
        PROVE  call'[th] = call[th]
    BY <1>2, <2>4 DEF BeginCall
  <2>5. QED
    BY <1>8, <2>1, <2>2, <2>3, <2>4
       DEF Calls, GetBytes, Close, Create, CloseBundle, tensorVars, Run, Train
<1>9. QED
  BY <1>1, <1>7, <1>8

(***************************************************************************)
(* Nobody but the call itself moves or frees the native tensors of its     *)
(* outputs, while clients are lawful.                                      *)
(***************************************************************************)
LEMMA OutputsUndisturbed ==
    ASSUME AddressInv, Next, Lawful', NEW th \in Threads,
           call'[th] = call[th], NEW t \in call[th].writes,
           handle[t] # NULL
    PROVE  /\ t \in Open /\ handle'[t] = handle[t]
           /\ native'[handle[t]] = native[handle[t]]
<1>1. /\ status = "running" /\ Lawful
      /\ LiveHandles /\ DistinctHandles /\ CallsApart /\ CallsOpen
  BY LawfulBefore DEF AddressInv
<1>2. /\ t \in Open /\ t \in Tensors /\ handle[t] \in Addrs
      /\ native[handle[t]] # NULL
  <2>1. t \in Tensors
    BY CallKinds DEF AddressInv, TypeInv
  <2>2. QED
    BY <1>1, <2>1 DEF Open, CallsOpen, LiveHandles, AddressInv, TypeInv,
                      TypeOK, HeapTypeOK
<1>3. CASE UNCHANGED heapVars
  BY <1>2, <1>3 DEF heapVars
<1>4. ASSUME NEW w \in Tensors, w # t, NEW a \in FreeAddrs, NEW b \in Bufs,
             setHandle(w, a, b)
      PROVE  /\ handle'[t] = handle[t]
             /\ native'[handle[t]] = native[handle[t]]
  BY <1>2, <1>4, SetHandleEffect
<1>5. ASSUME NEW u \in Threads, NEW w \in Tensors, call[u] = Idle,
             Accept(Charge(u, {}, {w}))
      PROVE  w # t /\ w \in Open
  <2>1. ~Overlaps(u, {}, {w}) /\ w \in Open
    BY <1>5, LawfulTensorStart DEF Open
  <2>2. u # th
    BY <1>5 DEF Idle
  <2>3. QED
    BY <2>1, <2>2 DEF Overlaps
<1>6. ASSUME NEW u \in Threads, NEW w \in Tensors, NEW v \in Values,
             NEW buffer \in ByteBuffers, SetBytes(u, w, v, buffer), Backs(w)
      PROVE  /\ handle'[t] = handle[t]
             /\ native'[handle[t]] = native[handle[t]]
  <2>1. w # t
    BY <1>5, <1>6 DEF SetBytes, Ready
  <2>2. QED
    BY <1>4, <1>6, <2>1, BacksEffect DEF FreeBufs
<1>7. ASSUME NEW u \in Threads, NEW w \in Tensors, Close(u, w)
      PROVE  /\ handle'[t] = handle[t]
             /\ native'[handle[t]] = native[handle[t]]
  <2>1. w # t /\ w \in Open
    BY <1>5, <1>7 DEF Close, Ready
  <2>2. handle[w] # handle[t]
    BY <1>1, <1>2, <2>1 DEF DistinctHandles
  <2>3. QED
    BY <1>2, <1>7, <2>2 DEF Close, AddressInv, TypeInv, TypeOK, HeapTypeOK
<1>8. ASSUME NEW u \in Threads, PublishOutput(u)
      PROVE  /\ handle'[t] = handle[t]
             /\ native'[handle[t]] = native[handle[t]]
  <2> DEFINE w == call[u].outs[call[u].next]
  <2>1. /\ w \in Tensors /\ w \in call[u].writes /\ NextResult(u) \in Bufs
        /\ call[u] \in ModelCalls
    BY <1>8, PublishEffect
  <2>2. CASE UNCHANGED << handle, native >>
    BY <2>2
  <2>3. CASE /\ \E a \in FreeAddrs : setHandle(w, a, NextResult(u))
             /\ call'[u] = Onward(call[u], "publish", call[u].bufs,
                                  call[u].results, call[u].next + 1,
                                  call[u].pending)
    <3>1. u # th
      BY <2>1, <2>3 DEF Onward, ModelCalls
    <3>2. w # t
      BY <1>1, <2>1, <3>1 DEF CallsApart
    <3>3. QED
      BY <1>4, <2>1, <2>3, <3>2
  <2>4. QED
    BY <1>8, <2>2, <2>3, PublishEffect
<1>9. QED
  BY <1>2, <1>3, <1>6, <1>7, <1>8, HeapSteps

LEMMA NextInRangeStep ==
    ASSUME AddressInv, NextInRange, Next
    PROVE  NextInRange'
<1>1. SUFFICES ASSUME NEW th \in Threads, call'[th].op = "publish"
               PROVE  call'[th].next <= Len(call'[th].results) + 1
  BY DEF NextInRange
<1>2. CASE call'[th] = call[th]
  BY <1>1, <1>2 DEF NextInRange
<1>3. CASE call'[th].next = 1 /\ call'[th].results \in Seq(Bufs)
  BY <1>3
<1>4. CASE PublishOutput(th)
  <2>1. /\ call[th] \in ModelCalls /\ call[th].op = "publish"
        /\ call[th].next \in 1..Len(call[th].results)
    BY <1>4, PublishEffect
  <2>2. CASE UNCHANGED call
    BY <2>1, <2>2 DEF ModelCalls
  <2>3. CASE call'[th] = Onward(call[th], "publish", call[th].bufs,
                                call[th].results, call[th].next + 1,
                                call[th].pending)
    BY <2>1, <2>3 DEF Onward, ModelCalls
  <2>4. QED
    BY <1>4, <2>2, <2>3, PublishEffect
<1>5. QED
  BY <1>1, <1>2, <1>3, <1>4, PublishingCalls

(* Where a call stands: result i has its place, or a later one took it. *)
Placed(th, i) ==
    \/ \E j \in (i+1)..(call[th].next - 1) : call[th].outs[j] = call[th].outs[i]
    \/ /\ Deref(call[th].outs[i]) = "running"
       /\ BufferOf(call[th].outs[i]) = call[th].results[i]

(* The step that hands over an output keeps the earlier ones in place. *)
LEMMA PublishPlaces ==
    ASSUME PositionInv, NEW th \in Threads, PublishOutput(th),
           status' = "running", Lawful', NEW i \in 1..(call'[th].next - 1)
    PROVE  Placed(th, i)'
<1> DEFINE k == call[th].next
           t == call[th].outs[k]
           c == Onward(call[th], "publish", call[th].bufs, call[th].results,
                       k + 1, call[th].pending)
<1>1. /\ status = "running" /\ Lawful /\ AddressInv
      /\ LiveHandles /\ CallsOpen
  BY DEF PublishOutput, Lawful, PositionInv, AddressInv
<1>2. /\ call[th].op = "publish" /\ call[th] \in ModelCalls
      /\ k \in 1..Len(call[th].results) /\ k \in 1..Len(call[th].outs)
      /\ t \in Tensors /\ NextResult(th) \in Bufs
  BY <1>1, PublishEffect
<1>3. \A j \in 1..(k-1) : Placed(th, j)
  BY <1>1, <1>2 DEF PositionInv, OutputsByPosition, Placed
<1>4. CASE UNCHANGED << call, handle, native >>
  BY <1>3, <1>4 DEF Placed, Deref, BufferOf
<1>5. ASSUME NEW a \in FreeAddrs, setHandle(t, a, NextResult(th)),
             call'[th] = c
      PROVE  Placed(th, i)'
  <2>1. /\ c.outs = call[th].outs /\ c.results = call[th].results
        /\ c.next = k + 1
    BY DEF Onward
  <2>2. i \in 1..k /\ k \in Nat
    BY <1>2, <1>5, <2>1 DEF ModelCalls
  <2>3. /\ a \in Addrs /\ native[a] = NULL /\ a # NULL
        /\ NextResult(th) # NULL
        /\ \A u \in Tensors : handle'[u] = IF u = t THEN a ELSE handle[u]
        /\ \A x \in Addrs : native'[x] = IF x = a THEN NextResult(th)
                                         ELSE native[x]
    BY <1>1, <1>2, <1>5, SetHandleEffect
  <2>4. NextResult(th) = call[th].results[k]
    BY DEF NextResult
  <2> HIDE DEF c
  <2>5. CASE i = k
    <3>1. handle'[t] = a /\ native'[a] = call[th].results[k]
      BY <1>2, <2>3, <2>4
    <3>2. QED
      BY <1>5, <2>1, <2>3, <2>4, <2>5, <3>1 DEF Placed, Deref, BufferOf
  <2>6. CASE i # k /\ call[th].outs[i] = t
    <3>1. k \in (i+1)..(call'[th].next - 1)
      BY <1>5, <2>1, <2>2, <2>6
    <3>2. call'[th].outs[k] = call'[th].outs[i]
      BY <1>5, <2>1, <2>6
    <3>3. QED
      BY <3>1, <3>2 DEF Placed
  <2>7. CASE i # k /\ call[th].outs[i] # t
    <3>1. i \in 1..(k-1) /\ i \in 1..Len(call[th].outs)
      BY <1>2, <2>2, <2>7
    <3>2. call[th].outs[i] \in Tensors
      BY <1>2, <3>1 DEF ModelCalls
    <3>3. CASE \E j \in (i+1)..(k-1) : call[th].outs[j] = call[th].outs[i]
      <4>1. PICK j \in (i+1)..(k-1) : call[th].outs[j] = call[th].outs[i]
        BY <3>3
      <4>2. j \in (i+1)..(call'[th].next - 1)
        BY <1>5, <2>1, <2>2, <4>1
      <4>3. QED
        BY <1>5, <2>1, <4>1, <4>2 DEF Placed
    <3>4. CASE /\ Deref(call[th].outs[i]) = "running"
               /\ BufferOf(call[th].outs[i]) = call[th].results[i]
      <4>1. /\ handle[call[th].outs[i]] # NULL
            /\ handle[call[th].outs[i]] \in Addrs
            /\ native[handle[call[th].outs[i]]] # NULL
        BY <1>1, <3>2, <3>4 DEF Deref, AddressInv, TypeInv, TypeOK, HeapTypeOK
      <4>2. /\ handle'[call[th].outs[i]] = handle[call[th].outs[i]]
            /\ native'[handle[call[th].outs[i]]]
                 = native[handle[call[th].outs[i]]]
        BY <2>3, <2>7, <3>2, <4>1
      <4>3. QED
        BY <1>5, <2>1, <3>4, <4>1, <4>2 DEF Placed, Deref, BufferOf
    <3>5. QED
      BY <1>3, <3>1, <3>3, <3>4 DEF Placed
  <2>8. QED
    BY <2>5, <2>6, <2>7
<1>6. QED
  BY <1>1, <1>4, <1>5, PublishEffect

LEMMA PositionStep ==
    ASSUME PositionInv, [Next]_vars
    PROVE  PositionInv'
<1>1. AddressInv /\ AddressInv'
  BY AddressStep DEF PositionInv
<1>2. CASE UNCHANGED vars
  BY <1>1, <1>2 DEF vars, PositionInv, NextInRange, OutputsByPosition, Lawful,
                    Deref, BufferOf
<1>3. CASE Next
  <2>1. NextInRange'
    BY <1>1, <1>3, NextInRangeStep DEF PositionInv
  <2>2. SUFFICES ASSUME Lawful', status' = "running", NEW th \in Threads,
                        call'[th].op = "publish",
                        NEW i \in 1..(call'[th].next - 1)
                 PROVE  Placed(th, i)'
    BY <1>1, <2>1 DEF PositionInv, OutputsByPosition, Placed
  <2>3. CASE call'[th].next = 1
    BY <2>2, <2>3
  <2>4. CASE PublishOutput(th)
    BY <2>2, <2>4, PublishPlaces
  <2>5. CASE call'[th] = call[th]
    <3>1. Lawful /\ status = "running" /\ CallShapes
      BY <1>1, <1>3, <2>2, LawfulBefore DEF AddressInv
    <3>2. call[th] \in ModelCalls
      BY <1>1, <2>2, <2>5, CallKinds DEF AddressInv, TypeInv
    <3>3. i \in 1..Len(call[th].outs)
      <4>1. /\ call[th].next <= Len(call[th].results) + 1
            /\ Len(call[th].results) <= Len(call[th].outs)
        BY <1>1, <2>2, <2>5 DEF PositionInv, NextInRange, AddressInv, TypeInv,
                                ResultsMatch
      <4>2. QED
        BY <2>2, <2>5, <3>2, <4>1 DEF ModelCalls
    <3>4. call[th].outs[i] \in call[th].writes
      BY <2>2, <2>5, <3>1, <3>2, <3>3 DEF CallShapes, Range, ModelCalls
    <3>5. Placed(th, i)
      BY <2>2, <2>5, <3>1 DEF PositionInv, OutputsByPosition, Placed
    <3>6. CASE \E j \in (i+1)..(call[th].next - 1) :
                   call[th].outs[j] = call[th].outs[i]
      BY <2>5, <3>6 DEF Placed
    <3>7. CASE /\ Deref(call[th].outs[i]) = "running"
               /\ BufferOf(call[th].outs[i]) = call[th].results[i]
      <4>1. handle[call[th].outs[i]] # NULL
        BY <3>7 DEF Deref
      <4>2. /\ handle'[call[th].outs[i]] = handle[call[th].outs[i]]
            /\ native'[handle[call[th].outs[i]]]
                 = native[handle[call[th].outs[i]]]
        BY <1>1, <1>3, <2>2, <2>5, <3>4, <4>1, OutputsUndisturbed
      <4>3. QED
        BY <2>5, <3>7, <4>2 DEF Placed, Deref, BufferOf
    <3>8. QED
      BY <3>5, <3>6, <3>7 DEF Placed
  <2>6. QED
    BY <1>1, <1>3, <2>2, <2>3, <2>4, <2>5, PublishingCalls
<1>4. QED
  BY <1>2, <1>3

(***************************************************************************)
(* For every graph, the i-th tensor of the outputs array of run and train  *)
(* gets the i-th result of the session, and keeps it until the call has    *)
(* returned, whatever calls other threads make meanwhile.                  *)
(***************************************************************************)
THEOREM ResultsGoByPosition == Spec => []OutputsByPosition
<1>1. Init => PositionInv
  <2> SUFFICES ASSUME Init PROVE PositionInv
    OBVIOUS
  <2>1. AddressInv /\ \A th \in Threads : call[th].op # "publish"
    BY AddressStart DEF Init, TensorInit, Idle
  <2>2. QED
    BY <2>1 DEF PositionInv, NextInRange, OutputsByPosition
<1>2. PositionInv => OutputsByPosition
  BY DEF PositionInv
<1>3. QED
  BY <1>1, <1>2, PositionStep, PTL DEF Spec

-----------------------------------------------------------------------------
(***************************************************************************)
(* A view of an output never changes.                                      *)
(***************************************************************************)

(* A view of an output is not what setBytes would write in place. *)
ViewsNotWritten ==
    \A t \in Open : view[t] # NULL /\ ~view[t].backed /\ isBacked[t] =>
        BufferOf(t) # view[t].buf

ViewInv ==
    /\ BufferInv
    /\ OutputViewsStable
    /\ Lawful /\ status = "running" => ViewsNotWritten

(* What a lawful client in a running process relies on. *)
LEMMA ViewFacts ==
    ASSUME ViewInv, Lawful, status = "running"
    PROVE  /\ AddressInv /\ LiveHandles /\ DistinctHandles /\ CallShapes
           /\ CallsOpen /\ FilledHaveHandles /\ DistinctBuffers
           /\ ResultsPrivate /\ ViewsNotWritten
           /\ Open \subseteq Tensors
           /\ \A t \in Open : view[t] # NULL =>
                /\ view[t] \in Views /\ view[t].buf \in Bufs
                /\ view[t].buf \notin FreeBufs
                /\ \E a \in Addrs : native[a] = view[t].buf
                /\ ~view[t].backed => content[view[t].buf] = view[t].bytes
<1>1. /\ AddressInv /\ LiveHandles /\ DistinctHandles /\ CallShapes
      /\ CallsOpen /\ FilledHaveHandles /\ DistinctBuffers
      /\ ResultsPrivate /\ ViewsNotWritten /\ ViewsOwned
      /\ OutputViewsStable /\ Open \subseteq Tensors
  BY DEF ViewInv, BufferInv, AddressInv, Open
<1>2. SUFFICES ASSUME NEW t \in Open, view[t] # NULL
               PROVE  /\ view[t] \in Views /\ view[t].buf \in Bufs
                      /\ view[t].buf \notin FreeBufs
                      /\ \E a \in Addrs : native[a] = view[t].buf
                      /\ ~view[t].backed => content[view[t].buf] = view[t].bytes
  BY <1>1
<1>3. view[t] \in Views /\ view[t].buf \in Bufs
  BY <1>1, <1>2 DEF AddressInv, TypeInv, TypeOK, HeapTypeOK, Views
<1>4. PICK a \in Addrs : native[a] = view[t].buf
  BY <1>1, <1>2 DEF ViewsOwned
<1>5. QED
  BY <1>1, <1>2, <1>3, <1>4, FreeIsUnused DEF OutputViewsStable

(* writeBytes writes no buffer that a view of an output shows. *)
LEMMA WritesMissViews ==
    ASSUME ViewInv, Lawful, status = "running",
           NEW t \in Open, view[t] # NULL, ~view[t].backed,
           NEW w \in Open, isBacked[w]
    PROVE  BufferOf(w) # view[t].buf
<1>1. /\ DistinctBuffers /\ LiveHandles /\ FilledHaveHandles /\ ViewsNotWritten
      /\ AddressInv /\ ViewsOwned /\ Open \subseteq Tensors
  BY ViewFacts DEF AddressInv
<1>2. CASE w = t
  BY <1>1, <1>2 DEF ViewsNotWritten
<1>3. CASE w # t
  <2>1. PICK a \in Addrs : /\ native[a] = view[t].buf
                           /\ \A u \in Open : u # t => handle[u] # a
    BY <1>1 DEF ViewsOwned
  <2>2. handle[w] \in Addrs /\ handle[w] # a /\ native[handle[w]] # NULL
    BY <1>1, <1>3, <2>1 DEF FilledHaveHandles, LiveHandles, AddressInv,
                            TypeInv, TypeOK, HeapTypeOK
  <2>3. QED
    BY <1>1, <2>1, <2>2 DEF DistinctBuffers, BufferOf
<1>4. QED
  BY <1>2, <1>3

(* A new native tensor, with a buffer that no native tensor had. *)
LEMMA SetHandleViews ==
    ASSUME ViewInv, Lawful, status = "running",
           NEW t \in Tensors, NEW a \in FreeAddrs, NEW b \in Bufs,
           setHandle(t, a, b), \A x \in Addrs : native[x] # b,
           UNCHANGED << view, closed >>,
           \A u \in Tensors : u # t => isBacked'[u] = isBacked[u],
           \A x \in Bufs : x # b => content'[x] = content[x]
    PROVE  OutputViewsStable' /\ ViewsNotWritten'
<1>1. /\ AddressInv /\ LiveHandles /\ FilledHaveHandles /\ ViewsNotWritten
      /\ Open \subseteq Tensors /\ Open' = Open
  BY ViewFacts DEF Open
<1>2. /\ a \in Addrs /\ native[a] = NULL
      /\ \A u \in Tensors : handle'[u] = IF u = t THEN a ELSE handle[u]
      /\ \A x \in Addrs : native'[x] = IF x = a THEN b ELSE native[x]
  BY <1>1, SetHandleEffect
<1>3. SUFFICES ASSUME NEW u \in Open, view[u] # NULL, ~view[u].backed
               PROVE  /\ content'[view[u].buf] = view[u].bytes
                      /\ isBacked'[u] => native'[handle'[u]] # view[u].buf
  BY <1>1 DEF OutputViewsStable, ViewsNotWritten, BufferOf
<1>4. /\ view[u].buf \in Bufs /\ view[u].buf # b
      /\ content[view[u].buf] = view[u].bytes
  BY <1>3, ViewFacts
<1>5. CASE u = t
  BY <1>1, <1>2, <1>4, <1>5
<1>6. CASE u # t
  <2>1. isBacked[u] => /\ handle[u] \in Addrs /\ native[handle[u]] # NULL
                       /\ native[handle[u]] # view[u].buf
    BY <1>1, <1>3 DEF FilledHaveHandles, LiveHandles, ViewsNotWritten, BufferOf,
                      AddressInv, TypeInv, TypeOK, HeapTypeOK
  <2>2. QED
    BY <1>1, <1>2, <1>4, <1>6, <2>1
<1>7. QED
  BY <1>5, <1>6

LEMMA SetBytesViews ==
    ASSUME ViewInv, Lawful, status = "running", status' = "running",
           NEW th \in Threads, NEW t \in Tensors, NEW v \in Values,
           NEW buffer \in ByteBuffers, SetBytes(th, t, v, buffer), Backs(t)
    PROVE  OutputViewsStable' /\ ViewsNotWritten'
<1>1. AddressInv /\ UNCHANGED << view, closed >>
  BY ViewFacts DEF SetBytes
<1>2. PICK a \in FreeAddrs, b \in FreeBufs :
          /\ setHandle(t, a, b)
          /\ content' = [content EXCEPT ![b] = Uninit]
  BY <1>1, BacksEffect
<1>3. b \in Bufs /\ \A x \in Addrs : native[x] # b
  BY FreeIsUnused
<1>4. /\ \A u \in Tensors : u # t => isBacked'[u] = isBacked[u]
      /\ \A x \in Bufs : x # b => content'[x] = content[x]
  BY <1>1, <1>2 DEF Backs, AddressInv, TypeInv, TypeOK, HeapTypeOK
<1>5. QED
  BY <1>1, <1>2, <1>3, <1>4, SetHandleViews

LEMMA PublishViews ==
    ASSUME ViewInv, Lawful, status = "running",
           NEW th \in Threads, PublishOutput(th)
    PROVE  OutputViewsStable' /\ ViewsNotWritten'
<1> DEFINE t == call[th].outs[call[th].next]
<1>1. AddressInv /\ ResultsPrivate /\ ViewsNotWritten
  BY ViewFacts
<1>2. /\ call[th].op = "publish" /\ call[th] \in ModelCalls
      /\ call[th].next \in 1..Len(call[th].results)
      /\ t \in Tensors /\ NextResult(th) \in Bufs
      /\ UNCHANGED << isBacked, view, closed, content >>
  BY <1>1, PublishEffect
<1>3. CASE UNCHANGED << handle, native >>
  <2>1. Open' = Open
    BY <1>2 DEF Open
  <2>2. QED
    BY <1>1, <1>2, <1>3, <2>1
       DEF ViewInv, OutputViewsStable, ViewsNotWritten, BufferOf
<1>4. CASE \E a \in FreeAddrs : setHandle(t, a, NextResult(th))
  <2>1. \A x \in Addrs : native[x] # NextResult(th)
    BY <1>1, <1>2 DEF ResultsPrivate, NextResult, ModelCalls
  <2>2. QED
    BY <1>2, <1>4, <2>1, SetHandleViews
<1>5. QED
  BY <1>1, <1>3, <1>4, PublishEffect

LEMMA CloseViews ==
    ASSUME ViewInv, Lawful', NEW th \in Threads, NEW t \in Tensors,
           Close(th, t)
    PROVE  OutputViewsStable' /\ ViewsNotWritten'
<1>1. /\ status = "running" /\ Open' = Open \ {t}
      /\ UNCHANGED << handle, isBacked, content >>
      /\ view' = [view EXCEPT ![t] = NULL]
      /\ Accept(Charge(th, {}, {t}))
  BY DEF Close, Ready, Open
<1>2. Lawful /\ t \in Open
  BY <1>1, LawfulTensorStart DEF Open
<1>3. /\ AddressInv /\ DistinctHandles /\ LiveHandles /\ FilledHaveHandles
      /\ ViewsNotWritten /\ Open \subseteq Tensors
  BY <1>1, <1>2, ViewFacts
<1>4. SUFFICES ASSUME NEW u \in Open, u # t, view[u] # NULL, ~view[u].backed
               PROVE  /\ content[view[u].buf] = view[u].bytes
                      /\ isBacked[u] => native'[handle[u]] # view[u].buf
  <2>1. \A u \in Tensors : u # t => view'[u] = view[u]
    BY <1>1, <1>3 DEF AddressInv, TypeInv, TypeOK, HeapTypeOK
  <2>2. QED
    BY <1>1, <1>3, <1>4, <2>1 DEF OutputViewsStable, ViewsNotWritten, BufferOf
<1>5. content[view[u].buf] = view[u].bytes
  BY <1>1, <1>2, <1>4, ViewFacts
<1>6. ASSUME isBacked[u] PROVE native'[handle[u]] # view[u].buf
  <2>1. handle[u] \in Addrs /\ handle[u] # NULL /\ handle[u] # handle[t]
    BY <1>2, <1>3, <1>4, <1>6 DEF FilledHaveHandles, DistinctHandles,
                                  AddressInv, TypeInv, TypeOK, HeapTypeOK
  <2>2. native'[handle[u]] = native[handle[u]]
    BY <1>3, <2>1 DEF Close, AddressInv, TypeInv, TypeOK, HeapTypeOK
  <2>3. QED
    BY <1>3, <1>4, <1>6, <2>2 DEF ViewsNotWritten, BufferOf
<1>7. QED
  BY <1>5, <1>6

LEMMA GetBytesViews ==
    ASSUME ViewInv, Lawful, status = "running",
           NEW th \in Threads, NEW t \in Tensors, GetBytes(th, t)
    PROVE  OutputViewsStable' /\ ViewsNotWritten'
<1>1. /\ AddressInv /\ ViewsNotWritten /\ Open' = Open /\ Open \subseteq Tensors
      /\ UNCHANGED << handle, isBacked, native, content >>
  BY ViewFacts DEF GetBytes, Open
<1>2. \A u \in Tensors :
         \/ view'[u] = view[u]
         \/ view'[u] = [buf |-> BufferOf(u), bytes |-> content[BufferOf(u)],
                        backed |-> isBacked[u]]
  BY <1>1 DEF GetBytes, AddressInv, TypeInv, TypeOK, HeapTypeOK
<1>3. SUFFICES ASSUME NEW u \in Open, view'[u] # NULL, ~view'[u].backed
               PROVE  /\ content[view'[u].buf] = view'[u].bytes
                      /\ isBacked[u] => BufferOf(u) # view'[u].buf
  BY <1>1 DEF OutputViewsStable, ViewsNotWritten, BufferOf
<1>4. CASE view'[u] = view[u]
  BY <1>1, <1>3, <1>4, ViewFacts DEF ViewsNotWritten
<1>5. CASE view'[u] = [buf |-> BufferOf(u), bytes |-> content[BufferOf(u)],
                       backed |-> isBacked[u]]
  BY <1>3, <1>5
<1>6. QED
  BY <1>1, <1>2, <1>3, <1>4, <1>5

(* Steps that move no tensor, and write no buffer that a view may show. *)
LEMMA QuietViews ==
    ASSUME ViewInv, Lawful, status = "running",
           UNCHANGED << handle, isBacked, native, closed, view >>,
           \A t \in Open : view[t] # NULL /\ ~view[t].backed =>
               content'[view[t].buf] = content[view[t].buf]
    PROVE  OutputViewsStable' /\ ViewsNotWritten'
<1>1. Open' = Open /\ ViewsNotWritten
  BY ViewFacts DEF Open
<1>2. QED
  BY <1>1, ViewFacts DEF OutputViewsStable, ViewsNotWritten, BufferOf

LEMMA WriteBytesViews ==
    ASSUME ViewInv, Lawful, NEW th \in Threads, WriteBytes(th)
    PROVE  OutputViewsStable' /\ ViewsNotWritten'
<1> DEFINE w == call[th].tensor
<1>1. /\ status = "running" /\ call[th].op = "writeBytes"
      /\ UNCHANGED << handle, isBacked, native, closed, view >>
  BY DEF WriteBytes
<1>2. /\ AddressInv /\ CallShapes /\ CallsOpen
  BY <1>1, ViewFacts
<1>3. w \in Open /\ isBacked[w]
  BY <1>1, <1>2, CallKinds DEF CallShapes, CallsOpen, Open, WriteCalls,
                               AddressInv, TypeInv
<1>4. ASSUME NEW t \in Open, view[t] # NULL, ~view[t].backed
      PROVE  content'[view[t].buf] = content[view[t].buf]
  <2>1. BufferOf(w) # view[t].buf /\ view[t].buf \in Bufs
    BY <1>1, <1>3, <1>4, WritesMissViews, ViewFacts
  <2>2. QED
    BY <1>2, <2>1 DEF WriteBytes, AddressInv, TypeInv, TypeOK, HeapTypeOK
<1>5. QED
  BY <1>1, <1>4, QuietViews

(* A session writes buffers that were free before. *)
LEMMA FetchedViews ==
    ASSUME PassThrough = FALSE, NEW th, NEW n, NEW failed,
           Fetched(th, n, failed)
    PROVE  \A b \in Bufs : b \notin FreeBufs => content'[b] = content[b]
<1>1. PICK r \in [1..n -> FreeBufs] :
          \A b \in Bufs : b \notin Range(r) => content'[b] = content[b]
  BY DEF Fetched
<1>2. QED
  BY <1>1 DEF Range

LEMMA ViewStep ==
    ASSUME PassThrough = FALSE, ViewInv, [Next]_vars
    PROVE  ViewInv'
<1>1. BufferInv'
  BY BufferStep DEF ViewInv
<1>2. CASE UNCHANGED vars
  <2>1. Lawful' = Lawful /\ Open' = Open
    BY <1>2 DEF vars, Lawful, Open
  <2>2. QED
    BY <1>1, <1>2, <2>1 DEF vars, ViewInv, OutputViewsStable, ViewsNotWritten,
                            BufferOf
<1>3. CASE Next
  <2>1. SUFFICES ASSUME Lawful', status' = "running"
                 PROVE  OutputViewsStable' /\ ViewsNotWritten'
    BY <1>1 DEF ViewInv, OutputViewsStable
  <2>2. Lawful /\ status = "running"
    BY <1>3, <2>1, LawfulBefore
  <2>3. PICK th \in Threads : Steps(th) \/ Calls(th)
    BY <1>3 DEF Next
  <2>4. ASSUME UNCHANGED << handle, isBacked, native, closed, view >>,
               \A b \in Bufs : b \notin FreeBufs => content'[b] = content[b]
        PROVE  OutputViewsStable' /\ ViewsNotWritten'
    BY <2>2, <2>4, ViewFacts, QuietViews
  <2>5. CASE Steps(th)
    <3>1. ASSUME NEW n, NEW failed, Fetched(th, n, failed),
                 UNCHANGED << handle, native, clientVars >>
          PROVE  OutputViewsStable' /\ ViewsNotWritten'
      BY <2>4, <3>1, FetchedViews DEF clientVars
    <3>2. CASE UNCHANGED << handle, native, content, clientVars >>
      BY <2>4, <3>2 DEF clientVars
    <3>3. CASE FinishRun(th) \/ FetchStep(th)
      BY <3>1, <3>2, <3>3 DEF FinishRun, FetchStep, FetchFailed, SessionGone,
                              Exhausted, Return
    <3>4. CASE TrainStep(th) \/ ReturnOutputs(th) \/ FinishExport(th)
      BY <3>2, <3>4 DEF TrainStep, ReturnOutputs, FinishExport, SessionGone,
                        Return
    <3>5. QED
      BY <2>2, <2>5, <3>3, <3>4, WriteBytesViews, PublishViews DEF Steps
  <2>6. CASE Calls(th)
    <3>1. ASSUME NEW t \in Tensors, NEW v \in Values,
                 NEW buffer \in ByteBuffers, SetBytes(th, t, v, buffer)
          PROVE  OutputViewsStable' /\ ViewsNotWritten'
      <4>1. CASE isBacked[t]
        BY <2>4, <3>1, <4>1 DEF SetBytes, createBackingTensor
      <4>2. CASE ~isBacked[t]
        BY <2>1, <2>2, <3>1, <4>2, SetBytesViews
           DEF SetBytes, createBackingTensor, Backs
      <4>3. QED
        BY <4>1, <4>2
    <3>2. ASSUME NEW b \in Bundles,
                 Create(th, b) \/ Export(th, b) \/ CloseBundle(th, b)
          PROVE  OutputViewsStable' /\ ViewsNotWritten'
      BY <2>4, <3>2 DEF Create, Export, CloseBundle, tensorVars, clientVars
    <3>3. ASSUME NEW b \in Bundles, NEW ins \in SUBSET Tensors,
                 NEW outs \in OutputArrays,
                 Run(th, b, ins, outs) \/ Train(th, b, ins, outs)
          PROVE  OutputViewsStable' /\ ViewsNotWritten'
      BY <2>4, <3>3 DEF Run, Train, BeginCall, clientVars
    <3>4. QED
      BY <2>1, <2>2, <2>6, <3>1, <3>2, <3>3, GetBytesViews, CloseViews
         DEF Calls
  <2>7. QED
    BY <2>3, <2>5, <2>6
<1>4. QED
  BY <1>2, <1>3

(***************************************************************************)
(* With a session that returns its outputs in buffers of their own, the    *)
(* bytes behind a ByteBuffer of a tensor that a model filled never change  *)
(* until the tensor is closed: neither by later runs into the same tensor, *)
(* nor by setBytes on it, nor by what other threads do.                    *)
(***************************************************************************)
THEOREM OutputViewsNeverChange ==
    ASSUME PassThrough = FALSE
    PROVE  Spec => []OutputViewsStable
<1>1. Init => ViewInv
  BY BufferStart DEF Init, TensorInit, ViewInv, OutputViewsStable,
                     ViewsNotWritten, Open
<1>2. ViewInv /\ [Next]_vars => ViewInv'
  BY ViewStep
<1>3. ViewInv => OutputViewsStable
  BY DEF ViewInv
<1>4. QED
  BY <1>1, <1>2, <1>3, PTL DEF Spec

-----------------------------------------------------------------------------
(***************************************************************************)
(* In a debug build, which rejects a bad ByteBuffer before it allocates,   *)
(* a native tensor has bytes as soon as setBytes has returned.             *)
(***************************************************************************)

(* Every call that writes bytes will write them. *)
WritesDirect ==
    \A th \in Threads : call[th].op = "writeBytes" => call[th].direct

(* A call holds the results of its session. *)
ResultsHeld ==
    \A th \in Threads : call[th].op = "publish" =>
        Range(call[th].results) \subseteq call[th].bufs

(* A native tensor without bytes is one that a setBytes is about to fill. *)
LiveFilled ==
    \A a \in Addrs : native[a] # NULL =>
        \/ content[native[a]] \in Values
        \/ \E th \in Threads : /\ call[th].op = "writeBytes"
                               /\ handle[call[th].tensor] = a

(* So no session is fed, or returns, memory that nobody wrote. *)
HeldFilled ==
    \A th \in Threads : \A b \in call[th].bufs : content[b] \in Values

(* The same for the output tensors of Java. *)
OutputsFilled ==
    \A t \in outputs \ closed : written[t] = Uninit =>
        \E th \in Threads : /\ call[th].op = "writeBytes"
                            /\ call[th].tensor = t

ReadInv ==
    /\ AddressInv
    /\ WritesDirect
    /\ ResultsHeld
    /\ Lawful /\ status = "running" =>
           LiveFilled /\ HeldFilled /\ OutputsFilled

(***************************************************************************)
(* Steps that allocate nothing and end no writeBytes: calls start or go on *)
(* with filled buffers, and buffers are filled.                            *)
(***************************************************************************)
LEMMA ReadFrame ==
    ASSUME ReadInv, AddressInv', status = "running", Lawful' => Lawful,
           UNCHANGED << handle, native, written, closed, outputs >>,
           \A b \in Bufs : content'[b] \in Values \cup {content[b]},
           \A u \in Threads :
               /\ call[u].op = "writeBytes" => call'[u] = call[u]
               /\ \/ call'[u] = call[u]
                  \/ /\ call'[u].op \in {"writeBytes", "publish"} =>
                            /\ call'[u].op = "publish"
                            /\ Range(call'[u].results) \subseteq call'[u].bufs
                     /\ Lawful /\ Lawful' =>
                            \A b \in call'[u].bufs : content'[b] \in Values
    PROVE  ReadInv'
<1>1. WritesDirect' /\ ResultsHeld'
  BY DEF ReadInv, WritesDirect, ResultsHeld
<1>2. SUFFICES ASSUME Lawful'
               PROVE  LiveFilled' /\ HeldFilled' /\ OutputsFilled'
  BY <1>1 DEF ReadInv
<1>3. LiveFilled /\ HeldFilled /\ OutputsFilled /\ TypeOK
  BY <1>2 DEF ReadInv, AddressInv, TypeInv
<1>4. LiveFilled'
  BY <1>3 DEF LiveFilled, TypeOK, HeapTypeOK
<1>5. HeldFilled'
  BY <1>2, <1>3, CallKinds DEF HeldFilled
<1>6. OutputsFilled'
  BY <1>3 DEF OutputsFilled
<1>7. QED
  BY <1>4, <1>5, <1>6

(* A step that leaves the contents alone and lets th call c, or return. *)
LEMMA ReadCall ==
    ASSUME ReadInv, AddressInv', status = "running", Lawful' => Lawful,
           UNCHANGED << handle, native, content, written, closed, outputs >>,
           NEW th \in Threads, call[th].op # "writeBytes", NEW c,
           call' \in {call, [call EXCEPT ![th] = c]},
           c.op \notin {"writeBytes", "publish"},
           c.bufs \subseteq call[th].bufs
    PROVE  ReadInv'
<1>1. \A u \in Threads : call'[u] = call[u] \/ (u = th /\ call'[u] = c)
  BY DEF ReadInv, AddressInv, TypeInv, TypeOK
<1>2. Lawful => \A b \in c.bufs : content'[b] \in Values
  BY DEF ReadInv, HeldFilled
<1>3. QED
  BY <1>1, <1>2, ReadFrame

LEMMA FetchedRead ==
    ASSUME ReadInv, AddressInv', NEW th \in Threads, call[th].op \in ModelOps,
           NEW n \in 0..Len(call[th].outs), NEW failed, Fetched(th, n, failed),
           status = "running", Lawful' => Lawful,
           UNCHANGED << handle, native, written, closed, outputs >>
    PROVE  ReadInv'
<1> DEFINE shared == IF PassThrough THEN call[th].bufs ELSE {}
<1>1. PICK r \in [1..n -> FreeBufs \cup shared], v \in [1..n -> Values] :
          /\ content' = [ b \in Bufs |->
                            IF b \in Range(r) \ shared
                            THEN v[CHOOSE i \in 1..n : r[i] = b]
                            ELSE content[b] ]
          /\ call' = [call EXCEPT ![th] =
                         Onward(@, "publish", @.bufs \cup Range(r), r, 1,
                                @.pending \/ failed)]
  BY DEF Fetched
<1>2. call[th] \in ModelCalls /\ shared \subseteq call[th].bufs
  BY CallKinds DEF ReadInv, AddressInv, TypeInv, ModelOps
<1> HIDE DEF shared
<1>3. \A b \in Range(r) : b \in Bufs /\ (b \in shared \/ content'[b] \in Values)
  <2>1. SUFFICES ASSUME NEW b \in Range(r)
                 PROVE  b \in Bufs /\ (b \in shared \/ content'[b] \in Values)
    OBVIOUS
  <2>2. PICK i \in 1..n : r[i] = b
    BY DEF Range
  <2>3. b \in Bufs
    BY <1>1, <1>2, <2>2 DEF FreeBufs, ModelCalls
  <2>4. (CHOOSE j \in 1..n : r[j] = b) \in 1..n
    BY <2>2
  <2>5. QED
    BY <1>1, <2>3, <2>4
<1>4. \A b \in Bufs : content'[b] \in Values \cup {content[b]}
  BY <1>1, <1>3
<1> DEFINE c == Onward(call[th], "publish", call[th].bufs \cup Range(r), r, 1,
                       call[th].pending \/ failed)
<1>5. /\ c.op = "publish" /\ c.results = r
      /\ c.bufs = call[th].bufs \cup Range(r)
  BY DEF Onward
<1>6. \A u \in Threads : call'[u] = IF u = th THEN c ELSE call[u]
  BY <1>1 DEF ReadInv, AddressInv, TypeInv, TypeOK
<1> HIDE DEF c
<1>7. ASSUME Lawful
      PROVE  \A b \in c.bufs : content'[b] \in Values
  <2>1. \A b \in call[th].bufs : content[b] \in Values /\ b \in Bufs
    BY <1>2, <1>7 DEF ReadInv, HeldFilled, ModelCalls
  <2>2. QED
    BY <1>2, <1>3, <1>4, <1>5, <2>1
<1>8. QED
  BY <1>4, <1>5, <1>6, <1>7, ReadFrame DEF ModelOps

(* The steps of run, train and export between their session calls. *)
LEMMA SessionRead ==
    ASSUME ReadInv, AddressInv', NEW th \in Threads,
           FinishRun(th) \/ TrainStep(th) \/ FetchStep(th)
              \/ ReturnOutputs(th) \/ FinishExport(th)
    PROVE  ReadInv'
<1>1. /\ status = "running" /\ (Lawful' => Lawful)
      /\ UNCHANGED << handle, native, written, closed, outputs >>
      /\ call[th].op # "writeBytes"
  BY DEF FinishRun, TrainStep, FetchStep, ReturnOutputs, FinishExport,
         clientVars, Lawful
<1>2. ASSUME UNCHANGED content, call' \in {call, [call EXCEPT ![th] = Idle]}
      PROVE  ReadInv'
  <2>1. Idle.op \notin {"writeBytes", "publish"}
        /\ Idle.bufs \subseteq call[th].bufs
    BY DEF Idle
  <2>2. QED
    BY <1>1, <1>2, <2>1, ReadCall
<1>3. ASSUME call[th].op \in ModelOps, NEW n \in 0..Len(call[th].outs),
             NEW failed, Fetched(th, n, failed)
      PROVE  ReadInv'
  BY <1>1, <1>3, FetchedRead
<1>4. call[th].op \in ModelOps => Len(call[th].outs) \in 0..Len(call[th].outs)
  BY CallKinds DEF ReadInv, AddressInv, TypeInv, ModelOps, ModelCalls
<1>5. CASE FinishRun(th)
  BY <1>2, <1>3, <1>4, <1>5 DEF FinishRun, SessionGone, Exhausted, Return,
                                ModelOps
<1>6. CASE TrainStep(th)
  <2>1. ASSUME NEW failed \in BOOLEAN, UNCHANGED content,
               call' = [call EXCEPT ![th] =
                          Onward(@, "fetch", @.bufs, << >>, 1, failed)]
        PROVE  ReadInv'
    <3> DEFINE c == Onward(call[th], "fetch", call[th].bufs, << >>, 1, failed)
    <3>1. /\ call' \in {call, [call EXCEPT ![th] = c]} /\ UNCHANGED content
          /\ c.op \notin {"writeBytes", "publish"}
          /\ c.bufs \subseteq call[th].bufs
      BY <2>1 DEF Onward
    <3> HIDE DEF c
    <3>2. QED
      BY <1>1, <3>1, ReadCall
  <2>2. QED
    BY <1>2, <1>6, <2>1 DEF TrainStep, SessionGone
<1>7. CASE FetchStep(th)
  BY <1>2, <1>3, <1>4, <1>7 DEF FetchStep, FetchFailed, SessionGone, Exhausted,
                                ModelOps
<1>8. CASE ReturnOutputs(th) \/ FinishExport(th)
  BY <1>2, <1>8 DEF ReturnOutputs, FinishExport, SessionGone, Return
<1>9. QED
  BY <1>5, <1>6, <1>7, <1>8

LEMMA SetBytesRead ==
    ASSUME Debug = TRUE, ReadInv, AddressInv', NEW th \in Threads,
           NEW t \in Tensors, NEW v \in Values, NEW buffer \in ByteBuffers,
           SetBytes(th, t, v, buffer), UNCHANGED outputs
    PROVE  ReadInv'
<1> DEFINE c == [op |-> "writeBytes", reads |-> {}, writes |-> {t},
                 bufs |-> {}, tensor |-> t, data |-> v,
                 direct |-> buffer # "heap"]
<1>1. /\ status = "running" /\ call[th] = Idle /\ UNCHANGED closed
      /\ Accept(Charge(th, {}, {t})) /\ createBackingTensor(t)
      /\ call' = [call EXCEPT ![th] = c]
  BY DEF SetBytes, Ready
<1>2. c.op = "writeBytes" /\ c.tensor = t /\ c.bufs = {} /\ c.direct
  BY DEF SetBytes, Admitted
<1> HIDE DEF c
<1>3. \A u \in Threads : call'[u] = IF u = th THEN c ELSE call[u]
  BY <1>1 DEF ReadInv, AddressInv, TypeInv, TypeOK
<1>4. /\ \A u \in Threads : call[u].op \in {"writeBytes", "publish"} =>
                              u # th /\ call'[u] = call[u]
      /\ call'[th] = c
  BY <1>1, <1>3 DEF Idle
<1>5. WritesDirect' /\ ResultsHeld'
  BY <1>2, <1>3 DEF ReadInv, WritesDirect, ResultsHeld
<1>6. SUFFICES ASSUME Lawful', status' = "running"
               PROVE  LiveFilled' /\ HeldFilled' /\ OutputsFilled'
  BY <1>5 DEF ReadInv
<1>7. Lawful /\ t \in Open
  BY <1>1, <1>6, LawfulTensorStart DEF Open
<1>8. /\ LiveFilled /\ HeldFilled /\ OutputsFilled /\ AddressInv
      /\ CallsApart /\ CallShapes
  BY <1>1, <1>7 DEF ReadInv, AddressInv
<1>9. CASE UNCHANGED << handle, native, content, written >>
  <2>1. LiveFilled'
    BY <1>4, <1>8, <1>9 DEF LiveFilled
  <2>2. HeldFilled'
    BY <1>2, <1>3, <1>8, <1>9 DEF HeldFilled
  <2>3. OutputsFilled'
    BY <1>1, <1>4, <1>8, <1>9 DEF OutputsFilled
  <2>4. QED
    BY <2>1, <2>2, <2>3
<1>10. ASSUME NEW a \in FreeAddrs, NEW b \in FreeBufs, setHandle(t, a, b),
              content' = [content EXCEPT ![b] = Uninit],
              written' = [written EXCEPT ![t] = Uninit]
       PROVE  LiveFilled' /\ HeldFilled' /\ OutputsFilled'
  <2>1. /\ b \in Bufs
        /\ \A x \in Addrs : native[x] # b
        /\ \A u \in Threads : b \notin call[u].bufs
    BY FreeIsUnused
  <2>2. /\ a \in Addrs /\ native[a] = NULL
        /\ \A u \in Tensors : handle'[u] = IF u = t THEN a ELSE handle[u]
        /\ \A x \in Addrs : native'[x] = IF x = a THEN b ELSE native[x]
    BY <1>8, <1>10, <2>1, SetHandleEffect
  <2>3. /\ \A x \in Bufs : x # b => content'[x] = content[x]
        /\ \A u \in Tensors : u # t => written'[u] = written[u]
        /\ \A x \in Addrs : native[x] # NULL => native[x] \in Bufs
        /\ \A u \in Threads : call[u].op = "writeBytes" =>
               call[u].tensor \in Tensors
        /\ \A u \in Threads : call[u].bufs \subseteq Bufs
        /\ outputs \subseteq Tensors
    BY <1>8, <1>10, CallKinds DEF AddressInv, TypeInv, TypeOK, HeapTypeOK,
                                  WriteCalls
  <2>4. \A u \in Threads : call[u].op = "writeBytes" => call[u].tensor # t
    <3>1. ~Overlaps(th, {}, {t})
      BY <1>1, <1>6, LawfulTensorStart
    <3>2. QED
      BY <1>4, <1>8, <3>1 DEF Overlaps, CallShapes
  <2>5. LiveFilled'
    <3>1. SUFFICES ASSUME NEW x \in Addrs, native'[x] # NULL
                   PROVE  \/ content'[native'[x]] \in Values
                          \/ \E u \in Threads : /\ call'[u].op = "writeBytes"
                                                /\ handle'[call'[u].tensor] = x
      BY DEF LiveFilled
    <3>2. CASE x = a
      BY <1>2, <1>4, <2>2, <3>2
    <3>3. CASE x # a
      BY <1>4, <1>8, <2>1, <2>2, <2>3, <2>4, <3>1, <3>3 DEF LiveFilled
    <3>4. QED
      BY <3>2, <3>3
  <2>6. HeldFilled'
    BY <1>2, <1>3, <1>8, <2>1, <2>3 DEF HeldFilled
  <2>7. OutputsFilled'
    BY <1>1, <1>2, <1>4, <1>8, <2>3 DEF OutputsFilled
  <2>8. QED
    BY <2>5, <2>6, <2>7
<1>11. QED
  BY <1>1, <1>6, <1>9, <1>10 DEF createBackingTensor, create

LEMMA WriteBytesRead ==
    ASSUME ReadInv, AddressInv', NEW th \in Threads, WriteBytes(th),
           UNCHANGED outputs
    PROVE  ReadInv'
<1> DEFINE t == call[th].tensor
<1>1. /\ status = "running" /\ call[th].op = "writeBytes" /\ Lawful' = Lawful
      /\ call' = [call EXCEPT ![th] = Idle]
      /\ UNCHANGED << handle, native, closed >>
  BY DEF WriteBytes, Lawful
<1>2. /\ t \in Tensors /\ call[th].data \in Values /\ call[th].direct
  BY <1>1, CallKinds DEF ReadInv, AddressInv, TypeInv, WriteCalls, WritesDirect
<1>3. \A u \in Threads : call'[u] = IF u = th THEN Idle ELSE call[u]
  BY <1>1 DEF ReadInv, AddressInv, TypeInv, TypeOK
<1>4. WritesDirect' /\ ResultsHeld'
  BY <1>3 DEF ReadInv, WritesDirect, ResultsHeld, Idle
<1>5. SUFFICES ASSUME Lawful, status' = "running"
               PROVE  LiveFilled' /\ HeldFilled' /\ OutputsFilled'
  BY <1>1, <1>4 DEF ReadInv
<1>6. LiveFilled /\ HeldFilled /\ OutputsFilled /\ AddressInv
  BY <1>1, <1>5 DEF ReadInv
<1>7. /\ handle[t] \in Addrs /\ BufferOf(t) \in Bufs
      /\ content' = [content EXCEPT ![BufferOf(t)] = call[th].data]
      /\ written' = [written EXCEPT ![t] = call[th].data]
  BY <1>1, <1>2, <1>5, <1>6 DEF WriteBytes, Deref, BufferOf, AddressInv,
                                TypeInv, TypeOK, HeapTypeOK
<1>8. /\ content'[BufferOf(t)] \in Values
      /\ written'[t] # Uninit
      /\ \A u \in Tensors : u # t => written'[u] = written[u]
      /\ \A x \in Bufs : content'[x] \in Values \cup {content[x]}
      /\ \A x \in Addrs : native[x] # NULL => native[x] \in Bufs
      /\ \A u \in Threads : call[u].bufs \subseteq Bufs
      /\ outputs \subseteq Tensors
  BY <1>2, <1>6, <1>7, CallKinds DEF AddressInv, TypeInv, TypeOK, HeapTypeOK
<1>9. LiveFilled'
  <2>1. SUFFICES ASSUME NEW x \in Addrs, native[x] # NULL
                 PROVE  \/ content'[native[x]] \in Values
                        \/ \E u \in Threads : /\ call'[u].op = "writeBytes"
                                              /\ handle[call'[u].tensor] = x
    BY <1>1 DEF LiveFilled
  <2>2. CASE x = handle[t]
    BY <1>8, <2>2 DEF BufferOf
  <2>3. CASE x # handle[t]
    BY <1>3, <1>6, <1>8, <2>1, <2>3 DEF LiveFilled
  <2>4. QED
    BY <2>2, <2>3
<1>10. HeldFilled'
  BY <1>3, <1>6, <1>8 DEF HeldFilled, Idle
<1>11. OutputsFilled'
  <2>1. SUFFICES ASSUME NEW u \in outputs \ closed, written'[u] = Uninit
                 PROVE  \E w \in Threads : /\ call'[w].op = "writeBytes"
                                           /\ call'[w].tensor = u
    BY <1>1 DEF OutputsFilled
  <2>2. u # t /\ written[u] = Uninit
    BY <1>8, <2>1
  <2>3. QED
    BY <1>3, <1>6, <2>1, <2>2 DEF OutputsFilled
<1>12. QED
  BY <1>9, <1>10, <1>11

LEMMA CloseRead ==
    ASSUME ReadInv, AddressInv', NEW th \in Threads, NEW t \in Tensors,
           Close(th, t), UNCHANGED outputs
    PROVE  ReadInv'
<1>1. /\ status = "running" /\ (Lawful' => Lawful)
      /\ UNCHANGED << handle, content, call >> /\ closed' = closed \cup {t}
      /\ written' = [written EXCEPT ![t] = Uninit]
  BY DEF Close, Ready, Accept, Lawful
<1>2. \A x \in Addrs : native'[x] \in {native[x], NULL}
  BY DEF Close, ReadInv, AddressInv, TypeInv, TypeOK, HeapTypeOK
<1>3. \A u \in Tensors : u # t => written'[u] = written[u]
  BY <1>1 DEF ReadInv, AddressInv, TypeInv, TypeOK, HeapTypeOK
<1>4. outputs \subseteq Tensors
  BY DEF ReadInv, AddressInv, TypeInv, TypeOK
<1>5. QED
  BY <1>1, <1>2, <1>3, <1>4 DEF ReadInv, WritesDirect, ResultsHeld, LiveFilled,
                                HeldFilled, OutputsFilled

(* The copies that run and train make are of tensors with bytes. *)
LEMMA BeginCallRead ==
    ASSUME ReadInv, AddressInv', NEW th \in Threads, NEW b \in Bundles,
           NEW ins \in SUBSET Tensors, NEW outs \in OutputArrays,
           NEW op \in {"run", "train"}, BeginCall(th, op, b, ins, outs)
    PROVE  ReadInv'
<1> DEFINE c == [op |-> op, bundle |-> b, reads |-> ins,
                 writes |-> Range(outs), outs |-> outs,
                 bufs |-> { BufferOf(t) : t \in ins },
                 results |-> << >>, next |-> 1, pending |-> FALSE]
<1>1. /\ status = "running" /\ call[th] = Idle
      /\ UNCHANGED << handle, native, content, written, closed, outputs >>
      /\ Accept(Charge(th, ins, Range(outs)) \cup ChargeBundle(b))
  BY DEF BeginCall, Ready, clientVars
<1>2. Lawful' => Lawful /\ ins \subseteq Open /\ ~Overlaps(th, ins, Range(outs))
  BY <1>1, LawfulStart DEF Open
<1>3. CASE UNCHANGED call
  BY <1>1, <1>2, <1>3, ReadFrame DEF ReadInv
<1>4. CASE /\ \A t \in ins : Deref(t) = "running"
           /\ call' = [call EXCEPT ![th] = c]
  <2>1. /\ c.bufs = { BufferOf(t) : t \in ins }
        /\ c.op \notin {"writeBytes", "publish"}
    OBVIOUS
  <2> HIDE DEF c
  <2>2. \A u \in Threads : call'[u] = IF u = th THEN c ELSE call[u]
    BY <1>4 DEF ReadInv, AddressInv, TypeInv, TypeOK
  <2>3. ASSUME Lawful', NEW t \in ins
        PROVE  content[BufferOf(t)] \in Values
    <3>1. /\ Lawful /\ ins \subseteq Open /\ ~Overlaps(th, ins, Range(outs))
          /\ LiveFilled /\ AddressInv /\ DistinctHandles /\ CallShapes
          /\ CallsOpen
      BY <1>1, <1>2, <2>3 DEF ReadInv, AddressInv
    <3>2. /\ handle[t] \in Addrs /\ handle[t] # NULL
          /\ native[handle[t]] # NULL
      BY <1>4, <3>1 DEF Deref, AddressInv, TypeInv, TypeOK, HeapTypeOK
    <3>3. ASSUME NEW u \in Threads, call[u].op = "writeBytes",
                 handle[call[u].tensor] = handle[t]
          PROVE  FALSE
      <4>1. call[u].tensor \in call[u].writes /\ call[u].tensor \in Open
        BY <3>1, <3>3, CallKinds DEF CallShapes, CallsOpen, Open, WriteCalls,
                                     AddressInv, TypeInv
      <4>2. call[u].tensor = t
        BY <3>1, <3>2, <3>3, <4>1 DEF DistinctHandles
      <4>3. u # th
        BY <1>1, <3>3 DEF Idle
      <4>4. QED
        BY <3>1, <4>1, <4>2, <4>3 DEF Overlaps
    <3>4. QED
      BY <3>1, <3>2, <3>3 DEF LiveFilled, BufferOf
  <2>4. \A u \in Threads : call[u].op = "writeBytes" => u # th
    BY <1>1 DEF Idle
  <2>5. Lawful' => \A x \in c.bufs : content'[x] \in Values
    BY <1>1, <2>1, <2>3
  <2>6. \A x \in Bufs : content'[x] \in Values \cup {content[x]}
    BY <1>1
  <2>7. QED
    BY <1>1, <1>2, <2>1, <2>2, <2>4, <2>5, <2>6, ReadFrame
<1>5. QED
  BY <1>3, <1>4 DEF BeginCall

(* An output that is handed over brings bytes. *)
LEMMA PublishRead ==
    ASSUME ReadInv, AddressInv', NEW th \in Threads, PublishOutput(th)
    PROVE  ReadInv'
<1> DEFINE t == call[th].outs[call[th].next]
           b == NextResult(th)
           c == Onward(call[th], "publish", call[th].bufs, call[th].results,
                       call[th].next + 1, call[th].pending)
<1>1. /\ status = "running" /\ Lawful' = Lawful /\ AddressInv
  BY DEF PublishOutput, Lawful, ReadInv
<1>2. /\ call[th].op = "publish" /\ call[th] \in ModelCalls
      /\ call[th].next \in 1..Len(call[th].results)
      /\ t \in Tensors /\ t \in call[th].writes /\ b \in Bufs
      /\ UNCHANGED << closed, content >>
  BY <1>1, PublishEffect
<1>3. CASE UNCHANGED << call, handle, native, written, outputs >>
  BY <1>1, <1>2, <1>3, ReadFrame
<1>4. ASSUME NEW a \in FreeAddrs, setHandle(t, a, b),
             written' = [written EXCEPT ![t] = content[b]],
             outputs' = outputs \cup {t},
             \A u \in Threads \ {th} : call'[u] = call[u],
             call'[th] = c
      PROVE  ReadInv'
  <2>1. /\ c.op = "publish" /\ c.results = call[th].results
        /\ c.bufs = call[th].bufs
    BY DEF Onward
  <2>2. b \in Range(call[th].results)
    BY <1>2 DEF NextResult, Range, ModelCalls
  <2> HIDE DEF c, b, t
  <2>3. WritesDirect' /\ ResultsHeld'
    BY <1>2, <1>4, <2>1 DEF ReadInv, WritesDirect, ResultsHeld
  <2>4. SUFFICES ASSUME Lawful
                 PROVE  LiveFilled' /\ HeldFilled' /\ OutputsFilled'
    BY <1>1, <2>3 DEF ReadInv
  <2>5. LiveFilled /\ HeldFilled /\ OutputsFilled /\ CallsApart /\ CallShapes
    BY <1>1, <2>4 DEF ReadInv, AddressInv
  <2>6. content[b] \in Values
    BY <1>2, <2>2, <2>5 DEF ReadInv, ResultsHeld, HeldFilled
  <2>7. /\ a \in Addrs /\ native[a] = NULL
        /\ \A u \in Tensors : handle'[u] = IF u = t THEN a ELSE handle[u]
        /\ \A x \in Addrs : native'[x] = IF x = a THEN b ELSE native[x]
    BY <1>1, <1>2, <1>4, SetHandleEffect
  <2>8. /\ \A u \in Tensors : u # t => written'[u] = written[u]
        /\ written'[t] = content[b] /\ outputs \subseteq Tensors
    BY <1>1, <1>2, <1>4 DEF AddressInv, TypeInv, TypeOK, HeapTypeOK
  <2>9. \A u \in Threads : call[u].op = "writeBytes" =>
            /\ call'[u] = call[u] /\ call[u].tensor \in Tensors
            /\ call[u].tensor # t
    <3>1. SUFFICES ASSUME NEW u \in Threads, call[u].op = "writeBytes"
                   PROVE  /\ call'[u] = call[u] /\ call[u].tensor \in Tensors
                          /\ call[u].tensor # t
      OBVIOUS
    <3>2. u # th
      BY <1>2, <3>1
    <3>3. call[u].tensor \in call[u].writes /\ call[u].tensor \in Tensors
      BY <1>1, <2>5, <3>1, CallKinds DEF CallShapes, AddressInv, TypeInv,
                                         WriteCalls
    <3>4. QED
      BY <1>2, <1>4, <2>5, <3>2, <3>3 DEF CallsApart
  <2>10. LiveFilled'
    <3>1. SUFFICES ASSUME NEW x \in Addrs, native'[x] # NULL
                   PROVE  \/ content[native'[x]] \in Values
                          \/ \E u \in Threads : /\ call'[u].op = "writeBytes"
                                                /\ handle'[call'[u].tensor] = x
      BY <1>2 DEF LiveFilled
    <3>2. CASE x = a
      BY <2>6, <2>7, <3>2
    <3>3. CASE x # a
      BY <2>5, <2>7, <2>9, <3>1, <3>3 DEF LiveFilled
    <3>4. QED
      BY <3>2, <3>3
  <2>11. HeldFilled'
    BY <1>2, <1>4, <2>1, <2>5 DEF HeldFilled
  <2>12. OutputsFilled'
    BY <1>2, <1>4, <2>5, <2>6, <2>8, <2>9 DEF OutputsFilled
  <2>13. QED
    BY <2>10, <2>11, <2>12
<1>5. QED
  BY <1>1, <1>3, <1>4, PublishEffect

LEMMA ReadStep ==
    ASSUME Debug = TRUE, ReadInv, [Next]_vars
    PROVE  ReadInv'
<1>1. AddressInv'
  BY AddressStep DEF ReadInv
<1>2. CASE UNCHANGED vars
  BY <1>1, <1>2 DEF vars, ReadInv, WritesDirect, ResultsHeld, LiveFilled,
                    HeldFilled, OutputsFilled, Lawful
<1>3. ASSUME NEW th \in Threads, Steps(th)
      PROVE  ReadInv'
  BY <1>1, <1>3, WriteBytesRead, SessionRead, PublishRead DEF Steps
<1>4. ASSUME NEW th \in Threads, Calls(th)
      PROVE  ReadInv'
  <2>1. status = "running" /\ (Lawful' => Lawful)
    BY <1>4, LawfulBefore DEF Next
  <2>2. ASSUME UNCHANGED << handle, native, content, written, closed, outputs,
                            call >>
        PROVE  ReadInv'
    BY <1>1, <2>1, <2>2, ReadFrame
  <2>3. ASSUME NEW t \in Tensors, GetBytes(th, t),
               UNCHANGED << bundle, outputs >>
        PROVE  ReadInv'
    BY <2>2, <2>3 DEF GetBytes
  <2>4. ASSUME NEW b \in Bundles, Create(th, b) \/ CloseBundle(th, b)
        PROVE  ReadInv'
    BY <2>2, <2>4 DEF Create, CloseBundle, tensorVars, clientVars
  <2>5. ASSUME NEW b \in Bundles, Export(th, b)
        PROVE  ReadInv'
    <3> DEFINE c == [op |-> "export", bundle |-> b, reads |-> {},
                     writes |-> {}, bufs |-> {}]
    <3>1. /\ c.op \notin {"writeBytes", "publish"}
          /\ c.bufs \subseteq call[th].bufs
          /\ call' \in {call, [call EXCEPT ![th] = c]}
          /\ call[th].op # "writeBytes"
          /\ UNCHANGED << handle, native, content, written, closed, outputs >>
      BY <2>5 DEF Export, Ready, Idle, clientVars
    <3> HIDE DEF c
    <3>2. QED
      BY <1>1, <2>1, <3>1, ReadCall
  <2>6. ASSUME NEW t \in Tensors, NEW v \in Values, NEW buffer \in ByteBuffers,
               SetBytes(th, t, v, buffer), UNCHANGED << bundle, outputs >>
        PROVE  ReadInv'
    BY <1>1, <2>6, SetBytesRead
  <2>7. ASSUME NEW t \in Tensors, Close(th, t), UNCHANGED << bundle, outputs >>
        PROVE  ReadInv'
    BY <1>1, <2>7, CloseRead
  <2>8. ASSUME NEW b \in Bundles, NEW ins \in SUBSET Tensors,
               NEW outs \in OutputArrays,
               Run(th, b, ins, outs) \/ Train(th, b, ins, outs)
        PROVE  ReadInv'
    BY <1>1, <2>8, BeginCallRead DEF Run, Train
  <2>9. QED
    BY <1>4, <2>3, <2>4, <2>5, <2>6, <2>7, <2>8 DEF Calls
<1>5. QED
  BY <1>2, <1>3, <1>4 DEF Next

(***************************************************************************)
(* In a debug build, for every graph, an open tensor that run or train has *)
(* filled has bytes that somebody wrote whenever no call is writing it.    *)
(* (In a release build setBytes may throw after it has replaced them.)     *)
(***************************************************************************)
THEOREM DebugOutputsReadable ==
    ASSUME Debug = TRUE
    PROVE  Spec => []OutputTensorsReadable
<1>1. Init => ReadInv
  <2> SUFFICES ASSUME Init PROVE ReadInv
    OBVIOUS
  <2>1. /\ \A th \in Threads : call[th] = Idle
        /\ \A a \in Addrs : native[a] = NULL
        /\ outputs = {}
    BY DEF Init, TensorInit
  <2>2. QED
    BY <2>1, AddressStart DEF ReadInv, WritesDirect, ResultsHeld, LiveFilled,
                              HeldFilled, OutputsFilled, Idle
<1>2. ReadInv /\ [Next]_vars => ReadInv'
  BY ReadStep
<1>3. ReadInv => OutputTensorsReadable
  BY DEF ReadInv, AddressInv, CallShapes, OutputsFilled, OutputTensorsReadable
<1>4. QED
  BY <1>1, <1>2, <1>3, PTL DEF Spec

-----------------------------------------------------------------------------
(***************************************************************************)
(* Graphs that forward an input: the only new fault is a race on a buffer  *)
(* that two native tensors share.                                          *)
(***************************************************************************)

(* Nothing but the call of th refers to b: a result not handed over yet. *)
FreshFor(th, b) ==
    /\ \A a \in Addrs : native[a] # b
    /\ \A u \in Threads \ {th} : b \notin call[u].bufs

(* A native tensor has b which no tensor that th does not name leads to. *)
KeptFor(th, b) ==
    \E a \in Addrs :
        /\ native[a] = b
        /\ \A t \in Open \ (call[th].reads \cup call[th].writes) : handle[t] # a

BufsKept ==
    \A th \in Threads : \A b \in call[th].bufs :
        FreshFor(th, b) \/ KeptFor(th, b)

RaceInv ==
    /\ AddressInv
    /\ ResultsHeld
    /\ Lawful /\ status = "running" => BufsKept
    /\ RacesNeedForwarding

(* A step that is no race leaves the faults of clients. *)
LEMMA NoRace ==
    ASSUME AddressInv', status' = "data_race" => ~Lawful'
    PROVE  RacesNeedForwarding'
<1>1. (status \in MemoryFaults \ {"null_deref"})' =>
          status' \in {"use_after_free", "double_free", "data_race"}
  BY DEF MemoryFaults
<1>2. FaultsAreClientFaults'
  BY <1>1 DEF AddressInv, AddressFaults, FaultsAreClientFaults, Lawful
<1>3. QED
  BY <1>2 DEF RacesNeedForwarding

(***************************************************************************)
(* A call of th starts, goes on or returns: it then holds buffers that it  *)
(* held before, that were free, or that belong to the tensors it reads.    *)
(***************************************************************************)
TakesBufs(th) ==
    /\ \A u \in Threads \ {th} : call'[u] = call[u]
    /\ \A b \in call'[th].bufs :
           \/ b \in FreeBufs
           \/ /\ b \in call[th].bufs
              /\ call'[th].reads = call[th].reads
              /\ call'[th].writes = call[th].writes
           \/ \E t \in call'[th].reads : handle[t] \in Addrs
                                           /\ native[handle[t]] = b
    /\ call'[th].op = "publish" =>
           Range(call'[th].results) \subseteq call'[th].bufs

LEMMA TakesRace ==
    ASSUME RaceInv, AddressInv', status = "running", Lawful' => Lawful,
           status' = "data_race" => ~Lawful',
           UNCHANGED << handle, native, closed >>,
           NEW th \in Threads, TakesBufs(th)
    PROVE  RaceInv'
<1>1. ResultsHeld'
  BY DEF RaceInv, ResultsHeld, TakesBufs
<1>2. RacesNeedForwarding'
  BY NoRace
<1>3. SUFFICES ASSUME Lawful', status' = "running" PROVE BufsKept'
  BY <1>1, <1>2 DEF RaceInv
<1>4. BufsKept /\ DistinctHandles /\ CallsOpen' /\ Open' = Open
  BY <1>3 DEF RaceInv, AddressInv, Open
<1>5. ASSUME NEW u \in Threads \ {th}, NEW b \in call[u].bufs
      PROVE  FreshFor(u, b)' \/ KeptFor(u, b)'
  <2>1. call'[u] = call[u]
    BY DEF TakesBufs
  <2>2. CASE KeptFor(u, b)
    BY <1>4, <2>1, <2>2 DEF KeptFor
  <2>3. CASE FreshFor(u, b)
    <3>1. b \notin FreeBufs
      BY FreeIsUnused
    <3>2. b \notin call'[th].bufs
      BY <2>3, <3>1 DEF TakesBufs, FreshFor
    <3>3. QED
      BY <2>3, <3>2 DEF FreshFor, TakesBufs
  <2>4. QED
    BY <1>4, <2>2, <2>3 DEF BufsKept
<1>6. ASSUME NEW b \in call'[th].bufs
      PROVE  FreshFor(th, b)' \/ KeptFor(th, b)'
  <2>1. CASE b \in FreeBufs
    BY <2>1, FreeIsUnused DEF FreshFor, TakesBufs
  <2>2. CASE /\ b \in call[th].bufs
             /\ call'[th].reads = call[th].reads
             /\ call'[th].writes = call[th].writes
    <3>1. FreshFor(th, b) \/ KeptFor(th, b)
      BY <1>4, <2>2 DEF BufsKept
    <3>2. QED
      BY <1>4, <2>2, <3>1 DEF FreshFor, KeptFor, TakesBufs
  <2>3. ASSUME NEW t \in call'[th].reads, handle[t] \in Addrs,
               native[handle[t]] = b
        PROVE  KeptFor(th, b)'
    <3>1. t \in Open
      <4>1. call'[th].reads \subseteq Tensors
        BY DEF AddressInv, TypeInv, TypeOK, IdleCalls, WriteCalls, ModelCalls,
               ExportCalls
      <4>2. QED
        BY <1>4, <2>3, <4>1 DEF CallsOpen, Open
    <3>2. \A u \in Open : u # t => handle[u] # handle[t]
      BY <1>4, <2>3, <3>1 DEF DistinctHandles
    <3>3. QED
      BY <1>4, <2>3, <3>2 DEF KeptFor
  <2>4. QED
    BY <2>1, <2>2, <2>3 DEF TakesBufs
<1>7. QED
  BY <1>5, <1>6 DEF BufsKept, TakesBufs

(* A step that lets th call c, or leaves the calls as they are. *)
LEMMA CallRace ==
    ASSUME RaceInv, AddressInv', status = "running", Lawful' => Lawful,
           status' = "data_race" => ~Lawful',
           UNCHANGED << handle, native, closed >>,
           NEW th \in Threads, NEW c, c.op # "publish",
           call' \in {call, [call EXCEPT ![th] = c]},
           \A b \in c.bufs : /\ b \in call[th].bufs
                             /\ c.reads = call[th].reads
                             /\ c.writes = call[th].writes
    PROVE  RaceInv'
<1>1. \A u \in Threads : call'[u] = call[u] \/ (u = th /\ call'[u] = c)
  BY DEF RaceInv, AddressInv, TypeInv, TypeOK
<1>2. TakesBufs(th)
  BY <1>1 DEF TakesBufs, RaceInv, ResultsHeld
<1>3. QED
  BY <1>2, TakesRace

LEMMA FetchedRace ==
    ASSUME RaceInv, AddressInv', NEW th \in Threads, call[th].op \in ModelOps,
           NEW n, NEW failed, Fetched(th, n, failed),
           status = "running", Lawful' => Lawful, status' # "data_race",
           UNCHANGED << handle, native, closed >>
    PROVE  RaceInv'
<1> DEFINE shared == IF PassThrough THEN call[th].bufs ELSE {}
<1>1. PICK r \in [1..n -> FreeBufs \cup shared] :
          call' = [call EXCEPT ![th] =
                     Onward(@, "publish", @.bufs \cup Range(r), r, 1,
                            @.pending \/ failed)]
  BY DEF Fetched
<1>2. \A b \in Range(r) : b \in FreeBufs \/ b \in call[th].bufs
  BY DEF Range
<1> DEFINE c == Onward(call[th], "publish", call[th].bufs \cup Range(r), r, 1,
                       call[th].pending \/ failed)
<1>3. /\ c.results = r /\ c.bufs = call[th].bufs \cup Range(r)
      /\ c.reads = call[th].reads /\ c.writes = call[th].writes
  BY DEF Onward
<1>4. \A u \in Threads : call'[u] = IF u = th THEN c ELSE call[u]
  BY <1>1 DEF RaceInv, AddressInv, TypeInv, TypeOK
<1> HIDE DEF c, shared
<1>5. TakesBufs(th)
  BY <1>2, <1>3, <1>4 DEF TakesBufs
<1>6. QED
  BY <1>5, TakesRace

(* The steps of run, train and export between their session calls. *)
LEMMA SessionRace ==
    ASSUME RaceInv, AddressInv', NEW th \in Threads,
           FinishRun(th) \/ TrainStep(th) \/ FetchStep(th)
              \/ ReturnOutputs(th) \/ FinishExport(th)
    PROVE  RaceInv'
<1>1. /\ status = "running" /\ (Lawful' => Lawful) /\ status' # "data_race"
      /\ UNCHANGED << handle, native, closed >>
  BY DEF FinishRun, TrainStep, FetchStep, FetchFailed, ReturnOutputs,
         FinishExport, SessionGone, Exhausted, clientVars, Lawful
<1>2. ASSUME call' \in {call, [call EXCEPT ![th] = Idle]}
      PROVE  RaceInv'
  <2>1. Idle.op # "publish" /\ Idle.bufs = {}
    BY DEF Idle
  <2>2. QED
    BY <1>1, <1>2, <2>1, CallRace
<1>3. ASSUME call[th].op \in ModelOps, NEW n, NEW failed,
             Fetched(th, n, failed)
      PROVE  RaceInv'
  BY <1>1, <1>3, FetchedRace
<1>4. CASE FinishRun(th)
  BY <1>2, <1>3, <1>4 DEF FinishRun, SessionGone, Exhausted, Return, ModelOps
<1>5. CASE TrainStep(th)
  <2>1. ASSUME NEW failed \in BOOLEAN,
               call' = [call EXCEPT ![th] =
                          Onward(@, "fetch", @.bufs, << >>, 1, failed)]
        PROVE  RaceInv'
    <3> DEFINE c == Onward(call[th], "fetch", call[th].bufs, << >>, 1, failed)
    <3>1. /\ call' \in {call, [call EXCEPT ![th] = c]}
          /\ c.op # "publish" /\ c.bufs = call[th].bufs
          /\ c.reads = call[th].reads /\ c.writes = call[th].writes
      BY <2>1 DEF Onward
    <3> HIDE DEF c
    <3>2. QED
      BY <1>1, <3>1, CallRace
  <2>2. QED
    BY <1>2, <1>5, <2>1 DEF TrainStep, SessionGone
<1>6. CASE FetchStep(th)
  BY <1>2, <1>3, <1>6 DEF FetchStep, FetchFailed, SessionGone, Exhausted,
                          ModelOps
<1>7. CASE ReturnOutputs(th) \/ FinishExport(th)
  BY <1>2, <1>7 DEF ReturnOutputs, FinishExport, SessionGone, Return
<1>8. QED
  BY <1>4, <1>5, <1>6, <1>7

(* run and train hold the buffers of their inputs. *)
LEMMA BeginCallRace ==
    ASSUME RaceInv, AddressInv', NEW th \in Threads, NEW b \in Bundles,
           NEW ins \in SUBSET Tensors, NEW outs \in OutputArrays,
           NEW op \in {"run", "train"}, BeginCall(th, op, b, ins, outs),
           Lawful' => Lawful
    PROVE  RaceInv'
<1>1. /\ status = "running" /\ UNCHANGED << handle, native, closed >>
      /\ status' # "data_race"
  BY DEF BeginCall, Ready, clientVars, Deref
<1>2. CASE UNCHANGED call
  <2>1. TakesBufs(th)
    BY <1>2 DEF TakesBufs, RaceInv, ResultsHeld
  <2>2. QED
    BY <1>1, <2>1, TakesRace
<1>3. CASE ~UNCHANGED call
  <2> DEFINE c == [op |-> op, bundle |-> b, reads |-> ins,
                   writes |-> Range(outs), outs |-> outs,
                   bufs |-> { BufferOf(t) : t \in ins },
                   results |-> << >>, next |-> 1, pending |-> FALSE]
  <2>1. /\ call' = [call EXCEPT ![th] = c]
        /\ \A t \in ins : Deref(t) = "running"
    BY <1>3 DEF BeginCall
  <2>2. c.op # "publish" /\ c.reads = ins
        /\ c.bufs = { BufferOf(t) : t \in ins }
    OBVIOUS
  <2>3. \A u \in Threads : call'[u] = IF u = th THEN c ELSE call[u]
    BY <2>1 DEF RaceInv, AddressInv, TypeInv, TypeOK
  <2> HIDE DEF c
  <2>4. \A t \in ins : handle[t] \in Addrs
    BY <2>1 DEF Deref, RaceInv, AddressInv, TypeInv, TypeOK, HeapTypeOK
  <2>5. TakesBufs(th)
    BY <2>2, <2>3, <2>4 DEF TakesBufs, BufferOf
  <2>6. QED
    BY <1>1, <2>5, TakesRace
<1>4. QED
  BY <1>2, <1>3

(***************************************************************************)
(* A tensor t gets a native tensor at a new address.  Whoever holds its    *)
(* buffer b names t or has b otherwise.                                    *)
(***************************************************************************)
LEMMA SetHandleRace ==
    ASSUME RaceInv, Lawful, status = "running",
           NEW t \in Tensors, NEW a \in FreeAddrs, NEW b \in Bufs,
           setHandle(t, a, b), UNCHANGED closed,
           \A u \in Threads : /\ call'[u].bufs \subseteq call[u].bufs
                              /\ \/ call'[u].bufs = {}
                                 \/ /\ call'[u].reads = call[u].reads
                                    /\ call'[u].writes = call[u].writes,
           \A u \in Threads : FreshFor(u, b) /\ b \in call[u].bufs =>
                                  t \in call[u].writes
    PROVE  BufsKept'
<1>1. AddressInv /\ BufsKept /\ LiveHandles /\ Open' = Open /\ TypeOK
  BY DEF RaceInv, AddressInv, TypeInv, Open
<1>2. /\ a \in Addrs /\ native[a] = NULL
      /\ \A u \in Tensors : handle'[u] = IF u = t THEN a ELSE handle[u]
      /\ \A x \in Addrs : native'[x] = IF x = a THEN b ELSE native[x]
  BY <1>1, SetHandleEffect
<1>3. \A u \in Open : u \in Tensors /\ handle[u] # a
  BY <1>1, <1>2 DEF LiveHandles, Open
<1>4. SUFFICES ASSUME NEW u \in Threads, NEW d \in call'[u].bufs
               PROVE  FreshFor(u, d)' \/ KeptFor(u, d)'
  BY DEF BufsKept
<1>5. /\ d \in call[u].bufs /\ d \in Bufs /\ d # NULL
      /\ call'[u].reads = call[u].reads /\ call'[u].writes = call[u].writes
  BY <1>1, <1>4, CallKinds
<1>6. CASE KeptFor(u, d)
  <2>1. PICK x \in Addrs :
          /\ native[x] = d
          /\ \A w \in Open \ (call[u].reads \cup call[u].writes) : handle[w] # x
    BY <1>6 DEF KeptFor
  <2>2. x # a
    BY <1>2, <1>5, <2>1
  <2>3. native'[x] = d
        /\ \A w \in Open \ (call[u].reads \cup call[u].writes) : handle'[w] # x
    BY <1>2, <1>3, <2>1, <2>2
  <2>4. QED
    BY <1>1, <1>5, <2>3 DEF KeptFor
<1>7. CASE FreshFor(u, d) /\ d # b
  BY <1>2, <1>7 DEF FreshFor
<1>8. CASE FreshFor(u, d) /\ d = b
  <2>1. t \in call[u].writes
    BY <1>5, <1>8
  <2>2. native'[a] = d
        /\ \A w \in Open \ (call[u].reads \cup call[u].writes) : handle'[w] # a
    BY <1>2, <1>3, <1>8, <2>1
  <2>3. QED
    BY <1>1, <1>2, <1>5, <2>2 DEF KeptFor
<1>9. QED
  BY <1>1, <1>5, <1>6, <1>7, <1>8 DEF BufsKept

LEMMA SetBytesRace ==
    ASSUME RaceInv, AddressInv', NEW th \in Threads, NEW t \in Tensors,
           NEW v \in Values, NEW buffer \in ByteBuffers,
           SetBytes(th, t, v, buffer), Lawful' => Lawful
    PROVE  RaceInv'
<1> DEFINE c == [op |-> "writeBytes", reads |-> {}, writes |-> {t},
                 bufs |-> {}, tensor |-> t, data |-> v,
                 direct |-> buffer # "heap"]
<1>1. /\ status = "running" /\ UNCHANGED closed /\ status' # "data_race"
      /\ createBackingTensor(t)
      /\ call' = [call EXCEPT ![th] = c]
  BY DEF SetBytes, Ready, createBackingTensor, create
<1>2. c.op # "publish" /\ c.bufs = {}
  OBVIOUS
<1> HIDE DEF c
<1>3. CASE UNCHANGED << handle, native >>
  BY <1>1, <1>2, <1>3, CallRace
<1>4. ASSUME NEW a \in FreeAddrs, NEW b \in FreeBufs, setHandle(t, a, b)
      PROVE  RaceInv'
  <2>1. \A u \in Threads : call'[u] = IF u = th THEN c ELSE call[u]
    BY <1>1 DEF RaceInv, AddressInv, TypeInv, TypeOK
  <2>2. ResultsHeld'
    BY <1>2, <2>1 DEF RaceInv, ResultsHeld
  <2>3. b \in Bufs /\ \A u \in Threads : b \notin call[u].bufs
    BY FreeIsUnused
  <2>4. Lawful => BufsKept'
    BY <1>1, <1>2, <1>4, <2>1, <2>3, SetHandleRace
  <2>5. QED
    BY <1>1, <2>2, <2>4, NoRace DEF RaceInv
<1>5. QED
  BY <1>1, <1>3, <1>4 DEF createBackingTensor, create

LEMMA PublishRace ==
    ASSUME RaceInv, AddressInv', NEW th \in Threads, PublishOutput(th)
    PROVE  RaceInv'
<1> DEFINE t == call[th].outs[call[th].next]
<1>1. /\ status = "running" /\ AddressInv /\ (Lawful' => Lawful)
      /\ status' # "data_race" /\ call[th].op = "publish"
  BY DEF PublishOutput, Lawful, RaceInv
<1>2. /\ t \in Tensors /\ t \in call[th].writes /\ NextResult(th) \in Bufs
      /\ UNCHANGED closed
      /\ call[th].next \in 1..Len(call[th].results)
      /\ call[th] \in ModelCalls
  BY <1>1, PublishEffect
<1>3. NextResult(th) \in call[th].bufs
  BY <1>1, <1>2 DEF RaceInv, ResultsHeld, NextResult, Range, ModelCalls
<1>4. CASE UNCHANGED << call, handle, native >>
  <2>1. TakesBufs(th)
    BY <1>4 DEF TakesBufs, RaceInv, ResultsHeld
  <2>2. QED
    BY <1>1, <1>2, <1>4, <2>1, TakesRace
<1>5. CASE /\ \E a \in FreeAddrs : setHandle(t, a, NextResult(th))
           /\ \A u \in Threads \ {th} : call'[u] = call[u]
           /\ call'[th] = Onward(call[th], "publish", call[th].bufs,
                                 call[th].results, call[th].next + 1,
                                 call[th].pending)
  <2>1. \A u \in Threads : /\ call'[u].op = call[u].op
                           /\ call'[u].bufs = call[u].bufs
                           /\ call'[u].reads = call[u].reads
                           /\ call'[u].writes = call[u].writes
                           /\ u # th => call'[u] = call[u]
    BY <1>1, <1>5 DEF Onward
  <2>2. call'[th].results = call[th].results
    BY <1>5 DEF Onward
  <2>3. ResultsHeld'
    BY <2>1, <2>2 DEF RaceInv, ResultsHeld
  <2>4. \A u \in Threads : FreshFor(u, NextResult(th)) => u = th
    BY <1>3 DEF FreshFor
  <2> HIDE DEF t
  <2>5. Lawful => BufsKept'
    BY <1>1, <1>2, <1>5, <2>1, <2>4, SetHandleRace
  <2>6. QED
    BY <1>1, <2>3, <2>5, NoRace DEF RaceInv
<1>6. QED
  BY <1>1, <1>4, <1>5, PublishEffect

(* close frees a native tensor that no call in flight depends on. *)
LEMMA CloseRace ==
    ASSUME RaceInv, AddressInv', NEW th \in Threads, NEW t \in Tensors,
           Close(th, t)
    PROVE  RaceInv'
<1>1. /\ status = "running" /\ call[th] = Idle /\ Open' = Open \ {t}
      /\ UNCHANGED << handle, call >> /\ Accept(Charge(th, {}, {t}))
      /\ status' # "data_race"
  BY DEF Close, Ready, Open
<1>2. ResultsHeld' /\ RacesNeedForwarding'
  BY <1>1, NoRace DEF RaceInv, ResultsHeld
<1>3. SUFFICES ASSUME Lawful' PROVE BufsKept'
  BY <1>2 DEF RaceInv
<1>4. Lawful /\ t \in Open /\ ~Overlaps(th, {}, {t})
  BY <1>1, <1>3, LawfulTensorStart DEF Open
<1>5. BufsKept /\ TypeOK
  BY <1>1, <1>4 DEF RaceInv, AddressInv, TypeInv
<1>6. \A u \in Threads : t \notin call[u].reads \cup call[u].writes
  BY <1>1, <1>4 DEF Overlaps, Idle
<1>7. \A x \in Addrs : \/ native'[x] = native[x]
                       \/ x = handle[t] /\ native'[x] = NULL
  BY <1>5 DEF Close, TypeOK, HeapTypeOK
<1>8. SUFFICES ASSUME NEW u \in Threads, NEW b \in call[u].bufs
               PROVE  FreshFor(u, b)' \/ KeptFor(u, b)'
  BY <1>1 DEF BufsKept
<1>9. CASE FreshFor(u, b)
  <2>1. b # NULL
    BY <1>5, CallKinds
  <2>2. QED
    BY <1>1, <1>7, <1>9, <2>1 DEF FreshFor
<1>10. CASE KeptFor(u, b)
  BY <1>1, <1>4, <1>6, <1>7, <1>10 DEF KeptFor
<1>11. QED
  BY <1>5, <1>9, <1>10 DEF BufsKept

(* writeBytes races with a call that has the buffer from another tensor. *)
LEMMA WriteBytesRace ==
    ASSUME RaceInv, AddressInv', NEW th \in Threads, WriteBytes(th)
    PROVE  RaceInv'
<1>0. PICK t : t = call[th].tensor
  OBVIOUS
<1>1. /\ status = "running" /\ call[th].op = "writeBytes" /\ TypeOK
      /\ UNCHANGED << handle, native, closed, blame >>
      /\ call' = [call EXCEPT ![th] = Idle]
      /\ AddressInv /\ t \in Tensors /\ t \in call[th].writes
  BY <1>0, CallKinds DEF WriteBytes, RaceInv, AddressInv, TypeInv, WriteCalls,
                         CallShapes
<1>2. /\ \A u \in Threads : call'[u] = IF u = th THEN Idle ELSE call[u]
      /\ Idle.op # "publish" /\ Idle.bufs = {}
      /\ Lawful' = Lawful /\ Open' = Open
  BY <1>1 DEF TypeOK, Idle, Lawful, Open
<1>3. CASE status' # "data_race" \/ ~Lawful
  BY <1>1, <1>2, <1>3, CallRace
<1>4. CASE status' = "data_race" /\ Lawful
  <2>1. BufsKept /\ CallsApart /\ CallsOpen
    BY <1>1, <1>4 DEF RaceInv, AddressInv
  <2>2. /\ Deref(t) = "running"
        /\ \E u \in Threads \ {th} : BufferOf(t) \in call[u].bufs
    BY <1>0, <1>1, <1>4 DEF WriteBytes, Deref
  <2>3. PICK u \in Threads \ {th} : BufferOf(t) \in call[u].bufs
    BY <2>2
  <2>4. t \in Open /\ t \notin call[u].reads \cup call[u].writes
    BY <1>1, <2>1 DEF CallsApart, CallsOpen, Open
  <2>5. handle[t] \in Addrs
    BY <1>1, <2>2 DEF Deref, TypeOK, HeapTypeOK
  <2>6. KeptFor(u, BufferOf(t))
    BY <2>1, <2>3, <2>5 DEF BufsKept, FreshFor, BufferOf
  <2>7. \E a \in Addrs \ {handle[t]} : native[a] = BufferOf(t)
    BY <2>4, <2>6 DEF KeptFor
  <2>8. SharedUnseen(u, t)'
    BY <1>1, <1>2, <2>2, <2>3, <2>4, <2>7 DEF SharedUnseen, Deref, BufferOf
  <2>9. RacesNeedForwarding'
    BY <1>2, <1>4, <2>4, <2>8 DEF RacesNeedForwarding
  <2>10. ResultsHeld'
    BY <1>2 DEF RaceInv, ResultsHeld
  <2>11. QED
    BY <1>4, <2>9, <2>10 DEF RaceInv
<1>5. QED
  BY <1>3, <1>4

LEMMA RaceStep ==
    ASSUME RaceInv, [Next]_vars
    PROVE  RaceInv'
<1>1. AddressInv'
  BY AddressStep DEF RaceInv
<1>2. CASE UNCHANGED vars
  <2>1. UNCHANGED << Lawful, Open >>
    BY <1>2 DEF vars, Lawful, Open
  <2>2. RacesNeedForwarding'
    BY <1>2, <2>1 DEF vars, RaceInv, RacesNeedForwarding, SharedUnseen,
                      FaultsAreClientFaults, Deref, BufferOf
  <2>3. QED
    BY <1>1, <1>2, <2>1, <2>2 DEF vars, RaceInv, ResultsHeld, BufsKept,
                                  FreshFor, KeptFor
<1>3. ASSUME NEW th \in Threads, Steps(th)
      PROVE  RaceInv'
  BY <1>1, <1>3, WriteBytesRace, SessionRace, PublishRace DEF Steps
<1>4. ASSUME NEW th \in Threads, Calls(th)
      PROVE  RaceInv'
  <2>1. status = "running" /\ (Lawful' => Lawful)
    BY <1>4, LawfulBefore DEF Next
  <2>2. Idle.op # "publish" /\ Idle.bufs = {}
    BY DEF Idle
  <2>3. ASSUME NEW t \in Tensors, GetBytes(th, t)
        PROVE  RaceInv'
    BY <1>1, <2>1, <2>2, <2>3, CallRace DEF GetBytes, Deref
  <2>4. ASSUME NEW b \in Bundles, Create(th, b) \/ CloseBundle(th, b)
        PROVE  RaceInv'
    BY <1>1, <2>1, <2>2, <2>4, CallRace
       DEF Create, CloseBundle, tensorVars, clientVars
  <2>5. ASSUME NEW b \in Bundles, Export(th, b)
        PROVE  RaceInv'
    <3> DEFINE c == [op |-> "export", bundle |-> b, reads |-> {},
                     writes |-> {}, bufs |-> {}]
    <3>1. /\ c.op # "publish" /\ c.bufs = {}
          /\ call' \in {call, [call EXCEPT ![th] = c]}
          /\ UNCHANGED << handle, native, closed >>
          /\ status' # "data_race"
      BY <2>1, <2>5 DEF Export, clientVars
    <3> HIDE DEF c
    <3>2. QED
      BY <1>1, <2>1, <3>1, CallRace
  <2>6. ASSUME NEW t \in Tensors, NEW v \in Values, NEW buffer \in ByteBuffers,
               SetBytes(th, t, v, buffer)
        PROVE  RaceInv'
    BY <1>1, <2>1, <2>6, SetBytesRace
  <2>7. ASSUME NEW t \in Tensors, Close(th, t)
        PROVE  RaceInv'
    BY <1>1, <2>7, CloseRace
  <2>8. ASSUME NEW b \in Bundles, NEW ins \in SUBSET Tensors,
               NEW outs \in OutputArrays,
               Run(th, b, ins, outs) \/ Train(th, b, ins, outs)
        PROVE  RaceInv'
    BY <1>1, <2>1, <2>8, BeginCallRace DEF Run, Train
  <2>9. QED
    BY <1>4, <2>3, <2>4, <2>5, <2>6, <2>7, <2>8 DEF Calls
<1>5. QED
  BY <1>2, <1>3, <1>4 DEF Next

(***************************************************************************)
(* For every graph, clients that may break any rule and any numbers of     *)
(* threads and tensors: a memory fault that is not the client's is a race  *)
(* of writeBytes on a buffer that the calls in flight hold as the data of  *)
(* another tensor, to which run or train has forwarded it.                 *)
(***************************************************************************)
THEOREM ForwardingOnlyRaces == Spec => []RacesNeedForwarding
<1>1. Init => RaceInv
  <2> SUFFICES ASSUME Init PROVE RaceInv
    OBVIOUS
  <2>1. /\ \A th \in Threads : call[th].op = "idle" /\ call[th].bufs = {}
        /\ status = "running"
    BY DEF Init, TensorInit, Idle
  <2>2. QED
    BY <2>1, AddressStart DEF RaceInv, ResultsHeld, BufsKept, MemoryFaults,
                              RacesNeedForwarding, FaultsAreClientFaults
<1>2. RaceInv /\ [Next]_vars => RaceInv'
  BY RaceStep
<1>3. RaceInv => RacesNeedForwarding
  BY DEF RaceInv
<1>4. QED
  BY <1>1, <1>2, <1>3, PTL DEF Spec
=============================================================================
