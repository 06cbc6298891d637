---------------------------- MODULE AddressProofs ----------------------------
(***************************************************************************)
(* Memory safety of the library for clients that keep to the rules, as far *)
(* as it concerns the addresses of native tensors: who points to which,    *)
(* and who may delete it.  All of it holds for every graph, also for one   *)
(* whose session returns an input's buffer as an output.                   *)
(***************************************************************************)
EXTENDS TypeProofs

USE TensorAssumption, BundleAssumption

-----------------------------------------------------------------------------
(***************************************************************************)
(* The inductive invariant.                                                *)
(***************************************************************************)

(* A tensor that setBytes or a model has filled has a handle. *)
FilledHaveHandles ==
    \A t \in Tensors : isBacked[t] \/ written[t] # Uninit => handle[t] # NULL

(* What the records of the calls in flight say of their tensors. *)
CallShapes ==
    \A th \in Threads :
        /\ call[th].op = "writeBytes" =>
               /\ call[th].writes = {call[th].tensor}
               /\ isBacked[call[th].tensor]
        /\ call[th].op \in {"run", "train", "fetch", "publish"} =>
               call[th].writes = Range(call[th].outs)

(* The handle of an open tensor leads to a native tensor of its own. *)
LiveHandles ==
    \A t \in Open : handle[t] # NULL => native[handle[t]] # NULL

DistinctHandles ==
    \A t, u \in Open : t # u /\ handle[t] # NULL => handle[t] # handle[u]

(* Calls in flight do not overlap, and use open tensors and bundles. *)
CallsApart ==
    \A th, u \in Threads :
        th # u => call[th].writes \cap (call[u].reads \cup call[u].writes) = {}

CallsOpen ==
    \A th \in Threads :
        /\ (call[th].reads \cup call[th].writes) \cap closed = {}
        /\ call[th].op \in BundleOps => bundle[call[th].bundle] = "loaded"

(* No other open tensor can free the native tensor behind a view. *)
ViewsOwned ==
    \A t \in Open : view[t] # NULL =>
        \E a \in Addrs : /\ native[a] = view[t].buf
                         /\ \A u \in Open : u # t => handle[u] # a

(***************************************************************************)
(* A null handle is followed only for a tensor without data, and freed     *)
(* memory is touched only after a use after close() or overlapping calls.  *)
(***************************************************************************)
AddressFaults ==
    /\ status = "null_deref" => "noData" \in blame
    /\ status \in {"use_after_free", "double_free"} => ~Lawful

AddressInv ==
    /\ TypeInv
    /\ AddressFaults
    /\ status = "running" => FilledHaveHandles /\ CallShapes
    /\ Lawful => ViewsOwned
    /\ Lawful /\ status = "running" =>
           LiveHandles /\ DistinctHandles /\ CallsApart /\ CallsOpen

-----------------------------------------------------------------------------
(***************************************************************************)
(* Starting a call.                                                        *)
(***************************************************************************)

ModelOps == {"run", "train", "fetch", "publish"}

(* A client that is still lawful after starting a call broke no rule by it. *)
LEMMA LawfulStart ==
    ASSUME NEW th \in Threads, NEW R, NEW W, NEW X, NEW B,
           X = Charge(th, R, W) \cup B, Accept(X), Lawful'
    PROVE  /\ Lawful
           /\ ~Overlaps(th, R, W)
           /\ (R \cup W) \cap closed = {}
           /\ B \cap {"overlap", "afterClose"} = {}
BY DEF Accept, Lawful, Charge, Rules

LEMMA LawfulTensorStart ==
    ASSUME NEW th \in Threads, NEW R, NEW W, Accept(Charge(th, R, W)), Lawful'
    PROVE  /\ Lawful
           /\ ~Overlaps(th, R, W)
           /\ (R \cup W) \cap closed = {}
BY DEF Accept, Lawful, Charge, Rules

(* It keeps the calls in flight apart and on open tensors. *)
LEMMA ApartStart ==
    ASSUME TypeInv, NEW th \in Threads, NEW c, ~Overlaps(th, c.reads, c.writes),
           CallsApart, call' = [call EXCEPT ![th] = c]
    PROVE  CallsApart'
<1>1. \A u \in Threads : call'[u] = IF u = th THEN c ELSE call[u]
  BY DEF TypeInv, TypeOK
<1>2. SUFFICES ASSUME NEW u \in Threads, NEW w \in Threads, u # w
               PROVE  call'[u].writes \cap (call'[w].reads \cup call'[w].writes)
                        = {}
  BY DEF CallsApart
<1>3. CASE u = th
  BY <1>1, <1>2, <1>3 DEF Overlaps
<1>4. CASE w = th
  BY <1>1, <1>2, <1>4 DEF Overlaps
<1>5. CASE u # th /\ w # th
  BY <1>1, <1>2, <1>5 DEF CallsApart
<1>6. QED
  BY <1>3, <1>4, <1>5

(***************************************************************************)
(* A step of run, train or export inside the library that touches no Java  *)
(* tensor: the call goes on with the same tensors, or returns.             *)
(***************************************************************************)
GoesOn(th) ==
    /\ \A u \in Threads \ {th} : call'[u] = call[u]
    /\ \/ call'[th] = Idle
       \/ call'[th] = call[th]
       \/ /\ call[th].op \in ModelOps /\ call'[th].op \in ModelOps
          /\ call'[th].reads = call[th].reads
          /\ call'[th].writes = call[th].writes
          /\ call'[th].outs = call[th].outs
          /\ call'[th].bundle = call[th].bundle

LEMMA GoesOnAddress ==
    ASSUME AddressInv, TypeInv', NEW th \in Threads, GoesOn(th),
           UNCHANGED << handle, native, owner, written, blame, bundle, outputs,
                        clientVars >>,
           status = "running", AddressFaults'
    PROVE  AddressInv'
<1>1. UNCHANGED << Lawful, Open >>
  BY DEF Lawful, Open, clientVars
<1>2. FilledHaveHandles'
  BY DEF AddressInv, FilledHaveHandles, clientVars
<1>3. CallShapes'
  BY DEF AddressInv, CallShapes, GoesOn, clientVars, Idle, ModelOps
<1>4. Lawful => ViewsOwned'
  BY <1>1 DEF AddressInv, ViewsOwned, clientVars
<1>5. Lawful => LiveHandles' /\ DistinctHandles'
  BY <1>1 DEF AddressInv, LiveHandles, DistinctHandles
<1>6. \A u \in Threads : /\ call'[u].reads \subseteq call[u].reads
                         /\ call'[u].writes \subseteq call[u].writes
  BY DEF GoesOn, Idle
<1>7. Lawful => CallsApart'
  BY <1>6 DEF AddressInv, CallsApart
<1>8. Lawful => CallsOpen'
  BY <1>6 DEF AddressInv, CallsOpen, GoesOn, BundleOps, ModelOps, Idle,
              clientVars
<1>9. QED
  BY <1>1, <1>2, <1>3, <1>4, <1>5, <1>7, <1>8 DEF AddressInv

-----------------------------------------------------------------------------
(***************************************************************************)
(* The steps inside run, train and export.                                 *)
(***************************************************************************)

(* A session that is gone shows that a client closed it too early. *)
LEMMA SessionGoneAddress ==
    ASSUME AddressInv, NEW th \in Threads, SessionGone(th),
           status = "running", call[th].op \in BundleOps, UNCHANGED blame
    PROVE  GoesOn(th) /\ AddressFaults'
<1>1. ~Lawful
  BY DEF SessionGone, AddressInv, CallsOpen
<1>2. QED
  BY <1>1 DEF SessionGone, GoesOn, AddressFaults, Lawful

(* Results of a session call go with the tensors of the call. *)
LEMMA FetchedGoesOn ==
    ASSUME AddressInv, NEW th \in Threads, NEW n, NEW failed,
           Fetched(th, n, failed), call[th].op \in ModelOps
    PROVE  GoesOn(th)
<1>1. PICK r : call' = [call EXCEPT ![th] =
                         Onward(call[th], "publish", call[th].bufs \cup Range(r),
                                r, 1, call[th].pending \/ failed)]
  BY DEF Fetched
<1> DEFINE c == Onward(call[th], "publish", call[th].bufs \cup Range(r), r, 1,
                       call[th].pending \/ failed)
<1>2. \A u \in Threads : call'[u] = IF u = th THEN c ELSE call[u]
  BY <1>1 DEF AddressInv, TypeInv, TypeOK
<1>3. QED
  BY <1>2 DEF GoesOn, ModelOps, Onward

LEMMA ReturnGoesOn ==
    ASSUME AddressInv, NEW th \in Threads, Return(th)
    PROVE  GoesOn(th)
BY DEF Return, GoesOn, AddressInv, TypeInv, TypeOK

LEMMA FinishRunAddress ==
    ASSUME AddressInv, NEW th \in Threads, FinishRun(th)
    PROVE  AddressInv'
<1>1. TypeInv'
  BY FinishRunTypes DEF AddressInv
<1>2. /\ UNCHANGED << handle, native, owner, written, blame, bundle, outputs,
                      clientVars >>
      /\ status = "running" /\ call[th].op \in ModelOps \cap BundleOps
  BY DEF FinishRun, ModelOps, BundleOps
<1>3. CASE SessionGone(th)
  BY <1>2, <1>3, SessionGoneAddress, <1>1, GoesOnAddress
<1>4. CASE ~SessionGone(th)
  <2>1. GoesOn(th)
    BY <1>2, <1>4, FetchedGoesOn, ReturnGoesOn DEF FinishRun, Exhausted, GoesOn
  <2>2. AddressFaults'
    BY <1>2, <1>4 DEF FinishRun, Exhausted, AddressFaults
  <2>3. QED
    BY <1>1, <1>2, <2>1, <2>2, GoesOnAddress
<1>5. QED
  BY <1>3, <1>4

LEMMA TrainStepAddress ==
    ASSUME AddressInv, NEW th \in Threads, TrainStep(th)
    PROVE  AddressInv'
<1>1. TypeInv'
  BY TrainStepTypes DEF AddressInv
<1>2. /\ UNCHANGED << handle, native, owner, written, blame, bundle, outputs,
                      clientVars >>
      /\ status = "running" /\ call[th].op \in ModelOps \cap BundleOps
  BY DEF TrainStep, ModelOps, BundleOps
<1>3. CASE SessionGone(th)
  BY <1>2, <1>3, SessionGoneAddress, <1>1, GoesOnAddress
<1>4. CASE ~SessionGone(th)
  <2>1. PICK failed \in BOOLEAN :
          call' = [call EXCEPT ![th] =
                     Onward(@, "fetch", @.bufs, << >>, 1, failed)]
    BY <1>4 DEF TrainStep
  <2>2. \A u \in Threads : call'[u] =
          IF u = th THEN Onward(call[th], "fetch", call[th].bufs, << >>, 1, failed)
                    ELSE call[u]
    BY <2>1 DEF AddressInv, TypeInv, TypeOK
  <2>3. GoesOn(th)
    BY <1>2, <2>2 DEF GoesOn, Onward, ModelOps
  <2>4. AddressFaults'
    BY <1>2, <1>4 DEF TrainStep, AddressFaults
  <2>5. QED
    BY <1>1, <1>2, <2>3, <2>4, GoesOnAddress
<1>5. QED
  BY <1>3, <1>4

LEMMA FetchStepAddress ==
    ASSUME AddressInv, NEW th \in Threads, FetchStep(th)
    PROVE  AddressInv'
<1>1. TypeInv'
  BY FetchStepTypes DEF AddressInv
<1>2. /\ UNCHANGED << handle, native, owner, written, blame, bundle, outputs,
                      clientVars >>
      /\ status = "running" /\ call[th].op \in ModelOps \cap BundleOps
  BY DEF FetchStep, ModelOps, BundleOps
<1>3. CASE SessionGone(th)
  BY <1>2, <1>3, SessionGoneAddress, <1>1, GoesOnAddress
<1>4. CASE ~SessionGone(th)
  <2>1. GoesOn(th)
    BY <1>2, <1>4, FetchedGoesOn DEF FetchStep, FetchFailed, Exhausted, GoesOn
  <2>2. AddressFaults'
    BY <1>2, <1>4 DEF FetchStep, FetchFailed, Exhausted, AddressFaults
  <2>3. QED
    BY <1>1, <1>2, <2>1, <2>2, GoesOnAddress
<1>5. QED
  BY <1>3, <1>4

LEMMA ReturnOutputsAddress ==
    ASSUME AddressInv, NEW th \in Threads, ReturnOutputs(th)
    PROVE  AddressInv'
<1>1. TypeInv'
  BY ReturnOutputsTypes DEF AddressInv
<1>2. GoesOn(th)
  BY ReturnGoesOn DEF ReturnOutputs
<1>3. QED
  BY <1>1, <1>2, GoesOnAddress DEF ReturnOutputs, AddressFaults

LEMMA FinishExportAddress ==
    ASSUME AddressInv, NEW th \in Threads, FinishExport(th)
    PROVE  AddressInv'
<1>1. TypeInv'
  BY FinishExportTypes DEF AddressInv
<1>2. /\ UNCHANGED << handle, native, owner, written, blame, bundle, outputs,
                      clientVars >>
      /\ status = "running" /\ call[th].op \in BundleOps
  BY DEF FinishExport, BundleOps
<1>3. CASE SessionGone(th)
  BY <1>2, <1>3, SessionGoneAddress, <1>1, GoesOnAddress
<1>4. CASE Return(th) /\ UNCHANGED status
  BY <1>1, <1>2, <1>4, ReturnGoesOn, GoesOnAddress DEF AddressFaults
<1>5. QED
  BY <1>3, <1>4 DEF FinishExport

-----------------------------------------------------------------------------
(***************************************************************************)
(* The steps that allocate and free native tensors.                        *)
(***************************************************************************)

(* A new address disturbs no other handle and no view. *)
LEMMA SetHandleAddress ==
    ASSUME AddressInv, NEW t \in Tensors, NEW a \in FreeAddrs, NEW b \in Bufs,
           setHandle(t, a, b), UNCHANGED << view, closed >>
    PROVE  /\ handle'[t] # NULL
           /\ \A u \in Tensors : handle[u] # NULL => handle'[u] # NULL
           /\ Lawful => ViewsOwned'
           /\ Lawful /\ status = "running" => LiveHandles' /\ DistinctHandles'
<1>1. a \in Addrs /\ native[a] = NULL /\ a # NULL /\ b # NULL
  BY DEF FreeAddrs
<1>2. \A u \in Tensors : handle'[u] = IF u = t THEN a ELSE handle[u]
  BY DEF setHandle, AddressInv, TypeInv, TypeOK, HeapTypeOK
<1>3. \A x \in Addrs : native'[x] = IF x = a THEN b ELSE native[x]
  BY DEF setHandle, AddressInv, TypeInv, TypeOK, HeapTypeOK
<1>4. Open' = Open /\ Open \subseteq Tensors
  BY DEF Open
<1>5. ASSUME Lawful PROVE ViewsOwned'
  <2>1. SUFFICES ASSUME NEW u \in Open, view[u] # NULL
                 PROVE  \E x \in Addrs :
                            /\ native'[x] = view[u].buf
                            /\ \A w \in Open : w # u => handle'[w] # x
    BY <1>4 DEF ViewsOwned
  <2>2. PICK x \in Addrs : /\ native[x] = view[u].buf
                           /\ \A w \in Open : w # u => handle[w] # x
    BY <1>5, <2>1 DEF AddressInv, ViewsOwned
  <2>3. native[x] # NULL
    BY <1>4, <2>1, <2>2 DEF AddressInv, TypeInv, TypeOK, HeapTypeOK, Views
  <2>4. QED
    BY <1>1, <1>2, <1>3, <1>4, <2>2, <2>3
<1>6. ASSUME Lawful, status = "running"
      PROVE  LiveHandles' /\ DistinctHandles'
  <2>1. LiveHandles /\ DistinctHandles
    BY <1>6 DEF AddressInv
  <2>2. \A u \in Tensors : handle[u] \in Addrs \cup {NULL}
    BY DEF AddressInv, TypeInv, TypeOK, HeapTypeOK
  <2>3. QED
    BY <1>1, <1>2, <1>3, <1>4, <2>1, <2>2 DEF LiveHandles, DistinctHandles
<1>7. QED
  BY <1>1, <1>2, <1>5, <1>6

LEMMA SetBytesAddress ==
    ASSUME AddressInv, NEW th \in Threads, NEW t \in Tensors, NEW v \in Values,
           NEW buffer \in ByteBuffers, SetBytes(th, t, v, buffer),
           UNCHANGED << bundle, outputs >>
    PROVE  AddressInv'
<1> DEFINE c == [op |-> "writeBytes", reads |-> {}, writes |-> {t},
                 bufs |-> {}, tensor |-> t, data |-> v,
                 direct |-> buffer # "heap"]
<1>1. TypeInv'
  BY SetBytesTypes DEF AddressInv
<1>2. /\ status = "running" /\ call[th] = Idle
      /\ Accept(Charge(th, {}, {t}))
      /\ createBackingTensor(t)
      /\ call' = [call EXCEPT ![th] = c]
      /\ UNCHANGED << view, closed >>
  BY DEF SetBytes, Ready
<1>3. \A u \in Threads : call'[u] = IF u = th THEN c ELSE call[u]
  BY <1>2 DEF AddressInv, TypeInv, TypeOK
<1>4. Open' = Open
  BY <1>2 DEF Open
<1>5. AddressFaults'
  BY <1>2 DEF createBackingTensor, create, AddressFaults
<1>6. /\ (\A u \in Tensors : isBacked'[u] \/ written'[u] # Uninit =>
                               handle'[u] # NULL) \/ status' # "running"
      /\ \A u \in Tensors : isBacked[u] => isBacked'[u] \/ status' # "running"
      /\ isBacked'[t] \/ status' # "running"
      /\ Lawful => ViewsOwned'
      /\ Lawful /\ status' = "running" => LiveHandles' /\ DistinctHandles'
  <2>1. CASE UNCHANGED << handle, isBacked, native, owner, content, written,
                          status >> /\ isBacked[t]
    BY <1>2, <1>4, <2>1 DEF AddressInv, FilledHaveHandles, ViewsOwned,
                            LiveHandles, DistinctHandles
  <2>2. CASE status' # "running" /\ UNCHANGED << handle, native >>
    BY <1>2, <1>4, <2>2 DEF AddressInv, ViewsOwned
  <2>3. ASSUME NEW a \in FreeAddrs, NEW b \in FreeBufs, setHandle(t, a, b),
               written' = [written EXCEPT ![t] = Uninit], UNCHANGED status,
               isBacked' = [isBacked EXCEPT ![t] = (status' = "running")]
        PROVE  /\ \A u \in Tensors : isBacked'[u] \/ written'[u] # Uninit =>
                                     handle'[u] # NULL
               /\ \A u \in Tensors : isBacked[u] => isBacked'[u]
               /\ isBacked'[t]
               /\ Lawful => ViewsOwned'
               /\ Lawful => LiveHandles' /\ DistinctHandles'
    <3>1. /\ handle'[t] # NULL
          /\ \A u \in Tensors : handle[u] # NULL => handle'[u] # NULL
          /\ Lawful => ViewsOwned'
          /\ Lawful /\ status = "running" => LiveHandles' /\ DistinctHandles'
      BY <1>2, <2>3, SetHandleAddress DEF FreeBufs
    <3>2. \A u \in Tensors : /\ u # t => written'[u] = written[u]
                             /\ u # t => isBacked'[u] = isBacked[u]
                             /\ isBacked'[t]
      BY <1>2, <2>3 DEF AddressInv, TypeInv, TypeOK, HeapTypeOK
    <3>3. QED
      BY <1>2, <2>3, <3>1, <3>2 DEF AddressInv, FilledHaveHandles
  <2>4. QED
    BY <1>2, <2>1, <2>2, <2>3 DEF createBackingTensor, create
<1>7. status' = "running" => FilledHaveHandles' /\ CallShapes'
  <2>1. \A u \in Threads : call[u].op = "writeBytes" => call[u].tensor \in Tensors
    BY CallKinds DEF AddressInv, TypeInv, WriteCalls
  <2>2. QED
    BY <1>2, <1>3, <1>6, <2>1 DEF AddressInv, CallShapes, FilledHaveHandles
<1>8. ASSUME Lawful' PROVE Lawful /\ CallsApart' /\ CallsOpen'
  <2>1. /\ Lawful /\ ~Overlaps(th, {}, {t}) /\ t \notin closed
    BY <1>2, <1>8, LawfulTensorStart
  <2>2. CallsApart'
    <3>1. c.reads = {} /\ c.writes = {t}
      OBVIOUS
    <3> HIDE DEF c
    <3>2. QED
      BY <1>2, <2>1, <3>1, ApartStart DEF AddressInv
  <2>3. CallsOpen'
    BY <1>2, <1>3, <2>1 DEF AddressInv, CallsOpen, BundleOps
  <2>4. QED
    BY <2>1, <2>2, <2>3
<1>9. QED
  BY <1>1, <1>5, <1>6, <1>7, <1>8 DEF AddressInv

(* writeBytes and getBytes follow a handle; close deletes what is behind it. *)
LEMMA WriteBytesAddress ==
    ASSUME AddressInv, NEW th \in Threads, WriteBytes(th),
           UNCHANGED << bundle, outputs >>
    PROVE  AddressInv'
<1> DEFINE t == call[th].tensor
<1>1. TypeInv'
  BY WriteBytesTypes DEF AddressInv
<1>2. /\ status = "running" /\ call[th].op = "writeBytes"
      /\ t \in Tensors /\ isBacked[t] /\ t \in call[th].writes
      /\ handle[t] # NULL
  BY CallKinds DEF WriteBytes, AddressInv, TypeInv, WriteCalls, CallShapes,
                   FilledHaveHandles
<1>3. /\ call' = [call EXCEPT ![th] = Idle]
      /\ UNCHANGED << handle, isBacked, native, view, owner, closed, blame >>
  BY DEF WriteBytes
<1>4. \A u \in Threads : call'[u] = IF u = th THEN Idle ELSE call[u]
  BY <1>3 DEF AddressInv, TypeInv, TypeOK
<1>5. /\ Open' = Open /\ Lawful' = Lawful
      /\ \A u \in Threads : /\ call'[u].reads \subseteq call[u].reads
                            /\ call'[u].writes \subseteq call[u].writes
  BY <1>3, <1>4 DEF Open, Lawful, Idle
<1>6. AddressFaults'
  <2>1. Lawful => native[handle[t]] # NULL
    BY <1>2 DEF AddressInv, CallsOpen, LiveHandles, Open
  <2>2. \/ status' \in {"running", "data_race"}
        \/ status' = "use_after_free" /\ ~Lawful
    BY <1>2, <2>1 DEF WriteBytes, Deref
  <2>3. QED
    BY <1>5, <2>2 DEF AddressFaults
<1>7. FilledHaveHandles'
  <2>1. \A u \in Tensors : u # t => written'[u] = written[u]
    BY <1>2 DEF WriteBytes, AddressInv, TypeInv, TypeOK, HeapTypeOK
  <2>2. QED
    BY <1>2, <1>3, <2>1 DEF AddressInv, FilledHaveHandles
<1>8. CallShapes'
  BY <1>2, <1>3, <1>4 DEF AddressInv, CallShapes, Idle
<1>9. Lawful => ViewsOwned' /\ LiveHandles' /\ DistinctHandles'
  BY <1>2, <1>3, <1>5 DEF AddressInv, ViewsOwned, LiveHandles, DistinctHandles
<1>10. Lawful => CallsApart' /\ CallsOpen'
  BY <1>2, <1>3, <1>4, <1>5 DEF AddressInv, CallsApart, CallsOpen, Idle,
                                BundleOps
<1>11. QED
  BY <1>1, <1>5, <1>6, <1>7, <1>8, <1>9, <1>10 DEF AddressInv

LEMMA GetBytesAddress ==
    ASSUME AddressInv, NEW th \in Threads, NEW t \in Tensors, GetBytes(th, t),
           UNCHANGED << bundle, outputs >>
    PROVE  AddressInv'
<1>1. TypeInv'
  BY GetBytesTypes DEF AddressInv
<1>2. /\ status = "running"
      /\ UNCHANGED << handle, isBacked, native, content, call, owner, written,
                      closed >>
      /\ Accept(Charge(th, {t}, {}))
  BY DEF GetBytes, Ready
<1>3. Open' = Open /\ (Lawful' => Lawful /\ t \in Open)
  BY <1>2, LawfulTensorStart DEF Open
<1>4. AddressFaults'
  <2>1. CASE handle[t] = NULL
    <3>1. "noData" \in Charge(th, {t}, {})
      BY <1>2, <2>1 DEF AddressInv, FilledHaveHandles, Charge, Rules
    <3>2. QED
      BY <1>2, <2>1, <3>1 DEF GetBytes, Deref, AddressFaults, Accept
  <2>2. CASE handle[t] # NULL
    <3>1. Lawful' => native[handle[t]] # NULL
      BY <1>2, <1>3, <2>2 DEF AddressInv, LiveHandles
    <3>2. QED
      BY <1>2, <2>2, <3>1 DEF GetBytes, Deref, AddressFaults
  <2>3. QED
    BY <2>1, <2>2
<1>5. ASSUME Lawful' PROVE ViewsOwned'
  <2>1. ViewsOwned /\ DistinctHandles
    BY <1>2, <1>3, <1>5 DEF AddressInv
  <2>2. CASE UNCHANGED view
    BY <1>2, <1>3, <2>1, <2>2 DEF ViewsOwned
  <2>3. CASE /\ Deref(t) = "running"
             /\ view' = [view EXCEPT ![t] = [buf |-> BufferOf(t),
                                             bytes |-> content[BufferOf(t)],
                                             backed |-> isBacked[t]]]
    <3>1. \A u \in Tensors : u # t => view'[u] = view[u]
      BY <2>3 DEF AddressInv, TypeInv, TypeOK, HeapTypeOK
    <3>2. view'[t].buf = native[handle[t]]
      BY <2>3 DEF BufferOf, AddressInv, TypeInv, TypeOK, HeapTypeOK
    <3>3. handle[t] \in Addrs /\ handle[t] # NULL
      BY <2>3 DEF Deref, AddressInv, TypeInv, TypeOK, HeapTypeOK
    <3>4. \A u \in Open : u # t => handle[u] # handle[t]
      BY <1>3, <1>5, <2>1, <3>3 DEF DistinctHandles
    <3>5. QED
      BY <1>2, <1>3, <2>1, <3>1, <3>2, <3>3, <3>4 DEF ViewsOwned, Open
  <2>4. QED
    BY <2>2, <2>3 DEF GetBytes
<1>6. FilledHaveHandles' /\ CallShapes'
  BY <1>2 DEF AddressInv, FilledHaveHandles, CallShapes
<1>7. Lawful' => LiveHandles' /\ DistinctHandles' /\ CallsApart' /\ CallsOpen'
  BY <1>2, <1>3 DEF AddressInv, LiveHandles, DistinctHandles, CallsApart,
                    CallsOpen
<1>8. QED
  BY <1>1, <1>4, <1>5, <1>6, <1>7 DEF AddressInv

LEMMA CloseAddress ==
    ASSUME AddressInv, NEW th \in Threads, NEW t \in Tensors, Close(th, t),
           UNCHANGED << bundle, outputs >>
    PROVE  AddressInv'
<1>1. TypeInv'
  BY CloseTypes DEF AddressInv
<1>2. /\ status = "running" /\ call[th] = Idle
      /\ UNCHANGED << handle, isBacked, content, call >>
      /\ Accept(Charge(th, {}, {t}))
      /\ closed' = closed \cup {t}
      /\ view' = [view EXCEPT ![t] = NULL]
      /\ written' = [written EXCEPT ![t] = Uninit]
  BY DEF Close, Ready
<1>3. /\ Open' = Open \ {t} /\ Open \subseteq Tensors
      /\ Lawful' => Lawful /\ t \in Open /\ ~Overlaps(th, {}, {t})
  BY <1>2, LawfulTensorStart DEF Open
<1>4. \A x \in Addrs : native'[x] = native[x] \/ x = handle[t]
  BY DEF Close, AddressInv, TypeInv, TypeOK, HeapTypeOK
<1>5. AddressFaults'
  <2>1. Lawful' /\ handle[t] # NULL => native[handle[t]] # NULL
    BY <1>2, <1>3 DEF AddressInv, LiveHandles
  <2>2. QED
    BY <1>2, <2>1 DEF Close, Deref, AddressFaults
<1>6. FilledHaveHandles' /\ CallShapes'
  <2>1. \A u \in Tensors : written'[u] # Uninit => written'[u] = written[u]
    BY <1>2 DEF AddressInv, TypeInv, TypeOK, HeapTypeOK
  <2>2. QED
    BY <1>2, <2>1 DEF AddressInv, FilledHaveHandles, CallShapes
<1>7. ASSUME Lawful' PROVE ViewsOwned'
  <2>1. SUFFICES ASSUME NEW u \in Open, u # t, view[u] # NULL
                 PROVE  \E x \in Addrs :
                            /\ native'[x] = view[u].buf
                            /\ \A w \in Open : w # u => handle[w] # x
    <3>1. \A u \in Tensors : u # t => view'[u] = view[u]
      BY <1>2 DEF AddressInv, TypeInv, TypeOK, HeapTypeOK
    <3>2. QED
      BY <1>2, <1>3, <2>1, <3>1 DEF ViewsOwned
  <2>2. PICK x \in Addrs : /\ native[x] = view[u].buf
                           /\ \A w \in Open : w # u => handle[w] # x
    BY <1>3, <1>7, <2>1 DEF AddressInv, ViewsOwned
  <2>3. x # handle[t]
    BY <1>3, <1>7, <2>1, <2>2
  <2>4. QED
    BY <1>4, <2>2, <2>3
<1>8. ASSUME Lawful' PROVE LiveHandles' /\ DistinctHandles'
  <2>1. LiveHandles /\ DistinctHandles
    BY <1>2, <1>3, <1>8 DEF AddressInv
  <2>2. \A u \in Tensors : handle[u] \in Addrs \cup {NULL}
    BY DEF AddressInv, TypeInv, TypeOK, HeapTypeOK
  <2>3. QED
    BY <1>2, <1>3, <1>4, <1>8, <2>1, <2>2 DEF LiveHandles, DistinctHandles
<1>9. ASSUME Lawful' PROVE CallsApart' /\ CallsOpen'
  <2>1. CallsApart /\ CallsOpen
    BY <1>2, <1>3, <1>9 DEF AddressInv
  <2>2. \A u \in Threads : t \notin call[u].reads \cup call[u].writes
    BY <1>2, <1>3, <1>9 DEF Overlaps, Idle
  <2>3. QED
    BY <1>2, <2>1, <2>2 DEF CallsApart, CallsOpen
<1>10. QED
  BY <1>1, <1>3, <1>5, <1>6, <1>7, <1>8, <1>9 DEF AddressInv

(* Bundles come and go; a client only closes one that nobody is using. *)
LEMMA CreateAddress ==
    ASSUME AddressInv, NEW th \in Threads, NEW b \in Bundles, Create(th, b)
    PROVE  AddressInv'
<1>1. TypeInv'
  BY CreateTypes DEF AddressInv
<1>2. UNCHANGED tensorVars /\ status = "running" /\ Open' = Open /\ Lawful' = Lawful
  BY DEF Create, Ready, tensorVars, Open, Lawful
<1>3. \A m \in Bundles : bundle[m] = "loaded" => bundle'[m] = "loaded"
  BY DEF Create, AddressInv, TypeInv, TypeOK
<1>4. \A u \in Threads : call[u].op \in BundleOps => call[u].bundle \in Bundles
  BY CallKinds DEF AddressInv, TypeInv, BundleOps, ModelCalls, ExportCalls
<1>5. Lawful => CallsOpen'
  BY <1>2, <1>3, <1>4 DEF AddressInv, CallsOpen, tensorVars
<1>6. QED
  BY <1>1, <1>2, <1>5
     DEF AddressInv, AddressFaults, FilledHaveHandles, CallShapes, ViewsOwned,
         LiveHandles, DistinctHandles, CallsApart, tensorVars

LEMMA CloseBundleAddress ==
    ASSUME AddressInv, NEW th \in Threads, NEW b \in Bundles, CloseBundle(th, b)
    PROVE  AddressInv'
<1>1. TypeInv'
  BY CloseBundleTypes DEF AddressInv
<1>2. /\ status = "running" /\ Open' = Open
      /\ UNCHANGED << handle, native, content, call, owner, written, outputs,
                      isBacked, view, closed >>
  BY DEF CloseBundle, Ready, clientVars, Open
<1>3. Lawful' => Lawful /\ bundle[b] # "deleted" /\ CallsOn(b) = {}
  BY DEF CloseBundle, Accept, ChargeBundle, Lawful
<1>4. AddressFaults'
  BY <1>2, <1>3 DEF CloseBundle, AddressFaults
<1>5. Lawful' => CallsOpen'
  <2>1. \A m \in Bundles : m # b => bundle'[m] = bundle[m]
    BY DEF CloseBundle, AddressInv, TypeInv, TypeOK
  <2>2. \A u \in Threads : call[u].op \in BundleOps => call[u].bundle \in Bundles
    BY CallKinds DEF AddressInv, TypeInv, BundleOps, ModelCalls, ExportCalls
  <2>3. QED
    BY <1>2, <1>3, <2>1, <2>2 DEF AddressInv, CallsOpen, CallsOn
<1>6. FilledHaveHandles' /\ CallShapes'
  BY <1>2 DEF AddressInv, FilledHaveHandles, CallShapes
<1>7. Lawful' => ViewsOwned' /\ LiveHandles' /\ DistinctHandles' /\ CallsApart'
  BY <1>2, <1>3 DEF AddressInv, ViewsOwned, LiveHandles, DistinctHandles,
                    CallsApart
<1>8. QED
  BY <1>1, <1>4, <1>5, <1>6, <1>7 DEF AddressInv

LEMMA ExportAddress ==
    ASSUME AddressInv, NEW th \in Threads, NEW b \in Bundles, Export(th, b)
    PROVE  AddressInv'
<1> DEFINE c == [op |-> "export", bundle |-> b, reads |-> {}, writes |-> {},
                 bufs |-> {}]
<1>1. TypeInv'
  BY ExportTypes DEF AddressInv
<1>2. /\ status = "running" /\ call[th] = Idle /\ Open' = Open
      /\ UNCHANGED << handle, native, content, bundle, owner, written, outputs,
                      isBacked, view, closed >>
  BY DEF Export, Ready, clientVars, Open
<1>3. Lawful' => Lawful /\ bundle[b] # "deleted"
  BY DEF Export, Accept, ChargeBundle, Lawful
<1>4. AddressFaults'
  BY <1>2, <1>3 DEF Export, AddressFaults
<1>5. \A u \in Threads :
        \/ call'[u] = call[u]
        \/ /\ u = th /\ call'[u].op = "export" /\ call'[u].bundle = b
           /\ call'[u].reads = {} /\ call'[u].writes = {} /\ bundle[b] = "loaded"
  BY DEF Export, AddressInv, TypeInv, TypeOK
<1>6. FilledHaveHandles' /\ CallShapes'
  BY <1>2, <1>5 DEF AddressInv, FilledHaveHandles, CallShapes
<1>7. Lawful' => ViewsOwned' /\ LiveHandles' /\ DistinctHandles'
  BY <1>2, <1>3 DEF AddressInv, ViewsOwned, LiveHandles, DistinctHandles
<1>8. Lawful' => CallsApart' /\ CallsOpen'
  BY <1>2, <1>3, <1>5 DEF AddressInv, CallsApart, CallsOpen
<1>9. QED
  BY <1>1, <1>4, <1>6, <1>7, <1>8 DEF AddressInv

(* run and train copy what the handles of their inputs lead to. *)
LEMMA BeginCallAddress ==
    ASSUME AddressInv, NEW th \in Threads, NEW b \in Bundles,
           NEW ins \in SUBSET Tensors, NEW outs \in OutputArrays,
           NEW op \in {"run", "train"}, BeginCall(th, op, b, ins, outs)
    PROVE  AddressInv'
<1> DEFINE c == [op |-> op, bundle |-> b, reads |-> ins,
                 writes |-> Range(outs), outs |-> outs,
                 bufs |-> { BufferOf(t) : t \in ins },
                 results |-> << >>, next |-> 1, pending |-> FALSE]
<1>1. TypeInv'
  BY BeginCallTypes DEF AddressInv
<1>2. /\ status = "running" /\ call[th] = Idle /\ Open' = Open
      /\ UNCHANGED << handle, native, content, bundle, owner, written, outputs,
                      isBacked, view, closed >>
      /\ Accept(Charge(th, ins, Range(outs)) \cup ChargeBundle(b))
  BY DEF BeginCall, Ready, clientVars, Open
<1>3. Lawful' => /\ Lawful /\ bundle[b] # "deleted"
                 /\ ~Overlaps(th, ins, Range(outs))
                 /\ (ins \cup Range(outs)) \cap closed = {}
  BY <1>2, LawfulStart DEF ChargeBundle
<1>4. AddressFaults'
  <2>1. CASE \E t \in ins : Deref(t) # "running" /\ status' = Deref(t)
    <3>1. PICK t \in ins : Deref(t) # "running" /\ status' = Deref(t)
      BY <2>1
    <3>2. CASE handle[t] = NULL
      <4>1. "noData" \in Charge(th, ins, Range(outs))
        BY <1>2, <3>2 DEF AddressInv, FilledHaveHandles, Charge, Rules
      <4>2. QED
        BY <1>2, <3>1, <3>2, <4>1 DEF Deref, AddressFaults, Accept
    <3>3. CASE handle[t] # NULL
      <4>1. Lawful' => native[handle[t]] # NULL
        BY <1>2, <1>3, <3>3 DEF AddressInv, LiveHandles, Open
      <4>2. QED
        BY <3>1, <3>3, <4>1 DEF Deref, AddressFaults
    <3>4. QED
      BY <3>2, <3>3
  <2>2. CASE bundle[b] = "deleted" /\ status' = "use_after_free"
    BY <1>3, <2>2 DEF AddressFaults
  <2>3. CASE UNCHANGED status
    BY <1>2, <2>3 DEF AddressFaults
  <2>4. QED
    BY <2>1, <2>2, <2>3 DEF BeginCall
<1>5. CASE UNCHANGED call
  <2>1. FilledHaveHandles' /\ CallShapes'
    BY <1>2, <1>5 DEF AddressInv, FilledHaveHandles, CallShapes
  <2>2. QED
    BY <1>1, <1>2, <1>3, <1>4, <1>5, <2>1
       DEF AddressInv, ViewsOwned, LiveHandles, DistinctHandles, CallsApart,
           CallsOpen
<1>6. CASE call' = [call EXCEPT ![th] = c] /\ bundle[b] = "loaded"
  <2>1. /\ c.op = op /\ c.bundle = b /\ c.reads = ins /\ c.outs = outs
        /\ c.writes = Range(outs)
    OBVIOUS
  <2> HIDE DEF c
  <2>2. \A u \in Threads : call'[u] = IF u = th THEN c ELSE call[u]
    BY <1>6 DEF AddressInv, TypeInv, TypeOK
  <2>3. FilledHaveHandles' /\ CallShapes'
    BY <1>2, <2>1, <2>2 DEF AddressInv, FilledHaveHandles, CallShapes
  <2>4. Lawful' => ViewsOwned' /\ LiveHandles' /\ DistinctHandles'
    BY <1>2, <1>3 DEF AddressInv, ViewsOwned, LiveHandles, DistinctHandles
  <2>5. Lawful' => CallsApart'
    BY <1>2, <1>3, <1>6, <2>1, ApartStart DEF AddressInv
  <2>6. Lawful' => CallsOpen'
    BY <1>2, <1>3, <1>6, <2>1, <2>2 DEF AddressInv, CallsOpen
  <2>7. QED
    BY <1>1, <1>3, <1>4, <2>3, <2>4, <2>5, <2>6 DEF AddressInv
<1>7. QED
  BY <1>5, <1>6 DEF BeginCall

(* Handing over an output gives its tensor a new address. *)
LEMMA PublishOutputAddress ==
    ASSUME AddressInv, NEW th \in Threads, PublishOutput(th)
    PROVE  AddressInv'
<1> DEFINE t == call[th].outs[call[th].next]
           b == NextResult(th)
           c == Onward(call[th], "publish", call[th].bufs, call[th].results,
                       call[th].next + 1, call[th].pending)
<1>1. TypeInv'
  BY PublishOutputTypes DEF AddressInv
<1>2. /\ t \in Tensors /\ b \in Bufs
      /\ status = "running" /\ call[th].op = "publish"
  BY PublishTypes DEF PublishOutput, AddressInv
<1>3. /\ UNCHANGED << blame, bundle, isBacked, view, closed >>
      /\ Lawful' = Lawful /\ Open' = Open
  BY DEF PublishOutput, clientVars, Lawful, Open
<1>4. CASE /\ status' \in {"jni_abort", "out_of_memory"}
           /\ UNCHANGED << call, handle, native, written >>
  BY <1>1, <1>3, <1>4 DEF AddressInv, AddressFaults, ViewsOwned
<1>5. CASE /\ HandOver(t, b)
           /\ written' = [written EXCEPT ![t] = content[b]]
           /\ call' = [call EXCEPT ![th] = c]
           /\ UNCHANGED status
  <2>1. /\ c.op = "publish" /\ c.bundle = call[th].bundle
        /\ c.reads = call[th].reads /\ c.outs = call[th].outs
        /\ c.writes = call[th].writes
    BY DEF Onward
  <2> HIDE DEF t, b, c
  <2>2. \A u \in Threads : call'[u] = IF u = th THEN c ELSE call[u]
    BY <1>5 DEF AddressInv, TypeInv, TypeOK
  <2>3. PICK a \in FreeAddrs : setHandle(t, a, b)
    BY <1>5 DEF HandOver
  <2>4. /\ handle'[t] # NULL
        /\ \A u \in Tensors : handle[u] # NULL => handle'[u] # NULL
        /\ Lawful => ViewsOwned' /\ LiveHandles' /\ DistinctHandles'
    BY <1>2, <1>3, <2>3, SetHandleAddress
  <2>5. FilledHaveHandles'
    <3>1. \A u \in Tensors : u # t => written'[u] = written[u]
      BY <1>2, <1>5 DEF AddressInv, TypeInv, TypeOK, HeapTypeOK
    <3>2. QED
      BY <1>2, <1>3, <2>4, <3>1 DEF AddressInv, FilledHaveHandles
  <2>6. CallShapes'
    BY <1>2, <1>3, <2>1, <2>2 DEF AddressInv, CallShapes
  <2>7. Lawful => CallsApart' /\ CallsOpen'
    BY <1>2, <1>3, <2>1, <2>2 DEF AddressInv, CallsApart, CallsOpen, BundleOps
  <2>8. AddressFaults'
    BY <1>2, <1>5 DEF AddressFaults
  <2>9. QED
    BY <1>1, <1>3, <2>4, <2>5, <2>6, <2>7, <2>8 DEF AddressInv
<1>6. QED
  BY <1>4, <1>5 DEF PublishOutput

-----------------------------------------------------------------------------
(***************************************************************************)
(* The invariant on addresses, for every graph.                            *)
(***************************************************************************)
LEMMA AddressStep ==
    ASSUME AddressInv, [Next]_vars
    PROVE  AddressInv'
<1>1. CASE UNCHANGED vars
  <2>1. TypeInv'
    BY TypeStep DEF AddressInv
  <2>2. Lawful' = Lawful /\ Open' = Open
    BY <1>1 DEF vars, Lawful, Open
  <2>3. QED
    BY <1>1, <2>1, <2>2
       DEF vars, AddressInv, AddressFaults, FilledHaveHandles, CallShapes,
           ViewsOwned, LiveHandles, DistinctHandles, CallsApart, CallsOpen
<1>2. ASSUME NEW th \in Threads, Steps(th)
      PROVE  AddressInv'
  BY <1>2, WriteBytesAddress, FinishRunAddress, TrainStepAddress,
     FetchStepAddress, PublishOutputAddress, ReturnOutputsAddress,
     FinishExportAddress DEF Steps
<1>3. ASSUME NEW th \in Threads, Calls(th)
      PROVE  AddressInv'
  <2>1. CASE \E t \in Tensors :
               /\ \/ \E v \in Values, buffer \in ByteBuffers :
                        SetBytes(th, t, v, buffer)
                  \/ GetBytes(th, t)
                  \/ Close(th, t)
               /\ UNCHANGED << bundle, outputs >>
    BY <2>1, SetBytesAddress, GetBytesAddress, CloseAddress
  <2>2. CASE \E b \in Bundles :
               \/ Create(th, b)
               \/ Export(th, b)
               \/ CloseBundle(th, b)
    BY <2>2, CreateAddress, ExportAddress, CloseBundleAddress
  <2>3. CASE \E b \in Bundles, ins \in SUBSET Tensors, outs \in OutputArrays :
               Run(th, b, ins, outs) \/ Train(th, b, ins, outs)
    BY <2>3, BeginCallAddress DEF Run, Train
  <2>4. QED
    BY <1>3, <2>1, <2>2, <2>3 DEF Calls
<1>4. QED
  BY <1>1, <1>2, <1>3 DEF Next

LEMMA AddressStart == Init => AddressInv
<1> SUFFICES ASSUME Init PROVE AddressInv
  OBVIOUS
<1>1. TypeInv
  BY TypeStart
<1>2. /\ \A th \in Threads : call[th] = Idle
      /\ \A t \in Tensors : /\ handle[t] = NULL /\ view[t] = NULL
                            /\ ~isBacked[t] /\ written[t] = Uninit
      /\ status = "running"
  BY DEF Init, TensorInit
<1>3. QED
  BY <1>1, <1>2
     DEF AddressInv, AddressFaults, FilledHaveHandles, CallShapes, ViewsOwned,
         LiveHandles, DistinctHandles, CallsApart, CallsOpen, Idle, Open,
         BundleOps

(* The invariant and what it says of views and of faults. *)
LEMMA AddressSafe ==
    AddressInv => ViewsAlive /\ AddressFaults
<1> SUFFICES ASSUME AddressInv PROVE ViewsAlive
  BY DEF AddressInv
<1>1. SUFFICES ASSUME Lawful, NEW t \in Open, view[t] # NULL
               PROVE  view[t].buf \in LiveBufs
  BY DEF ViewsAlive
<1>2. PICK a \in Addrs : native[a] = view[t].buf
  BY <1>1 DEF AddressInv, ViewsOwned
<1>3. view[t].buf # NULL
  BY <1>1 DEF AddressInv, TypeInv, TypeOK, HeapTypeOK, Open, Views
<1>4. QED
  BY <1>2, <1>3 DEF LiveBufs

(***************************************************************************)
(* For clients that keep to the rules a ByteBuffer from getBytes points to *)
(* live memory until its tensor is closed, whatever the graph, however     *)
(* often the tensor is used as an output, and whatever other threads do.   *)
(***************************************************************************)
THEOREM ViewsStayAlive == Spec => []ViewsAlive
<1>1. AddressInv => ViewsAlive
  BY AddressSafe
<1>2. QED
  BY <1>1, AddressStart, AddressStep, PTL DEF Spec

(***************************************************************************)
(* For every graph, writeBytes, readBytes, delete, run, train and export   *)
(* follow a null handle only if the client uses a tensor without data, and *)
(* reach a deleted tensor or bundle only if it uses one after close() or   *)
(* lets calls overlap.                                                     *)
(***************************************************************************)
THEOREM DanglingAccessIsClientFault == Spec => []AddressFaults
<1>1. AddressInv => AddressFaults
  BY AddressSafe
<1>2. QED
  BY <1>1, AddressStart, AddressStep, PTL DEF Spec

=============================================================================
