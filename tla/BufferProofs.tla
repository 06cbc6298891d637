---------------------------- MODULE BufferProofs ----------------------------
(***************************************************************************)
(* Memory safety of the library for clients that keep to the rules, as far *)
(* as it concerns the buffers behind the native tensors: that no thread    *)
(* writes a buffer that a session is reading, and that a tensor holds what *)
(* was last put in it.  This needs a session that returns its outputs in   *)
(* buffers of their own.                                                   *)
(***************************************************************************)
EXTENDS AddressProofs

USE TensorAssumption, BundleAssumption

-----------------------------------------------------------------------------
(***************************************************************************)
(* The inductive invariant.                                                *)
(***************************************************************************)

DistinctBuffers ==
    \A a, c \in Addrs : a # c /\ native[a] # NULL => native[a] # native[c]

(* A call only holds the buffers of open tensors that it names. *)
BuffersNamed ==
    \A th \in Threads, t \in Open :
        handle[t] # NULL /\ BufferOf(t) \in call[th].bufs =>
            t \in call[th].reads \cup call[th].writes

(* Results that are not handed over yet belong to their call alone. *)
ResultsPrivate ==
    \A th \in Threads : call[th].op = "publish" =>
        \A i \in call[th].next..Len(call[th].results) :
            /\ call[th].results[i] \in call[th].bufs
            /\ \A a \in Addrs : native[a] # call[th].results[i]
            /\ \A u \in Threads \ {th} : call[th].results[i] \notin call[u].bufs
            /\ \A j \in 1..Len(call[th].results) :
                   i # j => call[th].results[i] # call[th].results[j]

(* A tensor with a handle leads to a buffer with the bytes it was given, *)
(* or one that nobody has written if it was given none.                  *)
Contents ==
    \A t \in Open : handle[t] # NULL =>
        /\ Deref(t) = "running"
        /\ content[BufferOf(t)] = written[t]

BufferInv ==
    /\ AddressInv
    /\ Lawful /\ status = "running" =>
           DistinctBuffers /\ BuffersNamed /\ ResultsPrivate /\ Contents
    /\ status = "data_race" => ~Lawful

-----------------------------------------------------------------------------
(***************************************************************************)
(* Steps that touch no buffer.                                             *)
(***************************************************************************)

(* The buffers of native tensors and of calls are not free. *)
LEMMA FreeIsUnused ==
    ASSUME NEW b \in FreeBufs
    PROVE  /\ b \in Bufs
           /\ \A a \in Addrs : native[a] # b
           /\ \A th \in Threads : b \notin call[th].bufs
BY DEF FreeBufs, LiveBufs

(***************************************************************************)
(* Calls may return, start without holding buffers, or go on with the ones *)
(* they hold, and tensors may be closed to their owner.                    *)
(***************************************************************************)
LEMMA BufferFrame ==
    ASSUME BufferInv, AddressInv', status = "running", Lawful' => Lawful,
           UNCHANGED << handle, native, content, written, closed >>,
           \A u \in Threads :
               \/ call'[u] = call[u]
               \/ call'[u].bufs = {} /\ call'[u].op # "publish"
               \/ /\ call'[u].bufs = call[u].bufs
                  /\ call'[u].reads = call[u].reads
                  /\ call'[u].writes = call[u].writes
                  /\ call'[u].op # "publish",
           status' = "data_race" => ~Lawful'
    PROVE  BufferInv'
<1>1. Open' = Open
  BY DEF Open
<1>2. SUFFICES ASSUME Lawful', status' = "running"
               PROVE  DistinctBuffers' /\ BuffersNamed' /\ ResultsPrivate'
                        /\ Contents'
  BY DEF BufferInv
<1>3. DistinctBuffers /\ BuffersNamed /\ ResultsPrivate /\ Contents
  BY <1>2 DEF BufferInv
<1>4. DistinctBuffers'
  BY <1>3 DEF DistinctBuffers
<1>5. BuffersNamed'
  BY <1>1, <1>3 DEF BuffersNamed, BufferOf
<1>6. ResultsPrivate'
  <2>1. \A u \in Threads : call'[u].bufs \subseteq call[u].bufs
    OBVIOUS
  <2>2. \A u \in Threads : call'[u].op = "publish" => call'[u] = call[u]
    OBVIOUS
  <2>3. QED
    BY <1>3, <2>1, <2>2 DEF ResultsPrivate
<1>7. Contents'
  BY <1>1, <1>3 DEF Contents, Deref, BufferOf
<1>8. QED
  BY <1>4, <1>5, <1>6, <1>7

LEMMA IdleBuffer ==
    ASSUME BufferInv, NEW th \in Threads, call' = [call EXCEPT ![th] = Idle]
    PROVE  \A u \in Threads :
               \/ call'[u] = call[u]
               \/ call'[u].bufs = {} /\ call'[u].op # "publish"
BY DEF BufferInv, AddressInv, TypeInv, TypeOK, Idle

LEMMA GetBytesBuffer ==
    ASSUME BufferInv, NEW th \in Threads, NEW t \in Tensors, GetBytes(th, t),
           UNCHANGED << bundle, outputs >>
    PROVE  BufferInv'
<1>1. AddressInv'
  BY GetBytesAddress DEF BufferInv
<1>2. Lawful' => Lawful
  BY DEF GetBytes, Accept, Lawful
<1>3. QED
  BY <1>1, <1>2, BufferFrame DEF GetBytes, Ready, Deref

LEMMA CreateBuffer ==
    ASSUME BufferInv, NEW th \in Threads, NEW b \in Bundles, Create(th, b)
    PROVE  BufferInv'
<1>1. AddressInv'
  BY CreateAddress DEF BufferInv
<1>2. QED
  BY <1>1, BufferFrame DEF Create, Ready, tensorVars, Lawful

LEMMA CloseBundleBuffer ==
    ASSUME BufferInv, NEW th \in Threads, NEW b \in Bundles, CloseBundle(th, b)
    PROVE  BufferInv'
<1>1. AddressInv'
  BY CloseBundleAddress DEF BufferInv
<1>2. Lawful' => Lawful
  BY DEF CloseBundle, Accept, Lawful
<1>3. QED
  BY <1>1, <1>2, BufferFrame DEF CloseBundle, Ready, clientVars

LEMMA ExportBuffer ==
    ASSUME BufferInv, NEW th \in Threads, NEW b \in Bundles, Export(th, b)
    PROVE  BufferInv'
<1>1. AddressInv'
  BY ExportAddress DEF BufferInv
<1>2. Lawful' => Lawful
  BY DEF Export, Accept, Lawful
<1>3. \A u \in Threads :
          \/ call'[u] = call[u]
          \/ call'[u].bufs = {} /\ call'[u].op # "publish"
  BY DEF Export, BufferInv, AddressInv, TypeInv, TypeOK
<1>4. QED
  BY <1>1, <1>2, <1>3, BufferFrame DEF Export, Ready, clientVars

LEMMA FinishExportBuffer ==
    ASSUME BufferInv, NEW th \in Threads, FinishExport(th)
    PROVE  BufferInv'
<1>1. AddressInv'
  BY FinishExportAddress DEF BufferInv
<1>2. CASE SessionGone(th)
  BY <1>1, <1>2, BufferFrame DEF FinishExport, SessionGone, clientVars, Lawful
<1>3. CASE Return(th) /\ UNCHANGED status
  BY <1>1, <1>3, IdleBuffer, BufferFrame DEF FinishExport, Return, clientVars,
                                             Lawful
<1>4. QED
  BY <1>2, <1>3 DEF FinishExport

LEMMA ReturnOutputsBuffer ==
    ASSUME BufferInv, NEW th \in Threads, ReturnOutputs(th)
    PROVE  BufferInv'
<1>1. AddressInv'
  BY ReturnOutputsAddress DEF BufferInv
<1>2. QED
  BY <1>1, IdleBuffer, BufferFrame DEF ReturnOutputs, Return, clientVars, Lawful

LEMMA TrainStepBuffer ==
    ASSUME BufferInv, NEW th \in Threads, TrainStep(th)
    PROVE  BufferInv'
<1>1. AddressInv'
  BY TrainStepAddress DEF BufferInv
<1>2. CASE SessionGone(th)
  BY <1>1, <1>2, BufferFrame DEF TrainStep, SessionGone, clientVars, Lawful
<1>3. CASE ~SessionGone(th)
  <2>1. PICK failed \in BOOLEAN :
          call' = [call EXCEPT ![th] =
                     Onward(@, "fetch", @.bufs, << >>, 1, failed)]
    BY <1>3 DEF TrainStep
  <2>2. \A u \in Threads : call'[u] =
          IF u = th THEN Onward(call[th], "fetch", call[th].bufs, << >>, 1, failed)
                    ELSE call[u]
    BY <2>1 DEF BufferInv, AddressInv, TypeInv, TypeOK
  <2>3. /\ status = "running" /\ (Lawful' => Lawful)
        /\ UNCHANGED << handle, native, content, written, closed, status >>
    BY <1>3 DEF TrainStep, clientVars, Lawful
  <2>4. \A u \in Threads :
               \/ call'[u] = call[u]
               \/ /\ call'[u].bufs = call[u].bufs
                  /\ call'[u].reads = call[u].reads
                  /\ call'[u].writes = call[u].writes
                  /\ call'[u].op # "publish"
    BY <2>2 DEF Onward
  <2>5. QED
    BY <1>1, <2>3, <2>4, BufferFrame
<1>4. QED
  BY <1>2, <1>3

-----------------------------------------------------------------------------
(***************************************************************************)
(* Steps that allocate, write or free a buffer.                            *)
(***************************************************************************)

(* The results of a session are in buffers that nobody else has. *)
LEMMA FetchedBuffer ==
    ASSUME BufferInv, PassThrough = FALSE, AddressInv', NEW th \in Threads,
           call[th].op \in ModelOps, NEW n \in 0..Len(call[th].outs),
           NEW failed \in BOOLEAN, Fetched(th, n, failed),
           status = "running", Lawful' => Lawful,
           UNCHANGED << handle, native, written, closed, status >>
    PROVE  BufferInv'
<1>1. Open' = Open
  BY DEF Open
<1>2. SUFFICES ASSUME Lawful'
               PROVE  DistinctBuffers' /\ BuffersNamed' /\ ResultsPrivate'
                        /\ Contents'
  BY DEF BufferInv
<1>3. DistinctBuffers /\ BuffersNamed /\ ResultsPrivate /\ Contents
  BY <1>2 DEF BufferInv
<1>4. PICK r \in [1..n -> FreeBufs] :
          /\ \A i, j \in 1..n : r[i] = r[j] => i = j
          /\ \A b \in Bufs \ Range(r) : content'[b] = content[b]
          /\ call' = [call EXCEPT ![th] =
                        Onward(call[th], "publish", call[th].bufs \cup Range(r),
                               r, 1, call[th].pending \/ failed)]
  BY DEF Fetched
<1> DEFINE c == Onward(call[th], "publish", call[th].bufs \cup Range(r), r, 1,
                       call[th].pending \/ failed)
<1>5. /\ c.bufs = call[th].bufs \cup Range(r)
      /\ c.results = r /\ c.next = 1 /\ c.op = "publish"
      /\ c.reads = call[th].reads /\ c.writes = call[th].writes
  BY DEF Onward
<1>6. \A u \in Threads : call'[u] = IF u = th THEN c ELSE call[u]
  BY <1>4 DEF BufferInv, AddressInv, TypeInv, TypeOK
<1> HIDE DEF c
<1>7. /\ n \in Nat /\ Len(r) = n
      /\ \A b \in Range(r) : b \in FreeBufs
      /\ \A i \in 1..n : r[i] \in Range(r)
  <2>1. call[th] \in ModelCalls
    BY CallKinds DEF BufferInv, AddressInv, TypeInv, ModelOps
  <2>2. n \in Nat
    BY <2>1 DEF ModelCalls
  <2>3. QED
    BY <1>4, <2>2 DEF Range
<1>8. \A b \in Range(r) : /\ b \in Bufs
                          /\ \A a \in Addrs : native[a] # b
                          /\ \A u \in Threads : b \notin call[u].bufs
  BY <1>7, FreeIsUnused
<1>9. DistinctBuffers'
  BY <1>3 DEF DistinctBuffers
<1>10. \A t \in Open : handle[t] # NULL => handle[t] \in Addrs
  BY DEF BufferInv, AddressInv, TypeInv, TypeOK, HeapTypeOK, Open
<1>11. BuffersNamed'
  BY <1>1, <1>3, <1>5, <1>6, <1>8, <1>10 DEF BuffersNamed, BufferOf
<1>12. Contents'
  <2>1. \A t \in Open : Deref(t) = "running" =>
            BufferOf(t) \in Bufs \ Range(r)
    BY <1>8, <1>10 DEF BufferOf, Deref, BufferInv, AddressInv, TypeInv, TypeOK,
                       HeapTypeOK
  <2>2. \A t \in Open : Deref(t)' = Deref(t) /\ BufferOf(t)' = BufferOf(t)
    BY DEF Deref, BufferOf
  <2>3. QED
    BY <1>1, <1>3, <1>4, <2>1, <2>2 DEF Contents
<1>13. ResultsPrivate'
  <2>1. SUFFICES ASSUME NEW u \in Threads, call'[u].op = "publish",
                        NEW i \in call'[u].next..Len(call'[u].results)
                 PROVE  /\ call'[u].results[i] \in call'[u].bufs
                        /\ \A a \in Addrs : native[a] # call'[u].results[i]
                        /\ \A w \in Threads \ {u} :
                               call'[u].results[i] \notin call'[w].bufs
                        /\ \A j \in 1..Len(call'[u].results) : i # j =>
                               call'[u].results[i] # call'[u].results[j]
    BY DEF ResultsPrivate
  <2>2. CASE u = th
    <3>1. /\ call'[u].results = r /\ call'[u].next = 1 /\ i \in 1..n
          /\ call'[u].bufs = call[th].bufs \cup Range(r)
          /\ r[i] \in Range(r)
      BY <1>5, <1>6, <1>7, <2>1, <2>2
    <3>2. \A w \in Threads \ {u} : call'[w] = call[w]
      BY <1>6, <2>2
    <3>3. \A j \in 1..Len(r) : i # j => r[i] # r[j]
      BY <1>4, <1>7, <3>1
    <3>4. QED
      BY <1>8, <3>1, <3>2, <3>3
  <2>3. CASE u # th
    <3>1. /\ call[u].results[i] \in call[u].bufs
          /\ \A a \in Addrs : native[a] # call[u].results[i]
          /\ \A w \in Threads \ {u} : call[u].results[i] \notin call[w].bufs
          /\ \A j \in 1..Len(call[u].results) : i # j =>
                 call[u].results[i] # call[u].results[j]
      BY <1>3, <1>6, <2>1, <2>3 DEF ResultsPrivate
    <3>2. QED
      BY <1>5, <1>6, <1>8, <2>3, <3>1
  <2>4. QED
    BY <2>2, <2>3
<1>14. QED
  BY <1>9, <1>11, <1>12, <1>13

LEMMA FinishRunBuffer ==
    ASSUME BufferInv, PassThrough = FALSE, NEW th \in Threads, FinishRun(th)
    PROVE  BufferInv'
<1> DEFINE n == Len(call[th].outs)
<1>1. AddressInv'
  BY FinishRunAddress DEF BufferInv
<1>2. /\ status = "running" /\ (Lawful' => Lawful) /\ call[th].op \in ModelOps
      /\ UNCHANGED << handle, native, written, closed >>
  BY DEF FinishRun, clientVars, Lawful, ModelOps
<1>3. n \in 0..n
  BY CallKinds DEF BufferInv, AddressInv, TypeInv, FinishRun, ModelCalls
<1>4. CASE SessionGone(th) \/ Exhausted(th)
  BY <1>1, <1>2, <1>4, BufferFrame DEF SessionGone, Exhausted
<1>5. CASE Fetched(th, n, FALSE) /\ UNCHANGED status
  BY <1>1, <1>2, <1>3, <1>5, FetchedBuffer
<1>6. CASE Return(th) /\ UNCHANGED status
  BY <1>1, <1>2, <1>6, IdleBuffer, BufferFrame DEF Return
<1>7. QED
  BY <1>4, <1>5, <1>6 DEF FinishRun

LEMMA FetchStepBuffer ==
    ASSUME BufferInv, PassThrough = FALSE, NEW th \in Threads, FetchStep(th)
    PROVE  BufferInv'
<1> DEFINE n == Len(call[th].outs)
<1>1. AddressInv'
  BY FetchStepAddress DEF BufferInv
<1>2. /\ status = "running" /\ (Lawful' => Lawful) /\ call[th].op \in ModelOps
      /\ UNCHANGED << handle, native, written, closed >>
  BY DEF FetchStep, clientVars, Lawful, ModelOps
<1>3. n \in 0..n
  BY CallKinds DEF BufferInv, AddressInv, TypeInv, FetchStep, ModelCalls
<1>4. ASSUME UNCHANGED << call, content >>, status' # "data_race"
      PROVE  BufferInv'
  BY <1>1, <1>2, <1>4, BufferFrame
<1>5. ASSUME NEW k \in 0..n, NEW failed \in BOOLEAN, Fetched(th, k, failed),
             UNCHANGED status
      PROVE  BufferInv'
  BY <1>1, <1>2, <1>5, FetchedBuffer
<1>6. CASE SessionGone(th) \/ Exhausted(th)
  BY <1>4, <1>6 DEF SessionGone, Exhausted
<1>7. CASE FetchFailed(th)
  BY <1>4, <1>5, <1>7 DEF FetchFailed
<1>8. CASE Fetched(th, n, FALSE) /\ UNCHANGED status
  BY <1>3, <1>5, <1>8
<1>9. QED
  BY <1>6, <1>7, <1>8 DEF FetchStep

LEMMA SetBytesBuffer ==
    ASSUME BufferInv, NEW th \in Threads, NEW t \in Tensors, NEW v \in Values,
           NEW buffer \in ByteBuffers, SetBytes(th, t, v, buffer),
           UNCHANGED << bundle, outputs >>
    PROVE  BufferInv'
<1>1. AddressInv'
  BY SetBytesAddress DEF BufferInv
<1>2. /\ status = "running" /\ (Lawful' => Lawful)
      /\ UNCHANGED << view, closed >> /\ Open' = Open
      /\ createBackingTensor(t)
      /\ status' # "data_race"
  BY DEF SetBytes, Ready, Accept, Lawful, Open, createBackingTensor, create
<1>3. \A u \in Threads :
          \/ call'[u] = call[u]
          \/ call'[u].bufs = {} /\ call'[u].op # "publish"
  BY DEF SetBytes, BufferInv, AddressInv, TypeInv, TypeOK
<1>4. CASE UNCHANGED << handle, native, content, written >>
  BY <1>1, <1>2, <1>3, <1>4, BufferFrame
<1>5. ASSUME NEW a \in FreeAddrs, NEW b \in FreeBufs, setHandle(t, a, b),
             content' = [content EXCEPT ![b] = Uninit],
             written' = [written EXCEPT ![t] = Uninit]
      PROVE  BufferInv'
  <2>1. SUFFICES ASSUME Lawful'
                 PROVE  DistinctBuffers' /\ BuffersNamed' /\ ResultsPrivate'
                          /\ Contents'
    BY <1>1, <1>2 DEF BufferInv
  <2>2. /\ DistinctBuffers /\ BuffersNamed /\ ResultsPrivate /\ Contents
        /\ LiveHandles
    BY <1>2, <2>1 DEF BufferInv, AddressInv
  <2>3. /\ b \in Bufs
        /\ \A x \in Addrs : native[x] # b
        /\ \A u \in Threads : b \notin call[u].bufs
    BY FreeIsUnused
  <2>4. /\ a \in Addrs /\ native[a] = NULL
        /\ \A x \in Addrs : native'[x] = IF x = a THEN b ELSE native[x]
        /\ \A u \in Tensors : handle'[u] = IF u = t THEN a ELSE handle[u]
        /\ \A u \in Tensors : u # t => written'[u] = written[u]
        /\ written'[t] = Uninit
        /\ content'[b] = Uninit /\ b # NULL
        /\ \A x \in Bufs : x # b => content'[x] = content[x]
    BY <1>5, <2>3 DEF FreeAddrs, setHandle, BufferInv, AddressInv, TypeInv, TypeOK,
                HeapTypeOK
  <2>5. \A u \in Open : handle[u] # NULL =>
            handle[u] # a /\ handle[u] \in Addrs /\ native[handle[u]] \in Bufs
    BY <2>2, <2>4 DEF LiveHandles, Open, BufferInv, AddressInv, TypeInv, TypeOK,
                      HeapTypeOK
  <2>6. DistinctBuffers'
    BY <2>2, <2>3, <2>4 DEF DistinctBuffers
  <2>7. \A u \in Threads : /\ call'[u].bufs \subseteq call[u].bufs
                           /\ call'[u].bufs # {} => call'[u] = call[u]
                           /\ call'[u].op = "publish" => call'[u] = call[u]
    BY <1>3
  <2>8. BuffersNamed'
    <3>1. SUFFICES ASSUME NEW u \in Threads, NEW x \in Open, handle'[x] # NULL,
                          native'[handle'[x]] \in call'[u].bufs
                   PROVE  x \in call'[u].reads \cup call'[u].writes
      BY <1>2 DEF BuffersNamed, BufferOf
    <3>2. x # t
      BY <2>3, <2>4, <2>7, <3>1 DEF Open
    <3>3. QED
      BY <2>2, <2>4, <2>5, <2>7, <3>1, <3>2 DEF BuffersNamed, BufferOf, Open
  <2>9. ResultsPrivate'
    BY <2>2, <2>3, <2>4, <2>7 DEF ResultsPrivate
  <2>10. Contents'
    <3>1. SUFFICES ASSUME NEW x \in Open, handle'[x] # NULL
                   PROVE  Deref(x)' = "running" /\ content'[BufferOf(x)'] = written'[x]
      BY <1>2 DEF Contents
    <3>2. CASE x = t
      BY <2>4, <3>1, <3>2 DEF Deref, BufferOf
    <3>3. CASE x # t
      <4>1. x \in Tensors /\ handle'[x] = handle[x] /\ handle[x] # NULL
        BY <2>4, <3>1, <3>3 DEF Open
      <4>2. Deref(x) = "running" /\ content[BufferOf(x)] = written[x]
        BY <2>2, <4>1 DEF Contents
      <4>3. /\ native'[handle[x]] = native[handle[x]]
            /\ native[handle[x]] \in Bufs \ {b}
        BY <2>3, <2>4, <2>5, <4>1
      <4>4. QED
        BY <2>4, <3>3, <4>1, <4>2, <4>3 DEF Deref, BufferOf
    <3>4. QED
      BY <3>2, <3>3
  <2>11. QED
    BY <2>6, <2>8, <2>9, <2>10
<1>6. QED
  BY <1>2, <1>4, <1>5 DEF createBackingTensor, create

LEMMA WriteBytesBuffer ==
    ASSUME BufferInv, NEW th \in Threads, WriteBytes(th),
           UNCHANGED << bundle, outputs >>
    PROVE  BufferInv'
<1> DEFINE t == call[th].tensor
<1>1. AddressInv'
  BY WriteBytesAddress DEF BufferInv
<1>2. /\ status = "running" /\ Lawful' = Lawful /\ Open' = Open
      /\ call' = [call EXCEPT ![th] = Idle]
      /\ UNCHANGED << handle, native, closed >>
  BY DEF WriteBytes, Lawful, Open
<1>3. /\ t \in Tensors /\ call[th].data \in Values /\ call[th].writes = {t}
  BY <1>2, CallKinds DEF WriteBytes, BufferInv, AddressInv, TypeInv, WriteCalls,
                   CallShapes
<1>4. CASE UNCHANGED << content, written >> /\ status' # "data_race"
  BY <1>1, <1>2, <1>4, IdleBuffer, BufferFrame
<1>5. CASE /\ Deref(t) = "running"
           /\ status' = IF \E u \in Threads \ {th} : BufferOf(t) \in call[u].bufs
                        THEN "data_race" ELSE status
           /\ content' = [content EXCEPT ![BufferOf(t)] = call[th].data]
           /\ written' = [written EXCEPT ![t] = call[th].data]
  <2>1. SUFFICES ASSUME Lawful
                 PROVE  /\ status' # "data_race"
                        /\ DistinctBuffers' /\ BuffersNamed' /\ ResultsPrivate'
                        /\ Contents'
    BY <1>1, <1>2 DEF BufferInv
  <2>2. /\ DistinctBuffers /\ BuffersNamed /\ ResultsPrivate /\ Contents
        /\ DistinctHandles /\ CallsApart /\ CallsOpen
    BY <1>2, <2>1 DEF BufferInv, AddressInv
  <2>3. t \in Open /\ handle[t] # NULL /\ handle[t] \in Addrs
        /\ native[handle[t]] \in Bufs
    BY <1>3, <1>5, <2>2 DEF CallsOpen, Open, Deref, BufferInv, AddressInv,
                            TypeInv, TypeOK, HeapTypeOK
  <2>4. \A u \in Threads \ {th} : BufferOf(t) \notin call[u].bufs
    <3>1. SUFFICES ASSUME NEW u \in Threads \ {th}, BufferOf(t) \in call[u].bufs
                   PROVE  FALSE
      OBVIOUS
    <3>2. t \in call[u].reads \cup call[u].writes
      BY <2>2, <2>3, <3>1 DEF BuffersNamed
    <3>3. QED
      BY <1>3, <2>2, <3>2 DEF CallsApart
  <2>5. status' # "data_race"
    BY <1>2, <1>5, <2>4
  <2>6. DistinctBuffers'
    BY <1>2, <2>2 DEF DistinctBuffers
  <2>7. \A u \in Threads : /\ call'[u] = call[u] \/ call'[u].bufs = {}
                           /\ call'[u].op = "publish" => call'[u] = call[u]
    BY <1>2, IdleBuffer
  <2>8. BuffersNamed'
    BY <1>2, <2>2, <2>7 DEF BuffersNamed, BufferOf
  <2>9. ResultsPrivate'
    BY <1>2, <2>2, <2>7 DEF ResultsPrivate
  <2>10. Contents'
    <3>1. \A u \in Open : u # t /\ Deref(u) = "running" =>
              BufferOf(u) # BufferOf(t) /\ BufferOf(u) \in Bufs
      BY <2>2, <2>3 DEF DistinctHandles, DistinctBuffers, Deref, BufferOf, Open,
                        BufferInv, AddressInv, TypeInv, TypeOK, HeapTypeOK
    <3>2. \A u \in Open : Deref(u)' = Deref(u) /\ BufferOf(u)' = BufferOf(u)
      BY <1>2 DEF Deref, BufferOf
    <3>3. /\ \A u \in Tensors : u # t => written'[u] = written[u]
          /\ written'[t] = call[th].data
          /\ content'[BufferOf(t)] = call[th].data
          /\ \A x \in Bufs : x # BufferOf(t) => content'[x] = content[x]
      BY <1>3, <1>5, <2>3 DEF BufferOf, BufferInv, AddressInv, TypeInv, TypeOK,
                              HeapTypeOK
    <3>4. QED
      BY <1>2, <1>5, <2>2, <3>1, <3>2, <3>3 DEF Contents, Open
  <2>11. QED
    BY <2>5, <2>6, <2>8, <2>9, <2>10
<1>6. QED
  BY <1>2, <1>4, <1>5 DEF WriteBytes, Deref

LEMMA CloseBuffer ==
    ASSUME BufferInv, NEW th \in Threads, NEW t \in Tensors, Close(th, t),
           UNCHANGED << bundle, outputs >>
    PROVE  BufferInv'
<1>1. AddressInv'
  BY CloseAddress DEF BufferInv
<1>2. /\ status = "running" /\ status' # "data_race"
      /\ UNCHANGED << handle, content, call >>
      /\ Accept(Charge(th, {}, {t}))
      /\ written' = [written EXCEPT ![t] = Uninit]
      /\ Open' = Open \ {t}
  BY DEF Close, Ready, Open
<1>3. SUFFICES ASSUME Lawful'
               PROVE  DistinctBuffers' /\ BuffersNamed' /\ ResultsPrivate'
                        /\ Contents'
  BY <1>1, <1>2 DEF BufferInv
<1>4. Lawful /\ t \in Open
  BY <1>2, <1>3, LawfulTensorStart DEF Open
<1>5. /\ DistinctBuffers /\ BuffersNamed /\ ResultsPrivate /\ Contents
      /\ DistinctHandles
  BY <1>2, <1>4 DEF BufferInv, AddressInv
<1>6. \A x \in Addrs : \/ native'[x] = native[x]
                       \/ x = handle[t] /\ native'[x] = NULL
  BY DEF Close, BufferInv, AddressInv, TypeInv, TypeOK, HeapTypeOK
<1>7. \A u \in Open : u # t /\ handle[u] # NULL =>
          handle[u] \in Addrs /\ native'[handle[u]] = native[handle[u]]
  BY <1>4, <1>5, <1>6 DEF DistinctHandles, Open, BufferInv, AddressInv, TypeInv,
                          TypeOK, HeapTypeOK
<1>8. DistinctBuffers'
  BY <1>5, <1>6 DEF DistinctBuffers
<1>9. BuffersNamed'
  BY <1>2, <1>5, <1>7 DEF BuffersNamed, BufferOf
<1>10. ResultsPrivate'
  <2>1. \A u \in Threads : call[u].op = "publish" =>
          \A i \in call[u].next..Len(call[u].results) :
            call[u].results[i] # NULL
    <3>1. \A u \in Threads : call[u].op = "publish" =>
            /\ call[u].results \in Seq(Bufs) /\ call[u].next \in Nat \ {0}
      BY CallKinds DEF BufferInv, AddressInv, TypeInv, ModelCalls
    <3>2. QED
      BY <3>1
  <2>2. QED
    BY <1>2, <1>5, <1>6, <2>1 DEF ResultsPrivate
<1>11. Contents'
  <2>1. \A u \in Tensors : u # t => written'[u] = written[u]
    BY <1>2 DEF BufferInv, AddressInv, TypeInv, TypeOK, HeapTypeOK
  <2>2. QED
    BY <1>2, <1>5, <1>7, <2>1 DEF Contents, Deref, BufferOf, Open
<1>12. QED
  BY <1>8, <1>9, <1>10, <1>11

(* The copies that run and train make hold the buffers of their inputs. *)
LEMMA BeginCallBuffer ==
    ASSUME BufferInv, NEW th \in Threads, NEW b \in Bundles,
           NEW ins \in SUBSET Tensors, NEW outs \in OutputArrays,
           NEW op \in {"run", "train"}, BeginCall(th, op, b, ins, outs)
    PROVE  BufferInv'
<1> DEFINE c == [op |-> op, bundle |-> b, reads |-> ins,
                 writes |-> Range(outs), outs |-> outs,
                 bufs |-> { BufferOf(t) : t \in ins },
                 results |-> << >>, next |-> 1, pending |-> FALSE]
<1>1. AddressInv'
  BY BeginCallAddress DEF BufferInv
<1>2. /\ status = "running" /\ status' # "data_race" /\ Open' = Open
      /\ UNCHANGED << handle, native, content, written, closed >>
      /\ Accept(Charge(th, ins, Range(outs)) \cup ChargeBundle(b))
  BY DEF BeginCall, Ready, clientVars, Open, Deref
<1>3. Lawful' => Lawful /\ ins \subseteq Open
  BY <1>2, LawfulStart DEF Open
<1>4. CASE UNCHANGED call
  BY <1>1, <1>2, <1>3, <1>4, BufferFrame
<1>5. CASE /\ \A t \in ins : Deref(t) = "running"
           /\ call' = [call EXCEPT ![th] = c]
  <2>1. SUFFICES ASSUME Lawful'
                 PROVE  DistinctBuffers' /\ BuffersNamed' /\ ResultsPrivate'
                          /\ Contents'
    BY <1>1, <1>2 DEF BufferInv
  <2>2. /\ DistinctBuffers /\ BuffersNamed /\ ResultsPrivate /\ Contents
        /\ DistinctHandles
    BY <1>2, <1>3, <2>1 DEF BufferInv, AddressInv
  <2>3. /\ c.bufs = { BufferOf(t) : t \in ins } /\ c.reads = ins
        /\ c.op # "publish"
    OBVIOUS
  <2> HIDE DEF c
  <2>4. \A u \in Threads : call'[u] = IF u = th THEN c ELSE call[u]
    BY <1>5 DEF BufferInv, AddressInv, TypeInv, TypeOK
  <2>5. \A t \in ins : /\ handle[t] \in Addrs /\ handle[t] # NULL
                       /\ native[handle[t]] # NULL
    BY <1>5 DEF Deref, BufferInv, AddressInv, TypeInv, TypeOK, HeapTypeOK
  <2>6. DistinctBuffers'
    BY <1>2, <2>2 DEF DistinctBuffers
  <2>7. BuffersNamed'
    <3>1. SUFFICES ASSUME NEW u \in Threads, NEW x \in Open, handle[x] # NULL,
                          BufferOf(x) \in call'[u].bufs
                   PROVE  x \in call'[u].reads \cup call'[u].writes
      BY <1>2 DEF BuffersNamed, BufferOf
    <3>2. CASE u # th
      BY <2>2, <2>4, <3>1, <3>2 DEF BuffersNamed
    <3>3. CASE u = th
      <4>1. PICK t \in ins : BufferOf(x) = BufferOf(t)
        BY <2>3, <2>4, <3>1, <3>3
      <4>2. handle[x] \in Addrs
        BY <3>1 DEF Open, BufferInv, AddressInv, TypeInv, TypeOK, HeapTypeOK
      <4>3. handle[x] = handle[t]
        BY <2>2, <2>5, <4>1, <4>2 DEF DistinctBuffers, BufferOf
      <4>4. x = t
        BY <1>3, <2>1, <2>2, <3>1, <4>3 DEF DistinctHandles
      <4>5. QED
        BY <2>3, <2>4, <3>3, <4>4
    <3>4. QED
      BY <3>2, <3>3
  <2>8. ResultsPrivate'
    <3>1. \A u \in Threads : call'[u].op = "publish" => u # th /\ call'[u] = call[u]
      BY <2>3, <2>4
    <3>2. \A u \in Threads : call[u].op = "publish" =>
            \A i \in call[u].next..Len(call[u].results) :
              call[u].results[i] \notin c.bufs
      BY <2>2, <2>3, <2>5 DEF ResultsPrivate, BufferOf
    <3>3. QED
      BY <1>2, <2>2, <2>4, <3>1, <3>2 DEF ResultsPrivate
  <2>9. Contents'
    BY <1>2, <2>2 DEF Contents, Deref, BufferOf
  <2>10. QED
    BY <2>6, <2>7, <2>8, <2>9
<1>6. QED
  BY <1>4, <1>5 DEF BeginCall

(* An output that is handed over has a buffer that only its call holds. *)
LEMMA PublishOutputBuffer ==
    ASSUME BufferInv, NEW th \in Threads, PublishOutput(th)
    PROVE  BufferInv'
<1> DEFINE i == call[th].next
           t == call[th].outs[i]
           b == NextResult(th)
           c == Onward(call[th], "publish", call[th].bufs, call[th].results,
                       i + 1, call[th].pending)
<1>1. AddressInv'
  BY PublishOutputAddress DEF BufferInv
<1>2. /\ t \in Tensors /\ b \in Bufs
      /\ status = "running" /\ call[th].op = "publish"
      /\ Lawful' = Lawful /\ Open' = Open /\ UNCHANGED closed
  BY PublishTypes DEF PublishOutput, BufferInv, AddressInv, clientVars, Lawful,
                      Open
<1>3. /\ call[th] \in ModelCalls
      /\ i \in 1..Len(call[th].results) /\ i \in 1..Len(call[th].outs)
      /\ b = call[th].results[i]
  BY <1>2, CallKinds DEF PublishOutput, BufferInv, AddressInv, TypeInv,
                         ModelCalls, ResultsMatch, NextResult
<1>4. CASE /\ status' \in {"jni_abort", "out_of_memory"}
           /\ UNCHANGED << call, handle, native, content, written >>
  BY <1>1, <1>2, <1>4, BufferFrame
<1>5. CASE /\ HandOver(t, b)
           /\ written' = [written EXCEPT ![t] = content[b]]
           /\ call' = [call EXCEPT ![th] = c]
           /\ UNCHANGED status
  <2>1. SUFFICES ASSUME Lawful
                 PROVE  DistinctBuffers' /\ BuffersNamed' /\ ResultsPrivate'
                          /\ Contents'
    BY <1>1, <1>2, <1>5 DEF BufferInv
  <2>2. /\ DistinctBuffers /\ BuffersNamed /\ ResultsPrivate /\ Contents
        /\ LiveHandles /\ CallShapes
    BY <1>2, <2>1 DEF BufferInv, AddressInv
  <2>3. /\ c.op = "publish" /\ c.results = call[th].results /\ c.next = i + 1
        /\ c.bufs = call[th].bufs /\ c.reads = call[th].reads
        /\ c.writes = call[th].writes
    BY DEF Onward
  <2>4. t \in call[th].writes
    BY <1>2, <1>3, <2>2 DEF CallShapes, Range, ModelCalls
  <2>5. /\ b \in call[th].bufs
        /\ \A x \in Addrs : native[x] # b
        /\ \A u \in Threads \ {th} : b \notin call[u].bufs
        /\ \A j \in 1..Len(call[th].results) :
               i # j => b # call[th].results[j]
    BY <1>2, <1>3, <2>2 DEF ResultsPrivate, ModelCalls
  <2> HIDE DEF t, b, c
  <2>6. PICK a \in FreeAddrs : setHandle(t, a, b)
    BY <1>5 DEF HandOver
  <2>7. /\ a \in Addrs /\ native[a] = NULL /\ a # NULL /\ b # NULL
        /\ \A x \in Addrs : native'[x] = IF x = a THEN b ELSE native[x]
        /\ \A u \in Tensors : handle'[u] = IF u = t THEN a ELSE handle[u]
        /\ \A u \in Tensors : u # t => written'[u] = written[u]
        /\ written'[t] = content[b]
        /\ UNCHANGED content
    BY <1>2, <1>5, <2>6 DEF FreeAddrs, setHandle, HandOver, BufferInv,
                            AddressInv, TypeInv, TypeOK, HeapTypeOK
  <2>8. \A u \in Threads : call'[u] = IF u = th THEN c ELSE call[u]
    BY <1>5 DEF BufferInv, AddressInv, TypeInv, TypeOK
  <2>9. \A u \in Open : handle[u] # NULL =>
            handle[u] \in Addrs /\ native'[handle[u]] = native[handle[u]]
    BY <2>2, <2>7 DEF LiveHandles, Open, BufferInv, AddressInv, TypeInv, TypeOK,
                      HeapTypeOK
  <2>10. DistinctBuffers'
    BY <2>2, <2>5, <2>7 DEF DistinctBuffers
  <2>11. BuffersNamed'
    <3>1. SUFFICES ASSUME NEW u \in Threads, NEW x \in Open, handle'[x] # NULL,
                          native'[handle'[x]] \in call'[u].bufs
                   PROVE  x \in call'[u].reads \cup call'[u].writes
      BY <1>2 DEF BuffersNamed, BufferOf
    <3>2. CASE x = t
      BY <1>2, <2>3, <2>4, <2>5, <2>7, <2>8, <3>1, <3>2
    <3>3. CASE x # t
      BY <2>2, <2>3, <2>7, <2>8, <2>9, <3>1, <3>3 DEF BuffersNamed, BufferOf,
                                                      Open
    <3>4. QED
      BY <3>2, <3>3
  <2>12. ResultsPrivate'
    <3>1. SUFFICES ASSUME NEW u \in Threads, call'[u].op = "publish",
                          NEW k \in call'[u].next..Len(call'[u].results)
                   PROVE  /\ call'[u].results[k] \in call'[u].bufs
                          /\ \A x \in Addrs : native'[x] # call'[u].results[k]
                          /\ \A w \in Threads \ {u} :
                                 call'[u].results[k] \notin call'[w].bufs
                          /\ \A j \in 1..Len(call'[u].results) : k # j =>
                                 call'[u].results[k] # call'[u].results[j]
      BY DEF ResultsPrivate
    <3>2. /\ call'[u].results = call[u].results /\ call[u].op = "publish"
          /\ \A w \in Threads : call'[w].bufs = call[w].bufs
      BY <1>2, <2>3, <2>8, <3>1
    <3>3. /\ k \in call[u].next..Len(call[u].results)
          /\ u = th => k # i /\ k \in 1..Len(call[th].results)
      BY <1>3, <2>3, <2>8, <3>1, <3>2 DEF ModelCalls
    <3>4. /\ call[u].results[k] \in call[u].bufs
          /\ \A x \in Addrs : native[x] # call[u].results[k]
          /\ \A w \in Threads \ {u} : call[u].results[k] \notin call[w].bufs
          /\ \A j \in 1..Len(call[u].results) : k # j =>
                 call[u].results[k] # call[u].results[j]
      BY <2>2, <3>2, <3>3 DEF ResultsPrivate
    <3>5. call[u].results[k] # b
      BY <2>5, <3>3, <3>4
    <3>6. QED
      BY <2>7, <3>2, <3>4, <3>5
  <2>13. Contents'
    <3>1. SUFFICES ASSUME NEW x \in Open, handle'[x] # NULL
                   PROVE  Deref(x)' = "running" /\ content'[BufferOf(x)'] = written'[x]
      BY <1>2 DEF Contents
    <3>2. CASE x = t
      BY <1>2, <2>7, <3>2 DEF Deref, BufferOf
    <3>3. CASE x # t
      <4>1. x \in Tensors /\ handle'[x] = handle[x] /\ written'[x] = written[x]
        BY <2>7, <3>3 DEF Open
      <4>2. Deref(x) = "running" /\ content[BufferOf(x)] = written[x]
        BY <2>2, <3>1, <4>1 DEF Contents
      <4>3. handle[x] # NULL /\ native[handle[x]] # NULL
        BY <4>2 DEF Deref
      <4>4. native'[handle[x]] = native[handle[x]]
        BY <2>9, <4>3
      <4>5. QED
        BY <2>7, <4>1, <4>2, <4>3, <4>4 DEF Deref, BufferOf
    <3>4. QED
      BY <3>2, <3>3
  <2>14. QED
    BY <2>10, <2>11, <2>12, <2>13
<1>6. QED
  BY <1>4, <1>5 DEF PublishOutput

-----------------------------------------------------------------------------
LEMMA BufferStep ==
    ASSUME BufferInv, PassThrough = FALSE, [Next]_vars
    PROVE  BufferInv'
<1>1. CASE UNCHANGED vars
  <2>1. AddressInv'
    BY AddressStep DEF BufferInv
  <2>2. Lawful' = Lawful /\ Open' = Open
    BY <1>1 DEF vars, Lawful, Open
  <2>3. QED
    BY <1>1, <2>1, <2>2
       DEF vars, BufferInv, DistinctBuffers, BuffersNamed, ResultsPrivate,
           Contents, Deref, BufferOf
<1>2. ASSUME NEW th \in Threads, Steps(th)
      PROVE  BufferInv'
  BY <1>2, WriteBytesBuffer, FinishRunBuffer, TrainStepBuffer,
     FetchStepBuffer, PublishOutputBuffer, ReturnOutputsBuffer,
     FinishExportBuffer DEF Steps
<1>3. ASSUME NEW th \in Threads, Calls(th)
      PROVE  BufferInv'
  <2>1. CASE \E t \in Tensors :
               /\ \/ \E v \in Values, buffer \in ByteBuffers :
                        SetBytes(th, t, v, buffer)
                  \/ GetBytes(th, t)
                  \/ Close(th, t)
               /\ UNCHANGED << bundle, outputs >>
    BY <2>1, SetBytesBuffer, GetBytesBuffer, CloseBuffer
  <2>2. CASE \E b \in Bundles :
               \/ Create(th, b)
               \/ Export(th, b)
               \/ CloseBundle(th, b)
    BY <2>2, CreateBuffer, ExportBuffer, CloseBundleBuffer
  <2>3. CASE \E b \in Bundles, ins \in SUBSET Tensors, outs \in OutputArrays :
               Run(th, b, ins, outs) \/ Train(th, b, ins, outs)
    BY <2>3, BeginCallBuffer DEF Run, Train
  <2>4. QED
    BY <1>3, <2>1, <2>2, <2>3 DEF Calls
<1>4. QED
  BY <1>1, <1>2, <1>3 DEF Next

LEMMA BufferStart == Init => BufferInv
<1> SUFFICES ASSUME Init PROVE BufferInv
  OBVIOUS
<1>1. AddressInv
  BY AddressStart
<1>2. /\ \A th \in Threads : call[th] = Idle
      /\ \A t \in Tensors : handle[t] = NULL /\ written[t] = Uninit
      /\ \A a \in Addrs : native[a] = NULL
      /\ status = "running"
  BY DEF Init, TensorInit
<1>3. QED
  BY <1>1, <1>2 DEF BufferInv, DistinctBuffers, BuffersNamed, ResultsPrivate,
                    Contents, Idle, Open

LEMMA BufferSafe == BufferInv => FaultsAreClientFaults /\ HoldsLastWritten
<1>1. BufferInv => AddressFaults
  BY DEF BufferInv, AddressInv
<1>2. BufferInv => FaultsAreClientFaults
  BY <1>1 DEF BufferInv, AddressFaults, FaultsAreClientFaults, MemoryFaults,
              Lawful
<1>3. BufferInv => HoldsLastWritten
  BY DEF BufferInv, AddressInv, FilledHaveHandles, HoldsLastWritten, Contents, Open
<1>4. QED
  BY <1>2, <1>3

(***************************************************************************)
(* With a session that returns its outputs in buffers of their own, no     *)
(* call of the library touches null, freed or raced-on memory unless the   *)
(* client used a tensor without data, used something after close(), or let *)
(* two calls overlap: sharing buffers between the native tensors, the      *)
(* copies fed to the session and the outputs is safe.                      *)
(***************************************************************************)
THEOREM FaultsOnlyByClients ==
    ASSUME PassThrough = FALSE
    PROVE  Spec => []FaultsAreClientFaults
<1>1. BufferInv => FaultsAreClientFaults
  BY BufferSafe
<1>2. BufferInv /\ [Next]_vars => BufferInv'
  BY BufferStep
<1>3. QED
  BY <1>1, <1>2, BufferStart, PTL DEF Spec

(***************************************************************************)
(* Under the same condition a tensor leads to exactly the bytes last given *)
(* to it by setBytes, run or train, whatever happened to other tensors.    *)
(***************************************************************************)
THEOREM TensorsHoldTheirBytes ==
    ASSUME PassThrough = FALSE
    PROVE  Spec => []HoldsLastWritten
<1>1. BufferInv => HoldsLastWritten
  BY BufferSafe
<1>2. BufferInv /\ [Next]_vars => BufferInv'
  BY BufferStep
<1>3. QED
  BY <1>1, <1>2, BufferStart, PTL DEF Spec

=============================================================================
