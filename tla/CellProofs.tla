----------------------------- MODULE CellProofs -----------------------------
(***************************************************************************)
(* The library implements TensorCells, for clients that keep to the rules  *)
(* and graphs that forward no input.                                       *)
(***************************************************************************)
EXTENDS BufferProofs, CellRefinement

USE TensorAssumption, BundleAssumption

-----------------------------------------------------------------------------
(***************************************************************************)
(* The invariant: that of BufferProofs, with a client that broke no rule,  *)
(* and the results of a session filled until they are handed over.         *)
(***************************************************************************)
ResultsFilled ==
    \A th \in Threads : call[th].op = "publish" =>
        \A i \in call[th].next..Len(call[th].results) :
            content[call[th].results[i]] \in Values

CellInv ==
    /\ BufferInv
    /\ blame = {}
    /\ status = "running" => ResultsFilled

(* A client that may break no rule makes no call that breaks one. *)
LEMMA Uncharged ==
    ASSUME Breakable = {}, NEW X, Accept(X)
    PROVE  X = {} /\ blame' = blame
BY DEF Accept

LEMMA UnchargedStart ==
    ASSUME NEW th \in Threads, NEW R, NEW W, Charge(th, R, W) = {}
    PROVE  /\ ~Overlaps(th, R, W)
           /\ (R \cup W) \cap closed = {}
           /\ \A t \in R : written[t] # Uninit
<1>1. \A r \in Rules : r \notin Charge(th, R, W)
  OBVIOUS
<1>2. /\ "overlap" \notin Charge(th, R, W)
      /\ "afterClose" \notin Charge(th, R, W)
      /\ "noData" \notin Charge(th, R, W)
  OBVIOUS
<1>3. QED
  BY <1>2 DEF Charge, Rules

LEMMA BlameStep ==
    ASSUME Breakable = {}, [Next]_vars
    PROVE  blame' = blame
<1>1. CASE UNCHANGED vars
  BY <1>1 DEF vars
<1>2. ASSUME NEW th \in Threads, Steps(th)
      PROVE  blame' = blame
  BY <1>2 DEF Steps, WriteBytes, FinishRun, TrainStep, FetchStep,
              PublishOutput, ReturnOutputs, FinishExport
<1>3. ASSUME NEW th \in Threads, Calls(th)
      PROVE  blame' = blame
  <2>1. ASSUME NEW t \in Tensors, NEW v \in Values, NEW buffer \in ByteBuffers,
               SetBytes(th, t, v, buffer)
        PROVE  blame' = blame
    BY <2>1, Uncharged DEF SetBytes
  <2>2. ASSUME NEW t \in Tensors, GetBytes(th, t) \/ Close(th, t)
        PROVE  blame' = blame
    BY <2>2, Uncharged DEF GetBytes, Close
  <2>3. ASSUME NEW b \in Bundles, Create(th, b)
        PROVE  blame' = blame
    BY <2>3 DEF Create, tensorVars
  <2>4. ASSUME NEW b \in Bundles, Export(th, b) \/ CloseBundle(th, b)
        PROVE  blame' = blame
    BY <2>4, Uncharged DEF Export, CloseBundle
  <2>5. ASSUME NEW b \in Bundles, NEW ins \in SUBSET Tensors,
               NEW outs \in OutputArrays,
               Run(th, b, ins, outs) \/ Train(th, b, ins, outs)
        PROVE  blame' = blame
    BY <2>5, Uncharged DEF Run, Train, BeginCall
  <2>6. QED
    BY <1>3, <2>1, <2>2, <2>3, <2>4, <2>5 DEF Calls
<1>4. QED
  BY <1>1, <1>2, <1>3 DEF Next

-----------------------------------------------------------------------------
(***************************************************************************)
(* Results stay filled: nobody empties a buffer that a call holds.         *)
(***************************************************************************)
LEMMA FilledFrame ==
    ASSUME CellInv, status = "running",
           \A u \in Threads : call'[u].op = "publish" =>
               /\ call[u].op = "publish" /\ call'[u].results = call[u].results
               /\ call'[u].next \in {call[u].next, call[u].next + 1},
           \A b \in Bufs :
               \/ content'[b] \in Values \cup {content[b]}
               \/ \A u \in Threads : b \notin call[u].bufs
    PROVE  ResultsFilled'
<1>1. ResultsFilled /\ ResultsPrivate /\ TypeOK
  BY DEF CellInv, BufferInv, Lawful, AddressInv, TypeInv
<1>2. SUFFICES ASSUME NEW u \in Threads, call'[u].op = "publish",
                      NEW i \in call'[u].next..Len(call'[u].results)
               PROVE  content'[call'[u].results[i]] \in Values
  BY DEF ResultsFilled
<1>3. call[u] \in ModelCalls
  BY <1>1, <1>2, CallKinds
<1>4. i \in call[u].next..Len(call[u].results)
  BY <1>2, <1>3 DEF ModelCalls
<1>5. call[u].results[i] \in Bufs
  BY <1>3, <1>4 DEF ModelCalls
<1>6. /\ content[call[u].results[i]] \in Values
      /\ call[u].results[i] \in call[u].bufs
  BY <1>1, <1>2, <1>4 DEF ResultsFilled, ResultsPrivate
<1>7. QED
  BY <1>2, <1>5, <1>6

LEMMA FetchedFilled ==
    ASSUME CellInv, PassThrough = FALSE, status = "running",
           NEW th \in Threads, call[th].op \in ModelOps,
           NEW n \in 0..Len(call[th].outs),
           NEW failed \in BOOLEAN, Fetched(th, n, failed)
    PROVE  ResultsFilled'
<1>1. PICK r \in [1..n -> FreeBufs], v \in [1..n -> Values] :
          /\ \A b \in Bufs :
               /\ b \in Range(r) => content'[b] = v[CHOOSE i \in 1..n : r[i] = b]
               /\ b \notin Range(r) => content'[b] = content[b]
          /\ call' = [call EXCEPT ![th] =
                        Onward(call[th], "publish", call[th].bufs \cup Range(r),
                               r, 1, call[th].pending \/ failed)]
  <2> DEFINE shared == IF PassThrough THEN call[th].bufs ELSE {}
  <2>1. PICK r \in [1..n -> FreeBufs \cup shared], v \in [1..n -> Values] :
          /\ content' = [ b \in Bufs |-> IF b \in Range(r) \ shared
                                        THEN v[CHOOSE i \in 1..n : r[i] = b]
                                        ELSE content[b] ]
          /\ call' = [call EXCEPT ![th] =
                         Onward(@, "publish", @.bufs \cup Range(r), r, 1,
                                @.pending \/ failed)]
    BY Zenon DEF Fetched
  <2>2. shared = {}
    OBVIOUS
  <2> HIDE DEF shared
  <2>3. r \in [1..n -> FreeBufs]
    BY <2>1, <2>2
  <2>4. \A b \in Bufs :
          /\ b \in Range(r) => content'[b] = v[CHOOSE i \in 1..n : r[i] = b]
          /\ b \notin Range(r) => content'[b] = content[b]
    BY <2>1, <2>2
  <2>5. QED
    BY <2>1, <2>3, <2>4, Zenon
<1>2. /\ call'[th].results = r /\ call'[th].next = 1
      /\ \A u \in Threads \ {th} : call'[u] = call[u]
  BY <1>1 DEF Onward, CellInv, BufferInv, AddressInv, TypeInv, TypeOK
<1>3. n \in Nat /\ Len(r) = n
  <2>1. call[th] \in ModelCalls
    BY CallKinds DEF CellInv, BufferInv, AddressInv, TypeInv, ModelOps
  <2>2. n \in Nat
    BY <2>1 DEF ModelCalls
  <2>3. QED
    BY <2>2
<1>4. \A b \in Range(r) : b \in Bufs /\ content'[b] \in Values
  <2>1. SUFFICES ASSUME NEW b \in Range(r)
                 PROVE  b \in Bufs /\ content'[b] \in Values
    OBVIOUS
  <2>2. PICK i \in 1..n : r[i] = b
    BY DEF Range
  <2>3. (CHOOSE j \in 1..n : r[j] = b) \in 1..n
    BY <2>2
  <2>4. b \in Bufs
    BY <2>2 DEF FreeBufs
  <2>5. QED
    BY <1>1, <2>3, <2>4
<1>5. \A i \in 1..n : content'[r[i]] \in Values
  BY <1>4 DEF Range
<1>6. \A b \in Bufs : content'[b] \in Values \cup {content[b]}
  BY <1>1, <1>4
<1>7. SUFFICES ASSUME NEW u \in Threads, u # th, call[u].op = "publish",
                      NEW i \in call[u].next..Len(call[u].results)
               PROVE  content'[call[u].results[i]] \in Values
  BY <1>2, <1>3, <1>5 DEF ResultsFilled
<1>8. content[call[u].results[i]] \in Values
  BY <1>7 DEF CellInv, ResultsFilled
<1>9. call[u] \in ModelCalls
  BY <1>7, CallKinds DEF CellInv, BufferInv, AddressInv, TypeInv
<1>10. call[u].results[i] \in Bufs
  BY <1>7, <1>9 DEF ModelCalls
<1>11. QED
  BY <1>6, <1>8, <1>10

(* Steps inside a call. *)
LEMMA StepsFilled ==
    ASSUME CellInv, PassThrough = FALSE, NEW th \in Threads, Steps(th)
    PROVE  ResultsFilled'
<1>1. status = "running" /\ call \in [Threads -> IdleCalls \cup WriteCalls
                                          \cup ModelCalls \cup ExportCalls]
  BY DEF Steps, WriteBytes, FinishRun, TrainStep, FetchStep, PublishOutput,
         ReturnOutputs, FinishExport, CellInv, BufferInv, AddressInv, TypeInv,
         TypeOK
<1>2. CASE call' = [call EXCEPT ![th] = Idle] /\ UNCHANGED content
  BY <1>1, <1>2, FilledFrame DEF Idle
<1>3. CASE UNCHANGED << call, content >>
  BY <1>1, <1>3, FilledFrame
<1>4. CASE WriteBytes(th)
  <2>1. call[th].data \in Values
    BY <1>4, CallKinds DEF WriteBytes, WriteCalls, CellInv, BufferInv,
                           AddressInv, TypeInv
  <2>2. \A b \in Bufs : content'[b] \in Values \cup {content[b]}
    BY <1>4, <2>1 DEF WriteBytes, CellInv, BufferInv, AddressInv, TypeInv,
                      TypeOK, HeapTypeOK
  <2>3. call' = [call EXCEPT ![th] = Idle]
    BY <1>4 DEF WriteBytes
  <2>4. QED
    BY <1>1, <2>2, <2>3, FilledFrame DEF Idle
<1>5. CASE FinishRun(th)
  <2>1. ASSUME Fetched(th, Len(call[th].outs), FALSE)
        PROVE  ResultsFilled'
    <3>1. call[th] \in ModelCalls /\ call[th].op \in ModelOps
      BY <1>5, CallKinds DEF FinishRun, ModelOps, CellInv, BufferInv,
                             AddressInv, TypeInv
    <3>2. Len(call[th].outs) \in 0..Len(call[th].outs)
      BY <3>1 DEF ModelCalls
    <3>3. QED
      BY <1>1, <2>1, <3>1, <3>2, FetchedFilled
  <2>2. QED
    BY <1>2, <1>3, <1>5, <2>1 DEF FinishRun, SessionGone, Exhausted, Return
<1>6. CASE TrainStep(th)
  <2>1. CASE UNCHANGED content /\ \E failed \in BOOLEAN :
               call' = [call EXCEPT ![th] =
                          Onward(@, "fetch", @.bufs, << >>, 1, failed)]
    BY <1>1, <2>1, FilledFrame DEF Onward
  <2>2. QED
    BY <1>3, <1>6, <2>1 DEF TrainStep, SessionGone
<1>7. CASE FetchStep(th)
  <2>1. call[th] \in ModelCalls /\ call[th].op \in ModelOps
    BY <1>7, CallKinds DEF FetchStep, ModelOps, CellInv, BufferInv, AddressInv,
                           TypeInv
  <2>2. ASSUME NEW k \in 0..Len(call[th].outs), NEW failed \in BOOLEAN,
               Fetched(th, k, failed)
        PROVE  ResultsFilled'
    BY <1>1, <2>1, <2>2, FetchedFilled
  <2>3. Len(call[th].outs) \in 0..Len(call[th].outs)
    BY <2>1 DEF ModelCalls
  <2>4. QED
    BY <1>3, <1>7, <2>2, <2>3 DEF FetchStep, SessionGone, Exhausted, FetchFailed
<1>8. CASE PublishOutput(th)
  <2>1. CASE /\ UNCHANGED content
             /\ call[th].op = "publish"
             /\ call' = [call EXCEPT ![th] =
                           Onward(@, "publish", @.bufs, @.results, @.next + 1,
                                  @.pending)]
    BY <1>1, <2>1, FilledFrame DEF Onward
  <2>2. QED
    BY <1>3, <1>8, <2>1 DEF PublishOutput, HandOver
<1>9. CASE ReturnOutputs(th)
  BY <1>2, <1>9 DEF ReturnOutputs, Return
<1>10. CASE FinishExport(th)
  BY <1>2, <1>3, <1>10 DEF FinishExport, Return, SessionGone
<1>11. QED
  BY <1>4, <1>5, <1>6, <1>7, <1>8, <1>9, <1>10 DEF Steps

(* The calls that an application makes. *)
LEMMA CallsFilled ==
    ASSUME CellInv, NEW th \in Threads, Calls(th)
    PROVE  ResultsFilled'
<1>1. status = "running" /\ call \in [Threads -> IdleCalls \cup WriteCalls
                                          \cup ModelCalls \cup ExportCalls]
  BY DEF Calls, SetBytes, GetBytes, Close, Create, Export, CloseBundle, Run,
         Train, BeginCall, Ready, CellInv, BufferInv, AddressInv, TypeInv,
         TypeOK
<1>2. ASSUME NEW c, c.op # "publish", UNCHANGED content,
             call' \in {call, [call EXCEPT ![th] = c]}
      PROVE  ResultsFilled'
  BY <1>1, <1>2, FilledFrame
<1>3. CASE UNCHANGED << call, content >>
  BY <1>1, <1>3, FilledFrame
<1>4. ASSUME NEW t \in Tensors, NEW v \in Values, NEW buffer \in ByteBuffers,
             SetBytes(th, t, v, buffer)
      PROVE  ResultsFilled'
  <2>1. \A b \in Bufs : \/ content'[b] = content[b]
                        \/ \A u \in Threads : b \notin call[u].bufs
    BY <1>4, FreeIsUnused
       DEF SetBytes, createBackingTensor, create, CellInv, BufferInv,
           AddressInv, TypeInv, TypeOK, HeapTypeOK
  <2>2. \A u \in Threads : call'[u] = call[u] \/ call'[u].op # "publish"
    BY <1>1, <1>4 DEF SetBytes
  <2>3. QED
    BY <1>1, <2>1, <2>2, FilledFrame
<1>5. ASSUME NEW t \in Tensors, GetBytes(th, t) \/ Close(th, t)
      PROVE  ResultsFilled'
  BY <1>3, <1>5 DEF GetBytes, Close
<1>6. ASSUME NEW b \in Bundles, Create(th, b) \/ CloseBundle(th, b)
      PROVE  ResultsFilled'
  BY <1>3, <1>6 DEF Create, CloseBundle, tensorVars
<1>7. ASSUME NEW b \in Bundles, Export(th, b)
      PROVE  ResultsFilled'
  <2> DEFINE c == [op |-> "export", bundle |-> b, reads |-> {},
                   writes |-> {}, bufs |-> {}]
  <2>1. c.op # "publish" /\ UNCHANGED content
        /\ call' \in {call, [call EXCEPT ![th] = c]}
    BY <1>7 DEF Export
  <2>2. QED
    BY <1>2, <2>1
<1>8. ASSUME NEW b \in Bundles, NEW ins \in SUBSET Tensors,
             NEW outs \in OutputArrays, NEW op \in {"run", "train"},
             BeginCall(th, op, b, ins, outs)
      PROVE  ResultsFilled'
  <2> DEFINE c == [op |-> op, bundle |-> b, reads |-> ins,
                   writes |-> Range(outs), outs |-> outs,
                   bufs |-> { BufferOf(t) : t \in ins },
                   results |-> << >>, next |-> 1, pending |-> FALSE]
  <2>1. c.op # "publish" /\ UNCHANGED content
        /\ call' \in {call, [call EXCEPT ![th] = c]}
    BY <1>8 DEF BeginCall
  <2>2. QED
    BY <1>2, <2>1
<1>9. QED
  BY <1>4, <1>5, <1>6, <1>7, <1>8 DEF Calls, Run, Train

LEMMA CellInvariant ==
    ASSUME Breakable = {}, PassThrough = FALSE
    PROVE  Spec => []CellInv
<1>1. Init => CellInv
  BY BufferStart DEF CellInv, ResultsFilled, Init, TensorInit, Idle
<1>2. CellInv /\ [Next]_vars => CellInv'
  <2> SUFFICES ASSUME CellInv, [Next]_vars PROVE CellInv'
    OBVIOUS
  <2>1. BufferInv' /\ blame' = {}
    BY BufferStep, BlameStep DEF CellInv
  <2>2. CASE UNCHANGED vars
    BY <2>1, <2>2 DEF CellInv, ResultsFilled, vars
  <2>3. QED
    BY <2>1, <2>2, StepsFilled, CallsFilled DEF Next, CellInv
<1>3. QED
  BY <1>1, <1>2, PTL DEF Spec

-----------------------------------------------------------------------------
(***************************************************************************)
(* The refinement mapping.                                                 *)
(***************************************************************************)

(* While the process runs, a cell is what was last put in an open tensor. *)
CellsAreWritten ==
    cells = [t \in Tensors |-> IF t \in closed THEN Uninit ELSE written[t]]

Running == status = "running"

LEMMA RunningCells == CellInv /\ Running => CellsAreWritten
<1> USE DEF Running
<1> SUFFICES ASSUME CellInv, status = "running", NEW t \in Tensors
             PROVE  bytesOf(t) = IF t \in closed THEN Uninit ELSE written[t]
  BY DEF CellsAreWritten, cells
<1>1. Contents /\ FilledHaveHandles
  BY DEF CellInv, BufferInv, AddressInv, Lawful
<1>2. CASE t \in closed
  BY <1>2 DEF bytesOf, Open
<1>3. CASE t \notin closed /\ handle[t] = NULL
  BY <1>1, <1>3 DEF bytesOf, Deref, FilledHaveHandles
<1>4. CASE t \notin closed /\ handle[t] # NULL
  BY <1>1, <1>4 DEF bytesOf, Open, Contents
<1>5. QED
  BY <1>2, <1>3, <1>4

(* The process survives the steps of a lawful client but for exhaustion of *)
(* memory and the aborts of a debug build.                                 *)
LEMMA NoMemoryFault ==
    CellInv => status \notin {"use_after_free", "double_free", "data_race"}
BY DEF CellInv, BufferInv, AddressInv, AddressFaults, Lawful

LEMMA SameHeap ==
    ASSUME UNCHANGED << handle, native, content, closed >>
    PROVE  cells' = cells
BY DEF cells, bytesOf, Deref, BufferOf, Open

LEMMA SameWritten ==
    ASSUME CellInv, CellInv', Running, Running',
           UNCHANGED << written, closed >>
    PROVE  cells' = cells
<1>1. CellsAreWritten /\ CellsAreWritten'
  BY RunningCells, PTL
<1>2. QED
  BY <1>1 DEF CellsAreWritten

LEMMA OneWritten ==
    ASSUME CellInv, CellInv', Running, Running',
           NEW t \in Tensors \ closed, NEW v,
           written' = [written EXCEPT ![t] = v],
           \/ closed' = closed
           \/ closed' = closed \cup {t} /\ v = Uninit
    PROVE  cells' = [cells EXCEPT ![t] = v]
<1>1. CellsAreWritten /\ CellsAreWritten'
  BY RunningCells, PTL
<1>2. written \in [Tensors -> Values \cup {Uninit}]
  BY DEF CellInv, BufferInv, AddressInv, TypeInv, TypeOK, HeapTypeOK
<1>3. QED
  BY <1>1, <1>2 DEF CellsAreWritten

LEMMA NewHold ==
    ASSUME CellInv, NEW th \in Threads, NEW c, call' = [call EXCEPT ![th] = c]
    PROVE  holds' = [holds EXCEPT ![th] = [reads |-> c.reads,
                                           writes |-> c.writes]]
BY DEF holds, CellInv, BufferInv, AddressInv, TypeInv, TypeOK

LEMMA SameHold ==
    ASSUME CellInv, NEW th \in Threads, NEW c, call' = [call EXCEPT ![th] = c],
           c.reads = call[th].reads, c.writes = call[th].writes
    PROVE  holds' = holds
BY DEF holds, CellInv, BufferInv, AddressInv, TypeInv, TypeOK

LEMMA NoHold ==
    ASSUME CellInv, NEW th \in Threads, call' = [call EXCEPT ![th] = Idle]
    PROVE  holds' = [holds EXCEPT ![th] = Cells!Nothing]
BY NewHold DEF Idle, Cells!Nothing

LEMMA SmallSubsets ==
    {} \in SUBSET Tensors /\ \A t \in Tensors : {t} \in SUBSET Tensors
OBVIOUS

(* Calls that start without breaking a rule claim their tensors. *)
LEMMA ChargeIsClaim ==
    ASSUME CellInv, NEW th \in Threads, Ready(th),
           NEW R \in SUBSET Tensors, NEW W \in SUBSET Tensors,
           Charge(th, R, W) = {}
    PROVE  /\ holds[th] = Cells!Nothing
           /\ Cells!Unclaimed(th, R, W)
           /\ (R \cup W) \cap closed = {}
           /\ \A t \in R : cells[t] # Uninit
<1>1. /\ ~Overlaps(th, R, W)
      /\ (R \cup W) \cap closed = {}
      /\ \A t \in R : written[t] # Uninit
  BY UnchargedStart
<1>2. CellsAreWritten
  BY RunningCells DEF Ready, Running
<1>3. \A t \in R : cells[t] # Uninit
  BY <1>1, <1>2 DEF CellsAreWritten
<1>4. holds[th] = Cells!Nothing
  BY DEF holds, Ready, Idle, Cells!Nothing
<1>5. Cells!Unclaimed(th, R, W)
  BY <1>1 DEF Overlaps, Cells!Unclaimed, holds
<1>6. QED
  BY <1>1, <1>3, <1>4, <1>5

-----------------------------------------------------------------------------
(***************************************************************************)
(* Every step of the library is a step of TensorCells, or none.            *)
(***************************************************************************)
Simulated == Cells!Next \/ UNCHANGED Cells!vars

LEMMA NoneSimulated ==
    ASSUME cells' = cells, holds' = holds, closed' = closed
    PROVE  Simulated
BY DEF Simulated, Cells!vars

LEMMA EndSimulated ==
    ASSUME CellInv, NEW th \in Threads, call' = [call EXCEPT ![th] = Idle],
           cells' = cells, closed' = closed
    PROVE  Simulated
BY NoHold DEF Simulated, Cells!Next, Cells!End

LEMMA StartSimulated ==
    ASSUME CellInv, NEW th \in Threads, Ready(th),
           NEW R \in SUBSET Tensors, NEW W \in SUBSET Tensors,
           Charge(th, R, W) = {}, NEW c, call' = [call EXCEPT ![th] = c],
           c.reads = R, c.writes = W, cells' = cells, closed' = closed
    PROVE  Simulated
<1>1. /\ holds[th] = Cells!Nothing
      /\ Cells!Unclaimed(th, R, W)
      /\ (R \cup W) \cap closed = {}
      /\ \A t \in R : cells[t] # Uninit
  BY ChargeIsClaim
<1>2. holds' = [holds EXCEPT ![th] = [reads |-> R, writes |-> W]]
  BY NewHold
<1>3. Cells!Start(th, R, W)
  BY <1>1, <1>2 DEF Cells!Start, Cells!Claim
<1>4. QED
  BY <1>3 DEF Simulated, Cells!Next

LEMMA PutSimulated ==
    ASSUME CellInv, NEW th \in Threads, NEW t \in call[th].writes,
           t \in Tensors, NEW v \in Values,
           cells' = [cells EXCEPT ![t] = v],
           holds' \in {holds, [holds EXCEPT ![th] = Cells!Nothing]},
           closed' = closed
    PROVE  Simulated
<1>1. Cells!Put(th, t, v)
  BY DEF Cells!Put, holds
<1>2. QED
  BY <1>1 DEF Simulated, Cells!Next

LEMMA SetBytesSimulated ==
    ASSUME Breakable = {}, CellInv, CellInv', NEW th \in Threads,
           NEW t \in Tensors, NEW v \in Values, NEW buffer \in ByteBuffers,
           SetBytes(th, t, v, buffer)
    PROVE  Simulated
<1> DEFINE c == [op |-> "writeBytes", reads |-> {}, writes |-> {t},
                 bufs |-> {}, tensor |-> t, data |-> v,
                 direct |-> buffer # "heap"]
<1>1. /\ Ready(th) /\ Charge(th, {}, {t}) = {} /\ closed' = closed
      /\ call' = [call EXCEPT ![th] = c] /\ createBackingTensor(t)
  BY Uncharged DEF SetBytes
<1>2. c.reads = {} /\ c.writes = {t}
  OBVIOUS
<1> HIDE DEF c
<1>3. CASE UNCHANGED << handle, native, content >>
  BY <1>1, <1>2, <1>3, SameHeap, StartSimulated
<1>4. CASE written' = [written EXCEPT ![t] = Uninit] /\ status' = status
  <2>1. t \in Tensors \ closed
    BY <1>1, UnchargedStart
  <2>2. cells' = [cells EXCEPT ![t] = Uninit]
    BY <1>1, <1>4, <2>1, OneWritten DEF Ready, Running
  <2>3. Cells!Claim(th, {}, {t})
    <3>1. /\ holds[th] = Cells!Nothing /\ Cells!Unclaimed(th, {}, {t})
          /\ ({} \cup {t}) \cap closed = {}
      BY <1>1, SmallSubsets, ChargeIsClaim, Zenon
    <3>2. holds' = [holds EXCEPT ![th] = [reads |-> {}, writes |-> {t}]]
      BY <1>1, <1>2, NewHold
    <3>3. QED
      BY <1>1, <3>1, <3>2 DEF Cells!Claim
  <2>4. Cells!Empty(th, t)
    BY <2>2, <2>3 DEF Cells!Empty
  <2>5. QED
    BY <2>4 DEF Simulated, Cells!Next
<1>5. QED
  BY <1>1, <1>3, <1>4 DEF createBackingTensor, create

LEMMA WriteBytesSimulated ==
    ASSUME CellInv, CellInv', NEW th \in Threads, WriteBytes(th)
    PROVE  Simulated
<1> DEFINE t == call[th].tensor
<1>1. /\ status = "running" /\ call[th].op = "writeBytes"
      /\ UNCHANGED << handle, native, closed >>
      /\ call' = [call EXCEPT ![th] = Idle]
  BY DEF WriteBytes
<1>2. call[th] \in WriteCalls /\ CallShapes /\ CallsOpen
  BY <1>1, CallKinds DEF CellInv, BufferInv, AddressInv, TypeInv, Lawful
<1>3. /\ t \in Tensors \ closed /\ t \in call[th].writes
      /\ call[th].data \in Values
  BY <1>1, <1>2 DEF WriteCalls, CallShapes, CallsOpen
<1>4. CASE UNCHANGED content
  BY <1>1, <1>4, SameHeap, EndSimulated
<1>5. CASE /\ written' = [written EXCEPT ![t] = call[th].data]
           /\ status' \in {"running", "data_race"}
  <2>1. status' = "running"
    BY <1>5, NoMemoryFault DEF CellInv, BufferInv, Lawful
  <2>2. cells' = [cells EXCEPT ![t] = call[th].data]
    BY <1>1, <1>3, <1>5, <2>1, OneWritten DEF Running
  <2>3. QED
    BY <1>1, <1>3, <2>2, NoHold, PutSimulated
<1>6. QED
  BY <1>1, <1>4, <1>5 DEF WriteBytes

LEMMA CloseSimulated ==
    ASSUME Breakable = {}, CellInv, CellInv', NEW th \in Threads,
           NEW t \in Tensors, Close(th, t)
    PROVE  Simulated
<1>1. /\ Ready(th) /\ Charge(th, {}, {t}) = {}
      /\ closed' = closed \cup {t} /\ call' = call
      /\ written' = [written EXCEPT ![t] = Uninit]
      /\ status' \in {status, "double_free"}
  BY Uncharged DEF Close
<1>2. status' = "running"
  BY <1>1 DEF Ready, CellInv, BufferInv, AddressInv, AddressFaults, Lawful
<1>3. t \in Tensors \ closed
  BY <1>1, UnchargedStart
<1>4. cells' = [cells EXCEPT ![t] = Uninit]
  BY <1>1, <1>2, <1>3, OneWritten DEF Ready, Running
<1>5. holds' = holds
  BY <1>1 DEF holds
<1>6. Cells!Shut(th, t)
  <2>1. holds[th] = Cells!Nothing /\ Cells!Unclaimed(th, {}, {t})
    BY <1>1, SmallSubsets, ChargeIsClaim, Zenon
  <2>2. QED
    BY <1>1, <1>4, <1>5, <2>1 DEF Cells!Shut
<1>7. QED
  BY <1>6 DEF Simulated, Cells!Next

LEMMA BeginCallSimulated ==
    ASSUME Breakable = {}, CellInv, NEW th \in Threads, NEW op, NEW b,
           NEW ins \in SUBSET Tensors, NEW outs \in OutputArrays,
           BeginCall(th, op, b, ins, outs)
    PROVE  Simulated
<1> DEFINE c == [op |-> op, bundle |-> b, reads |-> ins,
                 writes |-> Range(outs), outs |-> outs,
                 bufs |-> { BufferOf(t) : t \in ins },
                 results |-> << >>, next |-> 1, pending |-> FALSE]
<1>1. /\ Ready(th) /\ UNCHANGED << handle, native, content, closed >>
      /\ call' = call \/ call' = [call EXCEPT ![th] = c]
  BY DEF BeginCall, clientVars
<1>2. Charge(th, ins, Range(outs)) = {}
  BY Uncharged DEF BeginCall
<1>3. c.reads = ins /\ c.writes = Range(outs)
  OBVIOUS
<1>4. Range(outs) \in SUBSET Tensors
  BY DEF OutputArrays, Range
<1> HIDE DEF c
<1>5. CASE call' = call
  BY <1>1, <1>5, SameHeap, NoneSimulated DEF holds
<1>6. CASE call' = [call EXCEPT ![th] = c]
  BY <1>1, <1>2, <1>3, <1>4, <1>6, SameHeap, StartSimulated
<1>7. QED
  BY <1>1, <1>5, <1>6

(* A call goes on inside the library, without touching a Java tensor. *)
LEMMA OnwardSimulated ==
    ASSUME CellInv, CellInv', Running, NEW th \in Threads,
           NEW op, NEW bufs, NEW results, NEW next, NEW pending,
           call' = [call EXCEPT ![th] =
                      Onward(call[th], op, bufs, results, next, pending)],
           UNCHANGED << written, closed, status >>
    PROVE  Simulated
<1>1. Running'
  BY DEF Running
<1>2. cells' = cells
  BY <1>1, SameWritten
<1>3. holds' = holds
  BY SameHold DEF Onward
<1>4. QED
  BY <1>2, <1>3, NoneSimulated

LEMMA FetchedSimulated ==
    ASSUME CellInv, CellInv', Running, NEW th \in Threads, NEW n, NEW failed,
           Fetched(th, n, failed), UNCHANGED << written, closed, status >>
    PROVE  Simulated
<1>1. \E r : call' = [call EXCEPT ![th] =
                        Onward(call[th], "publish", call[th].bufs \cup Range(r),
                               r, 1, call[th].pending \/ failed)]
  BY DEF Fetched
<1>2. QED
  BY <1>1, OnwardSimulated

LEMMA PublishOutputSimulated ==
    ASSUME CellInv, CellInv', NEW th \in Threads, PublishOutput(th)
    PROVE  Simulated
<1> DEFINE t == call[th].outs[call[th].next]
           c == Onward(call[th], "publish", call[th].bufs, call[th].results,
                       call[th].next + 1, call[th].pending)
<1>1. /\ status = "running" /\ call[th].op = "publish" /\ closed' = closed
      /\ call[th].next <= Len(call[th].results)
  BY DEF PublishOutput, clientVars
<1>2. CASE UNCHANGED << call, handle, native, content >>
  BY <1>1, <1>2, SameHeap, NoneSimulated DEF holds
<1>3. CASE /\ written' = [written EXCEPT ![t] = content[NextResult(th)]]
           /\ call' = [call EXCEPT ![th] = c]
           /\ UNCHANGED status
  <2>1. call[th] \in ModelCalls /\ t \in Tensors
    BY <1>1, CallKinds, PublishTypes DEF CellInv, BufferInv, AddressInv, TypeInv
  <2>2. /\ call[th].next \in 1..Len(call[th].outs)
        /\ call[th].next \in call[th].next..Len(call[th].results)
    BY <1>1, <2>1 DEF ModelCalls, CellInv, BufferInv, AddressInv, TypeInv,
                      ResultsMatch
  <2>3. CallShapes /\ CallsOpen
    BY <1>1 DEF CellInv, BufferInv, AddressInv, Lawful
  <2>4. t \in call[th].writes
    BY <1>1, <2>1, <2>2, <2>3 DEF CallShapes, Range, ModelCalls
  <2>5. t \in Tensors \ closed
    BY <2>1, <2>3, <2>4 DEF CallsOpen
  <2>6. content[NextResult(th)] \in Values
    BY <1>1, <2>2 DEF CellInv, ResultsFilled, NextResult
  <2>7. cells' = [cells EXCEPT ![t] = content[NextResult(th)]]
    BY <1>1, <1>3, <2>5, OneWritten DEF Running
  <2>8. holds' = holds
    BY <1>3, SameHold DEF Onward
  <2>9. QED
    BY <1>1, <2>1, <2>4, <2>6, <2>7, <2>8, PutSimulated
<1>4. QED
  BY <1>2, <1>3 DEF PublishOutput, HandOver

LEMMA StepsSimulated ==
    ASSUME CellInv, CellInv', NEW th \in Threads, Steps(th)
    PROVE  Simulated
<1>1. CASE WriteBytes(th)
  BY <1>1, WriteBytesSimulated
<1>2. CASE PublishOutput(th)
  BY <1>2, PublishOutputSimulated
<1>3. CASE FinishRun(th) \/ TrainStep(th) \/ FetchStep(th)
             \/ ReturnOutputs(th) \/ FinishExport(th)
  <2>1. Running /\ UNCHANGED << handle, native, written, closed >>
    BY <1>3 DEF FinishRun, TrainStep, FetchStep, ReturnOutputs, FinishExport,
                clientVars, Running
  <2>2. CASE UNCHANGED << call, content >>
    BY <2>1, <2>2, SameHeap, NoneSimulated DEF holds
  <2>3. CASE Return(th)
    BY <2>1, <2>3, SameHeap, EndSimulated DEF Return
  <2>4. ASSUME NEW n, NEW failed, Fetched(th, n, failed), UNCHANGED status
        PROVE  Simulated
    BY <2>1, <2>4, FetchedSimulated
  <2>5. CASE FinishRun(th)
    BY <2>2, <2>3, <2>4, <2>5 DEF FinishRun, SessionGone, Exhausted
  <2>6. CASE TrainStep(th)
    BY <2>1, <2>2, <2>6, OnwardSimulated DEF TrainStep, SessionGone
  <2>7. CASE FetchStep(th)
    BY <2>2, <2>4, <2>7 DEF FetchStep, FetchFailed, SessionGone, Exhausted
  <2>8. CASE ReturnOutputs(th) \/ FinishExport(th)
    BY <2>2, <2>3, <2>8 DEF ReturnOutputs, FinishExport, SessionGone
  <2>9. QED
    BY <1>3, <2>5, <2>6, <2>7, <2>8
<1>4. QED
  BY <1>1, <1>2, <1>3 DEF Steps

LEMMA CallsSimulated ==
    ASSUME Breakable = {}, CellInv, CellInv', NEW th \in Threads, Calls(th)
    PROVE  Simulated
<1>1. CASE UNCHANGED << handle, native, content, closed, call >>
  BY <1>1, SameHeap, NoneSimulated DEF holds
<1>2. ASSUME NEW t \in Tensors, GetBytes(th, t)
      PROVE  Simulated
  BY <1>1, <1>2 DEF GetBytes
<1>3. ASSUME NEW b \in Bundles, Create(th, b) \/ CloseBundle(th, b)
      PROVE  Simulated
  BY <1>1, <1>3 DEF Create, CloseBundle, tensorVars, clientVars
<1>4. ASSUME NEW b \in Bundles, Export(th, b)
      PROVE  Simulated
  <2> DEFINE c == [op |-> "export", bundle |-> b, reads |-> {},
                   writes |-> {}, bufs |-> {}]
  <2>1. /\ UNCHANGED << handle, native, content, closed >> /\ call[th] = Idle
        /\ call' = call \/ call' = [call EXCEPT ![th] = c]
    BY <1>4 DEF Export, Ready, clientVars
  <2>2. c.reads = call[th].reads /\ c.writes = call[th].writes
    BY <2>1 DEF Idle
  <2> HIDE DEF c
  <2>3. holds' = holds
    BY <2>1, <2>2, SameHold DEF holds
  <2>4. QED
    BY <2>1, <2>3, SameHeap, NoneSimulated
<1>5. QED
  BY <1>2, <1>3, <1>4, SetBytesSimulated, CloseSimulated, BeginCallSimulated
     DEF Calls, Run, Train

(***************************************************************************)
(* For clients that keep to the rules and graphs that forward no input,    *)
(* the tensors of the library are the isolated cells of TensorCells,       *)
(* however many threads call run, train, setBytes, getBytes and close.     *)
(***************************************************************************)
THEOREM LibraryImplementsCells ==
    ASSUME Breakable = {}, PassThrough = FALSE
    PROVE  Spec => ImplementsCells
<1>1. Init => Cells!Init
  <2> SUFFICES ASSUME Init PROVE Cells!Init
    OBVIOUS
  <2>1. cells = [t \in Tensors |-> Uninit]
    BY DEF Init, TensorInit, cells, bytesOf, Deref
  <2>2. holds = [th \in Threads |-> Cells!Nothing]
    BY DEF Init, TensorInit, holds, Idle, Cells!Nothing
  <2>3. QED
    BY <2>1, <2>2 DEF Init, TensorInit, Cells!Init
<1>2. CellInv /\ CellInv' /\ [Next]_vars => [Cells!Next]_(Cells!vars)
  <2> SUFFICES ASSUME CellInv, CellInv', [Next]_vars
               PROVE  [Cells!Next]_(Cells!vars)
    OBVIOUS
  <2>1. CASE UNCHANGED vars
    <3>1. UNCHANGED << handle, native, content, closed, call >>
      BY <2>1 DEF vars
    <3>2. QED
      BY <3>1, SameHeap DEF holds, Cells!vars
  <2>2. CASE Next
    BY <2>2, StepsSimulated, CallsSimulated DEF Next, Simulated
  <2>3. QED
    BY <2>1, <2>2
<1>3. QED
  BY <1>1, <1>2, CellInvariant, PTL DEF Spec, ImplementsCells, Cells!Spec
=============================================================================
